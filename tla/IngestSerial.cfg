\* One ingest at a time, as the command line runs them.
CONSTANTS
    A = A
    B = B
    n1 = n1
    n2 = n2
    x = x
    y = y
    NoRow = NoRow
    NoJob = NoJob
    Registries = {A, B}
    Natives = {n1, n2}
    Bodies = {x, y}
    Writers = {w1}
    Definitions <- MCDefinitions
    Captures <- MCCaptures
    MaxRuns = 4
SPECIFICATION Spec
INVARIANTS
    ValidIffSupported
PROPERTIES
    RefinesKnowledgeBase
CHECK_DEADLOCK FALSE
