\* The documentation says that capture is lossless; two ingests at a time are not.
CONSTANTS
    A = A
    B = B
    n1 = n1
    n2 = n2
    x = x
    y = y
    NoRow = NoRow
    NoJob = NoJob
    Registries = {A, B}
    Natives = {n1, n2}
    Bodies = {x, y}
    Writers = {w1, w2}
    Definitions <- MCTwoPublic
    Captures <- MCFewCaptures
    MaxRuns = 3
SPECIFICATION Spec
INVARIANTS
    Lossless
CHECK_DEADLOCK FALSE
