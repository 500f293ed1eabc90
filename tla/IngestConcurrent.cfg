\* Two ingests at a time, three runs; operators stop starting runs in the end.
CONSTANTS
    A = A
    B = B
    n1 = n1
    n2 = n2
    x = x
    y = y
    NoRow = NoRow
    NoJob = NoJob
    Registries = {A, B}
    Natives = {n1, n2}
    Bodies = {x, y}
    Writers = {w1, w2}
    Definitions <- MCDefinitions
    Captures <- MCMeetingCaptures
    MaxRuns = 3
SPECIFICATION FairSpec
INVARIANTS
    SearchIsAligned
    IngestInv
PROPERTIES
    OnlySuccessChangesKnowledge
    ExposureNeedsCapture
    RetirementNeedsAbsence
    SuccessMeansSearchable
    EveryRunEnds
CHECK_DEADLOCK FALSE
