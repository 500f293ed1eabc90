\* One search among ingests of one registry entry.
CONSTANTS
    A = A
    B = B
    n1 = n1
    n2 = n2
    x = x
    y = y
    NoRow = NoRow
    Nothing = Nothing
    Registries = {A}
    Natives = {n1, n2}
    Bodies = {x, y}
    Searches = {q1}
    Definitions <- MCOneEntry
    Captures <- MCPairs
    MaxTime = 3
SPECIFICATION Spec
INVARIANTS
    TimingInv
    NothingStaleIsShown
    NothingLastingIsMissed
PROPERTIES
    UndisturbedIsExact
CHECK_DEADLOCK FALSE
