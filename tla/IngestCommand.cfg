\* Three sources of the three enabled kinds; operators edit the registry file.
CONSTANTS
    F = F
    O = O
    R = R
    a = a
    b = b
    m = m
    n = n
    c1 = c1
    c2 = c2
    c3 = c3
    k1 = k1
    k2 = k2
    p1 = p1
    p2 = p2
    Paths = {p1, p2}
    NoRow = NoRow
    All = All
    Nothing = Nothing
    Registries = {F, O, R}
    Natives <- MCNatives
    Bodies <- MCBodies
    Lines = {a, b, m, n}
    LineSize <- MCLineSize
    Relevant = {a, m}
    OmeLimit = 2
    SourceKind <- MCSourceKind
    Holdings <- MCHoldings
    Files <- MCFiles
    ChunkLimits = {5, 6, 9}
SPECIFICATION Spec
INVARIANTS
    TypeOK
    TranscriptsStayInternal
    DoneMeansPublished
    ChunksAreFaithful
    ConversationsAreWhole
PROPERTIES
    RetiredForCause
