\* Two pools that may share a title or bear an untidy one, and counts on both
\* sides of every limit: ten loads are two here, three are one.  One facility and
\* one pool have texts that the models refuse.
CONSTANTS
    north = north
    south = south
    Blank = Blank
    Nothing = Nothing
    Lookups = {l1}
    Loads = {x1, x2}
    Pools = {p1, p2}
    Titles <- MCTitles
    Trailers = {van}
    Facilities = {dock, yard}
    Cargoes <- MCCargoes
    Fitting <- MCFitting
    van = van
    dock = dock
    yard = yard
    p1 = p1
    Sample = 2
    Floor = 1
    Active = 2
SPECIFICATION Spec
INVARIANTS
    TypeOK
PROPERTIES
    NothingThin
    RowsRefusedForCause
    BandFitsEquipment
    NeverGuesses
    KeepsPromise
SYMMETRY MarketSymmetry
CHECK_DEADLOCK FALSE
