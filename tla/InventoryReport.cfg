\* Two calls of up to two lines, reports that are broken off at any time, in
\* the middle of writing too.
CONSTANTS
    Calls = {c1, c2}
    Lines <- MCLines
    Categories <- MCCategories
    MaxLines = 2
    Nothing = Nothing
    Torn = Torn
SPECIFICATION Spec
INVARIANTS
    EveryQuestionOnce
    CarriersAskedThem
    WordingGoesFirst
CHECK_DEADLOCK FALSE
