\* Two lookups, of an application and of one whose id cannot be part of a path,
\* while Carrier Hub moves on.
CONSTANTS
    safeland = safeland
    w9 = w9
    rmis = rmis
    Nothing = Nothing
    Lookups = {l1, l2}
    Applications = {app1, odd}
    Addressable = {app1}
    Trainings = {safeland, w9}
    Vendors = {rmis}
    Forms <- MCForms
    MaxVersion = 1
SPECIFICATION Spec
INVARIANTS
    TypeOK
    EveryRequirementListed
    RefusedForCause
    CardIsFresh
PROPERTIES
    KeepsPromise
SYMMETRY LookupSymmetry
CHECK_DEADLOCK FALSE
