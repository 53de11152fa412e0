CONSTANTS
    x = x
    y = y
    Threads = {t1, t2}
    NoThread = none
    Events = {e1, e2, e3}
    Routed = {e3}
    Subjects = {x, y}
    Merges <- MCMerges
    Size = 2
    MaxExtend = 2
    PageSize = 1
SPECIFICATION Spec
SYMMETRY ThreadSymmetry
INVARIANTS
    OnePlace
    FlushCovers
PROPERTIES
    RekeyMovesAll
