CONSTANTS
    Tasks = {t1, t2}
    Keys = {k}
    Callers = {c1}
    Workers = {w1, w2}
    Deadlines = {t1}
    MaxTries = 2
    Grace = 0
    CanCrash = FALSE
    Lossy = TRUE
    MaxTasks = 2
    NoTask = NoTask
    NoKey = NoKey
    NoCall = NoCall
SPECIFICATION Spec
SYMMETRY ThreadSymmetry
CONSTRAINT Narrowed
INVARIANTS
    OneHandlerPerTask
    AttemptsBounded
    LiveKeyUnique
    OutcomeAnnounced
PROPERTIES
    OutcomeFinal
