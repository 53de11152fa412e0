CONSTANTS
    Tasks = {t1}
    Keys = {}
    Callers = {c1}
    Workers = {w1, w2}
    Deadlines = {t1}
    MaxTries = 2
    Grace = 0
    CanCrash = FALSE
    Lossy = FALSE
    MaxTasks = 2
    NoTask = NoTask
    NoKey = NoKey
    NoCall = NoCall
SPECIFICATION Spec
INVARIANTS
    OneExecution
