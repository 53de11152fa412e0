CONSTANTS
    Tasks = {t1, t2}
    Keys = {}
    Callers = {c1}
    Workers = {w1, w2}
    Deadlines = {t1}
    MaxTries = 2
    Grace = 0
    CanCrash = TRUE
    Lossy = FALSE
    MaxTasks = 1
    NoTask = NoTask
    NoKey = NoKey
    NoCall = NoCall
SPECIFICATION LiveSpec
INVARIANTS
    AttemptNumbersUnique
PROPERTIES
    RetryTaken
    Settles
