SPECIFICATION ServicesSpec
CONSTANTS
    Threads = {t1, t2}
    NoCall = NoCall
    Calls = {call1}
    Limit = 1
    MaxFaults = 1
    MaxCodes = 2
    Budget = 2
    ProofAge = 3
    MaxGuesses = 2
    PolicyTTL = 3
    PolicyDelay = 2
    MaxAttempts = 3
    AccessLife = 2
    RefreshLife = 3
    TombstoneTTL = 0
    StallWindow = 4
    ProbeInterval = 3
    PollTimeout = 2
    MaxAge = 2
    HandlerBudget = 3
    MaxRun = 6
    PageSize = 1
    MaxRevision = 3
    DoorTTL = 3
    DoorDelay = 2
    Threshold = 3
    CacheTTL = 2
    NegativeTTL = 1
    Checkers = {c1, c2}
    Verifiers = {v1, v2}
    Requests = {r1, r2}
    Signals = {s1, s2}
    Answerers = {a1, a2}
    Units = {u1, u2}
    Modes = {"warn", "error"}
    MaxDepth = 3
    MaxCrashes = 1
    Writers = {w1, w2}
    Rows = {row1, row2}
    Addresses = {a1, a2}
SYMMETRY Symmetry
INVARIANTS
    ServicesTypeOK
    RunsOnce
    LogAgrees
    BudgetKept
    ProvenRecently
    ProtectedInTime
    OwedIsHeard
    DeletionStands
    TombstonesTrue
    WorkSpared
    StallFound
    ReceiptEarned
    AnsweredOnce
    MutationCarriesEvent
    EventNeverLies
    ReaderComplete
    DeletionsHonoured
    VerdictsStand
    ProviderSpared
PROPERTIES
    ImplementsAtLeastOnce
\* The task of a durable reply has a last attempt.
CHECK_DEADLOCK FALSE
