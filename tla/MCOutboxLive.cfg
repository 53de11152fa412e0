CONSTANTS
    Events = {e1, e2}
    Relays = {r1}
    Web = web
    InProcess = {e2}
    Async = {e1}
    Poison = {}
    BreaksTx = TRUE
    Rejectable = {}
    BatchLimits = {1, 2}
    Times = {1, 2}
    MaxAttempts = 1
    MaxQueued = 1
    MaxCrashes = 1
SPECIFICATION FairSpec
CONSTRAINT
    Ranked
PROPERTIES
    ImplementsAtLeastOnce
    BusDelivered
