CONSTANTS
    Events = {e1, e2}
    Relays = {r1}
    Web = web
    InProcess = {e2}
    Async = {}
    Poison = {e2}
    BreaksTx = TRUE
    Rejectable = {}
    BatchLimits = {2}
    Times = {1, 2}
    MaxAttempts = 1
    MaxQueued = 1
    MaxCrashes = 0
SPECIFICATION FairSpec
PROPERTIES
    HealthySettles
