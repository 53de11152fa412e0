CONSTANTS
    Events = {e1, e2}
    Relays = {r1, r2}
    Web = web
    InProcess = {}
    Async = {e2}
    Poison = {}
    BreaksTx = FALSE
    Rejectable = {e2}
    BatchLimits = {2}
    Times = {1}
    MaxAttempts = 1
    MaxQueued = 1
    MaxCrashes = 1
SPECIFICATION Spec
INVARIANTS
    RelayRowsUnsettled
