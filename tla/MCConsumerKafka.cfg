CONSTANTS
    Workers = {w1, w2}
    Count = 2
    Backends = {"kafka"}
    Undecodable = {1}
    Broken = {}
    Batch = 2
    MaxFaults = 1
    NoWorker = NoWorker
SPECIFICATION Spec
INVARIANTS
    NothingLost
