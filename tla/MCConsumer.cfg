CONSTANTS
    Workers = {w1, w2}
    Count = 2
    Backends = {"kafka", "nats", "redis"}
    Undecodable = {1}
    Broken = {}
    Batch = 2
    MaxFaults = 2
    NoWorker = NoWorker
SPECIFICATION FairSpec
INVARIANTS
    NothingLostUnrecorded
PROPERTIES
    NeverRewound
    ImplementsAtLeastOnce
    EveryMessageMet
