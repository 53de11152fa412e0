CONSTANTS
    Key = {k1, k2}
    Consumers = {c1, c2}
    MaxRevision = 2
    Position <- MCPosition
    MaxRebuilds = 1
    MaxFaults = 1
    NoKey = NoKey
SPECIFICATION FairSpec
PROPERTIES
    FollowsOwner
    CatchesUp
