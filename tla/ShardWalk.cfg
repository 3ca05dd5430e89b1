CONSTANTS
    ByteWidth = 2
    WordWidth = 4
    Shard = 1
    FaultKinds = {"fetch", "scan", "crash"}
    MaxBlocks = 4
    MaxFaults = 2
SPECIFICATION FairSpec
INVARIANTS ExactlyOneShard WalkFollowsLine
PROPERTIES ImplementsBlockFeed TrackerReachesLine
CHECK_DEADLOCK FALSE
