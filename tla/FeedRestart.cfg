CONSTANTS
    AllowableBlockchainLagging = 1
    FaultKinds = {"crash"}
    MaxTime = 1
    MaxBlocks = 4
    MaxFaults = 1
SPECIFICATION FeedFairSpec
PROPERTY EveryBlockSaved
CHECK_DEADLOCK FALSE
