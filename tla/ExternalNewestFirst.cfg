CONSTANTS
    AllowableBlockchainLagging = 1
    FaultKinds = {}
    MaxTime = 7
    MaxBlocks = 4
    MaxFaults = 0
    Requests = {1}
    Dest <- OwnDest
    ExternalMessageLifetime = 1
    ExternalWithdrawalPeriod = 2
    SyncDelay = 1
    MaxMsgs = 2
SPECIFICATION KeptSyncSpec
INVARIANT PaidAtMostOnce
CHECK_DEADLOCK FALSE
