CONSTANTS
    AllowableBlockchainLagging = 1
    FaultKinds = {}
    MaxTime = 1
    MaxBlocks = 4
    MaxFaults = 0
    ExternalMessageLifetime = 1
    WithdrawalCutoff = 0
    TransferFailures = {}
    Deployed = TRUE
    MaxTxs = 1
    MaxIncomes = 1
    MaxMemos = 1
SPECIFICATION TimelySpec
INVARIANT EventsInOrder
CHECK_DEADLOCK FALSE
