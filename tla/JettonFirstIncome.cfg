CONSTANTS
    AllowableBlockchainLagging = 1
    FaultKinds = {}
    MaxTime = 2
    MaxBlocks = 4
    MaxFaults = 0
    ExternalMessageLifetime = 1
    WithdrawalCutoff = 0
    TransferFailures = {}
    Deployed = FALSE
    MaxTxs = 1
    MaxIncomes = 1
    MaxMemos = 1
SPECIFICATION TimelySpec
INVARIANT NothingUnreadable
CHECK_DEADLOCK FALSE
