CONSTANTS
    AllowableBlockchainLagging = 1
    FaultKinds = {"fetch", "scan", "crash", "db"}
    MaxTime = 3
    MaxBlocks = 4
    MaxFaults = 1
    ExternalMessageLifetime = 1
    WithdrawalCutoff = 0
    TransferFailures = {}
    Deployed = TRUE
    MaxTxs = 2
    MaxIncomes = 2
    MaxMemos = 2
SPECIFICATION TimelySpec
INVARIANTS OneOpenJettonSweep IncomesAreReal FinishedIsSwept NoExpiredJettonSweep NothingStranded
CHECK_DEADLOCK FALSE
