CONSTANTS
    AllowableBlockchainLagging = 1
    FaultKinds = {"fetch", "scan", "crash", "db"}
    MaxTime = 3
    MaxBlocks = 5
    MaxFaults = 1
    ExternalMessageLifetime = 1
    MinimalWithdrawal = 0
    SendDelay = 1
    MaxIncomes = 2
    MaxMemos = 2
SPECIFICATION TimelySpec
INVARIANTS OneOpenSweep AmountIsSwept NoExpiredSweep IncomesAreFound
CHECK_DEADLOCK FALSE
