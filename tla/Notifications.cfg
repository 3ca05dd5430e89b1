CONSTANTS
    AllowableBlockchainLagging = 1
    FaultKinds = {"fetch", "scan", "webhook", "crash"}
    MaxTime = 1
    MaxBlocks = 5
    MaxFaults = 2
    Notificators <- QueueAndWebhook
    Attempts = 2
    ClientTimeout = 3
    ScanTimeout = 4
    MaxIncomes = 2
SPECIFICATION FairSpec
INVARIANTS FeedTypeOK SavedIsNotified LossesExplained
PROPERTIES EveryBlockSettled ServiceCatchesUp
CHECK_DEADLOCK FALSE
