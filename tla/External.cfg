CONSTANTS
    AllowableBlockchainLagging = 1
    FaultKinds = {"fetch", "scan", "crash", "db"}
    MaxTime = 7
    MaxBlocks = 3
    MaxFaults = 1
    Requests = {1, 2}
    Dest <- OwnDest
    ExternalMessageLifetime = 1
    ExternalWithdrawalPeriod = 2
    SyncDelay = 1
    MaxMsgs = 2
SPECIFICATION TimelySpec
INVARIANTS TypeOK OneOpenRow PaidAtMostOnce NoExpiredPayment ConfirmedOrFailed ConfirmedIsPaid FailureIsRecorded NoOverlappingMessages
PROPERTIES ImplementsLedger ConfirmedForever
CHECK_DEADLOCK FALSE
