CONSTANTS
    Deposits = {1, 2}
    Proxies = {3}
    Deployed = {1, 3}
    HotLimit = 2
    DepositLimit = 2
    MaxRequests = 2
    MaxFaults = 1
SPECIFICATION FairSpec
INVARIANTS SentIsRecorded
PROPERTIES SentOnce RequestsSettled
CHECK_DEADLOCK FALSE
