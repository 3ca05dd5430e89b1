CONSTANTS
    Proxies = {1, 2}
    TonDeposits = {3}
    Outside = {4, 5}
    Cold = 5
    HotWalletMax = 2
    HotWalletMaxCutoff = 3
    JettonTransferTonAmount = 1
    Amounts = {2}
    Balances = {0, 3, 4}
    Limit = 2
    QueryIDs = {1, 2}
SPECIFICATION Spec
INVARIANTS ColdLeavesMaximum NeverOverdrawn UniqueDestinations MessageFits
PROPERTY EveryRequestDecided
CHECK_DEADLOCK FALSE
