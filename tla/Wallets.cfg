CONSTANTS
    Users = {u1, u2}
    Requests = {r1, r2}
    Seeds = {s1, s2}
    Configs <- ThreeConfigs
    DefaultSubwallet = 1
    MaxUint32 = 6
    TonInShard = {2, 3, 5}
    JettonInShard <- SomeInShard
    MaxStarts = 2
SPECIFICATION Spec
INVARIANTS AnswersAreOwn OwnersAreRight OneSeed IncomeReportedOnce
CHECK_DEADLOCK FALSE
