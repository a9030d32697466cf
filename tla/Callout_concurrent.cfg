CONSTANTS
    Workers = {w1, w2}
    NoToken = NoToken
    TPS = 2
    StartClock = 4
    MaxClock = 5
    MaxGens = 1
    MaxRequests = 3
    AccountIDs <- MCAccountIDs
    CelPrograms <- MCCelPrograms
    CelEval <- MCCelEval
    Providers <- OneProvider
    Published <- MCPublished
    Configs <- OnlyOld
    InitConfig <- Old
    Tokens <- ConcurrentTokens
SPECIFICATION Spec
INVARIANTS
    DenialsAddUp
PROPERTIES
    EveryRequestAnswered
