CONSTANTS
    Workers = {w1}
    NoToken = NoToken
    TPS = 2
    StartClock = 4
    MaxClock = 7
    MaxGens = 2
    MaxRequests = 2
    AccountIDs <- MCAccountIDs
    CelPrograms <- MCCelPrograms
    CelEval <- MCCelEval
    Providers <- TwoProviders
    Published <- MCPublished
    Configs <- OldAndNew
    InitConfig <- Old
    Tokens <- ReloadTokens
SPECIFICATION Spec
INVARIANTS
    TypeOK
    GrantFromOneConfig
    GrantExpiry
    ReloadForgetsKeys
PROPERTIES
    KeepsPromise
