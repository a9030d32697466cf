CONSTANTS
    Workers = {w1}
    Tokens <- MCTokens
    NoToken = NoToken
    TPS = 1
    StartClock = 0
    MaxClock = 1
    MaxGens = 3
    MaxRequests = 2
    AccountIDs = {}
    CelPrograms = {}
    CelEval <- MCCelEval
    Providers = {"github"}
    Published <- MCPublished
    Configs <- MCConfigs
    InitConfig <- Cfg
    ConfigFiles <- MCConfigFiles
    PolicyFiles <- MCPolicyFiles
    MaxEdits = 1
    MaxHups = 2
    Seeds = {"S1"}
SPECIFICATION ServiceSpec
CONSTRAINT
    Affordable
INVARIANTS
    RevocationTakesEffect
    GrantedByValid
    WithdrawnKeysRefused
PROPERTY
    ServiceKeepsPromise
