CONSTANTS
    AccountIDs = {}
    CelPrograms = {}
    CelEval <- MCCelEval
    TPS = 1
    Seeds = {"S1", "S2"}
    MaxEdits = 2
    MaxHups = 2
    ConfigFiles <- MCConfigFiles
    PolicyFiles <- MCPolicyFiles
SPECIFICATION Spec
INVARIANTS
    WarningMeansDrift
