CONSTANTS
    AccountIDs <- MCAccountIDs
    CelPrograms <- MCCelPrograms
    CelEval <- MCCelEval
    Policies <- MCPolicies
    Identities <- MCIdentities
    Now = 0
SPECIFICATION Spec
INVARIANT
    AWSClaimsApart
