CONSTANTS
    AccountIDs <- MCAccountIDs
    CelPrograms <- MCCelPrograms
    CelEval <- MCCelEval
    Policies <- MCPolicies
    Identities <- MCIdentities
    Now = 0
SPECIFICATION Spec
INVARIANTS
    GrantsByMeaning
    ValidatedIsCompiled
    NamespacesApart
PROPERTY
    DeniesByMeaning
