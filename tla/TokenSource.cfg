SPECIFICATION Spec
CONSTANTS
    s1 = s1
    s2 = s2
    c1 = c1
    c2 = c2
    Audiences <- MCAudiences
    Tokens <- MCTokens
    Step = 20000
    MaxClock = 40000
    Sources = {s1, s2}
    Callers = {c1, c2}
    Handlers = {c1}
    Home <- MCHome
    Config <- MCConfig
INVARIANTS TypeOK OneRefresh LastErrorRecent
PROPERTIES CacheNeverTorn KeepsSupply HandlerReturns
