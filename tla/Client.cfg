CONSTANTS
    h1 = h1
    h2 = h2
    c1 = c1
    Callers = {h1, h2, c1}
    Handlers = {h1, h2}
    TokenPath = "token"
    Lifetime = 2
    MaxClock = 3
SPECIFICATION ClientSpec
CONSTRAINT
    Apart
INVARIANTS
    LastErrorRecent
    PicksUpRotation
PROPERTIES
    KeepsSupply
    NeverResent
SYMMETRY MCSymmetry
