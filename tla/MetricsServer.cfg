CONSTANTS
    Scrapers = {"s1", "s2", "s3"}
SPECIFICATION Spec
INVARIANT
    SuccessIsGraceful
PROPERTIES
    ServeReturns
    AcceptorEnds
CHECK_DEADLOCK FALSE
