SPECIFICATION FairSpec
CONSTANTS
    c1 = c1
    c2 = c2
    c3 = c3
    c4 = c4
    c5 = c5
    Coro = {c1, c2, c3, c4, c5}
    None = None
INVARIANTS
    TypeOK
    HandlesSuspended
PROPERTIES
    ImplementsAsyncCall
    AllRunToTheirEnd
CHECK_DEADLOCK FALSE
