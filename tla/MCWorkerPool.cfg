SPECIFICATION FairSpec
CONSTANTS
    w1 = w1
    w2 = w2
    r1 = r1
    r2 = r2
    k1 = k1
    k2 = k2
    Worker = {w1, w2}
    Coro = {r1, r2, k1, k2}
    Root = {r1, r2}
    Valued = {k1}
    None = None
INVARIANTS
    TypeOK
    HandlesSuspended
PROPERTIES
    StaysOnItsWorker
    ImplementsAsyncCall
    PushedIsResumed
CHECK_DEADLOCK FALSE
