SPECIFICATION MCSpec
CONSTANTS
    a = a
    b = b
    c = c
    d = d
    e = e
    Coro = {a, b, c, d, e}
    NoCoro = NoCoro
    Fd = {0, 1}
    NoFd = NoFd
    Initial <- TwoReaders
    Spawners = {a}
    Capacity = 4
INVARIANTS
    TypeOK
    WaitersValid
    ToDeleteIsDead
PROPERTIES
    OneDeathPerRoundIsSafe
    EventuallyResumed
    ImplementsReactor
CHECK_DEADLOCK FALSE
