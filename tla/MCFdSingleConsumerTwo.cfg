SPECIFICATION Spec
CONSTANTS
    a = a
    b = b
    c = c
    d = d
    e = e
    Coro = {a, b}
    NoCoro = NoCoro
    Fd = {0, 1}
    NoFd = NoFd
    Initial <- TwoReaders
    Spawners = {}
    Capacity = 2
INVARIANT ThrownForASharedFd
CHECK_DEADLOCK FALSE
