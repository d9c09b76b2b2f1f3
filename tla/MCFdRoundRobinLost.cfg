SPECIFICATION Spec
CONSTANTS
    a = a
    b = b
    c = c
    d = d
    e = e
    Coro = {a, b, c, d}
    NoCoro = NoCoro
    Fd = {0, 1}
    NoFd = NoFd
    Initial <- FourReaders
    Spawners = {}
    Capacity = 4
CHECK_DEADLOCK FALSE
INVARIANT WaiterFound
