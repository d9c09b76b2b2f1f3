SPECIFICATION Spec
CONSTANTS
    a = a
    b = b
    c = c
    d = d
    e = e
    Coro = {a, b, c, d, e}
    NoCoro = NoCoro
    Fd = {0, 1}
    NoFd = NoFd
    Initial <- FourReaders
    Spawners = {a}
    Capacity = 4
INVARIANTS
    TypeOK
    ConsumersValid
    OneConsumerPerFd
PROPERTIES
    ImplementsReactor
CHECK_DEADLOCK FALSE
