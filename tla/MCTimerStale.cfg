SPECIFICATION Spec
CONSTANTS
    t1 = t1
    t2 = t2
    t3 = t3
    Task = {t1, t2}
    Delays = {1, 2}
    Horizon = 3
    None = None
INVARIANT SignalFindsTimer
CHECK_DEADLOCK FALSE
