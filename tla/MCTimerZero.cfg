SPECIFICATION Spec
CONSTANTS
    t1 = t1
    t2 = t2
    t3 = t3
    Task = {t1, t2}
    Delays = {0, 1}
    Horizon = 3
    None = None
INVARIANT WakeupScheduled
CHECK_DEADLOCK FALSE
