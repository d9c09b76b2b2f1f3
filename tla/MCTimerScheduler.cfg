SPECIFICATION FairSpec
CONSTANTS
    t1 = t1
    t2 = t2
    t3 = t3
    Task = {t1, t2, t3}
    Delays = {1, 2}
    Horizon = 3
    None = None
INVARIANTS
    TypeOK
    WakeupScheduled
    SchedulerHeld
PROPERTIES
    StoppedPopsNothing
    StopTerminates
    EventuallyWoken
    CallerGoesOn
CHECK_DEADLOCK FALSE
