SPECIFICATION DemoSpec
CONSTANTS
    w1 = w1
    w2 = w2
    w3 = w3
    Worker = {w1, w2, w3}
    Nobody = Nobody
INVARIANTS
    DemoTypeOK
    FreedAfterAllStored
    ResumesSuspended
    MainWaits
PROPERTIES
    ImplementsForkJoin
    MainEnds
CHECK_DEADLOCK FALSE
