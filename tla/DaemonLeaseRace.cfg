SPECIFICATION LeaseSpec
CONSTANTS
    Daemons = {p1, p2}
    NoProc = NoProc
    Duration = 2
    MaxTime = 2
    MaxLog = 1
PROPERTIES NeverAcquiredOverActive
CHECK_DEADLOCK FALSE
