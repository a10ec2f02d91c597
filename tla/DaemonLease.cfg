SPECIFICATION FairSpec
CONSTANTS
    Daemons = {p1, p2, p3}
    NoProc = NoProc
    Duration = 2
    MaxTime = 3
    MaxLog = 3
INVARIANTS CheckedOwnerStillOwns OneHolder
PROPERTIES DeadOwnerReplaced ImplementsFencedLog
CHECK_DEADLOCK FALSE
