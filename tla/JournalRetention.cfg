SPECIFICATION Spec
CONSTANTS
    Procs = {p1, p2}
    Readers = {r1}
    Boundaries = {1, 2}
    Starts = {0}
    MaxEvents = 1
    PageSize = 2
    MaxAppends = 1
    MaxReads = 1
    MaxCalls = 4
    MaxTroubles = 2
    MaxTogether = 5
SYMMETRY Symmetry
INVARIANTS AuditIsTrue InterruptedIsSettled
PROPERTIES ImplementsCompleteLog DeletionIsSafe
CHECK_DEADLOCK FALSE
