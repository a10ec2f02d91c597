SPECIFICATION Spec
CONSTANTS
    Procs = {p1, p2, p3}
    NoProc = NoProc
    PageSize = 2
    MaxEvents = 3
INVARIANTS AppendIsProjected AloneRecovers
PROPERTIES ImplementsOrderedDelivery
SYMMETRY ProcSymmetry
CHECK_DEADLOCK FALSE
