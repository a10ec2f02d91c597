SPECIFICATION Spec
CONSTANTS
    Procs = {p1, p2}
    NoProc = NoProc
    u1 = u1
    u2 = u2
    Units <- MCUnits
    NoUnit = NoUnit
    MaxAttempts <- MCAttempts
SYMMETRY Symmetry
CONSTRAINT OneKindOfTrouble
INVARIANTS ReadableStream RejectedNeverLands
PROPERTIES CancelledIsFinal ImplementsIntegrationBranch
CHECK_DEADLOCK FALSE
