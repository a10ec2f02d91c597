SPECIFICATION Spec
CONSTANTS
    Run = Run
    r1 = r1  r2 = r2
    Recoverers = {r1,r2}
    Duties <- MCDuties
    NoProc = NoProc
SYMMETRY Symmetry
INVARIANTS CompletedIsClean LandedIsRecoverable
PROPERTIES ImplementsHonestOutcome
CHECK_DEADLOCK FALSE
