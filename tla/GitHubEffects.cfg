SPECIFICATION Spec
CONSTANTS
    c1 = c1  c2 = c2  push = push  pull = pull  A = A
    Calls = {c1, c2}
    NoCall = NoCall
    Pushes = {push}
    Pulls = {pull}
    NoGrant = NoGrant
    Commit <- MCCommit
    Old <- MCOld
    NeedsPush <- MCNeedsPush
    Zero = Zero
    Foreign = Foreign
    MaxReconciliations = 2
    MaxMoves = 2
    MaxLapses = 1
    MaxElapsed = 1
SYMMETRY Symmetry
INVARIANTS SentIsAskable
PROPERTIES ImplementsExactEffect
CHECK_DEADLOCK FALSE
