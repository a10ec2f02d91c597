SPECIFICATION Spec
CONSTANTS
    p1 = p1  p2 = p2  c1 = c1  c2 = c2
    Procs = {p1, p2}
    Claims = {c1, c2}
    Scopes <- MCScopes
    Tree <- MCTree
    Files = 2
    MaxDispatches = 2
    MaxRenewals = 1
    MaxTroubles = 1
SYMMETRY Symmetry
INVARIANTS ClaimsDisjoint NoDispatchOverEffect
PROPERTIES ImplementsPatchOnce
CHECK_DEADLOCK FALSE
