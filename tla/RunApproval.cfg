SPECIFICATION Spec
CONSTANTS
    p1 = p1  p2 = p2  c1 = c1  c2 = c2  q1 = q1  a1 = a1
    planA = planA  planB = planB  s1 = s1  s2 = s2
    NoPlan = NoPlan
    Procs = {p1, p2}
    Asks = {c1, c2}
    Proposals <- MCProposals
    Questions = {q1}
    Touches <- MCTouches
    Admissions = {a1}
    Considers <- MCConsiders
    MaxRevisions = 2
    MaxServices = 2
SYMMETRY Symmetry
INVARIANTS RejectionsAreBacked
PROPERTIES ImplementsExactApproval NoAdmissionOverPending
CHECK_DEADLOCK FALSE
