SPECIFICATION DaemonSpec
CONSTANTS
    a = a  b = b  c = c  d = d  e = e  d1 = d1  d2 = d2  writers = writers  review = review
    g1 = g1  g2 = g2  g3 = g3  g4 = g4  pa = pa  pb = pb
    Tasks = {a, b, c, d, e}
    Projects = {pa, pb}
    Kinds = {writers, review}
    Grants = {g1, g2, g3, g4}
    Project <- MCProject
    Need <- MCNeed
    Budget <- MCBudget
    DependsOn <- MCDependsOn
    Admissible = {a, b, c, d, e}
    GrantOf <- MCGrantOf
    Capacity <- MCCapacity
    BudgetLimit = 2
    Effectful = {a}
    Incs = {d1, d2}
    NoInc = NoInc
    NoTask = NoTask
    Streaming = {a}
    Scenarios <- MCScenarios
SYMMETRY Symmetry
INVARIANTS FlightIsBacked StreamsAgree LimitsRespected GrantSpentOnce DependenciesFirst LiveWorkerIsHeld
PROPERTIES SpawnedOnce
CHECK_DEADLOCK FALSE
