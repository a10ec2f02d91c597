SPECIFICATION WritersSpec
CONSTANTS
    m1 = m1  m2 = m2  a = a  b = b  c = c  d = d  x = x  y = y
    Milestones = {m1, m2}
    Writers = {a, b, c, d}
    Models = {x, y}
    Plan <- MCPlan
    ModelOf <- MCModelOf
    GlobalLimit = 2
    ModelLimit <- MCModelLimit
    MilestoneLimit <- MCMilestoneLimit
    DependsOn <- MCDependsOn
    DependsOnReview <- MCDependsOnReview
    Overlapping <- MCOverlapping
    ExecutionReviewed <- MCReviewed
    MaxRuns <- MCRuns
    MaxTroubles = 1
INVARIANTS CapacityRespected HeadDoesNotFit
PROPERTIES LaunchedOnce FollowsIntegration
CHECK_DEADLOCK FALSE
