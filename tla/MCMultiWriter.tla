---------------------------- MODULE MCMultiWriter ----------------------------
(***************************************************************************)
(* Two milestones in one process: two writers on one model that fit one    *)
(* wave, the second reviewed by its own execution, and, on a model with a  *)
(* single slot, one writer that follows the review of another.             *)
(***************************************************************************)
EXTENDS MultiWriter, TLC

CONSTANTS m1, m2, a, b, c, d, x, y

MCPlan == m1 :> <<a, b>> @@ m2 :> <<c, d>>
MCModelOf == a :> x @@ b :> y @@ c :> x @@ d :> y
MCModelLimit == x :> 2 @@ y :> 1
MCMilestoneLimit == m1 :> 2 @@ m2 :> 1
MCDependsOn == [w \in Writers |-> {}]
MCDependsOnReview == [w \in Writers |-> IF w = d THEN {c} ELSE {}]
MCOverlapping == {}
MCRuns == m1 :> 1 @@ m2 :> 2
MCReviewed == {b, c}
==============================================================================
