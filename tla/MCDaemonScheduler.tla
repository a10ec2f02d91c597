------------------------- MODULE MCDaemonScheduler -------------------------
(* Small instances of DaemonScheduler: one workload of five tasks, of which     *)
(* each scenario submits some and lets some kinds of disturbance happen.        *)
EXTENDS DaemonScheduler, TLC

CONSTANTS a, b, c, d, e, d1, d2, writers, review, g1, g2, g3, g4, pa, pb

\* a and d compete for the slot of writers, and for the budget; b waits for a;
\* c names the grant of a and needs both kinds; e needs a reviewer only.
MCProject   == [t \in Tasks |-> IF t = d THEN pb ELSE pa]
MCNeed      == [t \in Tasks |-> [k \in Kinds |->
                  IF t = c \/ (t = e /\ k = review) \/ (t # e /\ k = writers) THEN 1 ELSE 0]]
MCBudget    == [t \in Tasks |-> IF t = a THEN 2 ELSE 1]
MCDependsOn == [t \in Tasks |-> IF t = b THEN {a} ELSE {}]
MCGrantOf   == [t \in Tasks |-> CASE t \in {a, c} -> g1 [] t = b -> g2 [] t = d -> g3 [] OTHER -> g4]
MCCapacity  == [k \in Kinds |-> 1]

Scenario(T, E) == [tasks |-> T, events |-> E]

MCScenarios == {Scenario({a, d}, {"cancel", "crash", "lease"}),
                Scenario({a, d}, {"crash", "usage", "deadline"}),
                Scenario({a, b, c}, {"cancel", "grant"}),
                Scenario({a, e}, {"fence", "refusal", "shutdown"})}

\* One task, and everything but an unanswered ps; or no deadline that comes soon either.
ProgressScenarios == {Scenario({a}, Events \ {"ps"}), Scenario({a}, Events \ {"ps", "deadline"})}

Symmetry == Permutations({d1, d2})
=============================================================================
