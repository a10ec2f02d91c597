---------------------- MODULE MCRepositoryIntegration ----------------------
(* Two units, one of which may be replanned or corrected once.              *)
EXTENDS RepositoryIntegration, FiniteSets, TLC

CONSTANTS u1, u2

MCUnits    == {u1, u2}
MCAttempts == u1 :> 1 @@ u2 :> 0
Symmetry   == Permutations(Procs)

\* Bound: a behaviour is followed until two of the four troubles have come, a lease that
\* lapsed, a repeated call, a candidate left behind and an operator's unfit input; each
\* alone is followed to its end.
OneKindOfTrouble == Cardinality({t \in 1..4 : history[t]}) <= 1
=============================================================================
