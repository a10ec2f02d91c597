--------------------------- MODULE MCRunApproval ----------------------------
(***************************************************************************)
(* Two planning requests, for the same plan or not, a question, and a call *)
(* whose admission depends on what all of them touch.                      *)
(***************************************************************************)
EXTENDS RunApproval

CONSTANTS p1, p2, c1, c2, q1, a1, planA, planB, s1, s2

MCProposals == [c \in Asks |-> IF c = c1 THEN {planA} ELSE {planA, planB}]
MCTouches == [d \in Decisions |-> IF d = q1 THEN {s2} ELSE {s1}]
MCConsiders == [a \in Admissions |-> {s1, s2}]
Symmetry == Permutations(Procs)
=============================================================================
