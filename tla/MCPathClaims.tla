---------------------------- MODULE MCPathClaims ----------------------------
(***************************************************************************)
(* Two processes; a claim on a directory and one on a file in it.          *)
(***************************************************************************)
EXTENDS PathClaims

CONSTANTS p1, p2, c1, c2

MCScopes == [c \in {c1, c2} |->
    IF c = c1 THEN {[path |-> <<"src">>, all |-> TRUE]}
    ELSE {[path |-> <<"src", "a">>, all |-> FALSE]}]
MCTree == {<<"src", "a">>, <<"src", "b">>, <<"docs">>}
Symmetry == Permutations(Procs)
=============================================================================
