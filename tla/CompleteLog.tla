---------------------------- MODULE CompleteLog -----------------------------
(***************************************************************************)
(* What a journal promises those who read it, however much of it has been  *)
(* archived and deleted: the committed events are the positions 1..n, none *)
(* of them is ever lost, and a reader that pages through them gets every   *)
(* event, in order and none of them twice.                                 *)
(***************************************************************************)
EXTENDS Naturals, FiniteSets

CONSTANT Readers

VARIABLES
    history,  \* the positions that can be read
    seen      \* the positions a reader has got

vars == <<history, seen>>

UpTo(s) == s = 1..Cardinality(s)

Init == history = {} /\ seen = [r \in Readers |-> {}]

Commit ==
    /\ UpTo(history') /\ history \subseteq history'
    /\ UNCHANGED seen

Read(r) ==
    /\ UNCHANGED history
    /\ UpTo(seen'[r]) /\ seen[r] \subseteq seen'[r] /\ seen'[r] \subseteq history
    /\ \A q \in Readers \ {r} : seen'[q] = seen[q]
    /\ DOMAIN seen' = Readers

Next == Commit \/ \E r \in Readers : Read(r)
Spec == Init /\ [][Next]_vars
=============================================================================
