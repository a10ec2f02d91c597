----------------------------- MODULE PatchOnce ------------------------------
(***************************************************************************)
(* What a claimed worktree promises those who build on it: the patch of a  *)
(* claim is written at most once, file by file; one that was cut short is  *)
(* never resumed and never started again; and only a patch that is there   *)
(* as a whole is accepted.                                                 *)
(***************************************************************************)
EXTENDS Naturals

CONSTANTS Claims, Files

VARIABLES
    phase,    \* how far the patch of a claim has come
    written,  \* the number of its files that are written
    accepted  \* the claims whose patch was accepted

vars == <<phase, written, accepted>>

Init == /\ phase = [c \in Claims |-> "none"]
        /\ written = [c \in Claims |-> 0]
        /\ accepted = {}

Moves(c, from, to) == phase[c] = from /\ phase' = [phase EXCEPT ![c] = to]

Begin(c) == Moves(c, "none", "writing") /\ UNCHANGED <<written, accepted>>
Write(c) == /\ phase[c] = "writing" /\ written[c] < Files
            /\ written' = [written EXCEPT ![c] = @ + 1]
            /\ UNCHANGED <<phase, accepted>>
Finish(c) == /\ written[c] = Files
             /\ Moves(c, "writing", "whole")
             /\ UNCHANGED <<written, accepted>>
Cut(c) == Moves(c, "writing", "cut") /\ UNCHANGED <<written, accepted>>
Accept(c) == /\ phase[c] = "whole"
             /\ accepted' = accepted \union {c}
             /\ UNCHANGED <<phase, written>>

Next == \E c \in Claims : Begin(c) \/ Write(c) \/ Finish(c) \/ Cut(c) \/ Accept(c)
Spec == Init /\ [][Next]_vars
=============================================================================
