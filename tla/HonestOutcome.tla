--------------------------- MODULE HonestOutcome ---------------------------
(***************************************************************************)
(* What a task promises, without events, leases or worktrees: its change   *)
(* lands at most once and only while the task is open; the evidence comes  *)
(* after the landing and before anything is thrown away; and the task ends *)
(* as completed only with that evidence, and in any other way only if its  *)
(* change did not land or is known to have.  TaskRecovery implements this. *)
(***************************************************************************)
VARIABLES landed,     \* the change is on the integration branch
          evidence,   \* the journal says so
          kept,       \* the worktree of the task, or its branch, still holds the change
          outcome     \* "open", "completed", "failed"

vars == <<landed, evidence, kept, outcome>>

Init == landed = FALSE /\ evidence = FALSE /\ kept = TRUE /\ outcome = "open"

Land ==
    /\ outcome = "open" /\ ~landed
    /\ landed' = TRUE
    /\ UNCHANGED <<evidence, kept, outcome>>

Record ==
    /\ outcome = "open" /\ landed /\ ~evidence
    /\ evidence' = TRUE
    /\ UNCHANGED <<landed, kept, outcome>>

Discard ==
    /\ kept /\ evidence
    /\ kept' = FALSE
    /\ UNCHANGED <<landed, evidence, outcome>>

End ==
    /\ outcome = "open"
    /\ \/ outcome' = "completed" /\ evidence
       \/ outcome' = "failed" /\ (landed => evidence)
    /\ UNCHANGED <<landed, evidence, kept>>

Next == Land \/ Record \/ Discard \/ End

Spec == Init /\ [][Next]_vars
=============================================================================
