--------------------------- MODULE MCTaskRecovery ---------------------------
(***************************************************************************)
(* The run of a task and two processes that call recordCompletion, or one  *)
(* and an operator, who retains what has to wait or cleans up what was     *)
(* never leased.  One who does both adds nothing: a bounded cleanup leaves *)
(* a stream alone that a retention is on, and retention reads no worktree  *)
(* a bounded cleanup could have left that the run does not.                *)
(***************************************************************************)
EXTENDS TaskRecovery
LOCAL INSTANCE TLC

CONSTANTS r1, r2

\* Two that record completions; or one, and an operator with a duty of his own.
MCDuties ==
    {[r \in Recoverers |-> {"complete"}]}
      \cup {[r \in Recoverers |-> IF r = o THEN {task} ELSE {"complete"}] :
               o \in Recoverers, task \in {"retain", "bound"}}

Symmetry == Permutations(Recoverers)
=============================================================================
