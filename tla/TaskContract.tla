---------------------------- MODULE TaskContract ----------------------------
(***************************************************************************)
(* What the scheduler promises its callers of each task, without streams,  *)
(* leases, grants or daemons: a task is dispatched at most once; while it  *)
(* is in flight it holds its capacity; a dispatch whose fate is unknown is *)
(* in doubt, with or without its capacity, and is never dispatched again;  *)
(* an outcome is final and holds nothing.  Scheduler.tla implements this.  *)
(***************************************************************************)
CONSTANT Tasks

VARIABLES phase,    \* where each task is
          holding   \* the tasks that hold capacity

vars == <<phase, holding>>

Init == phase = [t \in Tasks |-> "waiting"] /\ holding = {}

Move(t, p) == phase' = [phase EXCEPT ![t] = p]

\* Cancelled before it was dispatched.
Withdraw(t) == phase[t] = "waiting" /\ Move(t, "ended") /\ UNCHANGED holding

Dispatch(t) ==
    /\ phase[t] = "waiting"
    /\ Move(t, "inFlight")
    /\ holding' = holding \cup {t}

\* Expired, refused or left behind by a crash; the capacity may be given up.
Doubt(t) ==
    /\ phase[t] \in {"inFlight", "inDoubt"}
    /\ Move(t, "inDoubt")
    /\ UNCHANGED holding \/ (phase[t] = "inFlight" /\ holding' = holding \ {t})

\* An outcome is recorded with the release of the capacity it held.
End(t) ==
    /\ phase[t] \in {"inFlight", "inDoubt"}
    /\ t \in holding
    /\ Move(t, "ended")
    /\ holding' = holding \ {t}

Next == \E t \in Tasks : Withdraw(t) \/ Dispatch(t) \/ Doubt(t) \/ End(t)

Spec == Init /\ [][Next]_vars

-----------------------------------------------------------------------------
\* Capacity is held by every task in flight and by no task that waits or has ended.
HeldInFlight ==
    \A t \in Tasks :
        /\ phase[t] = "inFlight" => t \in holding
        /\ t \in holding => phase[t] \in {"inFlight", "inDoubt"}
=============================================================================
