--------------------------- MODULE ExactApproval ----------------------------
(***************************************************************************)
(* What the approval of a plan promises: plans are asked about one after   *)
(* the other, each request gets at most one verdict and keeps it, and a    *)
(* run is granted a plan only by the acceptance of the latest request, for *)
(* the plan that request showed, while the run goes on.                    *)
(***************************************************************************)
EXTENDS Naturals, SequencesExt

CONSTANTS Plans, NoPlan

VARIABLES
    asked,    \* the plans asked about, in order
    verdict,  \* the verdict on each of them
    granted,  \* the plan the run may execute
    over      \* the run has ended

vars == <<asked, verdict, granted, over>>

Init == asked = <<>> /\ verdict = <<>> /\ granted = NoPlan /\ over = FALSE

Ask(plan) ==
    /\ ~over /\ granted = NoPlan
    /\ \A n \in DOMAIN verdict : verdict[n] \in {"rejected", "withdrawn"}
    /\ asked' = Append(asked, plan)
    /\ verdict' = Append(verdict, "open")
    /\ UNCHANGED <<granted, over>>

Decide(v) ==
    /\ verdict # <<>> /\ Last(verdict) = "open"
    /\ v = "lapsed" \/ ~over
    /\ verdict' = Front(verdict) \o <<v>>
    /\ granted' = IF v = "accepted" THEN Last(asked) ELSE granted
    /\ UNCHANGED <<asked, over>>

End == over' = TRUE /\ UNCHANGED <<asked, verdict, granted>>

Next == \/ \E plan \in Plans : Ask(plan)
        \/ \E v \in {"accepted", "rejected", "withdrawn", "lapsed"} : Decide(v)
        \/ End
Spec == Init /\ [][Next]_vars
=============================================================================
