---------------------------- MODULE RunLifecycle ----------------------------
(***************************************************************************)
(* The event stream of a run, runs/run-projection.ts: what the projection  *)
(* keeps of it, and each event as the condition under which the projection *)
(* accepts it and the view it leads to. A request for approval is known by *)
(* its place in "requests"; it is "fresh" while its event is the last one  *)
(* of the stream, which is what acceptance, rejection and revision ask.    *)
(***************************************************************************)
EXTENDS Naturals, SequencesExt

CONSTANT NoPlan  \* the digest of no plan

AcceptedRun(stage, service) ==
    [lifecycle |-> stage, from |-> "none", requests |-> <<>>, fresh |-> FALSE, service |-> service]

Live(r) == r.lifecycle # "terminal"
Suspended(r) == r.lifecycle = "waiting"
LastPlan(r) == IF r.requests = <<>> THEN NoPlan ELSE Last(r.requests).plan
LastEnd(r) == IF r.requests = <<>> THEN "none" ELSE Last(r.requests).end
AwaitsAnswer(r) == r.lifecycle = "awaiting_approval" /\ r.fresh

(* run.planning_started and the other steps to the next stage              *)
Moved(r, stage) == [r EXCEPT !.lifecycle = stage, !.fresh = FALSE]

(* run.approval_requested, out of planning                                 *)
Requested(r, plan) ==
    [r EXCEPT !.lifecycle = "awaiting_approval", !.fresh = TRUE,
              !.requests = Append(@, [plan |-> plan, end |-> "open"])]

(* run.ready_for_execution, run.approval_rejected and run.plan_revised,    *)
(* each of which has to follow its request directly                        *)
Answered(r, stage, end) ==
    [r EXCEPT !.lifecycle = stage, !.fresh = FALSE,
              !.requests = Front(@) \o <<[plan |-> Last(@).plan, end |-> end]>>]
Readied(r) == Answered(r, "approved_and_ready_for_execution", "ready")
Declined(r) == Answered(r, "planning", "rejected")
Withdrawn(r) == Answered(r, "planning", "revised")

(* run.waiting and run.blocked; run.resumed; run.reopened; the terminals   *)
Waiting(r) == [r EXCEPT !.lifecycle = "waiting", !.from = r.lifecycle, !.fresh = FALSE]
Resumed(r) == [r EXCEPT !.lifecycle = r.from, !.from = "none", !.fresh = FALSE]
Reopened(r, service) == [r EXCEPT !.service = service, !.fresh = FALSE]
Ended(r) == [r EXCEPT !.lifecycle = "terminal", !.from = "none", !.fresh = FALSE]
=============================================================================
