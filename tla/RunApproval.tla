----------------------------- MODULE RunApproval ----------------------------
(***************************************************************************)
(* A run from its plan to the answer of its operator: the planning         *)
(* coordinator (planning/planning-coordinator.ts), the attention service   *)
(* (attention/attention-service.ts) and the run (runs/run-service.ts), as  *)
(* the workflow surface calls them.                                        *)
(*                                                                         *)
(* A proposal, its request for approval and the decision shown to the      *)
(* operator are three appends to three streams; a rejection goes through   *)
(* the same streams the other way. The journal can be shared by several    *)
(* processes, and a call can fail or its process end between two appends.  *)
(* Each append is conditional on the versions of the streams it names:     *)
(* what a call has read of any other stream may have changed. An append    *)
(* that names every stream it was decided from is one step with its reads. *)
(* Attempts that change no decision leave an audit record, left out here.  *)
(***************************************************************************)
EXTENDS RunLifecycle

CONSTANTS
    Procs,           \* calls under way at the same time
    Asks,            \* planning requests: a command with its decision and attention identity
    Proposals,       \* the proposals each planning request may carry
    Questions,       \* the material questions the analysis of the run asks
    Touches,         \* the scopes a decision affects
    Admissions,      \* callbacks that ask to be admitted
    Considers,       \* the scopes an admission depends on
    MaxRevisions,    \* revisions of the plan (bound)
    MaxServices      \* incarnations of the service (bound)

ASSUME ApprovalAssumption ==
    /\ Asks \intersect Questions = {}
    /\ DOMAIN Proposals = Asks /\ DOMAIN Touches = Asks \union Questions
    /\ DOMAIN Considers = Admissions
    /\ MaxRevisions \in Nat /\ MaxServices \in Nat

VARIABLES
    run,          \* the run stream, as projected
    planning,     \* the planning stream, as projected
    decision,     \* the decision streams, as projected
    index,        \* the attention index of the run: its version and what is pending
    admitted,     \* the admissions in the index
    used,         \* the commands of the run stream that planning requests have used
    call          \* the calls under way

vars == <<run, planning, decision, index, admitted, used, call>>

Decisions == Asks \union Questions
NoDecision == [status |-> "none", request |-> 0]
NoPlanning == [plan |-> NoPlan, revision |-> 0, state |-> "none"]
(* Where a call is, what it is about, and what it has read; "then" is      *)
(* where it goes on when a rejection it has met is recorded.               *)
NoCall == [at |-> "idle", about |-> "none", plan |-> NoPlan, seen |-> NoPlanning,
           decided |-> "none", then |-> "idle"]

Init ==
    /\ run = AcceptedRun("analyzing", 1)
    /\ planning = NoPlanning
    /\ decision = [d \in Decisions |-> NoDecision]
    /\ index = [revision |-> 0, pending |-> {}]
    /\ admitted = {} /\ used = {}
    /\ call = [p \in Procs |-> NoCall]

-----------------------------------------------------------------------------
(* The digest of a proposal covers its revision.                           *)
Digest(view) == <<view.plan, view.revision>>
DecidedPlan(d) == run.requests[decision[d].request].plan
Pending(d) == decision[d].status = "pending"
(* currentRunApproval() and approvalBindingMatches(): the run is at the    *)
(* very request the decision was made for.                                 *)
Current(d) == AwaitsAnswer(run) /\ decision[d].request = Len(run.requests)
Owners(n) == {d \in Asks : decision[d].request = n}
(* currentRejectedApproval()                                               *)
RejectedFor(view) == {d \in Asks : decision[d].status = "rejected" /\ DecidedPlan(d) = Digest(view)}

(* createMaterialDecision(): the decision, with its identity and its       *)
(* reservation, and the index in one append, tried until the index is as read. *)
Raised(d, request) ==
    /\ decision' = [decision EXCEPT ![d] = [status |-> "pending", request |-> request]]
    /\ index' = [revision |-> index.revision + 1, pending |-> index.pending \union {d}]
(* appendResolution(): the decision, its reservation and the index in one  *)
(* append.                                                                 *)
Resolved(d, status) ==
    /\ Pending(d) /\ d \in index.pending
    /\ decision' = [decision EXCEPT ![d].status = status]
    /\ index' = [revision |-> index.revision + 1, pending |-> index.pending \ {d}]

Goes(p, next) == call' = [call EXCEPT ![p] = next]
At(p, place) == [call[p] EXCEPT !.at = place]
SameRun == UNCHANGED <<run, used>>
SameAttention == UNCHANGED <<decision, index, admitted>>

-----------------------------------------------------------------------------
(* propose(): the first revision, or the same one again.                   *)
BeginPropose(p, c) ==
    /\ call[p] = NoCall
    /\ run.lifecycle \in {"planning", "awaiting_approval"}
    /\ \E plan \in Proposals[c] :
         \/ /\ planning = NoPlanning
            /\ Goes(p, [NoCall EXCEPT !.at = "append", !.about = c, !.plan = plan, !.seen = planning])
         \/ /\ planning = [plan |-> plan, revision |-> 1, state |-> "proposed"]
            /\ Goes(p, [NoCall EXCEPT !.at = "ask", !.about = c, !.seen = planning])
    /\ SameRun /\ SameAttention /\ UNCHANGED planning

(* revise(): what is rejected is recorded first.                           *)
BeginRevise(p, c) ==
    /\ call[p] = NoCall
    /\ planning # NoPlanning
    /\ \E plan \in Proposals[c] :
         LET begun == [NoCall EXCEPT !.about = c, !.plan = plan]
         IN \/ /\ RejectedFor(planning) = {}
               /\ Goes(p, [begun EXCEPT !.at = "revise", !.seen = planning])
            \/ \E d \in RejectedFor(planning) :
                  Goes(p, [begun EXCEPT !.at = "rejected", !.decided = d, !.then = "revise"])
    /\ SameRun /\ SameAttention /\ UNCHANGED planning

(* ... the same proposal again goes on with its request; otherwise a run   *)
(* that is planning takes the new revision at once.                        *)
Replays(p) == call[p].seen.state = "proposed" /\ call[p].seen.plan = call[p].plan
Revise(p) ==
    /\ call[p].at = "revise"
    /\ \/ Replays(p) /\ Goes(p, [At(p, "ask") EXCEPT !.plan = NoPlan])
       \/ ~Replays(p) /\ run.lifecycle = "planning" /\ Goes(p, At(p, "append"))
    /\ SameRun /\ SameAttention /\ UNCHANGED planning

(* ... and a run that awaits an answer is first called back, under the     *)
(* version of the decision, by revisePlanGuarded().                        *)
Withdraw_Unguarded(p) ==
    /\ call[p].at = "revise"
    /\ run.lifecycle = "awaiting_approval"
    /\ ~Replays(p)
    /\ <<call[p].about, "withdraw">> \notin used
    /\ AwaitsAnswer(run)
    /\ run' = Withdrawn(run)
    /\ used' = used \union {<<call[p].about, "withdraw">>}
    /\ Goes(p, At(p, "append"))
    /\ SameAttention /\ UNCHANGED <<planning>>
Withdraw(p) ==
    /\ call[p].at = "revise"
    /\ run.lifecycle = "awaiting_approval"
    /\ ~Replays(p)
    /\ <<call[p].about, "withdraw">> \notin used
    /\ \E d \in Asks : Pending(d) /\ Current(d) /\ DecidedPlan(d) = Digest(call[p].seen)
    /\ run' = Withdrawn(run)
    /\ used' = used \union {<<call[p].about, "withdraw">>}
    /\ Goes(p, At(p, "append"))
    /\ SameAttention /\ UNCHANGED <<planning>>
(* A rejection that came in between is recorded instead.                   *)
WithdrawRejected(p) ==
    /\ call[p].at = "revise"
    /\ run.lifecycle = "awaiting_approval"
    /\ call[p].seen.state = "proposed" /\ ~Replays(p)
    /\ \E d \in RejectedFor(call[p].seen) :
           Goes(p, [At(p, "rejected") EXCEPT !.decided = d, !.then = "append"])
    /\ SameRun /\ SameAttention /\ UNCHANGED planning

(* plan.proposed and plan.revised, at the version that was read            *)
AppendPlan(p) ==
    /\ call[p].at = "append"
    /\ planning = call[p].seen /\ planning.revision < MaxRevisions
    /\ planning' = [plan |-> call[p].plan, revision |-> planning.revision + 1,
                    state |-> "proposed"]
    /\ Goes(p, [At(p, "ask") EXCEPT !.plan = NoPlan, !.seen = planning'])
    /\ SameRun /\ SameAttention

(* requestApproval(), first of the run: a command is good for one request. *)
Ask(p) ==
    /\ call[p].at = "ask"
    /\ \/ /\ run.lifecycle = "planning"
          /\ <<call[p].about, "ask">> \notin used
          /\ run' = Requested(run, Digest(call[p].seen))
          /\ used' = used \union {<<call[p].about, "ask">>}
       \/ /\ run.lifecycle = "awaiting_approval"
          /\ LastPlan(run) = Digest(call[p].seen)
          /\ UNCHANGED <<run, used>>
    /\ Goes(p, At(p, "raise"))
    /\ SameAttention /\ UNCHANGED <<planning>>

(* ... and then of the operator, guarded by the version of the run. A      *)
(* request that has its decision keeps it.                                 *)
Raise_Unreserved(p) ==
    /\ call[p].at = "raise"
    /\ AwaitsAnswer(run) /\ LastPlan(run) = Digest(call[p].seen)
    /\ decision[call[p].about] = NoDecision
    /\ Raised(call[p].about, Len(run.requests))
    /\ Goes(p, NoCall)
    /\ SameRun /\ UNCHANGED <<planning, admitted>>
Raise(p) ==
    /\ call[p].at = "raise"
    /\ AwaitsAnswer(run) /\ LastPlan(run) = Digest(call[p].seen)
    /\ Owners(Len(run.requests)) = {}
    /\ decision[call[p].about] = NoDecision
    /\ Raised(call[p].about, Len(run.requests))
    /\ Goes(p, NoCall)
    /\ SameRun /\ UNCHANGED <<planning, admitted>>

-----------------------------------------------------------------------------
(* acceptApproval(): the verdict and the readiness of the run in one       *)
(* append, guarded by the version of the run the decision was made at.     *)
AcceptApproval(c) ==
    /\ Current(c)
    /\ Resolved(c, "accepted")
    /\ run' = Readied(run)
    /\ UNCHANGED <<planning, admitted, used, call>>

(* reject(), of the planning coordinator: the verdict of the operator,     *)
(* guarded by the version of the run; the run and the plan follow.         *)
Reject(p, c) ==
    /\ call[p] = NoCall
    /\ Current(c)
    /\ Resolved(c, "rejected")
    /\ Goes(p, [NoCall EXCEPT !.at = "rejected", !.decided = c])
    /\ SameRun /\ UNCHANGED <<planning, admitted>>
ReconcileRejected(p, c) ==
    /\ call[p] = NoCall
    /\ decision[c].status = "rejected"
    /\ Goes(p, [NoCall EXCEPT !.at = "rejected", !.decided = c])
    /\ SameRun /\ SameAttention /\ UNCHANGED planning

(* recordRejection(): reads the plan, ...                                  *)
Continue(p, view) ==
    Goes(p, IF call[p].then = "idle" THEN NoCall
            ELSE [call[p] EXCEPT !.at = call[p].then, !.decided = "none", !.then = "idle", !.seen = view])
ReadRejected(p) ==
    /\ call[p].at = "rejected"
    /\ IF planning.state = "correction" THEN Continue(p, planning)
       ELSE /\ DecidedPlan(call[p].decided) = Digest(planning)
            /\ Goes(p, [At(p, "record") EXCEPT !.seen = planning])
    /\ SameRun /\ SameAttention /\ UNCHANGED planning
(* ... takes the run back to planning, once by the command of the          *)
(* rejection, unless that has been done, ...                               *)
RecordOnRun(p) ==
    /\ call[p].at = "record"
    /\ \/ /\ AwaitsAnswer(run) /\ <<call[p].decided, "reject">> \notin used
          /\ run' = Declined(run)
          /\ used' = used \union {<<call[p].decided, "reject">>}
       \/ /\ run.lifecycle = "planning" /\ LastEnd(run) = "rejected"
          /\ UNCHANGED <<run, used>>
    /\ Goes(p, At(p, "correct"))
    /\ SameAttention /\ UNCHANGED <<planning>>
(* ... and appends plan.rejected with the bounds of a correction.          *)
RecordOnPlan_First(p) ==
    /\ call[p].at = "record"
    /\ planning = call[p].seen
    /\ planning' = [planning EXCEPT !.state = "correction"]
    /\ Continue(p, planning')
    /\ SameRun /\ SameAttention
RecordOnPlan(p) ==
    /\ call[p].at = "correct"
    /\ planning = call[p].seen
    /\ planning' = [planning EXCEPT !.state = "correction"]
    /\ Continue(p, planning')
    /\ SameRun /\ SameAttention

(* An approval whose run went on is marked stale by whoever looks at it. A *)
(* deadline can pass at any time; whoever looks next records it, and no    *)
(* answer is taken in between, so the two are one step.                    *)
MarkStale(c) ==
    /\ ~Current(c)
    /\ Resolved(c, "lapsed")
    /\ UNCHANGED <<run, planning, admitted, used, call>>
Expire(c) ==
    /\ Resolved(c, "lapsed")
    /\ UNCHANGED <<run, planning, admitted, used, call>>

(* requestQuestion() of the analysis; answer(), reject() and the deadline. *)
RequestQuestion(q) ==
    /\ run.lifecycle = "analyzing" /\ decision[q] = NoDecision
    /\ Raised(q, 0)
    /\ UNCHANGED <<run, planning, admitted, used, call>>
AnswerQuestion(q) ==
    /\ \E status \in {"accepted", "declined"} : Resolved(q, status)
    /\ UNCHANGED <<run, planning, admitted, used, call>>

(* admitScope(): polls, which settles what is stale, looks at what is      *)
(* pending, and appends at the version it has looked at.                   *)
Settled == \A c \in Asks : Pending(c) => Current(c)
Blocks(a) == {d \in index.pending : Touches[d] \intersect Considers[a] # {}}
BeginAdmit(p, a) ==
    /\ call[p] = NoCall /\ a \notin admitted
    /\ Settled /\ Blocks(a) = {}
    /\ Goes(p, [NoCall EXCEPT !.at = "admit", !.about = a, !.seen = index.revision])
    /\ SameRun /\ SameAttention /\ UNCHANGED planning
Admit_AnyRevision(p) ==
    /\ call[p].at = "admit"
    /\ admitted' = admitted \union {call[p].about}
    /\ index' = [index EXCEPT !.revision = @ + 1]
    /\ Goes(p, NoCall)
    /\ SameRun /\ UNCHANGED <<planning, decision>>
Admit(p) ==
    /\ call[p].at = "admit"
    /\ index.revision = call[p].seen
    /\ admitted' = admitted \union {call[p].about}
    /\ index' = [index EXCEPT !.revision = @ + 1]
    /\ Goes(p, NoCall)
    /\ SameRun /\ UNCHANGED <<planning, decision>>

(* A call that throws, conflicts or has nothing left to do.                *)
Leave(p) ==
    /\ call[p] # NoCall
    /\ Goes(p, NoCall)
    /\ SameRun /\ SameAttention /\ UNCHANGED planning

-----------------------------------------------------------------------------
(* advanceRun(): the analysis suspends its run for a question, goes on     *)
(* when nothing material is pending, and ends with all its answers.        *)
Asked == {q \in Questions : Pending(q)}
Wait ==
    /\ run.lifecycle = "analyzing" /\ Asked # {}
    /\ run' = Waiting(run)
    /\ SameAttention /\ UNCHANGED <<planning, used, call>>
Resume ==
    /\ Suspended(run) /\ \A d \in Decisions : ~Pending(d)
    /\ run' = Resumed(run)
    /\ SameAttention /\ UNCHANGED <<planning, used, call>>
CompleteAnalysis ==
    /\ run.lifecycle = "analyzing" /\ \A q \in Questions : decision[q].status = "accepted"
    /\ run' = Moved(run, "planning")
    /\ SameAttention /\ UNCHANGED <<planning, used, call>>

(* cancel() and terminate()                                                *)
EndRun ==
    /\ Live(run)
    /\ run' = Ended(run)
    /\ SameAttention /\ UNCHANGED <<planning, used, call>>

(* The service ends with its calls, and its next incarnation takes over    *)
(* the runs that are under way: resumeNonterminalRuns().                   *)
Restart ==
    /\ run.service < MaxServices
    /\ run' = IF run.lifecycle \in {"terminal", "approved_and_ready_for_execution"}
              THEN [run EXCEPT !.service = @ + 1] ELSE Reopened(run, run.service + 1)
    /\ call' = [p \in Procs |-> NoCall]
    /\ SameAttention /\ UNCHANGED <<planning, used>>

Planning(p) ==
    \/ \E c \in Asks : BeginPropose(p, c) \/ BeginRevise(p, c) \/ Reject(p, c) \/ ReconcileRejected(p, c)
    \/ Revise(p) \/ Withdraw(p) \/ WithdrawRejected(p) \/ AppendPlan(p) \/ Ask(p) \/ Raise(p)
    \/ ReadRejected(p) \/ RecordOnRun(p) \/ RecordOnPlan(p) \/ Leave(p)
Attention ==
    \/ \E c \in Asks : AcceptApproval(c) \/ MarkStale(c) \/ Expire(c)
    \/ \E q \in Questions : RequestQuestion(q) \/ AnswerQuestion(q)
    \/ \E p \in Procs : Admit(p) \/ \E a \in Admissions : BeginAdmit(p, a)
RunCommands == Wait \/ Resume \/ CompleteAnalysis \/ EndRun \/ Restart

Next == (\E p \in Procs : Planning(p)) \/ Attention \/ RunCommands
Spec == Init /\ [][Next]_vars

-----------------------------------------------------------------------------
Verdict(n) ==
    IF run.requests[n].end = "revised" THEN "withdrawn"
    ELSE IF Owners(n) = {} THEN "open"
    ELSE LET status == decision[CHOOSE d \in Owners(n) : TRUE].status
         IN CASE status = "pending" -> "open"
              [] OTHER -> status
Digests == (UNION {Proposals[c] : c \in Asks}) \X (1..MaxRevisions)
Promise == INSTANCE ExactApproval WITH
    Plans <- Digests,
    asked <- [n \in DOMAIN run.requests |-> run.requests[n].plan],
    verdict <- [n \in DOMAIN run.requests |-> Verdict(n)],
    granted <- IF LastEnd(run) = "ready" THEN LastPlan(run) ELSE NoPlan,
    over <- ~Live(run)

(* Through crashes, repeated commands, revisions, restarts and races of    *)
(* operators, a plan is asked about only when the last one was answered, a *)
(* request has one verdict that stays, and the run becomes ready only with *)
(* the acceptance of its latest request (attention-service.ts:610,         *)
(* run-projection.ts:194).                                                 *)
ImplementsExactApproval == Promise!Spec

(* A callback is admitted only while no pending material decision, in its  *)
(* own stream, touches a scope it depends on (attention-service.ts:472):   *)
(* what admission looks at is an index, before it appends.                 *)
NoAdmissionOverPending ==
    [][\A a \in admitted' \ admitted : \A d \in Decisions :
           Pending(d) => Touches[d] \intersect Considers[a] = {}]_vars

(* A rejection goes from the operator to the run and from there to the     *)
(* plan: no stream shows one that the stream before it does not show for   *)
(* the same plan, wherever a call was cut short                            *)
(* (planning-coordinator.ts:201).                                          *)
RejectionsAreBacked ==
    /\ \A n \in DOMAIN run.requests :
           run.requests[n].end = "rejected" =>
               \E d \in Owners(n) : decision[d].status = "rejected"
    /\ planning.state = "correction" =>
           \E n \in DOMAIN run.requests :
               run.requests[n] = [plan |-> Digest(planning), end |-> "rejected"]
=============================================================================
