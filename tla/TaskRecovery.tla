---------------------------- MODULE TaskRecovery ----------------------------
(***************************************************************************)
(* The execution of one task, and what is done about one that was cut      *)
(* short: TracerBullet.run and resume, from the creation of the task to    *)
(* its end, with the worktree it works in (WorktreeManager) and the        *)
(* integration of its change (IntegrationQueue.integrate); the stream of   *)
(* the task and the projection every append goes through (TaskService,     *)
(* projectTask); RecoveryService.inspect, and recordCompletion,            *)
(* retainClassification and authorizeBoundedCleanup, which an operator may *)
(* call at any time, while the run goes on as much as after it died; and   *)
(* the operator's word on an effect in doubt (recordEffectReconciliation). *)
(*                                                                         *)
(* Run is the run of the task: create() refuses a second one, and resume() *)
(* is called when it is over.  Each member of Recoverers makes one call    *)
(* after the other.  Every process may crash at any step, and its          *)
(* integration lease elapses when it is not renewed.  Other tasks land on  *)
(* the branch at any time.                                                 *)
(*                                                                         *)
(* Abstractions.  What the worker, the validations, the reviewer and git   *)
(* answer is a choice; evidence the run has written is well formed.  All   *)
(* ends but "completed" are one, "failed".  A verified observation of the  *)
(* integration and one that is not are two events here.  The boundary of   *)
(* an uncertain effect follows from the event before it.                   *)
(***************************************************************************)
EXTENDS Naturals, Sequences, SequencesExt

CONSTANTS Run,
          Recoverers,
          Duties,       \* what the recoverers are called for, in each scenario
          NoProc

ASSUME ProcsAssumption ==
    /\ Run \notin Recoverers /\ NoProc \notin Recoverers \cup {Run}
    /\ Duties \subseteq [Recoverers -> SUBSET {"complete", "retain", "bound"}]

Procs == Recoverers \cup {Run}

VARIABLES log,        \* the stream of the task: the types of its events, ...
          mark,       \* ... but for the pause or the reconciliation of an effect at its end
          ticket,     \* worktree and branch of the task
          candidate,  \* a candidate worktree of the integration is there
          failures,   \* unacknowledged records of candidates left behind
          ref,        \* the integration ref: before the change, at it, or beyond it
          stale,      \* somebody moved the ref since the candidate was built
          lease,      \* the integration lease of the repository
          pc,
          duty,       \* the scenario
          receipt,    \* how the integration of the run ended
          call,       \* what a recovery call saw
          overtaken   \* history: the calls that went on with a stream that had changed
                      \* since their inspection

stream == <<log, mark>>
git    == <<ticket, candidate, failures, ref, stale>>
local  == <<duty, receipt, call, overtaken>>
vars   == <<stream, git, lease, pc, local>>

-----------------------------------------------------------------------------
(* The stream of the task and its projection                                *)

\* The events that leave the task in each lifecycle (EVENT_TO_LIFECYCLE).
Into ==
    [queued            |-> {"created", "worktree_creation_started"},
     leased            |-> {"leased"},
     running           |-> {"started"},
     validating        |-> {"validation_started"},
     awaiting_review   |-> {"review_requested"},
     integration_ready |-> {"review_approved", "review_policy_blocked", "commit_observed"},
     integrating       |-> {"integration_started", "integration_prepared",
                            "integration_observed", "integration_unverified",
                            "cleanup_started", "cleanup_completed", "cleanup_observed",
                            "cleanup_reconciled"},
     terminal          |-> {"completed", "failed"}]

\* The events each lifecycle lets through (VALID_TRANSITIONS).
OutOf ==
    [queued            |-> {"worktree_creation_started", "leased", "failed"},
     leased            |-> {"started", "failed"},
     running           |-> {"validation_started", "failed"},
     validating        |-> {"review_requested", "failed"},
     awaiting_review   |-> {"review_approved", "failed"},
     integration_ready |-> {"review_policy_blocked", "commit_observed",
                            "integration_started", "failed"},
     integrating       |-> (Into.integrating \ {"integration_started"})
                             \cup {"completed", "failed"},
     terminal          |-> {}]

Events  == UNION {Into[l] : l \in DOMAIN Into}
Marks   == {"none", "uncertain", "absent", "applied", "abandoned"}
Observations == {"integration_observed", "integration_unverified"}

Lifecycle(e) == CHOOSE l \in DOMAIN Into : e \in Into[l]
Paused       == mark = "uncertain"
Terminal(s)  == Last(s) \in Into.terminal
Has(s, e)    == e \in Range(s)

\* What an event may not come twice with, and what has to come before it.
InOrder(s, e) ==
    /\ e \in Into.integrating \cup {"review_policy_blocked", "commit_observed"} => ~Has(s, e)
    /\ e \in {"integration_prepared"} \cup Observations => Range(s) \cap Observations = {}
    /\ e = "integration_observed" => Has(s, "integration_prepared")
    /\ e = "cleanup_started"      => Has(s, "integration_observed")
    /\ e = "cleanup_completed"    => Has(s, "cleanup_started") /\ ~Has(s, "cleanup_observed")
    /\ e = "cleanup_observed"     => Has(s, "cleanup_started") /\ ~Has(s, "cleanup_completed")
    /\ e = "cleanup_reconciled"   => Has(s, "cleanup_observed") /\ ~Has(s, "cleanup_completed")
    /\ e = "completed"            => Has(s, "cleanup_completed") \/ Has(s, "cleanup_reconciled")

Accepts(s, e) ==
    /\ s # <<>> /\ ~Terminal(s)
    /\ e \in OutOf[Lifecycle(Last(s))]
    /\ Has(s, "review_policy_blocked") => e = "failed"
    /\ InOrder(s, e)

\* appendBatch: all of the batch or nothing of it.
AcceptsAll(s, batch) ==
    \A i \in DOMAIN batch : Accepts(s \o SubSeq(batch, 1, i - 1), batch[i])
AppendAll(batch) ==
    /\ ~Paused /\ AcceptsAll(log, batch)
    /\ log' = log \o batch /\ mark' = "none"
\* pauseForUncertainEffect, after the events of the batch: effect_uncertain pauses a task.
Pause(batch) ==
    /\ log # <<>> /\ ~Terminal(log) /\ ~Paused /\ AcceptsAll(log, batch)
    /\ log' = log \o batch /\ mark' = "uncertain"

Version == <<Len(log), mark>>

-----------------------------------------------------------------------------
(* Git, the integration lease, and where the processes are                  *)

\* "partial" is what a git worktree add that was cut short may leave; "staged" has the
\* change in the index, "source" has it committed; "treeless" is a branch whose worktree
\* has been removed.
Tickets == {"none", "partial", "base", "dirty", "staged", "source", "treeless", "gone"}
Refs    == {"before", "result", "beyond"}
Landed  == ref # "before"

RunPC == {"create", "prepare", "worktree", "lease", "begin", "work", "artifact", "validate",
          "review", "policy", "stage", "commit", "announce", "enter", "build", "record",
          "guard", "swap", "reconcile", "tidy", "unlock", "check", "observe", "uncertain",
          "reject", "startCleanup", "finishCleanup", "complete", "terminate", "pause",
          "unsure", "obstructed", "adopt"}
RecoveryPC == {"inspect", "judge", "read", "issue", "compare", "append", "assert", "reread",
               "hindered", "close", "retain", "bound", "unlease", "unleaseTree", "unleaseRef",
              "abandon"}
CleanupPC  == {"verify", "removeTree", "deleteRef"}
PC == RunPC \cup RecoveryPC \cup CleanupPC \cup {"idle", "ended"}

\* What a recovery appends, by the last event of the stream it read; "cleaned" and
\* "obstructed" are what follows its own cleanup.
Batch ==
    [integration_prepared |-> <<"integration_observed", "cleanup_started">>,
     integration_observed |-> <<"cleanup_started">>,
     cleanup_started      |-> <<"cleanup_completed", "completed">>,
     cleanup_completed    |-> <<"completed">>,
     cleanup_observed     |-> <<"cleanup_reconciled", "completed">>,
     cleanup_reconciled   |-> <<"completed">>,
     cleaned              |-> <<"cleanup_completed", "completed">>,
     obstructed           |-> <<"cleanup_observed">>]
Paths == DOMAIN Batch

NoCall == [seen |-> 0, mark |-> "none", path |-> "none", snapshot |-> <<>>]

Init ==
    /\ log = <<>> /\ mark = "none" /\ duty \in Duties
    /\ ticket = "none" /\ candidate = FALSE /\ failures = FALSE
    /\ ref = "before" /\ stale = FALSE
    /\ lease = [owner |-> NoProc, live |-> FALSE]
    /\ pc = [p \in Procs |-> IF p = Run THEN "create" ELSE "idle"]
    /\ receipt = "none"
    /\ call = [r \in Recoverers |-> NoCall]
    /\ overtaken = {}

Goto(p, label) == pc' = [pc EXCEPT ![p] = label]

Held(p)    == lease.owner = p /\ lease.live
Acquire(p) == ~lease.live /\ lease' = [owner |-> p, live |-> TRUE]
Release(p) == lease' = IF lease.owner = p THEN [owner |-> NoProc, live |-> FALSE] ELSE lease

LeaseElapses ==
    /\ lease.live
    /\ lease' = [lease EXCEPT !.live = FALSE]
    /\ UNCHANGED <<stream, git, pc, local>>

\* Another task lands: on the base of the candidate, or on top of the change.
OtherLands ==
    /\ IF ref = "before" THEN stale' = TRUE /\ UNCHANGED ref
                         ELSE ref' = "beyond" /\ UNCHANGED stale
    /\ UNCHANGED <<stream, ticket, candidate, failures, lease, pc, local>>

-----------------------------------------------------------------------------
(* The run of the task                                                      *)

\* An append that is accepted, or one that throws: refused by the projection or by the
\* version of the stream, or failed by the journal.
Try(batch, then, otherwise) ==
    \/ AppendAll(batch) /\ Goto(Run, then)
    \/ UNCHANGED stream /\ Goto(Run, otherwise)
TryPause(batch, otherwise) ==
    \/ Pause(batch) /\ Goto(Run, "ended")
    \/ UNCHANGED stream /\ Goto(Run, otherwise)

Keeping == UNCHANGED <<git, lease, local>>

Create ==
    /\ pc[Run] = "create"
    /\ log = <<>> /\ log' = <<"created">> /\ UNCHANGED mark
    /\ Goto(Run, "prepare")
    /\ Keeping

\* Authority checks and ensureIntegrationBranch; then the intent, before git is called.
Prepare ==
    /\ pc[Run] = "prepare"
    /\ \/ Try(<<"worktree_creation_started">>, "worktree", "terminate")
       \/ TryPause(<<>>, "ended")
    /\ Keeping

AddWorktree ==
    /\ pc[Run] = "worktree"
    /\ \/ ticket' = "base" /\ Goto(Run, "lease")
       \/ ticket' = "base" /\ Goto(Run, "terminate")
       \/ ticket' \in {"none", "partial", "base"} /\ Goto(Run, "pause")
    /\ UNCHANGED <<stream, candidate, failures, ref, stale, lease, local>>

PauseUncertain ==
    /\ pc[Run] = "pause"
    /\ TryPause(<<>>, "ended")
    /\ Keeping

\* resume(): the run of a task whose process died before the task was leased.
Resume ==
    /\ pc[Run] = "ended"
    /\ log # <<>> /\ Last(log) = "worktree_creation_started" /\ mark = "none"
    /\ Goto(Run, "adopt")
    /\ UNCHANGED <<stream, git, lease, local>>

\* The worktree is adopted as it is or, if there is nothing of it, created; in doubt the
\* task stays as it is.
Adopt ==
    /\ pc[Run] = "adopt"
    /\ \/ ticket \in {"none", "base"} /\ ticket' = "base" /\ Goto(Run, "lease")
       \/ /\ ticket' \in {ticket} \cup (IF ticket = "none" THEN {"partial", "base"} ELSE {})
          /\ Goto(Run, "ended")
       \/ UNCHANGED ticket /\ Goto(Run, "terminate")
    /\ UNCHANGED <<stream, candidate, failures, ref, stale, lease, local>>

LeaseTask ==
    /\ pc[Run] = "lease"
    /\ Try(<<"leased">>, "begin", "terminate")
    /\ Keeping

Begin ==
    /\ pc[Run] = "begin"
    /\ Try(<<"started">>, "work", "terminate")
    /\ Keeping

\* A worker that ends in an error of its own has an uncertain effect.
Work ==
    /\ pc[Run] = "work"
    /\ ticket' \in {ticket, IF ticket = "base" THEN "dirty" ELSE ticket}
    /\ \/ ticket' = "dirty" /\ Goto(Run, "artifact")
       \/ Goto(Run, "terminate")
       \/ Goto(Run, "pause")
    /\ UNCHANGED <<stream, candidate, failures, ref, stale, lease, local>>

RecordArtifact ==
    /\ pc[Run] = "artifact"
    /\ Try(<<"validation_started">>, "validate", "terminate")
    /\ Keeping

Validate ==
    /\ pc[Run] = "validate"
    /\ \/ Try(<<"review_requested">>, "review", "terminate")
       \/ Try(<<"failed">>, "ended", "terminate")
    /\ Keeping

Review ==
    /\ pc[Run] = "review"
    /\ \/ Try(<<"review_approved">>, "policy", "terminate")
       \/ Try(<<"failed">>, "ended", "terminate")
    /\ Keeping

Policy ==
    /\ pc[Run] = "policy"
    /\ \/ Goto(Run, "stage") /\ UNCHANGED stream
       \/ Try(<<"review_policy_blocked">>, "ended", "terminate")
    /\ Keeping

Stage ==
    /\ pc[Run] = "stage"
    /\ \/ ticket' = "staged" /\ Goto(Run, "commit")
       \/ ticket' \in {"dirty", "staged"} /\ Goto(Run, "terminate")
    /\ UNCHANGED <<stream, candidate, failures, ref, stale, lease, local>>

Commit ==
    /\ pc[Run] = "commit"
    /\ \/ ticket' = "source" /\ Goto(Run, "announce")
       \/ ticket' \in {"staged", "source"} /\ pc' \in {[pc EXCEPT ![Run] = l] :
                                                      l \in {"terminate", "unsure"}}
    /\ UNCHANGED <<stream, candidate, failures, ref, stale, lease, local>>

CommitUncertain ==
    /\ pc[Run] = "unsure"
    /\ TryPause(<<"commit_observed">>, "ended")
    /\ Keeping

Announce ==
    /\ pc[Run] = "announce"
    /\ Try(<<"integration_started">>, "enter", "terminate")
    /\ Keeping

Terminate ==
    /\ pc[Run] = "terminate"
    /\ Try(<<"failed">>, "ended", "ended")
    /\ Keeping

-----------------------------------------------------------------------------
(* Its integration: IntegrationQueue.integrate, as this task sees it        *)

Enter ==
    /\ pc[Run] = "enter"
    /\ \/ Acquire(Run) /\ Goto(Run, "build")
       \/ Goto(Run, "terminate") /\ UNCHANGED lease
    /\ UNCHANGED <<stream, git, local>>

Receive(r) == receipt' = r /\ UNCHANGED <<duty, call, overtaken>>
Leaving(r) == Receive(r) /\ Goto(Run, "tidy") /\ UNCHANGED <<stream, lease>>

\* The candidate is made of the head of the branch and the source, and validated.
Build ==
    /\ pc[Run] = "build"
    /\ stale' = FALSE
    /\ \/ /\ candidate' = TRUE /\ UNCHANGED failures
          /\ \/ Goto(Run, "record") /\ UNCHANGED <<stream, lease, local>>
             \/ Leaving("failed") \/ Leaving("uncertain")
       \/ /\ candidate' \in BOOLEAN
          /\ \/ failures' = TRUE /\ Receive("failed")
             \/ UNCHANGED failures /\ Receive("uncertain")
          /\ Goto(Run, "unlock") /\ UNCHANGED <<stream, lease>>
    /\ UNCHANGED <<ticket, ref>>

RecordPrepared_Forgotten ==
    /\ pc[Run] = "record"
    /\ Held(Run) /\ Goto(Run, "guard")
    /\ UNCHANGED <<stream, git, lease, local>>
RecordPrepared ==
    /\ pc[Run] = "record"
    /\ \/ /\ Held(Run) /\ AppendAll(<<"integration_prepared">>)
          /\ Goto(Run, "guard") /\ UNCHANGED <<lease, local>>
       \/ Leaving("failed") \/ Leaving("uncertain")
    /\ UNCHANGED git

Guard ==
    /\ pc[Run] = "guard"
    /\ \/ Held(Run) /\ Goto(Run, "swap") /\ UNCHANGED <<stream, lease, local>>
       \/ Leaving("failed") \/ Leaving("uncertain")
    /\ UNCHANGED git

\* update-ref compares and swaps; it may be cut short on either side of its effect.
Swap ==
    /\ pc[Run] = "swap"
    /\ \/ /\ ref = "before" /\ ~stale /\ ref' = "result"
          /\ \/ Leaving("completed")
             \/ Goto(Run, "reconcile") /\ UNCHANGED <<stream, lease, local>>
       \/ UNCHANGED ref /\ Leaving("failed")
       \/ Goto(Run, "reconcile") /\ UNCHANGED <<ref, stream, lease, local>>
    /\ UNCHANGED <<ticket, candidate, failures, stale>>

Reconcile_NoEffect ==
    /\ pc[Run] = "reconcile"
    /\ Leaving(IF Held(Run) /\ ref = "result" THEN "completed" ELSE "failed")
    /\ UNCHANGED git
Reconcile ==
    /\ pc[Run] = "reconcile"
    /\ \/ Held(Run) /\ ref = "result" /\ Leaving("completed") /\ UNCHANGED git
       \/ Held(Run) /\ ref = "before" /\ ~stale /\ Leaving("failed") /\ UNCHANGED git
       \/ /\ failures' \in {failures, TRUE}
          /\ Receive("uncertain") /\ Goto(Run, "unlock")
          /\ UNCHANGED <<stream, lease, ticket, candidate, ref, stale>>

\* The candidate is removed, or recorded as left behind, or neither.
Tidy ==
    /\ pc[Run] = "tidy"
    /\ \/ candidate' = FALSE /\ UNCHANGED <<failures, receipt>>
       \/ candidate' \in BOOLEAN /\ failures' = TRUE /\ UNCHANGED receipt
       \/ candidate' \in BOOLEAN /\ receipt' = "uncertain" /\ UNCHANGED failures
    /\ Goto(Run, "unlock")
    /\ UNCHANGED <<stream, ticket, ref, stale, lease, duty, call, overtaken>>

Unlock ==
    /\ pc[Run] = "unlock"
    /\ Release(Run)
    /\ Goto(Run, [completed |-> "check", failed |-> "reject",
                  uncertain |-> "uncertain"][receipt])
    /\ UNCHANGED <<stream, git, local>>

\* observeIntegration
Uncertain ==
    /\ pc[Run] = "uncertain"
    /\ TryPause(<<"integration_unverified">>, "ended")
    /\ Keeping

Reject ==
    /\ pc[Run] = "reject"
    /\ Try(<<"failed">>, "ended", "uncertain")
    /\ Keeping

\* verifyCompletedIntegrationReceipt, after the lease is released.
CheckReceipt ==
    /\ pc[Run] = "check"
    /\ \/ ref = "result" /\ Goto(Run, "observe")
       \/ Goto(Run, "uncertain")
    /\ UNCHANGED stream
    /\ Keeping

Observe ==
    /\ pc[Run] = "observe"
    /\ IF failures THEN TryPause(<<"integration_observed">>, "uncertain")
                   ELSE Try(<<"integration_observed">>, "startCleanup", "uncertain")
    /\ Keeping

StartCleanup ==
    /\ pc[Run] = "startCleanup"
    /\ Try(<<"cleanup_started">>, "verify", "terminate")
    /\ Keeping

CleanupUncertain ==
    /\ pc[Run] = "obstructed"
    /\ TryPause(<<"cleanup_observed">>, "terminate")
    /\ Keeping

FinishCleanup ==
    /\ pc[Run] = "finishCleanup"
    /\ Try(<<"cleanup_completed">>, "complete", "terminate")
    /\ Keeping

Complete ==
    /\ pc[Run] = "complete"
    /\ Try(<<"completed">>, "ended", "ended")
    /\ Keeping

-----------------------------------------------------------------------------
(* cleanupCompleted, of the run and of a recovery                           *)

\* Its errors: before anything is removed (refused), and from then on (unsure).
VerifyTicket(p, refused) ==
    /\ pc[p] = "verify"
    /\ \/ ticket = "source" /\ Goto(p, "removeTree")
       \/ Goto(p, refused)
    /\ UNCHANGED <<stream, git, lease, local>>

RemoveTree(p, unsure) ==
    /\ pc[p] = "removeTree"
    /\ ticket' \in {ticket, IF ticket = "source" THEN "treeless" ELSE ticket}
    /\ \/ ticket' = "treeless" /\ Goto(p, "deleteRef")
       \/ Goto(p, unsure)
    /\ UNCHANGED <<stream, candidate, failures, ref, stale, lease, local>>

DeleteTicketRef(p, done, unsure) ==
    /\ pc[p] = "deleteRef"
    /\ ticket' \in {ticket, IF ticket = "treeless" THEN "gone" ELSE ticket}
    /\ \/ ticket' = "gone" /\ Goto(p, done)
       \/ Goto(p, unsure)
    /\ UNCHANGED <<stream, candidate, failures, ref, stale, lease, local>>

RunStep ==
    \/ Create \/ Prepare \/ AddWorktree \/ PauseUncertain \/ Resume \/ Adopt
    \/ LeaseTask \/ Begin \/ Work \/ RecordArtifact \/ Validate \/ Review \/ Policy
    \/ Stage \/ Commit \/ CommitUncertain \/ Announce \/ Terminate
    \/ Enter \/ Build \/ RecordPrepared \/ Guard \/ Swap \/ Reconcile \/ Tidy \/ Unlock
    \/ Uncertain \/ Reject \/ CheckReceipt \/ Observe \/ StartCleanup
    \/ VerifyTicket(Run, "terminate") \/ RemoveTree(Run, "obstructed")
    \/ DeleteTicketRef(Run, "finishCleanup", "obstructed")
    \/ CleanupUncertain \/ FinishCleanup \/ Complete

-----------------------------------------------------------------------------
(* RecoveryService.inspect: what may be done with a stream and what git     *)
(* holds now                                                                *)

DecidePreparation(last) ==
    \/ last = "created" /\ ticket = "none"
    \/ last = "worktree_creation_started" /\ ticket \in {"none", "base"}
    \/ last = "leased" /\ ticket = "base"

DecideWork(last) == last \in {"review_requested", "review_approved"} /\ ticket = "dirty"

\* completionEvidenceIssue, on top of the worktree each state of the stream asks for.
Verified == ref = "result" /\ ~candidate

DecideIntegration(last) ==
    /\ last \in {"integration_prepared", "integration_observed"}
    /\ ticket = "source" /\ Verified /\ ~failures

CleanupBegun == Into.integrating \cap {"cleanup_started", "cleanup_observed",
                                      "cleanup_reconciled", "cleanup_completed"}

DecideCleanup_Begun(last) == last \in CleanupBegun /\ Verified
DecideCleanup(last) == last \in CleanupBegun /\ ticket = "gone" /\ Verified

\* What a reconciliation said of the worktree has to be so; an abandoned effect stays.
Contradicted(last, m) ==
    /\ last \in Into.queued
    /\ \/ m = "absent"  /\ ticket # "none"
       \/ m = "applied" /\ ticket \in {"none", "partial"}

Decision(s, m) ==
    IF Terminal(s) \/ m \in {"uncertain", "abandoned"} \/ Contradicted(Last(s), m)
      THEN "await_reconciliation"
    ELSE IF DecidePreparation(Last(s)) \/ DecideWork(Last(s))    THEN "resume_preparation"
    ELSE IF DecideIntegration(Last(s)) \/ DecideCleanup(Last(s)) THEN "record_completion"
    ELSE "await_reconciliation"

-----------------------------------------------------------------------------
(* RecoveryService.recordCompletion                                         *)

Answering(r, c) == call' = [call EXCEPT ![r] = c]

RecoveryBegin(r) ==
    /\ "complete" \in duty[r] /\ pc[r] = "idle"
    /\ log # <<>> /\ ~Terminal(log)
    /\ Acquire(r)
    /\ Goto(r, "inspect")
    /\ UNCHANGED <<stream, git, local>>

\* inspect() reads the stream first, git after it.
Inspect(r) ==
    /\ pc[r] = "inspect"
    /\ Answering(r, [NoCall EXCEPT !.seen = Len(log), !.mark = mark])
    /\ Goto(r, "judge")
    /\ UNCHANGED <<stream, git, lease, duty, receipt, overtaken>>

Judged(r) == Decision(SubSeq(log, 1, call[r].seen), call[r].mark)
Judge(r) ==
    /\ pc[r] = "judge"
    /\ Judged(r) = "record_completion"
    /\ Held(r)
    /\ Goto(r, "read")
    /\ UNCHANGED <<stream, git, lease, local>>

Overtakes(r, what) ==
    overtaken' = overtaken \cup
                   (IF Len(log) # call[r].seen /\ ~Terminal(log) THEN {what} ELSE {})

\* recordCompletionUnderLease reads the stream again, and goes by its last event.
ReadAgain(r) ==
    /\ pc[r] = "read"
    /\ ~failures
    /\ mark = "none" /\ Last(log) \in Paths
    /\ Answering(r, [NoCall EXCEPT !.path = Last(log)])
    /\ Overtakes(r, "completion")
    /\ Goto(r, "issue")
    /\ UNCHANGED <<stream, git, lease, duty, receipt>>

Snapshot == <<Version, ref, ticket>>

Issue(r) ==
    /\ pc[r] = "issue"
    /\ Held(r)
    /\ Answering(r, [call[r] EXCEPT !.snapshot = Snapshot])
    /\ Goto(r, "compare")
    /\ UNCHANGED <<stream, git, lease, duty, receipt, overtaken>>

Compare(r) ==
    /\ pc[r] = "compare"
    /\ Held(r) /\ call[r].snapshot = Snapshot
    /\ Answering(r, [call[r] EXCEPT !.snapshot = <<>>])
    /\ Goto(r, "append")
    /\ UNCHANGED <<stream, git, lease, duty, receipt, overtaken>>

AppendAuthorized(r) ==
    /\ pc[r] = "append"
    /\ Held(r) /\ AppendAll(Batch[call[r].path])
    /\ Answering(r, NoCall)
    /\ Goto(r, IF call[r].path \in {"integration_prepared", "integration_observed"}
                 THEN "assert" ELSE "close")
    /\ UNCHANGED <<git, lease, duty, receipt, overtaken>>

AssertActive(r) ==
    /\ pc[r] = "assert"
    /\ Held(r)
    /\ Goto(r, "verify")
    /\ UNCHANGED <<stream, git, lease, local>>

\* After its cleanup, done or not, the recovery is authorized once more.
Report(r) ==
    /\ \/ /\ pc[r] = "reread" /\ Last(log) = "cleanup_started" /\ mark = "none"
          /\ Answering(r, [call[r] EXCEPT !.path = "cleaned"])
       \/ /\ pc[r] = "hindered"
          /\ Answering(r, [call[r] EXCEPT !.path = "obstructed"])
    /\ Goto(r, "issue")
    /\ UNCHANGED <<stream, git, lease, duty, receipt, overtaken>>

\* retainClassification: what awaits a reconciliation is paused, if its last event is one
\* with an effect in doubt.
InDoubt == {"worktree_creation_started", "started", "validation_started", "commit_observed"}
               \cup Into.integrating
Retain(r) ==
    /\ pc[r] = "retain"
    /\ Judged(r) = "await_reconciliation"
    /\ mark = "none" /\ Last(log) \in InDoubt
    /\ Pause(<<>>)
    /\ Answering(r, NoCall) /\ Goto(r, "idle")
    /\ UNCHANGED <<git, lease, duty, receipt, overtaken>>

\* recordEffectReconciliation, of an operator.
ReconcileEffect ==
    /\ Paused
    /\ mark' \in {"applied", "absent", "abandoned"}
    /\ mark' = "absent" => Last(log) \in Into.queued
    /\ UNCHANGED <<log, git, lease, pc, local>>

\* authorizeBoundedCleanup: without the lease, of a task that was never leased.  Only the
\* second of its two equal authorizations decides.
Unleased == mark = "none" /\ Last(log) = "worktree_creation_started"
AuthorizeCleanup(r) ==
    /\ pc[r] = "bound"
    /\ Judged(r) = "resume_preparation" /\ Unleased
    /\ Answering(r, [NoCall EXCEPT !.seen = Len(log)])
    /\ Goto(r, "unlease")
    /\ UNCHANGED <<stream, git, lease, duty, receipt, overtaken>>

VerifyUnleased(r) ==
    /\ pc[r] = "unlease"
    /\ ticket = "base"
    /\ Goto(r, "unleaseTree")
    /\ UNCHANGED <<stream, git, lease, local>>

\* git removes a worktree only if it is clean, and the branch only at its base.
RemoveUnleasedTree(r) ==
    /\ pc[r] = "unleaseTree"
    /\ ticket' \in {ticket, CASE ticket = "base"   -> "partial"
                              [] ticket = "source" -> "treeless"
                              [] OTHER             -> ticket}
    /\ Goto(r, IF ticket' = ticket THEN "close" ELSE "unleaseRef")
    /\ IF ticket' = "treeless" THEN Overtakes(r, "cleanup") ELSE UNCHANGED overtaken
    /\ UNCHANGED <<stream, candidate, failures, ref, stale, lease, duty, receipt, call>>

DeleteUnleasedRef(r) ==
    /\ pc[r] = "unleaseRef"
    /\ ticket = "partial" /\ ticket' \in {"partial", "none"}
    /\ Goto(r, IF ticket' = "none" THEN "abandon" ELSE "close")
    /\ UNCHANGED <<stream, candidate, failures, ref, stale, lease, local>>

Abandon(r) ==
    /\ pc[r] = "abandon"
    /\ AppendAll(<<"failed">>)
    /\ Overtakes(r, "cleanup")
    /\ Answering(r, NoCall) /\ Goto(r, "idle")
    /\ UNCHANGED <<git, lease, duty, receipt>>

\* Retaining and the bounded cleanup begin with an inspection, which needs no lease.
BeginInspection(r) ==
    /\ pc[r] = "idle"
    /\ log # <<>>
    /\ Answering(r, [NoCall EXCEPT !.seen = Len(log), !.mark = mark])
    /\ \E purpose \in duty[r] \ {"complete"} : Goto(r, purpose)
    /\ UNCHANGED <<stream, git, lease, duty, receipt, overtaken>>

\* The end of a call: it is done, a check does not hold, or a read or an append fails.
Close(r) ==
    /\ pc[r] \in RecoveryPC \ {"hindered"}
    /\ Release(r)
    /\ Answering(r, NoCall)
    /\ Goto(r, "idle")
    /\ UNCHANGED <<stream, git, duty, receipt, overtaken>>

RecoveryStep(r) ==
    \/ RecoveryBegin(r) \/ Inspect(r) \/ Judge(r) \/ ReadAgain(r) \/ Issue(r) \/ Compare(r)
    \/ AppendAuthorized(r) \/ AssertActive(r) \/ VerifyTicket(r, "hindered")
    \/ RemoveTree(r, "hindered") \/ DeleteTicketRef(r, "reread", "hindered")
    \/ Report(r) \/ Close(r)
    \/ BeginInspection(r) \/ Retain(r) \/ AuthorizeCleanup(r) \/ VerifyUnleased(r)
    \/ RemoveUnleasedTree(r) \/ DeleteUnleasedRef(r) \/ Abandon(r)

\* The lease of a dead process elapses on its own.
Crash(p) ==
    /\ pc[p] \notin {"idle", "ended"}
    /\ Goto(p, IF p = Run THEN "ended" ELSE "idle")
    /\ lease' = IF lease.owner = p THEN [lease EXCEPT !.owner = NoProc] ELSE lease
    /\ call' = [r \in Recoverers |-> IF r = p THEN NoCall ELSE call[r]]
    /\ UNCHANGED <<stream, git, duty, receipt, overtaken>>

Next ==
    \/ RunStep
    \/ \E r \in Recoverers : RecoveryStep(r)
    \/ \E p \in Procs : Crash(p)
    \/ ReconcileEffect
    \/ LeaseElapses
    \/ OtherLands

Spec == Init /\ [][Next]_vars

-----------------------------------------------------------------------------
(* Properties                                                               *)

TypeOK ==
    /\ log \in Seq(Events) /\ mark \in Marks
    /\ ticket \in Tickets /\ ref \in Refs
    /\ candidate \in BOOLEAN /\ failures \in BOOLEAN /\ stale \in BOOLEAN
    /\ overtaken \subseteq {"completion", "cleanup"}
    /\ lease \in [owner : Procs \cup {NoProc}, live : BOOLEAN]
    /\ pc \in [Procs -> PC]
    /\ receipt \in {"none", "completed", "failed", "uncertain"}

\* Whatever the run, the recoveries, crashes and other tasks do in between: the change
\* lands while the task is open; nothing of it is thrown away before the journal holds the
\* verified evidence of its landing; and a task whose change landed ends only after that
\* evidence, so that its stream never says "failed" of a landing nobody wrote down; except
\* for a bounded cleanup that a resumed run overtook, which ends the task of that run.
Outcome == IF log # <<>> /\ Terminal(log) THEN Last(log) ELSE "open"
Promise == INSTANCE HonestOutcome WITH
    landed   <- Landed,
    evidence <- Has(log, "integration_observed"),
    kept     <- ticket # "gone",
    outcome  <- IF "cleanup" \in overtaken THEN "open" ELSE Outcome
ImplementsHonestOutcome == Promise!Spec

\* A completed task leaves neither its worktree nor its branch nor the candidate of its
\* integration behind, by whichever of the paths of the run and the recovery it was
\* completed; except for a recovery the run overtook between its inspection and its own
\* reading of the stream, which skips the inspection of the state it then acts on.
CompletedIsClean ==
    Outcome = "completed" /\ "completion" \notin overtaken => ticket = "gone" /\ ~candidate

\* A change that landed is never out of reach of recordCompletion by the stream alone:
\* wherever the run died, if the branch is still at the change, no candidate is left
\* behind and a cleanup that began is finished, inspect() says so and recordCompletion has
\* a way to go on; except for a stream that ends in a pause or its reconciliation, which
\* inspect() looks through and recordCompletion does not, and for an overtaken cleanup.
LandedIsRecoverable ==
    /\ ref = "result" /\ ~candidate /\ ~failures
    /\ mark = "none" /\ ~Terminal(log) /\ "cleanup" \notin overtaken
    /\ Range(log) \cap CleanupBegun # {} => ticket = "gone"
    => Decision(log, mark) = "record_completion" /\ Last(log) \in Paths

=============================================================================
