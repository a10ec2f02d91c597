----------------------------- MODULE MultiWriter -----------------------------
(***************************************************************************)
(* The waves of writers of several milestones that share one process and   *)
(* one governor: MultiWriterOwnershipScheduler.run()                       *)
(* (orchestration/multi-writer-scheduler.ts) with the writer operations of *)
(* the milestone registry and of its projection (milestones/) it appends   *)
(* with.                                                                   *)
(*                                                                         *)
(* Durable: the milestone stream (lifecycle, the planned tasks of the      *)
(* writers and of their reviewers, the ownership of the writers) and one   *)
(* task stream per writer. In memory: the governor, the runs and the       *)
(* executions. One action makes at most one append of a milestone stream,  *)
(* so that a crash, and a pause from another process, come between any two *)
(* of them; the code of one process between two awaits is otherwise        *)
(* interleaved more freely here than its event loop does.                  *)
(*                                                                         *)
(* Abstracted: the execution of a writer is what the scheduler sees of it  *)
(* (its stream, its callback, its result); every outcome but success is    *)
(* "failed"; a paused or ended milestone are both not open, an ended one   *)
(* is a paused one nobody resumes; a milestone has one run at a time.      *)
(***************************************************************************)
EXTENDS WriterGovernor, SequencesExt

CONSTANTS
    Milestones,
    Plan,               \* [Milestones -> Seq(Writers)]: the writers, in the order of the plan
    DependsOn,          \* the writers whose task a writer depends on
    DependsOnReview,    \* the writers whose reviewer's task it depends on
    Overlapping,        \* sets of two writers whose owned paths overlap
    MilestoneLimit,     \* maxConcurrentWriters of a milestone's schedule
    ExecutionReviewed,  \* the writers with reviewerLifecycle = "execution"
    MaxRuns,            \* [Milestones -> Nat]: runs of a milestone (bound)
    MaxTroubles         \* crashes, pauses, aborts and rejections (bound)

ASSUME PlanAssumption ==
    /\ Plan \in [Milestones -> Seq(Writers)]
    /\ DependsOn \in [Writers -> SUBSET Writers]
    /\ DependsOnReview \in [Writers -> SUBSET Writers]
    /\ Overlapping \subseteq SUBSET Writers
    /\ MilestoneLimit \in [Milestones -> 1..GlobalLimit]
    /\ ExecutionReviewed \subseteq Writers
    /\ MaxRuns \in [Milestones -> Nat] /\ MaxTroubles \in Nat

(* The identity of a writer is made of its milestone and its task.         *)
ASSUME IdentityAssumption ==
    \A m, n \in Milestones : \A i \in DOMAIN Plan[m], j \in DOMAIN Plan[n] :
        Plan[m][i] = Plan[n][j] => m = n

VARIABLES
    life,      \* the milestone stream: "open" or "paused"
    task,      \* the writer's planned task
    review,    \* its reviewer's planned task
    claim,     \* the ownership of the writer
    stream,    \* the writer's own task stream
    active,    \* governor: the writers that hold capacity
    queue,     \* governor: the milestones whose wave waits
    pc,        \* where the run of a milestone is
    pending,   \* the tasks the run has not settled
    todo,      \* those of them this pass still looks at
    wave,      \* the writers of the wave
    resumed,   \* the wave resumes a durable claim
    held,      \* the writers the permit of the run has not released
    exec,      \* where the execution of a writer is
    launched,  \* history: the writers execution.run() was called for
    runs, troubles  \* bounds

durable == <<life, task, review, claim, stream>>
governor == <<active, queue>>
writersVars == <<life, task, review, claim, stream, active, queue, pc, pending, todo,
          wave, resumed, held, exec, launched, runs, troubles>>

Of(m) == {Plan[m][i] : i \in DOMAIN Plan[m]}
MilestoneOf(w) == CHOOSE m \in Milestones : w \in Of(m)
Open(m) == life[m] = "open"

(* The first writer of ws in the order of the plan.                        *)
First(m, ws) == Plan[m][CHOOSE i \in DOMAIN Plan[m] :
                          /\ Plan[m][i] \in ws
                          /\ \A j \in 1..(i - 1) : Plan[m][j] \notin ws]

WritersInit ==
    /\ life = [m \in Milestones |-> "open"]
    /\ task = [w \in Writers |-> "planned"]
    /\ review = [w \in Writers |-> "planned"]
    /\ claim = [w \in Writers |-> "none"]
    /\ stream = [w \in Writers |-> "none"]
    /\ active = {}
    /\ queue = <<>>
    /\ pc = [m \in Milestones |-> "idle"]
    /\ pending = [m \in Milestones |-> {}]
    /\ todo = [m \in Milestones |-> {}]
    /\ wave = [m \in Milestones |-> {}]
    /\ resumed = [m \in Milestones |-> FALSE]
    /\ held = [m \in Milestones |-> {}]
    /\ exec = [w \in Writers |-> "none"]
    /\ launched = {}
    /\ runs = [m \in Milestones |-> 0]
    /\ troubles = 0

-----------------------------------------------------------------------------
(* The governor. Govern(act, q, at, hold, waves) is its state after a call *)
(* that leaves the writers act active and the milestones q waiting: it     *)
(* drains, and the runs it grants a permit continue.                       *)
Govern(act, q, at, hold, waves) ==
    LET n == Drained(act, [i \in DOMAIN q |-> waves[q[i]]])
        got == {q[i] : i \in 1..n}
    IN /\ active' = act \union UNION {waves[m] : m \in got}
       /\ queue' = SubSeq(q, n + 1, Len(q))
       /\ pc' = [m \in Milestones |-> IF m \in got THEN "granted" ELSE at[m]]
       /\ held' = [m \in Milestones |-> IF m \in got THEN waves[m] ELSE hold[m]]

(* governor.release(request), called by the reconciliation.                *)
Release(w, at) == Govern(active \ {w}, queue, at, held, wave)

(* permit.release(writerId): only what the permit still owns.              *)
PermitRelease(m, ws, at) ==
    Govern(active \ (ws \intersect held[m]), queue, at,
           [held EXCEPT ![m] = @ \ ws], wave)

RunAt(m, place) == [pc EXCEPT ![m] = place]

(* The run returns or throws: its locals are gone, what its permit did not *)
(* release stays active.                                                   *)
Forget(m, freed) ==
    /\ Govern(active \ freed, queue, RunAt(m, "idle"), [held EXCEPT ![m] = {}], wave)
    /\ pending' = [pending EXCEPT ![m] = {}]
    /\ todo' = [todo EXCEPT ![m] = {}]
    /\ wave' = [wave EXCEPT ![m] = {}]
    /\ resumed' = [resumed EXCEPT ![m] = FALSE]
    /\ exec' = [w \in Writers |-> IF w \in Of(m) THEN "none" ELSE exec[w]]
    /\ UNCHANGED <<launched, runs, troubles>>
Return(m) == Forget(m, {}) /\ UNCHANGED durable
GiveUpWave(m) == Forget(m, held[m]) /\ UNCHANGED durable

(* The top of the loop with the tasks left: done, stopped, or a new pass.  *)
Top(m, left) == IF left = {} \/ ~Open(m) THEN "idle" ELSE "pass"

Run(m) ==
    /\ pc[m] = "idle" /\ runs[m] < MaxRuns[m]
    /\ Open(m)
    /\ runs' = [runs EXCEPT ![m] = @ + 1]
    /\ pc' = RunAt(m, "pass")
    /\ pending' = [pending EXCEPT ![m] = Of(m)]
    /\ todo' = [todo EXCEPT ![m] = Of(m)]
    /\ UNCHANGED <<durable, governor, wave, resumed, held, exec, launched, troubles>>

-----------------------------------------------------------------------------
(* The reconciliation of the claims of earlier runs. "pass": nothing was   *)
(* reconciled in this pass so far; "again": something was. A pass has      *)
(* nothing to do for a writer without a claim, or that never started.      *)
NothingToReconcile(w) ==
    \/ claim[w] = "none"
    \/ claim[w] = "claimed" /\ stream[w] = "none" /\ task[w] # "running"
Claims(m) == {w \in todo[m] : ~NothingToReconcile(w)}
Passing(m, w) == pc[m] \in {"pass", "again"} /\ Claims(m) # {} /\ w = First(m, Claims(m))

Dropped(m, w) ==
    /\ pending' = [pending EXCEPT ![m] = @ \ {w}]
    /\ todo' = [todo EXCEPT ![m] = @ \ {w}]
    /\ UNCHANGED <<wave, resumed, exec, launched, runs, troubles>>

DropSettled(m, w) ==
    /\ Passing(m, w)
    /\ claim[w] \in {"integrated", "released"}
    /\ Release(w, RunAt(m, "again"))
    /\ Dropped(m, w)
    /\ UNCHANGED durable

(* reconcileCompletedWriter(): the appends that lead from any point of an  *)
(* interrupted run to the integration of a writer whose stream completed,  *)
(* one at a time. Integrated(w) is the last of them, the append of         *)
(* completeWriterIntegration(), which also completes the reviewer.         *)
CanIntegrate(w) == /\ task[w] = "completed"
                   /\ review[w] \in {"running", "completed"}
                   /\ stream[w] = "completed"
Integrated(w) ==
    /\ claim' = [claim EXCEPT ![w] = "integrated"]
    /\ review' = [review EXCEPT ![w] = "completed"]
    /\ UNCHANGED <<life, task, stream>>

Approach(m, w) ==
    /\ Open(m)
    /\ \/ /\ task[w] = "ready"
          /\ task' = [task EXCEPT ![w] = "running"] /\ UNCHANGED review
       \/ /\ task[w] = "running"
          /\ task' = [task EXCEPT ![w] = "completed"] /\ UNCHANGED review
       \/ /\ task[w] = "completed" /\ review[w] = "planned"
          /\ review' = [review EXCEPT ![w] = "ready"] /\ UNCHANGED task
       \/ /\ task[w] = "completed" /\ review[w] = "ready"
          /\ review' = [review EXCEPT ![w] = "running"] /\ UNCHANGED task
    /\ UNCHANGED <<life, claim, stream, governor, pc, pending, todo, wave,
                   resumed, held, exec, launched, runs, troubles>>

ReconcileCompleted(m, w) ==
    /\ Passing(m, w)
    /\ claim[w] = "claimed" /\ stream[w] = "completed"
    /\ \/ Approach(m, w)
       \/ /\ Open(m) /\ CanIntegrate(w)
          /\ Integrated(w)
          /\ Release(w, RunAt(m, "again"))
          /\ Dropped(m, w)
       \/ /\ ~Open(m)              \* the append throws; finally releases
          /\ Forget(m, {w}) /\ UNCHANGED durable

(* releaseTerminalWriter(): a failed stream gives the claim back, unless   *)
(* the planned tasks contradict it.                                        *)
CanRelease(w) ==
    \/ task[w] \in {"running", "failed"} /\ review[w] = "planned"
    \/ task[w] = "completed" /\ review[w] \in {"running", "failed"}
Released(w) ==
    /\ claim' = [claim EXCEPT ![w] = "released"]
    /\ task' = [task EXCEPT ![w] = IF @ = "running" THEN "failed" ELSE @]
    /\ review' = [review EXCEPT ![w] = IF @ = "running" THEN "failed" ELSE @]
    /\ UNCHANGED <<life, stream>>

ReconcileFailed(m, w) ==
    /\ Passing(m, w)
    /\ claim[w] = "claimed" /\ stream[w] = "failed"
    /\ IF Open(m) /\ CanRelease(w)
       THEN Released(w) /\ Release(w, RunAt(m, "again")) /\ Dropped(m, w)
       ELSE Forget(m, {w}) /\ UNCHANGED durable

(* inspectWriterRecovery(): what may have been dispatched before a restart. *)
(* A dispatch intent and a start of the reviewer stay in the streams. A     *)
(* claim that is neither uncertain nor a safe handoff is returned as it is; *)
(* no sequence of the appends modelled here leads to one.                   *)
Uncertain(w) == \/ stream[w] \in {"dispatched", "unsureReview"}
                \/ review[w] \in {"running", "completed", "failed"}
                \/ task[w] = "running" /\ stream[w] # "awaiting"
SafeHandoff(w) == stream[w] = "awaiting" /\ ~Uncertain(w)
Interrupted(w) == claim[w] = "claimed" /\ stream[w] \notin {"completed", "failed"}

(* pauseForUncertainReviewer(): the task stream first, then the milestone. *)
Unsure == {"unsure", "unsureReview"}
PauseUncertain(m, w) ==
    /\ Passing(m, w) /\ Interrupted(w) /\ Uncertain(w)
    /\ IF stream[w] \notin Unsure
       THEN /\ stream' = [stream EXCEPT ![w] =
                              IF @ = "dispatched" THEN "unsureReview" ELSE "unsure"]
            /\ UNCHANGED <<life, task, review, claim, governor, pc, pending, todo,
                           wave, resumed, held, exec, launched, runs, troubles>>
       ELSE /\ life' = [life EXCEPT ![m] = "paused"]
            /\ Forget(m, {})
            /\ UNCHANGED <<task, review, claim, stream>>

(* The safe handoff: the appends the interrupted callback still owes, then  *)
(* execution.resumeValidatedHandoff().                                      *)
ResumeHandoff(m, w) ==
    /\ Passing(m, w) /\ Interrupted(w) /\ SafeHandoff(w)
    /\ \/ task[w] = "running" /\ Approach(m, w)
       \/ task[w] = "completed" /\ review[w] = "planned" /\ Approach(m, w)
       \/ /\ task[w] = "completed" /\ review[w] = "ready"
          /\ pc' = RunAt(m, "resume")
          /\ exec' = [exec EXCEPT ![w] = "resuming"]
          /\ UNCHANGED <<durable, governor, pending, todo, wave, resumed, held,
                         launched, runs, troubles>>
       \/ ~Open(m) /\ (task[w] = "running" \/ review[w] = "planned") /\ Return(m)

(* The retained worktree no longer is what was validated.                  *)
StaleHandoff(m, w) ==
    /\ exec[w] = "resuming" /\ w \in Of(m)
    /\ life' = [life EXCEPT ![m] = "paused"]
    /\ Forget(m, {})
    /\ UNCHANGED <<task, review, claim, stream>>

(* The result of the resumed handoff. The permit of the run that claimed   *)
(* the writer is not looked at again.                                      *)
ResumeReturns(m, w) ==
    /\ pc[m] = "resume" /\ exec[w] = "returned" /\ w \in Of(m)
    /\ \/ stream[w] = "completed" /\ Open(m) /\ CanIntegrate(w) /\ Integrated(w)
       \/ stream[w] = "failed" /\ Open(m) /\ CanRelease(w) /\ Released(w)
       \/ stream[w] \in Unsure /\ UNCHANGED durable
    /\ pc' = RunAt(m, "again")
    /\ pending' = [pending EXCEPT ![m] = @ \ {w}]
    /\ todo' = [todo EXCEPT ![m] = @ \ {w}]
    /\ exec' = [exec EXCEPT ![w] = "none"]
    /\ UNCHANGED <<governor, wave, resumed, held, launched, runs, troubles>>
ResumeThrows(m, w) ==
    /\ pc[m] = "resume" /\ w \in Of(m)
    /\ \/ exec[w] = "rejected"
       \/ exec[w] = "returned" /\ stream[w] = "completed" /\ ~(Open(m) /\ CanIntegrate(w))
       \/ exec[w] = "returned" /\ stream[w] = "failed" /\ ~(Open(m) /\ CanRelease(w))
    /\ Return(m)

NextPass(m) ==
    /\ pc[m] = "again" /\ Claims(m) = {}
    /\ IF Top(m, pending[m]) = "idle"
       THEN Return(m)
       ELSE /\ pc' = RunAt(m, "pass")
            /\ todo' = [todo EXCEPT ![m] = pending[m]]
            /\ UNCHANGED <<durable, governor, pending, wave, resumed, held, exec,
                           launched, runs, troubles>>

-----------------------------------------------------------------------------
(* The wave. selectWave(): greedily in the order of the plan.              *)
DependenciesDone_HandedOff(w) == \A d \in DependsOn[w] \union DependsOnReview[w] :
                                   task[d] = "completed"
DependenciesDone(w) == /\ \A d \in DependsOn[w] : task[d] = "completed"
                       /\ \A d \in DependsOnReview[w] : review[d] = "completed"
Runnable(w) == claim[w] = "none" /\ task[w] \in {"planned", "ready"} /\ DependenciesDone(w)
Disjoint(w, ws) == \A v \in ws : {v, w} \notin Overlapping
Eligible(m) == {w \in pending[m] : Runnable(w)}
SelectWave(m) ==
    Eligible(m) \cap
    FoldLeft(LAMBDA ws, w :
               IF /\ w \in Eligible(m)
                  /\ Cardinality(ws) < MilestoneLimit[m]
                  /\ Cardinality(OnModel(ws, ModelOf[w])) < ModelLimit[ModelOf[w]]
                  /\ Disjoint(w, ws)
               THEN ws \union {w} ELSE ws,
             {}, Plan[m])

(* A pass that reconciled nothing: resume the claims that never started, or *)
(* select a new wave, and ask the governor for it. A wave that is active    *)
(* already is recovered as a whole or not at all (recoverIfActive).         *)
Select(m) ==
    LET claimed == {w \in pending[m] : claim[w] = "claimed"}
        ws == IF claimed = {} THEN SelectWave(m) ELSE {w \in claimed : task[w] = "ready"}
        waves == [wave EXCEPT ![m] = ws]
        recovered == claimed # {} /\ ws \subseteq active
    IN /\ pc[m] = "pass" /\ Claims(m) = {}
       /\ IF ws = {} \/ (~recovered /\ (ws \intersect active # {} \/ ~WithinLimits(ws)))
          THEN Return(m)
          ELSE /\ IF recovered
                  THEN Govern(active, queue, RunAt(m, "granted"), [held EXCEPT ![m] = ws], waves)
                  ELSE Govern(active, Append(queue, m), RunAt(m, "waiting"), held, waves)
               /\ wave' = waves
               /\ resumed' = [resumed EXCEPT ![m] = claimed # {}]
               /\ todo' = [todo EXCEPT ![m] = {}]
               /\ UNCHANGED <<durable, pending, exec, launched, runs, troubles>>

(* The queue without the wave of m, which is in it while its run waits.    *)
Without(q, m) ==
    LET i == CHOOSE i \in DOMAIN q : q[i] = m
    IN IF pc[m] = "waiting" THEN SubSeq(q, 1, i - 1) \o SubSeq(q, i + 1, Len(q)) ELSE q

(* The signal of a writer aborts while the wave waits, or before the run   *)
(* has seen its permit: the rest of the queue goes on.                     *)
Abort_NoDrain(m) ==
    /\ pc[m] \in {"waiting", "granted"} /\ troubles < MaxTroubles
    /\ troubles' = troubles + 1
    /\ active' = active \ held[m]
    /\ queue' = Without(queue, m)
    /\ pc' = RunAt(m, "idle")
    /\ held' = [held EXCEPT ![m] = {}]
    /\ pending' = [pending EXCEPT ![m] = {}]
    /\ wave' = [wave EXCEPT ![m] = {}]
    /\ resumed' = [resumed EXCEPT ![m] = FALSE]
    /\ UNCHANGED <<durable, todo, exec, launched, runs>>
Abort(m) ==
    /\ pc[m] \in {"waiting", "granted"} /\ troubles < MaxTroubles
    /\ troubles' = troubles + 1
    /\ Govern(active \ held[m], Without(queue, m), RunAt(m, "idle"),
              [held EXCEPT ![m] = {}], wave)
    /\ pending' = [pending EXCEPT ![m] = {}]
    /\ wave' = [wave EXCEPT ![m] = {}]
    /\ resumed' = [resumed EXCEPT ![m] = FALSE]
    /\ UNCHANGED <<durable, todo, exec, launched, runs>>

(* The run looks again at what it selected before it waited.               *)
StillRunnable(m) == \A w \in wave[m] :
    IF resumed[m] THEN claim[w] = "claimed" /\ task[w] = "ready" ELSE Runnable(w)
SeePermit(m) ==
    /\ pc[m] = "granted" /\ StillRunnable(m)
    /\ pc' = RunAt(m, "admit")
    /\ UNCHANGED <<durable, governor, pending, todo, wave, resumed, held, exec,
                   launched, runs, troubles>>

AdmitWriter(m, w) ==
    /\ pc[m] = "admit" /\ w \in wave[m] /\ task[w] = "planned"
    /\ Open(m)
    /\ task' = [task EXCEPT ![w] = "ready"]
    /\ UNCHANGED <<life, review, claim, stream, governor, pc, pending, todo, wave,
                   resumed, held, exec, launched, runs, troubles>>

(* startWriterBatch() and the checks of its projection: the claims of the   *)
(* milestone, those of a wave before included, stay within its limits and   *)
(* own disjoint paths.                                                      *)
Claimed(m) == {w \in Of(m) : claim[w] = "claimed"}
Claimable(m) ==
    LET all == Claimed(m) \union wave[m]
    IN /\ \A w \in wave[m] : /\ claim[w] = "none"
                              /\ task[w] = "ready" /\ review[w] = "planned"
                              /\ DependenciesDone(w)
                              /\ Disjoint(w, all \ {w})
       /\ Cardinality(all) <= MilestoneLimit[m]
       /\ \A x \in Models : Cardinality(OnModel(all, x)) <= ModelLimit[x]

AllReady(m) == \A w \in wave[m] : task[w] = "ready"
ClaimWave(m) ==
    /\ pc[m] = "admit" /\ AllReady(m) /\ Open(m)
    /\ resumed[m] \/ Claimable(m)
    /\ claim' = [w \in Writers |-> IF w \in wave[m] THEN "claimed" ELSE claim[w]]
    /\ pc' = RunAt(m, "start")
    /\ UNCHANGED <<life, task, review, stream, governor, pending, todo, wave,
                   resumed, held, exec, launched, runs, troubles>>

StartWriter(m, w) ==
    /\ pc[m] = "start" /\ w \in wave[m] /\ task[w] = "ready"
    /\ Open(m)
    /\ task' = [task EXCEPT ![w] = "running"]
    /\ UNCHANGED <<life, review, claim, stream, governor, pc, pending, todo, wave,
                   resumed, held, exec, launched, runs, troubles>>

(* Whatever fails before the executions are called gives the permit back.  *)
WaveFails(m) ==
    /\ \/ pc[m] = "granted" /\ ~StillRunnable(m)
       \/ pc[m] = "admit" /\ (~Open(m) \/ (AllReady(m) /\ ~resumed[m] /\ ~Claimable(m)))
       \/ pc[m] = "start" /\ ~Open(m) /\ \E w \in wave[m] : task[w] = "ready"
    /\ GiveUpWave(m)

Launch_BeforeStart(m) ==
    /\ pc[m] = "start" /\ \A w \in wave[m] : exec[w] = "none"
    /\ exec' = [w \in Writers |-> IF w \in wave[m] THEN "called" ELSE exec[w]]
    /\ launched' = launched \union wave[m]
    /\ pc' = RunAt(m, "wave")
    /\ UNCHANGED <<durable, governor, pending, todo, wave, resumed, held, runs, troubles>>
Launch(m) ==
    /\ pc[m] = "start" /\ \A w \in wave[m] : task[w] = "running"
    /\ pc' = RunAt(m, "wave")
    /\ exec' = [w \in Writers |-> IF w \in wave[m] THEN "called" ELSE exec[w]]
    /\ launched' = launched \union wave[m]
    /\ UNCHANGED <<durable, governor, pending, todo, wave, resumed, held, runs, troubles>>

-----------------------------------------------------------------------------
(* The executions of a wave. What happens in one leaves the run alone; the  *)
(* callback onReviewReady runs inside it.                                   *)
Step(w, place) ==
    /\ exec' = [exec EXCEPT ![w] = place]
    /\ UNCHANGED <<pending, todo, wave, resumed, launched, runs>>
Undisturbed == UNCHANGED <<governor, pc, held>>

Execute(w) ==
    /\ exec[w] = "called" /\ stream[w] = "none"
    /\ stream' = [stream EXCEPT ![w] = "working"]
    /\ Step(w, "writing")
    /\ UNCHANGED <<life, task, review, claim, troubles>> /\ Undisturbed

(* Before the handoff: the stream ends without success, or its harness      *)
(* cannot tell.                                                             *)
WriterEnds(w) ==
    /\ exec[w] = "writing"
    /\ \E end \in {"failed", "unsure"} : stream' = [stream EXCEPT ![w] = end]
    /\ Step(w, "returned")
    /\ UNCHANGED <<life, task, review, claim, troubles>> /\ Undisturbed

ValidatedHandoff(w) ==
    /\ exec[w] = "writing"
    /\ stream' = [stream EXCEPT ![w] = "awaiting"]
    /\ Step(w, "handoff")
    /\ UNCHANGED <<life, task, review, claim, troubles>> /\ Undisturbed

(* onReviewReady, one append at a time.                                     *)
HandOff_WholeWave(w) ==
    LET m == MilestoneOf(w) IN
    /\ exec[w] = "handoff" /\ Open(m)
    /\ task' = [task EXCEPT ![w] = "completed"]
    /\ PermitRelease(m, wave[m], pc)
    /\ Step(w, "handed")
    /\ UNCHANGED <<life, review, claim, stream, troubles>>
HandOff(w) ==
    LET m == MilestoneOf(w) IN
    /\ exec[w] = "handoff" /\ Open(m)
    /\ task' = [task EXCEPT ![w] = "completed"]
    /\ PermitRelease(m, {w}, pc)
    /\ Step(w, "handed")
    /\ UNCHANGED <<life, review, claim, stream, troubles>>
AdmitReviewer(w) ==
    /\ exec[w] = "handed" /\ Open(MilestoneOf(w)) /\ review[w] = "planned"
    /\ review' = [review EXCEPT ![w] = "ready"]
    /\ Step(w, IF w \in ExecutionReviewed THEN "arrived" ELSE "admitted")
    /\ UNCHANGED <<life, task, claim, stream, troubles>> /\ Undisturbed
StartReviewer(w) ==
    /\ exec[w] = "admitted" /\ Open(MilestoneOf(w))
    /\ review' = [review EXCEPT ![w] = "running"]
    /\ Step(w, "arrived")
    /\ UNCHANGED <<life, task, claim, stream, troubles>> /\ Undisturbed

(* A refused append of the callback ends the stream of the writer.          *)
HandOffRefused(w) ==
    /\ exec[w] \in {"handoff", "handed", "admitted"} /\ ~Open(MilestoneOf(w))
    /\ stream' = [stream EXCEPT ![w] = "failed"]
    /\ Step(w, "returned")
    /\ UNCHANGED <<life, task, review, claim, troubles>> /\ Undisturbed

(* WaveBarrier: whoever has arrived goes on when all the others of the wave *)
(* have arrived too or are settled.                                         *)
StillWriting == {"called", "writing", "handoff", "handed", "admitted"}
BarrierOpen(m) == \A w \in wave[m] : exec[w] \notin StillWriting
DispatchReview(w) ==
    /\ \/ exec[w] = "arrived" /\ BarrierOpen(MilestoneOf(w))
       \/ exec[w] = "resuming"
    /\ stream' = [stream EXCEPT ![w] = "dispatched"]
    /\ Step(w, "reviewing")
    /\ UNCHANGED <<life, task, review, claim, troubles>> /\ Undisturbed
StartOwnReview(w) ==
    /\ exec[w] = "reviewing" /\ w \in ExecutionReviewed
    /\ Open(MilestoneOf(w)) /\ review[w] = "ready"
    /\ review' = [review EXCEPT ![w] = "running"]
    /\ UNCHANGED <<life, task, claim, stream, governor, pc, pending, todo, wave,
                   resumed, held, exec, launched, runs, troubles>>

(* Review, commit and integration: an approval needs a review that ran.     *)
ReviewEnds(w) ==
    /\ exec[w] = "reviewing"
    /\ \E end \in {"completed", "failed", "unsureReview"} :
         /\ end # "failed" /\ w \in ExecutionReviewed => review[w] = "running"
         /\ stream' = [stream EXCEPT ![w] = end]
    /\ Step(w, "returned")
    /\ UNCHANGED <<life, task, review, claim, troubles>> /\ Undisturbed

(* The execution rejects, wherever it is: an infrastructure failure, or an  *)
(* append of the journal that failed.                                       *)
ExecRejects(w) ==
    /\ exec[w] \in StillWriting \union {"arrived", "reviewing", "resuming", "returned"}
    /\ troubles < MaxTroubles
    /\ troubles' = troubles + 1
    /\ Step(w, "rejected")
    /\ UNCHANGED durable /\ Undisturbed

-----------------------------------------------------------------------------
(* What the run does with the result of one execution; "failing": the       *)
(* failed task is recorded, the ownership is not yet given back.            *)
Returned(w) == pc[MilestoneOf(w)] = "wave" /\ exec[w] = "returned"

SettleIntegrated(w) ==
    /\ Returned(w) /\ stream[w] = "completed"
    /\ Open(MilestoneOf(w)) /\ CanIntegrate(w)
    /\ Integrated(w)
    /\ Step(w, "settled")
    /\ UNCHANGED troubles /\ Undisturbed
SettleFailure(w) ==
    /\ Returned(w) /\ stream[w] = "failed" /\ Open(MilestoneOf(w))
    /\ \/ /\ task[w] = "running"
          /\ task' = [task EXCEPT ![w] = "failed"] /\ UNCHANGED review
       \/ /\ task[w] = "completed" /\ review[w] = "running"
          /\ review' = [review EXCEPT ![w] = "failed"] /\ UNCHANGED task
    /\ Step(w, "failing")
    /\ UNCHANGED <<life, claim, stream, troubles>> /\ Undisturbed
SettleReleased(w) ==
    LET m == MilestoneOf(w) IN
    /\ exec[w] = "failing" /\ Open(m) /\ CanRelease(w)
    /\ Released(w)
    /\ PermitRelease(m, {w}, pc)
    /\ Step(w, "settled")
    /\ UNCHANGED troubles
(* Nothing is appended for a writer that may still be at work, nor for one  *)
(* that was handed off to a reviewer the scheduler did not start.           *)
NothingToSettle(w) ==
    \/ stream[w] \in Unsure
    \/ stream[w] = "failed" /\ task[w] = "completed" /\ review[w] # "running"
       /\ w \notin ExecutionReviewed
SettleNothing(w) ==
    /\ Returned(w) /\ NothingToSettle(w)
    /\ Step(w, "settled")
    /\ UNCHANGED <<durable, troubles>> /\ Undisturbed
SettleRefused(w) ==
    /\ \/ Returned(w) /\ ~NothingToSettle(w)
          /\ \/ ~Open(MilestoneOf(w))
             \/ stream[w] = "completed" /\ ~CanIntegrate(w)
             \/ stream[w] = "failed" /\ task[w] = "completed" /\ review[w] # "running"
       \/ exec[w] = "failing" /\ ~(Open(MilestoneOf(w)) /\ CanRelease(w))
    /\ Step(w, "rejected")
    /\ UNCHANGED <<durable, troubles>> /\ Undisturbed

(* After all of them: the rejected ones are looked at in order, by what     *)
(* their streams say. "dealt": a rejected writer that was looked at. A      *)
(* writer whose stream has not ended keeps its claim and its capacity.      *)
WaveOver(m) == pc[m] = "wave" /\ \A w \in wave[m] : exec[w] \in {"settled", "rejected", "dealt"}
Rejected(m) == {w \in wave[m] : exec[w] = "rejected"}
Examines(m, w) == WaveOver(m) /\ Rejected(m) # {} /\ w = First(m, Rejected(m))
ThrowAfter(m, w) == Forget(m, {w} \intersect held[m]) /\ UNCHANGED durable

RejectedCompleted(m, w) ==
    /\ Examines(m, w) /\ stream[w] = "completed"
    /\ \/ Approach(m, w)
       \/ /\ Open(m) /\ CanIntegrate(w)
          /\ Integrated(w)
          /\ PermitRelease(m, {w}, pc)
          /\ Step(w, "dealt")
          /\ UNCHANGED troubles
       \/ ~Open(m) /\ ThrowAfter(m, w)
RejectedFailed(m, w) ==
    /\ Examines(m, w) /\ stream[w] = "failed"
    /\ \/ /\ task[w] = "running" /\ Open(m)
          /\ task' = [task EXCEPT ![w] = "failed"]
          /\ UNCHANGED <<life, review, claim, stream, governor, pc, pending, todo, wave,
                         resumed, held, exec, launched, runs, troubles>>
       \/ /\ task[w] = "failed" /\ Open(m) /\ CanRelease(w)
          /\ Released(w)
          /\ PermitRelease(m, {w}, pc)
          /\ Step(w, "dealt")
          /\ UNCHANGED troubles
       \/ (task[w] = "completed" \/ ~Open(m)) /\ ThrowAfter(m, w)
RejectedRetained(m, w) ==
    /\ Examines(m, w) /\ stream[w] \notin {"completed", "failed"}
    /\ Step(w, "dealt")
    /\ UNCHANGED <<durable, troubles>> /\ Undisturbed

WaveReturns(m) ==
    LET left == pending[m] \ wave[m]
        stays == \E w \in wave[m] : exec[w] = "dealt" \/ claim[w] = "claimed"
    IN /\ WaveOver(m) /\ Rejected(m) = {}
       /\ IF stays \/ Top(m, left) = "idle"
          THEN Return(m)
          ELSE /\ pc' = RunAt(m, "pass")
               /\ pending' = [pending EXCEPT ![m] = left]
               /\ todo' = [todo EXCEPT ![m] = left]
               /\ exec' = [w \in Writers |-> IF w \in wave[m] THEN "none" ELSE exec[w]]
               /\ wave' = [wave EXCEPT ![m] = {}]
               /\ resumed' = [resumed EXCEPT ![m] = FALSE]
               /\ held' = [held EXCEPT ![m] = {}]
               /\ UNCHANGED <<durable, governor, launched, runs, troubles>>

-----------------------------------------------------------------------------
(* The process stops anywhere; only the streams are left.                   *)
Crash ==
    /\ troubles < MaxTroubles
    /\ troubles' = troubles + 1
    /\ active' = {} /\ queue' = <<>>
    /\ pc' = [m \in Milestones |-> "idle"]
    /\ pending' = [m \in Milestones |-> {}]
    /\ todo' = [m \in Milestones |-> {}]
    /\ wave' = [m \in Milestones |-> {}]
    /\ resumed' = [m \in Milestones |-> FALSE]
    /\ held' = [m \in Milestones |-> {}]
    /\ exec' = [w \in Writers |-> "none"]
    /\ UNCHANGED <<durable, launched, runs>>

(* Appends of other processes: the milestone is paused, a pause is resolved *)
(* (resolveReplanning), an operator declares an uncertain writer failed.    *)
Pause(m) ==
    /\ Open(m) /\ troubles < MaxTroubles
    /\ troubles' = troubles + 1
    /\ life' = [life EXCEPT ![m] = "paused"]
    /\ UNCHANGED <<task, review, claim, stream, governor, pc, pending, todo, wave,
                   resumed, held, exec, launched, runs>>
Resolve(m) ==
    /\ ~Open(m)
    /\ life' = [life EXCEPT ![m] = "open"]
    /\ UNCHANGED <<task, review, claim, stream, governor, pc, pending, todo, wave,
                   resumed, held, exec, launched, runs, troubles>>
OperatorSettles(w) ==
    /\ stream[w] \in Unsure /\ exec[w] \in {"none", "settled"}
    /\ stream' = [stream EXCEPT ![w] = "failed"]
    /\ UNCHANGED <<life, task, review, claim, governor, pc, pending, todo, wave,
                   resumed, held, exec, launched, runs, troubles>>

-----------------------------------------------------------------------------
(* What the run itself does next, and what its executions do.               *)
RunStep(m) ==
    \/ \E w \in Of(m) :
         \/ DropSettled(m, w)
         \/ ReconcileCompleted(m, w) \/ ReconcileFailed(m, w)
         \/ PauseUncertain(m, w) \/ ResumeHandoff(m, w)
         \/ ResumeReturns(m, w) \/ ResumeThrows(m, w)
         \/ AdmitWriter(m, w) \/ StartWriter(m, w)
         \/ RejectedCompleted(m, w) \/ RejectedFailed(m, w) \/ RejectedRetained(m, w)
    \/ NextPass(m) \/ Select(m) \/ SeePermit(m) \/ ClaimWave(m)
    \/ WaveFails(m) \/ Launch(m) \/ WaveReturns(m)
ExecutionStep(w) ==
    \/ Execute(w) \/ WriterEnds(w) \/ ValidatedHandoff(w)
    \/ HandOff(w) \/ AdmitReviewer(w) \/ StartReviewer(w) \/ HandOffRefused(w)
    \/ DispatchReview(w) \/ StartOwnReview(w) \/ ReviewEnds(w)
    \/ SettleIntegrated(w) \/ SettleFailure(w) \/ SettleReleased(w)
    \/ SettleNothing(w) \/ SettleRefused(w)

WritersNext ==
    \/ \E m \in Milestones :
         Run(m) \/ RunStep(m) \/ Abort(m) \/ Pause(m) \/ Resolve(m)
    \/ \E m \in Milestones, w \in Writers : w \in Of(m) /\ StaleHandoff(m, w)
    \/ \E w \in Writers : ExecutionStep(w) \/ ExecRejects(w) \/ OperatorSettles(w)
    \/ Crash

WritersSpec == WritersInit /\ [][WritersNext]_writersVars

-----------------------------------------------------------------------------
(* A writer that works, from the call of its execution to its handoff, has  *)
(* a slot of the governor, and the slots stay within the limits of the      *)
(* process and of each model, through waves, resumed claims, callbacks and  *)
(* runs that failed.                                                        *)
Working == {w \in Writers : exec[w] \in {"called", "writing", "handoff"}}
CapacityRespected == Working \subseteq active /\ WithinLimits(active)

(* No writer is executed twice, whatever is crashed, paused, aborted and    *)
(* run again: what may have been dispatched is never dispatched again.      *)
LaunchedOnce == [][\A w \in launched : exec'[w] = "called" => exec[w] = "called"]_writersVars

(* A writer that depends on the review of another one is called only when   *)
(* the change of that one is integrated, whoever reviews it and whichever   *)
(* path of the reconciliation settled it.                                   *)
FollowsIntegration == [][\A w \in Writers :
    exec'[w] = "called" => \A d \in DependsOnReview[w] : claim[d] = "integrated"]_writersVars

(* The governor loses no wakeup: while waves wait, the one at the head of   *)
(* the queue does not fit beside the writers that are active, whichever     *)
(* wave before it was released, aborted, refused or cut short.              *)
HeadDoesNotFit == queue # <<>> => ~CanAcquire(active, wave[Head(queue)])
=============================================================================
