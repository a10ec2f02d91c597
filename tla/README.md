# Zentra: formal models of the durable core

Zentra is a local service that plans, runs and integrates the work of coding
agents on one repository. Everything it knows is in one append-only SQLite event
journal. The parts that are hard to get right are those where several processes,
detached workers, timers and crashes meet over that journal: who may write it, what a
scheduled task holds and when it gives it up, what recovery may conclude, what is
projected out of the journal, how many writers run at once and which of them may, what may be
deleted from the journal, how a task ends when its run dies, and what reaches the integration
branch and GitHub. This directory
holds TLA+ specifications of those parts, their TLC configurations, and theorems about
them that TLAPS checks.

Paths such as `leases/daemon-lease.ts` are relative to `src/src/` of the repository.

    tlc -workers 2 -config DaemonScheduler.cfg MCDaemonScheduler     # a run
    tlapm DaemonScheduler_proofs.tla                                 # the proofs of a module

## 1. The system and its components

| Component | State it keeps | Operations | Interacts with | What is hard | What makes it correct |
|---|---|---|---|---|---|
| Event journal (`journal/`) | events, stream versions, projection cursors and claims, snapshots | append at expected versions (several streams, one transaction), read, claim / recover / commit a projection, archive and delete | everything | several processes on one file, crashes between transactions | appends are atomic and ordered; each projection delivers every event once and in order |
| Daemon lease (`leases/daemon-lease.ts`) | one stream: status, owner, expiry | acquire, renew, release, assertActive | the scheduler checks it before each append | a check outside the transaction that relies on it; takeover from the dead | one writer at a time, no zombie writes |
| Durable scheduler (`scheduling/journal-scheduler.ts`, `scheduler-projection.ts`, `global-control.ts`, `dispatch-grant-service.ts`) | scheduler, scheduler-control, dispatch-grant and lease streams | start, recover, submit, tick, started, heartbeat, recordUsage, cancel, complete, expire, reconcile, resolve | journal, daemon lease, policy plane (grants) | six streams that must agree; late calls; recovery | capacity and budget are held exactly while a task is in flight or in doubt, outcomes are final, dependencies come first |
| Daemon process (`scheduling/daemon-scheduler.ts`, `service/scheduler-composition.ts`) | in memory: active executions, timers, loop flags | the dispatch loop, start of workers, completions, deadlines, heartbeats, renewal, shutdown | durable scheduler, operating system | callbacks during `await`, crash between spawn and record, detached workers that survive | each intent is started once and held until it ends |
| Observability projection (`journal/projecting-journal.ts`, `observability/agent-tail-file-sink.ts`) | trace file, cursor, claim | append-and-drain, recover a claim, repair a torn line | journal, file system | kill between a write and its commit, two processes | the trace is the journal, each event once |
| Repository integration (`integration/`) | repository stream, git ref, lease in the common directory | form, integrate, reconcile, cancel, replan, accept, correct | git, journal | uncertain `update-ref`, lapsing lease, calls that overlap | nothing rejected or cancelled lands, nothing landed is lost |
| Writer governor and waves (`orchestration/writer-resource-governor.ts`, `multi-writer-scheduler.ts`) | reservations and a queue in memory; per run the tasks left, the wave, its permit and its executions | run, reconcile earlier claims, select and admit a wave, claim, launch, hand off, review, settle; acquire, abort, release, recover | milestone registry, task streams, executions | FIFO waves, stale permits, callbacks between appends, runs that are cut short and repeated | capacity covers the writers that work, no wakeup is lost, a writer is executed once |
| Task execution and recovery (`orchestration/tracer-bullet.ts`, `recovery.ts`, `tasks/`, `workspaces/worktree-manager.ts`) | one stream per task; its worktree and branch, the candidate of its integration, records of candidates left behind | run a task from its creation to its end; classify what a dead run left behind, record its completion | git, worker, reviewer, integration queue, operators | a crash between any two effects and their events, a recovery while the run goes on, others who land on the branch | a task ends as its change did; nothing is thrown away before its landing is recorded |
| Milestones (`milestones/`) | one stream per milestone: lifecycle, planned tasks, ownership of writers | register, plan, claim a writer, start, integrate, release, pause, resolve | the wave scheduler, operators | optimistic appends from several processes | the writer operations follow one another in the only legal order |
| Workspaces and path claims (`workspaces/`) | worktrees, claimed paths | claim, release, apply a patch | git, writers | overlapping claims, containment | two writers never own one path |
| Retention (`journal/retention.ts`) | the anchored ranges, one active operation, audit rows, prune requests; files and temporary files of the archive directory | archive, back up, request and make a prune, inspect and reconcile; read, page and project the combined journal | journal, file system, operators | a crash between any two transactions and file operations, readers while events move | nothing is deleted that is not archived or that a projection still needs; readers miss nothing |
| Attention and approvals (`attention/`) | one stream per decision, one per reservation, an index per run | ask, accept, answer, reject, expire, mark stale, admit a callback | operator, planning, runs, analysis | decisions taken from streams that have moved on | one decision per request, one use per approval, nothing admitted over a pending decision |
| Runs and planning (`runs/`, `planning/`) | one stream per run, one per plan | propose, revise, reject, request approval; suspend, resume, reopen, cancel | attention, analysis, the service | one operation over three streams, cut short or met by another | a run is granted the plan of its latest request only |
| GitHub broker and capsules (`capsule/`) | one stream per grant, the lease of the repository | push, open a pull request, reconcile | GitHub, Docker, child processes | an effect that outlives its caller, answers that are lost, a lease that lapses | an effect is sent once, and can be asked about until its outcome is known |
| Repository runtime (`runtime/`) | owner record, bootstrap lock | elect, bootstrap, replace | operating system | two owners, reused pids | one runtime per repository |
| Pods, intake, analysis, reviews, routing, release | one stream each | validate a document, append at the version read | journal, agents | mostly validation; optimistic appends | the transitions each projection accepts |
| Harnesses, providers, gateway, CLI, console, contracts, policies | none of their own, or a connection | translate, present, validate | external programs | input and output | outside this development |

`PROJECT.json` lists every component with its source files and says of each whether it is
modelled, partly modelled or not modelled, and why.

## 2. The modules

| Module | Models |
|---|---|
| `FencedLog` | abstract: incarnations write one log, one at a time, none after its end |
| `DaemonLease` | `leases/daemon-lease.ts` and the fenced append of the scheduler, several processes |
| `LeaseAndRetention_proofs` | proofs about `DaemonLease`, and that it implements `FencedLog`; proofs about `JournalRetention`, and that it implements `CompleteLog` |
| `TaskContract` | abstract: waiting, in flight, in doubt, ended, and who holds capacity |
| `Scheduler` | the transactions of `JournalScheduler`, on the projections of its streams |
| `DaemonScheduler` | EXTENDS `Scheduler`: the process that makes those transactions, its memory, timers, workers, crash and recovery |
| `DaemonScheduler_proofs` | proofs about `Scheduler`, and that it implements `TaskContract`; proofs about the process, each step of which is one of `Scheduler` or none |
| `MCDaemonScheduler` | workloads and scenarios for TLC |
| `OrderedDelivery` | abstract: each event once, in order, and a cursor behind the copy |
| `ProjectingJournal`, `MCProjectingJournal` | `ProjectingEventJournal` on the SQLite claims and the JSONL sink |
| `ProjectingJournal_proofs` | proofs about `ProjectingJournal`, and that it implements `OrderedDelivery` |
| `IntegrationBranch` | abstract: a branch that only grows, and commits recorded when they are part of it |
| `RepositoryIntegration`, `MCRepositoryIntegration` | orchestrator, queue and lease of the integration |
| `RepositoryIntegration_proofs` | proofs about `RepositoryIntegration`, and that it implements `IntegrationBranch` |
| `WriterGovernor` | the capacity arithmetic and the queue of `WriterResourceGovernor` |
| `MultiWriter`, `MCMultiWriter` | EXTENDS `WriterGovernor`: the runs of `MultiWriterOwnershipScheduler` over the milestone and task streams |
| `HonestOutcome` | abstract: a task ends as its change did |
| `TaskRecovery`, `MCTaskRecovery` | `TracerBullet.run` and `resume`, `RecoveryService`, the task stream, the worktree and the integration of one task |
| `TaskRecovery_proofs` | proofs about `TaskRecovery`, and that it implements `HonestOutcome` |
| `PatchOnce` | abstract: the patch of a claim is written once and as a whole, or not accepted |
| `PathClaims`, `MCPathClaims` | `PathClaimService`, the trusted patch applier and the writer capsule that calls them |
| `PathClaims_proofs` | proofs about `PathClaims`, and that it implements `PatchOnce` |
| `ExactApproval` | abstract: one verdict per request, and a grant only by the acceptance of the latest |
| `RunLifecycle` | the events of a run as its projection takes them |
| `RunApproval`, `MCRunApproval` | EXTENDS `RunLifecycle`: `PlanningCoordinator` and `AttentionService` over the run, plan and decision streams |
| `PlanAndWaves_proofs` | proofs about `RunApproval`, and that it implements `ExactApproval`; proofs about `MultiWriter` |
| `CompleteLog` | abstract: nothing committed is lost, and a reader gets everything in order |
| `JournalRetention`, `MCJournalRetention` | `JournalRetentionService` and `ArchivedEventJournal` |
| `ExactEffect` | abstract: an effect is sent once, and what is said of it is true |
| `GitHubEffects`, `MCGitHubEffects` | the host broker of pushes and pull requests, and the remote |
| `GitHubEffects_proofs` | proofs about `GitHubEffects`, and that it implements `ExactEffect` |

How they fit:

    FencedLog <= DaemonLease          (one writer)  --.  the fence of Scheduler: one holder,
                                                       |  taken over only from the dead
    TaskContract <= Scheduler <= DaemonScheduler  <---'
    OrderedDelivery <= ProjectingJournal
    IntegrationBranch <= RepositoryIntegration
    CompleteLog <= JournalRetention
    HonestOutcome <= TaskRecovery     (integrates through what RepositoryIntegration models)
    PatchOnce <= PathClaims
    ExactEffect <= GitHubEffects
    ExactApproval <= RunApproval  --  extends  --  RunLifecycle
    WriterGovernor  --  extended by  --  MultiWriter

`<=` reads "is implemented by". Each is checked as a PROPERTY of a run and proved as well,
except `Scheduler <= DaemonScheduler`: it follows from the form of the actions, so no run
checks it, and it is only a lemma of the proofs (`DaemonIsScheduler`).

### Conventions

* **One action is one transaction** (or one read, one file operation, one git command):
  another process can come between any two of these, and nothing can come inside one.
  In `DaemonScheduler`, where one process is single-threaded, synchronous code is a chain of
  `pc` steps that only a crash interrupts; callbacks run when `EventLoopFree`.
* **A stream is its projection.** An append at an expected version either finds the version
  it read or fails. Where a projection can reject an event that is already in the stream,
  there is a variable `poison`: from then on every read throws.
* **A call that throws before it changes anything is no step.**
* **Time is the facts it makes true** (`due`, `fence.valid`, `lease.live`, an expired grant),
  except in `DaemonLease`, where two readings of one clock matter.
* Operators named `X_Something` in front of `X` are plausible wrong versions of `X`; no
  specification uses them. They show that the properties can fail.

### DaemonLease

Each process is one `processIncarnation`. `acquire` is four steps (`InspectFree` or
`InspectDead`, `AppendReplaced`, `InspectAgain`, `AppendAcquired`) because the code reads,
appends, reads again and appends again; `renew` is two, because it reads the clock for its
check and once more for the event; a scheduler append is `AssertActive` and
`AppendAtomically`, because the lease is not part of the transaction. `current` and
`logCurrent` are the processes whose version of the stream is still the latest. A dead
process is one that the operating system no longer has (`pc = "gone"`).

### Scheduler

`task`, `order`, `cur`, `alloc`, `consumed` are the scheduler stream, `ctl` the
scheduler-control stream, `grant` and `lease` the per-grant and per-dispatch streams. Each
action carries everything its transaction writes: `Dispatch` consumes the grant, acquires
capacity and budget in both streams and both leases; `Settle` writes the outcome and
releases; `Suspend` is every way into `reconciling`, with or without the release. A release
carries exact evidence, which both projections compare with what they hold: `Releasable`.
`Precedes` is the fairness order of the dispatch (shared kinds of resource, then dispatches
of the project, then position).

### DaemonScheduler

`pc` is where recovery or the loop is; `todo` are the intents of the run; `exec` is the
`active` map; `worker` is what the operating system sees and what survives a crash;
`killed` are the workers sent SIGTERM and SIGKILL. The steps follow `startLoop`: expiry,
`runOnce`, the tick with its readiness, signals, dispatches and back pressure, then for each
intent `StartAwait`, `Spawn`, `StartObserved`. The windows between these three are the
`await executor.start`, in which deadlines, completions, submissions, cancellations and
shutdown may run. The tick inside the start loop, after a worker was cancelled during its
start, is the same steps with `nested`. `presumed` is history: the tasks in doubt that an operator
resolved (`ResolveCall`, with any outcome) while their worker lived, which the code does not ask.

### ProjectingJournal

The constructor (`Open` to `ReconcileHistory`) and the drain (`Drain` to
`CommitProjection`) of several processes. `file` are the complete lines, `torn` is an
incomplete last one that a kill left behind; `seen`, `cursor`, `sink` are what a process has
in memory. A failed projection (`failed`) goes on appending events, as the code does. `created` and `exists` are the trace
file and its cursor. The file is created first, and exclusively: a process that dies in between leaves a file that every later
`Open` refuses. A dead claimant may be taken for alive, because the code asks for its pid alone, which may be another process's or one that may
not be signalled (`RecoverProjectionClaim` fails although `Recoverable`). `disturbed` is history: that has happened, or two processes have run at once.

### RepositoryIntegration

`Procs` are calls in progress, of one process or of several. `branch` is the commit of the
ref, as the sequence of the changes it holds; `unit` and `integratedCommits` are the
stream; `lease` is the file in the common directory, which is taken over by expiry alone. A
crash loses the call and leaves the lease to nobody. `Swap` covers an `update-ref` that was
done, refused, or cut off by its time limit with either effect. The operator's calls append what the
operator gives, and the projection asks for more than they do (`Unfit`): that a replan names the conflict of its unit, that
replacements form exactly one unit, that a name or a digest has its form. Four history variables say
what has gone wrong in a behaviour outside the code's own control or its callers' duty:
`lapsed` (a lease elapsed under its owner), `repeated` (a call for a unit that already has one
under way, or a unit formed twice), `unretained` (the candidate of a commit could be neither
removed nor recorded), `unfit` (an operator gave what only the projection refuses).

### WriterGovernor and MultiWriter

`WriterGovernor` is what the governor computes: `CanAcquire`, `WithinLimits` and `Drained`, the number
of waves at the head of the queue that are granted. `MultiWriter` calls it the way the scheduler does:
every call that changes the reservations drains the queue (`Govern`), and the runs whose wave is granted
go on. A permit owns the writers in `held`; `Release` is the governor's own, by request, and
`PermitRelease` frees only what the permit still owns. The next-state relation is `WritersNext`, the specification
`WritersSpec`. A writer belongs to one milestone (`IdentityAssumption`), because its identity in the governor is made of
the milestone's and the task's.

Durable are the milestone stream (`life`, `task`, `review`, `claim`) and the task stream of each writer;
the rest is memory and goes with a `Crash`. An action makes at most one append of a milestone stream, so
that a crash or a pause from another process comes between any two. `pc` is where the run of a
milestone is: a reconciling pass over the claims of earlier runs (`DropSettled`, `ReconcileCompleted`,
`ReconcileFailed`, `PauseUncertain`, `ResumeHandoff`), the selection of a wave, its place in the queue, its
claims and admissions, and the wave itself. `exec` is where the execution of each writer is, as far as
the scheduler sees it: called, writing, at its handoff, at the barrier, in review, returned or rejected. The
results are settled as they arrive, and the rejected ones are looked at afterwards, in order.

Of `milestones/` the operations of the writers are here, with the guards of the projection; of the
execution and its recovery (`orchestration/`) what the scheduler calls and is called back with.

### TaskRecovery

`log` are the types of the events of one task, and `mark` the pause or the reconciliation of an effect in doubt
that may follow the last of them. `Accepts` is `projectTask`: the transitions (`Into`, `OutOf`), what may not come
twice and what has to come first (`InOrder`); after a pause nothing is accepted but its reconciliation. Every append
goes through it (`AppendAll`, `Pause`), and every append of the run may throw as well (`Try`, `TryPause`): refused,
because a recovery has appended meanwhile, or failed by the journal; where it goes on from there is the stage of the
code's outer `catch`. `ticket` is the worktree with its branch, `candidate` and `failures` what an integration leaves
behind, `ref` the integration branch as the task sees it: before its change, exactly at it, or beyond it.

The run is `Create` to `Complete` in the order of `run` and `runFromLease`, with the integration of its change
(`Enter` to `Unlock`) under the lease; `receipt` is how that ended. `Resume` and `Adopt` take up a run that died
before the task was leased. A call of `recordCompletion` is `RecoveryBegin` (the lease), `Inspect` and `Judge` (the
stream is read first, git later, then `Decision`), `ReadAgain` (the stream once more, whose last event picks the
path), and for each append `Issue`, `Compare`, `AppendAuthorized`, with the snapshot of the authorization in `call`.
The run and the recovery share the steps of `cleanupCompleted`. `Close` is any end of a recovery call, `Crash` that of
a process, which leaves its lease to elapse.

An operator's calls need no lease. Both begin with an inspection (`BeginInspection`): `Retain` pauses what has to
wait, and a bounded cleanup goes from `AuthorizeCleanup` over the git effects of `removeUnleased` to the append that
ends the task (`Abandon`). `ReconcileEffect` is the operator's word on an effect in doubt. `duty` says which process
is called for what. `overtaken` is history: a recovery read another stream than the one it had inspected, or a
bounded cleanup went on with a worktree, or ended a task, that a run had taken up meanwhile.

### PathClaims

`claim` is the stream of a project as its projection has it, `readable` whether that still takes every event; a claim
stands for its task, with one owner, one revision and one worktree. `tree` is the worktree: how many files of the patch are in it, and
whether the writer left something else, inside its claim or outside. `job` is what a process is doing, and holds
the facts it has read before an await: the token of its lease (`token`, and `patch`, the one the claim had when the applier
prepared, which looks at the claim again), the worktree it has seen, whether the stream is still
as it was (`fresh`), because `acquire`, `applyPrepared` and `reconcileWorkspace` append at a version they have
read earlier. A writer is `AcquireRead` to `Release`, in the order of `WriterWorktreeCapsule.run`; the applier is `Prepare`,
`ApplyStart`, and `Rename` and `RecordFile` in turn; a recovery comes in at `ApplyStart` with the intent it
has found; a reconciliation is read, inspect and append. `Fails` is a statement that throws, after which the code
records the uncertainty if it still holds the claim; `Crash` records nothing.

### RunLifecycle and RunApproval

`run`, `planning`, `decision` and `index` are the streams as their projections have them. A request for approval is known by its
place in `run.requests`, and `run.fresh` says whether its event is still the last one of the run stream, which is what acceptance,
rejection and revision compare. A call of the planning coordinator is a record in `call`: where it is, what it has read, and where it
goes on once a rejection it has met is recorded. Every append of it is a step, at the version it has read: `AppendPlan`, `Ask` and
`Raise` for a proposal; `Reject`, `RecordOnRun` and `RecordOnPlan` for a rejection; `Withdraw` before a revision.
The attention service makes each change in one append of several streams (`Raised`, `Resolved`), so its operations are one step
each, but for an admission, which polls first and appends later (`BeginAdmit`, `Admit`). `Leave` is any call that stops where it is,
`Restart` the end of the service and the reopening of its run by the next one. `used` are the commands of the run stream, which
are good for one event. The digest of a plan is its proposal with its revision.

### JournalRetention

An event is its position, and a file what its name says it holds; checksums and the hash chain are the
sequence `anchor`. `op` is the row of the active operation, `past` the settled ones, `files` and `temps`
the archive directory, `job` what each process has in memory. The steps are the transactions and the
file operations: a publication is `WriteTemp`, `RecordEvidence` (backups), `Link`, `Unlink`; a prune is
`RequestPrune`, `PruneCall`, `Authorize`, `PruneEffect`, `PruneComplete`. `Crash` comes between any two, and
`Inspect` and `Reconcile`, one removed file at a time, are recovery, which can be cut short itself. Audit
events are events: an archive of everything is out of date as soon as it is recorded.

A page of the combined journal is read in two steps, archive and database (`ReadArchive`,
`ReadActive`), because the two are not one snapshot; a projection reads both under the write lock.

The guard `Abandoned` of `Inspect` is an assumption: the process that ran the operation is
gone, and one process reconciles it at a time. The code asks the operator to confirm this; section 6 says
what happens otherwise.

### GitHubEffects

`stream` are the grant streams, one per grant of the policy; `lease` is the repository lease in the integration's lease
store. A call is a record in `call`: `push()` and `createPullRequest()` are `Begin`, `Admit`, `Consume`, `Look`, `Send`,
`Wait`, `Observe`; a reconciliation is `Begin`, `Inspect`, `Read`, `Record`; both end in `Release`. The queue of one process
(`withRepositoryLock`) lets one of its calls in at a time and the lease one of all processes, so each call counts as a process.
What the call hands to its child is in `flying` from then on: the child is a process group of its own, so its effect may arrive while the call
waits, after the call has given it up or was killed, or never (`Arrive`). `Move` is anybody else who writes the branch. Whether a
grant is expired, names another action, or a look at the remote goes wrong are free choices. `elapsed` are the grants whose
acceptance is more than a day old (`WindowEnds`): from then on the broker refuses to reconcile them. `sent` and `seen` are
history: what was sent, and what the remote has ever held.

## 3. The runs

| Run | Instance | Distinct states | Shows |
|---|---|---|---|
| `daemon_lease` | 3 incarnations, lease of 2 ticks, clock to 3, 3 log entries | 165 000 | the lease serialises the writers; a dead owner is replaced |
| `scheduler` | 2 incarnations, 4 workloads (below) | 1 080 000 | the invariants of streams, capacity, grants and workers |
| `scheduler_progress` | 1 task, 2 incarnations, every disturbance but a silent `ps`, with a deadline that comes and without | 131 000 | refinement of `TaskContract`, no flight for ever, no worker for ever behind a lost fence |
| `projection` | 3 processes, pages of 2, 3 events | 1 059 000 | the trace is the journal, whoever is killed where |
| `integration` | 2 calls, 2 units, one replan | 775 000 | nothing rejected or cancelled lands, the branch is never rewritten |
| `writers` | 2 milestones of 2 writers, a run of one and two runs of the other, one trouble | 609 000 | capacity, queue, one launch per writer, order of dependencies |
| `retention` | 2 processes, 1 reader, 5 calls and troubles | 840 000 | deletion is safe, the combined journal is complete, the audit is true |
| `task_recovery` | 1 run, 2 recoveries, or 1 and an operator, no bounds | 1 601 000 | the end of a task is true of its change, and a change that landed can be completed |
| `path_claims` | 2 processes, 2 overlapping claims, patches of 2 files, 2 dispatches, 1 renewal, 1 trouble | 1 150 000 | claims stay disjoint, a patch is written at most once |
| `run_approval` | 2 calls, 2 requests with 1 or 2 proposals, 2 revisions, a question, an admission, 2 services | 787 000 | a run is granted only the plan of its latest request; nothing is admitted over a pending decision |
| `github_effects` | 2 calls, a push and the pull request that needs it, 2 reconciliations, 2 moves of the branch, 1 lapse, 1 day that ends | 1 102 000 | an effect is sent at most once, in its order, and what is recorded of it is true |
| `daemon_lease_race` | as small as the behaviour allows | (stop at a counterexample) | section 6 |

**Properties.** The ones worth arguing about:

* `CheckedOwnerStillOwns`, `OneHolder`, `ImplementsFencedLog`: the lease is
  checked before the scheduler's transaction and not inside it. That is sound only because
  a lease is replaced after its owner is proven dead, never because it has expired.
* `DeadOwnerReplaced`: the same rule must not lock the system out after a crash.
* `StreamsAgree`, `FlightIsBacked`, `LimitsRespected`, `GrantSpentOnce`: four projections of
  different streams say the same of each dispatch on every way out of flight.
* `DependenciesFirst`: readiness is computed in one transaction and used in a later one.
* `LiveWorkerIsHeld` (with `KnownWorkerHoldsCapacity`), `SpawnedOnce`: processes of the operating system against the journal, over crashes.
  Excepted is a task whose dispatch an operator resolves while its worker lives.
* `FlightEnds`: everything in flight ends.
* `LostFenceEndsWorkers`: a daemon that has lost its fence ends the workers it has started, one included whose start it was
  still awaiting when the fence went. Every append throws by then, the loop does nothing more, and the deadline may be far away: only the renewal timer, which comes
  again every 10 s, is left to cancel them.
* `ImplementsContract`: the transactions keep the contract of each task; late calls change nothing that has ended.
* `AppendIsProjected`, `AloneRecovers`,
  `ImplementsOrderedDelivery`: the trace holds every event once, in order; an append that
  returns is projected; processes that follow one another recover, with two exceptions that the property names (section 6).
* `ReadableStream`, `RejectedNeverLands`, `CancelledIsFinal`, `ImplementsIntegrationBranch`:
  the journal and the branch tell the same story.
* `CapacityRespected`: a permit outlives callbacks, handoffs and runs that throw; a writer that works has
  its slot all along, and the slots stay within the limits.
* `HeadDoesNotFit`: the wave at the head of the queue waits only because it does not fit. It is the lost
  wakeup of the governor as an invariant, over releases, aborts, refusals and failed runs.
* `LaunchedOnce`, `FollowsIntegration`: what may have been dispatched before a crash is never dispatched
  again, and a dependent writer starts from the integrated change, on every path of the reconciliation.
* `ImplementsCompleteLog`: a page read in two halves around an archive and a prune misses nothing,
  and what can be read is all that was ever committed.
* `DeletionIsSafe`: a prune is authorized in one transaction and made in a later one; cursors and claims
  may have come in between.
* `ImplementsHonestOutcome`: the run, recoveries, crashes between an effect and its event, an `update-ref` with an unknown result and other
  tasks on the branch; and still the stream never ends as failed over a landing nobody has recorded, and the worktree is kept until it is.
* `CompletedIsClean`: a completion can be written by the run or by a recovery on one of six paths; each must have made sure, or have looked, that worktree,
  branch and candidate are gone. It excludes one path of an overtaken recovery by name (section 6).
* `LandedIsRecoverable`: every state a run can die in after its change landed is one that `inspect()` has a case for, and that
  `recordCompletion` has a path for. It excludes a stream that ends in a pause or its reconciliation (section 6).
* `ClaimsDisjoint`: a claim is granted against a projection that may be old when it is appended;
  the expected version is all that keeps the overlap out, and an overlap would make the stream unreadable and end every claim of the project.
* `NoDispatchOverEffect`, `ImplementsPatchOnce`: writers, recoveries and reconciliations decide over awaits from
  what they have read; a second writer never works on a written worktree, two appliers never write one patch, and a
  patch that was cut short is neither resumed nor accepted.
* `ImplementsExactApproval`: acceptance, rejection, revision, expiry, cancellation and restart are decided from different streams read
  at different times; whatever the order, a request has one verdict, and the plan that is granted is the one the operator was shown last.
* `NoAdmissionOverPending`: an admission looks first and appends later; the version of the index is all that keeps a
  question asked in between from being overrun.
* `RejectionsAreBacked`: a rejection that was cut short between its three streams is never ahead in one of the later ones.
* `SentIsAskable`, `ImplementsExactEffect`: five attempts and a day from its acceptance, and an effect can no longer be asked about; nothing else makes that so. A push whose answer is lost is neither repeated nor forgotten: observations
  that come late and reconciliations that meet leave a stream which a reconciliation still accepts, no grant is sent twice over
  lapsing leases and kills, and a pull request follows a push that was proven.
* `AuditIsTrue`, `InterruptedIsSettled`: the record of an operation says what became of it, wherever it and
  its reconciliation were cut short, and a reconciliation can settle it. The second excludes two states by name (section 6): the
  window between a link and the removal of the temporary name, and a retained boundary that was set back.

**Bounds, and why they are enough.**

* `daemon_lease`: a third process is what it takes for a replacement, a race for the free
  lease and a zombie at once. Two ticks of lease are the least with a moment before and
  a moment at the expiry; the clock passes the expiry of a renewed lease. Three entries are
  the least that can violate contiguity.
* `scheduler`: the workload has two tasks that compete for one slot and for the budget, one
  that depends on another, one that names another's grant and needs two kinds, and one of another
  kind. Not all disturbances meet in one behaviour: a scenario is a set of tasks and a
  set of `Events`. The four are competition through crash, cancellation and expiry;
  competition through crash, usage and deadline; dependency and grants with cancellation and
  expiry of grants; two kinds with a lapsing fence, refused starts and shutdown. Two incarnations
  allow one crash and one recovery that is complete; they are interchangeable, so symmetry
  is sound, and it is used only where no liveness is checked.
* `scheduler_progress` lets everything meet, for one task, and once more without a deadline, which would end every worker
  by itself and hide whether anything else does. `FlightEnds` is about the first. A `ps` that gives no answer is
  in no run: recovery then takes a recorded worker for dead as well (section 6), and
  `KnownWorkerHoldsCapacity` is stated for the answers `ps` does give.
* `projection`: pages of two and three events give a claim of a full page and one of a part. Three
  processes are what it takes for a dead claimant, its successor and a rival.
* `integration`: two calls and two units are what the races of one unit and of two take.
  The first unit may be replaced once. `OneKindOfTrouble` follows behaviours
  in which at most one of `lapsed`, `repeated`, `unretained` and `unfit` has happened; a combination of them
  would say nothing that each alone does not: `Orderly` excludes `repeated` and `unretained`, `ReadableStream` also `unfit`,
  `CancelledIsFinal` excludes `lapsed`, and `ImplementsIntegrationBranch` nothing. The theorems about it need no such constraint.
* `writers`: the milestone `m1` plans `a` and `b` for one wave; `m2` plans `c` and then `d`, which depends on
  the review of `c`. Two slots in all and one for the model of `b` and `d` make the two milestones wait for each
  other in both orders, and make a wave of two wait while one slot is free. `b` and `c` are reviewed by
  their own executions, `a` and `d` by the reviewer the scheduler starts. The milestone `m2` runs twice, which is
  what it takes to reconcile what the first run left behind; the one trouble is a crash, a pause, an abort or a rejection.
* `retention`: positions 1 and 2 with archives of one event give a chain of two segments, of which one or
  both are pruned. Pages of two events straddle archive and database. Four calls are two archives, a prune
  request and its prune, or a backup among them; two troubles are a crash and a second one during the
  reconciliation of the first. A behaviour has five of both together (`MaxTogether`): four calls and a trouble,
  or three calls and two. Two processes interleave an archive with a prune, or with a recovery.

* `task_recovery`: nothing needs a bound, as a stream takes each event once or ends. Two recoveries make one take over the lease of another, dead or
  slow; an operator instead of one of them makes retention, reconciliation and bounded cleanup meet the run, its resumption and a recovery. One who
  both retains and cleans up adds nothing (`MCDuties`); a third recovery would add nothing, because the lease lets one at a time in and what an elapsed one still does is one process's worth.
  They are interchangeable, and the properties are safety properties, so symmetry is sound.
* `path_claims`: a claim on a directory and one on a file in it, so that one scope contains the other. Two processes
  make any two of a writer, a recovery and a reconciliation meet; two dispatches are a writer and the one that is
  authorized after it. A patch of two files can be cut between them. One trouble is a crash or a statement that throws;
  a stray writer, a renewal and a lapsing lease come in addition.
* `run_approval`: one request carries the first proposal, the other one either of the two, so that two callers can ask for the same plan
  or for different ones. Two revisions are a plan and its replacement or correction; two services one restart. Two calls at a time make a
  proposal meet a revision, a rejection or an admission; the operator's acceptance, the deadlines and the end of the run come between any two steps.
  The question and the admission touch one scope that the plans do not, and one they share. The two calls are interchangeable, and the properties are
  safety properties, so symmetry is sound.

* `github_effects`: two calls are any two of an effect, its repetition and a reconciliation. The code allows five
  reconciliations; two are the least with one that finds nothing and one that proves the result, and with one beyond the
  bound. Two moves take the branch away from a commit and back; one lapse lets two calls hold the lease one after the other while both work.
  The day ends for one of the two grants (`MaxElapsed`); the window of the push ends and that of the pull request does not, or the other way.

`CHECK_DEADLOCK FALSE` stands in every configuration: all of these systems may stop (all
incarnations gone, the clock or the journal at its bound, the repository stream unreadable).

**Fairness, and why the code justifies it.**

* `DaemonLease`: weak fairness of each process's own synchronous code (`Acquire`,
  `AppendRenewed`, `AppendAtomically`). A launched process calls `acquire`; when that throws its
  start fails, and it ends, which is `Kill`, or calls it again. No launch, stop, crash or tick is
  forced, and `DeadOwnerReplaced` speaks only of a process that keeps running.
* `DaemonScheduler`: weak fairness of the loop (a `setInterval` that finds the process idle), of a
  start that was awaited, of the second half of a submission and of the death of a worker that
  was sent SIGKILL. Strong fairness of a deadline and of a completion: both are callbacks that
  stay queued while the loop runs, so they are enabled again and again and run once
  the event loop is free. A lease that nobody renews runs out. No crash, cancellation, exit of
  a healthy worker or restart is forced, and `FlightEnds` speaks only of a daemon that
  keeps its fence and is not shut down. Strong fairness, too, of a renewal that fails: its timer is a `setInterval` of 10 s which
  nothing but shutdown clears (`daemon-scheduler.ts:119`), and it runs when the event loop is free; `LostFenceEndsWorkers` ends with shutdown, which
  cancels what is active itself.

## 4. What is proved

For every value of the constants, with these assumptions: the no-values are not processes,
incarnations, tasks, calls or grants, and the run of a task is none of its recoverers; durations and pages are positive; the functions of the workload have the types
that the schemas of the code enforce (a path is a sequence of names, a request for approval is not a question,
a push is not a pull request). Nothing is assumed of the size of any set, but that there is a claim in `PathClaims` and that the writers of `MultiWriter` are finitely many (`GovernorAssumption`: they are counted), and the bounds of
the runs are arbitrary natural numbers. Two theorems have a hypothesis of their own: `LimitsAlwaysRespected` that there are finitely many tasks, for a sum
needs that, and `LiveWorkersAreHeld` that `ps` can be asked: without it the statement is false, see section 6.

| Theorem | Module | Says |
|---|---|---|
| `LeaseTypeOK`, `AtMostOneHolder`, `CheckNeverStale` | `LeaseAndRetention_proofs` | `TypeOK`, `OneHolder`, `CheckedOwnerStillOwns` |
| `OneWriterAtATime` | `LeaseAndRetention_proofs` | on what implements `FencedLog`: the entries of an incarnation are contiguous |
| `LeaseImplementsFencedLog`, `NoZombie` | `LeaseAndRetention_proofs` | the refinement, and from it `NoZombieAppend`, that no incarnation appends after another has |
| `SchedulerTypeOK`, `StreamsAlwaysAgree`, `FlightAlwaysBacked`, `DependenciesAlwaysFirst`, `GrantsSpentOnce` | `DaemonScheduler_proofs` | `TypeOK`, `StreamsAgree`, `FlightIsBacked`, `DependenciesFirst`, `GrantSpentOnce` |
| `NeverResurrectedHolds` | `DaemonScheduler_proofs` | the action property `NeverResurrected` |
| `LimitsAreKept` | `DaemonScheduler_proofs` | `WithinLimits`: the resources and the budget that are out never exceed their limits |
| `LimitsAlwaysRespected` | `DaemonScheduler_proofs` | `LimitsRespected`: for finitely many tasks, the counters are the sums of what the tasks hold and have used |
| `SchedulerImplementsContract` | `DaemonScheduler_proofs` | the refinement of `TaskContract` |
| `CapacityFollowsFlight` | `DaemonScheduler_proofs` | on what implements `TaskContract`: capacity is held in flight, and not by what waits or has ended |
| `DaemonInvariance`, `DaemonTypes` | `DaemonScheduler_proofs` | the invariant of the process beside that of the scheduler |
| `SpawnsOnce` | `DaemonScheduler_proofs` | the action property `SpawnedOnce` |
| `LiveWorkersAreHeld` | `DaemonScheduler_proofs` | `LiveWorkerIsHeld` |
| `Invariance`, `TypesHold`, `OneDeliverer`, `TraceIsHistory`, `AppendsAreProjected` | `ProjectingJournal_proofs` | the invariant, `TypeOK`, `DelivererHoldsClaim`, `FileIsHistory`, `AppendIsProjected` |
| `DeliversInOrder` | `ProjectingJournal_proofs` | the refinement of `OrderedDelivery` |
| `RecoversAlone` | `ProjectingJournal_proofs` | `AloneRecovers` |
| `TaskInvariance`, `CompletionCleans`, `LandingsAreRecoverable` | `TaskRecovery_proofs` | the invariant, `CompletedIsClean`, `LandedIsRecoverable` |
| `OutcomesAreHonest` | `TaskRecovery_proofs` | the refinement of `HonestOutcome` |
| `ClaimsInvariance`, `ClaimsAreDisjoint`, `EffectsAreNotDispatchedOver` | `PathClaims_proofs` | the invariant, `ClaimsDisjoint`, `NoDispatchOverEffect` |
| `ClaimsImplementPatchOnce` | `PathClaims_proofs` | the refinement of `PatchOnce` |
| `ApprovalInvariance`, `RejectionsAlwaysBacked` | `PlanAndWaves_proofs` | the invariant, `RejectionsAreBacked` |
| `AdmissionsWait` | `PlanAndWaves_proofs` | the action property `NoAdmissionOverPending` |
| `ApprovalIsExact` | `PlanAndWaves_proofs` | the refinement of `ExactApproval` |
| `WavesInvariance`, `SlotsAreHeld`, `NoWakeupLost` | `PlanAndWaves_proofs` | the invariant, `CapacityRespected`, `HeadDoesNotFit` |
| `WritersLaunchOnce`, `CallsFollowIntegration` | `PlanAndWaves_proofs` | the action properties `LaunchedOnce`, `FollowsIntegration` |
| `Invariance`, `TypesHold`, `SpendsOnce`, `SentEffectsAreAskable` | `GitHubEffects_proofs` | the invariant, `TypeOK`, that a consumption makes one call the spender, `SentIsAskable` |
| `RefinesExactEffect` | `GitHubEffects_proofs` | the refinement of `ExactEffect` |
| `IntegrationInvariance`, `IntegrationTypesHold`, `StreamStaysReadable`, `RejectionsNeverLand` | `RepositoryIntegration_proofs` | the invariant, `TypeOK`, `ReadableStream`, `RejectedNeverLands` |
| `CancellationsAreFinal` | `RepositoryIntegration_proofs` | the action property `CancelledIsFinal` |
| `IntegrationImplementsBranch` | `RepositoryIntegration_proofs` | the refinement of `IntegrationBranch` |
| `LandsOnce`, `IntegrationLandsOnce` | `RepositoryIntegration_proofs` | on what implements `IntegrationBranch`, and so on the integration: no change lands twice, recorded commits stay prefixes of the branch |
| `ArchiveCovered` | `LeaseAndRetention_proofs` | types, and that the anchored ranges cover the archive and stay within the journal |
| `DeletionAlwaysSafe` | `LeaseAndRetention_proofs` | the action property `DeletionIsSafe` |
| `RecordsAreTrue`, `InterruptionsSettle` | `LeaseAndRetention_proofs` | `AuditIsTrue`, `InterruptedIsSettled` |
| `IsCompleteLog` | `LeaseAndRetention_proofs` | the refinement of `CompleteLog` |

**The arguments.** For the lease, the invariant says that a process which believes it holds the
lease is its recorded owner and the lease is active (`HolderOwns`), and that a replacement which would
still be appended is that of an owner who is dead (`ReplacedIsDead`). `OneHolder` alone is not
inductive: `AppendReplaced` could take the lease from a running process if nothing said that the
owner at this version is the one that was seen dead, and the dead stay dead. `NoZombieAppend` needs the whole history of the log; it is
proved on the three-variable abstract log (who wrote an entry owns the log or has ended, and the
owner's entries are the last ones) and carried over by the refinement.

For the scheduler, the invariant is

    TypeOK /\ PhaseKnown /\ StreamsAgree /\ FlightIsBacked /\ GrantsMatched /\ DependenciesFirst

`PhaseKnown` ties the status to the dispatch: a task that waits has none, one in flight or in doubt has one;
only a terminal task has the outcome "completed"; and a ready task has its dependencies completed. The last
two make `DependenciesFirst` inductive: readiness is written in one transaction and used in a later one,
and stays true between them because outcomes are final. `GrantsMatched` is `GrantSpentOnce` grant by grant, in
the form in which one dispatch changes one grant. The proofs go transaction by transaction; the
transactions that leave a conjunct's variables alone, that move one task, or that end a dispatch share
lemmas (`FrameIInv`, `MoveIInv`, `EndIInv`). For the refinement each transaction is shown to be a step of `TaskContract` on the phase of
its task, or to leave all phases and all capacity unchanged.

`LimitsAreKept` has an invariant of its own: beside the bounds, that no task has used more than its budget, so that a
release, which turns the reserved budget into what was used, never raises the sum. `LimitsAlwaysRespected` adds that the
counters are sums over the tasks. The sum of the community modules is defined by recursion over the subsets of a set, and the
lemmas that prove about it (`SumExists`, `SumTakesOut`, `SumIsOfValues`) go by a least subset that is an exception (`SubsetInduction`),
since the induction theorems of the library cannot be instantiated. What makes the equalities inductive is that a task has
used nothing before its dispatch.

For the daemon, the invariant `DInv` is about what is in memory: where the process is (`pc`) tells what it
holds (`ProcessOK`); every dispatch is that of a dead incarnation or of the one that runs, and a worker of the one that runs is
in its memory or was spawned by the very step before (`OwnersOK`); the intents of a run of the loop are distinct, still in flight, and not
started but for the first (`TodoOK`). With it each step of the process is a transaction of `Scheduler` or leaves its streams
alone (the lemmas `StepIsScheduler` and `DaemonIsScheduler`, a
matter of the definitions); that gives the invariant of the scheduler for the process, and
the two are proved together.

For the projection, the invariant says that a claim starts at the cursor, and that an incomplete line at the end of the trace
is the next event of that claim (`ClaimOK`), that a process is at a place where it writes only while the claim is its own
(`HolderOK`), and that what it has still to write is what the claim has beyond the file (`SinkOK`, `TodoOK`). `FileIsHistory` alone is not inductive: a
claimant that is replaced must not come back to write. `RecoversAlone` needs more: as long as no two processes have run at the
same time and no dead one was taken for alive, all that the running one has read of the database and of the file is still so (`AloneInv`).

For tasks, the invariant rests on the stream. Whatever the projection accepts, and whoever appends it, leaves a stream of one shape
(`Shape`, `ShapeKept`), in which the set of events and the last of them say what has happened. Git is tied to it in two places (`GitOK`): the change is on the
branch only behind `integration_prepared`, and the worktree is gone only behind `cleanup_started`, with the change landed and its candidate away. The rest is what the
run (`RunAt`) and a recovery call (`RecoveryAt`) may rely on at each place. The point that makes it inductive is what nobody takes back (`Onward`): events, a landing, the
candidate that was removed, the end of the worktree. What a recovery has seen of these stays true while the run goes on, and where it does not carry, the stream is
longer than the one that was inspected, which is exactly when `overtaken` records it: so `CompletedIsClean` needs the worktree only
of a call that was not overtaken, and a bounded cleanup that was not has a stream that ends with `worktree_creation_started`, in which
nothing was leased or landed (`NeverLeased`). None of the three properties depends on the integration lease, on the snapshots an authorization compares or on how many recoverers there are: what the
projection refuses and what nobody takes back is enough.

For path claims, the order in which a patch comes about is in the claim itself (`ClaimFits`): a claim with a report is authorized no more, so
one report is accepted, one proposal is prepared, and one start recorded. From this there is one process whose report
counts and one that writes (`OneReporter`, `OneApplier`), the files of the worktree are those it has recorded or one more, and
what others have read of the claim is stale. Claims are disjoint because the acquisition compares the version of the
stream it has looked at (`FreshAcquire`).

For approvals, the invariant says that all requests of a run but its last have their answer, that a decision is the only one of its
request, that the index is what is pending (`Indexed`), and what a call that is cut short or still on its way has read that
nobody can take back (`CallsFit`). The point that makes it inductive is a rejection that the decision stream shows and
the run does not yet show: its request is then still the last and open, and the command that will bring it to the run is
unused (`DecisionsFit`).

For the waves of writers, the invariant ties three kinds of state together. The governor: the active writers are within the limits, a milestone is
in the queue exactly while its run waits (`QueueFits`), and the head of the queue does not fit; that `Drained` takes the longest part of the
queue that fits one wave after the other, and leaves a head that does not, is proved by a least counterexample, and `Govern` is then one relation
(`Called`, `Grants`) that every action which releases, aborts, selects or ends a run is an instance of. The runs: what a permit holds is active and of its wave (`SharesFit`), a
wave that starts is claimed as a whole (`WaveFits`), an execution belongs to a wave that is called or to the handoff that is
resumed, and holds its slot until it hands off (`ExecFits`). The durable claims (`ClaimFits`): who is executed is claimed, what is claimed has the
changes it depends on integrated, and who was launched has a task that is neither planned nor ready, and so is selected by no later run. `CapacityRespected`
is not inductive without `ExecFits` and `SharesFit`; `LaunchedOnce` holds because the claim and the start are durable before the call. `PlanAssumption` gives the types of the
plan, and `IdentityAssumption` is needed: with a writer in the plans of two milestones one run would release what the other holds.

For the integration there are three invariants, each under the troubles it can bear, and none needs the others' assumption. `BaseInv`
holds whatever happens: a candidate is one new change on top of its base, a result that is taken for landed is part of the branch, and no change on
the branch is of newer sources than its unit has. The refinement follows from it: the compare-and-swap of the ref turns
the base into the result. `CalmInv` holds while no call is repeated and no candidate is left behind, lapsing leases and unfit input or not (after which the stream takes nothing more): a unit has one
call (`OneCall`), the status of the unit is the one the call has left (`CallFits`), and what landed of a unit is recorded unless
it is validated (`UnitFits`). Its point is that a step of one call moves one unit, and lands no change but that unit's, so that what the other calls have read
of the branch stays true of their own changes. Neither `ReadableStream` nor `RejectedNeverLands` therefore depends on the lease: with one call per unit the
compare-and-swap is enough. `LeaseInv` is for `CancelledIsFinal` alone: as long as no lease elapses under its owner, who is inside holds it,
and a cancellation, which has to get it, never finds a call at its `update-ref`.

For GitHub, a stream has one of a few shapes (`StreamOK`), a grant has one call that has spent it and has not said what became of it (`OneSpender`), and a call that has read a stream at
its present version may still append to it (`CallOK`). What a reconciliation says is true because the model's
history of what the remote has shown includes what it shows now.

For retention, `DeletionIsSafe` says that a step which deletes events deletes none that is not archived, and none that a
cursor or a claim still needs. The first needs an invariant: the ranges that were anchored cover the positions from 1 to the head of the archive without a
gap (`JournalOK`), so that the one comparison the prune makes, with the head of the archive, is enough for every
event below it; and no boundary, cursor, claim, operation or call that a process has in memory points past the head of the
journal. The prune is authorized in one transaction and made in a later one, and the proof shows that nothing has to
survive in between: `PruneEffect` verifies archive, cursors and claims once more in its own transaction. Archive and journal only grow, which gives the
invariant for the many actions that append audit events (`FrameJournal`).

`AuditIsTrue` is not inductive: what a record will say depends on what the process that holds the operation believes.
`AuditInv` adds that every call has an id of its own and one process holds the active operation (`IdsOK`), that the operation has one of four
shapes (`OpShape`), that what a process has published, written or classified at its stage is what is on disk (`FitsOK`), that every file
and temporary file is somebody's (`FilesOK`), and that the range to be archived starts where the archive ends (`LogOK`). A step
of the holder is then one that no other process is affected by (`HolderMoves`), and settling needs only that no temporary file is
left and the effect is there, or absent (`SettleKeeps`, `AnchorSettles`). `InterruptedIsSettled` follows
from the same invariant: the class of an interruption is that of its kind of operation, and each class is proven or discarded; for a prune this needs the rows
above the retained boundary to be there, which is the state the property names.

For `CompleteLog`, what can be read is exactly the positions from 1 to the head, in every state, and what a reader has is an initial part which the archived half
of its page continues (`ReadingOK`). That the two halves meet is shown by what the reader checks itself: the active half is used only if it
starts right after the archived one. `RetentionAssumption` says only that the
bounds are natural numbers and the page is positive.

**Model-checked only.**

* The liveness properties `DeadOwnerReplaced`, `FlightEnds` and `LostFenceEndsWorkers`: fairness and ENABLED are beyond the prover.

## 5. What is not modelled, and why

* The append at expected versions is atomic in every module: SQLite and its transactions are
  trusted. Verification of prefixes, authority binding and snapshots of the journal are not modelled.
* Power loss under the trace file: a crash is the death of a process, and what was written stays
  written. Whether the file and the database survive in the same order is up to `fsync`.
* `heartbeat` of a healthy worker only moves the expiry of a lease; its failure is `HeartbeatFails`.
* The four budget counts are one, the five resource counts are the set `Kinds`, all admission gates
  that never change for a task are the set `Admissible`.
* In the integration: the admission of submissions and ownership arbitration, the analysis of
  conflicts (a nondeterministic verdict), the building of the candidate (it may fail, or succeed), the
  store of cleanup failures, and a git child that outlives its parent. The operator's calls are atomic.
* In the waves of writers: that every wave is served in the end. `HeadDoesNotFit` is the safety half of it;
  the rest is the termination of the executions, which the code does not bound.
* Of the milestones: registration, plans and their revisions, replanning but for the pause it resolves.
* Of the tasks: two runs at a time. `resume` is called when the run is over (nothing but tests calls it, and it does not check, see section 6).
  The ends of a task other than "completed" are
  one, "failed". That evidence in the stream is malformed, capability boundaries, and the programs with agents (`opencode-*`, `two-agent-milestone.ts`) but for what `MultiWriter` sees of them.
* Of path claims: the paths themselves and how they are compared on Darwin (`canonicalDarwinClaimPath`), the
  admission of a claim by the milestone; clocks that go back.
* Of attention: advisory items, the records of attempts that change nothing, authority checks of the surface. Of runs: preflight and intake, the
  stream of the service, suspension while planning. Of the analysis: its rounds, its budget and its reconciliation. Of a correction: that a
  plan stays within the bounds of the rejected one (a call that does not ends, which is `Leave`).
  `revisePlan` of a run is called by tests only, and so is `reconcileRejected`, which is modelled.
* Of the GitHub broker: what makes an action exact, credentials, the objects and the output of git and gh; the model broker, the egress proxy and the
  containers of the capsules.
* Of retention: restore, export, the pages of one stream, `VACUUM`, and the confirmation by the operator.
* The components listed as `not_modelled` in `PROJECT.json`, those of the plan below and those that are
  documents, adapters and presentation.

## 6. What the runs found

A run that checks one statement of the repository and ends in a counterexample:

* `daemon_lease_race` (`leases/daemon-lease.ts:41`). Two daemons acquire a free lease. The loser takes
   the new version from its second inspection but not the new status, and appends `acquired` onto the
   active lease of the winner. The projection rejects that event for ever, and neither can go on.

The properties of the passing runs are stated so that they hold beside these: `KnownWorkerHoldsCapacity` speaks of
recorded workers, `ReadableStream` of calls that are not repeated and of input the projection takes, `AloneRecovers` of a trace that has its cursor.

Met while modelling, and not the subject of a run; the lines are for whoever changes this code.

* `scheduling/journal-scheduler.ts:388`. Recovery suspends a potentially effectful task whose worker is gone and releases its capacity in the same
  transaction. `resolveReconciliation` later releases it again, which the projection refuses (`scheduler-projection.ts:262`): the task stays in
  `reconciling` for ever. TLC reaches such a task (`reconciling` and not `Releasable`) after one crash.
* `orchestration/recovery.ts:985`. `recordCompletionUnderLease` reads the stream again after the inspection, and goes by its last event. If the
  run it inspected is alive and has appended `task.cleanup_started` in between, the recovery takes the path of a finished cleanup
  (line 1004) and appends `cleanup_completed` and `completed`, although nobody has looked whether the ticket is gone: the snapshot of the authorization is compared only with
  itself. The model has it (`overtaken`); without that exclusion TLC violates `CompletedIsClean` in 31 steps.
* `orchestration/tracer-bullet.ts:619`. If a recovery appends `task.cleanup_started` first, the same append of the run throws in the stage "cleanup" and `terminate`
  ends the task as failed, although its change landed. A cleanup that is refused before it removes anything (line 645) ends the same way.
  `HonestOutcome` allows both, since the landing is on record.
* `orchestration/tracer-bullet.ts:583`. The receipt is verified after the lease is released, and the ref has to equal the result. Another task that lands in between
  makes a landed task unverified, and paused. In the recovery, too, `record_completion` asks for a branch that has not moved on
  (`recovery.ts:1379`): `LandedIsRecoverable` speaks of `ref = "result"`.
* `orchestration/tracer-bullet.ts:293`. Of two calls of `resume` the slower one fails to append `task.leased` and ends the task of the other as failed.
* `orchestration/recovery.ts:894`. The bounded cleanup appends `task.cancelled` without comparing the stream with what it has inspected. A
  `resume` that creates the worktree anew between its git effects and that append may land the change, and the task is cancelled over it with no
  evidence. The model has it (`overtaken`); `ImplementsHonestOutcome` excludes it by name.
* `orchestration/recovery.ts:450`. `inspect()` looks through a `task.effect_reconciled`, `recordCompletion`, `resume` and the bounded cleanup go by the last event
  of the stream as it is. An effect that is retained at `task.integration_prepared` and reconciled as applied is one that `inspect()` calls
  `record_completion`, and `recordCompletion` then throws ("unsupported record_completion state"). `LandedIsRecoverable` excludes a stream that ends like that.
* `integration/repository-orchestrator.ts:632`. A reconciliation looks at the unit before it waits for the lease.
  When the integration it was called for settles the unit meanwhile, it appends a second settlement, and the
  repository stream can never be read again. The model has it (`repeated`), and `ReadableStream` excludes it by name.
* `integration/repository-orchestrator.ts:657`. `proposeReplan` does not compare the conflict it is given with the one of its unit, and neither it nor
  `decideReplan`, `planCorrection` and `decideCorrection` ask whether the replacements form exactly one unit. The projection does (lines 976, 1002, 1061 to 1075, 1167), after the event
  is in the stream, which can then never be read again. Input that only a schema refuses (a name, a digest) does the same. The model has it
  (`Unfit`), and `ReadableStream` excludes it by name (`unfit`); without the exclusion TLC violates it at once.
* `cli/main.ts:1612`. A process that dies after the exclusive creation of the trace file and before its cursor exists
  (`projecting-journal.ts:56`) leaves a file that every later start refuses. The model has it (`Open`), and `AloneRecovers` excludes it by name.
* `journal/sqlite-journal.ts:1231`. Whether a claimant is dead is asked of its pid alone. If another process has the pid, or one that may not be signalled, the
  claim is not recovered, and every start fails until that process ends. The model has it (`disturbed`), and `AloneRecovers` excludes it.
* `scheduling/journal-scheduler.ts:320`. `resolveReconciliation` takes the operator's word: the capacity of a worker that lives is released when its
  dispatch is resolved. The model has it (`presumed`).
* `capsule/github-broker.ts:516`. A day after its acceptance an effect can no longer be reconciled, whether or not anybody has asked. Nothing in the broker asks
  by itself, so that a push whose caller was killed can stay in doubt for ever. The model has it (`WindowEnds`).
* `capsule/github-broker.ts:432`. A completed push is recognised by a stream of at least four events. When the caller of
  a push is killed before its observation and the first reconciliation proves the push, the stream has three: it is complete, cannot
  be reconciled again, and a pull request that names it is denied, which spends that grant as well. TLC
  reaches the state in ten steps. docs/commands.md:558 asks for no more than "a completed prerequisite push grant".
* `capsule/github-broker.ts:319`. A reconciliation concludes "completed" or "uncertain". An effect that was refused by the remote stays
  uncertain until its attempts are used up; docs/architecture.md:716 speaks of proving it "completed or failed".
* `service/scheduler-composition.ts:74`. A worker is spawned detached before its pid is recorded. A crash in between makes recovery take
  it for dead and release its capacity while it runs. The model has it (`Spawn`, `Crash`, `Verdicts`); TLC violates "a worker that
  lives holds its capacity" at once, and `KnownWorkerHoldsCapacity` says it of recorded workers.
  A recorded worker is taken for dead as well when `ps` gives no answer.
* `first-delivery/production-run-advancer.ts:160`. When the service starts, it appends `run.reopened` to every run that is under way,
  one that awaits approval included. From then on the request is not the last event of its run (`attention-service.ts:1124`): the
  pending approval becomes stale when it is next looked at, the run cannot be revised either, and only its
  cancellation is left. tests/planning/planning-coordinator.e2e.test.ts:108 "reconciles the same pending approval after SQLite restart" restarts the
  journal without the service. TLC reaches such a state of `RunApproval` in eight steps. `ExactApproval` allows the loss (`lapsed`).
* An approval that expires, or a crash after the run has been asked to await approval and before the decision is raised, leaves the run in
  `awaiting_approval` with nobody to ask again: `advanceRun` does nothing in that state, and the planner's reservation is spent.
* `planning/planning-coordinator.ts:118`. Two processes that plan one run at once can leave the planning stream at a later revision than the plan that
  is approved: the append of a revision names only the planning stream.
* `scheduling/daemon-scheduler.ts:192`. The tick inside the start loop may dispatch tasks, when every cancellation is
  signalled already, and its result is dropped: grant, budget and capacity are spent and no process is started until the
  worker lease expires into reconciliation. The model has it (`nested`); `FlightEnds` says that such a flight ends.
* `multi-writer-scheduler.ts:145`. A run that resumes a retained handoff settles the writer and does not
  release the reservation an earlier run of the same process left: the capacity is held until the
  process ends, or a later run finds the claim settled and releases it. The paused milestone returns at
  line 68 before it gets there.
* A claim whose stream failed while the planned tasks say that the writer completed and its reviewer never
  started fits no case of `releaseTerminalWriter`: every later run of that milestone throws.
* `workspaces/path-claims.ts:562`. A reconciliation while a writer is still running finds a clean worktree and no
  receipt, calls it "no_effect" and authorizes another dispatch; the receipt of the first writer is then refused, and two writers
  have run for one claim. `NoDispatchOverEffect` holds, since neither has written.
* `workspaces/path-claims.ts:304`. A renewal while a writer runs changes the token that its dispatch is bound to, and its
  receipt can never be recorded. Nothing in the repository renews during a dispatch.
* `workspaces/trusted-patch-applier.ts:79`. The start of an application compares the version of the stream of the whole
  project: any event of another claim between `prepare` and `applyPrepared` makes it fail into uncertainty, from which
  only `recover()` gets out. A patch that is cut short is settled by nothing: its claim stays in doubt until it lapses.
* `journal/retention.ts:475`. The effect of a prune sets the retained boundary to the one that was authorized,
  and neither transaction compares the two; only `requestPrune` does (line 362, "prune boundary is not above the
  retained boundary"). Two requests made before either prune and used in descending order move the boundary
  back over events that are deleted. `scanSegment` then looks for them among the active events (line 1401), and every
  verification and every page of the combined journal throws from then on. With the bounds of
  the run raised (`MaxEvents = 2`, five calls, one process) TLC reaches that state in the model after 21 steps.
  Nothing is lost: the events are in the archive, which is what `DeletionIsSafe` and `ImplementsCompleteLog` say.
  There is a second consequence. A prune that was authorized over the older boundary while the rows are gone throws in its effect, and leaves an
  interruption that is neither applied nor not applied, so that no reconciliation can settle it. That takes about seven calls and a second
  process, further than the run `retention` goes; `InterruptedIsSettled` excludes the state by name (`(retained + 1)..head \subseteq rows`), and
  TLC reaches a violation of it without that condition when the bounds are raised (`MaxEvents = 2`, seven calls, two processes).
* `journal/retention.ts:2447`. A crash between the link of a file and the removal of its temporary name leaves
  a residue that `strictTempResidues` refuses: no inspection succeeds until it is removed by hand.
  `InterruptedIsSettled` excludes this window by name.
* `journal/retention.ts:1487`. While one process publishes, its temporary file makes every open and read of
  the combined journal in another process throw. `Chained` has it; a reader then has to try again.
* `journal/retention.ts:1568`. A reconciliation while the operation is still running can remove files that are
  anchored a moment later. Nothing but the operator's confirmation prevents it.

## 7. Plan

In this order; each item names the hazard it is for.

1. The first delivery (one invocation of analysis and planner per run, and no late write) and the election of the
   runtime owner, as modules of their own.
