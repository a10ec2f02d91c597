----------------------------- MODULE Scheduler -----------------------------
(***************************************************************************)
(* The durable scheduler: JournalScheduler (scheduling/journal-scheduler.ts)*)
(* over the scheduler, scheduler-control, dispatch-grant and lease streams, *)
(* each stream represented by what its projection makes of it.              *)
(*                                                                          *)
(* One action is one journal transaction, with everything that transaction  *)
(* writes in every stream.  The order in which one call of the code makes   *)
(* its transactions, and what the process does between them, is             *)
(* DaemonScheduler.tla.  An operation that throws before its transaction    *)
(* changes nothing and is no step.                                          *)
(*                                                                          *)
(* Abstractions.  A task is dispatched at most once, so a dispatchId is its *)
(* task, and its task lease and worker lease, which every transaction       *)
(* writes together, are one lease.  The five resource counts are Kinds; the *)
(* four budget counts are one.  Time is the facts it makes true: `due`,     *)
(* `fence.valid`, an "expired" grant.  At most one incarnation holds the    *)
(* daemon lease, and takes it over only from a dead one: DaemonLease.tla.   *)
(***************************************************************************)
EXTENDS Integers, Sequences, FiniteSets, Functions

CONSTANTS Tasks, Projects, Kinds, Grants,
          Project,      \* [Tasks -> Projects]
          Need,         \* [Tasks -> [Kinds -> Nat]]    task.resources
          Budget,       \* [Tasks -> Nat]               task.budget
          DependsOn,    \* [Tasks -> SUBSET Tasks]      dependencies "completed"
          Admissible,   \* tasks all of whose fixed admission gates hold
          GrantOf,      \* [Tasks -> Grants]            task.grantId
          Capacity,     \* [Kinds -> Nat]               limits.resources
          BudgetLimit,  \* Nat                          limits.budget
          Effectful,    \* tasks with effect "potentially_effectful"
          Incs,         \* process incarnations
          NoInc, NoTask

ASSUME TasksAssumption ==
    /\ Project \in [Tasks -> Projects]
    /\ Need \in [Tasks -> [Kinds -> Nat]]
    /\ Budget \in [Tasks -> Nat]
    /\ DependsOn \in [Tasks -> SUBSET Tasks]
    /\ Admissible \subseteq Tasks /\ Effectful \subseteq Tasks
    /\ GrantOf \in [Tasks -> Grants]
ASSUME LimitsAssumption ==
    Capacity \in [Kinds -> Nat] /\ BudgetLimit \in Nat
ASSUME NullsAssumption ==
    NoInc \notin Incs /\ NoTask \notin Tasks

VARIABLES task,      \* scheduler stream: ScheduledTaskView of each task
          order,     \* scheduler stream: tasks by submittedPosition
          cur,       \* scheduler stream: the started, not stale incarnation
          alloc,     \* scheduler stream: tasks with an allocation
          consumed,  \* scheduler stream: consumedGrantIds
          ctl,       \* scheduler-control stream: GlobalControlView
          grant,     \* dispatch-grant streams
          lease,     \* lease streams
          due,       \* tasks whose lease has run out its expiresAtMs
          fence,     \* daemon-lease stream: its owner, and whether it is unexpired
          dead       \* incarnations whose process is gone

vars == <<task, order, cur, alloc, consumed, ctl, grant, lease, due, fence, dead>>

PreDispatch == {"queued", "blocked", "ready"}
InFlight    == {"dispatched", "running", "cancelling"}
Outcomes    == {"completed", "cancelled", "timed_out", "failed"}

TaskViews == [status : {"unsubmitted", "reconciling", "terminal"} \cup PreDispatch \cup InFlight,
              outcome : Outcomes \cup {"none"},
              by : Incs \cup {NoInc},      \* dispatch.processIncarnation
              worker : BOOLEAN,            \* a worker pid is recorded
              signalled : BOOLEAN,
              used : Nat,
              pressure : {"none", "resources", "budget"}]

ControlViews == [held : SUBSET Tasks, used : [Tasks -> Nat],
                 resources : [Kinds -> Int], reserved : Int, spent : Nat]

GrantViews == [state : {"absent", "issued", "expired", "consumed"}, for : Tasks \cup {NoTask}]

Init ==
    /\ task = [t \in Tasks |-> [status |-> "unsubmitted", outcome |-> "none", by |-> NoInc,
                                worker |-> FALSE, signalled |-> FALSE, used |-> 0,
                                pressure |-> "none"]]
    /\ order = <<>>
    /\ cur = NoInc
    /\ alloc = {}
    /\ consumed = {}
    /\ ctl = [held |-> {}, used |-> [t \in Tasks |-> 0],
              resources |-> [k \in Kinds |-> 0], reserved |-> 0, spent |-> 0]
    /\ grant = [g \in Grants |-> [state |-> "absent", for |-> NoTask]]
    /\ lease = [t \in Tasks |-> "none"]
    /\ due = {}
    /\ fence = [holder |-> NoInc, valid |-> FALSE]
    /\ dead = {}

Status(t) == task[t].status
Submitted == {t \in Tasks : Status(t) # "unsubmitted"}
Dispatched(t) == task[t].by # NoInc

\* assertCurrent and the assertActive of append.
Current(i) == fence.holder = i /\ fence.valid /\ cur = i

-----------------------------------------------------------------------------
(* The daemon lease and the incarnation: start, recover                     *)

AcquireFence(i) ==
    /\ i \notin dead
    /\ fence.holder = NoInc \/ fence.holder \in dead
    /\ fence' = [holder |-> i, valid |-> TRUE]
    /\ UNCHANGED <<task, order, cur, alloc, consumed, ctl, grant, lease, due, dead>>

\* daemon_stale for every active incarnation, then daemon_started.
Takeover(i) ==
    /\ fence.holder = i /\ fence.valid
    /\ cur # i
    /\ cur' = i
    /\ UNCHANGED <<task, order, alloc, consumed, ctl, grant, lease, due, fence, dead>>

StopFence(i) ==
    /\ i \notin dead
    /\ fence.holder = i
    /\ fence' = [holder |-> NoInc, valid |-> FALSE]
    /\ UNCHANGED <<task, order, cur, alloc, consumed, ctl, grant, lease, due, dead>>

\* The renewals did not come in time; nothing renews an expired lease.
FenceLapses ==
    /\ fence.valid
    /\ fence' = [fence EXCEPT !.valid = FALSE]
    /\ UNCHANGED <<task, order, cur, alloc, consumed, ctl, grant, lease, due, dead>>

Die(i) ==
    /\ dead' = dead \cup {i}
    /\ UNCHANGED <<task, order, cur, alloc, consumed, ctl, grant, lease, due, fence>>

-----------------------------------------------------------------------------
(* Dispatch grants: issued by the policy plane, once per grantId, for one   *)
(* exact intent, that is for one task.                                      *)

IssueGrant(g, t) ==
    /\ grant[g].state = "absent"
    /\ GrantOf[t] = g
    /\ grant' = [grant EXCEPT ![g] = [state |-> "issued", for |-> t]]
    /\ UNCHANGED <<task, order, cur, alloc, consumed, ctl, lease, due, fence, dead>>

GrantExpires(g) ==
    /\ grant[g].state = "issued"
    /\ grant' = [grant EXCEPT ![g].state = "expired"]
    /\ UNCHANGED <<task, order, cur, alloc, consumed, ctl, lease, due, fence, dead>>

Granted(t) == grant[GrantOf[t]].state = "issued" /\ grant[GrantOf[t]].for = t

\* Mutant: the grant stream is left out of the dispatch transaction.
ConsumeGrant_Forgotten(t) == UNCHANGED grant
\* consumptionWrite.
ConsumeGrant(t) == grant' = [grant EXCEPT ![GrantOf[t]].state = "consumed"]

-----------------------------------------------------------------------------
(* Submission and readiness                                                 *)

\* Mutant: any end of a dependency will do.
DependenciesMet_Ended(t) == \A u \in DependsOn[t] : Status(u) = "terminal"

DependenciesMet(t) == \A u \in DependsOn[t] : task[u].outcome = "completed"
Unblocked(t) == t \in Admissible /\ DependenciesMet(t) /\ Granted(t)
Readiness(t) == IF Unblocked(t) THEN "ready" ELSE "blocked"

\* The first of the two appends of submit.
Submit(i, t) ==
    /\ Current(i)
    /\ Status(t) = "unsubmitted"
    /\ task' = [task EXCEPT ![t] = [task[t] EXCEPT !.status = "queued"]]
    /\ order' = Append(order, t)
    /\ UNCHANGED <<cur, alloc, consumed, ctl, grant, lease, due, fence, dead>>

\* The second append of submit, and the readiness append of tick, which covers
\* every task that is not yet dispatched.
Reassess(i, S) ==
    /\ Current(i)
    /\ \A t \in S : Status(t) \in PreDispatch
    /\ task' = [t \in Tasks |->
                  IF t \in S /\ Status(t) # Readiness(t)
                  THEN [task[t] EXCEPT !.status = Readiness(t), !.pressure = "none"]
                  ELSE task[t]]
    /\ UNCHANGED <<order, cur, alloc, consumed, ctl, grant, lease, due, fence, dead>>

-----------------------------------------------------------------------------
(* Capacity, fairness and dispatch                                          *)

FitsResources(t) == \A k \in Kinds : ctl.resources[k] + Need[t][k] <= Capacity[k]
\* Mutant: what earlier dispatches spent is forgotten.
FitsBudget_Unspent(t) == ctl.reserved + Budget[t] <= BudgetLimit

FitsBudget(t) == ctl.reserved + ctl.spent + Budget[t] <= BudgetLimit
Fits(t) == FitsResources(t) /\ FitsBudget(t)

ProjectDispatches(p) == {t \in Tasks : Dispatched(t) /\ Project[t] = p}
\* For every kind the task needs, the earlier dispatches of its project that did too.
ResourceFairness(t) ==
    Cardinality({uk \in ProjectDispatches(Project[t]) \X Kinds :
                    Need[uk[1]][uk[2]] > 0 /\ Need[t][uk[2]] > 0})
Position(t) == CHOOSE n \in 1..Len(order) : order[n] = t

Precedes(t, u) ==
    LET kindsT == ResourceFairness(t)
        kindsU == ResourceFairness(u)
        countT == Cardinality(ProjectDispatches(Project[t]))
        countU == Cardinality(ProjectDispatches(Project[u]))
    IN  \/ kindsT < kindsU
        \/ kindsT = kindsU /\ countT < countU
        \/ kindsT = kindsU /\ countT = countU /\ Position(t) < Position(u)

Fitting == {t \in Tasks : Status(t) = "ready" /\ Fits(t)}
Chosen(t) == t \in Fitting /\ \A u \in Fitting \ {t} : Precedes(t, u)

\* One transaction over the scheduler stream (grant_consumed, resources_acquired,
\* budget_acquired, dispatch_intended), both leases, the control and the grant.
Dispatch(i, t) ==
    /\ Current(i)
    /\ Chosen(t)
    /\ Granted(t) /\ GrantOf[t] \notin consumed
    /\ t \notin alloc /\ t \notin ctl.held
    /\ lease[t] = "none"
    /\ task' = [task EXCEPT ![t] = [task[t] EXCEPT !.status = "dispatched", !.by = i,
                                                 !.pressure = "none"]]
    /\ alloc' = alloc \cup {t}
    /\ consumed' = consumed \cup {GrantOf[t]}
    /\ ctl' = [ctl EXCEPT !.held = @ \cup {t},
                          !.resources = [k \in Kinds |-> @[k] + Need[t][k]],
                          !.reserved = @ + Budget[t]]
    /\ ConsumeGrant(t)
    /\ lease' = [lease EXCEPT ![t] = "active"]
    /\ UNCHANGED <<order, cur, due, fence, dead>>

Backpressure(i) ==
    /\ Current(i)
    /\ task' = [t \in Tasks |->
                  IF Status(t) = "ready"
                  THEN [task[t] EXCEPT !.pressure =
                          IF FitsResources(t) /\ ~FitsBudget(t) THEN "budget" ELSE "resources"]
                  ELSE task[t]]
    /\ UNCHANGED <<order, cur, alloc, consumed, ctl, grant, lease, due, fence, dead>>

-----------------------------------------------------------------------------
(* A dispatched task                                                        *)

Started(i, t) ==
    /\ Current(i)
    /\ task[t].by = i
    /\ Status(t) \in {"dispatched", "cancelling"}
    /\ task' = [task EXCEPT ![t] = [task[t] EXCEPT !.worker = TRUE,
                  !.status = IF @ = "dispatched" THEN "running" ELSE @]]
    /\ UNCHANGED <<order, cur, alloc, consumed, ctl, grant, lease, due, fence, dead>>

\* The lease ran 180 s without a heartbeat, or out of its last one.
LeaseElapses(t) ==
    /\ lease[t] = "active"
    /\ due' = due \cup {t}
    /\ UNCHANGED <<task, order, cur, alloc, consumed, ctl, grant, lease, fence, dead>>

\* Both streams refuse usage beyond the budget of the dispatch.
UsageAccepted(i, t, delta) ==
    /\ Current(i)
    /\ Dispatched(t) /\ Status(t) # "terminal"
    /\ t \in ctl.held
    /\ task[t].used + delta <= Budget[t]
    /\ ctl.used[t] + delta <= Budget[t]

\* Mutant: the usage is recorded in the scheduler stream alone.
RecordUsage_OneStream(i, t, delta) ==
    /\ UsageAccepted(i, t, delta)
    /\ task' = [task EXCEPT ![t] = [task[t] EXCEPT !.used = @ + delta]]
    /\ UNCHANGED <<order, cur, alloc, consumed, ctl, grant, lease, due, fence, dead>>

RecordUsage(i, t, delta) ==
    /\ UsageAccepted(i, t, delta)
    /\ task' = [task EXCEPT ![t] = [task[t] EXCEPT !.used = @ + delta]]
    /\ ctl' = [ctl EXCEPT !.used[t] = @ + delta]
    /\ UNCHANGED <<order, cur, alloc, consumed, grant, lease, due, fence, dead>>

Cancel(i, t) ==
    /\ Current(i)
    /\ Status(t) \in PreDispatch \cup InFlight
    /\ task' = [task EXCEPT ![t] =
                  IF Dispatched(t) THEN [task[t] EXCEPT !.status = "cancelling"]
                  ELSE [task[t] EXCEPT !.status = "terminal", !.outcome = "cancelled"]]
    /\ UNCHANGED <<order, cur, alloc, consumed, ctl, grant, lease, due, fence, dead>>

Unsignalled == {t \in Tasks : Status(t) = "cancelling" /\ ~task[t].signalled}

\* One append for all of them: the projection rejects it when one was
\* dispatched by another incarnation.
SignalCancellations(i) ==
    /\ Current(i)
    /\ Unsignalled # {}
    /\ \A t \in Unsignalled : task[t].by = i
    /\ task' = [t \in Tasks |-> IF t \in Unsignalled
                                THEN [task[t] EXCEPT !.signalled = TRUE] ELSE task[t]]
    /\ UNCHANGED <<order, cur, alloc, consumed, ctl, grant, lease, due, fence, dead>>

-----------------------------------------------------------------------------
(* The end of a dispatch                                                    *)

\* resources_released, budget_released and dispatch_released carry exact
\* evidence: both streams reject it when they no longer hold the allocation
\* or count another usage.
Releasable(t) ==
    /\ t \in alloc /\ t \in ctl.held
    /\ ctl.used[t] = task[t].used
    /\ ctl.spent + ctl.used[t] <= BudgetLimit

Released(t) ==
    [ctl EXCEPT !.held = @ \ {t},
                !.resources = [k \in Kinds |-> @[k] - Need[t][k]],
                !.reserved = @ - Budget[t],
                !.spent = @ + ctl.used[t]]

Release(t) == Releasable(t) /\ alloc' = alloc \ {t} /\ ctl' = Released(t)
Retain == UNCHANGED <<alloc, ctl>>

EndLease(t, how) == lease' = [lease EXCEPT ![t] = IF @ = "active" THEN how ELSE @]

\* Mutant: the outcome is recorded without the release.
Settle_KeepsCapacity(i, t, outcome, how) ==
    /\ Current(i)
    /\ Dispatched(t) /\ Status(t) # "terminal"
    /\ task' = [task EXCEPT ![t] = [task[t] EXCEPT !.status = "terminal", !.outcome = outcome]]
    /\ EndLease(t, how)
    /\ UNCHANGED <<order, cur, alloc, consumed, ctl, grant, due, fence, dead>>

\* worker_outcome with the release: the last append of complete, and
\* finishReconciliation.
Settle(i, t, outcome, how) ==
    /\ Current(i)
    /\ Dispatched(t) /\ Status(t) # "terminal"
    /\ task' = [task EXCEPT ![t] = [task[t] EXCEPT !.status = "terminal", !.outcome = outcome]]
    /\ Release(t)
    /\ EndLease(t, how)
    /\ UNCHANGED <<order, cur, consumed, grant, due, fence, dead>>

\* reconciliationRequired, with or without the release of the capacity.
Suspend(i, t, how, capacity) ==
    /\ Current(i)
    /\ Dispatched(t) /\ Status(t) # "terminal"
    /\ task' = [task EXCEPT ![t] = [task[t] EXCEPT !.status = "reconciling"]]
    /\ capacity
    /\ EndLease(t, how)
    /\ UNCHANGED <<order, cur, consumed, grant, due, fence, dead>>

Complete(i, t, outcome) == Settle(i, t, outcome, "released")

ReconcileUncertain(i, t) == Suspend(i, t, "reconciled", Retain)

Expire(i, t) ==
    /\ Status(t) \in InFlight
    /\ t \in due
    /\ Suspend(i, t, "expired", Retain)

ResolveReconciliation(i, t, outcome) ==
    /\ Status(t) = "reconciling"
    /\ Settle(i, t, outcome, "reconciled")

\* Recovery takes up the tasks in flight that other incarnations dispatched.
Stale(i) == {t \in Tasks : Status(t) \in InFlight /\ task[t].by # i}

\* Mutant: the capacity of a live worker is released.
RecoverAlive_Releases(i, t) ==
    /\ t \in Stale(i)
    /\ Suspend(i, t, "reconciled", Release(t))

RecoverAlive(i, t) ==
    /\ t \in Stale(i)
    /\ Suspend(i, t, "reconciled", Retain)

RecoverUncertain(i, t) ==
    /\ t \in Stale(i)
    /\ Suspend(i, t, "reconciled", Release(t))

RecoverSettled(i, t, outcome) ==
    /\ t \in Stale(i)
    /\ Settle(i, t, outcome, "reconciled")

-----------------------------------------------------------------------------
Operation(i) ==
    i \notin dead /\
    \/ Takeover(i)
    \/ \E S \in SUBSET Tasks : Reassess(i, S)
    \/ SignalCancellations(i) \/ Backpressure(i)
    \/ \E t \in Tasks :
         \/ Submit(i, t) \/ Dispatch(i, t) \/ Started(i, t) \/ Cancel(i, t)
         \/ \E delta \in 1..Budget[t] : RecordUsage(i, t, delta)
         \/ \E outcome \in Outcomes :
              Complete(i, t, outcome) \/ ResolveReconciliation(i, t, outcome)
                \/ RecoverSettled(i, t, outcome)
         \/ ReconcileUncertain(i, t) \/ Expire(i, t)
         \/ RecoverAlive(i, t) \/ RecoverUncertain(i, t)

Environment ==
    \/ FenceLapses
    \/ \E i \in Incs : AcquireFence(i) \/ StopFence(i) \/ Die(i)
    \/ \E t \in Tasks : LeaseElapses(t)
    \/ \E g \in Grants : GrantExpires(g) \/ \E t \in Tasks : IssueGrant(g, t)

Next == Environment \/ \E i \in Incs : Operation(i)

Spec == Init /\ [][Next]_vars

-----------------------------------------------------------------------------
TypeOK ==
    /\ task \in [Tasks -> TaskViews]
    /\ order \in Seq(Tasks)
    /\ cur \in Incs \cup {NoInc}
    /\ alloc \subseteq Tasks
    /\ consumed \subseteq Grants
    /\ ctl \in ControlViews
    /\ grant \in [Grants -> GrantViews]
    /\ lease \in [Tasks -> {"none", "active", "expired", "released", "reconciled"}]
    /\ due \subseteq Tasks
    /\ fence \in [holder : Incs \cup {NoInc}, valid : BOOLEAN]
    /\ dead \subseteq Incs

\* The scheduler stream and the scheduler-control stream, projected separately, hold
\* the same allocations and count the same usage, so that the exact evidence of a
\* release is never refused by one of them (projectScheduler, projectGlobalControl).
StreamsAgree == alloc = ctl.held /\ \A t \in Tasks : ctl.used[t] = task[t].used

\* A dispatch in flight holds its allocation and its lease; the lease ends with the
\* flight, and the allocation no later than the dispatch is settled, on every path out:
\* outcome, expiry, refused start, recovery.
FlightIsBacked ==
    \A t \in Tasks :
        /\ Status(t) \in InFlight => t \in alloc
        /\ Status(t) \in InFlight <=> lease[t] = "active"
        /\ t \in alloc => Status(t) \in InFlight \cup {"reconciling"}

\* Each dispatch has spent one grant of its own, and no grant is spent without its
\* dispatch: the grant stream, the scheduler stream and the task agree.
GrantSpentOnce ==
    /\ \A t, u \in Tasks : Dispatched(t) /\ Dispatched(u) /\ GrantOf[t] = GrantOf[u] => t = u
    /\ consumed = {g \in Grants : grant[g].state = "consumed"}
    /\ consumed = {GrantOf[t] : t \in {u \in Tasks : Dispatched(u)}}

\* No dispatch takes a resource or a budget beyond its limit, whatever was used, released
\* late or never started.
WithinLimits == /\ \A k \in Kinds : ctl.resources[k] <= Capacity[k]
                /\ ctl.reserved + ctl.spent <= BudgetLimit

\* What the dispatches hold and have spent is what the counters of the control
\* stream say, and within the limits.
LimitsRespected ==
    /\ \A k \in Kinds : ctl.resources[k] = SumFunctionOnSet([t \in Tasks |-> Need[t][k]], alloc)
    /\ ctl.reserved = SumFunctionOnSet(Budget, alloc)
    /\ ctl.spent = SumFunctionOnSet([t \in Tasks |-> task[t].used], Tasks \ alloc)
    /\ WithinLimits

\* A task runs only after all it depends on has completed: readiness is computed in
\* one transaction and relied on in later ones.
DependenciesFirst ==
    \A t \in Tasks : Dispatched(t) => \A u \in DependsOn[t] : task[u].outcome = "completed"

\* A dispatch that ended or was given up to reconciliation never runs again, keeps its
\* outcome, and is not given capacity again, whichever call comes late: a worker that
\* starts, a cancellation, an expiry or a completion.
NeverResurrected ==
    [][\A t \in Tasks :
         /\ Status(t) = "terminal" => task'[t] = task[t]
         /\ Status(t) = "reconciling" => task'[t].status \in {"reconciling", "terminal"}
         /\ Status(t) \in {"reconciling", "terminal"} /\ t \notin alloc => t \notin alloc']_vars

-----------------------------------------------------------------------------
Phase(t) == CASE Status(t) \in PreDispatch \cup {"unsubmitted"} -> "waiting"
              [] Status(t) \in InFlight -> "inFlight"
              [] Status(t) = "reconciling" -> "inDoubt"
              [] Status(t) = "terminal" -> "ended"

Contract == INSTANCE TaskContract WITH phase <- [t \in Tasks |-> Phase(t)], holding <- alloc

\* The durable scheduler keeps the contract of each task.
ImplementsContract == Contract!Spec
=============================================================================
