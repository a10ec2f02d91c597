------------------------ MODULE DaemonScheduler_proofs ------------------------
(***************************************************************************)
(* What the durable scheduler keeps, for any tasks, dependencies, grants,  *)
(* capacities and budgets, and for any number of process incarnations; and *)
(* that the daemon process makes only its transactions, starts a process   *)
(* once per task and never loses sight of a live one, for any scenarios.   *)
(***************************************************************************)
EXTENDS DaemonScheduler, FiniteSetTheorems, WellFoundedInduction, SequenceTheorems, TLAPS

-----------------------------------------------------------------------------
(* The durable scheduler: the transactions of Scheduler.tla.               *)

LEMMA InitTypeOK == Init => TypeOK
<1> SUFFICES ASSUME Init PROVE TypeOK
  OBVIOUS
<1>1. task \in [Tasks -> TaskViews]
  BY DEF Init, TaskViews, PreDispatch, InFlight, Outcomes
<1>2. order \in Seq(Tasks)
  BY DEF Init
<1>3. ctl \in ControlViews
  BY DEF Init, ControlViews
<1>4. grant \in [Grants -> GrantViews]
  BY DEF Init, GrantViews
<1> QED BY <1>1, <1>2, <1>3, <1>4 DEF Init, TypeOK

LEMMA TypeEnvironment == ASSUME TypeOK, Environment PROVE TypeOK'
<1>1. CASE FenceLapses
  <2>1. fence' \in [holder : Incs \cup {NoInc}, valid : BOOLEAN]
    BY <1>1 DEF FenceLapses, TypeOK
  <2> QED BY <1>1, <2>1 DEF FenceLapses, TypeOK
<1>2. ASSUME NEW i \in Incs, AcquireFence(i) \/ StopFence(i) \/ Die(i) PROVE TypeOK'
  <2>1. /\ [holder |-> i, valid |-> TRUE] \in [holder : Incs \cup {NoInc}, valid : BOOLEAN]
        /\ [holder |-> NoInc, valid |-> FALSE] \in [holder : Incs \cup {NoInc}, valid : BOOLEAN]
    OBVIOUS
  <2>2. fence' \in [holder : Incs \cup {NoInc}, valid : BOOLEAN]
    BY <1>2, <2>1 DEF AcquireFence, StopFence, Die, TypeOK
  <2> QED BY <1>2, <2>2 DEF AcquireFence, StopFence, Die, TypeOK
<1>3. ASSUME NEW t \in Tasks, LeaseElapses(t) PROVE TypeOK'
  BY <1>3 DEF LeaseElapses, TypeOK
<1>4. ASSUME NEW g \in Grants, GrantExpires(g) PROVE TypeOK'
  <2>1. grant' \in [Grants -> GrantViews]
    BY <1>4 DEF GrantExpires, GrantViews, TypeOK
  <2> QED BY <1>4, <2>1 DEF GrantExpires, TypeOK
<1>5. ASSUME NEW g \in Grants, NEW t \in Tasks, IssueGrant(g, t) PROVE TypeOK'
  <2>1. grant' \in [Grants -> GrantViews]
    BY <1>5 DEF IssueGrant, GrantViews, TypeOK
  <2> QED BY <1>5, <2>1 DEF IssueGrant, TypeOK
<1> QED BY <1>1, <1>2, <1>3, <1>4, <1>5 DEF Environment

LEMMA TypeQueue ==
    ASSUME TypeOK, NEW i \in Incs,
           \/ Takeover(i) \/ SignalCancellations(i) \/ Backpressure(i)
           \/ \E S \in SUBSET Tasks : Reassess(i, S)
    PROVE  TypeOK'
<1>0. task \in [Tasks -> TaskViews]
  BY DEF TypeOK
<1>1. CASE Takeover(i)
  BY <1>1 DEF Takeover, TypeOK
<1>2. CASE SignalCancellations(i)
  <2>1. \A t \in Tasks : [task[t] EXCEPT !.signalled = TRUE] \in TaskViews
    BY <1>0 DEF TaskViews
  <2>2. task' \in [Tasks -> TaskViews]
    BY <1>0, <1>2, <2>1 DEF SignalCancellations
  <2> QED BY <1>2, <2>2 DEF SignalCancellations, TypeOK
<1>3. CASE Backpressure(i)
  <2>1. \A t \in Tasks, p \in {"resources", "budget"} :
          [task[t] EXCEPT !.pressure = p] \in TaskViews
    BY <1>0 DEF TaskViews
  <2>2. task' \in [Tasks -> TaskViews]
    BY <1>0, <1>3, <2>1 DEF Backpressure
  <2> QED BY <1>3, <2>2 DEF Backpressure, TypeOK
<1>4. ASSUME NEW S \in SUBSET Tasks, Reassess(i, S) PROVE TypeOK'
  <2>1. \A t \in Tasks, r \in {"ready", "blocked"} :
          [task[t] EXCEPT !.status = r, !.pressure = "none"] \in TaskViews
    BY <1>0 DEF TaskViews, PreDispatch
  <2>2. \A t \in Tasks : Readiness(t) \in {"ready", "blocked"}
    BY DEF Readiness
  <2>3. task' \in [Tasks -> TaskViews]
    BY <1>0, <1>4, <2>1, <2>2 DEF Reassess
  <2> QED BY <1>4, <2>3 DEF Reassess, TypeOK
<1> QED BY <1>1, <1>2, <1>3, <1>4

LEMMA TypeDispatch == ASSUME TypeOK, NEW i \in Incs, NEW t \in Tasks, Dispatch(i, t) PROVE TypeOK'
<1>1. task' \in [Tasks -> TaskViews]
  <2>1. task \in [Tasks -> TaskViews]
    BY DEF TypeOK
  <2>2. [task[t] EXCEPT !.status = "dispatched", !.by = i, !.pressure = "none"] \in TaskViews
    BY <2>1 DEF TaskViews, InFlight
  <2> QED BY <2>1, <2>2 DEF Dispatch
<1>2. ctl' \in ControlViews
  <2>1. ctl \in ControlViews
    BY DEF TypeOK
  <2>2. [k \in Kinds |-> ctl.resources[k] + Need[t][k]] \in [Kinds -> Int]
    BY <2>1, TasksAssumption DEF ControlViews
  <2>3. ctl.held \cup {t} \in SUBSET Tasks /\ ctl.reserved + Budget[t] \in Int
    BY <2>1, TasksAssumption DEF ControlViews
  <2> QED BY <2>1, <2>2, <2>3 DEF Dispatch, ControlViews
<1>3. GrantOf[t] \in Grants
  BY TasksAssumption
<1>4. grant' \in [Grants -> GrantViews]
  BY SMTT(30), <1>3 DEF Dispatch, ConsumeGrant, GrantViews, TypeOK
<1>5. /\ alloc' \subseteq Tasks /\ consumed' \subseteq Grants
      /\ lease' \in [Tasks -> {"none", "active", "expired", "released", "reconciled"}]
  BY <1>3 DEF Dispatch, TypeOK
<1> QED BY <1>1, <1>2, <1>4, <1>5 DEF Dispatch, TypeOK

LEMMA TypeTask ==
    ASSUME TypeOK, NEW i \in Incs, NEW t \in Tasks,
           \/ Submit(i, t) \/ Started(i, t) \/ Cancel(i, t)
           \/ \E delta \in 1..Budget[t] : RecordUsage(i, t, delta)
    PROVE  TypeOK'
<1>0. task \in [Tasks -> TaskViews] /\ ctl \in ControlViews
  BY DEF TypeOK
<1>1. CASE Submit(i, t)
  <2>1. [task[t] EXCEPT !.status = "queued"] \in TaskViews
    BY <1>0 DEF TaskViews, PreDispatch
  <2>2. task' \in [Tasks -> TaskViews]
    BY <1>0, <1>1, <2>1 DEF Submit
  <2>3. order' \in Seq(Tasks)
    BY <1>1 DEF Submit, TypeOK
  <2> QED BY <1>1, <2>2, <2>3 DEF Submit, TypeOK
<1>2. CASE Started(i, t)
  <2>1. [task[t] EXCEPT !.worker = TRUE,
           !.status = IF @ = "dispatched" THEN "running" ELSE @] \in TaskViews
    BY <1>0 DEF TaskViews, InFlight
  <2>2. task' \in [Tasks -> TaskViews]
    BY <1>0, <1>2, <2>1 DEF Started
  <2> QED BY <1>2, <2>2 DEF Started, TypeOK
<1>3. CASE Cancel(i, t)
  <2>1. /\ [task[t] EXCEPT !.status = "cancelling"] \in TaskViews
        /\ [task[t] EXCEPT !.status = "terminal", !.outcome = "cancelled"] \in TaskViews
    BY <1>0 DEF TaskViews, InFlight, Outcomes
  <2>2. task' \in [Tasks -> TaskViews]
    BY <1>0, <1>3, <2>1 DEF Cancel
  <2> QED BY <1>3, <2>2 DEF Cancel, TypeOK
<1>4. ASSUME NEW delta \in 1..Budget[t], RecordUsage(i, t, delta) PROVE TypeOK'
  <2>1. delta \in Nat
    BY TasksAssumption
  <2>2. [task[t] EXCEPT !.used = @ + delta] \in TaskViews
    BY <1>0, <2>1 DEF TaskViews
  <2>3. task' \in [Tasks -> TaskViews]
    BY <1>0, <1>4, <2>2 DEF RecordUsage
  <2>4. [ctl.used EXCEPT ![t] = @ + delta] \in [Tasks -> Nat]
    BY <1>0, <2>1 DEF ControlViews
  <2>5. ctl' \in ControlViews
    BY <1>0, <1>4, <2>4 DEF RecordUsage, ControlViews
  <2> QED BY <1>4, <2>3, <2>5 DEF RecordUsage, TypeOK
<1> QED BY <1>1, <1>2, <1>3, <1>4

LEMMA TypeReleased == ASSUME ctl \in ControlViews, NEW t \in Tasks PROVE Released(t) \in ControlViews
<1>1. [k \in Kinds |-> ctl.resources[k] - Need[t][k]] \in [Kinds -> Int]
  BY TasksAssumption DEF ControlViews
<1>2. /\ ctl.held \ {t} \in SUBSET Tasks
      /\ ctl.reserved - Budget[t] \in Int
      /\ ctl.spent + ctl.used[t] \in Nat
  BY TasksAssumption DEF ControlViews
<1> QED BY <1>1, <1>2 DEF Released, ControlViews

LEMMA TypeSettle ==
    ASSUME TypeOK, NEW i \in Incs, NEW t \in Tasks, NEW outcome \in Outcomes,
           NEW how \in {"released", "reconciled"}, Settle(i, t, outcome, how)
    PROVE  TypeOK'
<1>0. task \in [Tasks -> TaskViews] /\ ctl \in ControlViews
  BY DEF TypeOK
<1>1. [task[t] EXCEPT !.status = "terminal", !.outcome = outcome] \in TaskViews
  BY <1>0 DEF TaskViews
<1>2. task' \in [Tasks -> TaskViews]
  BY <1>0, <1>1 DEF Settle
<1>3. ctl' \in ControlViews
  BY <1>0, TypeReleased DEF Settle, Release
<1>4. lease' \in [Tasks -> {"none", "active", "expired", "released", "reconciled"}]
  BY DEF Settle, EndLease, TypeOK
<1> QED BY <1>2, <1>3, <1>4 DEF Settle, Release, TypeOK

LEMMA TypeSuspend ==
    ASSUME TypeOK, NEW i \in Incs, NEW t \in Tasks, NEW how \in {"expired", "reconciled"},
           Suspend(i, t, how, Release(t)) \/ Suspend(i, t, how, Retain)
    PROVE  TypeOK'
<1>0. task \in [Tasks -> TaskViews] /\ ctl \in ControlViews
  BY DEF TypeOK
<1>1. [task[t] EXCEPT !.status = "reconciling"] \in TaskViews
  BY <1>0 DEF TaskViews
<1>2. task' \in [Tasks -> TaskViews]
  BY <1>0, <1>1 DEF Suspend
<1>3. ctl' \in ControlViews /\ alloc' \subseteq Tasks
  BY <1>0, TypeReleased DEF Suspend, Release, Retain, TypeOK
<1>4. lease' \in [Tasks -> {"none", "active", "expired", "released", "reconciled"}]
  BY DEF Suspend, EndLease, TypeOK
<1> QED BY <1>2, <1>3, <1>4 DEF Suspend, TypeOK

LEMMA TypeEnd ==
    ASSUME TypeOK, NEW i \in Incs, NEW t \in Tasks,
           \/ \E outcome \in Outcomes : \/ Complete(i, t, outcome)
                                       \/ ResolveReconciliation(i, t, outcome)
                                       \/ RecoverSettled(i, t, outcome)
           \/ ReconcileUncertain(i, t) \/ Expire(i, t)
           \/ RecoverAlive(i, t) \/ RecoverUncertain(i, t)
    PROVE  TypeOK'
<1>1. ASSUME NEW outcome \in Outcomes, \/ Complete(i, t, outcome)
                                      \/ ResolveReconciliation(i, t, outcome)
                                      \/ RecoverSettled(i, t, outcome)
      PROVE  TypeOK'
  BY <1>1, TypeSettle DEF Complete, ResolveReconciliation, RecoverSettled
<1>2. CASE \/ ReconcileUncertain(i, t) \/ Expire(i, t)
           \/ RecoverAlive(i, t) \/ RecoverUncertain(i, t)
  BY <1>2, TypeSuspend DEF ReconcileUncertain, Expire, RecoverAlive, RecoverUncertain
<1> QED BY <1>1, <1>2

LEMMA NextTypeOK == TypeOK /\ [Next]_vars => TypeOK'
<1> SUFFICES ASSUME TypeOK, [Next]_vars PROVE TypeOK'
  OBVIOUS
<1>1. CASE Environment
  BY <1>1, TypeEnvironment
<1>2. ASSUME NEW i \in Incs, Operation(i) PROVE TypeOK'
  BY <1>2, TypeQueue, TypeDispatch, TypeTask, TypeEnd DEF Operation
<1>3. CASE UNCHANGED vars
  BY <1>3 DEF TypeOK, vars
<1> QED BY <1>1, <1>2, <1>3 DEF Next

\* Every stream the scheduler projects keeps its type.
THEOREM SchedulerTypeOK == Spec => []TypeOK
BY InitTypeOK, NextTypeOK, PTL DEF Spec

-----------------------------------------------------------------------------
(* The inductive invariant: TypeOK, the three properties, and what makes    *)
(* them inductive.                                                          *)

\* Where a task is decides whether it was dispatched; a completed task stays so;
\* a ready task has seen its dependencies complete.
PhaseKnown ==
    \A t \in Tasks :
        /\ Status(t) \in InFlight \cup {"reconciling"} => Dispatched(t)
        /\ Status(t) \in PreDispatch \cup {"unsubmitted"} => ~Dispatched(t)
        /\ task[t].outcome = "completed" => Status(t) = "terminal"
        /\ Status(t) = "ready" => DependenciesMet(t)

\* GrantSpentOnce, grant by grant.
GrantsMatched ==
    /\ \A t, u \in Tasks : Dispatched(t) /\ Dispatched(u) /\ GrantOf[t] = GrantOf[u] => t = u
    /\ \A g \in Grants : g \in consumed <=> grant[g].state = "consumed"
    /\ \A t \in Tasks : Dispatched(t) => GrantOf[t] \in consumed
    /\ \A g \in consumed : \E t \in Tasks : Dispatched(t) /\ GrantOf[t] = g

IInv == /\ TypeOK /\ PhaseKnown /\ StreamsAgree /\ FlightIsBacked
        /\ GrantsMatched /\ DependenciesFirst

LEMMA InitIInv == Init => IInv
<1> SUFFICES ASSUME Init PROVE IInv
  OBVIOUS
<1>1. \A t \in Tasks : /\ Status(t) = "unsubmitted" /\ task[t].outcome = "none"
                       /\ ~Dispatched(t) /\ task[t].used = 0 /\ ctl.used[t] = 0
  BY DEF Init, Status, Dispatched
<1>2. ctl.held = {}
  BY DEF Init
<1>3. PhaseKnown
  BY <1>1 DEF PhaseKnown, InFlight
<1>4. StreamsAgree
  BY <1>1, <1>2 DEF StreamsAgree, Init
<1>5. FlightIsBacked
  BY <1>1 DEF FlightIsBacked, InFlight, Init
<1>6. GrantsMatched
  <2>1. \A g \in Grants : grant[g].state = "absent"
    BY DEF Init
  <2>2. consumed = {}
    BY DEF Init
  <2> QED BY <1>1, <2>1, <2>2 DEF GrantsMatched
<1>7. DependenciesFirst
  BY <1>1 DEF DependenciesFirst, DependenciesMet
<1> QED BY <1>3, <1>4, <1>5, <1>6, <1>7, InitTypeOK DEF IInv

\* What a step leaves alone when it changes only facts of the host, the current
\* incarnation, or what the invariant does not read of a task.
SameTasks == \A t \in Tasks : /\ task'[t].status = task[t].status
                              /\ task'[t].by = task[t].by
                              /\ task'[t].outcome = task[t].outcome
                              /\ task'[t].used = task[t].used

SameSpent ==
    \A g \in Grants : (grant'[g].state = "consumed") <=> (grant[g].state = "consumed")

LEMMA FrameIInv ==
    ASSUME IInv, TypeOK', SameTasks, UNCHANGED <<alloc, consumed, ctl, lease>>,
           SameSpent
    PROVE  IInv'
<1>1. PhaseKnown'
  BY TasksAssumption DEF IInv, PhaseKnown, SameTasks, Status, Dispatched, DependenciesMet
<1>2. StreamsAgree'
  BY DEF IInv, StreamsAgree, SameTasks
<1>3. FlightIsBacked'
  BY DEF IInv, FlightIsBacked, SameTasks, Status
<1>4. GrantsMatched'
  BY DEF IInv, GrantsMatched, SameTasks, SameSpent, Dispatched
<1>5. DependenciesFirst'
  BY TasksAssumption DEF IInv, DependenciesFirst, SameTasks, Dispatched, DependenciesMet
<1> QED BY <1>1, <1>2, <1>3, <1>4, <1>5 DEF IInv

LEMMA EnvironmentIInv == ASSUME IInv, TypeOK', Environment PROVE IInv'
<1>1. SameTasks /\ UNCHANGED <<alloc, consumed, ctl, lease>>
  BY DEF Environment, FenceLapses, AcquireFence, StopFence, Die, LeaseElapses, GrantExpires,
         IssueGrant, SameTasks
<1>2. SameSpent
  <2>1. grant \in [Grants -> GrantViews]
    BY DEF IInv, TypeOK
  <2>2. ASSUME NEW g \in Grants, GrantExpires(g) PROVE  SameSpent
    BY <2>1, <2>2 DEF GrantExpires, GrantViews, SameSpent
  <2>3. ASSUME NEW g \in Grants, NEW t \in Tasks, IssueGrant(g, t) PROVE  SameSpent
    BY <2>1, <2>3 DEF IssueGrant, GrantViews, SameSpent
  <2> QED BY <2>2, <2>3 DEF Environment, FenceLapses, AcquireFence, StopFence, Die, LeaseElapses, SameSpent
<1> QED BY <1>1, <1>2, FrameIInv

LEMMA QueueIInv ==
    ASSUME IInv, TypeOK', NEW i \in Incs,
           Takeover(i) \/ SignalCancellations(i) \/ Backpressure(i)
    PROVE  IInv'
<1>1. task \in [Tasks -> TaskViews]
  BY DEF IInv, TypeOK
<1>2. UNCHANGED <<alloc, consumed, ctl, lease>> /\ SameSpent
  BY DEF Takeover, SignalCancellations, Backpressure, SameSpent
<1>3. CASE Takeover(i)
  BY <1>2, <1>3, FrameIInv DEF Takeover, SameTasks
<1>4. CASE SignalCancellations(i)
  <2>1. SameTasks
    BY <1>1, <1>4 DEF SignalCancellations, SameTasks, TaskViews
  <2> QED BY <1>2, <2>1, FrameIInv
<1>5. CASE Backpressure(i)
  <2>1. SameTasks
    BY <1>1, <1>5 DEF Backpressure, SameTasks, TaskViews
  <2> QED BY <1>2, <2>1, FrameIInv
<1> QED BY <1>3, <1>4, <1>5

\* A step that moves tasks without dispatching or ending one, and leaves all else alone.
\* `Moved` says what it may do to the tasks.
Moved ==
    \A t \in Tasks :
        /\ task'[t].by = task[t].by
        /\ task'[t].used = task[t].used
        /\ \/ task'[t].status = task[t].status /\ task'[t].outcome = task[t].outcome
           \/ /\ task[t].status \in PreDispatch \cup {"unsubmitted"}
              /\ task'[t].status \in PreDispatch
              /\ task'[t].outcome = task[t].outcome
              /\ task'[t].status = "ready" => DependenciesMet(t)
           \/ /\ task[t].status \in PreDispatch
              /\ task'[t].status = "terminal" /\ task'[t].outcome = "cancelled"
           \/ /\ task[t].status \in InFlight
              /\ task'[t].status \in InFlight
              /\ task'[t].outcome = task[t].outcome

LEMMA MovedIInv ==
    ASSUME IInv, TypeOK', Moved, UNCHANGED <<alloc, consumed, ctl, grant, lease>>
    PROVE  IInv'
<1>1. \A t \in Tasks : task[t].outcome = "completed" <=> task'[t].outcome = "completed"
  BY DEF IInv, PhaseKnown, Moved, Status, PreDispatch
<1>2. \A t \in Tasks : DependenciesMet(t) <=> DependenciesMet(t)'
  BY <1>1, TasksAssumption DEF DependenciesMet
<1>3. \A t \in Tasks : Dispatched(t) <=> Dispatched(t)'
  BY DEF Moved, Dispatched
<1>4. PhaseKnown'
  BY <1>1, <1>2, <1>3 DEF IInv, PhaseKnown, Moved, Status, PreDispatch, InFlight
<1>5. StreamsAgree'
  BY DEF IInv, StreamsAgree, Moved
<1>6. FlightIsBacked'
  BY DEF IInv, FlightIsBacked, Moved, Status, PreDispatch, InFlight
<1>7. GrantsMatched'
  BY <1>3 DEF IInv, GrantsMatched
<1>8. DependenciesFirst'
  BY <1>2, <1>3 DEF IInv, DependenciesFirst, DependenciesMet
<1> QED BY <1>4, <1>5, <1>6, <1>7, <1>8 DEF IInv

LEMMA ReassessIInv ==
    ASSUME IInv, TypeOK', NEW i \in Incs, NEW S \in SUBSET Tasks, Reassess(i, S)
    PROVE  IInv'
<1>1. task \in [Tasks -> TaskViews]
  BY DEF IInv, TypeOK
<1>2. \A t \in Tasks : /\ Readiness(t) \in {"ready", "blocked"}
                       /\ Readiness(t) = "ready" => DependenciesMet(t)
  BY DEF Readiness, Unblocked
<1>3. ASSUME NEW t \in Tasks
      PROVE  \/ task'[t] = task[t]
             \/ /\ task[t].status \in PreDispatch
                /\ task'[t].status = Readiness(t)
                /\ task'[t].by = task[t].by /\ task'[t].used = task[t].used
                /\ task'[t].outcome = task[t].outcome
  BY <1>1 DEF Reassess, Status, TaskViews
<1>4. Moved
  BY <1>2, <1>3 DEF Moved, PreDispatch
<1> QED BY <1>4, MovedIInv DEF Reassess

LEMMA MoveIInv ==
    ASSUME IInv, TypeOK', NEW i \in Incs, NEW t \in Tasks,
           Submit(i, t) \/ Started(i, t) \/ Cancel(i, t)
    PROVE  IInv'
<1>1. task \in [Tasks -> TaskViews]
  BY DEF IInv, TypeOK
<1>2. \A u \in Tasks \ {t} : task'[u] = task[u]
  BY <1>1 DEF Submit, Started, Cancel
<1>3. CASE Submit(i, t)
  <2>1. /\ task'[t].status = "queued" /\ task[t].status = "unsubmitted"
        /\ task'[t].by = task[t].by /\ task'[t].used = task[t].used
        /\ task'[t].outcome = task[t].outcome
    BY <1>1, <1>3 DEF Submit, Status, TaskViews
  <2>2. Moved
    BY <1>2, <2>1 DEF Moved, PreDispatch
  <2> QED BY <1>3, <2>2, MovedIInv DEF Submit
<1>4. CASE Started(i, t)
  <2>1. /\ task[t].status \in InFlight /\ task'[t].status \in InFlight
        /\ task'[t].by = task[t].by /\ task'[t].used = task[t].used
        /\ task'[t].outcome = task[t].outcome
    BY <1>1, <1>4 DEF Started, Status, TaskViews, InFlight
  <2>2. Moved
    BY <1>2, <2>1 DEF Moved
  <2> QED BY <1>4, <2>2, MovedIInv DEF Started
<1>5. CASE Cancel(i, t)
  <2>1. task'[t] = IF Dispatched(t) THEN [task[t] EXCEPT !.status = "cancelling"]
                   ELSE [task[t] EXCEPT !.status = "terminal", !.outcome = "cancelled"]
    BY <1>1, <1>5 DEF Cancel
  <2>2. /\ task'[t].by = task[t].by /\ task'[t].used = task[t].used
        /\ Dispatched(t) => /\ task'[t].status = "cancelling"
                            /\ task'[t].outcome = task[t].outcome
        /\ ~Dispatched(t) => task'[t].status = "terminal" /\ task'[t].outcome = "cancelled"
    BY <1>1, <2>1 DEF TaskViews
  <2>3. /\ Dispatched(t) => task[t].status \in InFlight
        /\ ~Dispatched(t) => task[t].status \in PreDispatch
    BY <1>5 DEF Cancel, IInv, PhaseKnown, Status
  <2>4. Moved
    BY <1>2, <2>2, <2>3 DEF Moved, InFlight
  <2> QED BY <1>5, <2>4, MovedIInv DEF Cancel
<1> QED BY <1>3, <1>4, <1>5

LEMMA RecordUsageIInv ==
    ASSUME IInv, TypeOK', NEW i \in Incs, NEW t \in Tasks, NEW delta \in 1..Budget[t],
           RecordUsage(i, t, delta)
    PROVE  IInv'
<1>1. task \in [Tasks -> TaskViews] /\ ctl \in ControlViews
  BY DEF IInv, TypeOK
<1>2. \A u \in Tasks : /\ task'[u].status = task[u].status /\ task'[u].by = task[u].by
                       /\ task'[u].outcome = task[u].outcome
                       /\ task'[u].used = task[u].used + (IF u = t THEN delta ELSE 0)
  BY <1>1, TasksAssumption DEF RecordUsage, TaskViews
<1>3. /\ ctl'.held = ctl.held
      /\ \A u \in Tasks : ctl'.used[u] = ctl.used[u] + (IF u = t THEN delta ELSE 0)
  BY <1>1, TasksAssumption DEF RecordUsage, ControlViews
<1>4. UNCHANGED <<alloc, consumed, grant, lease>>
  BY DEF RecordUsage
<1>5. \A u \in Tasks : /\ Dispatched(u) <=> Dispatched(u)'
                       /\ DependenciesMet(u) <=> DependenciesMet(u)'
  <2>1. \A u \in Tasks : DependsOn[u] \subseteq Tasks
    BY TasksAssumption
  <2>2. \A u \in Tasks : task'[u].by = task[u].by /\ task'[u].outcome = task[u].outcome
    BY <1>2
  <2> QED BY <2>1, <2>2 DEF Dispatched, DependenciesMet
<1>6. PhaseKnown'
  BY <1>2, <1>5 DEF IInv, PhaseKnown, Status
<1>7. StreamsAgree'
  BY <1>2, <1>3, <1>4 DEF IInv, StreamsAgree
<1>8. FlightIsBacked'
  BY <1>2, <1>4 DEF IInv, FlightIsBacked, Status
<1>9. GrantsMatched' /\ DependenciesFirst'
  BY <1>4, <1>5 DEF IInv, GrantsMatched, DependenciesFirst, DependenciesMet
<1> QED BY <1>6, <1>7, <1>8, <1>9 DEF IInv

\* What the end or the suspension of a dispatch does to its task: the capacity is
\* given up or, when the task is only suspended, kept; an active lease ends.
Ended(t, status) ==
    /\ \A u \in Tasks \ {t} : task'[u] = task[u] /\ lease'[u] = lease[u]
    /\ task'[t].status = status
    /\ task'[t].by = task[t].by /\ task'[t].used = task[t].used
    /\ lease'[t] # "active"
    /\ ctl'.used = ctl.used
    /\ \/ alloc' = alloc \ {t} /\ ctl'.held = ctl.held \ {t}
       \/ status = "reconciling" /\ alloc' = alloc /\ ctl'.held = ctl.held
    /\ UNCHANGED <<consumed, grant>>

LEMMA EndedIInv ==
    ASSUME IInv, TypeOK', NEW t \in Tasks, NEW status \in {"terminal", "reconciling"},
           Status(t) # "terminal", Dispatched(t), Ended(t, status),
           status = "reconciling" => task'[t].outcome = task[t].outcome
    PROVE  IInv'
<1>1. task[t].outcome # "completed"
  BY DEF IInv, PhaseKnown
<1>2. \A u \in Tasks : Dispatched(u) <=> Dispatched(u)'
  BY DEF Ended, Dispatched
<1>3. \A u \in Tasks : task[u].outcome = "completed" => task'[u].outcome = "completed"
  BY <1>1 DEF Ended
<1>4. \A u \in Tasks : DependenciesMet(u) => DependenciesMet(u)'
  <2>1. \A u \in Tasks : DependsOn[u] \subseteq Tasks
    BY TasksAssumption
  <2> QED BY <1>3, <2>1 DEF DependenciesMet
<1>5. PhaseKnown'
  <2>1. ASSUME NEW u \in Tasks \ {t} PROVE PhaseKnown!(u)'
    BY <1>2, <1>4 DEF IInv, PhaseKnown, Ended, Status
  <2>2. PhaseKnown!(t)'
    BY <1>1, <1>2 DEF Ended, Status, InFlight, PreDispatch
  <2> QED BY <2>1, <2>2 DEF PhaseKnown
<1>6. StreamsAgree'
  BY DEF IInv, StreamsAgree, Ended
<1>7. FlightIsBacked'
  BY DEF IInv, FlightIsBacked, Ended, Status, InFlight
<1>8. GrantsMatched'
  BY <1>2 DEF IInv, GrantsMatched, Ended
<1>9. DependenciesFirst'
  BY <1>2, <1>4 DEF IInv, DependenciesFirst, DependenciesMet
<1> QED BY <1>5, <1>6, <1>7, <1>8, <1>9 DEF IInv

LEMMA SettleEnds ==
    ASSUME TypeOK, NEW i \in Incs, NEW t \in Tasks, NEW outcome \in Outcomes,
           NEW how \in {"released", "reconciled"}, Settle(i, t, outcome, how)
    PROVE  Ended(t, "terminal") /\ t \in alloc
<1>1. task \in [Tasks -> TaskViews] /\ ctl \in ControlViews
  BY DEF TypeOK
<1>2. /\ \A u \in Tasks \ {t} : task'[u] = task[u]
      /\ task'[t] = [task[t] EXCEPT !.status = "terminal", !.outcome = outcome]
  BY <1>1 DEF Settle
<1>3. task'[t].status = "terminal" /\ task'[t].by = task[t].by /\ task'[t].used = task[t].used
  BY <1>1, <1>2 DEF TaskViews
<1>4. lease'[t] # "active" /\ \A u \in Tasks \ {t} : lease'[u] = lease[u]
  BY DEF Settle, EndLease, TypeOK
<1>5. Released(t).used = ctl.used /\ Released(t).held = ctl.held \ {t}
  BY <1>1 DEF Released, ControlViews
<1> QED BY <1>2, <1>3, <1>4, <1>5 DEF Ended, Settle, Release, Releasable

LEMMA SuspendEnds ==
    ASSUME TypeOK, NEW i \in Incs, NEW t \in Tasks, NEW how \in {"expired", "reconciled"},
           Suspend(i, t, how, Release(t)) \/ Suspend(i, t, how, Retain)
    PROVE  /\ Ended(t, "reconciling") /\ task'[t].outcome = task[t].outcome
           /\ Suspend(i, t, how, Retain) \/ (t \in alloc /\ alloc' = alloc \ {t})
<1>1. task \in [Tasks -> TaskViews] /\ ctl \in ControlViews
  BY DEF TypeOK
<1>2. /\ \A u \in Tasks \ {t} : task'[u] = task[u]
      /\ task'[t] = [task[t] EXCEPT !.status = "reconciling"]
  BY <1>1 DEF Suspend
<1>3. /\ task'[t].status = "reconciling" /\ task'[t].by = task[t].by
      /\ task'[t].used = task[t].used /\ task'[t].outcome = task[t].outcome
  BY <1>1, <1>2 DEF TaskViews
<1>4. lease'[t] # "active" /\ \A u \in Tasks \ {t} : lease'[u] = lease[u]
  BY DEF Suspend, EndLease, TypeOK
<1>5. Released(t).used = ctl.used /\ Released(t).held = ctl.held \ {t}
  BY <1>1 DEF Released, ControlViews
<1> QED BY <1>2, <1>3, <1>4, <1>5 DEF Ended, Suspend, Release, Retain, Releasable

LEMMA EndIInv ==
    ASSUME IInv, TypeOK', NEW i \in Incs, NEW t \in Tasks,
           \/ \E outcome \in Outcomes : \/ Complete(i, t, outcome)
                                       \/ ResolveReconciliation(i, t, outcome)
                                       \/ RecoverSettled(i, t, outcome)
           \/ ReconcileUncertain(i, t) \/ Expire(i, t)
           \/ RecoverAlive(i, t) \/ RecoverUncertain(i, t)
    PROVE  IInv'
<1>1. TypeOK
  BY DEF IInv
<1>2. ASSUME NEW outcome \in Outcomes, NEW how \in {"released", "reconciled"},
             Settle(i, t, outcome, how)
      PROVE  IInv'
  <2>1. Status(t) # "terminal" /\ Dispatched(t)
    BY <1>2 DEF Settle
  <2> QED BY <1>1, <1>2, <2>1, SettleEnds, EndedIInv
<1>3. ASSUME NEW how \in {"expired", "reconciled"},
             Suspend(i, t, how, Release(t)) \/ Suspend(i, t, how, Retain)
      PROVE  IInv'
  <2>1. Status(t) # "terminal" /\ Dispatched(t)
    BY <1>3 DEF Suspend
  <2>2. Ended(t, "reconciling") /\ task'[t].outcome = task[t].outcome
    BY <1>1, <1>3, SuspendEnds
  <2> QED BY <2>1, <2>2, EndedIInv
<1> QED BY <1>2, <1>3 DEF Complete, ResolveReconciliation, RecoverSettled,
            ReconcileUncertain, Expire, RecoverAlive, RecoverUncertain

\* What a dispatch does, field by field.
LEMMA DispatchFacts ==
    ASSUME IInv, NEW i \in Incs, NEW t \in Tasks, Dispatch(i, t)
    PROVE  /\ Status(t) = "ready" /\ ~Dispatched(t) /\ GrantOf[t] \in Grants \ consumed
           /\ \A u \in Tasks \ {t} : task'[u] = task[u] /\ lease'[u] = lease[u]
           /\ task'[t].status = "dispatched" /\ task'[t].by # NoInc
           /\ task'[t].outcome = task[t].outcome /\ task'[t].used = task[t].used
           /\ lease'[t] = "active"
           /\ alloc' = alloc \cup {t} /\ ctl'.held = ctl.held \cup {t} /\ ctl'.used = ctl.used
           /\ consumed' = consumed \cup {GrantOf[t]}
           /\ grant'[GrantOf[t]].state = "consumed"
           /\ \A g \in Grants \ {GrantOf[t]} : grant'[g] = grant[g]
<1>1. TypeOK
  BY DEF IInv
<1>2. task \in [Tasks -> TaskViews] /\ ctl \in ControlViews /\ grant \in [Grants -> GrantViews]
  BY <1>1 DEF TypeOK
<1>3. GrantOf[t] \in Grants /\ i # NoInc
  BY TasksAssumption, NullsAssumption
<1>4. Status(t) = "ready" /\ ~Dispatched(t) /\ GrantOf[t] \notin consumed
  BY DEF Dispatch, Chosen, Fitting, IInv, PhaseKnown, PreDispatch
<1>5. /\ \A u \in Tasks \ {t} : task'[u] = task[u] /\ lease'[u] = lease[u]
      /\ task'[t] = [task[t] EXCEPT !.status = "dispatched", !.by = i, !.pressure = "none"]
      /\ lease'[t] = "active"
  BY <1>1, <1>2 DEF Dispatch, TypeOK
<1>6. /\ task'[t].status = "dispatched" /\ task'[t].by = i
      /\ task'[t].outcome = task[t].outcome /\ task'[t].used = task[t].used
  BY <1>2, <1>5 DEF TaskViews
<1>7. ctl'.held = ctl.held \cup {t} /\ ctl'.used = ctl.used
  BY <1>2 DEF Dispatch, ControlViews
<1>8. /\ grant'[GrantOf[t]].state = "consumed"
      /\ \A g \in Grants \ {GrantOf[t]} : grant'[g] = grant[g]
  BY <1>2, <1>3 DEF Dispatch, ConsumeGrant, GrantViews
<1> QED BY <1>3, <1>4, <1>5, <1>6, <1>7, <1>8 DEF Dispatch

LEMMA DispatchIInv ==
    ASSUME IInv, TypeOK', NEW i \in Incs, NEW t \in Tasks, Dispatch(i, t) PROVE IInv'
<1>1. \A u \in Tasks : DependsOn[u] \subseteq Tasks
  BY TasksAssumption
<1>2. /\ Dispatched(t)' /\ ~Dispatched(t)
      /\ \A u \in Tasks \ {t} : Dispatched(u)' <=> Dispatched(u)
  BY DispatchFacts DEF Dispatched
<1>3. \A u \in Tasks : DependenciesMet(u)' <=> DependenciesMet(u)
  <2>1. \A u \in Tasks : task'[u].outcome = task[u].outcome
    BY DispatchFacts
  <2> QED BY <1>1, <2>1 DEF DependenciesMet
<1>4. PhaseKnown'
  <2>1. \A u \in Tasks \ {t} : Status(u)' = Status(u) /\ task'[u].outcome = task[u].outcome
    BY DispatchFacts DEF Status
  <2>2. Status(t)' = "dispatched" /\ task'[t].outcome # "completed"
    BY DispatchFacts DEF IInv, PhaseKnown, Status
  <2> QED BY <1>2, <1>3, <2>1, <2>2 DEF IInv, PhaseKnown, PreDispatch
<1>5. StreamsAgree'
  <2>1. \A u \in Tasks : task'[u].used = task[u].used
    BY DispatchFacts
  <2>2. /\ alloc' = alloc \cup {t} /\ ctl'.held = ctl.held \cup {t}
        /\ ctl'.used = ctl.used
    BY DispatchFacts
  <2> QED BY <2>1, <2>2 DEF IInv, StreamsAgree
<1>6. FlightIsBacked'
  BY DispatchFacts DEF IInv, FlightIsBacked, Status, InFlight
<1>7. GrantsMatched'
  <2>1. GrantOf[t] \notin consumed /\ consumed' = consumed \cup {GrantOf[t]}
    BY DispatchFacts
  <2>2. \A g \in Grants : g \in consumed' <=> grant'[g].state = "consumed"
    BY DispatchFacts DEF IInv, GrantsMatched
  <2> QED BY <1>2, <2>1, <2>2 DEF IInv, GrantsMatched
<1>8. DependenciesFirst'
  <2>1. DependenciesMet(t)
    BY DispatchFacts DEF IInv, PhaseKnown
  <2> QED BY <1>2, <1>3, <2>1 DEF IInv, DependenciesFirst, DependenciesMet
<1> QED BY <1>4, <1>5, <1>6, <1>7, <1>8 DEF IInv

LEMMA NextIInv == IInv /\ [Next]_vars => IInv'
<1> SUFFICES ASSUME IInv, [Next]_vars PROVE IInv'
  OBVIOUS
<1>1. TypeOK'
  BY NextTypeOK DEF IInv
<1>2. CASE Environment
  BY <1>1, <1>2, EnvironmentIInv
<1>3. ASSUME NEW i \in Incs, Operation(i) PROVE IInv'
  BY <1>1, <1>3, QueueIInv, ReassessIInv, MoveIInv, RecordUsageIInv, DispatchIInv, EndIInv
     DEF Operation
<1>4. CASE UNCHANGED vars
  <2>1. SameTasks /\ SameSpent /\ UNCHANGED <<alloc, consumed, ctl, lease>>
    BY <1>4 DEF vars, SameTasks, SameSpent
  <2> QED BY <1>1, <2>1, FrameIInv
<1> QED BY <1>2, <1>3, <1>4 DEF Next

LEMMA SpecIInv == Spec => []IInv
BY InitIInv, NextIInv, PTL DEF Spec

-----------------------------------------------------------------------------
\* The scheduler and the control stream never disagree on what is held and used.
THEOREM StreamsAlwaysAgree == Spec => []StreamsAgree
<1>1. IInv => StreamsAgree BY DEF IInv
<1> QED BY SpecIInv, <1>1, PTL

\* A dispatch in flight always has its allocation and its lease.
THEOREM FlightAlwaysBacked == Spec => []FlightIsBacked
<1>1. IInv => FlightIsBacked BY DEF IInv
<1> QED BY SpecIInv, <1>1, PTL

\* A task is dispatched only after all it depends on has completed.
THEOREM DependenciesAlwaysFirst == Spec => []DependenciesFirst
<1>1. IInv => DependenciesFirst BY DEF IInv
<1> QED BY SpecIInv, <1>1, PTL

\* Every dispatch has spent a grant of its own, and every spent grant a dispatch.
THEOREM GrantsSpentOnce == Spec => []GrantSpentOnce
<1>1. IInv => GrantSpentOnce
  <2> SUFFICES ASSUME IInv PROVE GrantSpentOnce
    OBVIOUS
  <2>1. consumed = {g \in Grants : grant[g].state = "consumed"}
    BY DEF IInv, GrantsMatched, TypeOK
  <2>2. consumed = {GrantOf[t] : t \in {u \in Tasks : Dispatched(u)}}
    BY DEF IInv, GrantsMatched, TypeOK
  <2> QED BY <2>1, <2>2 DEF IInv, GrantsMatched, GrantSpentOnce
<1> QED BY SpecIInv, <1>1, PTL

-----------------------------------------------------------------------------
(* What a step may never do to a task that has ended or is in doubt.        *)

Final ==
    \A t \in Tasks :
        /\ Status(t) = "terminal" => task'[t] = task[t]
        /\ Status(t) = "reconciling" => task'[t].status \in {"reconciling", "terminal"}
        /\ Status(t) \in {"reconciling", "terminal"} /\ t \notin alloc => t \notin alloc'

LEMMA EnvironmentFinal == ASSUME Environment PROVE Final
BY DEF Environment, FenceLapses, AcquireFence, StopFence, Die, LeaseElapses, GrantExpires,
       IssueGrant, Final, Status

LEMMA QueueFinal ==
    ASSUME IInv, NEW i \in Incs,
           \/ Takeover(i) \/ SignalCancellations(i) \/ Backpressure(i)
           \/ \E S \in SUBSET Tasks : Reassess(i, S)
    PROVE  Final
<1>1. task \in [Tasks -> TaskViews]
  BY DEF IInv, TypeOK
<1>2. alloc' = alloc
  BY DEF Takeover, SignalCancellations, Backpressure, Reassess
<1>3. \A t \in Tasks : Status(t) \in {"reconciling", "terminal"} => task'[t] = task[t]
  <2>1. CASE Takeover(i)
    BY <2>1 DEF Takeover
  <2>2. CASE SignalCancellations(i)
    BY <1>1, <2>2 DEF SignalCancellations, Unsignalled
  <2>3. CASE Backpressure(i)
    BY <1>1, <2>3 DEF Backpressure
  <2>4. ASSUME NEW S \in SUBSET Tasks, Reassess(i, S)
        PROVE  \A t \in Tasks : Status(t) \in {"reconciling", "terminal"} => task'[t] = task[t]
    BY <1>1, <2>4 DEF Reassess, PreDispatch
  <2> QED BY <2>1, <2>2, <2>3, <2>4
<1> QED BY <1>2, <1>3 DEF Final, Status

LEMMA MoveFinal ==
    ASSUME IInv, NEW i \in Incs, NEW t \in Tasks,
           \/ Submit(i, t) \/ Started(i, t) \/ Cancel(i, t)
           \/ \E delta \in 1..Budget[t] : RecordUsage(i, t, delta)
    PROVE  Final
<1>1. task \in [Tasks -> TaskViews]
  BY DEF IInv, TypeOK
<1>2. alloc' = alloc /\ \A u \in Tasks \ {t} : task'[u] = task[u]
  BY <1>1 DEF Submit, Started, Cancel, RecordUsage
<1>3. CASE Submit(i, t) \/ Started(i, t) \/ Cancel(i, t)
  <2>1. Status(t) \notin {"reconciling", "terminal"}
    BY <1>3 DEF Submit, Started, Cancel, PreDispatch, InFlight
  <2> QED BY <1>2, <2>1 DEF Final, Status
<1>4. ASSUME NEW delta \in 1..Budget[t], RecordUsage(i, t, delta) PROVE Final
  <2>1. Status(t) # "terminal"
    BY <1>4 DEF RecordUsage, UsageAccepted
  <2>2. task'[t].status = task[t].status
    BY <1>1, <1>4 DEF RecordUsage, TaskViews
  <2> QED BY <1>2, <2>1, <2>2 DEF Final, Status
<1> QED BY <1>3, <1>4

LEMMA DispatchFinal == ASSUME IInv, NEW i \in Incs, NEW t \in Tasks, Dispatch(i, t) PROVE Final
BY DispatchFacts DEF Final, Status

LEMMA EndedFinal ==
    ASSUME IInv, NEW t \in Tasks, NEW status \in {"terminal", "reconciling"},
           Status(t) # "terminal", Ended(t, status)
    PROVE  Final
BY DEF Ended, Final, Status

LEMMA EndFinal ==
    ASSUME IInv, NEW i \in Incs, NEW t \in Tasks,
           \/ \E outcome \in Outcomes : \/ Complete(i, t, outcome)
                                       \/ ResolveReconciliation(i, t, outcome)
                                       \/ RecoverSettled(i, t, outcome)
           \/ ReconcileUncertain(i, t) \/ Expire(i, t)
           \/ RecoverAlive(i, t) \/ RecoverUncertain(i, t)
    PROVE  Final
<1>1. TypeOK
  BY DEF IInv
<1>2. ASSUME NEW outcome \in Outcomes, NEW how \in {"released", "reconciled"},
             Settle(i, t, outcome, how)
      PROVE  Final
  <2>1. Status(t) # "terminal" /\ Ended(t, "terminal")
    BY <1>1, <1>2, SettleEnds DEF Settle
  <2> QED BY <2>1, EndedFinal
<1>3. ASSUME NEW how \in {"expired", "reconciled"},
             Suspend(i, t, how, Release(t)) \/ Suspend(i, t, how, Retain)
      PROVE  Final
  <2>1. Status(t) # "terminal" /\ Ended(t, "reconciling")
    BY <1>1, <1>3, SuspendEnds DEF Suspend
  <2> QED BY <2>1, EndedFinal
<1> QED BY <1>2, <1>3 DEF Complete, ResolveReconciliation, RecoverSettled,
            ReconcileUncertain, Expire, RecoverAlive, RecoverUncertain

LEMMA NextFinal == IInv /\ [Next]_vars => Final
<1> SUFFICES ASSUME IInv, [Next]_vars PROVE Final
  OBVIOUS
<1>1. CASE Environment
  BY <1>1, EnvironmentFinal
<1>2. ASSUME NEW i \in Incs, Operation(i) PROVE Final
  BY <1>2, QueueFinal, MoveFinal, DispatchFinal, EndFinal DEF Operation
<1>3. CASE UNCHANGED vars
  BY <1>3 DEF vars, Final, Status
<1> QED BY <1>1, <1>2, <1>3 DEF Next

\* A dispatch that ended or is in doubt never runs again and is given no capacity again.
THEOREM NeverResurrectedHolds == Spec => NeverResurrected
<1>1. IInv /\ [Next]_vars => [Final]_vars
  BY NextFinal
<1> QED BY SpecIInv, <1>1, PTL DEF Spec, NeverResurrected, Final

-----------------------------------------------------------------------------
(* The limits.                                                              *)

\* No dispatch uses more than it reserved, so that what its release turns into
\* spent budget is no more than the reservation it gives back.
LInv == WithinLimits /\ \A t \in Tasks : ctl.used[t] <= Budget[t]

\* The counters a release leaves, field by field.
LEMMA ReleasedCounters ==
    ASSUME ctl \in ControlViews, NEW t \in Tasks, ctl' = Released(t)
    PROVE  /\ ctl'.used = ctl.used
           /\ \A k \in Kinds : ctl'.resources[k] = ctl.resources[k] - Need[t][k]
           /\ ctl'.reserved = ctl.reserved - Budget[t]
           /\ ctl'.spent = ctl.spent + ctl.used[t]
BY DEF Released, ControlViews

LEMMA ReleaseLimits ==
    ASSUME TypeOK, LInv, NEW t \in Tasks, Release(t) PROVE LInv'
<1>1. ctl \in ControlViews /\ ctl' = Released(t)
  BY DEF TypeOK, Release
<1>2. /\ Need[t] \in [Kinds -> Nat] /\ Budget \in [Tasks -> Nat]
      /\ Capacity \in [Kinds -> Nat] /\ BudgetLimit \in Nat
  BY TasksAssumption, LimitsAssumption
<1>3. /\ ctl.used \in [Tasks -> Nat] /\ ctl.resources \in [Kinds -> Int]
      /\ ctl.reserved \in Int /\ ctl.spent \in Nat
  BY <1>1 DEF ControlViews
<1>4. \A k \in Kinds : ctl'.resources[k] <= Capacity[k]
  BY <1>1, <1>2, <1>3, ReleasedCounters DEF LInv, WithinLimits
<1>5. ctl'.reserved + ctl'.spent <= BudgetLimit
  <2>1. /\ ctl.used[t] \in Nat /\ Budget[t] \in Nat /\ ctl.used[t] <= Budget[t]
        /\ ctl.reserved + ctl.spent <= BudgetLimit
    BY <1>2, <1>3 DEF LInv, WithinLimits
  <2>2. ctl'.reserved = ctl.reserved - Budget[t] /\ ctl'.spent = ctl.spent + ctl.used[t]
    BY <1>1, ReleasedCounters
  <2> QED BY <1>2, <1>3, <2>1, <2>2
<1>6. \A u \in Tasks : ctl'.used[u] <= Budget[u]
  BY <1>1, ReleasedCounters DEF LInv
<1> QED BY <1>4, <1>5, <1>6 DEF LInv, WithinLimits

LEMMA DispatchLimits ==
    ASSUME TypeOK, LInv, NEW i \in Incs, NEW t \in Tasks, Dispatch(i, t) PROVE LInv'
<1>1. ctl \in ControlViews
  BY DEF TypeOK
<1>2. /\ \A k \in Kinds : ctl.resources[k] + Need[t][k] <= Capacity[k]
      /\ ctl.reserved + ctl.spent + Budget[t] <= BudgetLimit
  BY DEF Dispatch, Chosen, Fitting, Fits, FitsResources, FitsBudget
<1>3. /\ ctl'.used = ctl.used /\ ctl'.spent = ctl.spent
      /\ ctl'.reserved = ctl.reserved + Budget[t]
      /\ \A k \in Kinds : ctl'.resources[k] = ctl.resources[k] + Need[t][k]
  BY <1>1 DEF Dispatch, ControlViews
<1>4. /\ ctl.reserved \in Int /\ ctl.spent \in Nat /\ Budget[t] \in Nat /\ BudgetLimit \in Nat
  BY <1>1, TasksAssumption, LimitsAssumption DEF ControlViews
<1>5. ctl'.reserved + ctl'.spent <= BudgetLimit
  BY <1>2, <1>3, <1>4
<1> QED BY <1>2, <1>3, <1>5 DEF LInv, WithinLimits

LEMMA UsageLimits ==
    ASSUME TypeOK, LInv, NEW i \in Incs, NEW t \in Tasks, NEW delta \in 1..Budget[t],
           RecordUsage(i, t, delta)
    PROVE  LInv'
<1>1. ctl \in ControlViews
  BY DEF TypeOK
<1>2. /\ ctl'.resources = ctl.resources /\ ctl'.reserved = ctl.reserved /\ ctl'.spent = ctl.spent
      /\ ctl'.used = [ctl.used EXCEPT ![t] = @ + delta]
  BY <1>1 DEF RecordUsage, ControlViews
<1>3. \A u \in Tasks : ctl'.used[u] <= Budget[u]
  BY <1>1, <1>2 DEF RecordUsage, UsageAccepted, LInv, ControlViews
<1> QED BY <1>2, <1>3 DEF LInv, WithinLimits

LEMMA NextLimits == IInv /\ LInv /\ [Next]_vars => LInv'
<1> SUFFICES ASSUME IInv, LInv, [Next]_vars PROVE LInv'
  OBVIOUS
<1>0. TypeOK
  BY DEF IInv
<1>1. CASE ctl' = ctl
  BY <1>1 DEF LInv, WithinLimits
<1>2. CASE Environment
  BY <1>1, <1>2 DEF Environment, FenceLapses, AcquireFence, StopFence, Die, LeaseElapses,
       GrantExpires, IssueGrant
<1>3. ASSUME NEW i \in Incs, Operation(i) PROVE LInv'
  <2>1. CASE \/ Takeover(i) \/ SignalCancellations(i) \/ Backpressure(i)
             \/ \E S \in SUBSET Tasks : Reassess(i, S)
    BY <1>1, <2>1 DEF Takeover, SignalCancellations, Backpressure, Reassess
  <2>2. ASSUME NEW t \in Tasks, Submit(i, t) \/ Started(i, t) \/ Cancel(i, t) PROVE LInv'
    BY <1>1, <2>2 DEF Submit, Started, Cancel
  <2>3. ASSUME NEW t \in Tasks, NEW outcome \in Outcomes,
               \/ Complete(i, t, outcome) \/ ResolveReconciliation(i, t, outcome)
               \/ RecoverSettled(i, t, outcome)
        PROVE  LInv'
    BY <1>0, <2>3, ReleaseLimits DEF Complete, ResolveReconciliation, RecoverSettled, Settle
  <2>4. ASSUME NEW t \in Tasks,
               \/ ReconcileUncertain(i, t) \/ Expire(i, t)
               \/ RecoverAlive(i, t) \/ RecoverUncertain(i, t)
        PROVE  LInv'
    <3>1. Release(t) \/ Retain
      BY <2>4 DEF ReconcileUncertain, Expire, RecoverAlive, RecoverUncertain, Suspend
    <3> QED BY <1>0, <1>1, <3>1, ReleaseLimits DEF Retain
  <2> QED BY <1>0, <1>3, <2>1, <2>2, <2>3, <2>4, DispatchLimits, UsageLimits DEF Operation
<1> QED BY <1>1, <1>2, <1>3 DEF Next, vars

\* The resources and the budget dispatched never exceed their limits: the bound of
\* LimitsRespected, without the equalities of the counters with sums over tasks.
THEOREM LimitsAreKept == Spec => []WithinLimits
<1>1. Init => LInv
  BY TasksAssumption, LimitsAssumption DEF Init, LInv, WithinLimits
<1>2. LInv => WithinLimits
  BY DEF LInv
<1> QED BY <1>1, <1>2, NextLimits, SpecIInv, PTL DEF Spec

-----------------------------------------------------------------------------
(* Sums over finite sets. *)

\* Induction over the subsets of a finite set, for a set of subsets.
LEMMA SubsetInduction ==
    ASSUME NEW S, IsFiniteSet(S), NEW P,
           \A T \in SUBSET S : (\A U \in SUBSET T : U # T => U \in P) => T \in P
    PROVE  \A T \in SUBSET S : T \in P
<1> DEFINE R == StrictSubsetOrdering(S)
           B == {T \in SUBSET S : T \notin P}
<1>1. IsWellFoundedOn(R, FiniteSubsetsOf(S))
  BY FS_StrictSubsetOrderingWellFounded
<1>2. B \subseteq FiniteSubsetsOf(S)
  BY FS_Subset DEF FiniteSubsetsOf
<1>3. SUFFICES ASSUME B # {} PROVE FALSE
  OBVIOUS
<1>4. PICK T \in B : \A U \in B : ~(<<U, T>> \in R)
  <2> HIDE DEF B, R
  <2> QED BY <1>1, <1>2, <1>3, WFMin
<1>5. ASSUME NEW U \in SUBSET T, U # T PROVE U \in P
  <2>1. U \in SUBSET S /\ <<U, T>> \in R
    BY <1>5 DEF StrictSubsetOrdering
  <2> QED BY <1>4, <2>1
<1> QED BY <1>4, <1>5

Pick(s) == CHOOSE x \in s : TRUE
SumEqs(g, f, S) ==
    g = [s \in SUBSET S |-> IF s = {} THEN 0 ELSE f[Pick(s)] + g[s \ {Pick(s)}]]

LEMMA Picked == ASSUME NEW s, s # {} PROVE Pick(s) \in s
BY DEF Pick

LEMMA SumIsChosen ==
    ASSUME NEW f, NEW S PROVE SumFunctionOnSet(f, S) = (CHOOSE g : SumEqs(g, f, S))[S]
BY DEF SumFunctionOnSet, FoldFunctionOnSet, MapThenFoldSet, SumEqs, Pick

\* What satisfies the equations for two sets is the same on what they share.
LEMMA SumIsUnique ==
    ASSUME NEW S, IsFiniteSet(S), NEW f, NEW g, NEW h, NEW T, NEW U,
           S \subseteq T, S \subseteq U, SumEqs(g, f, T), SumEqs(h, f, U)
    PROVE  g[S] = h[S]
<1> DEFINE P == {s \in SUBSET S : g[s] = h[s]}
<1>1. ASSUME NEW s \in SUBSET S, \A r \in SUBSET s : r # s => r \in P PROVE s \in P
  <2>1. g[s] = IF s = {} THEN 0 ELSE f[Pick(s)] + g[s \ {Pick(s)}]
    BY Zenon DEF SumEqs
  <2>2. h[s] = IF s = {} THEN 0 ELSE f[Pick(s)] + h[s \ {Pick(s)}]
    BY Zenon DEF SumEqs
  <2>3. s # {} => g[s \ {Pick(s)}] = h[s \ {Pick(s)}]
    BY <1>1, Picked
  <2> QED BY <2>1, <2>2, <2>3
<1>2. S \in P
  <2> HIDE DEF P
  <2> QED BY <1>1, SubsetInduction
<1> QED BY <1>2

LEMMA SumExists ==
    ASSUME NEW S, IsFiniteSet(S), NEW f PROVE \E g : SumEqs(g, f, S)
<1> DEFINE P == {T \in SUBSET S : \E g : SumEqs(g, f, T)}
           G(U) == CHOOSE g : SumEqs(g, f, U)
           V(U) == IF U = {} THEN 0 ELSE f[Pick(U)] + G(U \ {Pick(U)})[U \ {Pick(U)}]
<1>1. ASSUME NEW T \in SUBSET S, \A U \in SUBSET T : U # T => U \in P PROVE T \in P
  <2> DEFINE g == [s \in SUBSET T |-> V(s)]
  <2>1. ASSUME NEW U \in SUBSET T, U # T PROVE SumEqs(G(U), f, U)
    BY <1>1, <2>1
  <2>2. ASSUME NEW s \in SUBSET T, s # {} PROVE V(s) = f[Pick(s)] + g[s \ {Pick(s)}]
    <3> DEFINE r == s \ {Pick(s)}
               q == r \ {Pick(r)}
    <3>1. r \in SUBSET T /\ r # T /\ q \in SUBSET r /\ q # T
      BY <2>2, Picked
    <3>2. SumEqs(G(r), f, r) /\ SumEqs(G(q), f, q)
      BY <2>1, <3>1
    <3>3. IsFiniteSet(q)
      BY <3>1, FS_Subset
    <3>4. G(r)[q] = G(q)[q]
      <4> HIDE DEF G, q, r
      <4> QED BY <3>1, <3>2, <3>3, SumIsUnique
    <3>5. G(r)[r] = IF r = {} THEN 0 ELSE f[Pick(r)] + G(r)[q]
      <4> HIDE DEF G, r
      <4> QED BY <3>2, Zenon DEF SumEqs
    <3>6. V(r) = IF r = {} THEN 0 ELSE f[Pick(r)] + G(q)[q]
      OBVIOUS
    <3>7. V(s) = f[Pick(s)] + G(r)[r]
      BY <2>2
    <3>8. g[r] = V(r)
      <4> HIDE DEF V, r
      <4> QED BY <3>1
    <3> HIDE DEF G, V, q, r
    <3>9. V(s) = f[Pick(s)] + g[r]
      BY <3>4, <3>5, <3>6, <3>7, <3>8
    <3> QED BY <3>9 DEF r
  <2>3. \A s \in SUBSET T : V(s) = IF s = {} THEN 0 ELSE f[Pick(s)] + g[s \ {Pick(s)}]
    <3>1. V({}) = 0
      OBVIOUS
    <3> HIDE DEF V, g
    <3> QED BY <2>2, <3>1
  <2>4. SumEqs(g, f, T)
    <3>1. g = [s \in SUBSET T |-> V(s)]
      OBVIOUS
    <3> HIDE DEF V, g
    <3> QED BY <2>3, <3>1, Zenon DEF SumEqs
  <2> HIDE DEF g
  <2> QED BY <2>4
<1> HIDE DEF P
<1>2. S \in P
  BY <1>1, SubsetInduction
<1> QED BY <1>2 DEF P

LEMMA SumOf ==
    ASSUME NEW S, IsFiniteSet(S), NEW f, NEW T, NEW g, SumEqs(g, f, T), S \subseteq T
    PROVE  SumFunctionOnSet(f, S) = g[S]
<1>1. SumEqs(CHOOSE h : SumEqs(h, f, S), f, S)
  BY SumExists
<1> QED BY <1>1, SumIsChosen, SumIsUnique

\* A sum is that of any one element and that of the rest.
LEMMA SumTakesOut ==
    ASSUME NEW S, IsFiniteSet(S), NEW f, \A x \in S : f[x] \in Int
    PROVE  /\ SumFunctionOnSet(f, S) \in Int
           /\ S = {} => SumFunctionOnSet(f, S) = 0
           /\ \A y \in S : SumFunctionOnSet(f, S) = f[y] + SumFunctionOnSet(f, S \ {y})
<1>1. PICK g : SumEqs(g, f, S)
  BY SumExists
<1>2. \A s \in SUBSET S : g[s] = IF s = {} THEN 0 ELSE f[Pick(s)] + g[s \ {Pick(s)}]
  BY <1>1, Zenon DEF SumEqs
<1> DEFINE P == {s \in SUBSET S : g[s] \in Int /\ \A y \in s : g[s] = f[y] + g[s \ {y}]}
<1>3. ASSUME NEW s \in SUBSET S, \A r \in SUBSET s : r # s => r \in P PROVE s \in P
  <2>1. CASE s = {}
    <3>1. g[s] = 0
      BY <1>2, <2>1
    <3> QED BY <2>1, <3>1
  <2>2. CASE s # {}
    <3> DEFINE x == Pick(s)
    <3>1. x \in s /\ s \ {x} \in P /\ f[x] \in Int
      BY <1>3, <2>2, Picked
    <3>2. g[s] = f[x] + g[s \ {x}] /\ g[s \ {x}] \in Int
      BY <1>2, <2>2, <3>1
    <3>3. ASSUME NEW y \in s, y # x PROVE g[s] = f[y] + g[s \ {y}]
      <4> HIDE DEF x
      <4> DEFINE r == (s \ {x}) \ {y}
      <4>0. (s \ {y}) \ {x} = r
        OBVIOUS
      <4>1. /\ g[s \ {x}] = f[y] + g[r]
            /\ s \ {y} \in P /\ x \in s \ {y}
        BY <1>3, <3>1, <3>3
      <4>2. g[s \ {y}] = f[x] + g[r]
        BY <4>0, <4>1
      <4>3. f[y] \in Int /\ r \in P
        BY <1>3
      <4>4. g[r] \in Int
        BY <4>3
      <4> HIDE DEF P, r
      <4> QED BY <3>1, <3>2, <4>1, <4>2, <4>3, <4>4
    <3>4. \A y \in s : g[s] = f[y] + g[s \ {y}]
      BY <3>2, <3>3
    <3>5. g[s] \in Int
      BY <3>1, <3>2
    <3> QED BY <3>4, <3>5
  <2> QED BY <2>1, <2>2
<1>4. S \in P
  <2> HIDE DEF P
  <2> QED BY <1>3, SubsetInduction
<1>5. \A s \in SUBSET S : SumFunctionOnSet(f, s) = g[s]
  BY <1>1, SumOf, FS_Subset
<1> QED BY <1>2, <1>4, <1>5

\* A sum is a matter of what the function is on the set.
LEMMA SumIsOfValues ==
    ASSUME NEW S, IsFiniteSet(S), NEW f, NEW h, \A x \in S : f[x] = h[x]
    PROVE  SumFunctionOnSet(f, S) = SumFunctionOnSet(h, S)
<1>1. PICK g : SumEqs(g, f, S)
  BY SumExists
<1>2. [s \in SUBSET S |-> IF s = {} THEN 0 ELSE f[Pick(s)] + g[s \ {Pick(s)}]]
          = [s \in SUBSET S |-> IF s = {} THEN 0 ELSE h[Pick(s)] + g[s \ {Pick(s)}]]
  BY Picked
<1>3. SumEqs(g, h, S)
  BY <1>1, <1>2, Zenon DEF SumEqs
<1> QED BY <1>1, <1>3, SumOf
-----------------------------------------------------------------------------
(* The counters of the control stream are sums over the tasks.              *)

NeedOf(k) == [t \in Tasks |-> Need[t][k]]
UsedBy == [t \in Tasks |-> task[t].used]
CountersMatch ==
    /\ \A k \in Kinds : ctl.resources[k] = SumFunctionOnSet(NeedOf(k), alloc)
    /\ ctl.reserved = SumFunctionOnSet(Budget, alloc)
    /\ ctl.spent = SumFunctionOnSet(UsedBy, Tasks \ alloc)
\* A task has used nothing before its dispatch, so that its dispatch takes nothing out
\* of what was spent.
NothingUsedBefore == \A t \in Tasks : ~Dispatched(t) => task[t].used = 0
SInv == CountersMatch /\ NothingUsedBefore

\* What a sum over tasks loses with one of them.
LEMMA TasksSum ==
    ASSUME IsFiniteSet(Tasks), NEW f \in [Tasks -> Nat], NEW S \in SUBSET Tasks
    PROVE  /\ SumFunctionOnSet(f, S) \in Int
           /\ S = {} => SumFunctionOnSet(f, S) = 0
           /\ \A t \in S : SumFunctionOnSet(f, S) = f[t] + SumFunctionOnSet(f, S \ {t})
<1>1. IsFiniteSet(S)
  BY FS_Subset
<1>2. \A t \in S : f[t] \in Int
  OBVIOUS
<1> QED BY <1>1, <1>2, SumTakesOut

LEMMA TaskFunctions ==
    ASSUME TypeOK
    PROVE  /\ \A k \in Kinds : NeedOf(k) \in [Tasks -> Nat]
           /\ \A k \in Kinds : \A t \in Tasks : NeedOf(k)[t] = Need[t][k]
           /\ Budget \in [Tasks -> Nat]
           /\ UsedBy \in [Tasks -> Nat] /\ \A t \in Tasks : UsedBy[t] = task[t].used
BY TasksAssumption DEF NeedOf, UsedBy, TypeOK, TaskViews

\* A step that leaves allocations, counters and usage alone, and ends no dispatch.
LEMMA FrameSums ==
    ASSUME SInv, alloc' = alloc, ctl' = ctl,
           \A t \in Tasks : task'[t].used = task[t].used /\ (Dispatched(t) => Dispatched(t)')
    PROVE  SInv'
<1>1. UsedBy' = UsedBy
  BY DEF UsedBy
<1>2. CountersMatch'
  BY <1>1 DEF SInv, CountersMatch
<1>3. NothingUsedBefore'
  BY DEF SInv, NothingUsedBefore
<1> QED BY <1>2, <1>3 DEF SInv

LEMMA ReleaseSums ==
    ASSUME TypeOK, TypeOK', StreamsAgree, SInv, IsFiniteSet(Tasks), NEW t \in Tasks, Release(t),
           \A u \in Tasks : task'[u].used = task[u].used /\ (Dispatched(u) => Dispatched(u)')
    PROVE  SInv'
<1>1. /\ t \in alloc /\ alloc' = alloc \ {t} /\ alloc \subseteq Tasks
      /\ ctl \in ControlViews /\ ctl' = Released(t) /\ ctl.used[t] = task[t].used
  BY DEF Release, Releasable, TypeOK
<1>2. /\ \A k \in Kinds : ctl'.resources[k] = ctl.resources[k] - Need[t][k]
      /\ ctl'.reserved = ctl.reserved - Budget[t]
      /\ ctl'.spent = ctl.spent + task[t].used
  BY <1>1, ReleasedCounters
<1>3. UsedBy' = UsedBy
  BY DEF UsedBy
<1>4. ASSUME NEW k \in Kinds PROVE ctl'.resources[k] = SumFunctionOnSet(NeedOf(k), alloc')
  <2>1. NeedOf(k) \in [Tasks -> Nat] /\ NeedOf(k)[t] = Need[t][k] /\ Need[t][k] \in Nat
    BY TaskFunctions, TasksAssumption
  <2>2. /\ SumFunctionOnSet(NeedOf(k), alloc) = NeedOf(k)[t] + SumFunctionOnSet(NeedOf(k), alloc')
        /\ SumFunctionOnSet(NeedOf(k), alloc') \in Int
    BY <1>1, <2>1, TasksSum
  <2> QED BY <1>2, <2>1, <2>2 DEF SInv, CountersMatch
<1>5. ctl'.reserved = SumFunctionOnSet(Budget, alloc')
  <2>1. Budget \in [Tasks -> Nat] /\ Budget[t] \in Nat
    BY TaskFunctions
  <2>2. /\ SumFunctionOnSet(Budget, alloc) = Budget[t] + SumFunctionOnSet(Budget, alloc')
        /\ SumFunctionOnSet(Budget, alloc') \in Int
    BY <1>1, <2>1, TasksSum
  <2> QED BY <1>2, <2>1, <2>2 DEF SInv, CountersMatch
<1>6. ctl'.spent = SumFunctionOnSet(UsedBy, Tasks \ alloc')
  <2>1. UsedBy \in [Tasks -> Nat] /\ UsedBy[t] = task[t].used /\ task[t].used \in Nat
    BY TaskFunctions DEF TypeOK, TaskViews
  <2>2. t \in Tasks \ alloc' /\ (Tasks \ alloc') \ {t} = Tasks \ alloc
    BY <1>1
  <2>3. /\ SumFunctionOnSet(UsedBy, Tasks \ alloc')
              = UsedBy[t] + SumFunctionOnSet(UsedBy, (Tasks \ alloc') \ {t})
        /\ SumFunctionOnSet(UsedBy, Tasks \ alloc) \in Int
    BY <2>1, <2>2, TasksSum
  <2>4. SumFunctionOnSet(UsedBy, Tasks \ alloc')
              = task[t].used + SumFunctionOnSet(UsedBy, Tasks \ alloc)
    BY <2>1, <2>2, <2>3
  <2> QED BY <1>2, <2>1, <2>3, <2>4 DEF SInv, CountersMatch
<1>7. CountersMatch'
  <2> SUFFICES /\ \A k \in Kinds : ctl'.resources[k] = SumFunctionOnSet(NeedOf(k), alloc')
               /\ ctl'.reserved = SumFunctionOnSet(Budget, alloc')
               /\ ctl'.spent = SumFunctionOnSet(UsedBy', Tasks \ alloc')
    BY DEF CountersMatch, NeedOf
  <2> QED BY <1>3, <1>4, <1>5, <1>6
<1>8. NothingUsedBefore'
  BY DEF SInv, NothingUsedBefore
<1> QED BY <1>7, <1>8 DEF SInv

LEMMA DispatchSums ==
    ASSUME IInv, SInv, IsFiniteSet(Tasks), NEW i \in Incs, NEW t \in Tasks, Dispatch(i, t)
    PROVE  SInv'
<1>0. TypeOK
  BY DEF IInv
<1>1. /\ t \notin alloc /\ alloc' = alloc \cup {t} /\ alloc \subseteq Tasks /\ ctl \in ControlViews
      /\ ~Dispatched(t)
  BY <1>0 DEF Dispatch, TypeOK, IInv, PhaseKnown, Chosen, Fitting, PreDispatch
<1>2. /\ ctl'.spent = ctl.spent /\ ctl'.reserved = ctl.reserved + Budget[t]
      /\ \A k \in Kinds : ctl'.resources[k] = ctl.resources[k] + Need[t][k]
  BY <1>1 DEF Dispatch, ControlViews
<1>3. /\ \A u \in Tasks : task'[u].used = task[u].used
      /\ \A u \in Tasks : Dispatched(u) => Dispatched(u)'
  BY <1>0, NullsAssumption DEF Dispatch, Dispatched, TypeOK, TaskViews
<1>4. UsedBy' = UsedBy
  BY <1>3 DEF UsedBy
<1>5. ASSUME NEW k \in Kinds PROVE ctl'.resources[k] = SumFunctionOnSet(NeedOf(k), alloc')
  <2>1. NeedOf(k) \in [Tasks -> Nat] /\ NeedOf(k)[t] = Need[t][k] /\ Need[t][k] \in Nat
    BY <1>0, TaskFunctions, TasksAssumption
  <2>2. t \in alloc' /\ alloc' \ {t} = alloc /\ alloc' \subseteq Tasks
    BY <1>1
  <2>3. /\ SumFunctionOnSet(NeedOf(k), alloc')
              = NeedOf(k)[t] + SumFunctionOnSet(NeedOf(k), alloc' \ {t})
        /\ SumFunctionOnSet(NeedOf(k), alloc) \in Int
    BY <1>1, <2>1, <2>2, TasksSum
  <2>4. SumFunctionOnSet(NeedOf(k), alloc') = Need[t][k] + SumFunctionOnSet(NeedOf(k), alloc)
    BY <2>1, <2>2, <2>3
  <2>5. ctl.resources[k] = SumFunctionOnSet(NeedOf(k), alloc)
    BY DEF SInv, CountersMatch
  <2> QED BY <1>2, <2>1, <2>3, <2>4, <2>5
<1>6. ctl'.reserved = SumFunctionOnSet(Budget, alloc')
  <2>1. Budget \in [Tasks -> Nat] /\ Budget[t] \in Nat
    BY <1>0, TaskFunctions
  <2>2. t \in alloc' /\ alloc' \ {t} = alloc /\ alloc' \subseteq Tasks
    BY <1>1
  <2>3. /\ SumFunctionOnSet(Budget, alloc') = Budget[t] + SumFunctionOnSet(Budget, alloc' \ {t})
        /\ SumFunctionOnSet(Budget, alloc) \in Int
    BY <1>1, <2>1, <2>2, TasksSum
  <2> QED BY <1>2, <2>1, <2>2, <2>3 DEF SInv, CountersMatch
<1>7. ctl'.spent = SumFunctionOnSet(UsedBy, Tasks \ alloc')
  <2>1. UsedBy \in [Tasks -> Nat] /\ UsedBy[t] = 0
    BY <1>0, <1>1, TaskFunctions DEF SInv, NothingUsedBefore
  <2>2. /\ t \in Tasks \ alloc /\ (Tasks \ alloc) \ {t} = Tasks \ alloc'
        /\ Tasks \ alloc \in SUBSET Tasks /\ Tasks \ alloc' \in SUBSET Tasks
    BY <1>1
  <2>3. /\ SumFunctionOnSet(UsedBy, Tasks \ alloc)
              = UsedBy[t] + SumFunctionOnSet(UsedBy, (Tasks \ alloc) \ {t})
        /\ SumFunctionOnSet(UsedBy, Tasks \ alloc') \in Int
    BY <2>1, <2>2, TasksSum
  <2>4. SumFunctionOnSet(UsedBy, Tasks \ alloc) = SumFunctionOnSet(UsedBy, Tasks \ alloc')
    BY <2>1, <2>2, <2>3
  <2> QED BY <1>2, <2>4 DEF SInv, CountersMatch
<1>8. CountersMatch'
  <2> SUFFICES /\ \A k \in Kinds : ctl'.resources[k] = SumFunctionOnSet(NeedOf(k), alloc')
               /\ ctl'.reserved = SumFunctionOnSet(Budget, alloc')
               /\ ctl'.spent = SumFunctionOnSet(UsedBy', Tasks \ alloc')
    BY DEF CountersMatch, NeedOf
  <2> QED BY <1>4, <1>5, <1>6, <1>7
<1>9. NothingUsedBefore'
  BY <1>3 DEF SInv, NothingUsedBefore
<1> QED BY <1>8, <1>9 DEF SInv

LEMMA UsageSums ==
    ASSUME IInv, SInv, IsFiniteSet(Tasks), NEW i \in Incs, NEW t \in Tasks,
           NEW delta \in 1..Budget[t], RecordUsage(i, t, delta)
    PROVE  SInv'
<1>1. /\ ctl'.resources = ctl.resources /\ ctl'.reserved = ctl.reserved /\ ctl'.spent = ctl.spent
      /\ alloc' = alloc /\ t \in alloc /\ Dispatched(t)
  BY DEF RecordUsage, UsageAccepted, IInv, TypeOK, ControlViews, StreamsAgree
<1>2. /\ \A u \in Tasks \ {t} : task'[u].used = task[u].used
      /\ \A u \in Tasks : task'[u].by = task[u].by
  BY DEF RecordUsage, IInv, TypeOK, TaskViews
<1>3. SumFunctionOnSet(UsedBy', Tasks \ alloc) = SumFunctionOnSet(UsedBy, Tasks \ alloc)
  <2>1. IsFiniteSet(Tasks \ alloc)
    BY FS_Subset
  <2>2. \A u \in Tasks \ alloc : UsedBy'[u] = UsedBy[u]
    BY <1>1, <1>2 DEF UsedBy
  <2> DEFINE f == UsedBy'
             h == UsedBy
  <2>3. \A u \in Tasks \ alloc : f[u] = h[u]
    BY <2>2
  <2> HIDE DEF f, h
  <2>4. SumFunctionOnSet(f, Tasks \ alloc) = SumFunctionOnSet(h, Tasks \ alloc)
    BY <2>1, <2>3, SumIsOfValues
  <2> QED BY <2>4 DEF f, h
<1>4. CountersMatch'
  BY <1>1, <1>3 DEF SInv, CountersMatch, NeedOf
<1>5. NothingUsedBefore'
  BY <1>1, <1>2 DEF SInv, NothingUsedBefore, Dispatched
<1> QED BY <1>4, <1>5 DEF SInv

LEMMA NextSums ==
    ASSUME IsFiniteSet(Tasks), IInv, IInv', SInv, [Next]_vars PROVE SInv'
<1>0. TypeOK /\ TypeOK' /\ StreamsAgree
  BY DEF IInv
<1>1. CASE task' = task /\ alloc' = alloc /\ ctl' = ctl
  BY <1>1, FrameSums DEF Dispatched
<1>2. CASE Environment
  BY <1>1, <1>2 DEF Environment, FenceLapses, AcquireFence, StopFence, Die, LeaseElapses,
       GrantExpires, IssueGrant
<1>3. ASSUME NEW i \in Incs, Operation(i) PROVE SInv'
  <2>1. CASE Takeover(i)
    BY <1>1, <2>1 DEF Takeover
  <2>2. CASE \/ SignalCancellations(i) \/ Backpressure(i)
             \/ \E S \in SUBSET Tasks : Reassess(i, S)
    <3>0. \A t \in Tasks : task[t] \in TaskViews
      BY <1>0 DEF TypeOK
    <3>1. \A t \in Tasks : task'[t].used = task[t].used /\ task'[t].by = task[t].by
      <4>1. CASE SignalCancellations(i)
        BY <3>0, <4>1 DEF SignalCancellations, TaskViews
      <4>2. CASE Backpressure(i)
        BY <3>0, <4>2 DEF Backpressure, TaskViews
      <4>3. ASSUME NEW S \in SUBSET Tasks, Reassess(i, S)
            PROVE  \A t \in Tasks : task'[t].used = task[t].used /\ task'[t].by = task[t].by
        BY <3>0, <4>3 DEF Reassess, TaskViews
      <4> QED BY <2>2, <4>1, <4>2, <4>3
    <3> QED BY <2>2, <3>1, FrameSums DEF SignalCancellations, Backpressure, Reassess, Dispatched
  <2>3. ASSUME NEW t \in Tasks, Submit(i, t) \/ Started(i, t) \/ Cancel(i, t) PROVE SInv'
    <3>0. task \in [Tasks -> TaskViews]
      BY <1>0 DEF TypeOK
    <3>1. \A u \in Tasks : task'[u].used = task[u].used /\ task'[u].by = task[u].by
      <4>1. CASE Submit(i, t)
        BY <3>0, <4>1 DEF Submit, TaskViews
      <4>2. CASE Started(i, t)
        BY <3>0, <4>2 DEF Started, TaskViews
      <4>3. CASE Cancel(i, t)
        BY <3>0, <4>3 DEF Cancel, TaskViews
      <4> QED BY <2>3, <4>1, <4>2, <4>3
    <3> QED BY <2>3, <3>1, FrameSums DEF Submit, Started, Cancel, Dispatched
  <2>4. ASSUME NEW t \in Tasks, NEW outcome \in Outcomes,
               \/ Complete(i, t, outcome) \/ ResolveReconciliation(i, t, outcome)
               \/ RecoverSettled(i, t, outcome)
        PROVE  SInv'
    <3>1. /\ Release(t)
          /\ task' = [task EXCEPT ![t] = [task[t] EXCEPT !.status = "terminal", !.outcome = outcome]]
      BY <2>4 DEF Complete, ResolveReconciliation, RecoverSettled, Settle
    <3>2. \A u \in Tasks : task'[u].used = task[u].used /\ task'[u].by = task[u].by
      BY <1>0, <3>1 DEF TypeOK, TaskViews
    <3> QED BY <1>0, <3>1, <3>2, ReleaseSums DEF Dispatched
  <2>5. ASSUME NEW t \in Tasks,
               \/ ReconcileUncertain(i, t) \/ Expire(i, t)
               \/ RecoverAlive(i, t) \/ RecoverUncertain(i, t)
        PROVE  SInv'
    <3>1. /\ Release(t) \/ Retain
          /\ task' = [task EXCEPT ![t] = [task[t] EXCEPT !.status = "reconciling"]]
      BY <2>5 DEF ReconcileUncertain, Expire, RecoverAlive, RecoverUncertain, Suspend
    <3>2. \A u \in Tasks : task'[u].used = task[u].used /\ task'[u].by = task[u].by
      BY <1>0, <3>1 DEF TypeOK, TaskViews
    <3> QED BY <1>0, <3>1, <3>2, ReleaseSums, FrameSums DEF Dispatched, Retain
  <2> QED BY <1>3, <2>1, <2>2, <2>3, <2>4, <2>5, DispatchSums, UsageSums DEF Operation
<1> QED BY <1>1, <1>2, <1>3 DEF Next, vars

LEMMA InitSums == ASSUME IsFiniteSet(Tasks), Init PROVE SInv
<1>0. TypeOK
  BY InitTypeOK
<1>1. alloc = {} /\ ctl.reserved = 0 /\ ctl.spent = 0 /\ \A k \in Kinds : ctl.resources[k] = 0
  BY DEF Init
<1>2. /\ SumFunctionOnSet(Budget, alloc) = 0
      /\ \A k \in Kinds : SumFunctionOnSet(NeedOf(k), alloc) = 0
  BY <1>0, <1>1, TasksSum, TaskFunctions
<1>3. SumFunctionOnSet(UsedBy, Tasks \ alloc) = 0
  <2>1. \A t \in Tasks : UsedBy[t] = 0
    BY DEF Init, UsedBy
  <2>2. UsedBy \in [Tasks -> Nat]
    BY <1>0, TaskFunctions
  <2> DEFINE P == {S \in SUBSET Tasks : SumFunctionOnSet(UsedBy, S) = 0}
  <2>3. ASSUME NEW S \in SUBSET Tasks, \A R \in SUBSET S : R # S => R \in P PROVE S \in P
    <3>1. CASE S = {}
      <4>1. SumFunctionOnSet(UsedBy, S) = 0
        BY <2>2, <3>1, TasksSum
      <4> QED BY <4>1
    <3>2. CASE S # {}
      <4>1. PICK t \in S : TRUE
        BY <3>2
      <4>2. SumFunctionOnSet(UsedBy, S) = UsedBy[t] + SumFunctionOnSet(UsedBy, S \ {t})
        BY <2>2, TasksSum
      <4>3. S \ {t} \in P
        BY <2>3
      <4>4. SumFunctionOnSet(UsedBy, S) = 0
        BY <2>1, <4>2, <4>3
      <4> QED BY <4>4
    <3> QED BY <3>1, <3>2
  <2>4. Tasks \in P
    <3> HIDE DEF P
    <3> QED BY <2>3, SubsetInduction
  <2>5. Tasks \ alloc = Tasks
    BY <1>1
  <2> QED BY <2>4, <2>5
<1>4. NothingUsedBefore
  BY DEF Init, NothingUsedBefore
<1> QED BY <1>1, <1>2, <1>3, <1>4 DEF SInv, CountersMatch

\* What is out and what was spent is, to the unit, what the tasks hold and have used, and
\* it is within the limits: every release gives back what its dispatch took, once, on every
\* path out of a flight (projectGlobalControl), for any finite number of tasks.
THEOREM LimitsAlwaysRespected ==
    ASSUME IsFiniteSet(Tasks) PROVE Spec => []LimitsRespected
<1>1. Init => SInv
  BY InitSums
<1>2. IInv /\ IInv' /\ SInv /\ [Next]_vars => SInv'
  BY NextSums
<1>3. SInv /\ WithinLimits => LimitsRespected
  BY DEF SInv, CountersMatch, LimitsRespected, NeedOf, UsedBy
<1> QED BY <1>1, <1>2, <1>3, SpecIInv, LimitsAreKept, PTL DEF Spec

-----------------------------------------------------------------------------
(* The durable scheduler implements the contract of its tasks.  A step of   *)
(* the scheduler changes the phase of at most one task; most change none.   *)

phases == [t \in Tasks |-> Phase(t)]

LEMMA PhaseOf ==
    ASSUME NEW t \in Tasks
    PROVE  /\ Status(t) \in PreDispatch \cup {"unsubmitted"} => Phase(t) = "waiting"
           /\ Status(t) \in InFlight => Phase(t) = "inFlight"
           /\ Status(t) = "reconciling" => Phase(t) = "inDoubt"
           /\ Status(t) = "terminal" => Phase(t) = "ended"
BY DEF Phase, PreDispatch, InFlight

LEMMA PhaseOfNext ==
    ASSUME NEW t \in Tasks
    PROVE  /\ task'[t].status \in PreDispatch \cup {"unsubmitted"} => Phase(t)' = "waiting"
           /\ task'[t].status \in InFlight => Phase(t)' = "inFlight"
           /\ task'[t].status = "reconciling" => Phase(t)' = "inDoubt"
           /\ task'[t].status = "terminal" => Phase(t)' = "ended"
BY DEF Phase, PreDispatch, InFlight, Status

\* A step that changes the status of no task but t.
LEMMA PhaseMoves ==
    ASSUME NEW t \in Tasks, \A u \in Tasks \ {t} : task'[u].status = task[u].status
    PROVE  phases' = [phases EXCEPT ![t] = Phase(t)']
<1>1. \A u \in Tasks \ {t} : Phase(u)' = Phase(u)
  BY DEF Phase, Status
<1> QED BY <1>1 DEF phases

LEMMA PhaseStays ==
    ASSUME \A t \in Tasks : Phase(t)' = Phase(t), alloc' = alloc
    PROVE  UNCHANGED Contract!vars
<1>1. phases' = phases
  BY DEF phases
<1> QED BY <1>1 DEF phases, Contract!vars

ContractStep == [Contract!Next]_Contract!vars

\* A step that leaves every task in its group of states, and the allocations alone.
LEMMA GroupStays ==
    ASSUME alloc' = alloc,
           \A t \in Tasks :
               \/ task'[t].status = task[t].status
               \/ /\ task[t].status \in PreDispatch \cup {"unsubmitted"}
                  /\ task'[t].status \in PreDispatch \cup {"unsubmitted"}
               \/ task[t].status \in InFlight /\ task'[t].status \in InFlight
    PROVE  ContractStep
<1>1. ASSUME NEW t \in Tasks PROVE Phase(t)' = Phase(t)
  <2>1. CASE task'[t].status = task[t].status
    BY <2>1 DEF Phase, Status
  <2>2. CASE task'[t].status # task[t].status
    BY <2>2, PhaseOf, PhaseOfNext DEF Status
  <2> QED BY <2>1, <2>2
<1> QED BY <1>1, PhaseStays DEF ContractStep

LEMMA EnvironmentContract == ASSUME Environment PROVE ContractStep
<1>1. alloc' = alloc /\ task' = task
  BY DEF Environment, FenceLapses, AcquireFence, StopFence, Die, LeaseElapses, GrantExpires,
         IssueGrant
<1> QED BY <1>1, GroupStays

LEMMA QueueContract ==
    ASSUME IInv, NEW i \in Incs,
           \/ Takeover(i) \/ SignalCancellations(i) \/ Backpressure(i)
           \/ \E S \in SUBSET Tasks : Reassess(i, S)
    PROVE  ContractStep
<1>1. task \in [Tasks -> TaskViews]
  BY DEF IInv, TypeOK
<1>2. alloc' = alloc
  BY DEF Takeover, SignalCancellations, Backpressure, Reassess
<1>3. CASE Takeover(i) \/ SignalCancellations(i) \/ Backpressure(i)
  <2>1. \A t \in Tasks : task'[t].status = task[t].status
    <3>1. CASE Takeover(i)
      BY <3>1 DEF Takeover
    <3>2. CASE SignalCancellations(i)
      BY <1>1, <3>2 DEF SignalCancellations, TaskViews
    <3>3. CASE Backpressure(i)
      BY <1>1, <3>3 DEF Backpressure, TaskViews
    <3> QED BY <1>3, <3>1, <3>2, <3>3
  <2> QED BY <1>2, <2>1, GroupStays
<1>4. ASSUME NEW S \in SUBSET Tasks, Reassess(i, S) PROVE ContractStep
  <2>1. \A t \in Tasks : Readiness(t) \in PreDispatch
    BY DEF Readiness, PreDispatch
  <2>2. ASSUME NEW t \in Tasks
        PROVE  \/ task'[t] = task[t]
               \/ task[t].status \in PreDispatch /\ task'[t].status = Readiness(t)
    <3>1. task'[t] = IF t \in S /\ Status(t) # Readiness(t)
                     THEN [task[t] EXCEPT !.status = Readiness(t), !.pressure = "none"]
                     ELSE task[t]
      BY <1>4 DEF Reassess
    <3>2. [task[t] EXCEPT !.status = Readiness(t), !.pressure = "none"].status = Readiness(t)
      BY <1>1 DEF TaskViews
    <3>3. t \in S => task[t].status \in PreDispatch
      BY <1>4 DEF Reassess, Status
    <3> QED BY <3>1, <3>2, <3>3
  <2> QED BY <1>2, <2>1, <2>2, GroupStays
<1> QED BY <1>3, <1>4

LEMMA MoveContract ==
    ASSUME IInv, NEW i \in Incs, NEW t \in Tasks,
           \/ Submit(i, t) \/ Started(i, t) \/ Cancel(i, t)
           \/ \E delta \in 1..Budget[t] : RecordUsage(i, t, delta)
    PROVE  ContractStep
<1>1. task \in [Tasks -> TaskViews]
  BY DEF IInv, TypeOK
<1>2. alloc' = alloc /\ \A u \in Tasks \ {t} : task'[u] = task[u]
  BY <1>1 DEF Submit, Started, Cancel, RecordUsage
<1>3. CASE Submit(i, t)
  <2>1. task[t].status = "unsubmitted" /\ task'[t].status = "queued"
    BY <1>1, <1>3 DEF Submit, Status, TaskViews
  <2> QED BY <1>2, <2>1, GroupStays DEF PreDispatch
<1>4. CASE Started(i, t)
  <2>1. task[t].status \in InFlight /\ task'[t].status \in InFlight
    BY <1>1, <1>4 DEF Started, Status, TaskViews, InFlight
  <2> QED BY <1>2, <2>1, GroupStays
<1>5. CASE Cancel(i, t) /\ Dispatched(t)
  <2>1. task[t].status \in InFlight
    BY <1>5 DEF Cancel, IInv, PhaseKnown, Status
  <2>2. task'[t] = [task[t] EXCEPT !.status = "cancelling"]
    BY <1>1, <1>5 DEF Cancel
  <2>3. task'[t].status = "cancelling"
    BY <1>1, <2>2 DEF TaskViews
  <2> QED BY <1>2, <2>1, <2>3, GroupStays DEF InFlight
<1>6. CASE Cancel(i, t) /\ ~Dispatched(t)
  <2>1. task[t].status \in PreDispatch
    BY <1>6 DEF Cancel, IInv, PhaseKnown, Status
  <2>2. task'[t] = [task[t] EXCEPT !.status = "terminal", !.outcome = "cancelled"]
    BY <1>1, <1>6 DEF Cancel
  <2>3. task'[t].status = "terminal"
    BY <1>1, <2>2 DEF TaskViews
  <2>4. Phase(t) = "waiting" /\ Phase(t)' = "ended"
    BY <2>1, <2>3, PhaseOf, PhaseOfNext DEF Status
  <2>5. Contract!Withdraw(t)
    BY <1>2, <2>4, PhaseMoves DEF Contract!Withdraw, Contract!Move, phases
  <2> QED BY <2>5 DEF ContractStep, Contract!Next
<1>7. ASSUME NEW delta \in 1..Budget[t], RecordUsage(i, t, delta) PROVE ContractStep
  <2>1. task'[t].status = task[t].status
    BY <1>1, <1>7 DEF RecordUsage, TaskViews
  <2> QED BY <1>2, <2>1, GroupStays
<1> QED BY <1>3, <1>4, <1>5, <1>6, <1>7

LEMMA DispatchContract ==
    ASSUME IInv, NEW i \in Incs, NEW t \in Tasks, Dispatch(i, t) PROVE ContractStep
<1>1. /\ \A u \in Tasks \ {t} : task'[u].status = task[u].status
      /\ Status(t) = "ready" /\ task'[t].status = "dispatched"
      /\ alloc' = alloc \cup {t}
  BY DispatchFacts
<1>2. Phase(t) = "waiting" /\ Phase(t)' = "inFlight"
  BY <1>1, PhaseOf, PhaseOfNext DEF PreDispatch, InFlight
<1>3. Contract!Dispatch(t)
  BY <1>1, <1>2, PhaseMoves DEF Contract!Dispatch, Contract!Move, phases
<1> QED BY <1>3 DEF ContractStep, Contract!Next

\* A dispatched task that has not ended is in flight or in doubt.
LEMMA OpenPhase ==
    ASSUME IInv, NEW t \in Tasks, Dispatched(t), Status(t) # "terminal"
    PROVE  /\ Phase(t) \in {"inFlight", "inDoubt"}
           /\ Status(t) \in InFlight => Phase(t) = "inFlight"
<1>1. Status(t) \in InFlight \cup {"reconciling"}
  BY DEF IInv, TypeOK, TaskViews, PhaseKnown, Status
<1> QED BY <1>1, PhaseOf

LEMMA SettleContract ==
    ASSUME IInv, NEW i \in Incs, NEW t \in Tasks, NEW outcome \in Outcomes,
           NEW how \in {"released", "reconciled"}, Settle(i, t, outcome, how)
    PROVE  ContractStep
<1>1. Ended(t, "terminal") /\ t \in alloc
  BY SettleEnds DEF IInv
<1>2. Phase(t) \in {"inFlight", "inDoubt"} /\ Phase(t)' = "ended"
  BY <1>1, OpenPhase, PhaseOfNext DEF Settle, Ended
<1>3. phases' = [phases EXCEPT ![t] = "ended"] /\ alloc' = alloc \ {t}
  BY <1>1, <1>2, PhaseMoves DEF Ended
<1>4. Contract!End(t)
  BY <1>1, <1>2, <1>3 DEF Contract!End, Contract!Move, phases
<1> QED BY <1>4 DEF ContractStep, Contract!Next

LEMMA SuspendContract ==
    ASSUME IInv, NEW i \in Incs, NEW t \in Tasks, NEW how \in {"expired", "reconciled"},
           \/ Suspend(i, t, how, Retain)
           \/ Suspend(i, t, how, Release(t)) /\ Status(t) \in InFlight
    PROVE  ContractStep
<1>1. Ended(t, "reconciling") /\ (alloc' = alloc \/ alloc' = alloc \ {t})
  BY SuspendEnds DEF IInv, Ended
<1>2. /\ Phase(t) \in {"inFlight", "inDoubt"} /\ Phase(t)' = "inDoubt"
      /\ Phase(t) = "inFlight" \/ alloc' = alloc
  BY <1>1, OpenPhase, PhaseOfNext DEF Suspend, Retain, Ended
<1>3. phases' = [phases EXCEPT ![t] = "inDoubt"]
  BY <1>1, <1>2, PhaseMoves DEF Ended
<1>4. Contract!Doubt(t)
  BY <1>1, <1>2, <1>3 DEF Contract!Doubt, Contract!Move, phases
<1> QED BY <1>4 DEF ContractStep, Contract!Next

LEMMA EndContract ==
    ASSUME IInv, NEW i \in Incs, NEW t \in Tasks,
           \/ \E outcome \in Outcomes : \/ Complete(i, t, outcome)
                                       \/ ResolveReconciliation(i, t, outcome)
                                       \/ RecoverSettled(i, t, outcome)
           \/ ReconcileUncertain(i, t) \/ Expire(i, t)
           \/ RecoverAlive(i, t) \/ RecoverUncertain(i, t)
    PROVE  ContractStep
BY SettleContract, SuspendContract
   DEF Complete, ResolveReconciliation, RecoverSettled, ReconcileUncertain, Expire,
       RecoverAlive, RecoverUncertain, Stale

LEMMA NextContract == IInv /\ [Next]_vars => [Contract!Next]_Contract!vars
<1> SUFFICES ASSUME IInv, [Next]_vars PROVE ContractStep
  BY DEF ContractStep
<1>1. CASE Environment
  BY <1>1, EnvironmentContract
<1>2. ASSUME NEW i \in Incs, Operation(i) PROVE ContractStep
  BY <1>2, QueueContract, MoveContract, DispatchContract, EndContract DEF Operation
<1>3. CASE UNCHANGED vars
  BY <1>3, GroupStays DEF vars
<1> QED BY <1>1, <1>2, <1>3 DEF Next

\* The durable scheduler implements the contract of its tasks.
THEOREM SchedulerImplementsContract == Spec => ImplementsContract
<1>1. Init => Contract!Init
  <2> SUFFICES ASSUME Init PROVE Contract!Init
    OBVIOUS
  <2>1. \A t \in Tasks : Status(t) = "unsubmitted"
    BY DEF Init, Status
  <2>2. \A t \in Tasks : Phase(t) = "waiting"
    BY <2>1, PhaseOf
  <2> QED BY <2>2 DEF Init, Contract!Init
<1> QED BY <1>1, SpecIInv, NextContract, PTL DEF Spec, ImplementsContract, Contract!Spec

LEMMA ContractHolds == Contract!HeldInFlight /\ [Contract!Next]_Contract!vars => Contract!HeldInFlight'
<1> SUFFICES ASSUME Contract!HeldInFlight, [Contract!Next]_Contract!vars PROVE Contract!HeldInFlight'
  OBVIOUS
<1>1. \A t \in Tasks : /\ phases[t] = "inFlight" => t \in alloc
                       /\ t \in alloc => phases[t] \in {"inFlight", "inDoubt"}
  BY DEF Contract!HeldInFlight, phases
<1>2. SUFFICES \A u \in Tasks : /\ phases'[u] = "inFlight" => u \in alloc'
                                /\ u \in alloc' => phases'[u] \in {"inFlight", "inDoubt"}
  BY DEF Contract!HeldInFlight, phases
<1>3. phases \in [Tasks -> {Phase(t) : t \in Tasks}]
  BY DEF phases
<1>4. CASE UNCHANGED Contract!vars
  <2>1. phases' = phases /\ alloc' = alloc
    BY <1>4 DEF Contract!vars, phases
  <2> QED BY <1>1, <2>1
<1>5. ASSUME NEW t \in Tasks,
             Contract!Withdraw(t) \/ Contract!Dispatch(t) \/ Contract!Doubt(t) \/ Contract!End(t)
      PROVE  \A u \in Tasks : /\ phases'[u] = "inFlight" => u \in alloc'
                              /\ u \in alloc' => phases'[u] \in {"inFlight", "inDoubt"}
  <2>1. CASE Contract!Withdraw(t)
    <3>1. phases[t] = "waiting" /\ phases' = [phases EXCEPT ![t] = "ended"] /\ alloc' = alloc
      BY <2>1 DEF Contract!Withdraw, Contract!Move, phases
    <3> QED BY <1>1, <1>3, <3>1
  <2>2. CASE Contract!Dispatch(t)
    <3>1. phases' = [phases EXCEPT ![t] = "inFlight"] /\ alloc' = alloc \union {t}
      BY <2>2 DEF Contract!Dispatch, Contract!Move, phases
    <3> QED BY <1>1, <1>3, <3>1
  <2>3. CASE Contract!Doubt(t)
    <3>1. /\ phases[t] \in {"inFlight", "inDoubt"} /\ phases' = [phases EXCEPT ![t] = "inDoubt"]
          /\ alloc' = alloc \/ alloc' = alloc \ {t}
      BY <2>3 DEF Contract!Doubt, Contract!Move, phases
    <3> QED BY <1>1, <1>3, <3>1
  <2>4. CASE Contract!End(t)
    <3>1. phases' = [phases EXCEPT ![t] = "ended"] /\ alloc' = alloc \ {t}
      BY <2>4 DEF Contract!End, Contract!Move, phases
    <3> QED BY <1>1, <1>3, <3>1
  <2> QED BY <1>5, <2>1, <2>2, <2>3, <2>4
<1> QED BY <1>4, <1>5 DEF Contract!Next

\* What implements the contract keeps capacity with the tasks in flight, for any tasks.
THEOREM CapacityFollowsFlight == ImplementsContract => []Contract!HeldInFlight
<1>1. Contract!Init => Contract!HeldInFlight
  BY DEF Contract!Init, Contract!HeldInFlight
<1> QED BY <1>1, ContractHolds, PTL DEF ImplementsContract, Contract!Spec

-----------------------------------------------------------------------------
(* The inductive invariant of the process, beside that of the scheduler.    *)

Recovered == Synchronous \cup {"idle", "await", "spawned"}

VolatileTypes ==
    /\ scenario \in Scenarios
    /\ inc \in Incs \cup {NoInc} /\ pc \in PCs
    /\ busy \in Tasks \cup {NoTask} /\ nested \in BOOLEAN
    /\ todo \in Seq(Tasks)
    /\ exec \subseteq Tasks /\ timedOut \subseteq Tasks /\ exceeded \subseteq Tasks
    /\ stopping \in BOOLEAN
    /\ worker \in [Tasks -> {"none", "alive", "exited"}]
    /\ killed \subseteq Tasks /\ presumed \subseteq Tasks

\* Where the process is tells what it holds in memory.
ProcessOK ==
    /\ inc = NoInc <=> pc = "down"
    /\ inc \notin dead
    /\ pc = "down" => busy = NoTask /\ exec = {}
    /\ busy # NoTask => /\ pc \in {"idle", "await", "spawned"}
                        /\ Status(busy) = "queued" \/ (busy \in exec /\ worker[busy] = "exited")
    /\ Awaiting => todo # <<>>
    /\ todo # <<>> => \/ pc \in {"select", "start", "await", "spawned"}
                      \/ pc \in {"tick", "signal"} /\ nested

\* A dispatch, its incarnation and its process.
OwnersOK ==
    /\ \A t \in Tasks : task[t].by \in dead \cup {inc, NoInc}
    /\ \A t \in Tasks : worker[t] # "none" => Dispatched(t)
    /\ pc \in Recovered => \A t \in Tasks : Status(t) \in InFlight => task[t].by = inc
    /\ \A t \in exec : task[t].by = inc /\ worker[t] # "none"
    /\ \A t \in Tasks : task[t].by = inc /\ worker[t] = "alive"
            => t \in exec \/ (pc = "spawned" /\ t = Head(todo))

\* The intents of this run: of this process, still in flight, and not started.
TodoOK ==
    /\ \A m, n \in 1..Len(todo) : todo[m] = todo[n] => m = n
    /\ \A n \in 1..Len(todo) :
         /\ Status(todo[n]) \in {"dispatched", "cancelling"} /\ task[todo[n]].by = inc
         /\ todo[n] \notin exec
         /\ worker[todo[n]] = "none" \/ (n = 1 /\ pc = "spawned")
    /\ pc = "spawned" => worker[Head(todo)] # "none"

\* A ps that cannot be asked is the one thing that hides a live worker.
KnownOK == ~May("ps") => KnownWorkerHoldsCapacity

DInv == VolatileTypes /\ ProcessOK /\ OwnersOK /\ TodoOK /\ KnownOK

-----------------------------------------------------------------------------
(* Every step of the process is one of the durable scheduler.               *)

LEMMA HeadOfTodo ==
    ASSUME todo \in Seq(Tasks), todo # <<>>
    PROVE  /\ Head(todo) \in Tasks /\ Head(todo) = todo[1] /\ Len(todo) \in Nat /\ Len(todo) >= 1
           /\ Tail(todo) \in Seq(Tasks) /\ Len(Tail(todo)) = Len(todo) - 1
           /\ \A n \in 1..Len(Tail(todo)) : Tail(todo)[n] = todo[n + 1]
BY HeadTailProperties, LenProperties, EmptySeq

\* The daemon that is up is an incarnation that lives.
LEMMA UpIsAlive ==
    ASSUME VolatileTypes, ProcessOK
    PROVE  /\ pc # "down" => inc \in Incs /\ inc \notin dead
           /\ busy # NoTask \/ exec # {} => pc # "down"
BY DEF VolatileTypes, ProcessOK

LEMMA OperationIsNext ==
    ASSUME NEW i \in Incs, i \notin dead, NEW t \in Tasks,
           \/ Takeover(i) \/ SignalCancellations(i) \/ Backpressure(i)
           \/ \E S \in SUBSET Tasks : Reassess(i, S)
           \/ Submit(i, t) \/ Dispatch(i, t) \/ Started(i, t) \/ Cancel(i, t)
           \/ \E delta \in 1..Budget[t] : RecordUsage(i, t, delta)
           \/ \E outcome \in Outcomes :
                Complete(i, t, outcome) \/ ResolveReconciliation(i, t, outcome)
                  \/ RecoverSettled(i, t, outcome)
           \/ ReconcileUncertain(i, t) \/ Expire(i, t)
           \/ RecoverAlive(i, t) \/ RecoverUncertain(i, t)
    PROVE  Next
BY DEF Next, Operation

LEMMA LoopOperationIsNext ==
    ASSUME NEW i \in Incs, i \notin dead,
           \/ Takeover(i) \/ SignalCancellations(i) \/ Backpressure(i)
           \/ \E S \in SUBSET Tasks : Reassess(i, S)
    PROVE  Next
BY DEF Next, Operation

\* One unit of usage is at most the budget.
LEMMA UsageIsNext ==
    ASSUME TypeOK, NEW i \in Incs, i \notin dead, NEW t \in Tasks, RecordUsage(i, t, 1)
    PROVE  Next
<1>1. task[t].used \in Nat /\ Budget[t] \in Nat /\ task[t].used + 1 <= Budget[t]
  BY TasksAssumption DEF TypeOK, TaskViews, RecordUsage, UsageAccepted
<1>2. 1 \in 1..Budget[t]
  BY <1>1
<1> QED BY <1>2, OperationIsNext

LEMMA LoopIsScheduler ==
    ASSUME IInv, DInv, LoopStep PROVE [Next]_vars
<1>0. VolatileTypes /\ ProcessOK /\ TypeOK
  BY DEF IInv, DInv
<1>1. CASE BootAcquire
  BY <1>0, <1>1, UpIsAlive DEF BootAcquire, Next, Environment
<1>2. CASE BootTakeover \/ TickReadiness \/ TickSignals \/ TickPressure
  <2>1. inc \in Incs /\ inc \notin dead
    BY <1>0, <1>2, UpIsAlive DEF BootTakeover, TickReadiness, TickSignals, TickPressure
  <2> QED BY <1>2, <2>1, LoopOperationIsNext
          DEF BootTakeover, TickReadiness, TickSignals, TickPressure
<1>3. ASSUME NEW t \in Tasks, RecoverTask(t) \/ ExpireOne(t) \/ TickDispatch(t) PROVE Next
  <2>1. inc \in Incs /\ inc \notin dead
    BY <1>0, <1>3, UpIsAlive DEF RecoverTask, ExpireOne, TickDispatch
  <2> QED BY <1>3, <2>1, OperationIsNext DEF RecoverTask, ExpireOne, TickDispatch, Outcomes
<1>4. CASE RecoverDone \/ RunLoop \/ ExpireDone \/ TickNoSignal \/ AbortRun \/ StartDone \/ StartAwait
  BY <1>4 DEF RecoverDone, RunLoop, ExpireDone, TickNoSignal, AbortRun, StartDone, StartAwait
<1>5. CASE StartLate \/ StartRefused \/ StartObserved
  <2>1. inc \in Incs /\ inc \notin dead /\ Head(todo) \in Tasks
    BY <1>0, <1>5, UpIsAlive, HeadOfTodo
       DEF StartLate, StartRefused, StartObserved, VolatileTypes, ProcessOK, Awaiting
  <2> QED BY <1>5, <2>1, OperationIsNext DEF StartLate, StartRefused, StartObserved, Outcomes
<1> QED BY <1>1, <1>2, <1>3, <1>4, <1>5 DEF LoopStep

LEMMA CallIsScheduler ==
    ASSUME IInv, DInv, NEW t \in Tasks,
           \/ Deadline(t) \/ HeartbeatFails(t) \/ WorkerExits(t) \/ UsageReceived(t)
           \/ Settles(t) \/ SubmitCall(t) \/ SubmitReady(t) \/ CancelCall(t) \/ ResolveCall(t)
    PROVE  [Next]_vars
<1>0. VolatileTypes /\ ProcessOK /\ TypeOK
  BY DEF IInv, DInv
<1>1. CASE Deadline(t) \/ HeartbeatFails(t) \/ WorkerExits(t) \/ CompletionIgnored(t)
  BY <1>1 DEF Deadline, HeartbeatFails, WorkerExits, CompletionIgnored
<1>2. CASE UsageReceived(t) \/ CompletionUsage(t)
  <2>1. inc \in Incs /\ inc \notin dead
    BY <1>0, <1>2, UpIsAlive DEF UsageReceived, CompletionUsage, Completing, EventLoopFree, Awaiting
  <2> QED BY <1>0, <1>2, <2>1, UsageIsNext DEF UsageReceived, CompletionUsage
<1>3. CASE CompletionSettles(t) \/ CompletionUncertain(t)
  <2>1. inc \in Incs /\ inc \notin dead
    BY <1>0, <1>3, UpIsAlive, NullsAssumption DEF CompletionSettles, CompletionUncertain, Completing
  <2>2. Results(t) \subseteq Outcomes
    BY DEF Results, Outcomes
  <2> QED BY <1>3, <2>1, <2>2, OperationIsNext DEF CompletionSettles, CompletionUncertain
<1>4. CASE SubmitCall(t) \/ CancelCall(t) \/ ResolveCall(t)
  <2>1. inc \in Incs /\ inc \notin dead
    BY <1>0, <1>4, UpIsAlive DEF SubmitCall, CancelCall, ResolveCall, EventLoopFree, Awaiting
  <2> QED BY <1>4, <2>1, OperationIsNext DEF SubmitCall, CancelCall, ResolveCall, Outcomes
<1>5. CASE SubmitReady(t)
  <2>1. inc \in Incs /\ inc \notin dead
    BY <1>0, <1>5, UpIsAlive, NullsAssumption DEF SubmitReady
  <2> QED BY <1>5, <2>1, LoopOperationIsNext DEF SubmitReady
<1> QED BY <1>1, <1>2, <1>3, <1>4, <1>5 DEF Settles

LEMMA StepIsScheduler ==
    ASSUME IInv, DInv, [DaemonNext]_daemonVars PROVE [Next]_vars
<1>0. VolatileTypes /\ ProcessOK /\ TypeOK
  BY DEF IInv, DInv
<1>1. CASE UNCHANGED daemonVars
  BY <1>1 DEF daemonVars
<1>2. CASE (\E i \in Incs : Boot(i)) \/ Spawn \/ RenewalFails \/ Shutdown
  BY <1>2 DEF Boot, Spawn, RenewalFails, Shutdown
<1>3. CASE ShutdownReleases \/ Crash
  <2>1. inc \in Incs
    BY <1>0, <1>3, UpIsAlive DEF ShutdownReleases, Crash, EventLoopFree, Awaiting, VolatileTypes
  <2> QED BY <1>3, <2>1 DEF ShutdownReleases, Crash, Next, Environment
<1>4. CASE Elapse
  BY <1>0, <1>4, ScenariosAssumption DEF Elapse, Next, Environment, VolatileTypes
<1> QED BY <1>1, <1>2, <1>3, <1>4, LoopIsScheduler, CallIsScheduler DEF DaemonNext

-----------------------------------------------------------------------------
(* What the transactions do to the fields of a task that DInv reads.        *)

Waiting == PreDispatch \cup {"unsubmitted"}

\* A step that dispatches, starts and ends nothing as far as u is concerned.
Calm(u) ==
    /\ task'[u].by = task[u].by /\ task'[u].worker = task[u].worker
    /\ u \in alloc => u \in alloc'
    /\ \/ task'[u].status = task[u].status
       \/ task[u].status \in Waiting /\ task'[u].status \in Waiting \cup {"terminal"}
       \/ task[u].status \in InFlight /\ task'[u].status = "cancelling"

LEMMA HostCalm ==
    ASSUME UNCHANGED task, UNCHANGED alloc PROVE \A u \in Tasks : Calm(u)
BY DEF Calm

LEMMA EnvironmentCalm ==
    ASSUME Environment PROVE \A u \in Tasks : Calm(u)
BY HostCalm DEF Environment, FenceLapses, AcquireFence, StopFence, Die, LeaseElapses, GrantExpires,
       IssueGrant

LEMMA QueueCalm ==
    ASSUME TypeOK, NEW i \in Incs,
           \/ Takeover(i) \/ SignalCancellations(i) \/ Backpressure(i)
           \/ \E S \in SUBSET Tasks : Reassess(i, S)
    PROVE  /\ \A u \in Tasks : Calm(u)
           /\ dead' = dead
<1>1. task \in [Tasks -> TaskViews]
  BY DEF TypeOK
<1>2. CASE Takeover(i)
  BY <1>2, HostCalm DEF Takeover
<1>3. CASE SignalCancellations(i)
  BY <1>1, <1>3 DEF SignalCancellations, TaskViews, Calm
<1>4. CASE Backpressure(i)
  BY <1>1, <1>4 DEF Backpressure, TaskViews, Calm
<1>5. ASSUME NEW S \in SUBSET Tasks, Reassess(i, S)
      PROVE  (\A u \in Tasks : Calm(u)) /\ dead' = dead
  <2>1. \A u \in Tasks : Readiness(u) \in Waiting
    BY DEF Readiness, Waiting, PreDispatch
  <2>2. ASSUME NEW u \in Tasks PROVE Calm(u)
    <3>1. task'[u] = IF u \in S /\ Status(u) # Readiness(u)
                     THEN [task[u] EXCEPT !.status = Readiness(u), !.pressure = "none"]
                     ELSE task[u]
      BY <1>5 DEF Reassess
    <3>2. u \in S => task[u].status \in Waiting
      BY <1>5 DEF Reassess, Waiting, Status
    <3>3. CASE task'[u] = task[u]
      BY <1>5, <3>3 DEF Reassess, Calm
    <3>4. CASE u \in S /\ task'[u] = [task[u] EXCEPT !.status = Readiness(u), !.pressure = "none"]
      <4>1. /\ task'[u].status = Readiness(u) /\ task'[u].by = task[u].by
            /\ task'[u].worker = task[u].worker
        BY <1>1, <3>4 DEF TaskViews
      <4> QED BY <1>5, <2>1, <3>2, <3>4, <4>1 DEF Reassess, Calm
    <3> QED BY <3>1, <3>3, <3>4
  <2> QED BY <1>5, <2>2 DEF Reassess
<1> QED BY <1>2, <1>3, <1>4, <1>5 DEF Takeover, SignalCancellations, Backpressure

LEMMA SubmitCalm ==
    ASSUME TypeOK, NEW i \in Incs, NEW t \in Tasks, Submit(i, t)
    PROVE  /\ \A u \in Tasks : Calm(u)
           /\ dead' = dead
           /\ task[t].status = "unsubmitted" /\ task'[t].status = "queued"
<1>1. /\ task \in [Tasks -> TaskViews] /\ alloc' = alloc /\ dead' = dead
      /\ \A u \in Tasks \ {t} : task'[u] = task[u]
      /\ task'[t] = [task[t] EXCEPT !.status = "queued"] /\ task[t].status = "unsubmitted"
  BY DEF TypeOK, Submit, Status
<1>2. /\ task'[t].status = "queued" /\ task'[t].by = task[t].by
      /\ task'[t].worker = task[t].worker
  BY <1>1 DEF TaskViews
<1> QED BY <1>1, <1>2 DEF Calm, Waiting, PreDispatch

LEMMA UsageCalm ==
    ASSUME TypeOK, NEW i \in Incs, NEW t \in Tasks, RecordUsage(i, t, 1)
    PROVE  /\ \A u \in Tasks : Calm(u) /\ task'[u].status = task[u].status
           /\ dead' = dead
<1>1. /\ task \in [Tasks -> TaskViews] /\ alloc' = alloc /\ dead' = dead
      /\ \A u \in Tasks \ {t} : task'[u] = task[u]
      /\ task'[t] = [task[t] EXCEPT !.used = @ + 1]
  BY DEF TypeOK, RecordUsage
<1>2. /\ task'[t].status = task[t].status /\ task'[t].by = task[t].by
      /\ task'[t].worker = task[t].worker
  BY <1>1 DEF TaskViews
<1> QED BY <1>1, <1>2 DEF Calm

LEMMA CancelCalm ==
    ASSUME IInv, NEW i \in Incs, NEW t \in Tasks, Cancel(i, t)
    PROVE  /\ \A u \in Tasks : Calm(u)
           /\ dead' = dead
<1>1. /\ task \in [Tasks -> TaskViews] /\ alloc' = alloc /\ dead' = dead
      /\ \A u \in Tasks \ {t} : task'[u] = task[u]
  BY DEF IInv, TypeOK, Cancel
<1>2. CASE Dispatched(t)
  <2>1. task'[t] = [task[t] EXCEPT !.status = "cancelling"] /\ task[t].status \in InFlight
    BY <1>1, <1>2 DEF Cancel, Status, IInv, PhaseKnown
  <2>2. /\ task'[t].status = "cancelling" /\ task'[t].by = task[t].by
        /\ task'[t].worker = task[t].worker
    BY <1>1, <2>1 DEF TaskViews
  <2> QED BY <1>1, <2>1, <2>2 DEF Calm
<1>3. CASE ~Dispatched(t)
  <2>1. /\ task'[t] = [task[t] EXCEPT !.status = "terminal", !.outcome = "cancelled"]
        /\ task[t].status \in PreDispatch
    BY <1>1, <1>3 DEF Cancel, Status, IInv, PhaseKnown
  <2>2. /\ task'[t].status = "terminal" /\ task'[t].by = task[t].by
        /\ task'[t].worker = task[t].worker
    BY <1>1, <2>1 DEF TaskViews
  <2> QED BY <1>1, <2>1, <2>2 DEF Calm, Waiting
<1> QED BY <1>2, <1>3

LEMMA StartedFacts ==
    ASSUME TypeOK, NEW i \in Incs, NEW t \in Tasks, Started(i, t)
    PROVE  /\ \A u \in Tasks \ {t} : task'[u] = task[u]
           /\ task'[t].status \in {"running", "cancelling"} /\ task'[t].by = task[t].by
           /\ alloc' = alloc /\ dead' = dead /\ Status(t) \in InFlight
<1>1. task \in [Tasks -> TaskViews]
  BY DEF TypeOK
<1>2. task'[t] = [task[t] EXCEPT !.worker = TRUE,
                   !.status = IF @ = "dispatched" THEN "running" ELSE @]
  BY <1>1 DEF Started
<1>3. task'[t].by = task[t].by
      /\ task'[t].status = IF task[t].status = "dispatched" THEN "running" ELSE task[t].status
  BY <1>1, <1>2 DEF TaskViews
<1> QED BY <1>1, <1>3 DEF Started, Status, InFlight

LEMMA DispatchOwner ==
    ASSUME IInv, NEW i \in Incs, NEW t \in Tasks, Dispatch(i, t)
    PROVE  task'[t].by = i /\ dead' = dead
BY DEF Dispatch, IInv, TypeOK, TaskViews

\* The end or the suspension of the dispatch of t.
Ends(t) == /\ \A u \in Tasks \ {t} : task'[u] = task[u] /\ (u \in alloc => u \in alloc')
           /\ task'[t].status \in {"terminal", "reconciling"}
           /\ task'[t].by = task[t].by /\ task'[t].worker = task[t].worker
           /\ dead' = dead

LEMMA EndFacts ==
    ASSUME TypeOK, NEW i \in Incs, NEW t \in Tasks,
           \/ \E outcome \in Outcomes : \/ Complete(i, t, outcome)
                                       \/ ResolveReconciliation(i, t, outcome)
                                       \/ RecoverSettled(i, t, outcome)
           \/ ReconcileUncertain(i, t) \/ Expire(i, t)
           \/ RecoverAlive(i, t) \/ RecoverUncertain(i, t)
    PROVE  /\ Ends(t)
           /\ ReconcileUncertain(i, t) \/ Expire(i, t) \/ RecoverAlive(i, t) => alloc' = alloc
<1>1. task \in [Tasks -> TaskViews]
  BY DEF TypeOK
<1>2. ASSUME NEW outcome \in Outcomes, NEW how \in {"released", "reconciled"},
             Settle(i, t, outcome, how)
      PROVE  Ends(t)
  <2>1. /\ \A u \in Tasks \ {t} : task'[u] = task[u]
        /\ task'[t] = [task[t] EXCEPT !.status = "terminal", !.outcome = outcome]
    BY <1>1, <1>2 DEF Settle
  <2>2. task'[t].status = "terminal" /\ task'[t].by = task[t].by /\ task'[t].worker = task[t].worker
    BY <1>1, <2>1 DEF TaskViews
  <2> QED BY <1>2, <2>1, <2>2 DEF Ends, Settle, Release
<1>3. ASSUME NEW how \in {"expired", "reconciled"},
             Suspend(i, t, how, Release(t)) \/ Suspend(i, t, how, Retain)
      PROVE  Ends(t)
  <2>1. /\ \A u \in Tasks \ {t} : task'[u] = task[u]
        /\ task'[t] = [task[t] EXCEPT !.status = "reconciling"]
    BY <1>1, <1>3 DEF Suspend
  <2>2. /\ task'[t].status = "reconciling" /\ task'[t].by = task[t].by
        /\ task'[t].worker = task[t].worker
    BY <1>1, <2>1 DEF TaskViews
  <2> QED BY <1>3, <2>1, <2>2 DEF Ends, Suspend, Release, Retain
<1>4. ReconcileUncertain(i, t) \/ Expire(i, t) \/ RecoverAlive(i, t) => alloc' = alloc
  BY DEF ReconcileUncertain, Expire, RecoverAlive, Suspend, Retain
<1> QED BY <1>2, <1>3, <1>4 DEF Complete, ResolveReconciliation, RecoverSettled,
            ReconcileUncertain, Expire, RecoverAlive, RecoverUncertain

-----------------------------------------------------------------------------
(* The invariant over the steps that leave the executions alone or end one.  *)

\* What a step does to the intents of the run.
TodoKept == todo' = todo /\ (pc' = "spawned" <=> pc = "spawned")
TodoDropped == todo' = <<>> /\ pc' # "spawned"
TodoNext == todo # <<>> /\ todo' = Tail(todo) /\ pc' # "spawned"

LEMMA NextTodo ==
    ASSUME TodoOK, todo \in Seq(Tasks), TodoNext, inc' = inc, worker' = worker,
           exec' \subseteq exec \cup {Head(todo)},
           \A u \in Tasks \ {Head(todo)} : Calm(u)
    PROVE  TodoOK'
<1>1. /\ Head(todo) \in Tasks /\ Head(todo) = todo[1] /\ Len(todo) \in Nat /\ Len(todo) >= 1
      /\ todo' \in Seq(Tasks) /\ Len(todo') = Len(todo) - 1
      /\ \A n \in 1..Len(todo') : todo'[n] = todo[n + 1]
  BY HeadOfTodo DEF TodoNext
<1>2. ASSUME NEW m \in 1..Len(todo'), NEW n \in 1..Len(todo'), todo'[m] = todo'[n] PROVE m = n
  <2>1. m + 1 \in 1..Len(todo) /\ n + 1 \in 1..Len(todo) /\ todo[m + 1] = todo[n + 1]
    BY <1>1, <1>2
  <2> QED BY <2>1 DEF TodoOK
<1>3. ASSUME NEW n \in 1..Len(todo')
      PROVE  /\ task'[todo'[n]].status \in {"dispatched", "cancelling"} /\ task'[todo'[n]].by = inc'
             /\ todo'[n] \notin exec' /\ worker'[todo'[n]] = "none"
  <2>1. n + 1 \in 1..Len(todo) /\ 1 \in 1..Len(todo) /\ n + 1 # 1 /\ todo'[n] = todo[n + 1]
    BY <1>1
  <2>2. todo[n + 1] # Head(todo) /\ todo[n + 1] \in Tasks
    BY <1>1, <2>1 DEF TodoOK
  <2>3. /\ task[todo[n + 1]].status \in {"dispatched", "cancelling"} /\ task[todo[n + 1]].by = inc
        /\ todo[n + 1] \notin exec /\ worker[todo[n + 1]] = "none"
    BY <2>1 DEF TodoOK, Status
  <2>4. Calm(todo[n + 1])
    BY <2>2
  <2> QED BY <2>1, <2>2, <2>3, <2>4 DEF Calm, Waiting, PreDispatch, InFlight
<1> QED BY <1>2, <1>3 DEF TodoOK, TodoNext, Status

LEMMA KeptTodo ==
    ASSUME TodoOK, todo \in Seq(Tasks), TodoKept, inc' = inc, worker' = worker, exec' \subseteq exec,
           NEW S \in SUBSET Tasks, \A n \in 1..Len(todo) : todo[n] \notin S,
           \A u \in Tasks \ S : Calm(u)
    PROVE  TodoOK'
<1>1. ASSUME NEW n \in 1..Len(todo)
      PROVE  /\ task'[todo[n]].status \in {"dispatched", "cancelling"} /\ task'[todo[n]].by = inc'
             /\ todo[n] \notin exec'
  <2>1. todo[n] \in Tasks \ S
    OBVIOUS
  <2>2. Calm(todo[n]) /\ task[todo[n]].status \in {"dispatched", "cancelling"} /\ task[todo[n]].by = inc
        /\ todo[n] \notin exec
    BY <2>1 DEF TodoOK, Status
  <2> QED BY <2>2 DEF Calm, Waiting, PreDispatch, InFlight
<1> QED BY <1>1 DEF TodoOK, TodoKept, Status

LEMMA DroppedTodo == ASSUME TodoDropped PROVE TodoOK'
BY EmptySeq DEF TodoDropped, TodoOK

\* Steps of the running process after which the executions are the same.
LEMMA CalmDInv ==
    ASSUME IInv, DInv, VolatileTypes', ProcessOK', \A u \in Tasks : Calm(u),
           inc' = inc, dead' = dead, worker' = worker, presumed' = presumed, scenario' = scenario,
           exec' = exec,
           pc' \in Recovered => pc \in Recovered,
           TodoKept \/ (TodoDropped /\ pc # "spawned")
    PROVE  DInv'
<1>1. OwnersOK'
  <2>1. todo' = todo \/ (pc' # "spawned" /\ pc # "spawned")
    BY DEF TodoKept, TodoDropped
  <2>2. pc' = "spawned" <=> pc = "spawned"
    BY DEF TodoKept, TodoDropped
  <2>3. ASSUME NEW u \in Tasks
        PROVE  /\ task'[u].by = task[u].by
               /\ task'[u].status \in InFlight => task[u].status \in InFlight
    <3>1. Calm(u)
      OBVIOUS
    <3> QED BY <3>1 DEF Calm, Waiting, PreDispatch, InFlight
  <2> DEFINE flying(u) == task[u].status \in InFlight
             owner(u) == task[u].by
  <2>4. \A u \in Tasks : (flying(u)' => flying(u)) /\ owner(u)' = owner(u)
    BY <2>3
  <2>5. /\ \A u \in Tasks : owner(u)' \in dead' \cup {inc', NoInc}
        /\ \A u \in Tasks : worker'[u] # "none" => owner(u)' # NoInc
        /\ pc' \in Recovered => \A u \in Tasks : flying(u)' => owner(u)' = inc'
        /\ \A u \in exec' : owner(u)' = inc' /\ worker'[u] # "none"
    BY <2>4 DEF DInv, OwnersOK, Dispatched, Status, VolatileTypes
  <2>6. \A u \in Tasks : owner(u)' = inc' /\ worker'[u] = "alive"
            => u \in exec' \/ (pc' = "spawned" /\ u = Head(todo'))
    BY <2>1, <2>2, <2>4 DEF DInv, OwnersOK
  <2> QED BY <2>5, <2>6 DEF OwnersOK, Dispatched, Status
<1>2. TodoOK'
  <2>1. todo \in Seq(Tasks) /\ exec' \subseteq exec /\ TodoOK
    BY DEF DInv, VolatileTypes
  <2>2. CASE TodoKept
    <3>1. {} \in SUBSET Tasks /\ \A n \in 1..Len(todo) : todo[n] \notin {}
      OBVIOUS
    <3> QED BY <2>1, <2>2, <3>1, KeptTodo
  <2> QED BY <2>2, DroppedTodo
<1>3. KnownOK'
  BY DEF DInv, KnownOK, KnownWorkerHoldsCapacity, Calm, May
<1> QED BY <1>1, <1>2, <1>3 DEF DInv

\* Steps that end the dispatch of a task whose worker is not running, or keep its capacity.
LEMMA EndsDInv ==
    ASSUME IInv, DInv, VolatileTypes', ProcessOK', NEW t \in Tasks, Ends(t),
           inc' = inc, worker' = worker, presumed \subseteq presumed', scenario' = scenario,
           exec' = exec \/ (exec' = exec \ {t} /\ worker[t] # "alive"),
           pc' \in Recovered => pc \in Recovered,
           \/ alloc' = alloc \/ worker[t] # "alive" \/ ~task[t].worker \/ May("ps")
           \/ t \in presumed',
           \/ TodoKept /\ \A n \in 1..Len(todo) : todo[n] # t
           \/ TodoDropped /\ pc # "spawned"
           \/ TodoNext /\ Head(todo) = t /\ pc # "spawned"
    PROVE  DInv'
<1>0. \A u \in Tasks \ {t} : Calm(u)
  BY DEF Ends, Calm
<1>1. OwnersOK'
  <2>1. todo' = todo \/ (pc' # "spawned" /\ pc # "spawned")
    BY DEF TodoKept, TodoDropped, TodoNext
  <2>2. pc' = "spawned" <=> pc = "spawned"
    BY DEF TodoKept, TodoDropped, TodoNext
  <2>3. ASSUME NEW u \in Tasks
        PROVE  /\ task'[u].by = task[u].by
               /\ task'[u].status \in InFlight => task[u].status \in InFlight
    BY DEF Ends, InFlight
  <2> DEFINE flying(u) == task[u].status \in InFlight
             owner(u) == task[u].by
  <2>4. \A u \in Tasks : (flying(u)' => flying(u)) /\ owner(u)' = owner(u)
    BY <2>3
  <2>5. /\ \A u \in Tasks : owner(u)' \in dead' \cup {inc', NoInc}
        /\ \A u \in Tasks : worker'[u] # "none" => owner(u)' # NoInc
    BY <2>4 DEF DInv, OwnersOK, Dispatched, Ends
  <2>8. pc' \in Recovered => \A u \in Tasks : flying(u)' => owner(u)' = inc'
    BY <2>4 DEF DInv, OwnersOK, Status
  <2>6. \A u \in Tasks : owner(u)' = inc' /\ worker'[u] = "alive"
            => u \in exec' \/ (pc' = "spawned" /\ u = Head(todo'))
    BY <2>1, <2>2, <2>4 DEF DInv, OwnersOK
  <2>7. \A u \in exec' : owner(u)' = inc' /\ worker'[u] # "none"
    <3>1. exec' \subseteq exec /\ exec \subseteq Tasks
      BY DEF DInv, VolatileTypes
    <3> QED BY <3>1, <2>4 DEF DInv, OwnersOK
  <2> QED BY <2>5, <2>6, <2>7, <2>8 DEF OwnersOK, Dispatched, Status
<1>2. TodoOK'
  <2>1. todo \in Seq(Tasks) /\ exec' \subseteq exec /\ TodoOK
    BY DEF DInv, VolatileTypes
  <2>2. CASE TodoKept /\ \A n \in 1..Len(todo) : todo[n] # t
    <3>1. {t} \in SUBSET Tasks /\ \A n \in 1..Len(todo) : todo[n] \notin {t}
      BY <2>2
    <3> QED BY <1>0, <2>1, <2>2, <3>1, KeptTodo
  <2>3. CASE TodoNext /\ Head(todo) = t
    BY <1>0, <2>1, <2>3, NextTodo
  <2> QED BY <2>2, <2>3, DroppedTodo
<1>3. KnownOK'
  BY <1>0 DEF DInv, KnownOK, KnownWorkerHoldsCapacity, Ends, Calm, May
<1> QED BY <1>1, <1>2, <1>3 DEF DInv

-----------------------------------------------------------------------------
(* Step by step.                                                            *)

\* Start-up: the daemon lease, then the incarnation.
LEMMA BootSteps ==
    ASSUME IInv, DInv, BootAcquire \/ BootTakeover PROVE DInv'
<1>1. VolatileTypes /\ ProcessOK /\ TypeOK /\ inc \in Incs
  BY UpIsAlive DEF DInv, IInv, BootAcquire, BootTakeover
<1>2. /\ \A u \in Tasks : Calm(u)
      /\ dead' = dead
  BY <1>1, QueueCalm, HostCalm DEF BootAcquire, BootTakeover, AcquireFence
<1>3. VolatileTypes'
  BY <1>1 DEF BootAcquire, BootTakeover, VolatileTypes, KeepRun, KeepExec, processes, Goto, PCs
<1>4. ProcessOK'
  BY <1>1, <1>2 DEF BootAcquire, BootTakeover, ProcessOK, KeepRun, KeepExec, processes, Goto, Awaiting
<1>5. TodoKept /\ pc' \notin Recovered
  BY DEF BootAcquire, BootTakeover, TodoKept, Goto, Recovered, Synchronous
<1> QED BY <1>2, <1>3, <1>4, <1>5, CalmDInv
        DEF BootAcquire, BootTakeover, KeepRun, KeepExec, processes

\* Steps of the process that write nothing.
LEMMA MemorySteps ==
    ASSUME IInv, DInv,
           \/ RunLoop \/ ExpireDone \/ TickNoSignal \/ AbortRun \/ StartDone \/ StartAwait
           \/ RenewalFails \/ Shutdown
    PROVE DInv'
<1>1. VolatileTypes /\ ProcessOK
  BY DEF DInv
<1>2. /\ UNCHANGED <<task, alloc, dead, inc, busy, exec, worker, scenario, presumed>>
      /\ UNCHANGED vars
  BY DEF RunLoop, ExpireDone, TickNoSignal, AbortRun, StartDone, StartAwait, RenewalFails,
         Shutdown, vars, KeepRun, KeepExec, processes, volatile
<1>3. \A u \in Tasks : Calm(u)
  BY <1>2, HostCalm
<1>4. VolatileTypes'
  <2>1. pc' \in PCs
    BY <1>1 DEF RunLoop, ExpireDone, TickNoSignal, AbortRun, StartDone, StartAwait, RenewalFails,
           Shutdown, volatile, VolatileTypes, Goto, PCs
  <2>2. killed' \subseteq Tasks
    BY <1>1 DEF RunLoop, ExpireDone, TickNoSignal, AbortRun, StartDone, StartAwait, RenewalFails,
           Shutdown, processes, VolatileTypes, Kill
  <2>3. todo' \in {todo, <<>>} /\ nested' \in {nested, FALSE}
    BY DEF RunLoop, ExpireDone, TickNoSignal, AbortRun, StartDone, StartAwait, RenewalFails,
           Shutdown, volatile
  <2>4. stopping' \in BOOLEAN /\ UNCHANGED <<timedOut, exceeded>>
    BY <1>1 DEF RunLoop, ExpireDone, TickNoSignal, AbortRun, StartDone, StartAwait, RenewalFails,
           Shutdown, volatile, VolatileTypes, KeepRun, KeepExec
  <2>5. todo' \in Seq(Tasks) /\ nested' \in BOOLEAN
    BY <1>1, <2>3, EmptySeq DEF VolatileTypes
  <2> QED BY <1>1, <1>2, <2>1, <2>2, <2>4, <2>5 DEF VolatileTypes
<1>5. ProcessOK'
  BY <1>1, <1>2 DEF RunLoop, ExpireDone, TickNoSignal, AbortRun, StartDone, StartAwait, RenewalFails,
         Shutdown, KeepRun, KeepExec, processes, volatile, ProcessOK, Goto, Kill, Awaiting, Synchronous,
         Status
<1>6. /\ pc' \in Recovered => pc \in Recovered
      /\ TodoKept \/ (TodoDropped /\ pc # "spawned")
  BY DEF RunLoop, ExpireDone, TickNoSignal, AbortRun, StartDone, StartAwait, RenewalFails,
         Shutdown, volatile, Goto, Recovered, Synchronous, TodoKept, TodoDropped
<1> QED BY <1>2, <1>3, <1>4, <1>5, <1>6, CalmDInv

LEMMA TimerSteps ==
    ASSUME IInv, DInv, NEW t \in Tasks, Deadline(t) \/ HeartbeatFails(t)
    PROVE DInv'
<1>1. VolatileTypes /\ ProcessOK
  BY DEF DInv
<1>2. /\ UNCHANGED <<task, alloc, dead, inc, pc, busy, nested, todo, exec, worker, scenario, presumed>>
      /\ UNCHANGED vars
  BY DEF Deadline, HeartbeatFails, vars, processes, volatile
<1>3. \A u \in Tasks : Calm(u)
  BY <1>2, HostCalm
<1>4. VolatileTypes'
  BY <1>1 DEF Deadline, HeartbeatFails, processes, volatile, VolatileTypes, Kill
<1>5. ProcessOK'
  BY <1>1, <1>2 DEF ProcessOK, Awaiting, Status
<1>6. pc' \in Recovered => pc \in Recovered /\ TodoKept
  BY <1>2 DEF TodoKept
<1> QED BY <1>2, <1>3, <1>4, <1>5, <1>6, CalmDInv DEF TodoKept

LEMMA TickSteps ==
    ASSUME IInv, DInv, TickReadiness \/ TickSignals \/ TickPressure PROVE DInv'
<1>1. VolatileTypes /\ ProcessOK /\ TypeOK /\ inc \in Incs
  BY UpIsAlive DEF DInv, IInv, TickReadiness, TickSignals, TickPressure
<1>2. {t \in Tasks : Status(t) \in PreDispatch} \in SUBSET Tasks
  OBVIOUS
<1>3. /\ \A u \in Tasks : Calm(u)
      /\ dead' = dead
  BY <1>1, <1>2, QueueCalm DEF TickReadiness, TickSignals, TickPressure
<1>4. VolatileTypes'
  BY <1>1 DEF TickReadiness, TickSignals, TickPressure, VolatileTypes, KeepRun, KeepExec,
              processes, Goto, PCs
<1>5. ProcessOK'
  BY <1>1, <1>3 DEF TickReadiness, TickSignals, TickPressure, ProcessOK, KeepRun, KeepExec,
              processes, Goto, Awaiting
<1>6. TodoKept /\ (pc' \in Recovered => pc \in Recovered)
  BY DEF TickReadiness, TickSignals, TickPressure, TodoKept, Goto, Recovered, Synchronous, KeepRun
<1> QED BY <1>3, <1>4, <1>5, <1>6, CalmDInv
        DEF TickReadiness, TickSignals, TickPressure, KeepRun, KeepExec, processes

\* Workers, the host and the daemon lease.
LEMMA HostSteps ==
    ASSUME IInv, DInv, Elapse \/ ShutdownReleases PROVE DInv'
<1>1. VolatileTypes /\ ProcessOK
  BY DEF DInv
<1>2. /\ UNCHANGED <<task, alloc, dead, inc, pc, busy, nested, todo, exec, worker, scenario, presumed>>
      /\ UNCHANGED <<timedOut, exceeded, stopping, killed>>
  BY DEF Elapse, ShutdownReleases, processes, volatile, FenceLapses, LeaseElapses, GrantExpires,
         IssueGrant, StopFence
<1>3. \A u \in Tasks : Calm(u)
  BY <1>2, HostCalm
<1>4. VolatileTypes'
  BY <1>1, <1>2 DEF VolatileTypes
<1>5. ProcessOK'
  BY <1>1, <1>2 DEF ProcessOK, Awaiting, Status
<1>6. pc' \in Recovered => pc \in Recovered /\ TodoKept
  BY <1>2 DEF TodoKept
<1> QED BY <1>2, <1>3, <1>4, <1>5, <1>6, CalmDInv DEF TodoKept

LEMMA CallSteps ==
    ASSUME IInv, DInv, NEW t \in Tasks, UsageReceived(t) \/ CompletionUsage(t)
           \/ SubmitCall(t) \/ SubmitReady(t) \/ CancelCall(t)
    PROVE DInv'
<1>1. VolatileTypes /\ ProcessOK /\ TypeOK /\ NoTask \notin Tasks
  BY NullsAssumption DEF DInv, IInv
<1>2. UNCHANGED <<inc, pc, nested, todo, exec, timedOut, stopping, worker, scenario, presumed>>
  BY DEF UsageReceived, CompletionUsage, SubmitCall, SubmitReady, CancelCall, processes, volatile
<1>3. inc \in Incs
  BY <1>1, UpIsAlive
     DEF UsageReceived, CompletionUsage, SubmitCall, SubmitReady, CancelCall, Completing,
         EventLoopFree, Awaiting
<1>4. VolatileTypes'
  <2>1. /\ busy' \in Tasks \cup {NoTask} /\ exceeded' \subseteq Tasks /\ killed' \subseteq Tasks
    BY <1>1 DEF UsageReceived, CompletionUsage, SubmitCall, SubmitReady, CancelCall, processes,
                volatile, VolatileTypes, Kill
  <2> QED BY <1>1, <1>2, <2>1 DEF VolatileTypes
<1>5. /\ \A u \in Tasks : Calm(u)
      /\ dead' = dead
  <2>1. CASE UNCHANGED vars
    BY <2>1, HostCalm DEF vars
  <2>2. CASE RecordUsage(inc, t, 1) \/ Submit(inc, t) \/ Cancel(inc, t) \/ Reassess(inc, {t})
    <3>1. {t} \in SUBSET Tasks
      OBVIOUS
    <3> QED BY <1>1, <1>3, <2>2, <3>1, UsageCalm, SubmitCalm, CancelCalm, QueueCalm
  <2> QED BY <2>1, <2>2 DEF UsageReceived, CompletionUsage, SubmitCall, SubmitReady, CancelCall, vars
<1>6. ProcessOK'
  <2>1. busy' # NoTask => /\ pc \in {"idle", "await", "spawned"}
                          /\ \/ task'[busy'].status = "queued"
                             \/ busy' \in exec /\ worker[busy'] = "exited"
    <3>1. CASE UsageReceived(t) \/ CancelCall(t) \/ SubmitReady(t)
      BY <3>1 DEF UsageReceived, CancelCall, SubmitReady, EventLoopFree, volatile
    <3>2. CASE CompletionUsage(t)
      BY <3>2 DEF CompletionUsage, Completing, EventLoopFree, Awaiting
    <3>3. CASE SubmitCall(t)
      BY <1>1, <1>3, <3>3, SubmitCalm DEF SubmitCall, EventLoopFree, Awaiting
    <3> QED BY <3>1, <3>2, <3>3
  <2>2. pc # "down"
    BY <1>1, <1>3, NullsAssumption DEF ProcessOK
  <2> QED BY <1>1, <1>2, <1>5, <2>1, <2>2 DEF ProcessOK, Awaiting, Status
<1>7. pc' \in Recovered => pc \in Recovered /\ TodoKept
  BY <1>2 DEF TodoKept
<1> QED BY <1>2, <1>4, <1>5, <1>6, <1>7, CalmDInv DEF TodoKept

\* Only an execution whose process has ended is completed.
LEMMA CompletedHasExited ==
    ASSUME IInv, DInv, NEW t \in exec, busy = t \/ Completing(t)
    PROVE  worker[t] = "exited"
<1>1. t \in Tasks /\ inc \in Incs /\ task[t].by = inc /\ t # NoTask
  BY UpIsAlive, NullsAssumption DEF DInv, VolatileTypes, OwnersOK
<1>2. Status(t) # "queued"
  BY <1>1, NullsAssumption DEF IInv, PhaseKnown, Dispatched, PreDispatch
<1> QED BY <1>1, <1>2 DEF Completing, DInv, ProcessOK

\* The ends: completions, resolutions and expiries.
LEMMA EndSteps ==
    ASSUME IInv, DInv, NEW t \in Tasks,
           \/ CompletionSettles(t) \/ CompletionUncertain(t) \/ ResolveCall(t) \/ ExpireOne(t)
           \/ RecoverTask(t)
    PROVE DInv'
<1>1. VolatileTypes /\ ProcessOK /\ OwnersOK /\ TodoOK /\ TypeOK /\ NoTask \notin Tasks
  BY NullsAssumption DEF DInv, IInv
<1>2. /\ UNCHANGED <<inc, pc, nested, todo, stopping, worker, scenario, killed>>
      /\ presumed' = presumed \/ presumed' = presumed \cup {t}
  BY DEF CompletionSettles, CompletionUncertain, ResolveCall, ExpireOne, RecoverTask, Closed,
         processes, volatile
<1>3. inc \in Incs /\ Results(t) \subseteq Outcomes
  <2>1. inc \in Incs
    BY <1>1, UpIsAlive
       DEF CompletionSettles, CompletionUncertain, ResolveCall, ExpireOne, RecoverTask, Completing,
           EventLoopFree, Awaiting
  <2> QED BY <2>1 DEF Results, Outcomes
<1>4. /\ Ends(t)
      /\ \/ alloc' = alloc \/ worker[t] # "alive" \/ ~task[t].worker \/ May("ps")
         \/ t \in presumed'
  <2>1. CASE CompletionSettles(t) \/ CompletionUncertain(t)
    <3>1. worker[t] # "alive"
      BY <2>1, CompletedHasExited DEF CompletionSettles, CompletionUncertain, Completing
    <3> QED BY <1>1, <1>3, <2>1, <3>1, EndFacts DEF CompletionSettles, CompletionUncertain
  <2>2. CASE ResolveCall(t)
    BY <1>1, <1>3, <2>2, EndFacts DEF ResolveCall
  <2>3. CASE ExpireOne(t)
    BY <1>1, <1>3, <2>3, EndFacts DEF ExpireOne
  <2>4. CASE RecoverTask(t)
    <3>1. CASE RecoverAlive(inc, t)
      BY <1>1, <1>3, <3>1, EndFacts
    <3>2. CASE ~RecoverAlive(inc, t)
      <4>1. worker[t] # "alive" \/ ~task[t].worker \/ May("ps")
        BY <2>4, <3>2 DEF RecoverTask, Verdicts
      <4>2. RecoverUncertain(inc, t) \/ RecoverSettled(inc, t, "failed")
        BY <2>4, <3>2 DEF RecoverTask
      <4> QED BY <1>1, <1>3, <4>1, <4>2, EndFacts DEF Outcomes
    <3> QED BY <3>1, <3>2
  <2> QED BY <2>1, <2>2, <2>3, <2>4
<1>5. exec' = exec \/ (exec' = exec \ {t} /\ worker[t] # "alive")
  BY CompletedHasExited
     DEF CompletionSettles, CompletionUncertain, ResolveCall, ExpireOne, RecoverTask, Closed,
         volatile, Completing
<1>6. VolatileTypes'
  <2>1. busy' \in Tasks \cup {NoTask} /\ exceeded' \subseteq Tasks /\ timedOut' \subseteq Tasks
        /\ exec' \subseteq Tasks
    BY <1>1 DEF CompletionSettles, CompletionUncertain, ResolveCall, ExpireOne, RecoverTask, Closed,
                volatile, VolatileTypes
  <2> QED BY <1>1, <1>2, <2>1 DEF VolatileTypes
<1>7. ProcessOK'
  <2>1. busy' = NoTask
    BY <1>1 DEF CompletionSettles, CompletionUncertain, ResolveCall, ExpireOne, RecoverTask, Closed,
                volatile, EventLoopFree, ProcessOK
  <2>2. dead' = dead
    BY <1>4 DEF Ends
  <2> QED BY <1>1, <1>2, <1>5, <2>1, <2>2 DEF ProcessOK, Awaiting
<1>8. TodoKept /\ \A n \in 1..Len(todo) : todo[n] # t
  <2>1. CASE CompletionSettles(t) \/ CompletionUncertain(t)
    BY <1>1, <1>2, <2>1 DEF CompletionSettles, CompletionUncertain, Completing, TodoOK, TodoKept
  <2>2. CASE ResolveCall(t)
    BY <1>1, <1>2, <2>2 DEF ResolveCall, ResolveReconciliation, TodoOK, TodoKept
  <2>3. CASE ExpireOne(t) \/ RecoverTask(t)
    <3>1. todo = <<>>
      BY <1>1, <2>3 DEF ExpireOne, RecoverTask, ProcessOK
    <3> QED BY <1>2, <3>1, EmptySeq DEF TodoKept
  <2> QED BY <2>1, <2>2, <2>3
<1> QED BY <1>2, <1>4, <1>5, <1>6, <1>7, <1>8, EndsDInv

\* A completion that finds the task ended, or the fence lost.
LEMMA IgnoredStep ==
    ASSUME IInv, DInv, NEW t \in Tasks, CompletionIgnored(t) PROVE DInv'
<1>1. VolatileTypes /\ ProcessOK /\ OwnersOK /\ TodoOK /\ NoTask \notin Tasks
  BY NullsAssumption DEF DInv
<1>2. /\ UNCHANGED <<task, alloc, dead, inc, pc, nested, todo, stopping, worker, scenario, killed, presumed>>
      /\ exec' = exec \ {t} /\ timedOut' = timedOut \ {t} /\ exceeded' = exceeded \ {t}
      /\ busy' = NoTask
  BY DEF CompletionIgnored, Closed, processes, vars
<1>3. worker[t] # "alive"
  BY CompletedHasExited DEF CompletionIgnored, Completing
<1>4. VolatileTypes'
  BY <1>1, <1>2 DEF VolatileTypes
<1>5. ProcessOK'
  BY <1>1, <1>2 DEF ProcessOK, Awaiting
<1>6. OwnersOK'
  BY <1>1, <1>2, <1>3 DEF OwnersOK, Dispatched, Status, VolatileTypes
<1>7. TodoOK'
  <2>1. (\A u \in Tasks \ {} : Calm(u)) /\ TodoKept /\ exec' \subseteq exec /\ todo \in Seq(Tasks)
        /\ {} \in SUBSET Tasks
    BY <1>1, <1>2, HostCalm DEF TodoKept, VolatileTypes
  <2> QED BY <1>1, <1>2, <2>1, KeptTodo
<1>8. KnownOK'
  BY <1>2 DEF DInv, KnownOK, KnownWorkerHoldsCapacity, May
<1> QED BY <1>4, <1>5, <1>6, <1>7, <1>8 DEF DInv

LEMMA WorkerSteps ==
    ASSUME IInv, DInv, NEW t \in Tasks,
           WorkerExits(t) \/ (Spawn /\ t = Head(todo))
    PROVE  DInv'
<1>1. VolatileTypes /\ ProcessOK /\ OwnersOK /\ TodoOK /\ KnownOK
  BY DEF DInv
<1>2. /\ UNCHANGED <<task, alloc, dead, inc, busy, nested, todo, exec, timedOut, exceeded, stopping,
                     scenario, killed, presumed>>
      /\ \E w \in {"alive", "exited"} : worker' = [worker EXCEPT ![t] = w]
      /\ \A u \in Tasks \ {t} : worker'[u] = worker[u]
  BY <1>1 DEF WorkerExits, Spawn, KeepRun, KeepExec, volatile, vars, VolatileTypes
<1>3. CASE WorkerExits(t)
  <2>1. pc' = pc /\ worker[t] = "alive" /\ worker'[t] = "exited"
    BY <1>1, <1>3 DEF WorkerExits, volatile, VolatileTypes
  <2>2. VolatileTypes'
    BY <1>1, <1>2, <2>1 DEF VolatileTypes
  <2>3. ProcessOK'
    BY <1>1, <1>2, <2>1 DEF ProcessOK, Awaiting, Status, VolatileTypes
  <2>4. OwnersOK'
    BY <1>1, <1>2, <2>1 DEF OwnersOK, Dispatched, Status, VolatileTypes
  <2>5. TodoOK'
    <3>1. \A n \in 1..Len(todo) : todo[n] \in Tasks
      BY <1>1 DEF VolatileTypes
    <3>2. pc = "spawned" => Head(todo) \in Tasks
      BY <1>1, HeadOfTodo DEF ProcessOK, Awaiting, VolatileTypes
    <3> QED BY <1>1, <1>2, <2>1, <3>1, <3>2 DEF TodoOK, Status
  <2>6. KnownOK'
    BY <1>1, <1>2, <2>1 DEF KnownOK, KnownWorkerHoldsCapacity, May
  <2> QED BY <2>2, <2>3, <2>4, <2>5, <2>6 DEF DInv
<1>4. CASE Spawn /\ t = Head(todo)
  <2>1. pc = "await" /\ pc' = "spawned" /\ worker'[t] = "alive" /\ todo # <<>>
    BY <1>1, <1>4 DEF Spawn, Goto, VolatileTypes, ProcessOK, Awaiting
  <2>2. /\ t = todo[1] /\ Len(todo) >= 1 /\ Len(todo) \in Nat
        /\ \A n \in 1..Len(todo) : todo[n] \in Tasks
    BY <1>1, <1>4, <2>1, HeadOfTodo DEF VolatileTypes
  <2>3. /\ 1 \in 1..Len(todo)
        /\ task[t].by = inc /\ t \notin exec /\ worker[t] = "none"
        /\ task[t].status \in {"dispatched", "cancelling"}
    BY <1>1, <2>1, <2>2 DEF TodoOK, Status
  <2>4. VolatileTypes'
    BY <1>1, <1>2, <2>1 DEF VolatileTypes, PCs
  <2>5. ProcessOK'
    BY <1>1, <1>2, <2>1, <2>3 DEF ProcessOK, Awaiting, Status
  <2>6. Dispatched(t)
    BY <2>3 DEF IInv, PhaseKnown, Status, InFlight
  <2>7. OwnersOK'
    BY <1>1, <1>2, <1>4, <2>1, <2>3, <2>6 DEF OwnersOK, Dispatched, Status, Recovered, Synchronous,
                                         VolatileTypes
  <2>8. TodoOK'
    <3>1. \A n \in 1..Len(todo) : n # 1 => todo[n] # t /\ worker'[todo[n]] = worker[todo[n]]
      BY <1>1, <1>2, <2>2, <2>3 DEF TodoOK
    <3> QED BY <1>1, <1>2, <1>4, <2>1, <2>2, <2>3, <3>1 DEF TodoOK, Status
  <2>9. KnownOK'
    <3>1. t \in alloc
      BY <2>3 DEF IInv, FlightIsBacked, Status, InFlight
    <3> QED BY <1>1, <1>2, <3>1 DEF KnownOK, KnownWorkerHoldsCapacity, May
  <2> QED BY <2>4, <2>5, <2>7, <2>8, <2>9 DEF DInv
<1> QED BY <1>3, <1>4

\* The intent at the head of the run is in flight, of this process and not started.
LEMMA HeadIntent ==
    ASSUME DInv, todo # <<>>
    PROVE  /\ Head(todo) \in Tasks \ exec
           /\ Status(Head(todo)) \in {"dispatched", "cancelling"} /\ task[Head(todo)].by = inc
           /\ pc # "spawned" => worker[Head(todo)] = "none"
           /\ pc = "spawned" => worker[Head(todo)] \in {"alive", "exited"}
<1>1. /\ Head(todo) \in Tasks /\ Head(todo) = todo[1] /\ Len(todo) \in Nat /\ Len(todo) >= 1
      /\ worker[Head(todo)] \in {"none", "alive", "exited"}
  BY HeadOfTodo DEF DInv, VolatileTypes
<1>2. 1 \in 1..Len(todo)
  BY <1>1
<1> QED BY <1>1, <1>2 DEF DInv, TodoOK

\* A start that is too late, or that the executor refuses.
LEMMA StartEnds ==
    ASSUME IInv, DInv, StartLate \/ StartRefused PROVE DInv'
<1> DEFINE t == Head(todo)
<1>1. VolatileTypes /\ ProcessOK /\ OwnersOK /\ TodoOK /\ TypeOK
  BY DEF DInv, IInv
<1>2. todo # <<>> /\ pc \in {"start", "await"} /\ busy = NoTask
  BY <1>1 DEF StartLate, StartRefused, ProcessOK, Awaiting
<1>3. t \in Tasks /\ worker[t] = "none" /\ inc \in Incs
  BY <1>1, <1>2, HeadIntent, UpIsAlive
<1>4. UNCHANGED <<inc, busy, nested, stopping, exec, timedOut, exceeded, worker, scenario, killed, presumed>>
  BY DEF StartLate, StartRefused, KeepRun, KeepExec, processes
<1>5. CASE StartLate \/ (StartRefused /\ pc' = "start")
  <2>1. /\ Complete(inc, t, "timed_out") \/ ReconcileUncertain(inc, t)
        /\ todo' = Tail(todo) /\ pc' = "start"
    BY <1>2, <1>5 DEF StartLate, StartRefused, Goto
  <2>2. Ends(t)
    BY <1>1, <1>3, <2>1, EndFacts DEF Outcomes
  <2>3. TodoNext /\ Head(todo) = t
    BY <1>2, <2>1 DEF TodoNext
  <2>4. Tail(todo) \in Seq(Tasks)
    BY <1>1, <1>2, HeadOfTodo DEF VolatileTypes
  <2>5. VolatileTypes'
    BY <1>1, <1>4, <2>1, <2>4 DEF VolatileTypes, PCs
  <2>6. ProcessOK'
    BY <1>1, <1>2, <1>4, <2>1, <2>2 DEF ProcessOK, Awaiting, Ends
  <2>7. pc \in Recovered /\ pc # "spawned"
    BY <1>2 DEF Recovered, Synchronous
  <2> HIDE DEF t
  <2> QED BY <1>3, <1>4, <2>2, <2>3, <2>5, <2>6, <2>7, EndsDInv
<1>6. CASE StartRefused /\ pc' # "start"
  <2>1. UNCHANGED vars /\ todo' = <<>> /\ pc' = "idle"
    BY <1>2, <1>6 DEF StartRefused, Goto
  <2>2. UNCHANGED <<task, alloc, dead>>
    BY <2>1 DEF vars
  <2>3. TodoDropped /\ pc # "spawned" /\ pc \in Recovered
    BY <1>2, <2>1 DEF TodoDropped, Recovered, Synchronous
  <2>4. VolatileTypes'
    BY <1>1, <1>4, <2>1 DEF VolatileTypes, PCs
  <2>5. ProcessOK'
    BY <1>1, <1>2, <1>4, <2>1, <2>2 DEF ProcessOK, Awaiting
  <2>6. \A u \in Tasks : Calm(u)
    BY <2>2, HostCalm
  <2> QED BY <1>4, <2>2, <2>3, <2>4, <2>5, <2>6, CalmDInv
<1> QED BY <1>5, <1>6

\* The executor has started the worker.
LEMMA ObservedStep == ASSUME IInv, DInv, StartObserved PROVE DInv'
<1> DEFINE t == Head(todo)
<1>1. VolatileTypes /\ ProcessOK /\ OwnersOK /\ TodoOK /\ KnownOK /\ TypeOK
  BY DEF DInv, IInv
<1>2. todo # <<>> /\ pc = "spawned" /\ busy = NoTask
  BY <1>1 DEF StartObserved, ProcessOK, Awaiting
<1>3. t \in Tasks /\ worker[t] # "none" /\ inc \in Incs /\ task[t].by = inc
  BY <1>1, <1>2, HeadIntent, UpIsAlive
<1>4. /\ UNCHANGED <<inc, busy, stopping, timedOut, exceeded, worker, scenario, presumed>>
      /\ exec' = exec \cup {t}
      /\ \/ todo' = <<>> /\ pc' = "idle"
         \/ todo' = Tail(todo) /\ (pc' = "start" \/ (pc' = "tick" /\ nested' = TRUE))
      /\ nested' \in BOOLEAN
      /\ killed' = killed \cup {t} \/ killed' = killed \cup ({t} \cap timedOut)
  BY DEF StartObserved, KeepRun, Goto, Kill
<1>5. Started(inc, t) \/ UNCHANGED vars
  BY DEF StartObserved
<1>6. /\ \A u \in Tasks \ {t} : task'[u] = task[u]
      /\ task'[t].by = task[t].by
      /\ alloc' = alloc /\ dead' = dead
      /\ task[t].status \in InFlight
  <2>1. task[t].status \in InFlight
    BY <1>1, <1>2, HeadIntent DEF Status, InFlight
  <2> QED BY <1>1, <1>3, <1>5, <2>1, StartedFacts DEF vars
<1>7. t \in alloc
  BY <1>3, <1>6 DEF IInv, FlightIsBacked, Status
<1>8. todo' \in Seq(Tasks)
  <2>1. Tail(todo) \in Seq(Tasks)
    BY <1>1, <1>2, HeadOfTodo DEF VolatileTypes
  <2> QED BY <1>4, <2>1, EmptySeq
<1>9. \A u \in Tasks : task'[u].by = task[u].by
                       /\ (task'[u].status \in InFlight => task[u].status \in InFlight)
  BY <1>6
<1> HIDE DEF t
<1>10. VolatileTypes'
  BY <1>1, <1>3, <1>4, <1>8 DEF VolatileTypes, PCs
<1>11. ProcessOK'
  <2>1. todo' # <<>> => pc' \in {"start"} \/ (pc' = "tick" /\ nested')
    BY <1>4
  <2> QED BY <1>1, <1>2, <1>4, <1>6, <2>1 DEF ProcessOK, Awaiting
<1>12. OwnersOK'
  <2>1. Head(todo) = t
    BY DEF t
  <2>2. \A u \in Tasks : task'[u].by = inc' /\ worker'[u] = "alive" => u \in exec'
    BY <1>1, <1>2, <1>4, <1>9, <2>1 DEF OwnersOK
  <2>3. \A u \in exec' : task'[u].by = inc' /\ worker'[u] # "none"
    BY <1>1, <1>3, <1>4, <1>9 DEF OwnersOK, VolatileTypes
  <2>4. \A u \in Tasks : task'[u].status \in InFlight => task'[u].by = inc'
    BY <1>1, <1>2, <1>4, <1>9 DEF OwnersOK, Recovered, Synchronous, Status
  <2> QED BY <1>1, <1>4, <1>6, <1>9, <2>2, <2>3, <2>4 DEF OwnersOK, Dispatched, Status
<1>13. TodoOK'
  <2>1. Head(todo) = t
    BY DEF t
  <2>2. \A u \in Tasks \ {Head(todo)} : Calm(u)
    BY <1>6, <2>1 DEF Calm
  <2>3. CASE todo' = Tail(todo)
    <3>1. TodoNext /\ exec' \subseteq exec \cup {Head(todo)} /\ todo \in Seq(Tasks)
      BY <1>1, <1>2, <1>4, <2>1, <2>3 DEF TodoNext, VolatileTypes
    <3> QED BY <1>1, <1>4, <2>2, <3>1, NextTodo
  <2>4. CASE todo' = <<>> /\ pc' = "idle"
    BY <2>4, DroppedTodo DEF TodoDropped
  <2> QED BY <1>4, <2>3, <2>4
<1>14. KnownOK'
  BY <1>1, <1>4, <1>6, <1>7 DEF KnownOK, KnownWorkerHoldsCapacity, May
<1> QED BY <1>10, <1>11, <1>12, <1>13, <1>14 DEF DInv

\* A daemon starts: nobody else's dispatch is its own.
LEMMA BootStep == ASSUME IInv, DInv, NEW i \in Incs, Boot(i) PROVE DInv'
<1>1. VolatileTypes /\ ProcessOK /\ OwnersOK /\ TodoOK /\ KnownOK /\ i # NoInc
  BY NullsAssumption DEF DInv
<1>2. /\ UNCHANGED <<task, alloc, dead, busy, nested, todo, exec, timedOut, exceeded, stopping,
                     worker, killed, scenario, presumed>>
      /\ inc = NoInc /\ pc = "down" /\ inc' = i /\ pc' = "boot" /\ i \notin dead
      /\ exec = {} /\ busy = NoTask /\ todo = <<>>
  BY <1>1 DEF Boot, vars, processes, Goto, ProcessOK
<1>3. VolatileTypes'
  BY <1>1, <1>2 DEF VolatileTypes, PCs
<1>4. ProcessOK'
  BY <1>1, <1>2 DEF ProcessOK, Awaiting
<1>5. \A u \in Tasks : task[u].by # i
  BY <1>1, <1>2 DEF OwnersOK
<1>6. OwnersOK'
  BY <1>1, <1>2, <1>5 DEF OwnersOK, Dispatched, Recovered, Synchronous
<1>7. TodoOK'
  BY <1>2, DroppedTodo DEF TodoDropped
<1>8. KnownOK'
  BY <1>1, <1>2 DEF KnownOK, KnownWorkerHoldsCapacity, May
<1> QED BY <1>3, <1>4, <1>6, <1>7, <1>8 DEF DInv

\* Recovery is over when no dispatch in flight is of another incarnation.
LEMMA RecoverDoneStep == ASSUME IInv, DInv, RecoverDone PROVE DInv'
<1>1. VolatileTypes /\ ProcessOK /\ OwnersOK /\ TodoOK /\ KnownOK
  BY DEF DInv
<1>2. /\ UNCHANGED <<task, alloc, dead, inc, busy, nested, todo, exec, timedOut, exceeded, stopping,
                     worker, killed, scenario, presumed>>
      /\ pc = "recover" /\ pc' = "idle" /\ todo = <<>>
  BY <1>1 DEF RecoverDone, vars, processes, Goto, KeepRun, KeepExec, ProcessOK
<1>3. VolatileTypes'
  BY <1>1, <1>2 DEF VolatileTypes, PCs
<1>4. ProcessOK'
  BY <1>1, <1>2 DEF ProcessOK, Awaiting, Status
<1>5. \A u \in Tasks : task[u].status \in InFlight => task[u].by = inc
  BY DEF RecoverDone, Stale, Status
<1>6. OwnersOK'
  BY <1>1, <1>2, <1>5 DEF OwnersOK, Dispatched, Status
<1>7. TodoOK'
  BY <1>2, DroppedTodo DEF TodoDropped
<1>8. KnownOK'
  BY <1>1, <1>2 DEF KnownOK, KnownWorkerHoldsCapacity, May
<1> QED BY <1>3, <1>4, <1>6, <1>7, <1>8 DEF DInv

\* The process ends and its incarnation with it.
LEMMA CrashStep == ASSUME IInv, DInv, Crash PROVE DInv'
<1>1. VolatileTypes /\ ProcessOK /\ OwnersOK /\ TodoOK /\ KnownOK /\ TypeOK
  BY DEF DInv, IInv
<1>2. /\ UNCHANGED <<task, alloc, worker, killed, scenario, presumed>>
      /\ inc # NoInc /\ dead' = dead \cup {inc} /\ inc' = NoInc /\ pc' = "down" /\ busy' = NoTask
      /\ nested' = FALSE /\ todo' = <<>> /\ exec' = {} /\ timedOut' = {} /\ exceeded' = {}
      /\ stopping' = FALSE
  BY DEF Crash, Die, processes
<1>3. VolatileTypes'
  BY <1>1, <1>2, EmptySeq DEF VolatileTypes, PCs
<1>4. ProcessOK'
  BY <1>1, <1>2, NullsAssumption DEF ProcessOK, Awaiting, TypeOK, VolatileTypes
<1>5. OwnersOK'
  <2>1. \A u \in Tasks : task[u].by \in dead' \cup {NoInc}
    BY <1>1, <1>2 DEF OwnersOK
  <2>2. \A u \in Tasks : worker[u] = "alive" => task[u].by # NoInc
    BY <1>1 DEF OwnersOK, Dispatched
  <2> QED BY <1>1, <1>2, <2>1, <2>2 DEF OwnersOK, Dispatched, Recovered, Synchronous
<1>6. TodoOK'
  BY <1>2, DroppedTodo DEF TodoDropped
<1>7. KnownOK'
  BY <1>1, <1>2 DEF KnownOK, KnownWorkerHoldsCapacity, May
<1> QED BY <1>3, <1>4, <1>5, <1>6, <1>7 DEF DInv

\* A dispatch adds an intent to the run, or is left to the next one when the tick is nested.
LEMMA DispatchStep == ASSUME IInv, DInv, NEW t \in Tasks, TickDispatch(t) PROVE DInv'
<1>1. VolatileTypes /\ ProcessOK /\ OwnersOK /\ TodoOK /\ KnownOK /\ TypeOK
  BY DEF DInv, IInv
<1>2. /\ UNCHANGED <<inc, pc, busy, nested, exec, timedOut, exceeded, stopping, worker, killed,
                     scenario, presumed>>
      /\ pc = "select" /\ Dispatch(inc, t) /\ todo' \in {todo, Append(todo, t)}
  BY DEF TickDispatch, KeepRun, KeepExec, processes
<1>3. inc \in Incs
  BY <1>1, <1>2, UpIsAlive
<1>4. /\ Status(t) = "ready" /\ ~Dispatched(t)
      /\ \A u \in Tasks \ {t} : task'[u] = task[u]
      /\ task'[t].status = "dispatched" /\ task'[t].by = inc
      /\ alloc' = alloc \cup {t} /\ dead' = dead
  BY <1>2, <1>3, DispatchFacts, DispatchOwner
<1>5. worker[t] = "none" /\ t \notin exec
  BY <1>1, <1>3, <1>4, NullsAssumption DEF OwnersOK, VolatileTypes, Dispatched
<1>6. /\ todo \in Seq(Tasks) /\ Len(todo) \in Nat /\ \A n \in 1..Len(todo) : todo[n] \in Tasks \ {t}
  BY <1>1, <1>4, LenProperties DEF VolatileTypes, TodoOK
<1>7. /\ todo' \in Seq(Tasks) /\ Len(todo') \in Nat
      /\ \A n \in 1..Len(todo') :
            \/ n \in 1..Len(todo) /\ todo'[n] = todo[n]
            \/ n = Len(todo) + 1 /\ n \notin 1..Len(todo) /\ todo'[n] = t
  <2>1. CASE todo' = todo
    <3>1. todo' \in Seq(Tasks) /\ Len(todo') = Len(todo) /\ \A n \in 1..Len(todo) : todo'[n] = todo[n]
      BY <1>6, <2>1
    <3> QED BY <1>6, <3>1
  <2>2. CASE todo' = Append(todo, t)
    <3>1. /\ todo' \in Seq(Tasks) /\ Len(todo') = Len(todo) + 1
          /\ \A n \in 1..Len(todo) : todo'[n] = todo[n]
          /\ todo'[Len(todo) + 1] = t
      BY <1>6, <2>2, AppendProperties
    <3>2. \A n \in 1..Len(todo') : n \in 1..Len(todo) \/ n = Len(todo) + 1
      BY <1>6, <3>1
    <3> QED BY <1>6, <3>1, <3>2
  <2> QED BY <1>2, <2>1, <2>2
<1>8. VolatileTypes'
  BY <1>1, <1>2, <1>7 DEF VolatileTypes
<1>9. ProcessOK'
  BY <1>1, <1>2, <1>4 DEF ProcessOK, Awaiting, Status
<1>10. OwnersOK'
  <2>1. pc # "spawned" /\ pc \in Recovered
    BY <1>2 DEF Recovered, Synchronous
  <2>2. \A u \in Tasks : \/ task'[u] = task[u]
                         \/ /\ task'[u].by = inc /\ worker[u] = "none" /\ u \notin exec
    BY <1>4, <1>5
  <2>3. inc # NoInc
    BY <1>3, NullsAssumption
  <2> QED BY <1>1, <1>2, <1>4, <2>1, <2>2, <2>3 DEF OwnersOK, Dispatched, Status, VolatileTypes
<1>11. TodoOK'
  <2>1. ASSUME NEW m \in 1..Len(todo'), NEW n \in 1..Len(todo'), todo'[m] = todo'[n] PROVE m = n
    BY <1>1, <1>6, <1>7, <2>1 DEF TodoOK
  <2>2. ASSUME NEW n \in 1..Len(todo')
        PROVE  /\ task'[todo'[n]].status \in {"dispatched", "cancelling"}
               /\ task'[todo'[n]].by = inc'
               /\ todo'[n] \notin exec' /\ worker'[todo'[n]] = "none"
    <3>1. CASE n \in 1..Len(todo) /\ todo'[n] = todo[n]
      <4>1. todo[n] \in Tasks \ {t} /\ task'[todo[n]] = task[todo[n]]
        BY <1>4, <1>6, <3>1
      <4> QED BY <1>1, <1>2, <3>1, <4>1 DEF TodoOK, Status
    <3>2. CASE todo'[n] = t
      BY <1>2, <1>4, <1>5, <3>2
    <3> QED BY <1>7, <3>1, <3>2
  <2> QED BY <1>2, <2>1, <2>2 DEF TodoOK, Status
<1>12. KnownOK'
  BY <1>1, <1>2, <1>4, <1>5 DEF KnownOK, KnownWorkerHoldsCapacity, May
<1> QED BY <1>8, <1>9, <1>10, <1>11, <1>12 DEF DInv

LEMMA NextDInv == ASSUME IInv, DInv, [DaemonNext]_daemonVars PROVE DInv'
<1>1. CASE UNCHANGED daemonVars
  BY <1>1 DEF daemonVars, vars, volatile, processes, DInv, VolatileTypes, ProcessOK, OwnersOK,
       TodoOK, KnownOK, KnownWorkerHoldsCapacity, May, Awaiting, Status, Dispatched
<1>2. CASE LoopStep
  <2>1. CASE StartLate \/ StartRefused \/ StartObserved
    BY <2>1, StartEnds, ObservedStep
  <2>2. CASE ~(StartLate \/ StartRefused \/ StartObserved)
    BY <1>2, <2>2, BootSteps, MemorySteps, TickSteps, EndSteps, RecoverDoneStep, DispatchStep
       DEF LoopStep
  <2> QED BY <2>1, <2>2
<1>3. CASE Spawn
  <2>1. Head(todo) \in Tasks
    BY <1>3, HeadIntent DEF Spawn, DInv, ProcessOK, Awaiting
  <2> QED BY <1>3, <2>1, WorkerSteps
<1>4. CASE (\E i \in Incs : Boot(i)) \/ RenewalFails \/ Shutdown \/ ShutdownReleases \/ Crash \/ Elapse
  BY <1>4, BootStep, MemorySteps, HostSteps, CrashStep
<1>5. ASSUME NEW t \in Tasks,
         \/ Deadline(t) \/ HeartbeatFails(t) \/ WorkerExits(t) \/ UsageReceived(t)
         \/ Settles(t) \/ SubmitCall(t) \/ SubmitReady(t) \/ CancelCall(t) \/ ResolveCall(t)
      PROVE DInv'
  BY <1>5, TimerSteps, WorkerSteps, CallSteps, EndSteps, IgnoredStep DEF Settles
<1> QED BY <1>1, <1>2, <1>3, <1>4, <1>5 DEF DaemonNext

LEMMA InitDInv == DaemonInit => DInv
<1> SUFFICES ASSUME DaemonInit PROVE DInv
  OBVIOUS
<1>1. /\ \A t \in Tasks : Status(t) = "unsubmitted" /\ task[t].by = NoInc /\ worker[t] = "none"
      /\ dead = {}
  BY DEF DaemonInit, Init, Status
<1>2. VolatileTypes
  BY EmptySeq DEF DaemonInit, VolatileTypes, PCs
<1>3. ProcessOK
  BY <1>1 DEF DaemonInit, ProcessOK, Awaiting
<1>4. OwnersOK
  BY <1>1 DEF DaemonInit, OwnersOK, Recovered, Synchronous
<1>5. TodoOK
  BY EmptySeq DEF DaemonInit, TodoOK
<1>6. KnownOK
  BY <1>1 DEF KnownOK, KnownWorkerHoldsCapacity
<1> QED BY <1>2, <1>3, <1>4, <1>5, <1>6 DEF DInv

-----------------------------------------------------------------------------
\* The invariant of the scheduler and that of the process hold together.
THEOREM DaemonInvariance == DaemonSpec => [](IInv /\ DInv)
<1>1. DaemonInit => IInv /\ DInv
  BY InitIInv, InitDInv DEF DaemonInit
<1>2. IInv /\ DInv /\ [DaemonNext]_daemonVars => (IInv /\ DInv)'
  BY StepIsScheduler, NextIInv, NextDInv
<1> QED BY <1>1, <1>2, PTL DEF DaemonSpec

\* What the process holds and does is of its declared type (DaemonTypeOK).
THEOREM DaemonTypes == DaemonSpec => []DaemonTypeOK
<1>1. IInv /\ DInv => DaemonTypeOK
  BY DEF IInv, DInv, VolatileTypes, DaemonTypeOK
<1> QED BY <1>1, DaemonInvariance, PTL

\* Every transaction the process makes, in whatever order its timers, callbacks, workers
\* and crashes fall, is one of the durable scheduler: what is proved of the scheduler
\* holds of the daemon.
LEMMA DaemonIsScheduler == DaemonSpec => Spec
<1>1. DaemonInit => Init
  BY DEF DaemonInit
<1>2. IInv /\ DInv /\ [DaemonNext]_daemonVars => [Next]_vars
  BY StepIsScheduler
<1> QED BY <1>1, <1>2, DaemonInvariance, PTL DEF DaemonSpec, Spec

Once == \A t \in Tasks : worker[t] # "alive" /\ worker'[t] = "alive" =>
          /\ worker[t] = "none"
          /\ Status(t) \in {"dispatched", "cancelling"}
          /\ task[t].by = inc
          /\ t \in alloc

\* Only a spawn makes a process run, and it runs the head of the intents.
LEMMA NextOnce == ASSUME IInv, DInv, [DaemonNext]_daemonVars PROVE [Once]_daemonVars
<1>1. CASE Spawn
  <2>1. todo # <<>> /\ pc # "spawned"
    BY <1>1 DEF Spawn, DInv, ProcessOK, Awaiting
  <2>2. /\ Head(todo) \in Tasks /\ Status(Head(todo)) \in {"dispatched", "cancelling"}
        /\ task[Head(todo)].by = inc /\ worker[Head(todo)] = "none"
    BY <2>1, HeadIntent
  <2>3. Head(todo) \in alloc
    BY <2>2 DEF IInv, FlightIsBacked, InFlight
  <2>4. \A u \in Tasks \ {Head(todo)} : worker'[u] = worker[u]
    BY <1>1, <2>2 DEF Spawn, DInv, VolatileTypes
  <2> QED BY <2>2, <2>3, <2>4 DEF Once
<1>2. CASE ~Spawn
  <2>1. \A u \in Tasks : worker'[u] = "alive" => worker[u] = "alive"
    <3>1. ASSUME NEW t \in Tasks, WorkerExits(t) PROVE \A u \in Tasks : worker'[u] = "alive" => worker[u] = "alive"
      BY <3>1 DEF WorkerExits, DInv, VolatileTypes
    <3>2. CASE worker' = worker
      BY <3>2
    <3>3. CASE LoopStep
      BY <3>3, <3>2 DEF LoopStep, BootAcquire, BootTakeover, RecoverDone, RecoverTask, RunLoop,
           ExpireOne, ExpireDone, TickReadiness, TickSignals, TickNoSignal, TickPressure,
           TickDispatch, AbortRun, StartDone, StartLate, StartAwait, StartRefused, StartObserved,
           processes
    <3>4. ASSUME NEW t \in Tasks,
             \/ Deadline(t) \/ HeartbeatFails(t) \/ UsageReceived(t)
             \/ Settles(t) \/ SubmitCall(t) \/ SubmitReady(t) \/ CancelCall(t) \/ ResolveCall(t)
          PROVE worker' = worker
      BY <3>4 DEF Deadline, HeartbeatFails, UsageReceived, Settles, CompletionUsage,
           CompletionSettles, CompletionUncertain, CompletionIgnored, Closed, SubmitCall,
           SubmitReady, CancelCall, ResolveCall, processes
    <3>5. CASE \/ UNCHANGED daemonVars \/ \E i \in Incs : Boot(i)
               \/ RenewalFails \/ Shutdown \/ ShutdownReleases \/ Crash \/ Elapse
      BY <3>5, <3>2 DEF daemonVars, Boot, RenewalFails, Shutdown, ShutdownReleases, Crash, Elapse,
           processes
    <3> QED BY <1>2, <3>1, <3>2, <3>3, <3>4, <3>5 DEF DaemonNext
  <2> QED BY <2>1 DEF Once
<1> QED BY <1>1, <1>2

\* A process is started at most once per task, for a dispatch in flight of the running
\* daemon that holds its capacity (Spawn; executor.start).
THEOREM SpawnsOnce == DaemonSpec => SpawnedOnce
<1>1. IInv /\ DInv /\ [DaemonNext]_daemonVars => [Once]_daemonVars
  BY NextOnce
<1>2. DaemonSpec => [][Once]_daemonVars
  BY <1>1, DaemonInvariance, PTL DEF DaemonSpec
<1> QED BY <1>2 DEF Once, SpawnedOnce

\* As long as ps can be asked, recovery and every other path keep track of a live worker:
\* it is held in memory by the daemon that started it, and its capacity is kept until an
\* operator resolves its dispatch.
THEOREM LiveWorkersAreHeld ==
    ASSUME \A s \in Scenarios : "ps" \notin s.events
    PROVE  DaemonSpec => []LiveWorkerIsHeld
<1>1. IInv /\ DInv => LiveWorkerIsHeld
  <2> SUFFICES ASSUME DInv PROVE LiveWorkerIsHeld
    OBVIOUS
  <2>1. ~May("ps")
    BY DEF DInv, VolatileTypes, May
  <2> QED BY <2>1 DEF DInv, OwnersOK, KnownOK, LiveWorkerIsHeld, Recovered
<1> QED BY <1>1, DaemonInvariance, PTL
===============================================================================
