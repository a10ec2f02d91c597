-------------------------- MODULE DaemonScheduler --------------------------
(***************************************************************************)
(* The daemon process of scheduling/daemon-scheduler.ts, as composed by    *)
(* service/scheduler-composition.ts: recovery, the dispatch loop, the      *)
(* executions it holds in memory, their timers and completion handlers,    *)
(* and the worker processes, which are detached and survive it.            *)
(*                                                                         *)
(* The process is single-threaded.  Synchronous code is a chain of `pc`    *)
(* (or `busy`) steps, one per journal transaction, which only a crash can  *)
(* interrupt; callbacks and calls from the rest of the process run when    *)
(* the event loop is free, that is between loop runs and while the loop    *)
(* awaits executor.start.                                                  *)
(***************************************************************************)
EXTENDS Scheduler

\* What may disturb a run.
Events == {"cancel", "crash", "deadline", "fence", "grant", "lease", "ps", "refusal",
           "shutdown", "usage"}

CONSTANTS Streaming,   \* tasks whose execution streams usage; the others only report it in the receipt
          Scenarios    \* bound: the sets of tasks and of events that meet in one behaviour

ASSUME StreamingAssumption == Streaming \subseteq Tasks
ASSUME ScenariosAssumption == Scenarios \subseteq [tasks : SUBSET Tasks, events : SUBSET Events]

VARIABLES scenario,  \* bound: chosen initially, never changed
          inc,       \* processIncarnation of the running daemon, or NoInc
          pc,        \* where recovery or the loop run is
          busy,      \* the task whose submit or complete is between two appends
          nested,    \* the tick under way is the one inside the start loop
          todo,      \* intents of this run that are not started yet
          exec,      \* tasks in the `active` map: executions held in memory
          timedOut,  \* executions whose deadline fired
          exceeded,  \* executions whose usage was refused
          stopping,  \* shutdown was called
          worker,    \* the operating system's view of each worker process
          killed,    \* workers sent SIGTERM and then SIGKILL
          presumed   \* history: tasks an operator resolved while their worker lived

volatile == <<inc, pc, busy, nested, todo, exec, timedOut, exceeded, stopping>>
processes == <<worker, killed, presumed, scenario>>
daemonVars == <<vars, volatile, processes>>

May(event) == event \in scenario.events

PCs == {"down", "boot", "takeover", "recover", "idle", "expire", "tick", "signal",
        "select", "start", "await", "spawned"}
Synchronous == {"expire", "tick", "signal", "select", "start"}

DaemonInit ==
    /\ Init
    /\ scenario \in Scenarios
    /\ inc = NoInc /\ pc = "down" /\ busy = NoTask /\ nested = FALSE
    /\ todo = <<>> /\ exec = {} /\ timedOut = {} /\ exceeded = {} /\ stopping = FALSE
    /\ worker = [t \in Tasks |-> "none"]
    /\ killed = {} /\ presumed = {}

Awaiting == pc \in {"await", "spawned"}
EventLoopFree == (pc = "idle" \/ Awaiting) /\ busy = NoTask
Goto(label) == pc' = label
Kill(S) == killed' = killed \cup S

\* UNCHANGED lists of the steps below: what stays of the volatile state.
KeepRun  == UNCHANGED <<inc, busy, stopping>>
KeepExec == UNCHANGED <<exec, timedOut, exceeded>>

-----------------------------------------------------------------------------
(* Start-up: recover, then startLoop                                        *)

Boot(i) ==
    /\ inc = NoInc
    /\ i \notin dead
    /\ inc' = i
    /\ Goto("boot")
    /\ UNCHANGED <<vars, busy, nested, todo, exec, timedOut, exceeded, stopping, processes>>

BootAcquire ==
    /\ pc = "boot"
    /\ AcquireFence(inc)
    /\ Goto("takeover")
    /\ KeepRun /\ KeepExec /\ UNCHANGED <<nested, todo, processes>>

BootTakeover ==
    /\ pc = "takeover"
    /\ Takeover(inc)
    /\ Goto("recover")
    /\ KeepRun /\ KeepExec /\ UNCHANGED <<nested, todo, processes>>

\* workerIdentityIsAlive: a worker without a recorded pid is absent, and so
\* is one that ps cannot be asked about.
Verdicts(t) ==
    IF task[t].worker /\ worker[t] = "alive"
    THEN {"alive"} \cup IF May("ps") THEN {"unknown"} ELSE {}
    ELSE {"absent"}

RecoverTask(t) ==
    /\ pc = "recover"
    /\ \/ "alive" \in Verdicts(t) /\ RecoverAlive(inc, t)
       \/ /\ Verdicts(t) \ {"alive"} # {}
          /\ IF t \in Effectful THEN RecoverUncertain(inc, t)
                                ELSE RecoverSettled(inc, t, "failed")
    /\ UNCHANGED <<volatile, processes>>

RecoverDone ==
    /\ pc = "recover"
    /\ Stale(inc) = {}
    /\ Goto("idle")
    /\ KeepRun /\ KeepExec /\ UNCHANGED <<vars, nested, todo, processes>>

-----------------------------------------------------------------------------
(* One run of the loop: expire, then runOnce with its tick                  *)

RunLoop ==
    /\ pc = "idle" /\ busy = NoTask /\ ~stopping
    /\ Current(inc)
    /\ Goto("expire")
    /\ KeepRun /\ KeepExec /\ UNCHANGED <<vars, nested, todo, processes>>

\* Mutant: the loop does not look at loopRunning, so that leases expire under a start.
ExpireOne_Overlapping(t) ==
    /\ pc \in {"expire", "await"}
    /\ Expire(inc, t)
    /\ UNCHANGED <<volatile, processes>>

ExpireOne(t) ==
    /\ pc = "expire"
    /\ Expire(inc, t)
    /\ UNCHANGED <<volatile, processes>>

\* runOnce renews the fence and cancels the executions of cancelling tasks.
ExpireDone ==
    /\ pc = "expire"
    /\ Current(inc)
    /\ \A t \in due : Status(t) \notin InFlight
    /\ Kill({t \in exec : Status(t) = "cancelling"})
    /\ Goto("tick")
    /\ KeepRun /\ KeepExec /\ UNCHANGED <<vars, nested, todo, worker, presumed, scenario>>

TickReadiness ==
    /\ pc = "tick"
    /\ Reassess(inc, {t \in Tasks : Status(t) \in PreDispatch})
    /\ Goto("signal")
    /\ KeepRun /\ KeepExec /\ UNCHANGED <<nested, todo, processes>>

\* tick returns no intents when it signals; after the nested tick the start
\* loop goes on.
TickSignals ==
    /\ pc = "signal"
    /\ SignalCancellations(inc)
    /\ Goto(IF nested THEN "start" ELSE "idle")
    /\ nested' = FALSE
    /\ KeepRun /\ KeepExec /\ UNCHANGED <<todo, processes>>

TickNoSignal ==
    /\ pc = "signal"
    /\ Unsignalled = {}
    /\ Goto("select")
    /\ KeepRun /\ KeepExec /\ UNCHANGED <<vars, nested, todo, processes>>

\* The result of the nested tick is not used.
TickDispatch(t) ==
    /\ pc = "select"
    /\ Dispatch(inc, t)
    /\ todo' = IF nested THEN todo ELSE Append(todo, t)
    /\ KeepRun /\ KeepExec /\ UNCHANGED <<pc, nested, processes>>

TickPressure ==
    /\ pc = "select"
    /\ Fitting = {}
    /\ Backpressure(inc)
    /\ Goto("start")
    /\ nested' = FALSE
    /\ KeepRun /\ KeepExec /\ UNCHANGED <<todo, processes>>

\* An append or a fence check that throws ends the run: its remaining intents
\* are forgotten.
Rejected ==
    \/ ~Current(inc)
    \/ pc = "signal" /\ \E t \in Unsignalled : task[t].by # inc
    \/ pc = "select" /\ \E t \in Tasks : Chosen(t) /\ ~Granted(t)

AbortRun ==
    /\ pc \in Synchronous
    /\ pc = "start" => todo # <<>>
    /\ Rejected
    /\ Goto("idle")
    /\ todo' = <<>> /\ nested' = FALSE
    /\ KeepRun /\ KeepExec /\ UNCHANGED <<vars, processes>>

-----------------------------------------------------------------------------
(* runOnce: starting the intents                                            *)

StartDone ==
    /\ pc = "start"
    /\ todo = <<>>
    /\ Goto("idle")
    /\ KeepRun /\ KeepExec /\ UNCHANGED <<vars, nested, todo, processes>>

\* The deadline of the intent passed before its start; the fence is not looked at
\* before a process is started.
StartLate ==
    /\ May("deadline")
    /\ pc = "start" /\ todo # <<>>
    /\ Complete(inc, Head(todo), "timed_out")
    /\ todo' = Tail(todo)
    /\ KeepRun /\ KeepExec /\ UNCHANGED <<pc, nested, processes>>

StartAwait ==
    /\ pc = "start" /\ todo # <<>>
    /\ Goto("await")
    /\ KeepRun /\ KeepExec /\ UNCHANGED <<vars, nested, todo, processes>>

Spawn ==
    /\ pc = "await"
    /\ worker' = [worker EXCEPT ![Head(todo)] = "alive"]
    /\ Goto("spawned")
    /\ KeepRun /\ KeepExec /\ UNCHANGED <<vars, nested, todo, killed, presumed, scenario>>

\* executor.start rejects; reconciling the dispatch throws when the fence is lost.
StartRefused ==
    /\ May("refusal")
    /\ pc = "await" /\ busy = NoTask
    /\ LET t == Head(todo)
       IN  \/ /\ IF t \in timedOut THEN Complete(inc, t, "timed_out")
                                   ELSE ReconcileUncertain(inc, t)
              /\ Goto("start") /\ todo' = Tail(todo)
           \/ /\ ~Current(inc)
              /\ Goto("idle") /\ todo' = <<>>
              /\ UNCHANGED vars
    /\ KeepRun /\ KeepExec /\ UNCHANGED <<nested, processes>>

\* executor.start resolves: the execution is held, then started() recorded; a
\* task cancelled meanwhile is cancelled and signalled by the nested tick;
\* otherwise the first heartbeat is due.
StartObserved ==
    /\ pc = "spawned" /\ busy = NoTask
    /\ LET t == Head(todo)
       IN  /\ exec' = exec \cup {t}
           /\ \/ /\ Started(inc, t)
                 /\ Status(t) = "cancelling"
                 /\ Kill({t}) /\ Goto("tick") /\ nested' = TRUE /\ todo' = Tail(todo)
              \/ /\ Started(inc, t)
                 /\ Status(t) = "dispatched"
                 /\ Kill({t} \cap timedOut)
                 /\ nested' = FALSE
                 /\ IF t \in due THEN Goto("idle") /\ todo' = <<>>
                                 ELSE Goto("start") /\ todo' = Tail(todo)
              \/ /\ ~Current(inc)
                 /\ Kill({t}) /\ Goto("start") /\ nested' = FALSE /\ todo' = Tail(todo)
                 /\ UNCHANGED vars
    /\ KeepRun /\ UNCHANGED <<timedOut, exceeded, worker, presumed, scenario>>

-----------------------------------------------------------------------------
(* Timers                                                                   *)

\* Mutant: the deadline is noted and nothing is cancelled.
Deadline_Noted(t) ==
    /\ May("deadline") /\ EventLoopFree
    /\ t \in exec \ timedOut
    /\ timedOut' = timedOut \cup {t}
    /\ UNCHANGED <<vars, inc, pc, busy, nested, todo, exec, exceeded, stopping, processes>>

Deadline(t) ==
    /\ May("deadline")
    /\ EventLoopFree
    /\ t \notin timedOut
    /\ t \in exec \/ (Awaiting /\ t = Head(todo))
    /\ timedOut' = timedOut \cup {t}
    /\ Kill({t} \cap exec)
    /\ UNCHANGED <<vars, inc, pc, busy, nested, todo, exec, exceeded, stopping, worker, presumed, scenario>>

\* A heartbeat that throws cancels the execution; one that succeeds leaves the
\* lease active and not due.
HeartbeatFails(t) ==
    /\ EventLoopFree
    /\ t \in exec \ killed
    /\ Status(t) # "running" \/ t \in due \/ ~Current(inc)
    /\ Kill({t})
    /\ UNCHANGED <<vars, volatile, worker, presumed, scenario>>

\* Mutant: a renewal that fails is ignored, like a run of the loop that fails.
RenewalFails_Ignored ==
    /\ EventLoopFree
    /\ ~fence.valid /\ ~stopping
    /\ UNCHANGED daemonVars

\* The 10 s renewal timer, once the fence is lost and until shutdown clears it.
RenewalFails ==
    /\ EventLoopFree
    /\ ~fence.valid /\ ~stopping
    /\ ~(exec \subseteq killed)
    /\ Kill(exec)
    /\ UNCHANGED <<vars, volatile, worker, presumed, scenario>>

-----------------------------------------------------------------------------
(* Workers, their usage and their completion                                *)

WorkerExits(t) ==
    /\ worker[t] = "alive"
    /\ worker' = [worker EXCEPT ![t] = "exited"]
    /\ UNCHANGED <<vars, volatile, killed, presumed, scenario>>

\* consumeUsage: a delta of one is recorded, or refused once and the worker cancelled.
UsageReceived(t) ==
    /\ May("usage")
    /\ EventLoopFree
    /\ t \in (Streaming \cap exec) \ exceeded
    /\ \/ RecordUsage(inc, t, 1) /\ UNCHANGED <<volatile, killed, presumed, scenario>>
       \/ /\ ~UsageAccepted(inc, t, 1)
          /\ exceeded' = exceeded \cup {t}
          /\ Kill({t})
          /\ UNCHANGED <<vars, inc, pc, busy, nested, todo, exec, timedOut, stopping>>
    /\ UNCHANGED <<worker, presumed, scenario>>

\* What complete() is given: the receipt, unless the deadline or the budget ended it.
Results(t) == IF t \in timedOut THEN {"timed_out"}
              ELSE IF t \in exceeded THEN {"failed"}
              ELSE {"completed", "failed"} \cup IF t \in killed THEN {"cancelled"} ELSE {}

Closed(t) == /\ exec' = exec \ {t}
             /\ timedOut' = timedOut \ {t}
             /\ exceeded' = exceeded \ {t}
             /\ busy' = NoTask
             /\ UNCHANGED <<inc, pc, nested, todo, stopping, processes>>

\* Mutant: a completion that does not wait for the process to end.
Completing_Early(t) == t \in exec /\ EventLoopFree

Completing(t) == t \in exec /\ worker[t] = "exited" /\ EventLoopFree
Open(t) == Status(t) \notin {"terminal", "reconciling"}

\* complete() first appends the final usage of the receipt ...
CompletionUsage(t) ==
    /\ May("usage") /\ t \notin Streaming
    /\ Completing(t) /\ Open(t)
    /\ RecordUsage(inc, t, 1)
    /\ busy' = t
    /\ UNCHANGED <<inc, pc, nested, todo, exec, timedOut, exceeded, stopping, processes>>

\* ... then the outcome with the release.
CompletionSettles(t) ==
    /\ busy = t \/ Completing(t)
    /\ t \in exec /\ Open(t)
    /\ \E outcome \in Results(t) : Complete(inc, t, outcome)
    /\ Closed(t)

\* The final usage exceeds the budget, or the completion promise rejects.
CompletionUncertain(t) ==
    /\ \/ May("refusal")
       \/ May("usage") /\ t \notin Streaming /\ ~UsageAccepted(inc, t, 1)
    /\ Completing(t)
    /\ ReconcileUncertain(inc, t)
    /\ Closed(t)

\* Another path has ended the task, or the fence is lost: nothing is written.
CompletionIgnored(t) ==
    /\ t \in exec /\ (busy = t \/ Completing(t))
    /\ ~Open(t) \/ ~Current(inc)
    /\ Closed(t)
    /\ UNCHANGED vars

-----------------------------------------------------------------------------
(* Calls from the rest of the process                                       *)

SubmitCall(t) ==
    /\ EventLoopFree
    /\ t \in scenario.tasks
    /\ Submit(inc, t)
    /\ busy' = t
    /\ UNCHANGED <<inc, pc, nested, todo, exec, timedOut, exceeded, stopping, processes>>

SubmitReady(t) ==
    /\ busy = t /\ Status(t) = "queued"
    /\ \/ Reassess(inc, {t})
       \/ ~Current(inc) /\ UNCHANGED vars
    /\ busy' = NoTask
    /\ UNCHANGED <<inc, pc, nested, todo, exec, timedOut, exceeded, stopping, processes>>

CancelCall(t) ==
    /\ May("cancel")
    /\ EventLoopFree
    /\ Cancel(inc, t)
    /\ UNCHANGED <<volatile, processes>>

\* The operator names the outcome; nothing asks whether the worker has ended.
ResolveCall(t) ==
    /\ EventLoopFree
    /\ \E outcome \in Outcomes : ResolveReconciliation(inc, t, outcome)
    /\ presumed' = IF worker[t] = "alive" THEN presumed \cup {t} ELSE presumed
    /\ UNCHANGED <<volatile, worker, killed, scenario>>

Shutdown ==
    /\ May("shutdown")
    /\ EventLoopFree /\ ~stopping
    /\ stopping' = TRUE
    /\ Kill(exec)
    /\ UNCHANGED <<vars, inc, pc, busy, nested, todo, exec, timedOut, exceeded, worker, presumed, scenario>>

\* awaitIdle has seen the executions end that shutdown cancelled: a start still in flight
\* then is not waited for, and its worker not cancelled.
ShutdownReleases ==
    /\ EventLoopFree /\ stopping
    /\ exec \cap killed = {}
    /\ StopFence(inc)
    /\ UNCHANGED <<volatile, processes>>

\* The process ends: its memory is lost, its workers are not.
Crash ==
    /\ May("crash")
    /\ inc # NoInc
    /\ Die(inc)
    /\ inc' = NoInc /\ pc' = "down" /\ busy' = NoTask /\ nested' = FALSE
    /\ todo' = <<>> /\ exec' = {} /\ timedOut' = {} /\ exceeded' = {} /\ stopping' = FALSE
    /\ UNCHANGED processes

-----------------------------------------------------------------------------
Elapse ==
    /\ \/ May("fence") /\ FenceLapses
       \/ May("lease") /\ \E t \in Tasks \ due : LeaseElapses(t)
       \/ May("grant") /\ \E g \in Grants : GrantExpires(g)
       \/ \E g \in Grants, t \in scenario.tasks : IssueGrant(g, t)
    /\ UNCHANGED <<volatile, processes>>

LoopStep ==
    \/ BootAcquire \/ BootTakeover \/ RecoverDone \/ (\E t \in Tasks : RecoverTask(t))
    \/ RunLoop \/ (\E t \in Tasks : ExpireOne(t)) \/ ExpireDone
    \/ TickReadiness \/ TickSignals \/ TickNoSignal \/ TickPressure
    \/ (\E t \in Tasks : TickDispatch(t)) \/ AbortRun
    \/ StartDone \/ StartLate \/ StartAwait \/ StartRefused \/ StartObserved

Settles(t) == CompletionUsage(t) \/ CompletionSettles(t) \/ CompletionUncertain(t)
              \/ CompletionIgnored(t)

DaemonNext ==
    \/ \E i \in Incs : Boot(i)
    \/ LoopStep \/ Spawn \/ RenewalFails \/ Shutdown \/ ShutdownReleases \/ Crash \/ Elapse
    \/ \E t \in Tasks :
         \/ Deadline(t) \/ HeartbeatFails(t) \/ WorkerExits(t) \/ UsageReceived(t)
         \/ Settles(t) \/ SubmitCall(t) \/ SubmitReady(t) \/ CancelCall(t) \/ ResolveCall(t)

DaemonSpec == DaemonInit /\ [][DaemonNext]_daemonVars

-----------------------------------------------------------------------------
DaemonTypeOK ==
    /\ TypeOK
    /\ scenario \in Scenarios
    /\ inc \in Incs \cup {NoInc} /\ pc \in PCs
    /\ busy \in Tasks \cup {NoTask} /\ nested \in BOOLEAN
    /\ todo \in Seq(Tasks)
    /\ exec \subseteq Tasks /\ timedOut \subseteq Tasks /\ exceeded \subseteq Tasks
    /\ stopping \in BOOLEAN
    /\ worker \in [Tasks -> {"none", "alive", "exited"}]
    /\ killed \subseteq Tasks /\ presumed \subseteq Tasks

\* A worker whose pid is recorded and whose process lives keeps its capacity, over
\* any number of restarts, until an operator resolves its dispatch: recovery asks the
\* operating system before it releases.
KnownWorkerHoldsCapacity ==
    \A t \in Tasks : task[t].worker /\ worker[t] = "alive" => t \in alloc \cup presumed

\* A daemon that has recovered owns every dispatch in flight, so that none of its
\* cancellation appends is refused for a stale incarnation and no dispatch is orphaned. An
\* execution in memory is that of a dispatch of this very process, and while its worker
\* runs it is there for the deadline, the heartbeat and shutdown to cancel. And the
\* capacity of a recorded worker that lives is kept, unless an operator resolved it.
LiveWorkerIsHeld ==
    /\ KnownWorkerHoldsCapacity
    /\ pc \in Synchronous \cup {"idle", "await", "spawned"}
            => \A t \in Tasks : Status(t) \in InFlight => task[t].by = inc
    /\ \A t \in exec : task[t].by = inc /\ worker[t] # "none"
    /\ \A t \in Tasks : task[t].by = inc /\ worker[t] = "alive"
            => t \in exec \/ (pc = "spawned" /\ t = Head(todo))

\* A process is started at most once per task, for a dispatch of the running daemon
\* that is still in flight, whatever was cancelled, expired, crashed or recovered before.
SpawnedOnce ==
    [][\A t \in Tasks : worker[t] # "alive" /\ worker'[t] = "alive" =>
         /\ worker[t] = "none"
         /\ Status(t) \in {"dispatched", "cancelling"}
         /\ task[t].by = inc
         /\ t \in alloc]_daemonVars

-----------------------------------------------------------------------------
(* Progress                                                                  *)

\* Timers and callbacks that are due run once the event loop is free again, so
\* theirs is strong fairness; synchronous code goes on; a worker that was sent
\* SIGKILL ends.  Nothing forces a crash, a cancellation or a new daemon.
Fairness ==
    /\ WF_daemonVars(LoopStep)
    /\ WF_daemonVars(Spawn)
    /\ \A t \in Tasks :
         /\ WF_daemonVars(SubmitReady(t))
         /\ WF_daemonVars(t \in killed /\ WorkerExits(t))
         /\ SF_daemonVars(Deadline(t))
         /\ SF_daemonVars(Settles(t))
         /\ WF_daemonVars(t \notin exec /\ t \notin due /\ LeaseElapses(t) /\ UNCHANGED <<volatile, processes>>)
    /\ SF_daemonVars(RenewalFails)
FairSpec == DaemonSpec /\ Fairness

\* Under a daemon that keeps its fence, no dispatch stays in flight for ever: it
\* completes, times out, expires into reconciliation or is recovered.
FlightEnds ==
    \A t \in Tasks :
        (May("deadline") /\ Status(t) \in InFlight /\ Current(inc))
            ~> (Status(t) \notin InFlight \/ ~Current(inc) \/ stopping)

\* A daemon that has lost its fence ends the workers it has started, also one whose start it
\* was awaiting when the fence went: the renewal that fails ends them, for their deadlines
\* may be far away (without "deadline") and nothing counts on a heartbeat.
LostFenceEndsWorkers ==
    \A t \in Tasks :
        (inc # NoInc /\ ~fence.valid /\ worker[t] = "alive" /\ task[t].by = inc)
            ~> (worker[t] # "alive" \/ inc = NoInc \/ stopping)

=============================================================================
