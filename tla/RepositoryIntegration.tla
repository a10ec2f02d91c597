----------------------- MODULE RepositoryIntegration -----------------------
(***************************************************************************)
(* The integration of reviewed units into the dedicated branch of one      *)
(* repository: RepositoryOrchestrator (its journal stream and the calls    *)
(* integrate, reconcileIntegration, cancel, replan, accept and correct),   *)
(* IntegrationQueue (candidate, validation and compare-and-swap of the     *)
(* ref) and IntegrationLeaseStore (the lease in the common directory),     *)
(* called by several processes, or several times by one.                   *)
(*                                                                         *)
(* A member of Procs runs one call at a time, cut wherever another can     *)
(* come between its steps: at every await and between two databases.  It   *)
(* may crash at any step and start again, with a new owner token: the      *)
(* lease it leaves belongs to nobody.  A lease that is not renewed         *)
(* elapses: that of a crashed process, or of one that was stopped for      *)
(* longer than its lease (`lapsed`).                                       *)
(*                                                                         *)
(* Abstractions.  A commit is the sequence of changes it contains, and a   *)
(* change is one version of a unit's sources.  What git and the validation *)
(* decide is a choice, except that a change already on the branch leaves   *)
(* nothing to commit.  appendMany never projects what it appends: an event *)
(* the projection rejects stays in the stream, and every later inspect()   *)
(* throws: `poison`.                                                       *)
(***************************************************************************)
EXTENDS Naturals, SequencesExt

CONSTANTS Procs,        \* processes
          NoProc,
          Units,        \* integration units
          NoUnit,
          MaxAttempts   \* replacements of the sources of each unit (maxAttempts)

ASSUME NoProcAssumption == NoProc \notin Procs
ASSUME NoUnitAssumption == NoUnit \notin Units
ASSUME AttemptsAssumption == MaxAttempts \in [Units -> Nat]

VARIABLES branch,             \* the integration ref
          lease,              \* row of integration_leases: owner, and whether it is unexpired
          unit,               \* projection of the repository stream: its units
          cancelled,          \* repository.cancellation_requested is in the stream
          integratedCommits,
          poison,             \* the projection rejects the stream
          pc, job,            \* where each process is, and what it works with
          lapsed,             \* history: a lease has elapsed while its owner lived
          repeated,           \* history: a call was made of what was done or under way
          unretained,         \* history: after a commit the candidate could neither be
                              \* removed nor be recorded as left behind
          unfit               \* history: an operator gave what only the projection refuses

streamVars == <<unit, cancelled, integratedCommits, poison>>
history    == <<lapsed, repeated, unretained, unfit>>
vars == <<branch, lease, streamVars, pc, job, history>>

Change(u) == [unit |-> u, source |-> unit[u].source]
Changes   == UNION {[unit : {u}, source : 0..MaxAttempts[u]] : u \in Units}
Commits   == Seq(Changes)

\* "candidate" is passed within one append.
Status == {"absent", "formed", "validated", "rejected", "conflicted", "awaiting_approval",
           "integrated", "acceptance_pending", "accepted", "correction_pending",
           "correction_awaiting_approval"}
UnitViews == [status : Status, source : Nat, expected : Commits, result : Commits]

Integrating == {"analyze", "enter", "build", "prepare", "guard", "swap", "observe",
                "evidence", "unlock", "reject", "rejectUnlessValidated"}
Reconciling == {"reconcileEnter", "reconcileRead", "reconcileCommitted", "reconcileNoEffect"}
Cancelling  == {"cancelEnter", "cancelAppend"}
PC == {"idle"} \cup Integrating \cup Reconciling \cup Cancelling
NoJob == [unit |-> NoUnit, base |-> <<>>, result |-> <<>>, then |-> "idle"]
Jobs  == [unit : Units \cup {NoUnit}, base : Commits, result : Commits, then : PC]

Init ==
    /\ branch = <<>>
    /\ lease = [owner |-> NoProc, live |-> FALSE]
    /\ unit = [u \in Units |-> [status |-> "absent", source |-> 0, expected |-> <<>>, result |-> <<>>]]
    /\ cancelled = FALSE /\ integratedCommits = {} /\ poison = FALSE
    /\ pc = [p \in Procs |-> "idle"]
    /\ job = [p \in Procs |-> NoJob]
    /\ lapsed = FALSE /\ repeated = FALSE /\ unretained = FALSE /\ unfit = FALSE

Goto(p, label) == pc' = [pc EXCEPT ![p] = label] /\ UNCHANGED job
Done(p) == pc' = [pc EXCEPT ![p] = "idle"] /\ job' = [job EXCEPT ![p] = NoJob]

-----------------------------------------------------------------------------
(* The repository stream                                                    *)

\* An event that the projection accepts from some statuses only.
Record(u, from, view) ==
    IF poison \/ unit[u].status \notin from
    THEN poison' = TRUE /\ UNCHANGED unit
    ELSE unit' = [unit EXCEPT ![u] = view] /\ UNCHANGED poison
To(u, status) == [unit[u] EXCEPT !.status = status]

RecordRejected(u)   == Record(u, {"formed", "validated"}, To(u, "rejected"))
RecordConflicted(u) == Record(u, {"formed"}, To(u, "conflicted"))
\* candidate_created and candidate_validated, in one append.
RecordValidated(u, base, result) ==
    Record(u, {"formed"}, [To(u, "validated") EXCEPT !.expected = base, !.result = result])
RecordCommitted(u, result) ==
    /\ Record(u, {"validated"}, [To(u, "integrated") EXCEPT !.result = result])
    /\ integratedCommits' = IF poison' THEN integratedCommits ELSE integratedCommits \cup {result}

-----------------------------------------------------------------------------
(* The integration lease                                                    *)

\* renew() succeeds.
Held(p) == lease.owner = p /\ lease.live

Acquire(p) ==
    /\ ~lease.live
    /\ lease' = [owner |-> p, live |-> TRUE]

Release(p) ==
    lease' = IF lease.owner = p THEN [owner |-> NoProc, live |-> FALSE] ELSE lease

LeaseElapses ==
    /\ lease.live
    /\ lease' = [lease EXCEPT !.live = FALSE]
    /\ lapsed' = (lapsed \/ lease.owner # NoProc)
    /\ UNCHANGED <<branch, streamVars, pc, job, repeated, unretained, unfit>>

-----------------------------------------------------------------------------
(* Units, replans, acceptance and corrections: calls of one operator        *)

Readable == ~poison
Active   == Readable /\ ~cancelled

\* formUnits does not look whether the unit is there already.
FormUnit(u) ==
    /\ Active
    /\ Record(u, {"absent"}, To(u, "formed"))
    /\ repeated' = (repeated \/ unit[u].status # "absent")
    /\ UNCHANGED <<branch, lease, cancelled, integratedCommits, pc, job, lapsed, unretained, unfit>>

\* The call does not look at all the projection looks at: a replan may name another conflict,
\* replacements may not form exactly one unit, a name or a reason may be none.
Unfit == poison' = TRUE /\ unfit' = TRUE

Decide(u, from, views) ==
    /\ Readable /\ unit[u].status = from
    /\ \/ \E view \in views : unit' = [unit EXCEPT ![u] = view] /\ UNCHANGED <<poison, unfit>>
       \/ Unfit /\ UNCHANGED unit
    /\ UNCHANGED <<branch, lease, cancelled, integratedCommits, pc, job, lapsed, repeated,
                   unretained>>

\* The replacement that is approved becomes the unit's sources.
Replacement(u) == [To(u, "formed") EXCEPT !.source = @ + 1]

ProposeReplan(u) ==
    Active /\ unit[u].source < MaxAttempts[u] /\ Decide(u, "conflicted", {To(u, "awaiting_approval")})

DecideReplan(u) ==
    Active /\ Decide(u, "awaiting_approval", {Replacement(u), To(u, "rejected")})

RequestFinalAcceptance(u) == Decide(u, "integrated", {To(u, "acceptance_pending")})

DecideFinalAcceptance(u) ==
    Decide(u, "acceptance_pending", {To(u, "accepted"), To(u, "correction_pending")})

\* A correction that replaces nothing needs no approval.
PlanCorrection(u) ==
    /\ Active /\ unit[u].source < MaxAttempts[u]
    /\ Decide(u, "correction_pending", {To(u, "correction_awaiting_approval"), To(u, "formed")})

DecideCorrection(u) ==
    Active /\ Decide(u, "correction_awaiting_approval", {Replacement(u), To(u, "rejected")})

Operator(u) ==
    \/ FormUnit(u) \/ ProposeReplan(u) \/ DecideReplan(u) \/ RequestFinalAcceptance(u)
    \/ DecideFinalAcceptance(u) \/ PlanCorrection(u) \/ DecideCorrection(u)

-----------------------------------------------------------------------------
(* integrate                                                                *)

UnderWay(u) == \E q \in Procs : job[q].unit = u
Begin(p, u, label) ==
    /\ pc[p] = "idle"
    /\ pc' = [pc EXCEPT ![p] = label]
    /\ repeated' = (repeated \/ UnderWay(u))

\* The status is looked at here, and not again before the unit's events are appended.
Integrate(p, u) ==
    /\ Active /\ unit[u].status = "formed"
    /\ Begin(p, u, "analyze")
    /\ job' = [job EXCEPT ![p] = [NoJob EXCEPT !.unit = u]]
    /\ UNCHANGED <<branch, lease, streamVars, lapsed, unretained, unfit>>

\* A conflict is observed; or the call ends without an event, which it does at the
\* latest when it finds the repository cancelled.
Analyze(p) ==
    /\ pc[p] = "analyze"
    /\ \/ /\ RecordConflicted(job[p].unit) /\ UNCHANGED <<cancelled, integratedCommits>>
          /\ Done(p)
       \/ Active /\ Goto(p, "enter") /\ UNCHANGED streamVars
       \/ Done(p) /\ UNCHANGED streamVars
    /\ UNCHANGED <<branch, lease, history>>

Enter(p) ==
    /\ pc[p] = "enter"
    /\ \/ Acquire(p) /\ Goto(p, "build")
       \/ UNCHANGED lease /\ Goto(p, "rejectUnlessValidated")
    /\ UNCHANGED <<branch, streamVars, history>>

\* How the critical section ends: with a receipt that is rejected, or with an error.
Leave(p, then) ==
    /\ pc' = [pc EXCEPT ![p] = "unlock"]
    /\ job' = [job EXCEPT ![p] = [NoJob EXCEPT !.unit = job[p].unit, !.then = then]]
Receipt(p) == Leave(p, "reject")
Error(p)   == Leave(p, "rejectUnlessValidated")

Build(p) ==
    LET u == job[p].unit IN
    /\ pc[p] = "build"
    /\ \/ /\ Held(p) /\ Change(u) \notin Range(branch)
          /\ pc' = [pc EXCEPT ![p] = "prepare"]
          /\ job' = [job EXCEPT ![p].base = branch, ![p].result = Append(branch, Change(u))]
       \/ Receipt(p)
       \/ Error(p)
    /\ UNCHANGED <<branch, lease, streamVars, history>>

\* The cancellation is looked at, and onPrepared appends the candidate.
Prepare(p) ==
    /\ pc[p] = "prepare"
    /\ \/ /\ Held(p) /\ Active
          /\ RecordValidated(job[p].unit, job[p].base, job[p].result)
          /\ Goto(p, "guard")
       \/ Receipt(p) /\ UNCHANGED <<unit, poison>>
       \/ Error(p) /\ UNCHANGED <<unit, poison>>
    /\ UNCHANGED <<branch, lease, cancelled, integratedCommits, history>>

\* Cancellation and lease are looked at once more.
Guard(p) ==
    /\ pc[p] = "guard"
    /\ \/ Held(p) /\ Active /\ Goto(p, "swap")
       \/ Receipt(p)
       \/ Error(p)
    /\ UNCHANGED <<branch, lease, streamVars, history>>

\* Mutant: update-ref without the expected old value.
Swap_Blind(p) ==
    /\ pc[p] = "swap"
    /\ branch' = job[p].result
    /\ Goto(p, "evidence")
    /\ UNCHANGED <<lease, streamVars, history>>

\* update-ref: done or refused, or ended by its time limit with the one or the other.
Swap(p) ==
    /\ pc[p] = "swap"
    /\ \/ /\ branch = job[p].base /\ branch' = job[p].result
          /\ Goto(p, "evidence") \/ Goto(p, "observe")
       \/ /\ UNCHANGED branch
          /\ Receipt(p) \/ Error(p) \/ Goto(p, "observe")
    /\ UNCHANGED <<lease, streamVars, history>>

\* Mutant: an update whose result is uncertain is taken for one without effect.
Observe_NoEffect(p) ==
    /\ pc[p] = "observe"
    /\ Receipt(p)
    /\ UNCHANGED <<branch, lease, streamVars, history>>

\* The lease is looked at and the ref is read; what that leaves open is for
\* reconcileIntegration.
Observe(p) ==
    /\ pc[p] = "observe"
    /\ \/ branch = job[p].result /\ Goto(p, "evidence")
       \/ branch = job[p].base /\ (Receipt(p) \/ Error(p))
       \/ Leave(p, "idle")
    /\ UNCHANGED <<branch, lease, streamVars, history>>

\* onCommitted, and if it throws the unit stays validated; then the candidate is removed.
\* The error of a removal that could not even be recorded takes the place of the receipt.
Evidence(p) ==
    /\ pc[p] = "evidence"
    /\ RecordCommitted(job[p].unit, job[p].result) \/ UNCHANGED <<unit, poison, integratedCommits>>
    /\ \/ Leave(p, "idle") /\ UNCHANGED unretained
       \/ Error(p) /\ unretained' = TRUE
    /\ UNCHANGED <<branch, lease, cancelled, lapsed, repeated, unfit>>

Unlock(p) ==
    /\ pc[p] = "unlock"
    /\ Release(p)
    /\ IF job[p].then = "idle" THEN Done(p) ELSE Goto(p, job[p].then)
    /\ UNCHANGED <<branch, streamVars, history>>

Reject(p) ==
    /\ pc[p] \in {"reject", "rejectUnlessValidated"}
    /\ IF pc[p] = "rejectUnlessValidated" /\ (poison \/ unit[job[p].unit].status = "validated")
       THEN UNCHANGED <<unit, poison>>
       ELSE RecordRejected(job[p].unit)
    /\ Done(p)
    /\ UNCHANGED <<branch, lease, cancelled, integratedCommits, history>>

-----------------------------------------------------------------------------
(* reconcileIntegration                                                     *)

\* Mutant: any unit may be reconciled.
Reconcilable_Any(u) == Readable
Reconcilable(u) == Readable /\ unit[u].status = "validated"

Reconcile(p, u) ==
    /\ Reconcilable(u)
    /\ Begin(p, u, "reconcileEnter")
    /\ job' = [job EXCEPT ![p] = [NoJob EXCEPT !.unit = u, !.base = unit[u].expected,
                                               !.result = unit[u].result]]
    /\ UNCHANGED <<branch, lease, streamVars, lapsed, unretained, unfit>>

ReconcileEnter(p) ==
    /\ pc[p] = "reconcileEnter"
    /\ \/ Acquire(p) /\ Goto(p, "reconcileRead")
       \/ UNCHANGED lease /\ Done(p)
    /\ UNCHANGED <<branch, streamVars, history>>

\* The ref is neither of the two when a later integration is on top of the unit's: it is
\* not looked for below the head.
ReconcileRead(p) ==
    /\ pc[p] = "reconcileRead"
    /\ \/ Held(p) /\ branch = job[p].result /\ Goto(p, "reconcileCommitted")
       \/ Held(p) /\ branch = job[p].base /\ Goto(p, "reconcileNoEffect")
       \/ Leave(p, "idle")
    /\ UNCHANGED <<branch, lease, streamVars, history>>

\* The status of the unit is not looked at again.
ReconcileRecord(p) ==
    LET u == job[p].unit IN
    /\ \/ pc[p] = "reconcileCommitted" /\ Held(p) /\ RecordCommitted(u, job[p].result)
       \/ pc[p] = "reconcileNoEffect" /\ Held(p) /\ RecordRejected(u) /\ UNCHANGED integratedCommits
       \/ /\ pc[p] \in {"reconcileCommitted", "reconcileNoEffect"}
          /\ UNCHANGED <<unit, poison, integratedCommits>>
    /\ Leave(p, "idle")
    /\ UNCHANGED <<branch, lease, cancelled, history>>

-----------------------------------------------------------------------------
(* cancel                                                                   *)

Cancel(p) ==
    /\ pc[p] = "idle"
    /\ Goto(p, "cancelEnter")
    /\ UNCHANGED <<branch, lease, streamVars, history>>

\* Mutant: the cancellation does not wait for the lease.
CancelEnter_Unserialized(p) ==
    /\ pc[p] = "cancelEnter"
    /\ cancelled' = TRUE /\ Done(p)
    /\ UNCHANGED <<branch, lease, unit, integratedCommits, poison, history>>

CancelEnter(p) ==
    /\ pc[p] = "cancelEnter"
    /\ \/ Acquire(p) /\ Goto(p, "cancelAppend")
       \/ UNCHANGED lease /\ Done(p)
    /\ UNCHANGED <<branch, streamVars, history>>

CancelAppend(p) ==
    /\ pc[p] = "cancelAppend"
    /\ cancelled' = (cancelled \/ Held(p))
    /\ UNCHANGED <<poison, unfit>> \/ (Held(p) /\ Unfit)
    /\ Leave(p, "idle")
    /\ UNCHANGED <<branch, lease, unit, integratedCommits, lapsed, repeated, unretained>>

-----------------------------------------------------------------------------
Crash(p) ==
    /\ pc[p] # "idle"
    /\ Done(p)
    /\ lease' = IF Held(p) THEN [lease EXCEPT !.owner = NoProc] ELSE lease
    /\ UNCHANGED <<branch, streamVars, history>>

IntegrateStep(p) ==
    \/ Analyze(p) \/ Enter(p) \/ Build(p) \/ Prepare(p) \/ Guard(p) \/ Swap(p)
    \/ Observe(p) \/ Evidence(p) \/ Unlock(p) \/ Reject(p)
OtherStep(p) ==
    \/ ReconcileEnter(p) \/ ReconcileRead(p) \/ ReconcileRecord(p)
    \/ CancelEnter(p) \/ CancelAppend(p)

Next ==
    \/ LeaseElapses
    \/ \E u \in Units : Operator(u) \/ \E p \in Procs : Integrate(p, u) \/ Reconcile(p, u)
    \/ \E p \in Procs : IntegrateStep(p) \/ OtherStep(p) \/ Cancel(p) \/ Crash(p)

Spec == Init /\ [][Next]_vars

-----------------------------------------------------------------------------
TypeOK ==
    /\ branch \in Commits
    /\ lease \in [owner : Procs \cup {NoProc}, live : BOOLEAN]
    /\ unit \in [Units -> UnitViews] /\ \A u \in Units : unit[u].source <= MaxAttempts[u]
    /\ cancelled \in BOOLEAN /\ poison \in BOOLEAN
    /\ integratedCommits \subseteq Commits
    /\ pc \in [Procs -> PC] /\ job \in [Procs -> Jobs]
    /\ history \in BOOLEAN \X BOOLEAN \X BOOLEAN \X BOOLEAN

Orderly == ~repeated /\ ~unretained

\* The stream stays readable through crashes, races, elapsed leases, uncertain updates and
\* cancellations, as long as no call is repeated, no candidate of a commit is left behind
\* without a record, and no operator gives a replan, a correction, a decision or a
\* cancellation what the call lets pass and the projection refuses.
ReadableStream == Orderly /\ ~unfit => ~poison

\* What the branch holds of a unit that the journal rejects, has in conflict or forms
\* anew was recorded as integrated before: neither a crash nor an uncertain update-ref is
\* settled the wrong way.
RejectedNeverLands ==
    Orderly => \A u \in Units :
        /\ unit[u].status \in {"formed", "rejected", "conflicted", "awaiting_approval"}
        /\ Change(u) \in Range(branch)
        => \E commit \in integratedCommits : Change(u) \in Range(commit)

\* Once a cancellation is durable the integration ref never moves again
\* (serializeRepositoryCancellation waits for the lease).
CancelledIsFinal == [][cancelled /\ ~lapsed => branch' = branch]_vars

Serial == INSTANCE IntegrationBranch

\* Even with leases that elapse and calls that are repeated the branch loses nothing,
\* lands nothing twice, and what is recorded as integrated is part of it.
ImplementsIntegrationBranch == Serial!Spec
=============================================================================
