---------------------------- MODULE DaemonLease ----------------------------
(***************************************************************************)
(* The scheduler daemon lease of leases/daemon-lease.ts and the fenced     *)
(* append of JournalScheduler, run by several operating system processes   *)
(* over one SQLite journal.  Each process is one processIncarnation.       *)
(*                                                                         *)
(* The daemon-lease stream is represented by its projection                *)
(* (projectDaemonLease): status, owner and expiry.  An append succeeds     *)
(* only when the stream version is the one its process read; `current`     *)
(* holds the processes for which it still is.  An event the projection     *)
(* rejects stays in the stream, and from then on every inspect() throws:   *)
(* that is `poison`.                                                       *)
(*                                                                         *)
(* One step is one journal transaction or one read, because another        *)
(* process can run between any two of them.  Wall-clock milliseconds are   *)
(* the ticks of `now`, one clock for the host.  A call that throws without *)
(* having changed anything is no step.                                     *)
(***************************************************************************)
EXTENDS Naturals, Sequences

CONSTANTS Daemons,     \* daemon incarnations
          NoProc,      \* no owner yet
          Duration,    \* DAEMON_LEASE_DURATION_MS, in ticks
          MaxTime,     \* bound: the last tick of the clock
          MaxLog       \* bound: entries of the scheduler stream

ASSUME NoProcAssumption   == NoProc \notin Daemons
ASSUME DurationAssumption == Duration \in Nat \ {0}
ASSUME BoundsAssumption   == MaxTime \in Nat /\ MaxLog \in Nat

VARIABLES now,        \* Date.now() of the host
          lease,      \* projection of the daemon-lease stream
          poison,     \* the projection rejects the daemon-lease stream
          current,    \* who read the version the daemon-lease stream still has
          pc,         \* where each incarnation is
          log,        \* scheduler stream: the writer of each entry
          logCurrent  \* who read the version the scheduler stream still has

leaseVars == <<lease, poison, current>>
logVars   == <<log, logCurrent>>
daemonVars == <<now, lease, poison, current, pc, log, logCurrent>>

\* "idle" runs without the lease; "gone" crashed; "done" stopped cleanly.
PC == {"out", "idle", "replace", "inspectAgain", "acquire", "held", "renew",
       "append", "done", "gone"}
Running(p) == pc[p] \notin {"out", "done", "gone"}

LeaseViews == [status : {"none", "active", "released", "replaced"},
               owner : Daemons \cup {NoProc}, expires : Nat]

LeaseInit ==
    /\ now = 0
    /\ lease = [status |-> "none", owner |-> NoProc, expires |-> 0]
    /\ poison = FALSE
    /\ current = {}
    /\ pc = [p \in Daemons |-> "out"]
    /\ log = <<>>
    /\ logCurrent = {}

Goto(p, label) == pc' = [pc EXCEPT ![p] = label]

Tick ==
    /\ now < MaxTime
    /\ now' = now + 1
    /\ UNCHANGED <<leaseVars, pc, logVars>>

Launch(p) ==
    /\ pc[p] = "out"
    /\ Goto(p, "idle")
    /\ UNCHANGED <<now, leaseVars, logVars>>

-----------------------------------------------------------------------------
(* The daemon-lease stream                                                  *)

ActiveFor(p) == ~poison /\ lease.status = "active" /\ lease.owner = p
\* Mutants of ProvenDead: an expired lease is free for all; a dead owner is
\* believed to live until its lease expires.
ProvenDead_Expired(p) == now >= lease.expires
ProvenDead_Lapsed(p) == pc[p] = "gone" /\ now >= lease.expires + Duration

ProvenDead(p) == pc[p] = "gone"

\* An append at the version p read: accepted by the projection, or poisoning it.
Accepted(p, view) ==
    p \in current /\ lease' = view /\ current' = {} /\ UNCHANGED poison
Rejected(p) ==
    p \in current /\ poison' = TRUE /\ current' = {} /\ UNCHANGED lease
Conflict(p) ==
    p \notin current /\ UNCHANGED leaseVars

ReadVersion(p) == current' = current \cup {p} /\ UNCHANGED <<lease, poison>>

-----------------------------------------------------------------------------
(* acquire: inspect, replace a dead owner, inspect again, append.  The      *)
(* owner of an unexpired lease is given it back, and a lease whose owner is *)
(* not proven dead makes acquire throw: neither changes anything.           *)

InspectDead(p) ==
    /\ pc[p] = "idle"
    /\ ~poison /\ lease.status = "active"
    /\ ProvenDead(lease.owner)
    /\ ReadVersion(p)
    /\ Goto(p, "replace")
    /\ UNCHANGED <<now, logVars>>

InspectFree(p) ==
    /\ pc[p] = "idle"
    /\ ~poison /\ lease.status # "active"
    /\ Goto(p, "inspectAgain")
    /\ UNCHANGED <<now, leaseVars, logVars>>

\* Mutant: the replacement is appended whatever the version is now.
AppendReplaced_AnyVersion(p) ==
    /\ pc[p] = "replace"
    /\ lease' = [lease EXCEPT !.status = "replaced"] /\ current' = {} /\ UNCHANGED poison
    /\ Goto(p, "inspectAgain")
    /\ UNCHANGED <<now, logVars>>

AppendReplaced(p) ==
    /\ pc[p] = "replace"
    /\ \/ Conflict(p) /\ Goto(p, "idle")
       \/ Accepted(p, [lease EXCEPT !.status = "replaced"]) /\ Goto(p, "inspectAgain")
    /\ UNCHANGED <<now, logVars>>

\* Only the version is taken from the second inspect(), never the status.
InspectAgain(p) ==
    /\ pc[p] = "inspectAgain"
    /\ ReadVersion(p)
    /\ Goto(p, IF poison THEN "idle" ELSE "acquire")
    /\ UNCHANGED <<now, logVars>>

AppendAcquired(p) ==
    /\ pc[p] = "acquire"
    /\ \/ Conflict(p) /\ Goto(p, "idle")
       \/ /\ lease.status # "active"
          /\ Accepted(p, [status |-> "active", owner |-> p, expires |-> now + Duration])
          /\ Goto(p, "held")
       \/ /\ lease.status = "active"
          /\ Rejected(p)
          /\ Goto(p, "idle")
    /\ UNCHANGED <<now, logVars>>

-----------------------------------------------------------------------------
(* renew reads the clock twice: for its check and for renewedAtMs.          *)

CheckRenewal(p) ==
    /\ pc[p] = "held"
    /\ ActiveFor(p)
    /\ now < lease.expires
    /\ ReadVersion(p)
    /\ Goto(p, "renew")
    /\ UNCHANGED <<now, logVars>>

AppendRenewed(p) ==
    /\ pc[p] = "renew"
    /\ \/ Conflict(p)
       \/ now < lease.expires /\ Accepted(p, [lease EXCEPT !.expires = now + Duration])
       \/ now >= lease.expires /\ Rejected(p)
    /\ Goto(p, "held")
    /\ UNCHANGED <<now, logVars>>

\* Mutant: an incarnation goes on with an append after its stop.
Release_GoesOn(p) ==
    /\ pc[p] = "held" /\ ActiveFor(p)
    /\ lease' = [lease EXCEPT !.status = "released"] /\ current' = {}
    /\ Goto(p, "append")
    /\ UNCHANGED <<now, poison, logVars>>

\* stop() releases without looking at the expiry.
Release(p) ==
    /\ pc[p] = "held"
    /\ ActiveFor(p)
    /\ lease' = [lease EXCEPT !.status = "released"]
    /\ current' = {}
    /\ Goto(p, "done")
    /\ UNCHANGED <<now, poison, logVars>>

-----------------------------------------------------------------------------
(* JournalScheduler.append: assertActive, read the scheduler stream, append *)
(* at the version read.  The lease is not part of that transaction.         *)

AssertActive(p) ==
    /\ pc[p] = "held"
    /\ Len(log) < MaxLog
    /\ ActiveFor(p)
    /\ now < lease.expires
    /\ logCurrent' = logCurrent \cup {p}
    /\ Goto(p, "append")
    /\ UNCHANGED <<now, leaseVars, log>>

AppendAtomically(p) ==
    /\ pc[p] = "append"
    /\ IF p \in logCurrent
       THEN log' = Append(log, p) /\ logCurrent' = {}
       ELSE UNCHANGED logVars
    /\ Goto(p, "held")
    /\ UNCHANGED <<now, leaseVars>>

\* kill -9, power loss: nothing is released.
Kill(p) ==
    /\ Running(p)
    /\ Goto(p, "gone")
    /\ UNCHANGED <<now, leaseVars, logVars>>

Acquire(p) ==
    \/ InspectDead(p) \/ InspectFree(p)
    \/ AppendReplaced(p) \/ InspectAgain(p) \/ AppendAcquired(p)
Renew(p) == CheckRenewal(p) \/ AppendRenewed(p)
Mutate(p) == AssertActive(p) \/ AppendAtomically(p)

LeaseNext ==
    \/ Tick
    \/ \E p \in Daemons : Launch(p) \/ Acquire(p) \/ Renew(p) \/ Mutate(p)
                          \/ Release(p) \/ Kill(p)

LeaseSpec == LeaseInit /\ [][LeaseNext]_daemonVars

\* A running process executes its own synchronous code.  A process launched calls
\* acquire; when that throws it ends, which is Kill, or calls it again.  Nothing forces
\* a launch, a stop, a crash or the clock.
Fairness == \A p \in Daemons : WF_daemonVars(Acquire(p)) /\ WF_daemonVars(AppendRenewed(p))
                               /\ WF_daemonVars(AppendAtomically(p))
FairSpec == LeaseSpec /\ Fairness

-----------------------------------------------------------------------------
TypeOK ==
    /\ now \in Nat
    /\ lease \in LeaseViews
    /\ poison \in BOOLEAN
    /\ current \subseteq Daemons
    /\ pc \in [Daemons -> PC]
    /\ log \in Seq(Daemons)
    /\ logCurrent \subseteq Daemons

\* An incarnation between assertActive and its append is still the recorded owner
\* of the lease: the check of append (journal-scheduler.ts l.498) is made outside the
\* transaction and yet never goes stale, because a lease is replaced only after its
\* owner is proven dead.
CheckedOwnerStillOwns ==
    \A p \in Daemons : pc[p] = "append" => lease.status = "active" /\ lease.owner = p

\* Of the incarnations that run and believe they hold the lease there is at
\* most one, whatever replacements, races and conflicts came before.
OneHolder ==
    \A p, q \in Daemons :
        pc[p] \in {"held", "renew", "append"} /\ pc[q] \in {"held", "renew", "append"}
            => p = q

\* The entries of one incarnation in the scheduler stream are contiguous: no zombie
\* daemon appends after its replacement has.
NoZombieAppend ==
    \A i, j, k \in 1..Len(log) :
        (i < j /\ j < k /\ log[i] = log[k]) => log[j] = log[i]

\* A lease left behind by a crash is replaced, as long as some other
\* incarnation keeps running and the stream stays readable.
DeadOwnerReplaced ==
    \A p, q \in Daemons :
        (lease.status = "active" /\ lease.owner = p /\ pc[p] = "gone" /\ Running(q))
            ~> (lease.owner # p \/ lease.status # "active" \/ poison \/ ~Running(q))

\* What the refusal in acquire says: "healthy or unverified scheduler daemon lease
\* cannot be taken over" (daemon-lease.ts l.36).  No append of acquired may land on the
\* active lease of another incarnation; in the code one can, when that lease was
\* acquired between the two inspections, and the stream is unreadable from then on.
NeverAcquiredOverActive ==
    [][\A p \in Daemons : AppendAcquired(p) => poison' = poison]_daemonVars

-----------------------------------------------------------------------------
Fenced == INSTANCE FencedLog WITH
    Procs <- Daemons,
    owner <- IF lease.status = "active" THEN lease.owner ELSE NoProc,
    gone  <- {p \in Daemons : pc[p] \in {"gone", "done"}}

\* The lease and the fenced append implement the log with one writer at a time.
ImplementsFencedLog == Fenced!Spec
=============================================================================
