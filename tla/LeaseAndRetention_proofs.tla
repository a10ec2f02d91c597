--------------------- MODULE LeaseAndRetention_proofs ----------------------
(***************************************************************************)
(* What processes that share one SQLite journal cannot do to one another:  *)
(* the daemons that contend for its lease, and the operations of its       *)
(* retention.                                                              *)
(*                                                                         *)
(* DaemonLease, for any number of incarnations, any duration and bounds:   *)
(* while an incarnation believes it holds the lease it is the recorded     *)
(* owner, because the only step that takes a lease from its owner starts   *)
(* from the version at which that owner was seen dead, and the dead stay   *)
(* dead.                                                                   *)
(*                                                                         *)
(* JournalRetention, for any processes, readers, boundaries, cursors and   *)
(* limits of a page or an archive: what a prune deletes is in the archive  *)
(* and behind every projection; the record of an operation is true and an  *)
(* interrupted one can be settled; and those who read the combined journal *)
(* read a complete log.                                                    *)
(***************************************************************************)
EXTENDS DaemonLease, JournalRetention, FiniteSetTheorems, WellFoundedInduction, TLAPS

-----------------------------------------------------------------------------
(* DaemonLease.                                                            *)

Holds(p) == pc[p] \in {"held", "renew", "append"}

\* Who believes it holds the lease is its recorded owner.
HolderOwns == \A p \in Daemons : Holds(p) => lease.status = "active" /\ lease.owner = p

\* A replacement that would still be appended is that of a dead owner.
ReplacedIsDead ==
    \A p \in Daemons : pc[p] = "replace" /\ p \in current
        => lease.status = "active" /\ lease.owner \in Daemons /\ pc[lease.owner] = "gone"

ActiveIsOwned == lease.status = "active" => lease.owner \in Daemons

LeaseInv == TypeOK /\ ActiveIsOwned /\ HolderOwns /\ ReplacedIsDead

-----------------------------------------------------------------------------
LEMMA InitLeaseInv == LeaseInit => LeaseInv
<1> SUFFICES ASSUME LeaseInit PROVE LeaseInv
  OBVIOUS
<1>1. lease \in LeaseViews /\ lease.status = "none"
  BY DEF LeaseInit, LeaseViews
<1>2. TypeOK
  <2>1. pc \in [Daemons -> PC]
    BY DEF LeaseInit, PC
  <2>2. log \in Seq(Daemons)
    BY DEF LeaseInit
  <2>3. now \in Nat /\ poison \in BOOLEAN /\ current \subseteq Daemons /\ logCurrent \subseteq Daemons
    BY DEF LeaseInit
  <2> QED BY <1>1, <2>1, <2>2, <2>3 DEF TypeOK
<1>3. ActiveIsOwned /\ HolderOwns /\ ReplacedIsDead
  BY <1>1 DEF LeaseInit, ActiveIsOwned, HolderOwns, Holds, ReplacedIsDead
<1> QED BY <1>2, <1>3 DEF LeaseInv

LEMMA LaunchLeaseInv == ASSUME LeaseInv, NEW p \in Daemons, Launch(p) PROVE LeaseInv'
BY DEF LeaseInv, TypeOK, LeaseViews, PC, ActiveIsOwned, HolderOwns, Holds, ReplacedIsDead,
       Launch, Goto, leaseVars, logVars

LEMMA AcquireLeaseInv == ASSUME LeaseInv, NEW p \in Daemons, Acquire(p) PROVE LeaseInv'
<1> USE NoProcAssumption, DurationAssumption
<1> USE DEF LeaseInv, TypeOK, PC, Goto, leaseVars, logVars
<1>1. CASE InspectDead(p)
  <2>1. lease.owner \in Daemons /\ pc[lease.owner] = "gone"
    BY <1>1 DEF InspectDead, ProvenDead, ActiveIsOwned
  <2> QED BY <1>1, <2>1 DEF InspectDead, ReadVersion, ActiveIsOwned, HolderOwns, Holds, ReplacedIsDead
<1>2. CASE InspectFree(p)
  BY <1>2 DEF InspectFree, ActiveIsOwned, HolderOwns, Holds, ReplacedIsDead
<1>3. CASE AppendReplaced(p)
  BY <1>3 DEF AppendReplaced, Conflict, Accepted, LeaseViews, ActiveIsOwned, HolderOwns, Holds, ReplacedIsDead
<1>4. CASE InspectAgain(p)
  BY <1>4 DEF InspectAgain, ReadVersion, ActiveIsOwned, HolderOwns, Holds, ReplacedIsDead
<1>5. CASE AppendAcquired(p)
  <2>1. [status |-> "active", owner |-> p, expires |-> now + Duration] \in LeaseViews
    BY DEF LeaseViews
  <2>2. CASE Conflict(p) /\ Goto(p, "idle")
    BY <1>5, <2>2 DEF AppendAcquired, Conflict, ActiveIsOwned, HolderOwns, Holds, ReplacedIsDead
  <2>3. CASE /\ lease.status # "active"
             /\ Accepted(p, [status |-> "active", owner |-> p, expires |-> now + Duration])
             /\ Goto(p, "held")
    <3>1. TypeOK' /\ lease'.status = "active" /\ lease'.owner = p /\ current' = {}
      BY <1>5, <2>1, <2>3 DEF AppendAcquired, Accepted
    <3>2. \A q \in Daemons : q # p => ~Holds(q)'
      BY <1>5, <2>3 DEF AppendAcquired, HolderOwns, Holds
    <3> QED BY <3>1, <3>2 DEF ActiveIsOwned, HolderOwns, ReplacedIsDead
  <2>4. CASE lease.status = "active" /\ Rejected(p) /\ Goto(p, "idle")
    BY <1>5, <2>4 DEF AppendAcquired, Rejected, ActiveIsOwned, HolderOwns, Holds, ReplacedIsDead
  <2> QED BY <1>5, <2>2, <2>3, <2>4 DEF AppendAcquired
<1> QED BY <1>1, <1>2, <1>3, <1>4, <1>5 DEF Acquire

LEMMA RenewLeaseInv == ASSUME LeaseInv, NEW p \in Daemons, Renew(p) PROVE LeaseInv'
<1> USE NoProcAssumption, DurationAssumption
<1> USE DEF LeaseInv, TypeOK, PC, Goto, leaseVars, logVars, ActiveIsOwned, HolderOwns, Holds, ReplacedIsDead
<1>1. CASE CheckRenewal(p)
  BY <1>1 DEF CheckRenewal, ReadVersion
<1>2. CASE AppendRenewed(p)
  <2>1. /\ [lease EXCEPT !.expires = now + Duration] \in LeaseViews
        /\ [lease EXCEPT !.expires = now + Duration].status = lease.status
        /\ [lease EXCEPT !.expires = now + Duration].owner = lease.owner
    BY DEF LeaseViews
  <2>2. TypeOK' /\ lease'.status = lease.status /\ lease'.owner = lease.owner
    BY <1>2, <2>1 DEF AppendRenewed, Conflict, Accepted, Rejected
  <2> QED BY <1>2, <2>2 DEF AppendRenewed, Conflict, Accepted, Rejected
<1> QED BY <1>1, <1>2 DEF Renew

LEMMA MutateLeaseInv == ASSUME LeaseInv, NEW p \in Daemons, Mutate(p) PROVE LeaseInv'
<1> USE DEF LeaseInv, TypeOK, PC, Goto, leaseVars, logVars, ActiveIsOwned, HolderOwns, Holds, ReplacedIsDead
<1>1. CASE AssertActive(p)
  BY <1>1 DEF AssertActive
<1>2. CASE AppendAtomically(p)
  BY <1>2 DEF AppendAtomically
<1> QED BY <1>1, <1>2 DEF Mutate

LEMMA ReleaseLeaseInv == ASSUME LeaseInv, NEW p \in Daemons, Release(p) PROVE LeaseInv'
BY DEF LeaseInv, TypeOK, PC, LeaseViews, ActiveIsOwned, HolderOwns, Holds, ReplacedIsDead,
       Release, ActiveFor, Goto, logVars

LEMMA KillLeaseInv == ASSUME LeaseInv, NEW p \in Daemons, Kill(p) PROVE LeaseInv'
BY DEF LeaseInv, TypeOK, PC, ActiveIsOwned, HolderOwns, Holds, ReplacedIsDead, Kill, Goto, leaseVars, logVars

LEMMA NextLeaseInv == LeaseInv /\ [LeaseNext]_daemonVars => LeaseInv'
<1> SUFFICES ASSUME LeaseInv, [LeaseNext]_daemonVars PROVE LeaseInv'
  OBVIOUS
<1>1. CASE Tick
  BY <1>1 DEF LeaseInv, TypeOK, ActiveIsOwned, HolderOwns, Holds, ReplacedIsDead, Tick, leaseVars, logVars
<1>2. CASE UNCHANGED daemonVars
  BY <1>2 DEF LeaseInv, TypeOK, ActiveIsOwned, HolderOwns, Holds, ReplacedIsDead, daemonVars
<1>3. ASSUME NEW p \in Daemons,
             Launch(p) \/ Acquire(p) \/ Renew(p) \/ Mutate(p) \/ Release(p) \/ Kill(p)
      PROVE  LeaseInv'
  BY <1>3, LaunchLeaseInv, AcquireLeaseInv, RenewLeaseInv, MutateLeaseInv, ReleaseLeaseInv, KillLeaseInv
<1> QED BY <1>1, <1>2, <1>3 DEF LeaseNext

LEMMA SpecLeaseInv == LeaseSpec => []LeaseInv
BY InitLeaseInv, NextLeaseInv, PTL DEF LeaseSpec

-----------------------------------------------------------------------------
\* The state of the lease, of the clock and of the streams has its type.
THEOREM LeaseTypeOK == LeaseSpec => []TypeOK
<1>1. LeaseInv => TypeOK BY DEF LeaseInv
<1> QED BY SpecLeaseInv, <1>1, PTL

\* Of the incarnations that believe they hold the lease there is at most one.
THEOREM AtMostOneHolder == LeaseSpec => []OneHolder
<1>1. LeaseInv => OneHolder BY DEF LeaseInv, ActiveIsOwned, HolderOwns, Holds, OneHolder
<1> QED BY SpecLeaseInv, <1>1, PTL

\* The check made before the scheduler append's transaction is still true in it.
THEOREM CheckNeverStale == LeaseSpec => []CheckedOwnerStillOwns
<1>1. LeaseInv => CheckedOwnerStillOwns BY DEF LeaseInv, ActiveIsOwned, HolderOwns, Holds, CheckedOwnerStillOwns
<1> QED BY SpecLeaseInv, <1>1, PTL

-----------------------------------------------------------------------------
(* Refinement: every step of the lease is a step of FencedLog or a stutter. *)


LEMMA InitFenced == LeaseInit => Fenced!Init
BY NoProcAssumption DEF LeaseInit, Fenced!Init

LEMMA AcquireFenced == ASSUME LeaseInv, NEW p \in Daemons, Acquire(p) PROVE [Fenced!Next]_Fenced!vars
<1> USE NoProcAssumption
<1> USE DEF LeaseInv, TypeOK, PC, Goto, leaseVars, logVars, Fenced!vars
<1>1. CASE InspectDead(p)
  BY <1>1 DEF InspectDead, ReadVersion
<1>2. CASE InspectFree(p)
  BY <1>2 DEF InspectFree
<1>3. CASE AppendReplaced(p)
  <2>1. CASE Conflict(p) /\ Goto(p, "idle")
    BY <1>3, <2>1 DEF AppendReplaced, Conflict
  <2>2. CASE Accepted(p, [lease EXCEPT !.status = "replaced"]) /\ Goto(p, "inspectAgain")
    <3>1. Fenced!Clear
      BY <1>3, <2>2 DEF AppendReplaced, Accepted, LeaseViews, ReplacedIsDead, Fenced!Clear
    <3> QED BY <3>1 DEF Fenced!Next
  <2> QED BY <1>3, <2>1, <2>2 DEF AppendReplaced
<1>4. CASE InspectAgain(p)
  BY <1>4 DEF InspectAgain, ReadVersion
<1>5. CASE AppendAcquired(p)
  <2>1. CASE Conflict(p) /\ Goto(p, "idle")
    BY <1>5, <2>1 DEF AppendAcquired, Conflict
  <2>2. CASE /\ lease.status # "active"
             /\ Accepted(p, [status |-> "active", owner |-> p, expires |-> now + Duration])
             /\ Goto(p, "held")
    <3>1. Fenced!Take(p)
      BY <1>5, <2>2 DEF AppendAcquired, Accepted, Fenced!Take
    <3> QED BY <3>1 DEF Fenced!Next
  <2>3. CASE lease.status = "active" /\ Rejected(p) /\ Goto(p, "idle")
    BY <1>5, <2>3 DEF AppendAcquired, Rejected
  <2> QED BY <1>5, <2>1, <2>2, <2>3 DEF AppendAcquired
<1> QED BY <1>1, <1>2, <1>3, <1>4, <1>5 DEF Acquire

LEMMA RenewFenced == ASSUME LeaseInv, NEW p \in Daemons, Renew(p) PROVE UNCHANGED Fenced!vars
<1> USE DEF LeaseInv, TypeOK, PC, Goto, leaseVars, logVars, Fenced!vars
<1>1. CASE CheckRenewal(p)
  BY <1>1 DEF CheckRenewal, ReadVersion
<1>2. CASE AppendRenewed(p)
  BY <1>2 DEF AppendRenewed, Conflict, Accepted, Rejected, LeaseViews
<1> QED BY <1>1, <1>2 DEF Renew

LEMMA MutateFenced == ASSUME LeaseInv, NEW p \in Daemons, Mutate(p) PROVE [Fenced!Next]_Fenced!vars
<1> USE DEF LeaseInv, TypeOK, PC, Goto, leaseVars, logVars
<1>1. CASE AssertActive(p)
  BY <1>1 DEF AssertActive, Fenced!vars
<1>2. CASE AppendAtomically(p)
  <2>1. CASE p \in logCurrent
    <3>1. Fenced!Write(p)
      BY <1>2, <2>1 DEF AppendAtomically, HolderOwns, Holds, Fenced!Write
    <3> QED BY <3>1 DEF Fenced!Next
  <2>2. CASE p \notin logCurrent
    BY <1>2, <2>2 DEF AppendAtomically, Fenced!vars
  <2> QED BY <2>1, <2>2
<1> QED BY <1>1, <1>2 DEF Mutate

LEMMA ReleaseFenced == ASSUME LeaseInv, NEW p \in Daemons, Release(p) PROVE Fenced!Stop(p)
BY DEF LeaseInv, TypeOK, PC, LeaseViews, Release, ActiveFor, Goto, logVars, Fenced!Stop

LEMMA KillFenced == ASSUME LeaseInv, NEW p \in Daemons, Kill(p) PROVE Fenced!Crash(p)
BY DEF LeaseInv, TypeOK, PC, Kill, Goto, leaseVars, logVars, Fenced!Crash

LEMMA NextFenced == LeaseInv /\ [LeaseNext]_daemonVars => [Fenced!Next]_Fenced!vars
<1> SUFFICES ASSUME LeaseInv, [LeaseNext]_daemonVars PROVE [Fenced!Next]_Fenced!vars
  OBVIOUS
<1>1. CASE Tick
  BY <1>1 DEF Tick, leaseVars, logVars, Fenced!vars
<1>2. CASE UNCHANGED daemonVars
  BY <1>2 DEF daemonVars, Fenced!vars
<1>3. ASSUME NEW p \in Daemons, Launch(p) PROVE UNCHANGED Fenced!vars
  BY <1>3 DEF LeaseInv, TypeOK, PC, Launch, Goto, leaseVars, logVars, Fenced!vars
<1>4. ASSUME NEW p \in Daemons, Release(p) \/ Kill(p) PROVE Fenced!Next
  BY <1>4, ReleaseFenced, KillFenced DEF Fenced!Next
<1> QED BY <1>1, <1>2, <1>3, <1>4, AcquireFenced, RenewFenced, MutateFenced DEF LeaseNext

\* The daemon lease and the fenced append implement the log with one writer at a time.
THEOREM LeaseImplementsFencedLog == LeaseSpec => ImplementsFencedLog
BY SpecLeaseInv, InitFenced, NextFenced, PTL DEF LeaseSpec, ImplementsFencedLog, Fenced!Spec

-----------------------------------------------------------------------------
(* In every specification that FencedLog allows who wrote an entry owns the *)
(* log or has ended, and the entries of the owner are the last ones: that   *)
(* makes it inductive that no zombie appends.                               *)
LogOwner == IF lease.status = "active" THEN lease.owner ELSE NoProc
Ended == {p \in Daemons : pc[p] \in {"gone", "done"}}

WritersKnown == \A i \in 1..Len(log) : log[i] = LogOwner \/ log[i] \in Ended
OwnerWritesLast ==
    LogOwner \notin Ended =>
        \A i, j \in 1..Len(log) : i < j /\ log[i] = LogOwner => log[j] = LogOwner
LogInv == log \in Seq(Daemons) /\ WritersKnown /\ OwnerWritesLast /\ NoZombieAppend

LEMMA InitLog == Fenced!Init => LogInv
BY DEF Fenced!Init, LogInv, WritersKnown, OwnerWritesLast, NoZombieAppend

LEMMA FencedLogs == ASSUME LogInv, [Fenced!Next]_Fenced!vars PROVE LogInv'
<1> USE DEF LogInv
<1>1. ASSUME NEW p \in Daemons, Fenced!Take(p) PROVE LogInv'
  <2>1. LogOwner = NoProc /\ p \notin Ended /\ LogOwner' = p /\ Ended' = Ended /\ log' = log
    BY <1>1 DEF Fenced!Take, LogOwner, Ended
  <2>2. \A i \in 1..Len(log) : log[i] \in Daemons /\ log[i] \in Ended
    BY <2>1, NoProcAssumption DEF WritersKnown
  <2> QED BY <2>1, <2>2 DEF WritersKnown, OwnerWritesLast, NoZombieAppend
<1>2. ASSUME NEW p \in Daemons, Fenced!Write(p) PROVE LogInv'
  <2>1. /\ Len(log') = Len(log) + 1
        /\ \A i \in 1..Len(log) : log'[i] = log[i]
        /\ log'[Len(log) + 1] = p
        /\ log' \in Seq(Daemons)
    BY <1>2 DEF Fenced!Write
  <2>2. LogOwner' = LogOwner /\ Ended' = Ended /\ LogOwner = p /\ p \notin Ended
    BY <1>2 DEF Fenced!Write, LogOwner, Ended
  <2>3. \A i \in 1..Len(log') : i \in 1..Len(log) \/ i = Len(log) + 1
    BY <2>1
  <2>4. WritersKnown'
    BY <2>1, <2>2, <2>3 DEF WritersKnown
  <2>5. \A i, j \in 1..Len(log) : i < j /\ log[i] = p => log[j] = p
    BY <2>2 DEF OwnerWritesLast
  <2>6. OwnerWritesLast'
    BY <2>1, <2>2, <2>3, <2>5 DEF OwnerWritesLast
  <2>7. NoZombieAppend'
    BY <2>1, <2>3, <2>5 DEF NoZombieAppend
  <2> QED BY <2>1, <2>4, <2>6, <2>7
<1>3. ASSUME NEW p \in Daemons, Fenced!Stop(p) PROVE LogInv'
  <2>1. LogOwner = p /\ LogOwner' = NoProc /\ Ended' = Ended \union {p} /\ log' = log
    BY <1>3 DEF Fenced!Stop, LogOwner, Ended
  <2>2. \A i \in 1..Len(log) : log[i] \in Daemons /\ log[i] \in Ended'
    BY <2>1 DEF WritersKnown
  <2> QED BY <2>1, <2>2, NoProcAssumption DEF WritersKnown, OwnerWritesLast, NoZombieAppend
<1>4. ASSUME NEW p \in Daemons, Fenced!Crash(p) PROVE LogInv'
  <2>1. LogOwner' = LogOwner /\ Ended' = Ended \union {p} /\ log' = log
    BY <1>4 DEF Fenced!Crash, LogOwner, Ended
  <2> QED BY <2>1 DEF WritersKnown, OwnerWritesLast, NoZombieAppend
<1>5. CASE Fenced!Clear
  <2>1. LogOwner \in Ended /\ LogOwner' = NoProc /\ Ended' = Ended /\ log' = log
    BY <1>5 DEF Fenced!Clear, LogOwner, Ended
  <2>2. \A i \in 1..Len(log) : log[i] \in Daemons /\ log[i] \in Ended
    BY <2>1 DEF WritersKnown
  <2> QED BY <2>1, <2>2, NoProcAssumption DEF WritersKnown, OwnerWritesLast, NoZombieAppend
<1>6. CASE UNCHANGED Fenced!vars
  <2>1. LogOwner' = LogOwner /\ Ended' = Ended /\ log' = log
    BY <1>6 DEF Fenced!vars, LogOwner, Ended
  <2> QED BY <2>1 DEF WritersKnown, OwnerWritesLast, NoZombieAppend
<1> QED BY <1>1, <1>2, <1>3, <1>4, <1>5, <1>6 DEF Fenced!Next

\* What implements the log with one writer at a time keeps the entries of one
\* incarnation contiguous, for any number of incarnations.
THEOREM OneWriterAtATime == ImplementsFencedLog => []NoZombieAppend
<1>1. LogInv => NoZombieAppend BY DEF LogInv
<1> QED BY <1>1, InitLog, FencedLogs, PTL DEF ImplementsFencedLog, Fenced!Spec

\* No zombie: an incarnation never appends to the scheduler stream after another has.
THEOREM NoZombie == LeaseSpec => []NoZombieAppend
BY LeaseImplementsFencedLog, OneWriterAtATime, PTL

-----------------------------------------------------------------------------
(* JournalRetention. The inductive invariant: types; nothing points past the head of the     *)
(* journal; and the anchored ranges cover everything up to the head of the *)
(* archive, which is why one comparison with it is enough for a prune.     *)
Records == [id : Nat, kind : {"none", "archive", "maintenance", "prune"},
            state : {"none", "publishing", "authorized", "effect_applied"},
            from : Nat, through : Nat, evidence : BOOLEAN, applied : BOOLEAN]
Places == {"idle", "archive", "write", "evidence", "link", "unlink", "complete",
           "authorize", "effect", "completing", "reconcile"}
PartNames == {"none", "segment", "manifest", "backup"}
Classes == {"none", "fully_published_missing_completion", "published_files_invalid",
            "segment_only_orphan", "manifest_only_orphan", "archive_temp_only",
            "intent_without_publication", "maintenance_backup_published",
            "maintenance_temp_only", "maintenance_no_artifact",
            "effect_applied_missing_completion", "authorization_without_effect"}
Jobs == [at : Places, id : Nat, through : Nat, seen : Nat, request : Nat,
         part : PartNames, class : Classes]

Covered == \A e \in 1..ArchiveHead : \E s \in Anchored : e \in Span(s)
JournalOK ==
    /\ head \in Nat /\ retained \in Nat
    /\ rows \subseteq 1..head
    /\ anchor \in Seq(Nat \X Nat)
    /\ \A s \in Anchored : s[2] <= head
    /\ Covered
OpOK == op \in Records /\ op.through <= head
RequestsOK == /\ calls \in Nat
              /\ requests \subseteq [id : Nat, through : Nat]
              /\ \A r \in requests : r.through <= head
JobsOK == job \in [Procs -> Jobs] /\ \A p \in Procs : job[p].through <= head
CursorOK == cursor \in [exists : BOOLEAN, at : Nat, claim : Nat]
IInv == JournalOK /\ OpOK /\ RequestsOK /\ JobsOK /\ CursorOK

-----------------------------------------------------------------------------
(* The greatest of a bounded set of numbers.                               *)
LEMMA MaxIsMember ==
    ASSUME NEW n \in Nat, NEW S \in SUBSET (0..n), S # {}
    PROVE  Max(S) \in S
<1> DEFINE R == {ab \in Nat \X Nat : ab[1] < ab[2]}
           T == {b \in Nat : \A k \in S : k <= b}
<1>1. IsWellFoundedOn(R, Nat)
  BY NatLessThanWellFounded DEF OpToRel
<1>2. T \subseteq Nat /\ n \in T
  OBVIOUS
<1>3. PICK x \in T : \A y \in T : ~(<<y, x>> \in R)
  <2> HIDE DEF R, T
  <2> QED BY <1>1, <1>2, WFMin
<1>4. x \in S
  <2> SUFFICES ASSUME x \notin S PROVE FALSE
    OBVIOUS
  <2>1. x \in Nat /\ \A k \in S : k \in Nat /\ k < x
    OBVIOUS
  <2>2. PICK k \in S : k \in Nat /\ k < x
    BY <2>1
  <2>3. x - 1 \in T
    BY <2>1, <2>2
  <2>4. <<x - 1, x>> \in R
    BY <2>1, <2>2
  <2> QED BY <1>3, <2>3, <2>4
<1>5. \E m \in S : \A y \in S : m >= y
  <2>1. x \in Nat /\ \A y \in S : y \in Nat /\ y <= x
    OBVIOUS
  <2> QED BY <1>4, <2>1
<1> QED BY <1>5 DEF Max

LEMMA AfterType ==
    ASSUME NEW n \in Nat, NEW S \in SUBSET (0..n)
    PROVE  After(S, 0) \in Nat
<1>1. /\ S \union {0} \in SUBSET (0..n) /\ S \union {0} # {}
      /\ S \union {0} \subseteq Nat
  OBVIOUS
<1>2. Max(S \union {0}) \in S \union {0}
  BY <1>1, MaxIsMember
<1> QED BY <1>1, <1>2 DEF After

-----------------------------------------------------------------------------
(* Frames: what an action that appends audit events, ends a call or moves  *)
(* on keeps.                                                               *)
LEMMA FrameJournal ==
    ASSUME JournalOK, UNCHANGED <<retained, anchor>>,
           UNCHANGED <<head, rows>> \/ Audited(1) \/ Audited(2)
    PROVE  JournalOK' /\ head <= head'
<1>1. head' \in Nat /\ head <= head' /\ rows' \subseteq 1..head'
  <2>0. head \in Nat /\ rows \subseteq 1..head
    BY DEF JournalOK
  <2>1. CASE UNCHANGED <<head, rows>>
    BY <2>0, <2>1
  <2>2. CASE Audited(1)
    BY <2>0, <2>2 DEF Audited
  <2>3. CASE Audited(2)
    BY <2>0, <2>3 DEF Audited
  <2> QED BY <2>1, <2>2, <2>3
<1>2. Anchored' = Anchored /\ ArchiveHead' = ArchiveHead
  BY DEF Anchored, ArchiveHead
<1>3. \A s \in Anchored : s[2] \in Nat
  BY DEF JournalOK, Anchored
<1> QED BY <1>1, <1>2, <1>3 DEF JournalOK, Covered

LEMMA NoOpOK == NoOp \in Records /\ NoOp.through = 0
  BY DEF NoOp, Records

LEMMA FrameOp ==
    ASSUME IInv, head' \in Nat, head <= head', UNCHANGED op \/ op' = NoOp
    PROVE  OpOK'
  BY NoOpOK DEF IInv, JournalOK, OpOK, Records

LEMMA FrameRequests ==
    ASSUME IInv, head' \in Nat, head <= head', calls' \in Nat, requests' \subseteq requests
    PROVE  RequestsOK'
  BY DEF IInv, JournalOK, RequestsOK

LEMMA IdleOK == Idle \in Jobs /\ Idle.through = 0
  BY DEF Idle, Jobs, Places, PartNames, Classes

LEMMA FrameJobs ==
    ASSUME IInv, head' \in Nat, head <= head', NEW p \in Procs,
           \/ UNCHANGED job
           \/ Leaves(p)
           \/ \E place \in Places : Goes(p, place)
    PROVE  JobsOK'
<1>1. CASE UNCHANGED job
  BY <1>1 DEF IInv, JournalOK, JobsOK, Jobs
<1>2. CASE Leaves(p)
  BY <1>2, IdleOK DEF Leaves, IInv, JournalOK, JobsOK, Jobs
<1>3. ASSUME NEW place \in Places, Goes(p, place) PROVE JobsOK'
  <2>1. \A j \in Jobs : /\ [j EXCEPT !.at = place] \in Jobs
                        /\ [j EXCEPT !.at = place].through = j.through
    BY DEF Jobs
  <2>2. job' = [job EXCEPT ![p] = [job[p] EXCEPT !.at = place]]
    BY <1>3 DEF Goes
  <2>3. \A q \in Procs : job[q].through \in Nat
    BY DEF IInv, JobsOK, Jobs
  <2> QED BY <2>1, <2>2, <2>3 DEF IInv, JournalOK, JobsOK
<1> QED BY <1>1, <1>2, <1>3

LEMMA ThrowsKeeps == ASSUME IInv, NEW p \in Procs, Throws(p) PROVE IInv'
<1>1. JournalOK' /\ head' \in Nat /\ head <= head'
  BY FrameJournal DEF Throws, journal, IInv, JournalOK
<1>2. OpOK' /\ RequestsOK'
  BY <1>1, FrameOp, FrameRequests DEF Throws, audit, IInv, RequestsOK
<1>3. JobsOK'
  BY <1>1, FrameJobs DEF Throws
<1> QED BY <1>1, <1>2, <1>3 DEF Throws, Unread, IInv, CursorOK

LEMMA FrameNewJob ==
    ASSUME IInv, head' \in Nat, head <= head', NEW p \in Procs,
           NEW j \in Jobs, j.through <= head, job' = [job EXCEPT ![p] = j]
    PROVE  JobsOK'
<1>1. \A q \in Procs : job[q].through \in Nat
  BY DEF IInv, JobsOK, Jobs
<1>2. j.through \in Nat /\ head \in Nat
  BY DEF Jobs, IInv, JournalOK
<1> QED BY <1>1, <1>2 DEF IInv, JobsOK

LEMMA FramePart ==
    ASSUME IInv, head' \in Nat, head <= head', NEW p \in Procs,
           NEW place \in Places, NEW part \in PartNames,
           job' = [job EXCEPT ![p].at = place, ![p].part = part]
    PROVE  JobsOK'
<1> DEFINE j == [job[p] EXCEPT !.at = place, !.part = part]
<1>1. j \in Jobs /\ j.through = job[p].through
  BY DEF IInv, JobsOK, Jobs
<1>2. job' = [job EXCEPT ![p] = j]
  OBVIOUS
<1>3. j.through <= head
  BY <1>1 DEF IInv, JobsOK
<1> HIDE DEF j
<1> QED BY <1>1, <1>2, <1>3, FrameNewJob

(* An action that appends at most audit events and settles the operation,  *)
(* or leaves it alone, keeps everything that is not the job of a process.  *)
LEMMA Settles ==
    ASSUME IInv, UNCHANGED <<retained, anchor, cursor>>,
           UNCHANGED <<head, rows>> \/ Audited(1) \/ Audited(2),
           UNCHANGED op \/ op' = NoOp,
           calls' \in Nat, requests' \subseteq requests
    PROVE  JournalOK' /\ OpOK' /\ RequestsOK' /\ CursorOK' /\ head' \in Nat /\ head <= head'
<1>1. JournalOK' /\ head <= head' /\ head' \in Nat
  BY FrameJournal DEF IInv, JournalOK
<1> QED BY <1>1, FrameOp, FrameRequests DEF IInv, CursorOK

-----------------------------------------------------------------------------
(* The commands: archive, maintain and the publication of their files.     *)
LEMMA CallsType == ASSUME IInv, Calls PROVE calls' \in Nat
  BY DEF IInv, RequestsOK, Calls

LEMMA ArchiveCallKeeps ==
    ASSUME IInv, NEW p \in Procs, NEW b \in Boundaries, ArchiveCall(p, b)
    PROVE  IInv'
<1> DEFINE j == [Idle EXCEPT !.at = "archive", !.id = calls', !.through = b,
                             !.seen = Len(anchor)]
<1>1. calls' \in Nat /\ Len(anchor) \in Nat /\ b \in Nat
  BY CallsType, RetentionAssumption DEF ArchiveCall, IInv, JournalOK
<1>2. JournalOK' /\ OpOK' /\ RequestsOK' /\ CursorOK' /\ head' \in Nat /\ head <= head'
  BY <1>1, Settles DEF ArchiveCall, journal, audit, Unread
<1>3. j \in Jobs /\ j.through = b
  BY <1>1 DEF Idle, Jobs, Places, PartNames, Classes
<1>4. j.through <= head /\ job' = [job EXCEPT ![p] = j]
  BY <1>3 DEF ArchiveCall
<1> HIDE DEF j
<1>5. JobsOK'
  BY <1>2, <1>3, <1>4, FrameNewJob
<1> QED BY <1>2, <1>5 DEF IInv

LEMMA ArchiveBeginKeeps ==
    ASSUME IInv, NEW p \in Procs, ArchiveBegin(p) PROVE IInv'
<1>1. CASE Throws(p)
  BY <1>1, ThrowsKeeps
<1>2. CASE ~Throws(p)
  <2> DEFINE f == ArchiveHead + 1
             o == [NoOp EXCEPT !.id = job[p].id, !.kind = "archive", !.state = "publishing",
                               !.from = f, !.through = job[p].through]
  <2>1. /\ op' = o /\ Audited(2)
        /\ job' = [job EXCEPT ![p].at = "write", ![p].part = "segment"]
        /\ UNCHANGED <<retained, anchor, past, requests, disk, calls>> /\ Unread
    BY <1>2 DEF ArchiveBegin
  <2>2. JournalOK' /\ head <= head' /\ head' \in Nat
    BY <2>1, FrameJournal DEF IInv, JournalOK
  <2>3. f \in Nat
    BY DEF ArchiveHead, IInv, JournalOK
  <2>4. job[p].id \in Nat /\ job[p].through \in Nat /\ job[p].through <= head
    BY DEF IInv, JobsOK, Jobs
  <2> HIDE DEF f
  <2>5. o \in Records /\ o.through = job[p].through
    BY <2>3, <2>4 DEF NoOp, Records
  <2> HIDE DEF o
  <2>6. OpOK'
    BY <2>1, <2>2, <2>4, <2>5 DEF OpOK, IInv, JournalOK
  <2>7. RequestsOK' /\ CursorOK'
    BY <2>1, <2>2, FrameRequests DEF Unread, IInv, RequestsOK, CursorOK
  <2>8. JobsOK'
    BY <2>1, <2>2, FramePart DEF Places, PartNames
  <2> QED BY <2>2, <2>6, <2>7, <2>8 DEF IInv
<1> QED BY <1>1, <1>2

LEMMA MaintainBeginKeeps ==
    ASSUME IInv, NEW p \in Procs, MaintainBegin(p) PROVE IInv'
<1> DEFINE o == [NoOp EXCEPT !.id = calls', !.kind = "maintenance",
                             !.state = "publishing", !.through = head]
           j == [Idle EXCEPT !.at = "write", !.id = calls', !.part = "backup"]
<1>1. calls' \in Nat /\ head \in Nat
  BY CallsType DEF MaintainBegin, IInv, JournalOK
<1>2. JournalOK' /\ head <= head' /\ head' \in Nat
  BY FrameJournal DEF MaintainBegin, IInv, JournalOK
<1>3. o \in Records /\ o.through = head /\ op' = o
  BY <1>1 DEF NoOp, Records, MaintainBegin
<1>4. j \in Jobs /\ j.through = 0 /\ job' = [job EXCEPT ![p] = j]
  BY <1>1 DEF Idle, Jobs, Places, PartNames, Classes, MaintainBegin
<1> HIDE DEF o, j
<1>5. OpOK'
  BY <1>1, <1>2, <1>3 DEF OpOK
<1>6. RequestsOK' /\ CursorOK'
  BY <1>1, <1>2, FrameRequests DEF MaintainBegin, Unread, IInv, CursorOK
<1>7. JobsOK'
  <2>1. j.through <= head
    BY <1>1, <1>4
  <2> QED BY <1>2, <1>4, <2>1, FrameNewJob
<1> QED BY <1>2, <1>5, <1>6, <1>7 DEF IInv

LEMMA PublicationKeeps ==
    ASSUME IInv, NEW p \in Procs, WriteTemp(p) \/ Link(p) \/ Unlink(p) PROVE IInv'
<1>1. /\ UNCHANGED <<journal, audit, calls, cursor>>
      /\ \/ \E place \in Places : Goes(p, place)
         \/ job' = [job EXCEPT ![p].at = "write", ![p].part = "manifest"]
  <2>1. CASE WriteTemp(p)
    BY <2>1 DEF WriteTemp, Unread, Places
  <2>2. CASE Link(p)
    BY <2>2 DEF Link, Unread, Places
  <2>3. CASE Unlink(p)
    <3>1. UNCHANGED <<journal, audit, calls, cursor>>
      BY <2>3 DEF Unlink, Unread
    <3>2. CASE job[p].part = "segment"
      BY <2>3, <3>1, <3>2 DEF Unlink
    <3>3. CASE job[p].part # "segment"
      <4>1. Goes(p, "complete")
        BY <2>3, <3>3 DEF Unlink, Goes
      <4> QED BY <3>1, <4>1 DEF Places
    <3> QED BY <3>2, <3>3
  <2> QED BY <2>1, <2>2, <2>3
<1>2. JournalOK' /\ OpOK' /\ RequestsOK' /\ CursorOK' /\ head' \in Nat /\ head <= head'
  BY <1>1, Settles DEF journal, audit, IInv, RequestsOK
<1>3. JobsOK'
  BY <1>1, <1>2, FrameJobs, FramePart DEF Places, PartNames
<1> QED BY <1>2, <1>3 DEF IInv

LEMMA RecordEvidenceKeeps ==
    ASSUME IInv, NEW p \in Procs, RecordEvidence(p) PROVE IInv'
<1>1. JournalOK' /\ head <= head' /\ head' \in Nat
  BY FrameJournal DEF RecordEvidence, journal, IInv, JournalOK
<1>2. OpOK'
  BY DEF RecordEvidence, journal, IInv, OpOK, Records
<1>3. RequestsOK' /\ CursorOK'
  BY <1>1, FrameRequests DEF RecordEvidence, Unread, IInv, RequestsOK, CursorOK
<1>4. JobsOK'
  BY <1>1, FrameJobs DEF RecordEvidence, Places
<1> QED BY <1>1, <1>2, <1>3, <1>4 DEF IInv

LEMMA PublishFailsKeeps ==
    ASSUME IInv, NEW p \in Procs, PublishFails(p) PROVE IInv'
<1>1. /\ UNCHANGED <<retained, anchor, cursor, calls, requests>> /\ Leaves(p)
      /\ UNCHANGED <<head, rows>> \/ Audited(1)
      /\ UNCHANGED op \/ op' = NoOp
  BY DEF PublishFails, Settle, audit
<1>2. JournalOK' /\ OpOK' /\ RequestsOK' /\ CursorOK' /\ head' \in Nat /\ head <= head'
  BY <1>1, Settles DEF IInv, RequestsOK
<1>3. JobsOK'
  BY <1>1, <1>2, FrameJobs
<1> QED BY <1>2, <1>3 DEF IInv

-----------------------------------------------------------------------------
(* The anchor grows by the range after its head, so it goes on covering    *)
(* everything up to its head.                                              *)
LEMMA AnchorGrows ==
    ASSUME anchor \in Seq(Nat \X Nat), NEW range \in Nat \X Nat, anchor' = Append(anchor, range)
    PROVE  /\ anchor' \in Seq(Nat \X Nat) /\ Len(anchor') = Len(anchor) + 1 /\ Len(anchor') \in Nat
           /\ ArchiveHead' = range[2] /\ Anchored' = Anchored \union {range}
<1>1. anchor' \in Seq(Nat \X Nat) /\ Len(anchor') = Len(anchor) + 1 /\ Len(anchor') \in Nat
  OBVIOUS
<1>2. anchor'[Len(anchor')] = range
  BY <1>1
<1>3. \A i \in DOMAIN anchor : anchor'[i] = anchor[i]
  OBVIOUS
<1>4. anchor' # <<>>
  BY <1>1
<1>5. ArchiveHead' = range[2]
  BY <1>2, <1>4 DEF ArchiveHead
<1>6. Anchored' = Anchored \union {range}
  <2>1. DOMAIN anchor' = DOMAIN anchor \union {Len(anchor')}
    <3>1. DOMAIN anchor = 1..Len(anchor) /\ Len(anchor) \in Nat
      OBVIOUS
    <3>2. DOMAIN anchor' = 1..Len(anchor')
      BY <1>1
    <3>3. PICK n \in Nat : n = Len(anchor)
      BY <3>1
    <3>4. Len(anchor') = n + 1
      BY <1>1, <3>3
    <3>5. 1..(n + 1) = (1..n) \union {n + 1}
      OBVIOUS
    <3> QED BY <3>1, <3>2, <3>3, <3>4, <3>5
  <2> QED BY <2>1, <1>2, <1>3 DEF Anchored
<1> QED BY <1>1, <1>5, <1>6

LEMMA AnchorKeeps ==
    ASSUME IInv, AnchorArchive
    PROVE  JournalOK' /\ OpOK' /\ RequestsOK' /\ CursorOK' /\ head' \in Nat /\ head <= head'
<1> DEFINE range == <<op.from, op.through>>
<1>1. /\ op.from \in Nat /\ op.through \in Nat /\ op.through <= head
      /\ anchor \in Seq(Nat \X Nat) /\ head \in Nat
  BY DEF IInv, JournalOK, OpOK, Records
<1>2. head' \in Nat /\ head <= head' /\ rows' \subseteq 1..head' /\ retained' \in Nat
  BY DEF AnchorArchive, Audited, IInv, JournalOK
<1>3. anchor' = Append(anchor, range) /\ range \in Nat \X Nat /\ op.from = ArchiveHead + 1
  BY <1>1 DEF AnchorArchive
<1>4. anchor' \in Seq(Nat \X Nat) /\ ArchiveHead' = range[2] /\ Anchored' = Anchored \union {range}
  <2> HIDE DEF range
  <2> QED BY <1>1, <1>3, AnchorGrows
<1>5. ArchiveHead' = op.through
  BY <1>4
<1>6. Anchored' = Anchored \union {range}
  BY <1>4
<1>7. \A s \in Anchored : s[2] \in Nat /\ s[2] <= head
  BY DEF IInv, JournalOK, Anchored
<1>8. \A s \in Anchored' : s[2] <= head'
  BY <1>1, <1>2, <1>6, <1>7
<1>9. Covered'
  <2> SUFFICES ASSUME NEW e \in 1..op.through PROVE \E s \in Anchored' : e \in Span(s)
    BY <1>5 DEF Covered, Span
  <2>0. ArchiveHead \in Nat
    BY <1>1 DEF ArchiveHead
  <2>1. CASE e \in 1..ArchiveHead
    BY <2>1, <1>6 DEF IInv, JournalOK, Covered
  <2>2. CASE e \notin 1..ArchiveHead
    <3>1. e \in op.from..op.through
      BY <2>0, <2>2, <1>1, <1>3
    <3>2. range[1] = op.from /\ range[2] = op.through /\ range \in Anchored'
      BY <1>6
    <3> HIDE DEF range
    <3> QED BY <3>1, <3>2 DEF Span
  <2> QED BY <2>1, <2>2
<1>10. JournalOK'
  BY <1>2, <1>4, <1>8, <1>9 DEF JournalOK
<1>11. OpOK' /\ RequestsOK' /\ CursorOK'
  BY <1>2, FrameOp, FrameRequests DEF AnchorArchive, Settle, Unread, IInv, RequestsOK, CursorOK
<1> QED BY <1>2, <1>10, <1>11

LEMMA CompletionKeeps ==
    ASSUME IInv, NEW p \in Procs,
           CompleteArchive(p) \/ CompleteMaintenance(p) \/ PruneComplete(p)
    PROVE  IInv'
<1>1. Leaves(p)
  BY DEF CompleteArchive, CompleteMaintenance, PruneComplete
<1>2. JournalOK' /\ OpOK' /\ RequestsOK' /\ CursorOK' /\ head' \in Nat /\ head <= head'
  <2>1. CASE CompleteArchive(p)
    BY <2>1, AnchorKeeps DEF CompleteArchive
  <2>2. CASE CompleteMaintenance(p) \/ PruneComplete(p)
    <3>1. /\ UNCHANGED <<retained, anchor, cursor, calls, requests>> /\ op' = NoOp
          /\ Audited(1) \/ Audited(2)
      BY <2>2 DEF CompleteMaintenance, PruneComplete, Settle, Unread
    <3> QED BY <3>1, Settles DEF IInv, RequestsOK
  <2> QED BY <2>1, <2>2
<1>3. JobsOK'
  BY <1>1, <1>2, FrameJobs
<1> QED BY <1>2, <1>3 DEF IInv

-----------------------------------------------------------------------------
(* Pruning.                                                                *)
LEMMA RequestPruneKeeps ==
    ASSUME IInv, NEW b \in Boundaries, RequestPrune(b) PROVE IInv'
<1>1. calls' \in Nat /\ b \in Nat /\ b <= head /\ head \in Nat
  BY CallsType, RetentionAssumption DEF RequestPrune, IInv, JournalOK
<1>2. JournalOK' /\ head <= head' /\ head' \in Nat
  BY FrameJournal DEF RequestPrune, IInv, JournalOK
<1>3. OpOK' /\ CursorOK'
  BY <1>2, FrameOp DEF RequestPrune, Unread, IInv, CursorOK
<1>4. RequestsOK'
  <2>1. requests' = requests \union {[id |-> calls', through |-> b]}
    BY DEF RequestPrune
  <2>2. \A r \in requests : r.through \in Nat /\ r.through <= head
    BY DEF IInv, RequestsOK
  <2> QED BY <1>1, <1>2, <2>1, <2>2 DEF IInv, RequestsOK
<1>5. JobsOK'
  <2>1. UNCHANGED job
    BY DEF RequestPrune
  <2> QED BY <1>2, <2>1 DEF IInv, JournalOK, JobsOK, Jobs
<1> QED BY <1>2, <1>3, <1>4, <1>5 DEF IInv

LEMMA PruneCallKeeps ==
    ASSUME IInv, NEW p \in Procs, NEW r \in requests, PruneCall(p, r) PROVE IInv'
<1> DEFINE j == [Idle EXCEPT !.at = "authorize", !.id = calls',
                             !.through = r.through, !.request = r.id]
<1>1. calls' \in Nat /\ r.through \in Nat /\ r.id \in Nat /\ r.through <= head
  BY CallsType DEF PruneCall, IInv, RequestsOK
<1>2. JournalOK' /\ OpOK' /\ RequestsOK' /\ CursorOK' /\ head' \in Nat /\ head <= head'
  BY <1>1, Settles DEF PruneCall, journal, audit, Unread
<1>3. j \in Jobs /\ j.through = r.through /\ job' = [job EXCEPT ![p] = j]
  BY <1>1 DEF PruneCall, Idle, Jobs, Places, PartNames, Classes
<1> HIDE DEF j
<1>4. JobsOK'
  BY <1>1, <1>2, <1>3, FrameNewJob
<1> QED BY <1>2, <1>4 DEF IInv

LEMMA AuthorizeKeeps == ASSUME IInv, NEW p \in Procs, Authorize(p) PROVE IInv'
<1> DEFINE r == [id |-> job[p].request, through |-> job[p].through]
           o == [NoOp EXCEPT !.id = job[p].id, !.kind = "prune",
                             !.state = "authorized", !.through = job[p].through]
<1>1. CASE Throws(p)
  BY <1>1, ThrowsKeeps
<1>2. CASE /\ Audited(2) /\ Leaves(p)
           /\ UNCHANGED <<retained, anchor, audit, disk, calls>> /\ Unread
  <2>1. JournalOK' /\ OpOK' /\ RequestsOK' /\ CursorOK' /\ head' \in Nat /\ head <= head'
    BY <1>2, Settles DEF audit, Unread, IInv, RequestsOK
  <2>2. JobsOK'
    BY <1>2, <2>1, FrameJobs
  <2> QED BY <2>1, <2>2 DEF IInv
<1>3. CASE /\ requests' = requests \ {r}
           /\ op' = o
           /\ Audited(1)
           /\ Goes(p, "effect")
           /\ UNCHANGED <<retained, anchor, past, disk, calls>> /\ Unread
  <2>1. job[p].id \in Nat /\ job[p].through \in Nat /\ job[p].through <= head
    BY DEF IInv, JobsOK, Jobs
  <2>2. JournalOK' /\ head <= head' /\ head' \in Nat
    BY <1>3, FrameJournal DEF IInv, JournalOK
  <2>3. o \in Records /\ o.through = job[p].through
    BY <2>1 DEF NoOp, Records
  <2> HIDE DEF o
  <2>4. OpOK'
    BY <1>3, <2>1, <2>2, <2>3 DEF OpOK, IInv, JournalOK
  <2>5. RequestsOK' /\ CursorOK'
    BY <1>3, <2>2, FrameRequests DEF Unread, IInv, RequestsOK, CursorOK
  <2>6. JobsOK'
    BY <1>3, <2>2, FrameJobs DEF Places
  <2> QED BY <2>2, <2>4, <2>5, <2>6 DEF IInv
<1> QED BY <1>1, <1>2, <1>3 DEF Authorize

LEMMA PruneEffectKeeps == ASSUME IInv, NEW p \in Procs, PruneEffect(p) PROVE IInv'
<1>1. CASE Throws(p)
  BY <1>1, ThrowsKeeps
<1>2. CASE /\ rows' = {e \in rows : e > op.through}
           /\ retained' = op.through
           /\ op' = [op EXCEPT !.state = "effect_applied", !.applied = TRUE]
           /\ Goes(p, "completing")
           /\ UNCHANGED <<head, anchor, past, requests, disk, calls>> /\ Unread
  <2>1. retained' \in Nat /\ rows' \subseteq 1..head' /\ head' \in Nat /\ head <= head'
    BY <1>2 DEF IInv, JournalOK, OpOK, Records
  <2>2. Anchored' = Anchored /\ ArchiveHead' = ArchiveHead
    BY <1>2 DEF Anchored, ArchiveHead
  <2>3. JournalOK'
    BY <1>2, <2>1, <2>2 DEF IInv, JournalOK, Covered
  <2>4. OpOK'
    BY <1>2 DEF IInv, OpOK, Records
  <2>5. RequestsOK' /\ CursorOK'
    BY <1>2, <2>1, FrameRequests DEF Unread, IInv, RequestsOK, CursorOK
  <2>6. JobsOK'
    BY <1>2, <2>1, FrameJobs DEF Places
  <2> QED BY <2>1, <2>3, <2>4, <2>5, <2>6 DEF IInv
<1> QED BY <1>1, <1>2 DEF PruneEffect

-----------------------------------------------------------------------------
(* A process ends, and what it left is inspected and reconciled.           *)
LEMMA CrashKeeps == ASSUME IInv, NEW p \in Procs, Crash(p) PROVE IInv'
<1>1. JournalOK' /\ OpOK' /\ RequestsOK' /\ CursorOK' /\ head' \in Nat /\ head <= head'
  BY Settles DEF Crash, journal, audit, IInv, RequestsOK
<1>2. JobsOK'
  BY <1>1, FrameJobs DEF Crash
<1> QED BY <1>1, <1>2 DEF IInv

LEMMA ClassType == Class \in Classes
<1>1. CASE op.kind = "archive"
  BY <1>1 DEF Class, Classes
<1>2. CASE op.kind = "maintenance"
  BY <1>2 DEF Class, Classes
<1>3. CASE op.kind \notin {"archive", "maintenance"}
  BY <1>3 DEF Class, Classes
<1> QED BY <1>1, <1>2, <1>3

LEMMA InspectKeeps == ASSUME IInv, NEW p \in Procs, Inspect(p) PROVE IInv'
<1> DEFINE j == [Idle EXCEPT !.at = "reconcile", !.id = op.id, !.class = Class]
<1>1. op.id \in Nat /\ head \in Nat
  BY DEF IInv, JournalOK, OpOK, Records
<1>2. JournalOK' /\ OpOK' /\ RequestsOK' /\ CursorOK' /\ head' \in Nat /\ head <= head'
  BY Settles DEF Inspect, journal, audit, Unread, IInv, RequestsOK
<1>3. job' = [job EXCEPT ![p] = j]
  BY DEF Inspect
<1>4. j \in Jobs /\ j.through = 0
  BY <1>1, ClassType DEF Idle, Jobs, Places, PartNames
<1> HIDE DEF j
<1>5. j.through <= head
  BY <1>1, <1>4
<1>6. JobsOK'
  BY <1>2, <1>3, <1>4, <1>5, FrameNewJob
<1> QED BY <1>2, <1>6 DEF IInv

LEMMA ReconcileKeeps == ASSUME IInv, NEW p \in Procs, Reconcile(p) PROVE IInv'
<1>1. CASE Throws(p)
  BY <1>1, ThrowsKeeps
<1>2. CASE Leaves(p) /\ AnchorArchive
  BY <1>2, AnchorKeeps, FrameJobs DEF IInv
<1>3. CASE /\ Leaves(p) /\ Audited(1) /\ op' = NoOp
           /\ UNCHANGED <<retained, anchor, disk, calls, requests>> /\ Unread
  <2>1. JournalOK' /\ OpOK' /\ RequestsOK' /\ CursorOK' /\ head' \in Nat /\ head <= head'
    BY <1>3, Settles DEF Unread, IInv, RequestsOK
  <2> QED BY <1>3, <2>1, FrameJobs DEF IInv
<1>4. CASE UNCHANGED <<journal, audit, job, calls>> /\ Unread
  <2>1. JournalOK' /\ OpOK' /\ RequestsOK' /\ CursorOK' /\ head' \in Nat /\ head <= head'
    BY <1>4, Settles DEF journal, audit, Unread, IInv, RequestsOK
  <2> QED BY <1>4, <2>1, FrameJobs DEF IInv, JobsOK, Jobs
<1> QED BY <1>1, <1>2, <1>3, <1>4 DEF Reconcile, Settle

-----------------------------------------------------------------------------
(* Appends of others, readers and the projection.                          *)
LEMMA QuietKeeps ==
    ASSUME IInv, UNCHANGED <<retained, anchor, op, requests, calls, job>>,
           UNCHANGED <<head, rows>> \/ Audited(1), CursorOK'
    PROVE  IInv'
<1>1. JournalOK' /\ head' \in Nat /\ head <= head'
  BY FrameJournal DEF IInv, JournalOK
<1>2. OpOK' /\ RequestsOK'
  BY <1>1, FrameOp, FrameRequests DEF IInv, RequestsOK
<1>3. JobsOK'
  BY <1>1 DEF IInv, JournalOK, JobsOK, Jobs
<1> QED BY <1>1, <1>2, <1>3 DEF IInv

LEMMA ReadingKeeps ==
    ASSUME IInv, AppendEvent \/ \E r \in Readers : ReadArchive(r) \/ ReadActive(r)
    PROVE  IInv'
<1>1. /\ UNCHANGED <<retained, anchor, op, requests, calls, job, cursor>>
      /\ UNCHANGED <<head, rows>> \/ Audited(1)
  BY DEF AppendEvent, ReadArchive, ReadActive, journal, audit
<1>2. CursorOK'
  BY <1>1 DEF IInv, CursorOK
<1> QED BY <1>1, <1>2, QuietKeeps

LEMMA PageBounded ==
    ASSUME JournalOK, NEW from
    PROVE  PageOf(ArchivedAfter(from), from) \in SUBSET (0..head)
<1>1. \A s \in Anchored : s \in Nat \X Nat /\ s[2] <= head
  BY DEF JournalOK, Anchored
<1>2. ASSUME NEW s \in Anchored, NEW e \in Span(s) PROVE e \in 0..head
  BY <1>1, <1>2 DEF Span, JournalOK
<1>3. ArchivedAfter(from).events \subseteq 0..head
  BY <1>2 DEF ArchivedAfter, Lowest
<1>4. ActiveAfter(ArchivedAfter(from), from) \subseteq 0..head
  <2>1. rows \subseteq 0..head
    BY DEF JournalOK
  <2>2. \A s, n : Lowest(s, n) \subseteq s
    BY DEF Lowest
  <2>3. ActiveAfter(ArchivedAfter(from), from) \subseteq rows
    BY <2>2 DEF ActiveAfter
  <2> QED BY <2>1, <2>3
<1> QED BY <1>3, <1>4 DEF PageOf

LEMMA CursorKeeps ==
    ASSUME IInv, (\E from \in Starts : EnsureCursor(from)) \/ ClaimProjection \/ CommitProjection
    PROVE  IInv'
<1>1. CursorOK'
  <2>1. ASSUME NEW from \in Starts, EnsureCursor(from) PROVE CursorOK'
    BY <2>1, RetentionAssumption DEF EnsureCursor, CursorOK
  <2>2. CASE ClaimProjection
    <3> DEFINE claim == After(PageOf(ArchivedAfter(cursor.at), cursor.at), 0)
    <3>1. claim \in Nat
      BY PageBounded, AfterType DEF IInv, JournalOK
    <3>2. cursor' = [cursor EXCEPT !.exists = TRUE, !.claim = claim]
      BY <2>2 DEF ClaimProjection
    <3> HIDE DEF claim
    <3> QED BY <3>1, <3>2 DEF IInv, CursorOK
  <2>3. CASE CommitProjection
    BY <2>3 DEF CommitProjection, IInv, CursorOK
  <2> QED BY <2>1, <2>2, <2>3
<1>2. UNCHANGED <<head, rows, retained, anchor, op, requests, calls, job>>
  BY DEF EnsureCursor, ClaimProjection, CommitProjection, CursorOnly, journal, audit
<1> QED BY <1>1, <1>2, QuietKeeps

-----------------------------------------------------------------------------
LEMMA InitIInv == Init => IInv
<1> SUFFICES ASSUME Init PROVE IInv
  OBVIOUS
<1>1. ArchiveHead = 0 /\ Anchored = {}
  BY DEF Init, ArchiveHead, Anchored
<1>2. JournalOK
  BY <1>1 DEF Init, JournalOK, Covered
<1>3. OpOK /\ RequestsOK /\ CursorOK
  BY NoOpOK, RetentionAssumption DEF Init, OpOK, RequestsOK, CursorOK
<1>4. JobsOK
  BY IdleOK DEF Init, JobsOK
<1> QED BY <1>2, <1>3, <1>4 DEF IInv

LEMMA NextIInv == IInv /\ [Next]_vars => IInv'
<1> SUFFICES ASSUME IInv, [Next]_vars PROVE IInv'
  OBVIOUS
<1>1. CASE AppendEvent \/ \E r \in Readers : ReadArchive(r) \/ ReadActive(r)
  BY <1>1, ReadingKeeps
<1>2. ASSUME NEW b \in Boundaries, RequestPrune(b) PROVE IInv'
  BY <1>2, RequestPruneKeeps
<1>3. ASSUME NEW b \in Boundaries, NEW p \in Procs, ArchiveCall(p, b) PROVE IInv'
  BY <1>3, ArchiveCallKeeps
<1>4. ASSUME NEW p \in Procs, NEW r \in requests, PruneCall(p, r) PROVE IInv'
  BY <1>4, PruneCallKeeps
<1>5. ASSUME NEW p \in Procs,
             \/ ArchiveBegin(p) \/ MaintainBegin(p)
             \/ WriteTemp(p) \/ RecordEvidence(p) \/ Link(p) \/ Unlink(p) \/ PublishFails(p)
             \/ CompleteArchive(p) \/ CompleteMaintenance(p)
             \/ Authorize(p) \/ PruneEffect(p) \/ PruneComplete(p)
             \/ Crash(p) \/ Inspect(p) \/ Reconcile(p)
      PROVE  IInv'
  BY <1>5, ArchiveBeginKeeps, MaintainBeginKeeps, PublicationKeeps, RecordEvidenceKeeps,
     PublishFailsKeeps, CompletionKeeps, AuthorizeKeeps, PruneEffectKeeps, CrashKeeps,
     InspectKeeps, ReconcileKeeps
<1>6. CASE (\E from \in Starts : EnsureCursor(from)) \/ ClaimProjection \/ CommitProjection
  BY <1>6, CursorKeeps
<1>7. CASE UNCHANGED vars
  <2>1. /\ UNCHANGED <<retained, anchor, op, requests, calls, job>>
        /\ UNCHANGED <<head, rows>> /\ UNCHANGED cursor
    BY <1>7 DEF vars
  <2>2. CursorOK'
    BY <2>1 DEF IInv, CursorOK
  <2> QED BY <2>1, <2>2, QuietKeeps
<1> QED BY <1>1, <1>2, <1>3, <1>4, <1>5, <1>6, <1>7 DEF Next

(* Whatever moves in the journal, all that the archive head promises is in *)
(* an anchored range: retention.ts compares a boundary with the head alone. *)
THEOREM ArchiveCovered == Spec => []IInv
<1> QED BY InitIInv, NextIInv, PTL DEF Spec

-----------------------------------------------------------------------------
(* Only the effect of a prune deletes, and it looks again at the archive,  *)
(* the cursors and the claims in the transaction that deletes.             *)
LEMMA OnlyPruneDeletes ==
    ASSUME [Next]_vars, ~(\E p \in Procs : PruneEffect(p))
    PROVE  rows \subseteq rows'
<1>1. CASE UNCHANGED rows \/ Audited(1) \/ Audited(2)
  BY <1>1 DEF Audited
<1>2. CASE ~(UNCHANGED rows \/ Audited(1) \/ Audited(2))
  <2>1. ~UNCHANGED vars
    BY <1>2 DEF vars
  <2>2. ~(AppendEvent \/ \E r \in Readers : ReadArchive(r) \/ ReadActive(r))
    BY <1>2 DEF AppendEvent, ReadArchive, ReadActive, journal
  <2>3. \A b \in Boundaries : ~RequestPrune(b) /\ \A p \in Procs : ~ArchiveCall(p, b)
    BY <1>2 DEF RequestPrune, ArchiveCall, journal
  <2>4. \A p \in Procs, r \in requests : ~PruneCall(p, r)
    BY <1>2 DEF PruneCall, journal
  <2>5. \A p \in Procs : ~Throws(p) /\ ~AnchorArchive
    BY <1>2 DEF Throws, AnchorArchive, journal
  <2>6. \A p \in Procs : ~ArchiveBegin(p) /\ ~MaintainBegin(p)
    BY <1>2, <2>5 DEF ArchiveBegin, MaintainBegin
  <2>7. \A p \in Procs : ~WriteTemp(p) /\ ~RecordEvidence(p) /\ ~Link(p) /\ ~Unlink(p)
    BY <1>2 DEF WriteTemp, RecordEvidence, Link, Unlink, journal
  <2>8. \A p \in Procs : ~PublishFails(p)
    BY <1>2 DEF PublishFails
  <2>9. \A p \in Procs : ~CompleteArchive(p) /\ ~CompleteMaintenance(p) /\ ~PruneComplete(p)
    BY <1>2, <2>5 DEF CompleteArchive, CompleteMaintenance, PruneComplete
  <2>10. \A p \in Procs : ~Authorize(p)
    BY <1>2, <2>5 DEF Authorize
  <2>11. \A p \in Procs : ~Crash(p) /\ ~Inspect(p)
    BY <1>2 DEF Crash, Inspect, journal
  <2>12. \A p \in Procs : ~Reconcile(p)
    BY <1>2, <2>5 DEF Reconcile, journal
  <2>13. /\ \A from \in Starts : ~EnsureCursor(from)
         /\ ~ClaimProjection /\ ~CommitProjection
    BY <1>2 DEF EnsureCursor, ClaimProjection, CommitProjection, CursorOnly, journal
  <2> QED BY <2>1, <2>2, <2>3, <2>4, <2>6, <2>7, <2>8, <2>9, <2>10, <2>11, <2>12, <2>13 DEF Next
<1> QED BY <1>1, <1>2

LEMMA PruneIsSafe ==
    ASSUME IInv, NEW p \in Procs, PruneEffect(p), NEW e \in rows \ rows'
    PROVE  /\ \E s \in Anchored : e \in Span(s) /\ ArchiveFiles(s) \subseteq files
           /\ cursor.exists => cursor.at >= e /\ cursor.claim = 0
<1>1. CASE Throws(p)
  BY <1>1 DEF Throws, journal
<1>2. CASE /\ Verifiable /\ ~Blocked(op.through) /\ ArchiveHead >= op.through
           /\ rows' = {d \in rows : d > op.through}
  <2>1. /\ op.through \in Nat /\ head \in Nat /\ e \in 1..head
        /\ cursor \in [exists : BOOLEAN, at : Nat, claim : Nat]
    BY DEF IInv, JournalOK, OpOK, Records, CursorOK
  <2>2. e <= op.through
    BY <1>2, <2>1
  <2>3. ArchiveHead \in Nat
    BY DEF ArchiveHead, IInv, JournalOK
  <2>4. e \in 1..ArchiveHead
    BY <1>2, <2>1, <2>2, <2>3
  <2>5. PICK s \in Anchored : e \in Span(s)
    BY <2>4 DEF IInv, JournalOK, Covered
  <2>6. ArchiveFiles(s) \subseteq files
    BY <1>2 DEF Verifiable, Chained, Scannable, ArchiveFiles
  <2>7. cursor.exists => cursor.at >= e /\ cursor.claim = 0
    BY <1>2, <2>1, <2>2 DEF Blocked
  <2> QED BY <2>5, <2>6, <2>7
<1> QED BY <1>1, <1>2 DEF PruneEffect

(* DeletionIsSafe: an event leaves the database only while the archive     *)
(* holds it, files and all, and no projection still has to read it, no     *)
(* matter what happened since the prune was requested and authorized.      *)
THEOREM DeletionAlwaysSafe == Spec => DeletionIsSafe
<1> DEFINE Safe ==
      \A e \in rows \ rows' :
        /\ \E s \in Anchored : e \in Span(s) /\ ArchiveFiles(s) \subseteq files
        /\ cursor.exists => cursor.at >= e /\ cursor.claim = 0
<1>1. IInv /\ [Next]_vars => [Safe]_vars
  BY OnlyPruneDeletes, PruneIsSafe
<1> HIDE DEF Safe
<1> QED BY <1>1, ArchiveCovered, PTL DEF Spec, DeletionIsSafe, Safe

-----------------------------------------------------------------------------
(* The record of an operation is true. The invariant ties what is on disk  *)
(* to the operation and to the stage its process is at: a process that     *)
(* holds the operation is the only one, there is at most its own temporary *)
(* file, and what it has published is there.                               *)
PublishingPlaces == {"write", "evidence", "link", "unlink", "complete"}
Holding == PublishingPlaces \union {"effect", "completing", "reconcile"}
ArchiveClasses == {"fully_published_missing_completion", "published_files_invalid",
                   "segment_only_orphan", "manifest_only_orphan", "archive_temp_only",
                   "intent_without_publication"}
MaintenanceClasses == {"maintenance_backup_published", "maintenance_temp_only",
                       "maintenance_no_artifact"}
PastRecords == [id : Nat, kind : {"archive", "maintenance", "prune"},
                state : {"completed", "failed"},
                from : Nat, through : Nat, evidence : BOOLEAN, applied : BOOLEAN]

IdsOK ==
    /\ op.id <= calls /\ (op.id = 0 => op = NoOp)
    /\ \A p \in Procs :
         /\ job[p].id <= calls
         /\ job[p].at = "idle" => job[p] = Idle
         /\ job[p].at # "idle" => job[p].id # 0
         /\ (job[p].at \in Holding) <=> (job[p].id = op.id /\ op # NoOp)
    /\ \A p, q \in Procs : job[p].id = job[q].id /\ job[p].id # 0 => p = q
    /\ \A o \in past : /\ o.id # 0 /\ o.id <= calls /\ o.id # op.id
                       /\ \A p \in Procs : job[p].id # o.id

OpShape ==
    \/ op = NoOp
    \/ op.kind \in {"archive", "maintenance"} /\ op.state = "publishing" /\ ~op.applied
    \/ op.kind = "prune" /\ op.state = "authorized" /\ ~op.applied
    \/ op.kind = "prune" /\ op.state = "effect_applied" /\ retained = op.through

PublishFits(j) ==
    /\ op.kind \in {"archive", "maintenance"} /\ j.part \in Parts(op)
    /\ j.part = "manifest" => Published("segment")
    /\ j.at \in {"write", "complete"} => temps = {}
    /\ temps \subseteq {TempOf(op, j.part)}
    /\ j.at \in {"unlink", "complete"} => Published(j.part)
    /\ j.at = "complete" => j.part # "segment"
ReconcileFits(j) ==
    /\ \A t \in temps : ~Linked(t)
    /\ j.class \in ArchiveClasses => op.kind = "archive"
    /\ j.class \in MaintenanceClasses => op.kind = "maintenance"
    /\ j.class = "fully_published_missing_completion" => \A part \in Parts(op) : Published(part)
    /\ j.class = "maintenance_backup_published" => (op.evidence => Published("backup"))
Fits(j) ==
    /\ j.at \in PublishingPlaces => PublishFits(j)
    /\ j.at = "effect" => op.kind = "prune" /\ op.state = "authorized"
    /\ j.at = "completing" => op.kind = "prune" /\ op.state = "effect_applied"
    /\ j.at = "reconcile" => ReconcileFits(j)
    /\ j.at = "archive" => /\ j.seen <= Len(anchor)
                           /\ j.seen = Len(anchor) => j.through > ArchiveHead
FitsOK == \A p \in Procs : Fits(job[p])

FilesOK ==
    /\ temps \subseteq {TempOf(op, part) : part \in Parts(op)}
    /\ \A f \in files : \/ f.part = "backup" \/ f \in Underway
                        \/ \E s \in Anchored : f \in ArchiveFiles(s)

Settled(o) ==
    /\ o.through <= head
    /\ IF o.state = "completed"
       THEN /\ o.kind = "archive" => <<o.from, o.through>> \in Anchored
            /\ o.kind = "maintenance" => FileOf(o, "backup") \in files
            /\ o.kind = "prune" => \A e \in rows : e > o.through
       ELSE ~o.applied /\ (o.kind = "maintenance" => FileOf(o, "backup") \notin files)
PastOK == past \subseteq PastRecords /\ \A o \in past : Settled(o)

LogOK ==
    /\ retained <= head /\ \A e \in rows : e > retained
    /\ \A e \in 1..head : e \in rows \/ e <= ArchiveHead
    /\ \A s \in Anchored : s[1] > 0 /\ s[2] <= ArchiveHead /\ ArchiveFiles(s) \subseteq files
    /\ op.kind = "archive" => op.from = ArchiveHead + 1 /\ op.through > ArchiveHead

AuditInv == IdsOK /\ OpShape /\ FitsOK /\ FilesOK /\ PastOK /\ LogOK

-----------------------------------------------------------------------------
LEMMA AuditFollows == ASSUME IInv, AuditInv PROVE AuditIsTrue
<1> SUFFICES ASSUME NEW o \in past
             PROVE  IF o.state = "completed" THEN Effect(o) ELSE ~o.applied /\ ~Residue(o)
  BY DEF AuditIsTrue
<1>1. o \in PastRecords /\ Settled(o) /\ o.id # op.id
  BY DEF AuditInv, PastOK, IdsOK
<1>2. CASE o.state = "completed"
  <2>1. o.kind \in {"archive", "maintenance", "prune"}
    BY <1>1 DEF PastRecords
  <2> QED BY <1>1, <1>2, <2>1 DEF Settled, Effect
<1>3. CASE o.state # "completed"
  <2>1. ~o.applied /\ (o.kind = "maintenance" => FileOf(o, "backup") \notin files)
    BY <1>1, <1>3 DEF Settled
  <2>2. \A part \in Parts(o) : TempOf(o, part) \notin temps
    BY <1>1 DEF AuditInv, FilesOK, TempOf
  <2>3. ~(/\ o.kind = "archive" /\ <<o.from, o.through>> \notin Anchored
          /\ FileOf(op, "segment") # FileOf(o, "segment")
          /\ ArchiveFiles(<<o.from, o.through>>) \intersect files # {})
    <3> SUFFICES ASSUME <<o.from, o.through>> \notin Anchored,
                        FileOf(op, "segment") # FileOf(o, "segment"),
                        NEW f \in ArchiveFiles(<<o.from, o.through>>) \intersect files
                 PROVE  FALSE
      OBVIOUS
    <3>1. f.part # "backup" /\ f.key = <<o.from, o.through>>
      BY DEF ArchiveFiles, File
    <3>2. f \notin Underway
      BY <3>1 DEF Underway, ArchiveFiles, File, FileOf
    <3>3. \A s \in Anchored : f \notin ArchiveFiles(s)
      BY <3>1 DEF ArchiveFiles, File
    <3> QED BY <3>1, <3>2, <3>3 DEF AuditInv, FilesOK
  <2> QED BY <1>3, <2>1, <2>2, <2>3 DEF Residue
<1> QED BY <1>2, <1>3

LEMMA ClassOf ==
    /\ op.kind = "archive" => Class \in ArchiveClasses
    /\ op.kind = "maintenance" => Class \in MaintenanceClasses
    /\ op.kind = "prune" => Class \notin ArchiveClasses \union MaintenanceClasses
  BY DEF Class, ArchiveClasses, MaintenanceClasses

LEMMA SettledFollows == ASSUME IInv, AuditInv PROVE InterruptedIsSettled
<1> SUFFICES ASSUME Abandoned, \A t \in temps : ~Linked(t), (retained + 1)..head \subseteq rows
             PROVE  CanInspect /\ (Proven(Class) \/ Discarded(Class))
  BY DEF InterruptedIsSettled
<1>1. CanInspect
  BY DEF CanInspect, AuditInv, FilesOK
<1>2. CASE op.kind \in {"archive", "maintenance"}
  <2>1. Class \in ArchiveClasses \union MaintenanceClasses
    BY <1>2, ClassOf
  <2>2. \A c \in ArchiveClasses \union MaintenanceClasses : Proven(c) \/ Discarded(c)
    BY DEF ArchiveClasses, MaintenanceClasses, Proven, Discarded
  <2> QED BY <1>1, <2>1, <2>2
<1>4. CASE op.kind = "prune"
  <2>1. /\ retained \in Nat /\ head \in Nat /\ op.through \in Nat /\ op.through <= head
        /\ rows \subseteq 1..head
    BY DEF IInv, JournalOK, OpOK, Records
  <2>2. \A e \in rows : e > retained
    BY DEF AuditInv, LogOK
  <2>3. CASE retained >= op.through
    <3>1. PruneApplied
      BY <2>1, <2>2, <2>3 DEF PruneApplied, Remaining
    <3>2. Proven(Class)
      BY <1>4, <3>1 DEF Proven
    <3> QED BY <1>1, <3>2
  <2>4. CASE retained < op.through
    <3>1. retained + 1 \in rows
      BY <2>1, <2>4
    <3>2. Remaining
      BY <2>1, <2>4, <3>1 DEF Remaining
    <3>3. op.state = "authorized"
      BY <1>4, <2>1, <2>4 DEF AuditInv, OpShape, NoOp
    <3>4. Discarded(Class)
      BY <1>4, <2>4, <3>2, <3>3 DEF Discarded, PruneNotApplied
    <3> QED BY <1>1, <3>4
  <2> QED BY <2>1, <2>3, <2>4
<1>5. op.kind \in {"archive", "maintenance", "prune"}
  BY DEF AuditInv, OpShape, Abandoned
<1> QED BY <1>2, <1>4, <1>5

-----------------------------------------------------------------------------
(* One process holds the active operation: what becomes of the ids when a  *)
(* call goes on, ends, settles the operation, starts, or makes one.        *)
LEMMA IdsTypes ==
    ASSUME IInv
    PROVE  /\ op.id \in Nat /\ calls \in Nat /\ \A p \in Procs : job[p].id \in Nat
           /\ DOMAIN job = Procs /\ Idle.id = 0 /\ Idle.at = "idle" /\ NoOp.id = 0
           /\ "idle" \notin Holding /\ "archive" \notin Holding /\ "authorize" \notin Holding
  BY DEF IInv, OpOK, Records, RequestsOK, JobsOK, Jobs, Idle, NoOp, Holding, PublishingPlaces

LEMMA PastIds ==
    ASSUME AuditInv, RequestsOK
    PROVE  \A o \in past : o.id \in Nat /\ o.id # 0 /\ o.id <= calls /\ o.id # op.id
  BY DEF AuditInv, PastOK, PastRecords, IdsOK

LEMMA IdsGoOn ==
    ASSUME IInv, IInv', AuditInv, UNCHANGED past, calls <= calls',
           op'.id = op.id, (op' = NoOp) <=> (op = NoOp),
           \A q \in Procs : /\ job'[q].id = job[q].id
                            /\ \/ job'[q] = job[q]
                               \/ job[q].at \in Holding /\ job'[q].at \in Holding
    PROVE  IdsOK'
<1>1. calls \in Nat /\ calls' \in Nat /\ op.id \in Nat /\ \A p \in Procs : job[p].id \in Nat
  BY DEF IInv, RequestsOK, OpOK, Records, JobsOK, Jobs
<1>2. \A o \in past : o.id \in Nat
  BY DEF AuditInv, PastOK, PastRecords
<1>3. /\ op'.id <= calls' /\ (op'.id = 0 => op' = NoOp)
      /\ \A p \in Procs : job'[p].id <= calls'
  BY <1>1 DEF IdsOK, AuditInv
<1>4. \A p \in Procs : /\ job'[p].at = "idle" => job'[p] = Idle
                       /\ job'[p].at # "idle" => job'[p].id # 0
                       /\ (job'[p].at \in Holding) <=> (job'[p].id = op'.id /\ op' # NoOp)
  BY DEF IdsOK, AuditInv, Holding, PublishingPlaces
<1>5. \A p, q \in Procs : job'[p].id = job'[q].id /\ job'[p].id # 0 => p = q
  BY DEF IdsOK, AuditInv
<1>6. \A o \in past : /\ o.id # 0 /\ o.id <= calls' /\ o.id # op'.id
                      /\ \A p \in Procs : job'[p].id # o.id
  BY <1>1, <1>2 DEF IdsOK, AuditInv
<1> QED BY <1>3, <1>4, <1>5, <1>6 DEF IdsOK

(* A call that ends without settling leaves the operation to nobody.       *)
LEMMA IdsLeave ==
    ASSUME IInv, AuditInv, NEW p \in Procs, Leaves(p), UNCHANGED <<op, past, calls>>
    PROVE  IdsOK'
<1>1. \A q \in Procs : job'[q] = IF q = p THEN Idle ELSE job[q]
  BY IdsTypes DEF Leaves
<1> QED BY <1>1, IdsTypes DEF IdsOK, AuditInv

(* The operation is settled by the process that holds it.                  *)
LEMMA IdsSettle ==
    ASSUME IInv, AuditInv, NEW p \in Procs, job[p].at \in Holding, Leaves(p),
           NEW outcome, Settle(outcome), UNCHANGED calls
    PROVE  IdsOK'
<1> DEFINE o == [op EXCEPT !.state = outcome]
<1>1. \A q \in Procs : job'[q] = IF q = p THEN Idle ELSE job[q]
  BY IdsTypes DEF Leaves
<1>2. job[p].id = op.id /\ op # NoOp /\ op.id # 0 /\ op.id <= calls
  BY DEF IdsOK, AuditInv
<1>3. \A q \in Procs \ {p} : job[q].id # op.id
  BY <1>2 DEF IdsOK, AuditInv
<1>4. o.id = op.id /\ past' = past \union {o} /\ op' = NoOp
  BY DEF Settle, IInv, OpOK, Records
<1> HIDE DEF o
<1>5. \A x \in past' : /\ x.id # 0 /\ x.id <= calls
                       /\ \A q \in Procs : job'[q].id # x.id
  BY <1>1, <1>2, <1>3, <1>4, IdsTypes DEF IdsOK, AuditInv
<1>6. \A q \in Procs : /\ job'[q].id <= calls
                       /\ job'[q].at = "idle" => job'[q] = Idle
                       /\ job'[q].at # "idle" => job'[q].id # 0
                       /\ job'[q].at \notin Holding
  BY <1>1, <1>2, <1>3, IdsTypes DEF IdsOK, AuditInv
<1>7. \A q, r \in Procs : job'[q].id = job'[r].id /\ job'[q].id # 0 => q = r
  BY <1>1, IdsTypes DEF IdsOK, AuditInv
<1> QED BY <1>4, <1>5, <1>6, <1>7, IdsTypes DEF IdsOK

(* A call gets an id that nobody had.                                      *)
LEMMA NewId ==
    ASSUME IInv, AuditInv, Calls
    PROVE  /\ calls' \in Nat /\ calls <= calls' /\ calls' # 0
           /\ op.id # calls' /\ \A q \in Procs : job[q].id # calls'
           /\ \A o \in past : o.id # calls'
<1>1. calls' = calls + 1 /\ calls \in Nat
  BY IdsTypes DEF Calls
<1> QED BY <1>1, IdsTypes, PastIds DEF IInv, AuditInv, IdsOK

LEMMA IdsCall ==
    ASSUME IInv, AuditInv, NEW p \in Procs, job[p] = Idle, Calls,
           NEW j, j.id = calls', job' = [job EXCEPT ![p] = j], UNCHANGED past,
           \/ j.at \in {"archive", "authorize"} /\ UNCHANGED op
           \/ j.at \in Holding /\ op = NoOp /\ op'.id = calls' /\ op' # NoOp
    PROVE  IdsOK'
<1>1. \A q \in Procs : job'[q] = IF q = p THEN j ELSE job[q]
  BY IdsTypes
<1>2. \A x \in past' : /\ x.id # 0 /\ x.id <= calls' /\ x.id # op'.id
                       /\ \A q \in Procs : job'[q].id # x.id
  BY <1>1, NewId, PastIds, IdsTypes DEF IInv, IdsOK, AuditInv
<1>3. /\ op'.id <= calls' /\ (op'.id = 0 => op' = NoOp)
      /\ \A q \in Procs : job'[q].id <= calls'
  BY <1>1, NewId, IdsTypes DEF IdsOK, AuditInv
<1>4. j.at # "idle"
  BY IdsTypes
<1>5. \A q \in Procs : /\ job'[q].at = "idle" => job'[q] = Idle
                       /\ job'[q].at # "idle" => job'[q].id # 0
  BY <1>1, <1>4, NewId DEF IdsOK, AuditInv
<1>6. \A q \in Procs : (job'[q].at \in Holding) <=> (job'[q].id = op'.id /\ op' # NoOp)
  <2>1. CASE j.at \in {"archive", "authorize"} /\ UNCHANGED op
    BY <2>1, <1>1, NewId, IdsTypes DEF IdsOK, AuditInv
  <2>2. CASE j.at \in Holding /\ op = NoOp /\ op'.id = calls' /\ op' # NoOp
    BY <2>2, <1>1, NewId, IdsTypes DEF IdsOK, AuditInv
  <2> QED BY <2>1, <2>2
<1>7. \A q, r \in Procs : job'[q].id = job'[r].id /\ job'[q].id # 0 => q = r
  BY <1>1, NewId DEF IdsOK, AuditInv
<1> QED BY <1>2, <1>3, <1>5, <1>6, <1>7 DEF IdsOK

(* A call that waited begins the operation with its id.                    *)
LEMMA IdsBegin ==
    ASSUME IInv, AuditInv, NEW p \in Procs, job[p].at \in {"archive", "authorize"},
           NEW j, j.id = job[p].id, j.at \in Holding, job' = [job EXCEPT ![p] = j],
           op = NoOp, op'.id = job[p].id, op' # NoOp, UNCHANGED <<past, calls>>
    PROVE  IdsOK'
<1>1. \A q \in Procs : job'[q] = IF q = p THEN j ELSE job[q]
  BY IdsTypes
<1>2. job[p].id # 0 /\ job[p].id <= calls
  BY DEF IdsOK, AuditInv
<1>3. \A x \in past : /\ x.id # 0 /\ x.id <= calls /\ x.id # op'.id
                      /\ \A q \in Procs : job'[q].id # x.id
  BY <1>1 DEF IdsOK, AuditInv
<1>4. \A q \in Procs : /\ job'[q].id <= calls
                       /\ job'[q].at = "idle" => job'[q] = Idle
                       /\ job'[q].at # "idle" => job'[q].id # 0
  BY <1>1, <1>2, IdsTypes DEF IdsOK, AuditInv
<1>5. \A q \in Procs : (job'[q].at \in Holding) <=> (job'[q].id = op'.id /\ op' # NoOp)
  BY <1>1, <1>2, IdsTypes DEF IdsOK, AuditInv
<1>6. \A q, r \in Procs : job'[q].id = job'[r].id /\ job'[q].id # 0 => q = r
  BY <1>1 DEF IdsOK, AuditInv
<1> QED BY <1>2, <1>3, <1>4, <1>5, <1>6 DEF IdsOK

(* An operation that nobody holds is taken up.                             *)
LEMMA IdsInspect ==
    ASSUME IInv, AuditInv, NEW p \in Procs, job[p] = Idle, Abandoned,
           NEW j, j.id = op.id, j.at \in Holding, job' = [job EXCEPT ![p] = j],
           UNCHANGED <<op, past, calls>>
    PROVE  IdsOK'
<1>1. \A q \in Procs : job'[q] = IF q = p THEN j ELSE job[q]
  BY IdsTypes
<1>2. op # NoOp /\ op.id # 0 /\ op.id <= calls /\ \A q \in Procs : job[q].id # op.id
  BY DEF IdsOK, AuditInv, Abandoned
<1>3. \A x \in past : /\ x.id # 0 /\ x.id <= calls /\ x.id # op.id
                      /\ \A q \in Procs : job'[q].id # x.id
  BY <1>1 DEF IdsOK, AuditInv
<1>4. \A q \in Procs : /\ job'[q].id <= calls
                       /\ job'[q].at = "idle" => job'[q] = Idle
                       /\ job'[q].at # "idle" => job'[q].id # 0
                       /\ (job'[q].at \in Holding) <=> (job'[q].id = op.id /\ op # NoOp)
  BY <1>1, <1>2, IdsTypes DEF IdsOK, AuditInv
<1>5. \A q, r \in Procs : job'[q].id = job'[r].id /\ job'[q].id # 0 => q = r
  BY <1>1, <1>2 DEF IdsOK, AuditInv
<1> QED BY <1>2, <1>3, <1>4, <1>5 DEF IdsOK

-----------------------------------------------------------------------------
(* Frames for the other parts of the invariant.                            *)
Audits == UNCHANGED <<head, rows>> \/ Audited(1) \/ Audited(2)
Grown == /\ head <= head' /\ rows \subseteq rows'
         /\ \A e \in rows' \ rows : e > head
         /\ \A e \in 1..head' : e > head => e \in rows'

LEMMA AuditsGrow == ASSUME IInv, Audits PROVE Grown
<1>1. head \in Nat /\ rows \subseteq 1..head
  BY DEF IInv, JournalOK
<1>2. CASE UNCHANGED <<head, rows>>
  BY <1>1, <1>2 DEF Grown
<1>3. CASE Audited(1)
  BY <1>1, <1>3 DEF Grown, Audited
<1>4. CASE Audited(2)
  BY <1>1, <1>4 DEF Grown, Audited
<1> QED BY <1>2, <1>3, <1>4 DEF Audits

LEMMA OnlyHolder ==
    ASSUME AuditInv, NEW p \in Procs, NEW q \in Procs, p # q,
           job[p].at \in Holding \/ op = NoOp
    PROVE  job[q].at \notin Holding
  BY DEF AuditInv, IdsOK

LEMMA HeldOp ==
    ASSUME AuditInv, NEW p \in Procs, job[p].at \in Holding
    PROVE  op # NoOp /\ op.id = job[p].id /\ op.id # 0
  BY DEF AuditInv, IdsOK

LEMMA LogStays ==
    ASSUME IInv, IInv', AuditInv, Audits, UNCHANGED <<retained, anchor>>,
           op'.kind = "archive" => op'.from = ArchiveHead + 1 /\ op'.through > ArchiveHead,
           \A f \in files \ files' : \A s \in Anchored : f \notin ArchiveFiles(s)
    PROVE  LogOK'
<1>1. /\ head \in Nat /\ head' \in Nat /\ retained \in Nat /\ rows \subseteq 1..head
      /\ rows' \subseteq 1..head'
  BY DEF IInv, JournalOK
<1>2. Anchored' = Anchored /\ ArchiveHead' = ArchiveHead
  BY DEF Anchored, ArchiveHead
<1>3. Grown
  BY AuditsGrow
<1>4. retained' <= head'
  BY <1>1, <1>3 DEF Grown, AuditInv, LogOK
<1>5. \A e \in rows' : e > retained'
  BY <1>1, <1>3 DEF Grown, AuditInv, LogOK
<1>6. \A e \in 1..head' : e \in rows' \/ e <= ArchiveHead'
  BY <1>1, <1>2, <1>3 DEF Grown, AuditInv, LogOK
<1>7. \A s \in Anchored' : s[1] > 0 /\ s[2] <= ArchiveHead' /\ ArchiveFiles(s) \subseteq files'
  BY <1>2 DEF AuditInv, LogOK
<1> QED BY <1>2, <1>4, <1>5, <1>6, <1>7 DEF LogOK

LEMMA PastStays ==
    ASSUME IInv, IInv', AuditInv, Anchored \subseteq Anchored', head <= head',
           \A e \in rows' \ rows : e > head,
           \A o \in past : FileOf(o, "backup") \in files' <=> FileOf(o, "backup") \in files
    PROVE  \A o \in past : Settled(o)'
<1> SUFFICES ASSUME NEW o \in past PROVE Settled(o)'
  OBVIOUS
<1>1. /\ head \in Nat /\ head' \in Nat /\ o.through \in Nat /\ rows \subseteq 1..head
      /\ rows' \subseteq 1..head'
  BY DEF IInv, JournalOK, AuditInv, PastOK, PastRecords
<1>2. Settled(o)
  BY DEF AuditInv, PastOK
<1>3. o.through <= head'
  BY <1>1, <1>2 DEF Settled
<1>4. CASE o.state = "completed"
  <2>1. o.kind = "prune" => \A e \in rows' : e > o.through
    BY <1>1, <1>2, <1>4 DEF Settled
  <2> QED BY <1>2, <1>3, <1>4, <2>1 DEF Settled, FileOf
<1>5. CASE o.state # "completed"
  BY <1>2, <1>3, <1>5 DEF Settled, FileOf
<1> QED BY <1>4, <1>5

(* What a place asks for depends on the operation, the disk and the anchor. *)
LEMMA FitsAlike ==
    ASSUME UNCHANGED <<op, files, temps, anchor>>, NEW j, Fits(j)
    PROVE  Fits(j)'
<1>1. ArchiveHead' = ArchiveHead
  BY DEF ArchiveHead
<1>2. \A t \in temps : Linked(t)' <=> Linked(t)
  BY DEF Linked
<1>3. \A part : Published(part)' <=> Published(part)
  BY DEF Published, FileOf
<1>4. PublishFits(j) => PublishFits(j)'
  BY <1>3 DEF PublishFits, TempOf, FileOf, Parts
<1>5. ReconcileFits(j) => ReconcileFits(j)'
  BY <1>2, <1>3 DEF ReconcileFits, Parts
<1> QED BY <1>1, <1>4, <1>5 DEF Fits

LEMMA FitsOthers ==
    ASSUME IInv, AuditInv, NEW p \in Procs, job[p].at \in Holding \/ op = NoOp,
           \A q \in Procs \ {p} : job'[q] = job[q],
           UNCHANGED anchor \/ (Len(anchor') \in Nat /\ Len(anchor') > Len(anchor)),
           Fits(job[p])'
    PROVE  FitsOK'
<1> SUFFICES ASSUME NEW q \in Procs, q # p PROVE Fits(job[q])'
  BY DEF FitsOK
<1>1. job'[q] = job[q] /\ job[q].at \notin Holding
  BY OnlyHolder
<1>2. job[q].seen \in Nat /\ Len(anchor) \in Nat
  BY DEF IInv, JournalOK, JobsOK, Jobs
<1>3. job[q].at = "archive" => /\ job[q].seen <= Len(anchor)
                               /\ job[q].seen = Len(anchor) => job[q].through > ArchiveHead
  BY DEF AuditInv, FitsOK, Fits
<1>4. job[q].at = "archive" => /\ job[q].seen <= Len(anchor')
                               /\ job[q].seen = Len(anchor') => job[q].through > ArchiveHead'
  BY <1>2, <1>3 DEF ArchiveHead
<1> QED BY <1>1, <1>4 DEF Fits, Holding, PublishingPlaces

-----------------------------------------------------------------------------
(* Steps that leave the operation and the disk alone.                      *)
LEMMA IdleFits == Fits(Idle)
  BY DEF Fits, Idle, PublishingPlaces

LEMMA Calm ==
    ASSUME IInv, IInv', AuditInv, Audits, IdsOK',
           UNCHANGED <<retained, anchor, op, past, files, temps>>,
           \A q \in Procs : job'[q] = job[q] \/ \E j : job'[q] = j /\ Fits(j)
    PROVE  AuditInv'
<1>1. OpShape'
  BY DEF AuditInv, OpShape, NoOp
<1>2. FitsOK'
  <2> SUFFICES ASSUME NEW q \in Procs PROVE Fits(job[q])'
    BY DEF FitsOK
  <2>1. PICK j : job'[q] = j /\ Fits(j)
    BY DEF AuditInv, FitsOK
  <2>2. Fits(j)'
    BY <2>1, FitsAlike
  <2> QED BY <2>1, <2>2
<1>3. Anchored' = Anchored /\ Underway' = Underway
  BY DEF Anchored, Underway
<1>4. FilesOK'
  BY <1>3 DEF AuditInv, FilesOK, TempOf, FileOf, Parts
<1>5. Grown
  BY AuditsGrow
<1>6. PastOK'
  BY <1>3, <1>5, PastStays DEF Grown, AuditInv, PastOK
<1>7. LogOK'
  <2>1. op.kind = "archive" => op.from = ArchiveHead + 1 /\ op.through > ArchiveHead
    BY DEF AuditInv, LogOK
  <2> QED BY <2>1, LogStays
<1> QED BY <1>1, <1>2, <1>4, <1>6, <1>7 DEF AuditInv

LEMMA CalmStutter ==
    ASSUME IInv, IInv', AuditInv, Audits,
           UNCHANGED <<retained, anchor, op, past, files, temps, job>>, calls <= calls'
    PROVE  AuditInv'
<1>1. IdsOK'
  BY IdsGoOn
<1> QED BY <1>1, Calm

LEMMA ThrowsAudit ==
    ASSUME IInv, IInv', AuditInv, NEW p \in Procs, Leaves(p), Audits,
           UNCHANGED <<retained, anchor, op, past, files, temps, calls>>
    PROVE  AuditInv'
<1>1. \A q \in Procs : job'[q] = job[q] \/ job'[q] = Idle
  BY IdsTypes DEF Leaves
<1>2. IdsOK'
  BY IdsLeave
<1> QED BY <1>1, <1>2, IdleFits, Calm

LEMMA ArchiveCallAudit ==
    ASSUME IInv, IInv', AuditInv, NEW p \in Procs, NEW b \in Boundaries, ArchiveCall(p, b)
    PROVE  AuditInv'
<1>1. PICK j : j = [Idle EXCEPT !.at = "archive", !.id = calls', !.through = b, !.seen = Len(anchor)]
  OBVIOUS
<1>2. /\ j.at = "archive" /\ j.id = calls' /\ j.through = b /\ j.seen = Len(anchor)
      /\ job' = [job EXCEPT ![p] = j] /\ job[p] = Idle /\ Calls /\ b > ArchiveHead
      /\ UNCHANGED <<journal, audit, disk>>
  BY <1>1 DEF ArchiveCall, Idle
<1>3. IdsOK'
  BY <1>2, IdsCall DEF audit
<1>4. Fits(j)
  <2>1. Len(anchor) \in Nat
    BY DEF IInv, JournalOK
  <2> QED BY <1>2, <2>1 DEF Fits, PublishingPlaces
<1>5. \A q \in Procs : job'[q] = job[q] \/ job'[q] = j
  BY <1>2, IdsTypes
<1> QED BY <1>2, <1>3, <1>4, <1>5, Calm DEF Audits, journal, audit, disk

LEMMA PruneCallAudit ==
    ASSUME IInv, IInv', AuditInv, NEW p \in Procs, NEW r \in requests, PruneCall(p, r)
    PROVE  AuditInv'
<1>1. PICK j : j = [Idle EXCEPT !.at = "authorize", !.id = calls',
                                !.through = r.through, !.request = r.id]
  OBVIOUS
<1>2. /\ j.at = "authorize" /\ j.id = calls'
      /\ job' = [job EXCEPT ![p] = j] /\ job[p] = Idle /\ Calls
      /\ UNCHANGED <<journal, audit, disk>>
  BY <1>1 DEF PruneCall, Idle
<1>3. IdsOK'
  BY <1>2, IdsCall DEF audit
<1>4. Fits(j)
  BY <1>2 DEF Fits, PublishingPlaces
<1>5. \A q \in Procs : job'[q] = job[q] \/ job'[q] = j
  BY <1>2, IdsTypes
<1> QED BY <1>2, <1>3, <1>4, <1>5, Calm DEF Audits, journal, audit, disk

LEMMA InspectAudit ==
    ASSUME IInv, IInv', AuditInv, NEW p \in Procs, Inspect(p)
    PROVE  AuditInv'
<1>1. PICK j : j = [Idle EXCEPT !.at = "reconcile", !.id = op.id, !.class = Class]
  OBVIOUS
<1>2. /\ j.at = "reconcile" /\ j.id = op.id /\ j.class = Class
      /\ job' = [job EXCEPT ![p] = j] /\ job[p] = Idle /\ Abandoned /\ CanInspect
      /\ UNCHANGED <<journal, audit, disk, calls>>
  BY <1>1 DEF Inspect, Idle
<1>3. IdsOK'
  BY <1>2, IdsInspect DEF audit, Holding
<1>4. ReconcileFits(j)
  <2>1. \A t \in temps : ~Linked(t)
    BY <1>2 DEF CanInspect
  <2>2. op.kind \in {"archive", "maintenance", "prune"}
    BY <1>2 DEF AuditInv, OpShape, Abandoned
  <2>3. /\ j.class \in ArchiveClasses => op.kind = "archive"
        /\ j.class \in MaintenanceClasses => op.kind = "maintenance"
    BY <1>2, <2>2, ClassOf DEF ArchiveClasses, MaintenanceClasses
  <2>4. j.class = "fully_published_missing_completion" => \A part \in Parts(op) : Published(part)
    <3> SUFFICES ASSUME Class = "fully_published_missing_completion"
                 PROVE  \A part \in Parts(op) : Published(part)
      BY <1>2
    <3>1. op.kind = "archive" /\ Published("segment") /\ Published("manifest")
      BY DEF Class
    <3> QED BY <3>1 DEF Parts
  <2>5. Class = "maintenance_backup_published" => Published("backup")
    BY DEF Class
  <2> QED BY <1>2, <2>1, <2>3, <2>4, <2>5 DEF ReconcileFits
<1>5. Fits(j)
  BY <1>2, <1>4 DEF Fits, PublishingPlaces
<1>6. \A q \in Procs : job'[q] = job[q] \/ job'[q] = j
  BY <1>2, IdsTypes
<1> QED BY <1>2, <1>3, <1>5, <1>6, Calm DEF Audits, journal, audit, disk

-----------------------------------------------------------------------------
(* Steps of the process that holds the operation, which only it changes.   *)
LEMMA OwnFiles ==
    ASSUME IInv, AuditInv, NEW part \in Parts(op)
    PROVE  /\ \A s \in Anchored : FileOf(op, part) \notin ArchiveFiles(s)
           /\ FileOf(op, part).part = part
           /\ FileOf(op, part).part = "backup" => FileOf(op, part).key = <<op.id, 0>>
           /\ op.kind = "archive" => FileOf(op, part) \in Underway
           /\ op.kind = "maintenance" => part = "backup"
<1>1. part \in {"segment", "manifest", "backup"}
  BY DEF Parts
<1>2. CASE op.kind = "archive"
  <2>1. part # "backup" /\ FileOf(op, part).key = <<op.from, op.through>> /\ FileOf(op, part).part = part
    BY <1>2 DEF Parts, FileOf, File
  <2>2. ASSUME NEW s \in Anchored PROVE FileOf(op, part) \notin ArchiveFiles(s)
    <3>1. s[2] # op.through
      <4>1. s[2] <= ArchiveHead /\ op.through > ArchiveHead
        BY <1>2 DEF AuditInv, LogOK
      <4>2. s[2] \in Nat /\ ArchiveHead \in Nat /\ op.through \in Nat
        BY DEF IInv, JournalOK, OpOK, Records, Anchored, ArchiveHead
      <4> QED BY <4>1, <4>2
    <3>2. s # <<op.from, op.through>>
      BY <3>1
    <3> QED BY <2>1, <3>2 DEF ArchiveFiles, File
  <2>3. FileOf(op, part) \in Underway
    BY <1>2, <1>1, <2>1 DEF Underway, ArchiveFiles, FileOf, Parts
  <2> QED BY <1>2, <2>1, <2>2, <2>3
<1>3. CASE op.kind = "maintenance"
  <2>1. part = "backup" /\ FileOf(op, part).key = <<op.id, 0>> /\ FileOf(op, part).part = part
    BY <1>3 DEF Parts, FileOf, File
  <2> QED BY <1>3, <2>1 DEF ArchiveFiles, File
<1> QED BY <1>2, <1>3 DEF Parts

LEMMA BackupsApart ==
    ASSUME AuditInv, NEW S,
           \A f \in S : f.part = "backup" => f.key = <<op.id, 0>>
    PROVE  \A o \in past : FileOf(o, "backup") \notin S
<1> SUFFICES ASSUME NEW o \in past, FileOf(o, "backup") \in S PROVE FALSE
  OBVIOUS
<1>1. FileOf(o, "backup").part = "backup" /\ FileOf(o, "backup").key = <<o.id, 0>>
  BY DEF FileOf, File
<1>2. o.id # op.id
  BY DEF AuditInv, IdsOK
<1> QED BY <1>1, <1>2

LEMMA HolderMoves ==
    ASSUME IInv, IInv', AuditInv, NEW p \in Procs, job[p].at \in Holding,
           NEW j, j.id = job[p].id, j.at \in Holding, job' = [job EXCEPT ![p] = j],
           UNCHANGED <<head, rows, retained, anchor, past, calls>>,
           op'.id = op.id, op'.kind = op.kind, op'.from = op.from, op'.through = op.through,
           OpShape', Fits(j)', FilesOK',
           \A f \in (files \ files') \union (files' \ files) :
              \E part \in Parts(op) : f = FileOf(op, part)
    PROVE  AuditInv'
<1>1. op # NoOp /\ op.id # 0 /\ op' # NoOp
  BY HeldOp, IdsTypes
<1>2. \A q \in Procs : job'[q] = IF q = p THEN j ELSE job[q]
  BY IdsTypes
<1>3. calls <= calls'
  BY DEF IInv, RequestsOK
<1>4. IdsOK'
  BY <1>1, <1>2, <1>3, IdsGoOn
<1>5. FitsOK'
  <2>1. Fits(job[p])'
    BY <1>2
  <2> QED BY <1>2, <2>1, FitsOthers
<1>6. Anchored' = Anchored
  BY DEF Anchored
<1>7. PastOK'
  <2> DEFINE S == (files \ files') \union (files' \ files)
  <2>1. \A f \in S : f.part = "backup" => f.key = <<op.id, 0>>
    BY OwnFiles
  <2>2. \A o \in past : FileOf(o, "backup") \notin S
    <3> HIDE DEF S
    <3>1. PICK T : T = S
      OBVIOUS
    <3> QED BY <2>1, <3>1, BackupsApart
  <2>3. \A o \in past : FileOf(o, "backup") \in files' <=> FileOf(o, "backup") \in files
    BY <2>2
  <2>4. head <= head'
    BY DEF IInv, JournalOK
  <2> HIDE DEF S
  <2> QED BY <1>6, <2>3, <2>4, PastStays DEF AuditInv, PastOK
<1>8. LogOK'
  <2>1. op'.kind = "archive" => op'.from = ArchiveHead + 1 /\ op'.through > ArchiveHead
    BY DEF AuditInv, LogOK
  <2>2. \A f \in files \ files' : \A s \in Anchored : f \notin ArchiveFiles(s)
    BY OwnFiles
  <2> QED BY <2>1, <2>2, LogStays DEF Audits
<1> QED BY <1>4, <1>5, <1>7, <1>8 DEF AuditInv

LEMMA AtPlace ==
    ASSUME IInv, AuditInv, NEW p \in Procs, job[p].at \in PublishingPlaces
    PROVE  /\ job[p].at \in Holding /\ PublishFits(job[p])
           /\ job[p].part \in Parts(op) /\ op.id = job[p].id
           /\ op.kind \in {"archive", "maintenance"} /\ op # NoOp
           /\ op.state = "publishing" /\ ~op.applied
<1>1. job[p].at \in Holding /\ PublishFits(job[p])
  BY DEF Holding, AuditInv, FitsOK, Fits
<1>2. op.id = job[p].id /\ op # NoOp
  BY <1>1, HeldOp
<1> QED BY <1>1, <1>2 DEF PublishFits, AuditInv, OpShape, NoOp

LEMMA WriteTempAudit ==
    ASSUME IInv, IInv', AuditInv, NEW p \in Procs, WriteTemp(p)
    PROVE  AuditInv'
<1> DEFINE place == IF job[p].part = "backup" THEN "evidence" ELSE "link"
<1>1. PICK j : j = [job[p] EXCEPT !.at = place]
  OBVIOUS
<1>2. /\ j.at = place /\ j.id = job[p].id /\ j.part = job[p].part
      /\ job' = [job EXCEPT ![p] = j]
  BY <1>1 DEF WriteTemp, Goes, IInv, JobsOK, Jobs
<1>3. /\ UNCHANGED <<journal, audit, files, calls>> /\ job[p].at = "write"
      /\ temps' = temps \union {TempOf(op, job[p].part)}
  BY DEF WriteTemp, Publishing
<1>4. job[p].at \in PublishingPlaces /\ j.at \in {"evidence", "link"}
  BY <1>2, <1>3 DEF PublishingPlaces
<1>5. /\ job[p].at \in Holding /\ PublishFits(job[p]) /\ job[p].part \in Parts(op)
      /\ op.kind \in {"archive", "maintenance"} /\ op # NoOp
  BY <1>4, AtPlace
<1>6. temps' = {TempOf(op, j.part)}
  BY <1>2, <1>3, <1>5 DEF PublishFits
<1>7. FilesOK'
  <2>1. Anchored' = Anchored /\ Underway' = Underway /\ op' = op
    BY <1>3 DEF Anchored, Underway, journal, audit
  <2> QED BY <1>2, <1>3, <1>5, <1>6, <2>1 DEF AuditInv, FilesOK, TempOf, FileOf, Parts
<1>8. PublishFits(j)'
  <2>1. Published("segment")' = Published("segment")
    BY <1>3 DEF Published, FileOf, audit
  <2> QED BY <1>2, <1>3, <1>4, <1>5, <1>6, <2>1 DEF PublishFits, Parts, TempOf, FileOf, audit
<1>9. Fits(j)'
  BY <1>4, <1>8 DEF Fits
<1>10. OpShape'
  BY <1>3 DEF AuditInv, OpShape, NoOp, audit, journal
<1> QED BY <1>2, <1>3, <1>4, <1>5, <1>7, <1>9, <1>10, HolderMoves
      DEF journal, audit, Holding, PublishingPlaces

LEMMA RecordEvidenceAudit ==
    ASSUME IInv, IInv', AuditInv, NEW p \in Procs, RecordEvidence(p)
    PROVE  AuditInv'
<1>1. PICK j : j = [job[p] EXCEPT !.at = "link"]
  OBVIOUS
<1>2. /\ j.at = "link" /\ j.id = job[p].id /\ j.part = job[p].part
      /\ job' = [job EXCEPT ![p] = j]
  BY <1>1 DEF RecordEvidence, Goes, IInv, JobsOK, Jobs
<1>3. /\ UNCHANGED <<journal, past, files, temps, calls>> /\ job[p].at = "evidence"
      /\ op' = [op EXCEPT !.evidence = TRUE]
  BY DEF RecordEvidence, Publishing, disk
<1>4. job[p].at \in PublishingPlaces
  BY <1>3 DEF PublishingPlaces
<1>5. /\ job[p].at \in Holding /\ PublishFits(job[p]) /\ job[p].part \in Parts(op)
      /\ op.kind \in {"archive", "maintenance"} /\ op # NoOp
      /\ op.state = "publishing" /\ ~op.applied
  BY <1>4, AtPlace
<1>6. /\ op'.id = op.id /\ op'.kind = op.kind /\ op'.from = op.from /\ op'.through = op.through
      /\ op'.state = op.state /\ op'.applied = op.applied
  BY <1>3 DEF IInv, OpOK, Records
<1>7. /\ Parts(op') = Parts(op)
      /\ \A part : FileOf(op', part) = FileOf(op, part) /\ TempOf(op', part) = TempOf(op, part)
  BY <1>6 DEF Parts, FileOf, TempOf
<1>8. FilesOK'
  <2>1. Anchored' = Anchored /\ Underway' = Underway
    BY <1>3, <1>6 DEF Anchored, Underway, journal
  <2> QED BY <1>3, <1>7, <2>1 DEF AuditInv, FilesOK
<1>9. PublishFits(j)'
  <2>1. Published("segment")' = Published("segment")
    BY <1>3, <1>7 DEF Published
  <2> QED BY <1>2, <1>3, <1>5, <1>6, <1>7, <2>1 DEF PublishFits
<1>10. Fits(j)'
  BY <1>2, <1>9 DEF Fits, PublishingPlaces
<1>11. OpShape'
  BY <1>5, <1>6 DEF OpShape
<1> QED BY <1>2, <1>3, <1>5, <1>6, <1>8, <1>10, <1>11, HolderMoves
      DEF journal, Holding, PublishingPlaces

LEMMA LinkAudit ==
    ASSUME IInv, IInv', AuditInv, NEW p \in Procs, Link(p)
    PROVE  AuditInv'
<1>1. PICK j : j = [job[p] EXCEPT !.at = "unlink"]
  OBVIOUS
<1>2. /\ j.at = "unlink" /\ j.id = job[p].id /\ j.part = job[p].part
      /\ job' = [job EXCEPT ![p] = j]
  BY <1>1 DEF Link, Goes, IInv, JobsOK, Jobs
<1>3. /\ UNCHANGED <<journal, audit, temps, calls>> /\ job[p].at = "link"
      /\ files' = files \union {FileOf(op, job[p].part)}
  BY DEF Link, Publishing
<1>4. job[p].at \in PublishingPlaces
  BY <1>3 DEF PublishingPlaces
<1>5. /\ job[p].at \in Holding /\ PublishFits(job[p]) /\ job[p].part \in Parts(op)
      /\ op.kind \in {"archive", "maintenance"} /\ op # NoOp
  BY <1>4, AtPlace
<1>6. UNCHANGED op /\ Anchored' = Anchored /\ Underway' = Underway
  BY <1>3 DEF Anchored, Underway, journal, audit
<1>7. FilesOK'
  <2>1. FileOf(op, job[p].part).part = "backup" \/ FileOf(op, job[p].part) \in Underway
    BY <1>5, OwnFiles
  <2> QED BY <1>3, <1>6, <2>1 DEF AuditInv, FilesOK, TempOf, FileOf, Parts
<1>8. PublishFits(j)'
  <2>1. Published(j.part)' /\ (Published("segment") => Published("segment")')
    BY <1>2, <1>3, <1>6 DEF Published, FileOf
  <2> QED BY <1>2, <1>3, <1>5, <1>6, <2>1 DEF PublishFits, Parts, TempOf, FileOf
<1>9. Fits(j)'
  BY <1>2, <1>8 DEF Fits, PublishingPlaces
<1>10. OpShape'
  BY <1>3 DEF AuditInv, OpShape, NoOp, audit, journal
<1> QED BY <1>2, <1>3, <1>5, <1>7, <1>9, <1>10, HolderMoves
      DEF journal, audit, Holding, PublishingPlaces

LEMMA UnlinkAudit ==
    ASSUME IInv, IInv', AuditInv, NEW p \in Procs, Unlink(p)
    PROVE  AuditInv'
<1>1. /\ UNCHANGED <<journal, audit, files, calls>> /\ job[p].at = "unlink"
      /\ temps' = temps \ {TempOf(op, job[p].part)}
  BY DEF Unlink, Publishing
<1>2. job[p].at \in PublishingPlaces
  BY <1>1 DEF PublishingPlaces
<1>3. /\ job[p].at \in Holding /\ PublishFits(job[p]) /\ job[p].part \in Parts(op)
      /\ op.kind \in {"archive", "maintenance"} /\ op # NoOp
  BY <1>2, AtPlace
<1>4. temps' = {} /\ Published(job[p].part)
  BY <1>1, <1>3 DEF PublishFits
<1>5. PICK j : /\ job' = [job EXCEPT ![p] = j] /\ j.id = job[p].id
               /\ \/ job[p].part = "segment" /\ j.at = "write" /\ j.part = "manifest"
                  \/ job[p].part # "segment" /\ j.at = "complete" /\ j.part = job[p].part
  <2>1. CASE job[p].part = "segment"
    <3>1. job' = [job EXCEPT ![p] = [job[p] EXCEPT !.at = "write", !.part = "manifest"]]
      BY <2>1 DEF Unlink
    <3>2. PICK j : j = [job[p] EXCEPT !.at = "write", !.part = "manifest"]
      OBVIOUS
    <3>3. j.id = job[p].id /\ j.at = "write" /\ j.part = "manifest"
      BY <3>2 DEF IInv, JobsOK, Jobs
    <3> QED BY <2>1, <3>1, <3>2, <3>3
  <2>2. CASE job[p].part # "segment"
    <3>1. job' = [job EXCEPT ![p] = [job[p] EXCEPT !.at = "complete"]]
      BY <2>2 DEF Unlink
    <3>2. PICK j : j = [job[p] EXCEPT !.at = "complete"]
      OBVIOUS
    <3>3. j.id = job[p].id /\ j.at = "complete" /\ j.part = job[p].part
      BY <3>2 DEF IInv, JobsOK, Jobs
    <3> QED BY <2>2, <3>1, <3>2, <3>3
  <2> QED BY <2>1, <2>2
<1>6. UNCHANGED op /\ Anchored' = Anchored /\ Underway' = Underway
  BY <1>1 DEF Anchored, Underway, journal, audit
<1>7. FilesOK'
  BY <1>1, <1>4, <1>6 DEF AuditInv, FilesOK
<1>8. PublishFits(j)'
  <2>1. \A part : Published(part) => Published(part)'
    BY <1>1, <1>6 DEF Published, FileOf
  <2>2. j.part \in Parts(op)
    BY <1>3, <1>5 DEF Parts
  <2> QED BY <1>3, <1>4, <1>5, <1>6, <2>1, <2>2 DEF PublishFits, Parts
<1>9. Fits(j)'
  BY <1>5, <1>8 DEF Fits, PublishingPlaces
<1>10. OpShape'
  BY <1>1 DEF AuditInv, OpShape, NoOp, audit, journal
<1> QED BY <1>1, <1>3, <1>5, <1>7, <1>9, <1>10, HolderMoves
      DEF journal, audit, Holding, PublishingPlaces

-----------------------------------------------------------------------------
(* Settling the operation.                                                 *)
LEMMA SettledRecord ==
    ASSUME IInv, IInv', AuditInv, NEW p \in Procs, job[p].at \in Holding,
           NEW outcome \in {"completed", "failed"}, Settle(outcome), head <= head',
           \A o \in past : Settled(o)',
           IF outcome = "completed"
           THEN /\ op.kind = "archive" => <<op.from, op.through>> \in Anchored'
                /\ op.kind = "maintenance" => FileOf(op, "backup") \in files'
                /\ op.kind = "prune" => \A e \in rows' : e > op.through
           ELSE ~op.applied /\ (op.kind = "maintenance" => FileOf(op, "backup") \notin files')
    PROVE  PastOK'
<1>1. PICK o : o = [op EXCEPT !.state = outcome]
  OBVIOUS
<1>2. op # NoOp
  BY HeldOp
<1>3. op.kind \in {"archive", "maintenance", "prune"}
  BY <1>2 DEF AuditInv, OpShape
<1>4. /\ o.id = op.id /\ o.kind = op.kind /\ o.from = op.from /\ o.through = op.through
      /\ o.applied = op.applied /\ o.state = outcome /\ o \in PastRecords
  BY <1>1, <1>3 DEF IInv, OpOK, Records, PastRecords
<1>5. past' = past \union {o}
  BY <1>1 DEF Settle
<1>6. o.through <= head'
  BY <1>4 DEF IInv, OpOK, JournalOK, Records
<1>7. FileOf(o, "backup") = FileOf(op, "backup")
  BY <1>4 DEF FileOf
<1>8. Settled(o)'
  <2>1. CASE outcome = "completed"
    BY <1>4, <1>6, <1>7, <2>1 DEF Settled, FileOf
  <2>2. CASE outcome = "failed"
    BY <1>4, <1>6, <1>7, <2>2 DEF Settled, FileOf
  <2> QED BY <2>1, <2>2
<1>9. \A x \in past' : Settled(x)'
  BY <1>5, <1>8
<1>10. past' \subseteq PastRecords
  BY <1>4, <1>5 DEF AuditInv, PastOK
<1> QED BY <1>9, <1>10 DEF PastOK

LEMMA NothingActive ==
    ASSUME op' = NoOp, temps' = {}
    PROVE  /\ OpShape' /\ Underway' = {} /\ temps' \subseteq {TempOf(op', part) : part \in Parts(op')}
           /\ op'.kind # "archive"
  BY DEF OpShape, Underway, NoOp

LEMMA SettleKeeps ==
    ASSUME IInv, IInv', AuditInv, NEW p \in Procs, job[p].at \in Holding, Leaves(p),
           NEW outcome \in {"completed", "failed"}, Settle(outcome),
           Audits, UNCHANGED <<retained, anchor, calls>>, temps' = {},
           files' \subseteq files,
           \A f \in files \ files' : op.kind = "maintenance" /\ f = FileOf(op, "backup"),
           op.kind = "archive" => \A part \in Parts(op) : FileOf(op, part) \notin files',
           IF outcome = "completed"
           THEN /\ op.kind # "archive"
                /\ op.kind = "maintenance" => FileOf(op, "backup") \in files'
                /\ op.kind = "prune" => \A e \in rows : e > op.through
           ELSE ~op.applied /\ (op.kind = "maintenance" => FileOf(op, "backup") \notin files')
    PROVE  AuditInv'
<1>1. Grown /\ op' = NoOp
  BY AuditsGrow DEF Settle
<1>2. IdsOK'
  BY IdsSettle
<1>3. Anchored' = Anchored
  BY DEF Anchored
<1>4. OpShape' /\ Underway' = {} /\ temps' \subseteq {TempOf(op', part) : part \in Parts(op')}
  BY <1>1, NothingActive
<1>5. FitsOK'
  <2>1. job'[p] = Idle /\ \A q \in Procs \ {p} : job'[q] = job[q]
    BY IdsTypes DEF Leaves
  <2>2. Fits(job[p])'
    BY <2>1 DEF Fits, Idle, PublishingPlaces
  <2> QED BY <2>1, <2>2, FitsOthers
<1>6. FilesOK'
  <2> SUFFICES ASSUME NEW f \in files'
               PROVE  f.part = "backup" \/ \E s \in Anchored : f \in ArchiveFiles(s)
    BY <1>3, <1>4 DEF FilesOK
  <2>1. f \notin Underway
    <3> SUFFICES ASSUME f \in Underway PROVE FALSE
      OBVIOUS
    <3>1. op.kind = "archive"
      BY DEF Underway
    <3>2. f \in {FileOf(op, part) : part \in Parts(op)}
      BY <3>1 DEF Underway, ArchiveFiles, FileOf, Parts
    <3> QED BY <3>1, <3>2
  <2> QED BY <2>1 DEF AuditInv, FilesOK
<1>7. \A o \in past : Settled(o)'
  <2> DEFINE S == files \ files'
  <2>1. \A f \in S : f.part = "backup" => f.key = <<op.id, 0>>
    BY DEF FileOf, File
  <2>2. \A o \in past : FileOf(o, "backup") \notin S
    <3> HIDE DEF S
    <3>1. PICK T : T = S
      OBVIOUS
    <3> QED BY <2>1, <3>1, BackupsApart
  <2>3. \A o \in past : FileOf(o, "backup") \in files' <=> FileOf(o, "backup") \in files
    BY <2>2
  <2> HIDE DEF S
  <2> QED BY <1>1, <1>3, <2>3, PastStays DEF Grown
<1>8. PastOK'
  <2>1. op.kind = "prune" /\ outcome = "completed" => \A e \in rows' : e > op.through
    <3>1. /\ op.through \in Nat /\ op.through <= head /\ head \in Nat
          /\ rows' \subseteq 1..head'
      BY DEF IInv, OpOK, Records, JournalOK
    <3> QED BY <1>1, <3>1 DEF Grown, IInv, JournalOK
  <2> QED BY <1>1, <1>7, <2>1, SettledRecord DEF Grown
<1>9. LogOK'
  <2>1. \A f \in files \ files' : \A s \in Anchored : f \notin ArchiveFiles(s)
    BY DEF FileOf, File, ArchiveFiles
  <2>2. op'.kind # "archive"
    BY <1>1 DEF NoOp
  <2> QED BY <2>1, <2>2, LogStays
<1> QED BY <1>2, <1>4, <1>5, <1>6, <1>8, <1>9 DEF AuditInv

(* A publication that fails half-way leaves no temporary file.             *)
LEMMA LeavesClean ==
    ASSUME IInv, IInv', AuditInv, NEW p \in Procs, job[p].at \in Holding, Leaves(p),
           UNCHANGED <<head, rows, retained, anchor, op, past, files, calls>>, temps' = {}
    PROVE  AuditInv'
<1>1. IdsOK'
  BY IdsLeave
<1>2. OpShape'
  BY DEF AuditInv, OpShape, NoOp
<1>3. FitsOK'
  <2>1. job'[p] = Idle /\ \A q \in Procs \ {p} : job'[q] = job[q]
    BY IdsTypes DEF Leaves
  <2>2. Fits(job[p])'
    BY <2>1 DEF Fits, Idle, PublishingPlaces
  <2> QED BY <2>1, <2>2, FitsOthers
<1>4. Anchored' = Anchored /\ Underway' = Underway
  BY DEF Anchored, Underway
<1>5. FilesOK'
  BY <1>4 DEF AuditInv, FilesOK
<1>6. PastOK'
  BY <1>4, PastStays DEF AuditInv, PastOK, IInv, JournalOK
<1>7. LogOK'
  <2>1. op.kind = "archive" => op.from = ArchiveHead + 1 /\ op.through > ArchiveHead
    BY DEF AuditInv, LogOK
  <2> QED BY <2>1, LogStays DEF Audits
<1> QED BY <1>1, <1>2, <1>3, <1>5, <1>6, <1>7 DEF AuditInv

LEMMA AnchorSettles ==
    ASSUME IInv, IInv', AuditInv, NEW p \in Procs, job[p].at \in Holding, Leaves(p),
           AnchorArchive, op.kind = "archive", temps = {},
           \A part \in Parts(op) : Published(part)
    PROVE  AuditInv'
<1> DEFINE range == <<op.from, op.through>>
<1>1. /\ UNCHANGED <<retained, files, temps, calls>> /\ Audited(1) /\ Settle("completed")
      /\ op' = NoOp /\ anchor' = Append(anchor, range)
  BY DEF AnchorArchive, disk, Settle
<1>2. /\ Len(anchor') = Len(anchor) + 1 /\ Len(anchor') \in Nat
      /\ ArchiveHead' = op.through /\ Anchored' = Anchored \union {range}
  BY AnchorGrows, <1>1 DEF IInv, JournalOK
<1>3. /\ op.from = ArchiveHead + 1 /\ op.through > ArchiveHead
      /\ ArchiveHead \in Nat /\ op.through \in Nat /\ op.through <= head /\ head \in Nat
      /\ head' \in Nat /\ rows \subseteq 1..head /\ rows' \subseteq 1..head' /\ retained \in Nat
  <2>1. op.from = ArchiveHead + 1 /\ op.through > ArchiveHead
    BY DEF AuditInv, LogOK
  <2>2. ArchiveHead \in Nat
    BY DEF IInv, JournalOK, ArchiveHead
  <2>3. op.through \in Nat /\ op.through <= head
    BY DEF IInv, OpOK, Records
  <2>4. /\ head \in Nat /\ head' \in Nat /\ retained \in Nat
        /\ rows \subseteq 1..head /\ rows' \subseteq 1..head'
    BY DEF IInv, JournalOK
  <2> QED BY <2>1, <2>2, <2>3, <2>4
<1>4. Grown
  BY <1>1, AuditsGrow DEF Audits
<1>5. IdsOK'
  BY <1>1, IdsSettle
<1>6. OpShape' /\ Underway' = {} /\ temps' \subseteq {TempOf(op', part) : part \in Parts(op')}
  BY <1>1, NothingActive
<1>7. FitsOK'
  <2>1. job'[p] = Idle /\ \A q \in Procs \ {p} : job'[q] = job[q]
    BY IdsTypes DEF Leaves
  <2>2. Fits(job[p])'
    BY <2>1 DEF Fits, Idle, PublishingPlaces
  <2>3. Len(anchor') > Len(anchor)
    BY <1>2 DEF IInv, JournalOK
  <2> QED BY <1>2, <2>1, <2>2, <2>3, FitsOthers
<1>8. ArchiveFiles(range) = Underway
  BY DEF Underway
<1>9. ArchiveFiles(range) \subseteq files
  BY DEF Published, FileOf, Parts, ArchiveFiles
<1>10. FilesOK'
  BY <1>1, <1>2, <1>6, <1>8 DEF AuditInv, FilesOK
<1>11. PastOK'
  <2>1. \A o \in past : Settled(o)'
    BY <1>1, <1>2, <1>4, PastStays DEF Grown
  <2> QED BY <1>1, <1>2, <1>4, <2>1, SettledRecord DEF Grown
<1>12. LogOK'
  <2>1. retained' <= head' /\ \A e \in rows' : e > retained'
    BY <1>1, <1>3, <1>4 DEF Grown, AuditInv, LogOK
  <2>2. \A e \in 1..head' : e \in rows' \/ e <= op.through
    BY <1>3, <1>4 DEF Grown, AuditInv, LogOK
  <2>3. \A s \in Anchored : s[2] <= op.through
    <3>1. \A s \in Anchored : s[2] \in Nat /\ s[2] <= ArchiveHead
      BY DEF IInv, JournalOK, Anchored, AuditInv, LogOK
    <3> QED BY <1>3, <3>1
  <2>4. range[1] > 0 /\ range[2] <= op.through
    BY <1>3
  <2>5. \A s \in Anchored' : s[1] > 0 /\ s[2] <= op.through /\ ArchiveFiles(s) \subseteq files
    <3> HIDE DEF range
    <3> QED BY <1>2, <1>9, <2>3, <2>4 DEF AuditInv, LogOK
  <2> QED BY <1>1, <1>2, <2>1, <2>2, <2>5 DEF LogOK, NoOp
<1> QED BY <1>5, <1>6, <1>7, <1>10, <1>11, <1>12 DEF AuditInv

LEMMA CompletionAudit ==
    ASSUME IInv, IInv', AuditInv, NEW p \in Procs,
           CompleteArchive(p) \/ CompleteMaintenance(p) \/ PruneComplete(p)
    PROVE  AuditInv'
<1>1. CASE CompleteArchive(p)
  <2>1. job[p].at = "complete" /\ op.kind = "archive" /\ AnchorArchive /\ Leaves(p)
    BY <1>1 DEF CompleteArchive, Publishing
  <2>2. job[p].at \in Holding /\ PublishFits(job[p]) /\ job[p].part \in Parts(op)
    BY <2>1, AtPlace DEF PublishingPlaces
  <2>3. temps = {} /\ \A part \in Parts(op) : Published(part)
    BY <2>1, <2>2 DEF PublishFits, Parts
  <2> QED BY <2>1, <2>2, <2>3, AnchorSettles
<1>2. CASE CompleteMaintenance(p)
  <2>1. /\ job[p].at = "complete" /\ op.kind = "maintenance" /\ Leaves(p) /\ Audits
        /\ Settle("completed") /\ UNCHANGED <<retained, anchor, files, temps, calls>>
    BY <1>2 DEF CompleteMaintenance, Publishing, Audits, disk
  <2>2. job[p].at \in Holding /\ PublishFits(job[p]) /\ job[p].part \in Parts(op)
    BY <2>1, AtPlace DEF PublishingPlaces
  <2>3. temps = {} /\ FileOf(op, "backup") \in files
    BY <2>1, <2>2 DEF PublishFits, Parts, Published
  <2> QED BY <2>1, <2>2, <2>3, SettleKeeps
<1>3. CASE PruneComplete(p)
  <2>1. /\ job[p].at = "completing" /\ op.state = "effect_applied" /\ Leaves(p) /\ Audits
        /\ Settle("completed") /\ UNCHANGED <<retained, anchor, files, temps, calls>>
    BY <1>3 DEF PruneComplete, Mine, Audits, disk
  <2>2. job[p].at \in Holding
    BY <2>1 DEF Holding
  <2>3. op.kind = "prune" /\ retained = op.through
    BY <2>1 DEF AuditInv, OpShape, NoOp
  <2>4. temps = {}
    BY <2>3 DEF AuditInv, FilesOK, Parts
  <2>5. \A e \in rows : e > op.through
    BY <2>3 DEF AuditInv, LogOK
  <2> QED BY <2>1, <2>2, <2>3, <2>4, <2>5, SettleKeeps
<1> QED BY <1>1, <1>2, <1>3

LEMMA PublishFailsAudit ==
    ASSUME IInv, IInv', AuditInv, NEW p \in Procs, PublishFails(p)
    PROVE  AuditInv'
<1>1. /\ job[p].at \in {"write", "evidence", "link", "complete"}
      /\ job[p].at = "complete" => op.kind = "maintenance"
  BY DEF PublishFails, Publishing
<1>2. /\ job[p].at \in Holding /\ PublishFits(job[p]) /\ job[p].part \in Parts(op)
      /\ op.kind \in {"archive", "maintenance"} /\ ~op.applied
  BY <1>1, AtPlace DEF PublishingPlaces
<1>3. /\ temps' = temps \ {TempOf(op, job[p].part)} /\ Leaves(p)
      /\ files' = files \ (IF op.kind = "maintenance" THEN {FileOf(op, "backup")} ELSE {})
      /\ UNCHANGED <<retained, anchor, calls>>
  BY DEF PublishFails
<1>4. temps' = {}
  BY <1>2, <1>3 DEF PublishFits
<1>5. CASE \A part \in Parts(op) : FileOf(op, part) \notin files'
  <2>1. Settle("failed") /\ Audits
    BY <1>5 DEF PublishFails, Audits
  <2>2. op.kind = "maintenance" => FileOf(op, "backup") \notin files'
    BY <1>3
  <2> QED BY <1>2, <1>3, <1>4, <1>5, <2>1, <2>2, SettleKeeps
<1>6. CASE ~(\A part \in Parts(op) : FileOf(op, part) \notin files')
  <2>1. UNCHANGED <<audit, head, rows>>
    BY <1>6 DEF PublishFails
  <2>2. op.kind = "archive"
    BY <1>2, <1>3, <1>6 DEF Parts
  <2>3. files' = files /\ UNCHANGED <<op, past>>
    BY <1>3, <2>1, <2>2 DEF audit
  <2>4. AuditInv'
    BY <1>2, <1>3, <1>4, <2>1, <2>3, LeavesClean DEF Audits
  <2> QED BY <2>4
<1> QED BY <1>5, <1>6

-----------------------------------------------------------------------------
(* The operation begins, or has its effect.                                *)
LEMMA BeginKeeps ==
    ASSUME IInv, IInv', AuditInv, NEW p \in Procs, op = NoOp, op' # NoOp, Audits, IdsOK',
           UNCHANGED <<retained, anchor, past, files, temps>>,
           \A q \in Procs \ {p} : job'[q] = job[q],
           NEW j, job'[p] = j, j.at \in {"write", "effect"},
           OpShape',
           j.at = "write" => /\ op'.kind \in {"archive", "maintenance"}
                             /\ j.part \in Parts(op') \ {"manifest"},
           j.at = "effect" => op'.kind = "prune" /\ op'.state = "authorized",
           op'.kind = "archive" => op'.from = ArchiveHead + 1 /\ op'.through > ArchiveHead
    PROVE  AuditInv'
<1>1. temps = {} /\ Underway = {}
  BY DEF AuditInv, FilesOK, Parts, NoOp, Underway
<1>2. Fits(j)'
  <2>1. CASE j.at = "write"
    BY <1>1, <2>1 DEF Fits, PublishFits, PublishingPlaces
  <2>2. CASE j.at = "effect"
    BY <2>2 DEF Fits, PublishingPlaces
  <2> QED BY <2>1, <2>2
<1>3. FitsOK'
  <2>1. Fits(job[p])'
    BY <1>2
  <2> QED BY <2>1, FitsOthers
<1>4. Anchored' = Anchored /\ Grown
  BY AuditsGrow DEF Anchored
<1>5. FilesOK'
  BY <1>1, <1>4 DEF AuditInv, FilesOK
<1>6. PastOK'
  BY <1>4, PastStays DEF Grown, AuditInv, PastOK
<1>7. LogOK'
  BY LogStays
<1> QED BY <1>3, <1>5, <1>6, <1>7 DEF AuditInv

LEMMA ArchiveBeginAudit ==
    ASSUME IInv, IInv', AuditInv, NEW p \in Procs, ArchiveBegin(p)
    PROVE  AuditInv'
<1>1. CASE Throws(p)
  BY <1>1, ThrowsAudit DEF Throws, journal, audit, disk, Audits
<1>2. CASE ~Throws(p)
  <2> DEFINE f == ArchiveHead + 1
             o == [NoOp EXCEPT !.id = job[p].id, !.kind = "archive", !.state = "publishing",
                               !.from = f, !.through = job[p].through]
  <2>1. /\ op = NoOp /\ Len(anchor) = job[p].seen /\ job[p].at = "archive"
        /\ op' = o /\ Audited(2)
        /\ job' = [job EXCEPT ![p].at = "write", ![p].part = "segment"]
        /\ UNCHANGED <<retained, anchor, past, requests, disk, calls>>
    BY <1>2 DEF ArchiveBegin
  <2>2. job[p].through > ArchiveHead
    BY <2>1 DEF AuditInv, FitsOK, Fits
  <2> HIDE DEF f
  <2>3. /\ o.id = job[p].id /\ o.kind = "archive" /\ o.state = "publishing" /\ ~o.applied
        /\ o.from = f /\ o.through = job[p].through /\ o # NoOp
    BY DEF NoOp
  <2> HIDE DEF o
  <2>4. PICK j : j = [job[p] EXCEPT !.at = "write", !.part = "segment"]
    OBVIOUS
  <2>5. /\ j.at = "write" /\ j.part = "segment" /\ j.id = job[p].id
        /\ job' = [job EXCEPT ![p] = j]
    BY <2>1, <2>4 DEF IInv, JobsOK, Jobs
  <2>6. IdsOK'
    BY <2>1, <2>3, <2>5, IdsBegin DEF Holding, PublishingPlaces
  <2>7. job'[p] = j /\ \A q \in Procs \ {p} : job'[q] = job[q]
    BY <2>5, IdsTypes
  <2>8. OpShape'
    BY <2>1, <2>3 DEF OpShape
  <2>9. "segment" \in Parts(op')
    BY <2>1, <2>3 DEF Parts
  <2>10. op'.from = ArchiveHead + 1
    BY <2>1, <2>3 DEF f
  <2> QED BY ZenonT(60), <2>1, <2>2, <2>3, <2>5, <2>6, <2>7, <2>8, <2>9, <2>10, BeginKeeps DEF Audits, disk
<1> QED BY <1>1, <1>2

LEMMA MaintainBeginAudit ==
    ASSUME IInv, IInv', AuditInv, NEW p \in Procs, MaintainBegin(p)
    PROVE  AuditInv'
<1>1. PICK o : o = [NoOp EXCEPT !.id = calls', !.kind = "maintenance",
                                !.state = "publishing", !.through = head]
  OBVIOUS
<1>2. PICK j : j = [Idle EXCEPT !.at = "write", !.id = calls', !.part = "backup"]
  OBVIOUS
<1>3. /\ op = NoOp /\ op' = o /\ job[p] = Idle /\ Calls /\ job' = [job EXCEPT ![p] = j]
      /\ Audited(1) /\ UNCHANGED <<retained, anchor, past, disk>>
  BY <1>1, <1>2 DEF MaintainBegin
<1>4. o.id = calls' /\ o.kind = "maintenance" /\ o.state = "publishing" /\ ~o.applied /\ o # NoOp
  BY <1>1 DEF NoOp
<1>5. j.at = "write" /\ j.id = calls' /\ j.part = "backup"
  BY <1>2 DEF Idle
<1>6. IdsOK'
  BY <1>3, <1>4, <1>5, IdsCall DEF Holding, PublishingPlaces
<1>7. job'[p] = j /\ \A q \in Procs \ {p} : job'[q] = job[q]
  BY <1>3, IdsTypes
<1>8. OpShape' /\ "backup" \in Parts(op')
  BY <1>3, <1>4 DEF OpShape, Parts
<1> QED BY <1>3, <1>4, <1>5, <1>6, <1>7, <1>8, BeginKeeps DEF Audits, disk

LEMMA AuthorizeAudit ==
    ASSUME IInv, IInv', AuditInv, NEW p \in Procs, Authorize(p)
    PROVE  AuditInv'
<1>1. CASE Throws(p)
  BY <1>1, ThrowsAudit DEF Throws, journal, audit, disk, Audits
<1>2. CASE /\ Audited(2) /\ Leaves(p)
           /\ UNCHANGED <<retained, anchor, audit, disk, calls>> /\ Unread
  BY <1>2, ThrowsAudit DEF audit, disk, Audits
<1>3. CASE ~Throws(p) /\ ~(/\ Audited(2) /\ Leaves(p)
                           /\ UNCHANGED <<retained, anchor, audit, disk, calls>> /\ Unread)
  <2>1. PICK o : o = [NoOp EXCEPT !.id = job[p].id, !.kind = "prune",
                                  !.state = "authorized", !.through = job[p].through]
    OBVIOUS
  <2>2. /\ op = NoOp /\ job[p].at = "authorize" /\ op' = o /\ Audited(1) /\ Goes(p, "effect")
        /\ UNCHANGED <<retained, anchor, past, disk, calls>>
    BY <1>3, <2>1 DEF Authorize
  <2>3. o.id = job[p].id /\ o.kind = "prune" /\ o.state = "authorized" /\ ~o.applied /\ o # NoOp
    BY <2>1 DEF NoOp
  <2>4. PICK j : j = [job[p] EXCEPT !.at = "effect"]
    OBVIOUS
  <2>5. j.at = "effect" /\ j.id = job[p].id /\ job' = [job EXCEPT ![p] = j]
    BY <2>2, <2>4 DEF Goes, IInv, JobsOK, Jobs
  <2>6. IdsOK'
    BY <2>2, <2>3, <2>5, IdsBegin DEF Holding
  <2>7. job'[p] = j /\ \A q \in Procs \ {p} : job'[q] = job[q]
    BY <2>5, IdsTypes
  <2>8. OpShape'
    BY <2>2, <2>3 DEF OpShape
  <2> QED BY <2>2, <2>3, <2>5, <2>6, <2>7, <2>8, BeginKeeps DEF Audits, disk
<1> QED BY <1>1, <1>2, <1>3

LEMMA PruneEffectAudit ==
    ASSUME IInv, IInv', AuditInv, NEW p \in Procs, PruneEffect(p)
    PROVE  AuditInv'
<1>1. CASE Throws(p)
  BY <1>1, ThrowsAudit DEF Throws, journal, audit, disk, Audits
<1>2. CASE ~Throws(p)
  <2>1. /\ job[p].at = "effect" /\ op.id = job[p].id /\ ArchiveHead >= op.through
        /\ rows' = {e \in rows : e > op.through} /\ retained' = op.through
        /\ op' = [op EXCEPT !.state = "effect_applied", !.applied = TRUE]
        /\ Goes(p, "completing")
        /\ UNCHANGED <<head, anchor, past, requests, files, temps, calls>>
    BY <1>2 DEF PruneEffect, Mine, disk
  <2>2. job[p].at \in Holding /\ op.kind = "prune" /\ op # NoOp /\ op.id # 0
    BY <2>1, HeldOp DEF Holding, AuditInv, FitsOK, Fits
  <2>3. /\ op'.id = op.id /\ op'.kind = "prune" /\ op'.through = op.through
        /\ op'.state = "effect_applied" /\ op' # NoOp
    BY <2>1, <2>2 DEF IInv, OpOK, Records, NoOp
  <2>4. PICK j : j = [job[p] EXCEPT !.at = "completing"]
    OBVIOUS
  <2>5. j.at = "completing" /\ j.id = job[p].id /\ job' = [job EXCEPT ![p] = j]
    BY <2>1, <2>4 DEF Goes, IInv, JobsOK, Jobs
  <2>6. \A q \in Procs : job'[q] = IF q = p THEN j ELSE job[q]
    BY <2>5, IdsTypes
  <2>7. IdsOK'
    <3>1. calls <= calls'
      BY <2>1 DEF IInv, RequestsOK
    <3>2. job[p].at \in Holding /\ j.at \in Holding
      BY <2>2, <2>5 DEF Holding
    <3> QED BY <2>1, <2>2, <2>3, <2>5, <2>6, <3>1, <3>2, IdsGoOn
  <2>8. OpShape'
    BY <2>1, <2>3 DEF OpShape
  <2>9. FitsOK'
    <3>1. Fits(j)'
      BY <2>3, <2>5 DEF Fits, PublishingPlaces
    <3>2. Fits(job[p])'
      BY <2>6, <3>1
    <3> QED BY <2>1, <2>2, <2>6, <3>2, FitsOthers
  <2>10. Anchored' = Anchored /\ ArchiveHead' = ArchiveHead
    BY <2>1 DEF Anchored, ArchiveHead
  <2>11. FilesOK'
    BY <2>1, <2>2, <2>3, <2>10 DEF AuditInv, FilesOK, Parts, Underway
  <2>12. PastOK'
    BY <2>1, <2>10, PastStays DEF AuditInv, PastOK, IInv, JournalOK
  <2>13. LogOK'
    <3>1. /\ op.through \in Nat /\ op.through <= head /\ head \in Nat /\ ArchiveHead \in Nat
          /\ rows \subseteq 1..head
      BY SMTT(30) DEF IInv, OpOK, Records, JournalOK, ArchiveHead
    <3>2. retained' <= head' /\ \A e \in rows' : e > retained'
      BY <2>1, <3>1
    <3>3. \A e \in 1..head' : e \in rows' \/ e <= ArchiveHead'
      BY <2>1, <2>10, <3>1 DEF AuditInv, LogOK
    <3> QED BY <2>1, <2>3, <2>10, <3>2, <3>3 DEF AuditInv, LogOK
  <2> QED BY <2>7, <2>8, <2>9, <2>11, <2>12, <2>13 DEF AuditInv
<1> QED BY <1>1, <1>2

-----------------------------------------------------------------------------
(* A reconciliation. The files of an operation that is not linked and all  *)
(* published, or of one with nothing left over, include no temporary one.  *)
LEMMA NoTemps ==
    ASSUME AuditInv,
           \/ (\A part \in Parts(op) : Published(part)) /\ \A t \in temps : ~Linked(t)
           \/ ~Leftovers
    PROVE  temps = {}
<1> SUFFICES ASSUME NEW t \in temps PROVE FALSE
  OBVIOUS
<1>1. PICK part \in Parts(op) : t = TempOf(op, part)
  BY DEF AuditInv, FilesOK
<1> QED BY <1>1 DEF Published, Linked, TempOf, Leftovers

LEMMA AtReconcile ==
    ASSUME IInv, AuditInv, NEW p \in Procs, job[p].at = "reconcile"
    PROVE  /\ job[p].at \in Holding /\ ReconcileFits(job[p])
           /\ op.kind \in {"archive", "maintenance", "prune"}
           /\ op.kind # "prune" => ~op.applied
           /\ op.kind = "prune" => Parts(op) = {}
           /\ op.kind = "maintenance" => Parts(op) = {"backup"}
<1>1. job[p].at \in Holding /\ ReconcileFits(job[p])
  BY DEF Holding, AuditInv, FitsOK, Fits
<1>2. op # NoOp
  BY <1>1, HeldOp
<1> QED BY <1>1, <1>2 DEF AuditInv, OpShape, Parts

LEMMA DiscardedMeans ==
    ASSUME IInv, AuditInv, NEW p \in Procs, job[p].at = "reconcile", Discarded(job[p].class)
    PROVE  /\ job[p].class # "fully_published_missing_completion"
           /\ job[p].class = "maintenance_backup_published" => ~op.evidence
           /\ op.kind = "prune" => op.state = "authorized"
<1>1. ReconcileFits(job[p])
  BY AtReconcile
<1>2. /\ job[p].class \in ArchiveClasses => op.kind = "archive"
      /\ job[p].class \in MaintenanceClasses => op.kind = "maintenance"
  BY <1>1 DEF ReconcileFits
<1> QED BY <1>2 DEF Discarded, PruneNotApplied, ArchiveClasses, MaintenanceClasses

LEMMA ProvenAudit ==
    ASSUME IInv, IInv', AuditInv, NEW p \in Procs, job[p].at = "reconcile",
           Proven(job[p].class), Leaves(p),
           IF op.kind = "archive" THEN AnchorArchive
           ELSE /\ Settle("completed") /\ Audited(1)
                /\ UNCHANGED <<retained, anchor, disk, calls>>
    PROVE  AuditInv'
<1>1. /\ job[p].at \in Holding /\ ReconcileFits(job[p])
      /\ op.kind \in {"archive", "maintenance", "prune"}
  BY AtReconcile
<1>2. /\ job[p].class \in ArchiveClasses => op.kind = "archive"
      /\ job[p].class \in MaintenanceClasses => op.kind = "maintenance"
      /\ \A t \in temps : ~Linked(t)
  BY <1>1 DEF ReconcileFits
<1>3. CASE op.kind = "archive"
  <2>1. job[p].class = "fully_published_missing_completion"
    BY <1>2, <1>3 DEF Proven, MaintenanceClasses
  <2>2. \A part \in Parts(op) : Published(part)
    BY <1>1, <2>1 DEF ReconcileFits
  <2>3. temps = {}
    BY <1>2, <2>2, NoTemps
  <2> QED BY <1>1, <1>3, <2>2, <2>3, AnchorSettles
<1>4. CASE op.kind = "maintenance"
  <2>1. job[p].class = "maintenance_backup_published" /\ op.evidence
    BY <1>2, <1>4 DEF Proven, ArchiveClasses
  <2>2. Published("backup") /\ Parts(op) = {"backup"}
    BY <1>1, <1>4, <2>1 DEF ReconcileFits, Parts
  <2>3. temps = {}
    BY <1>2, <2>2, NoTemps
  <2> QED BY <1>1, <1>4, <2>2, <2>3, SettleKeeps DEF Published, Audits, disk
<1>5. CASE op.kind = "prune"
  <2>1. PruneApplied
    BY <1>2, <1>5 DEF Proven, ArchiveClasses, MaintenanceClasses
  <2>2. \A e \in rows : e > op.through
    <3>1. op.through \in Nat /\ rows \subseteq 1..head /\ head \in Nat
      BY DEF IInv, OpOK, Records, JournalOK
    <3> QED BY <2>1, <3>1 DEF PruneApplied, Remaining
  <2>3. temps = {}
    BY <1>5 DEF AuditInv, FilesOK, Parts
  <2> QED BY <1>1, <1>5, <2>2, <2>3, SettleKeeps DEF Audits, disk
<1> QED BY <1>1, <1>3, <1>4, <1>5

LEMMA DiscardedAudit ==
    ASSUME IInv, IInv', AuditInv, NEW p \in Procs, job[p].at = "reconcile",
           Discarded(job[p].class), ~Leftovers, Leaves(p), Settle("failed"), Audited(1),
           UNCHANGED <<retained, anchor, disk, calls>>
    PROVE  AuditInv'
<1>1. /\ job[p].at \in Holding
      /\ op.kind \in {"archive", "maintenance", "prune"}
      /\ op.kind # "prune" => ~op.applied
      /\ op.kind = "maintenance" => Parts(op) = {"backup"}
  BY AtReconcile
<1>2. ~op.applied
  BY <1>1, DiscardedMeans DEF AuditInv, OpShape, NoOp
<1>3. temps = {}
  BY NoTemps
<1>4. \A part \in Parts(op) : FileOf(op, part) \notin files
  BY DEF Leftovers, Published
<1> QED BY <1>1, <1>2, <1>3, <1>4, SettleKeeps DEF Audits, disk

LEMMA RemoveAudit ==
    ASSUME IInv, IInv', AuditInv, NEW p \in Procs, job[p].at = "reconcile",
           Discarded(job[p].class), RemoveLeftover, UNCHANGED <<journal, audit, job, calls>>
    PROVE  AuditInv'
<1>1. job[p].at \in Holding /\ ReconcileFits(job[p])
  BY AtReconcile
<1>2. /\ files' \subseteq files /\ temps' \subseteq temps
      /\ \A f \in files \ files' : \E part \in Parts(op) : f = FileOf(op, part)
  <2>1. CASE {part \in Parts(op) : Published(part)} # {}
    <3>1. PICK x \in Parts(op) : files' = files \ {FileOf(op, x)} /\ temps' = temps
      <4> DEFINE left == {part \in Parts(op) : Published(part)}
                 x == IF "segment" \in left THEN "segment" ELSE CHOOSE part \in left : TRUE
      <4>1. files' = files \ {FileOf(op, x)} /\ temps' = temps
        BY <2>1 DEF RemoveLeftover
      <4>2. x \in left
        BY <2>1
      <4>3. x \in Parts(op)
        BY <4>2
      <4> HIDE DEF x
      <4> QED BY <4>1, <4>3
    <3> QED BY <3>1
  <2>2. CASE {part \in Parts(op) : Published(part)} = {}
    BY <2>2 DEF RemoveLeftover
  <2> QED BY <2>1, <2>2
<1>3. PICK j : j = job[p]
  OBVIOUS
<1>4. job' = [job EXCEPT ![p] = j] /\ j.id = job[p].id /\ j.at \in Holding
  BY <1>1, <1>3 DEF IInv, JobsOK
<1>5. UNCHANGED <<op, anchor>> /\ Anchored' = Anchored /\ Underway' = Underway
  BY DEF journal, audit, Anchored, Underway
<1>6. OpShape'
  BY <1>5 DEF journal, AuditInv, OpShape, NoOp
<1>7. FilesOK'
  BY <1>2, <1>5 DEF AuditInv, FilesOK
<1>8. ReconcileFits(j)'
  <2>1. \A t \in temps' : ~Linked(t)'
    BY <1>1, <1>2 DEF ReconcileFits, Linked
  <2> QED BY <1>1, <1>3, <1>5, <2>1, DiscardedMeans DEF ReconcileFits
<1>9. Fits(j)'
  BY <1>3, <1>8 DEF Fits, PublishingPlaces
<1> QED BY <1>1, <1>2, <1>4, <1>5, <1>6, <1>7, <1>9, HolderMoves DEF journal, audit

LEMMA ReconcileAudit ==
    ASSUME IInv, IInv', AuditInv, NEW p \in Procs, Reconcile(p)
    PROVE  AuditInv'
<1>1. job[p].at = "reconcile"
  BY DEF Reconcile
<1>2. CASE Throws(p)
  BY <1>2, ThrowsAudit DEF Throws, journal, audit, disk, Audits
<1>3. CASE ~Throws(p) /\ Proven(job[p].class)
  <2>1. /\ Leaves(p)
        /\ IF op.kind = "archive" THEN AnchorArchive
           ELSE /\ Settle("completed") /\ Audited(1)
                /\ UNCHANGED <<retained, anchor, disk, calls>>
    BY <1>3 DEF Reconcile
  <2> QED BY <1>1, <1>3, <2>1, ProvenAudit
<1>4. CASE ~Throws(p) /\ ~Proven(job[p].class) /\ Discarded(job[p].class) /\ Leftovers
  <2>1. RemoveLeftover /\ UNCHANGED <<journal, audit, job, calls>>
    BY <1>4 DEF Reconcile
  <2> QED BY <1>1, <1>4, <2>1, RemoveAudit
<1>5. CASE ~Throws(p) /\ ~Proven(job[p].class) /\ ~(Discarded(job[p].class) /\ Leftovers)
  <2>1. /\ Discarded(job[p].class) /\ ~Leftovers /\ Leaves(p) /\ Settle("failed") /\ Audited(1)
        /\ UNCHANGED <<retained, anchor, disk, calls>>
    BY <1>5 DEF Reconcile
  <2> QED BY <1>1, <2>1, DiscardedAudit
<1> QED BY <1>2, <1>3, <1>4, <1>5

LEMMA CrashAudit ==
    ASSUME IInv, IInv', AuditInv, NEW p \in Procs, Crash(p)
    PROVE  AuditInv'
  BY ThrowsAudit DEF Crash, journal, audit, disk, Audits

LEMMA RequestPruneAudit ==
    ASSUME IInv, IInv', AuditInv, NEW b \in Boundaries, RequestPrune(b)
    PROVE  AuditInv'
<1>1. calls <= calls'
  BY NewId DEF RequestPrune
<1> QED BY <1>1, CalmStutter DEF RequestPrune, disk, Audits

(* What reads or appends leaves the operation to its process.              *)
LEMMA QuietAudit ==
    ASSUME IInv, IInv', AuditInv, Audits, UNCHANGED <<retained, anchor, audit, disk, job, calls>>
    PROVE  AuditInv'
<1>1. calls <= calls'
  BY DEF IInv, RequestsOK
<1> QED BY <1>1, CalmStutter DEF audit, disk

LEMMA InitAudit == Init => AuditInv
<1> SUFFICES ASSUME Init PROVE AuditInv
  OBVIOUS
<1>1. IdsOK
  BY DEF Init, IdsOK, NoOp, Idle, Holding, PublishingPlaces
<1>2. OpShape
  BY DEF Init, OpShape
<1>3. FitsOK
  BY IdleFits DEF Init, FitsOK
<1>4. FilesOK
  BY DEF Init, FilesOK
<1>5. PastOK
  BY DEF Init, PastOK
<1>6. LogOK
  <2>1. Anchored = {} /\ op.kind # "archive" /\ head = 0 /\ retained = 0 /\ rows = {}
    BY DEF Init, Anchored, NoOp
  <2> QED BY <2>1 DEF LogOK
<1> QED BY <1>1, <1>2, <1>3, <1>4, <1>5, <1>6 DEF AuditInv

LEMMA NextAudit == IInv /\ IInv' /\ AuditInv /\ [Next]_vars => AuditInv'
<1> SUFFICES ASSUME IInv, IInv', AuditInv, [Next]_vars PROVE AuditInv'
  OBVIOUS
<1>1. CASE UNCHANGED vars
  BY <1>1, QuietAudit DEF vars, audit, disk, Audits
<1>2. CASE AppendEvent
  BY <1>2, QuietAudit DEF AppendEvent, Audits
<1>3. ASSUME NEW b \in Boundaries, RequestPrune(b) PROVE AuditInv'
  BY <1>3, RequestPruneAudit
<1>4. ASSUME NEW b \in Boundaries, NEW p \in Procs, ArchiveCall(p, b) PROVE AuditInv'
  BY <1>4, ArchiveCallAudit
<1>5. ASSUME NEW p \in Procs, NEW r \in requests, PruneCall(p, r) PROVE AuditInv'
  BY <1>5, PruneCallAudit
<1>6. ASSUME NEW p \in Procs, ArchiveBegin(p) \/ MaintainBegin(p) PROVE AuditInv'
  BY <1>6, ArchiveBeginAudit, MaintainBeginAudit
<1>7. ASSUME NEW p \in Procs, \/ WriteTemp(p) \/ RecordEvidence(p) \/ Link(p) \/ Unlink(p)
                              \/ PublishFails(p)
      PROVE  AuditInv'
  BY <1>7, WriteTempAudit, RecordEvidenceAudit, LinkAudit, UnlinkAudit, PublishFailsAudit
<1>8. ASSUME NEW p \in Procs, CompleteArchive(p) \/ CompleteMaintenance(p) \/ PruneComplete(p)
      PROVE  AuditInv'
  BY <1>8, CompletionAudit
<1>9. ASSUME NEW p \in Procs, Authorize(p) \/ PruneEffect(p) PROVE AuditInv'
  BY <1>9, AuthorizeAudit, PruneEffectAudit
<1>10. ASSUME NEW p \in Procs, Crash(p) \/ Inspect(p) \/ Reconcile(p) PROVE AuditInv'
  BY <1>10, CrashAudit, InspectAudit, ReconcileAudit
<1>11. ASSUME NEW r \in Readers, ReadArchive(r) \/ ReadActive(r) PROVE AuditInv'
  BY <1>11, QuietAudit DEF ReadArchive, ReadActive, journal, audit, disk, Audits
<1>12. CASE \/ \E from \in Starts : EnsureCursor(from)
            \/ ClaimProjection \/ CommitProjection
  <2>1. CursorOnly
    BY <1>12 DEF EnsureCursor, ClaimProjection, CommitProjection
  <2> QED BY <2>1, QuietAudit DEF CursorOnly, journal, audit, disk, Audits
<1> QED BY <1>1, <1>2, <1>3, <1>4, <1>5, <1>6, <1>7, <1>8, <1>9, <1>10, <1>11, <1>12 DEF Next

LEMMA AuditAlways == Spec => [](IInv /\ AuditInv)
<1>1. Init => IInv /\ AuditInv
  BY InitIInv, InitAudit
<1>2. (IInv /\ AuditInv) /\ [Next]_vars => (IInv /\ AuditInv)'
  BY NextIInv, NextAudit
<1> QED BY <1>1, <1>2, PTL DEF Spec

(* The row of a retention operation tells the truth, whatever failed, was  *)
(* cut short, or was reconciled: completed means that its effect is there, *)
(* failed that it had none and left nothing behind.                        *)
THEOREM RecordsAreTrue == Spec => []AuditIsTrue
<1>1. IInv /\ AuditInv => AuditIsTrue
  BY AuditFollows
<1> QED BY <1>1, AuditAlways, PTL

(* An operation whose process is gone can be inspected, and is settled by  *)
(* its reconciliation, wherever it was interrupted, outside the two        *)
(* states the property names.                                              *)
THEOREM InterruptionsSettle == Spec => []InterruptedIsSettled
<1>1. IInv /\ AuditInv => InterruptedIsSettled
  BY SettledFollows
<1> QED BY <1>1, AuditAlways, PTL

-----------------------------------------------------------------------------
(* The combined journal is 1..head, and what a reader has got of it is an  *)
(* initial part, which the archived half of its page continues.            *)
Gets(r, n) == /\ got[r] = 1..n
              /\ page[r].on => \E k \in n..head : page[r].events = (n + 1)..k
ReadingOK ==
    /\ got = [r \in Readers |-> got[r]] /\ page = [r \in Readers |-> page[r]]
    /\ \A r \in Readers : \E n \in 0..head : Gets(r, n)

LEMMA IntervalSize ==
    ASSUME NEW m \in Nat, NEW n \in Nat, m <= n
    PROVE  IsFiniteSet((m + 1)..n) /\ Cardinality((m + 1)..n) = n - m
<1>1. PICK a \in Int : a = m + 1
  OBVIOUS
<1>2. IsFiniteSet(a..n) /\ Cardinality(a..n) = IF a > n THEN 0 ELSE n - a + 1
  BY <1>1, FS_Interval
<1> QED BY <1>1, <1>2

LEMMA GreatestIs ==
    ASSUME NEW S \in SUBSET Nat, NEW m \in S, \A x \in S : x <= m
    PROVE  Max(S) = m
<1>1. \A x \in S : (\A y \in S : x >= y) <=> x = m
  OBVIOUS
<1> QED BY <1>1 DEF Max

LEMMA AfterInterval ==
    ASSUME NEW m \in Nat, NEW n \in Nat, m <= n
    PROVE  After((m + 1)..n, m) = n
<1> DEFINE S == (m + 1)..n \union {m}
<1>1. S \in SUBSET Nat /\ n \in S /\ \A x \in S : x <= n
  OBVIOUS
<1> HIDE DEF S
<1>2. Max(S) = n
  BY <1>1, GreatestIs
<1> QED BY <1>2 DEF After, S

(* The first size positions of an interval are an interval.                *)
LEMMA LowestInterval ==
    ASSUME NEW m \in Nat, NEW n \in Nat, m <= n, NEW size \in Nat
    PROVE  \E k \in m..n : Lowest((m + 1)..n, size) = (m + 1)..k
<1> DEFINE S == (m + 1)..n
           k == IF n <= m + size THEN n ELSE m + size
<1>1. ASSUME NEW e \in S PROVE Cardinality({f \in S : f < e}) < size <=> e <= k
  <2>1. {f \in S : f < e} = (m + 1)..(e - 1)
    OBVIOUS
  <2>2. e - 1 \in Nat /\ m <= e - 1
    OBVIOUS
  <2>3. Cardinality((m + 1)..(e - 1)) = e - 1 - m
    BY <2>2, IntervalSize
  <2>4. e \in Nat /\ m + 1 <= e /\ e <= n
    OBVIOUS
  <2>5. e - 1 - m < size <=> e <= m + size
    BY <2>4
  <2>6. e <= k <=> e <= m + size
    BY <2>4
  <2> QED BY <2>1, <2>3, <2>5, <2>6
<1>2. k \in m..n /\ {e \in S : e <= k} = (m + 1)..k
  OBVIOUS
<1>3. Lowest(S, size) = {e \in S : e <= k}
  <2> HIDE DEF S, k
  <2> QED BY <1>1 DEF Lowest
<1> QED BY <1>2, <1>3

Whole == Readable = 1..head
LEMMA ReadableIs == ASSUME IInv, AuditInv PROVE Whole
<1>1. /\ head \in Nat /\ rows \subseteq 1..head /\ ArchiveHead \in Nat
      /\ \A s \in Anchored : s[1] \in Nat /\ s[2] \in Nat /\ s[2] <= head
  BY DEF IInv, JournalOK, Anchored, ArchiveHead
<1>2. \A s \in Anchored : s[1] > 0 /\ ArchiveFiles(s) \subseteq files
  BY DEF AuditInv, LogOK
<1>3. \A s \in Anchored : Span(s) \subseteq 1..head
  BY <1>1, <1>2 DEF Span
<1>4. \A e \in 1..head : e \in rows \/ \E s \in Anchored : e \in Span(s)
  BY <1>1 DEF AuditInv, LogOK, IInv, JournalOK, Covered
<1>5. Readable = rows \union UNION {Span(s) : s \in Anchored}
  BY <1>2 DEF Readable
<1> QED BY <1>1, <1>3, <1>4, <1>5 DEF Whole

LEMMA ArchivedPage ==
    ASSUME IInv, AuditInv, NEW n \in 0..head
    PROVE  \E k \in n..head : ArchivedAfter(n).events = (n + 1)..k
<1>1. /\ head \in Nat /\ ArchiveHead \in Nat /\ ArchiveHead <= head /\ n \in Nat
      /\ \A s \in Anchored : s[1] \in Nat /\ s[2] \in Nat
  BY DEF IInv, JournalOK, Anchored, ArchiveHead
<1> DEFINE top == IF n <= ArchiveHead THEN ArchiveHead ELSE n
<1>2. {e \in UNION {Span(s) : s \in Anchored} : e > n} = (n + 1)..top
  <2>1. UNION {Span(s) : s \in Anchored} = 1..ArchiveHead
    <3>1. \A s \in Anchored : Span(s) \subseteq 1..ArchiveHead
      BY <1>1 DEF Span, AuditInv, LogOK
    <3>2. \A e \in 1..ArchiveHead : \E s \in Anchored : e \in Span(s)
      BY DEF IInv, JournalOK, Covered
    <3> QED BY <3>1, <3>2
  <2> QED BY <1>1, <2>1
<1>3. ArchivedAfter(n).events = Lowest((n + 1)..top, PageSize)
  BY <1>2 DEF ArchivedAfter
<1>4. top \in Nat /\ n <= top /\ top <= head
  BY <1>1
<1> HIDE DEF top
<1>5. \E k \in n..top : Lowest((n + 1)..top, PageSize) = (n + 1)..k
  BY <1>1, <1>4, LowestInterval, RetentionAssumption
<1> QED BY <1>1, <1>3, <1>4, <1>5

(* A page that is readable continues the archived half of it.              *)
LEMMA WholePage ==
    ASSUME IInv, NEW archived, NEW n \in Nat, NEW k \in n..head,
           archived.events = (n + 1)..k, PageReadable(archived, n)
    PROVE  \E m \in n..head : PageOf(archived, n) = (n + 1)..m
<1>1. head \in Nat /\ rows \subseteq 1..head /\ k \in Nat /\ n <= k /\ k <= head
  BY DEF IInv, JournalOK
<1>2. CASE ~NeedsActive(archived)
  BY <1>1, <1>2 DEF PageOf
<1>3. CASE NeedsActive(archived)
  <2>1. PICK A : A = ActiveAfter(archived, n)
    OBVIOUS
  <2>2. After(archived.events, n) = k
    BY <1>1, AfterInterval
  <2>3. A = (k + 1)..(k + Cardinality(A))
    BY <1>3, <2>1, <2>2 DEF PageReadable, ActiveReadable
  <2>4. A \subseteq 1..head
    BY <1>1, <2>1 DEF ActiveAfter, Lowest
  <2>5. Cardinality(A) \in Nat
    <3>1. IsFiniteSet(1..head)
      BY <1>1, FS_Interval
    <3>2. IsFiniteSet(A)
      BY <2>4, <3>1, FS_Subset
    <3> QED BY <3>2, FS_CardinalityType
  <2>6. PICK c : c = Cardinality(A)
    OBVIOUS
  <2>7. A = (k + 1)..(k + c) /\ c \in Nat
    BY <2>3, <2>5, <2>6
  <2>8. k + c <= head
    <3>1. CASE c = 0
      BY <1>1, <3>1
    <3>2. CASE c # 0
      <4>1. k + c \in (k + 1)..(k + c)
        BY <1>1, <2>7, <3>2
      <4>2. k + c \in 1..head
        BY <2>4, <2>7, <4>1
      <4> QED BY <4>2
    <3> QED BY <3>1, <3>2
  <2>9. PageOf(archived, n) = (n + 1)..k \union A
    BY <1>3, <2>1 DEF PageOf
  <2>10. (n + 1)..k \union A = (n + 1)..(k + c)
    BY <1>1, <2>7
  <2> QED BY <1>1, <2>7, <2>8, <2>9, <2>10
<1> QED BY <1>2, <1>3

LEMMA PositionIs ==
    ASSUME NEW r \in Readers, NEW n \in Nat, got[r] = 1..n
    PROVE  Position(r) = n
<1>1. After((0 + 1)..n, 0) = n
  BY AfterInterval
<1>2. (0 + 1)..n = 1..n
  OBVIOUS
<1> QED BY <1>1, <1>2 DEF Position

LEMMA ReadArchiveKeeps ==
    ASSUME IInv, AuditInv, ReadingOK, NEW r \in Readers, ReadArchive(r)
    PROVE  ReadingOK' /\ UNCHANGED <<head, got>>
<1>1. /\ UNCHANGED <<head, got>> /\ head \in Nat
      /\ page' = [page EXCEPT ![r] = ArchivedAfter(Position(r))]
  BY DEF ReadArchive, journal, IInv, JournalOK
<1>2. \A q \in Readers : page'[q] = IF q = r THEN ArchivedAfter(Position(r)) ELSE page[q]
  BY <1>1 DEF ReadingOK
<1>3. page' = [q \in Readers |-> page'[q]]
  BY <1>1 DEF ReadingOK
<1>4. ASSUME NEW q \in Readers PROVE \E n \in 0..head' : Gets(q, n)'
  <2>1. PICK n \in 0..head : Gets(q, n)
    BY DEF ReadingOK
  <2>2. CASE q # r
    BY <1>1, <1>2, <2>1, <2>2 DEF Gets
  <2>3. CASE q = r
    <3>1. Position(r) = n
      BY <1>1, <2>1, <2>3, PositionIs DEF Gets
    <3>2. PICK k \in n..head : ArchivedAfter(n).events = (n + 1)..k
      BY ArchivedPage
    <3>3. page'[q].events = (n + 1)..k
      BY <1>2, <2>3, <3>1, <3>2
    <3> QED BY <1>1, <2>1, <3>3 DEF Gets
  <2> QED BY <2>2, <2>3
<1> QED BY <1>1, <1>3, <1>4 DEF ReadingOK

LEMMA ReadActiveKeeps ==
    ASSUME IInv, AuditInv, ReadingOK, NEW r \in Readers, ReadActive(r)
    PROVE  /\ ReadingOK' /\ UNCHANGED head
           /\ \E n \in 0..head : got'[r] = 1..n /\ got[r] \subseteq got'[r]
           /\ \A q \in Readers \ {r} : got'[q] = got[q]
           /\ DOMAIN got' = Readers
<1> DEFINE more == IF PageReadable(page[r], Position(r)) THEN PageOf(page[r], Position(r)) ELSE {}
<1>1. /\ UNCHANGED head /\ head \in Nat /\ page[r].on
      /\ page' = [page EXCEPT ![r] = NoPage]
      /\ got' = [got EXCEPT ![r] = @ \union more]
  BY DEF ReadActive, journal, IInv, JournalOK
<1>2. PICK n \in 0..head : Gets(r, n)
  BY DEF ReadingOK
<1>3. got[r] = 1..n /\ \E k \in n..head : page[r].events = (n + 1)..k
  BY <1>1, <1>2 DEF Gets
<1>4. Position(r) = n
  BY <1>1, <1>3, PositionIs
<1>5. \E m \in n..head : got[r] \union more = 1..m
  <2>1. CASE ~PageReadable(page[r], n)
    BY <1>1, <1>3, <1>4, <2>1
  <2>2. CASE PageReadable(page[r], n)
    <3>1. PICK k \in n..head : page[r].events = (n + 1)..k
      BY <1>3
    <3>2. n \in Nat
      BY <1>1
    <3>3. PICK m \in n..head : PageOf(page[r], n) = (n + 1)..m
      BY <2>2, <3>1, <3>2, WholePage
    <3>4. 1..n \union (n + 1)..m = 1..m
      BY <1>1, <3>2, <3>3
    <3> QED BY <1>3, <1>4, <2>2, <3>3, <3>4
  <2> QED BY <2>1, <2>2
<1> HIDE DEF more
<1>6. /\ \A q \in Readers : /\ got'[q] = IF q = r THEN got[r] \union more ELSE got[q]
                            /\ page'[q] = IF q = r THEN NoPage ELSE page[q]
      /\ got' = [q \in Readers |-> got'[q]] /\ page' = [q \in Readers |-> page'[q]]
  BY <1>1 DEF ReadingOK
<1>7. ASSUME NEW q \in Readers PROVE \E m \in 0..head' : Gets(q, m)'
  <2>1. CASE q = r
    <3>1. PICK m \in n..head : got[r] \union more = 1..m
      BY <1>5
    <3>2. got'[q] = 1..m
      BY <1>6, <2>1, <3>1
    <3>3. ~page'[q].on
      BY <1>6, <2>1 DEF NoPage
    <3>4. m \in 0..head'
      BY <1>1
    <3> QED BY <3>2, <3>3, <3>4 DEF Gets
  <2>2. CASE q # r
    <3>1. PICK m \in 0..head : Gets(q, m)
      BY DEF ReadingOK
    <3> QED BY <1>1, <1>6, <2>2, <3>1 DEF Gets
  <2> QED BY <2>1, <2>2
<1>8. ReadingOK'
  BY <1>6, <1>7 DEF ReadingOK
<1>9. \E m \in 0..head : got'[r] = 1..m /\ got[r] \subseteq got'[r]
  <2>1. PICK m \in n..head : got[r] \union more = 1..m
    BY <1>5
  <2>2. got'[r] = 1..m /\ got[r] \subseteq got'[r]
    BY <1>6, <2>1
  <2>3. m \in 0..head
    BY <1>1
  <2> QED BY <2>2, <2>3
<1> QED BY <1>1, <1>6, <1>8, <1>9

(* Every other step leaves the readers alone and does not take from the    *)
(* journal.                                                                *)
Elsewhere == UNCHANGED <<page, got>> /\ head <= head'
LEMMA OthersElsewhere ==
    ASSUME IInv, IInv', [Next]_vars
    PROVE  Elsewhere \/ \E r \in Readers : ReadArchive(r) \/ ReadActive(r)
<1>1. head \in Nat /\ head' \in Nat
  BY DEF IInv, JournalOK
<1>2. Audits => head <= head'
  BY <1>1 DEF Audits, Audited
<1>3. CASE UNCHANGED vars
  BY <1>1, <1>3 DEF vars, Elsewhere
<1>4. CASE AppendEvent
  BY <1>2, <1>4 DEF AppendEvent, reading, Audits, Elsewhere
<1>5. ASSUME NEW b \in Boundaries, RequestPrune(b) PROVE Elsewhere
  BY <1>2, <1>5 DEF RequestPrune, Unread, reading, Audits, Elsewhere
<1>6. ASSUME NEW b \in Boundaries, NEW p \in Procs, ArchiveCall(p, b) PROVE Elsewhere
  BY <1>1, <1>6 DEF ArchiveCall, Unread, reading, journal, Elsewhere
<1>7. ASSUME NEW p \in Procs, NEW r \in requests, PruneCall(p, r) PROVE Elsewhere
  BY <1>1, <1>7 DEF PruneCall, Unread, reading, journal, Elsewhere
<1>8. ASSUME NEW p \in Procs, Throws(p) PROVE Elsewhere
  BY <1>1, <1>8 DEF Throws, Unread, reading, journal, Elsewhere
<1>9. ASSUME NEW p \in Procs, ArchiveBegin(p) \/ MaintainBegin(p) PROVE Elsewhere
  BY <1>2, <1>8, <1>9 DEF ArchiveBegin, MaintainBegin, Unread, reading, Audits, Elsewhere
<1>10. ASSUME NEW p \in Procs, WriteTemp(p) \/ RecordEvidence(p) \/ Link(p) \/ Unlink(p)
       PROVE  Elsewhere
  BY <1>1, <1>10 DEF WriteTemp, RecordEvidence, Link, Unlink, Unread, reading, journal, Elsewhere
<1>11. ASSUME NEW p \in Procs, PublishFails(p) PROVE Elsewhere
  <2>1. UNCHANGED reading /\ Audits
    BY <1>11 DEF PublishFails, Audits
  <2> QED BY <1>2, <2>1 DEF reading, Elsewhere
<1>12. ASSUME NEW p \in Procs, CompleteArchive(p) \/ CompleteMaintenance(p) \/ PruneComplete(p)
       PROVE  Elsewhere
  BY <1>2, <1>12 DEF CompleteArchive, AnchorArchive, CompleteMaintenance, PruneComplete,
     Unread, reading, Audits, Elsewhere
<1>13. ASSUME NEW p \in Procs, Authorize(p) PROVE Elsewhere
  BY <1>2, <1>8, <1>13 DEF Authorize, Unread, reading, Audits, Elsewhere
<1>14. ASSUME NEW p \in Procs, PruneEffect(p) PROVE Elsewhere
  BY <1>1, <1>8, <1>14 DEF PruneEffect, Unread, reading, Elsewhere
<1>15. ASSUME NEW p \in Procs, Crash(p) \/ Inspect(p) PROVE Elsewhere
  BY <1>1, <1>15 DEF Crash, Inspect, Unread, reading, journal, Elsewhere
<1>16. ASSUME NEW p \in Procs, Reconcile(p) PROVE Elsewhere
  <2>1. CASE Audited(1) /\ Unread
    BY <1>2, <2>1 DEF Unread, reading, Audits, Elsewhere
  <2>2. CASE RemoveLeftover /\ UNCHANGED <<journal, audit, job, calls>> /\ Unread
    BY <1>1, <2>2 DEF Unread, reading, journal, Elsewhere
  <2> QED BY <1>8, <1>16, <2>1, <2>2 DEF Reconcile, AnchorArchive
<1>17. CASE \/ \E from \in Starts : EnsureCursor(from)
            \/ ClaimProjection \/ CommitProjection
  BY <1>1, <1>17 DEF EnsureCursor, ClaimProjection, CommitProjection, CursorOnly, journal, Elsewhere
<1> QED BY <1>3, <1>4, <1>5, <1>6, <1>7, <1>9, <1>10, <1>11, <1>12, <1>13, <1>14, <1>15,
           <1>16, <1>17 DEF Next

LEMMA ElsewhereKeeps ==
    ASSUME IInv, IInv', ReadingOK, Elsewhere
    PROVE  ReadingOK'
<1>1. head \in Nat /\ head' \in Nat /\ head <= head' /\ UNCHANGED <<page, got>>
  BY DEF IInv, JournalOK, Elsewhere
<1>2. ASSUME NEW r \in Readers PROVE \E n \in 0..head' : Gets(r, n)'
  <2>1. PICK n \in 0..head : Gets(r, n)
    BY DEF ReadingOK
  <2>2. n \in 0..head' /\ n..head \subseteq n..head'
    BY <1>1
  <2> QED BY <1>1, <2>1, <2>2 DEF Gets
<1> QED BY <1>1, <1>2 DEF ReadingOK

LEMMA InitReading == Init => ReadingOK
<1> SUFFICES ASSUME Init PROVE ReadingOK
  OBVIOUS
<1>1. \A r \in Readers : Gets(r, 0)
  BY DEF Init, Gets, NoPage
<1>2. got = [r \in Readers |-> got[r]] /\ page = [r \in Readers |-> page[r]] /\ 0 \in 0..head
  BY DEF Init
<1> QED BY <1>1, <1>2 DEF ReadingOK

LEMMA NextReading == IInv /\ IInv' /\ AuditInv /\ ReadingOK /\ [Next]_vars => ReadingOK'
  BY OthersElsewhere, ElsewhereKeeps, ReadArchiveKeeps, ReadActiveKeeps

LEMMA UpToInterval == ASSUME NEW n \in Nat PROVE Log!UpTo(1..n)
<1>0. 0 \in Nat /\ 0 <= n
  OBVIOUS
<1>1. Cardinality((0 + 1)..n) = n - 0
  BY <1>0, IntervalSize
<1>2. (0 + 1)..n = 1..n /\ n - 0 = n
  OBVIOUS
<1>3. Cardinality(1..n) = n
  BY <1>1, <1>2
<1>4. \A S : Log!Cardinality(S) = Cardinality(S)
  BY DEF Log!Cardinality, Cardinality
<1> QED BY <1>3, <1>4 DEF Log!UpTo

LEMMA StepIsLog ==
    ASSUME IInv, IInv', AuditInv, ReadingOK, Whole, Whole', [Next]_vars
    PROVE  [Log!Next]_Log!vars
<1>1. /\ Readable = 1..head /\ Readable' = 1..head' /\ head \in Nat /\ head' \in Nat
  BY DEF Whole, IInv, JournalOK
<1>2. CASE Elsewhere
  <2>1. Log!UpTo(Readable') /\ Readable \subseteq Readable' /\ UNCHANGED got
    BY <1>1, <1>2, UpToInterval DEF Elsewhere
  <2> QED BY <2>1 DEF Log!Next, Log!Commit, Log!vars
<1>3. ASSUME NEW r \in Readers, ReadArchive(r) PROVE [Log!Next]_Log!vars
  BY <1>1, <1>3, ReadArchiveKeeps DEF Log!vars
<1>4. ASSUME NEW r \in Readers, ReadActive(r) PROVE [Log!Next]_Log!vars
  <2>1. PICK n \in 0..head : got'[r] = 1..n /\ got[r] \subseteq got'[r]
    BY <1>4, ReadActiveKeeps
  <2>2. /\ UNCHANGED head /\ DOMAIN got' = Readers
        /\ \A q \in Readers \ {r} : got'[q] = got[q]
    BY <1>4, ReadActiveKeeps
  <2>3. Readable' = Readable /\ got'[r] \subseteq Readable
    BY <1>1, <2>1, <2>2
  <2>4. Log!UpTo(got'[r])
    BY <1>1, <2>1, UpToInterval
  <2> QED BY <2>1, <2>2, <2>3, <2>4 DEF Log!Next, Log!Read, Log!vars
<1> QED BY <1>2, <1>3, <1>4, OthersElsewhere

LEMMA InitIsLog == Init => Log!Init
<1> SUFFICES ASSUME Init PROVE Log!Init
  OBVIOUS
<1>1. Anchored = {} /\ rows = {}
  BY DEF Init, Anchored
<1>2. Readable = {}
  BY <1>1 DEF Readable
<1> QED BY <1>2 DEF Init, Log!Init

(* The combined journal is a complete log, for any number of readers,      *)
(* limits and boundaries: archives and prunes lose nothing and a page read *)
(* in two halves, before and after them, has no gap.                       *)
THEOREM IsCompleteLog == Spec => ImplementsCompleteLog
<1>1. Init => IInv /\ AuditInv /\ ReadingOK /\ Log!Init
  BY InitIInv, InitAudit, InitReading, InitIsLog
<1>2. (IInv /\ AuditInv /\ ReadingOK) /\ [Next]_vars => (IInv /\ AuditInv /\ ReadingOK)'
  BY NextIInv, NextAudit, NextReading
<1>3. IInv /\ AuditInv => Whole
  BY ReadableIs
<1>4. (IInv /\ AuditInv /\ ReadingOK /\ Whole) /\ (IInv /\ Whole)' /\ [Next]_vars
      => [Log!Next]_Log!vars
  BY StepIsLog
<1> QED BY <1>1, <1>2, <1>3, <1>4, PTL DEF Spec, ImplementsCompleteLog, Log!Spec
=============================================================================
