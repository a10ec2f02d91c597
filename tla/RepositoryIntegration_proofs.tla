-------------------- MODULE RepositoryIntegration_proofs --------------------
(***************************************************************************)
(* The integration of a repository, for any processes, units and           *)
(* replacements: the branch is a history of changes to which every         *)
(* recorded commit belongs, whatever lapses, is repeated or is lost; the   *)
(* stream of the repository stays readable and never denies what has       *)
(* landed as long as no call is repeated; and a cancellation is final as   *)
(* long as no lease lapses.  Three invariants say why, each under its own  *)
(* assumption on the troubles there were.                                  *)
(***************************************************************************)
EXTENDS RepositoryIntegration, SequenceTheorems, TLAPS

ChangeIn(U, u) == [unit |-> u, source |-> U[u].source]
Resting == {"idle"} \cup Cancelling
Endings == {"idle", "reject", "rejectUnlessValidated"}

-----------------------------------------------------------------------------
(* What always holds: a candidate is one new change on top of its base, a  *)
(* result that is taken for landed is part of the branch, and sources are  *)
(* only replaced by newer ones.                                            *)
HasBuilt(l) == l \in {"prepare", "guard", "swap", "observe", "evidence"}
Candidate(j, U) ==
    \E c \in Changes : /\ c.unit = j.unit /\ c.source <= U[c.unit].source
                       /\ c \notin Range(j.base) /\ j.result = Append(j.base, c)
ProcFits(l, j, U, b) ==
    /\ l \in PC /\ j \in Jobs
    /\ l \in Resting => j = NoJob
    /\ l \notin Resting /\ (l = "unlock" => j.then # "idle") => j.unit \in Units
    /\ l = "unlock" => j.then \in Endings
    /\ HasBuilt(l) => Candidate(j, U)
    /\ l \in {"evidence", "reconcileCommitted"} => j.result \in Prefixes(b)
UnitsOK ==
    \A u \in Units :
        /\ unit[u].source <= MaxAttempts[u]
        /\ unit[u].status \in {"awaiting_approval", "correction_awaiting_approval"}
               => unit[u].source < MaxAttempts[u]
BranchOK == /\ \A c \in Range(branch) : c.source <= unit[c.unit].source
            /\ integratedCommits \subseteq Prefixes(branch)
ProcsOK == \A p \in Procs : ProcFits(pc[p], job[p], unit, branch)
BaseInv == TypeOK /\ UnitsOK /\ BranchOK /\ ProcsOK

-----------------------------------------------------------------------------
(* What holds while no call is repeated and no candidate of a commit is     *)
(* left behind: a unit has one call, its stream is as the call has left it, *)
(* and what has landed is recorded, or its unit is validated.              *)
Recorded(c, b, n) == c \in Range(b) => \E commit \in n : c \in Range(commit)
UnitFits(u, U, b, n) ==
    /\ U[u].status # "validated" => Recorded(ChangeIn(U, u), b, n)
    /\ U[u].status = "validated" => /\ ChangeIn(U, u) \notin Range(U[u].expected)
                                    /\ U[u].result = Append(U[u].expected, ChangeIn(U, u))
Rejecting(l, j) == l \in {"reject", "rejectUnlessValidated"} \/ (l = "unlock" /\ j.then # "idle")
Deciding(l) == l \in {"guard", "swap", "observe", "evidence"} \cup Reconciling
CallFits(l, j, U, b, n) ==
    LET v == U[j.unit]
        c == ChangeIn(U, j.unit)
    IN  /\ l \in {"analyze", "enter", "build", "prepare"} => v.status = "formed"
        /\ l = "prepare" => c \notin Range(j.base) /\ j.result = Append(j.base, c)
        /\ Deciding(l) => v.status = "validated" /\ j.base = v.expected /\ j.result = v.result
        /\ l \in {"prepare", "guard", "swap", "reconcileNoEffect"} => c \notin Range(b)
        /\ Rejecting(l, j) => v.status \in {"formed", "validated"}
        /\ l = "reject" \/ (l = "unlock" /\ j.then = "reject") => Recorded(c, b, n)
OneCall == \A p, q \in Procs : job[p].unit = job[q].unit /\ job[p].unit # NoUnit => p = q
CalmInv ==
    Orderly => /\ (unfit \/ ~poison) /\ OneCall
               /\ \A u \in Units : UnitFits(u, unit, branch, integratedCommits)
               /\ \A p \in Procs : CallFits(pc[p], job[p], unit, branch, integratedCommits)

-----------------------------------------------------------------------------
(* What holds while no lease lapses: who is in its critical section holds   *)
(* the lease, and none is about to move the ref of a cancelled repository.  *)
Critical == {"build", "prepare", "guard", "swap", "observe", "evidence", "unlock",
             "reconcileRead", "reconcileCommitted", "reconcileNoEffect", "cancelAppend"}
LeaseInv ==
    ~lapsed => /\ \A p \in Procs : pc[p] \in Critical => Held(p)
               /\ cancelled => \A p \in Procs : pc[p] # "swap"

IInv == BaseInv /\ CalmInv /\ LeaseInv

-----------------------------------------------------------------------------
(* Sequences of changes.                                                   *)
LEMMA Appended ==
    ASSUME NEW S, NEW s \in Seq(S), NEW c \in S
    PROVE  /\ Append(s, c) \in Seq(S)
           /\ Range(Append(s, c)) = Range(s) \cup {c}
           /\ Prefixes(s) \subseteq Prefixes(Append(s, c))
           /\ Append(s, c) # s
<1> DEFINE t == Append(s, c)
<1>1. /\ t \in Seq(S) /\ Len(t) = Len(s) + 1 /\ t[Len(s) + 1] = c
      /\ \A i \in 1..Len(s) : t[i] = s[i]
      /\ Len(s) \in Nat /\ DOMAIN s = 1..Len(s) /\ DOMAIN t = 1..Len(s) + 1
  BY AppendProperties, LenProperties
<1> HIDE DEF t
<1>2. Range(t) = Range(s) \cup {c}
  <2>1. \A i \in 1..Len(s) + 1 : i \in 1..Len(s) \/ i = Len(s) + 1
    BY <1>1
  <2>2. 1..Len(s) \subseteq 1..Len(s) + 1 /\ Len(s) + 1 \in 1..Len(s) + 1
    BY <1>1
  <2> QED BY <1>1, <2>1, <2>2 DEF Range
<1>3. Prefixes(s) \subseteq Prefixes(t)
  <2>1. SUFFICES ASSUME NEW m \in 0..Len(s)
                 PROVE  SubSeq(s, 1, m) = SubSeq(t, 1, m) /\ m \in 0..Len(t)
    BY DEF Prefixes
  <2>2. m \in 0..Len(t)
    BY <1>1
  <2>3. \A i \in 1..m : s[i] = t[i]
    BY <1>1
  <2>4. SubSeq(s, 1, m) = [i \in 1..m |-> s[i]] /\ SubSeq(t, 1, m) = [i \in 1..m |-> t[i]]
    BY <1>1, <2>2
  <2> QED BY <2>2, <2>3, <2>4
<1>4. t # s
  BY <1>1
<1> QED BY <1>1, <1>2, <1>3, <1>4 DEF t

LEMMA WholePrefix ==
    ASSUME NEW S, NEW s \in Seq(S) PROVE s \in Prefixes(s)
<1>1. Len(s) \in Nat /\ s = SubSeq(s, 1, Len(s))
  BY LenProperties, SubSeqProperties
<1>2. Len(s) \in 0..Len(s)
  BY <1>1
<1>3. \E m \in 0..Len(s) : s = SubSeq(s, 1, m)
  BY <1>1, <1>2
<1> QED BY <1>3 DEF Prefixes

LEMMA PrefixTypes ==
    ASSUME NEW S, NEW s \in Seq(S)
    PROVE  Prefixes(s) \subseteq Seq(S) /\ Range(s) \subseteq S
<1>1. Len(s) \in Nat /\ DOMAIN s = 1..Len(s) /\ \A i \in 1..Len(s) : s[i] \in S
  BY LenProperties, ElementOfSeq
<1>2. \A m \in 0..Len(s) : SubSeq(s, 1, m) \in Seq(S)
  BY <1>1, SubSeqProperties
<1> QED BY <1>1, <1>2 DEF Prefixes, Range

-----------------------------------------------------------------------------
(* Steps: what one process makes of its call, of its unit and of the branch.*)
StepOf(p, l, j) == pc' = [pc EXCEPT ![p] = l] /\ job' = [job EXCEPT ![p] = j]
Others(p) == Procs \ {p}
Typed ==
    /\ lease \in [owner : Procs \cup {NoProc}, live : BOOLEAN]
    /\ cancelled \in BOOLEAN /\ poison \in BOOLEAN
    /\ lapsed \in BOOLEAN /\ repeated \in BOOLEAN /\ unretained \in BOOLEAN /\ unfit \in BOOLEAN
Grown(c) == branch' = Append(branch, c) /\ c.source <= unit[c.unit].source

LEMMA AfterStep ==
    ASSUME TypeOK, NEW p \in Procs, NEW l, NEW j, StepOf(p, l, j)
    PROVE  /\ pc'[p] = l /\ job'[p] = j
           /\ \A q \in Others(p) : pc'[q] = pc[q] /\ job'[q] = job[q]
BY DEF StepOf, Others, TypeOK

LEMMA UnitTypes ==
    ASSUME NEW U \in [Units -> UnitViews]
    PROVE  \A u \in Units : /\ U[u].status \in Status /\ U[u].source \in Nat
                            /\ U[u].expected \in Commits /\ U[u].result \in Commits
BY DEF UnitViews

LEMMA ChangeTypes ==
    \A c \in Changes : c.unit \in Units /\ c.source \in Nat /\ c.source <= MaxAttempts[c.unit]
                       /\ c = [unit |-> c.unit, source |-> c.source]
BY AttemptsAssumption DEF Changes

LEMMA ChangeOfUnit ==
    ASSUME TypeOK, UnitsOK, NEW u \in Units
    PROVE  /\ ChangeIn(unit, u) \in Changes /\ Change(u) = ChangeIn(unit, u)
           /\ ChangeIn(unit, u).unit = u /\ ChangeIn(unit, u).source = unit[u].source
<1>1. unit[u].source \in Nat /\ unit[u].source <= MaxAttempts[u] /\ MaxAttempts[u] \in Nat
  BY UnitTypes, AttemptsAssumption DEF TypeOK, UnitsOK
<1>2. unit[u].source \in 0..MaxAttempts[u]
  BY <1>1
<1> QED BY <1>2 DEF ChangeIn, Change, Changes

LEMMA ProcFitsStays ==
    ASSUME NEW l, NEW j, NEW U \in [Units -> UnitViews], NEW V \in [Units -> UnitViews],
           NEW b, NEW d, ProcFits(l, j, U, b), Prefixes(b) \subseteq Prefixes(d),
           \A u \in Units : U[u].source <= V[u].source
    PROVE  ProcFits(l, j, V, d)
<1>1. Candidate(j, U) => Candidate(j, V)
  <2> SUFFICES ASSUME NEW c \in Changes, c.source <= U[c.unit].source
               PROVE  c.source <= V[c.unit].source
    BY DEF Candidate
  <2> QED BY ChangeTypes, UnitTypes
<1> QED BY <1>1 DEF ProcFits

LEMMA BaseStep ==
    ASSUME BaseInv, NEW p \in Procs, NEW l, NEW j, StepOf(p, l, j), Typed',
           unit' \in [Units -> UnitViews], UnitsOK', \A u \in Units : unit[u].source <= unit'[u].source,
           branch' = branch \/ \E c \in Changes : Grown(c),
           integratedCommits' \subseteq integratedCommits \cup Prefixes(branch'),
           ProcFits(l, j, unit', branch')
    PROVE  BaseInv'
<1>0. TypeOK /\ unit \in [Units -> UnitViews] /\ branch \in Seq(Changes)
  BY DEF BaseInv, TypeOK, Commits
<1>1. /\ branch' \in Seq(Changes) /\ Prefixes(branch) \subseteq Prefixes(branch')
      /\ \A c \in Range(branch') : c \in Range(branch) \/ c.source <= unit[c.unit].source
  <2>1. CASE branch' = branch
    BY <1>0, <2>1
  <2>2. ASSUME NEW c \in Changes, Grown(c)
        PROVE  /\ branch' \in Seq(Changes) /\ Prefixes(branch) \subseteq Prefixes(branch')
               /\ \A d \in Range(branch') : d \in Range(branch) \/ d.source <= unit[d.unit].source
    <3>1. /\ branch' \in Seq(Changes) /\ Prefixes(branch) \subseteq Prefixes(branch')
          /\ Range(branch') = Range(branch) \cup {c}
      BY <1>0, <2>2, Appended DEF Grown
    <3> QED BY <2>2, <3>1 DEF Grown
  <2> QED BY <2>1, <2>2
<1>2. \A c \in Range(branch') : c.source <= unit[c.unit].source /\ c \in Changes
  BY <1>0, <1>1, PrefixTypes DEF BaseInv, BranchOK
<1>3. BranchOK'
  <2>1. ASSUME NEW c \in Range(branch') PROVE c.source <= unit'[c.unit].source
    <3>1. c.unit \in Units /\ c.source \in Nat /\ c.source <= unit[c.unit].source
      BY <1>2, ChangeTypes
    <3>2. /\ unit[c.unit].source \in Nat /\ unit'[c.unit].source \in Nat
          /\ unit[c.unit].source <= unit'[c.unit].source
      BY <1>0, <3>1, UnitTypes
    <3> QED BY <3>1, <3>2
  <2>2. integratedCommits' \subseteq Prefixes(branch')
    BY <1>1 DEF BaseInv, BranchOK
  <2> QED BY <2>1, <2>2 DEF BranchOK
<1>4. l \in PC /\ j \in Jobs
  BY DEF ProcFits
<1>5. pc' \in [Procs -> PC] /\ job' \in [Procs -> Jobs]
  BY <1>0, <1>4 DEF StepOf, TypeOK
<1>6. ProcsOK'
  <2>1. ASSUME NEW q \in Others(p) PROVE ProcFits(pc[q], job[q], unit', branch')
    <3>1. ProcFits(pc[q], job[q], unit, branch)
      BY DEF BaseInv, ProcsOK, Others
    <3> QED BY <1>0, <1>1, <3>1, ProcFitsStays
  <2>2. \A q \in Procs : ProcFits(pc'[q], job'[q], unit', branch')
    BY <1>0, <2>1, AfterStep DEF Others
  <2> QED BY <2>2 DEF ProcsOK
<1>7. integratedCommits' \subseteq Commits
  BY <1>1, <1>3, PrefixTypes DEF BranchOK, Commits
<1>8. TypeOK'
  BY <1>1, <1>5, <1>7 DEF TypeOK, Typed, Commits, UnitsOK, history
<1> QED BY <1>3, <1>6, <1>8 DEF BaseInv

LEMMA UnitFitsStays ==
    ASSUME NEW u, NEW U, NEW V, NEW b, NEW d, NEW n, NEW m, UnitFits(u, U, b, n),
           V[u] = U[u], n \subseteq m, ChangeIn(U, u) \in Range(d) => ChangeIn(U, u) \in Range(b)
    PROVE  UnitFits(u, V, d, m)
<1>1. ChangeIn(V, u) = ChangeIn(U, u)
  BY DEF ChangeIn
<1> QED BY <1>1 DEF UnitFits, Recorded

LEMMA CallFitsStays ==
    ASSUME NEW l, NEW j, NEW U, NEW V, NEW b, NEW d, NEW n, NEW m, CallFits(l, j, U, b, n),
           V[j.unit] = U[j.unit], n \subseteq m,
           ChangeIn(U, j.unit) \in Range(d) => ChangeIn(U, j.unit) \in Range(b)
    PROVE  CallFits(l, j, V, d, m)
<1>1. ChangeIn(V, j.unit) = ChangeIn(U, j.unit)
  BY DEF ChangeIn
<1> QED BY <1>1 DEF CallFits, Recorded

\* A process without a unit is at rest, or about to be.
LEMMA IdleFits ==
    ASSUME NEW l, NEW j, NEW U, NEW V, NEW b, NEW d, NEW m, ProcFits(l, j, U, b), j.unit \notin Units
    PROVE  CallFits(l, j, V, d, m)
<1>1. l \in Resting \/ (l = "unlock" /\ j.then = "idle")
  BY DEF ProcFits
<1> QED BY <1>1 DEF CallFits, Resting, Cancelling, Deciding, Reconciling, Rejecting

LEMMA CalmStep ==
    ASSUME BaseInv, CalmInv, Orderly, NEW p \in Procs, NEW l, NEW j, StepOf(p, l, j),
           job[p].unit \in Units => \A w \in Units : w # job[p].unit => unit'[w] = unit[w],
           job[p].unit \notin Units => unit' = unit /\ branch' = branch,
           j.unit \notin {job[p].unit, NoUnit} => /\ \A q \in Others(p) : job[q].unit # j.unit
                                                  /\ unit' = unit /\ branch' = branch,
           branch' = branch \/ \E c \in Changes : c.unit = job[p].unit /\ branch' = Append(branch, c),
           integratedCommits \subseteq integratedCommits', unfit' \/ ~poison',
           job[p].unit \in Units => UnitFits(job[p].unit, unit', branch', integratedCommits'),
           CallFits(l, j, unit', branch', integratedCommits')
    PROVE  CalmInv'
<1> DEFINE u == job[p].unit
<1>0. /\ TypeOK /\ UnitsOK /\ branch \in Seq(Changes) /\ OneCall
      /\ \A w \in Units : UnitFits(w, unit, branch, integratedCommits)
      /\ \A q \in Procs : CallFits(pc[q], job[q], unit, branch, integratedCommits)
      /\ \A q \in Procs : ProcFits(pc[q], job[q], unit, branch)
      /\ \A q \in Procs : job[q].unit \in Units \cup {NoUnit}
  BY DEF BaseInv, CalmInv, TypeOK, Commits, ProcsOK, Jobs
<1>1. ASSUME NEW w \in Units, w # u
      PROVE  /\ unit'[w] = unit[w]
             /\ ChangeIn(unit, w) \in Range(branch') => ChangeIn(unit, w) \in Range(branch)
  <2>1. unit'[w] = unit[w]
    BY <1>1
  <2>2. ASSUME NEW c \in Changes, c.unit = u, branch' = Append(branch, c)
        PROVE  ChangeIn(unit, w) \in Range(branch') => ChangeIn(unit, w) \in Range(branch)
    <3>1. Range(branch') = Range(branch) \cup {c}
      BY <1>0, <2>2, Appended
    <3>2. ChangeIn(unit, w) # c
      BY <1>0, <1>1, <2>2, ChangeOfUnit
    <3> QED BY <3>1, <3>2
  <2> QED BY <2>1, <2>2
<1>2. \A w \in Units : UnitFits(w, unit', branch', integratedCommits')
  <2>1. ASSUME NEW w \in Units, w # u PROVE UnitFits(w, unit', branch', integratedCommits')
    BY <1>0, <1>1, <2>1, UnitFitsStays
  <2> QED BY <2>1
<1>3. ASSUME NEW q \in Others(p)
      PROVE  CallFits(pc[q], job[q], unit', branch', integratedCommits')
  <2>0. q \in Procs /\ q # p
    BY DEF Others
  <2>1. CASE job[q].unit \notin Units
    BY <1>0, <2>0, <2>1, IdleFits
  <2>2. CASE job[q].unit \in Units
    <3>1. job[q].unit # u
      BY <1>0, <2>0, <2>2, NoUnitAssumption DEF OneCall
    <3> QED BY <1>0, <1>1, <2>0, <2>2, <3>1, CallFitsStays
  <2> QED BY <2>1, <2>2
<1>4. \A q \in Procs : CallFits(pc'[q], job'[q], unit', branch', integratedCommits')
  BY <1>0, <1>3, AfterStep DEF Others
<1>5. OneCall'
  <2>1. \A q \in Others(p) : j.unit # NoUnit => job[q].unit # j.unit
    BY <1>0 DEF OneCall, Others
  <2>2. \A q, r \in Procs : job'[q].unit = job'[r].unit /\ job'[q].unit # NoUnit => q = r
    BY <1>0, <2>1, AfterStep DEF OneCall, Others
  <2> QED BY <2>2 DEF OneCall
<1> QED BY <1>2, <1>4, <1>5 DEF CalmInv

\* A step of a call that leaves the stream and the branch alone.
LEMMA QuietStep ==
    ASSUME BaseInv, CalmInv, NEW p \in Procs, NEW l, NEW j, StepOf(p, l, j), Typed',
           UNCHANGED <<branch, unit, integratedCommits>>, UNCHANGED poison \/ unfit',
           repeated => repeated', unretained => unretained', unfit => unfit',
           ProcFits(l, j, unit, branch),
           Orderly' => CallFits(l, j, unit, branch, integratedCommits),
           Orderly' /\ j.unit \notin {job[p].unit, NoUnit} => \A q \in Others(p) : job[q].unit # j.unit
    PROVE  BaseInv' /\ CalmInv'
<1>1. /\ unit \in [Units -> UnitViews] /\ UnitsOK' /\ \A u \in Units : unit[u].source <= unit[u].source
      /\ integratedCommits \subseteq Prefixes(branch)
  BY UnitTypes DEF BaseInv, TypeOK, UnitsOK, BranchOK
<1>2. BaseInv'
  BY <1>1, BaseStep
<1>3. ASSUME Orderly' PROVE CalmInv'
  <2>1. /\ Orderly /\ (unfit' \/ ~poison')
        /\ \A u \in Units : UnitFits(u, unit, branch, integratedCommits)
    BY <1>3 DEF Orderly, CalmInv
  <2> QED BY <1>3, <2>1, CalmStep
<1> QED BY <1>2, <1>3 DEF CalmInv

-----------------------------------------------------------------------------
(* The steps of a call, one by one.                                        *)
LEMMA Facts ==
    ASSUME IInv
    PROVE  /\ BaseInv /\ CalmInv /\ TypeOK /\ UnitsOK /\ Typed
           /\ unit \in [Units -> UnitViews] /\ branch \in Seq(Changes)
           /\ job \in [Procs -> Jobs] /\ pc \in [Procs -> PC]
           /\ \A p \in Procs : ProcFits(pc[p], job[p], unit, branch)
           /\ integratedCommits \subseteq Prefixes(branch)
           /\ Orderly => /\ unfit \/ ~poison
                         /\ \A u \in Units : UnitFits(u, unit, branch, integratedCommits)
                         /\ \A p \in Procs : CallFits(pc[p], job[p], unit, branch, integratedCommits)
BY DEF IInv, BaseInv, CalmInv, TypeOK, Commits, ProcsOK, BranchOK, Typed, history

LEMMA LeaseTypes ==
    ASSUME IInv, NEW p \in Procs
    PROVE  /\ Acquire(p) => lease' \in [owner : Procs \cup {NoProc}, live : BOOLEAN]
           /\ Release(p) => lease' \in [owner : Procs \cup {NoProc}, live : BOOLEAN]
<1>1. lease \in [owner : Procs \cup {NoProc}, live : BOOLEAN]
  BY DEF IInv, BaseInv, TypeOK
<1>2. /\ [owner |-> p, live |-> TRUE] \in [owner : Procs \cup {NoProc}, live : BOOLEAN]
      /\ [owner |-> NoProc, live |-> FALSE] \in [owner : Procs \cup {NoProc}, live : BOOLEAN]
  OBVIOUS
<1> QED BY <1>1, <1>2, Zenon DEF Acquire, Release

LEMMA StepJobs ==
    ASSUME NEW j \in Jobs, NEW then \in PC
    PROVE  /\ NoJob \in Jobs /\ NoJob.unit = NoUnit /\ NoJob.then = "idle"
           /\ [NoJob EXCEPT !.unit = j.unit, !.then = then] \in Jobs
           /\ [NoJob EXCEPT !.unit = j.unit, !.then = then].unit = j.unit
           /\ [NoJob EXCEPT !.unit = j.unit, !.then = then].then = then
BY EmptySeq DEF NoJob, Jobs, PC, Commits

LEMMA GotoStep ==
    ASSUME TypeOK, NEW p \in Procs, NEW l
    PROVE  /\ Goto(p, l) => StepOf(p, l, job[p])
           /\ Done(p) => StepOf(p, "idle", NoJob)
           /\ \A then : Leave(p, then) =>
                  StepOf(p, "unlock", [NoJob EXCEPT !.unit = job[p].unit, !.then = then])
BY DEF Goto, Done, Leave, StepOf, TypeOK

LEMMA RestFits ==
    \A U, b, n : ProcFits("idle", NoJob, U, b) /\ CallFits("idle", NoJob, U, b, n)
BY StepJobs, EmptySeq DEF ProcFits, CallFits, PC, Resting, HasBuilt, Deciding, Reconciling,
   Cancelling, Rejecting, NoJob, Jobs, Commits

\* A call that leaves its critical section, for a unit that may be rejected.
LEMMA LeaveFits ==
    ASSUME IInv, NEW p \in Procs, NEW then \in Endings, pc[p] \notin Resting \/ then = "idle",
           pc[p] # "unlock"
    PROVE  LET j == [NoJob EXCEPT !.unit = job[p].unit, !.then = then]
           IN  /\ \A b : ProcFits("unlock", j, unit, b)
               /\ (\/ then = "idle"
                   \/ /\ unit[j.unit].status \in {"formed", "validated"}
                      /\ then = "reject" =>
                             Recorded(ChangeIn(unit, j.unit), branch, integratedCommits))
                  => CallFits("unlock", j, unit, branch, integratedCommits)
<1> DEFINE j == [NoJob EXCEPT !.unit = job[p].unit, !.then = then]
<1>1. /\ job[p] \in Jobs /\ then \in PC
      /\ pc[p] \notin Resting => job[p].unit \in Units
  BY Facts DEF ProcFits, Endings, PC, Integrating
<1>2. j \in Jobs /\ j.unit = job[p].unit /\ j.then = then
  BY <1>1, StepJobs
<1> HIDE DEF j
<1>3. \A b : ProcFits("unlock", j, unit, b)
  BY <1>1, <1>2 DEF ProcFits, Resting, Cancelling, HasBuilt, PC, Integrating
<1>4. (\/ then = "idle"
       \/ /\ unit[j.unit].status \in {"formed", "validated"}
          /\ then = "reject" => Recorded(ChangeIn(unit, j.unit), branch, integratedCommits))
      => CallFits("unlock", j, unit, branch, integratedCommits)
  BY <1>2 DEF CallFits, Deciding, Reconciling, Rejecting
<1> QED BY <1>3, <1>4 DEF j

LEMMA CrashKeeps == ASSUME IInv, NEW p \in Procs, Crash(p) PROVE BaseInv' /\ CalmInv'
<1>1. StepOf(p, "idle", NoJob)
  BY Facts, GotoStep DEF Crash
<1>2. Typed'
  BY Facts DEF Crash, Typed, streamVars, history, Held
<1> QED BY <1>1, <1>2, Facts, QuietStep, RestFits, StepJobs, EmptySeq DEF Crash, streamVars, history, NoJob

LEMMA CancelKeeps ==
    ASSUME IInv, NEW p \in Procs, Cancel(p) \/ CancelEnter(p) \/ CancelAppend(p)
    PROVE  BaseInv' /\ CalmInv'
<1>1. Typed'
  BY Facts, LeaseTypes DEF Cancel, CancelEnter, CancelAppend, Typed, streamVars, history, Held, Unfit
<1>2. /\ UNCHANGED <<branch, unit, integratedCommits, repeated, unretained>>
      /\ UNCHANGED <<poison, unfit>> \/ Unfit
      /\ job[p] = NoJob /\ job[p].unit = NoUnit
  BY Facts DEF Cancel, CancelEnter, CancelAppend, streamVars, history, ProcFits, Resting,
     Cancelling, NoJob
<1>3. CASE Cancel(p) \/ (CancelEnter(p) /\ Goto(p, "cancelAppend"))
  <2>1. PICK l \in Cancelling : StepOf(p, l, NoJob)
    BY <1>2, <1>3, Facts, GotoStep DEF Cancel, CancelEnter, Cancelling
  <2>2. ProcFits(l, NoJob, unit, branch) /\ CallFits(l, NoJob, unit, branch, integratedCommits)
    BY StepJobs, EmptySeq DEF ProcFits, CallFits, PC, Resting, HasBuilt, Deciding, Reconciling,
       Cancelling, Rejecting, NoJob, Jobs, Commits
  <2>3. UNCHANGED <<poison, unfit>>
    BY <1>3 DEF Cancel, CancelEnter, streamVars, history
  <2> QED BY <1>1, <1>2, <2>1, <2>2, <2>3, Facts, QuietStep
<1>4. CASE CancelEnter(p) /\ Done(p)
  <2>1. StepOf(p, "idle", NoJob)
    BY <1>4, Facts, GotoStep
  <2>2. UNCHANGED <<poison, unfit>>
    BY <1>4 DEF CancelEnter, streamVars, history
  <2> QED BY <1>1, <1>2, <2>1, <2>2, Facts, QuietStep, RestFits
<1>5. CASE CancelAppend(p)
  <2> DEFINE j == [NoJob EXCEPT !.unit = job[p].unit, !.then = "idle"]
  <2>1. StepOf(p, "unlock", j)
    BY <1>5, Facts, GotoStep DEF CancelAppend
  <2>2. j.unit = job[p].unit
    BY <1>2 DEF NoJob
  <2>3. ProcFits("unlock", j, unit, branch) /\ CallFits("unlock", j, unit, branch, integratedCommits)
    BY <1>5, LeaveFits DEF CancelAppend, Endings
  <2> HIDE DEF j
  <2> QED BY <1>1, <1>2, <2>1, <2>2, <2>3, Facts, QuietStep DEF Unfit
<1> QED BY <1>3, <1>4, <1>5 DEF CancelEnter

\* What a call is and knows that has a unit.
LEMMA CallFacts ==
    ASSUME IInv, NEW p \in Procs, pc[p] \notin Resting, pc[p] # "unlock"
    PROVE  /\ job[p].unit \in Units /\ job[p].unit # NoUnit /\ job[p] \in Jobs
           /\ job[p].base \in Commits /\ job[p].result \in Commits
           /\ unit[job[p].unit] \in UnitViews
           /\ Change(job[p].unit) = ChangeIn(unit, job[p].unit)
           /\ ChangeIn(unit, job[p].unit) \in Changes
           /\ Orderly => /\ UnitFits(job[p].unit, unit, branch, integratedCommits)
                         /\ CallFits(pc[p], job[p], unit, branch, integratedCommits)
<1>1. /\ ProcFits(pc[p], job[p], unit, branch) /\ unit \in [Units -> UnitViews]
      /\ TypeOK /\ UnitsOK
      /\ Orderly => /\ \A u \in Units : UnitFits(u, unit, branch, integratedCommits)
                    /\ CallFits(pc[p], job[p], unit, branch, integratedCommits)
  BY Facts
<1>2. job[p].unit \in Units /\ job[p] \in Jobs
  BY <1>1 DEF ProcFits
<1> QED BY <1>1, <1>2, NoUnitAssumption, ChangeOfUnit DEF Jobs

\* The call goes on, without a change of the stream or of the branch.
LEMMA GotoKeeps ==
    ASSUME IInv, NEW p \in Procs, NEW l \in PC, StepOf(p, l, job[p]), Typed',
           UNCHANGED <<branch, unit, integratedCommits, poison, repeated, unretained, unfit>>,
           ProcFits(l, job[p], unit, branch),
           Orderly => CallFits(l, job[p], unit, branch, integratedCommits)
    PROVE  BaseInv' /\ CalmInv'
<1>1. Orderly' <=> Orderly
  BY DEF Orderly
<1> QED BY <1>1, Facts, QuietStep

\* ... or leaves its critical section.
LEMMA LeaveKeeps ==
    ASSUME IInv, NEW p \in Procs, NEW then \in Endings, Leave(p, then), Typed',
           pc[p] \notin Resting, pc[p] # "unlock",
           UNCHANGED <<branch, unit, integratedCommits, poison, repeated, unretained, unfit>>,
           Orderly /\ then # "idle" =>
               /\ unit[job[p].unit].status \in {"formed", "validated"}
               /\ then = "reject" =>
                      Recorded(ChangeIn(unit, job[p].unit), branch, integratedCommits)
    PROVE  BaseInv' /\ CalmInv'
<1> DEFINE j == [NoJob EXCEPT !.unit = job[p].unit, !.then = then]
<1>1. StepOf(p, "unlock", j) /\ j.unit = job[p].unit
  BY Facts, GotoStep DEF NoJob
<1>2. ProcFits("unlock", j, unit, branch)
  BY LeaveFits
<1>3. Orderly => CallFits("unlock", j, unit, branch, integratedCommits)
  BY LeaveFits, <1>1
<1>4. Orderly' <=> Orderly
  BY DEF Orderly
<1> HIDE DEF j
<1> QED BY <1>1, <1>2, <1>3, <1>4, Facts, QuietStep

\* What Record makes of a unit whose status it accepts, and of any other.
LEMMA RecordEffect ==
    ASSUME IInv, NEW u \in Units, NEW from, NEW view \in UnitViews, Record(u, from, view),
           view.source = unit[u].source,
           view.status \notin {"awaiting_approval", "correction_awaiting_approval"}
    PROVE  /\ unit' \in [Units -> UnitViews] /\ UnitsOK' /\ poison' \in BOOLEAN
           /\ \A w \in Units : unit[w].source <= unit'[w].source
           /\ \A w \in Units : w # u => unit'[w] = unit[w]
           /\ ~poison /\ unit[u].status \in from => unit'[u] = view /\ ~poison'
           /\ ~poison' => unit'[u] = view
<1>0. unit \in [Units -> UnitViews] /\ UnitsOK /\ poison \in BOOLEAN
  BY Facts DEF Typed
<1>1. /\ unit' \in [Units -> UnitViews] /\ poison' \in BOOLEAN
      /\ \A w \in Units : w # u => unit'[w] = unit[w]
      /\ unit'[u] = unit[u] \/ unit'[u] = view
      /\ ~poison /\ unit[u].status \in from => unit'[u] = view /\ ~poison'
      /\ ~poison' => unit'[u] = view
  BY <1>0 DEF Record
<1>2. /\ \A w \in Units : unit[w].source <= unit'[w].source
      /\ \A w \in Units : unit'[w].source = unit[w].source
  BY <1>0, <1>1, UnitTypes
<1>3. UnitsOK'
  BY <1>0, <1>1, <1>2 DEF UnitsOK
<1> QED BY <1>1, <1>2, <1>3

\* A record of a call about its unit.
LEMMA RecordKeeps ==
    ASSUME IInv, NEW p \in Procs, NEW l, NEW j, StepOf(p, l, j), Typed',
           pc[p] \notin Resting, pc[p] # "unlock", j.unit \in {job[p].unit, NoUnit},
           NEW from, NEW view \in UnitViews, Record(job[p].unit, from, view),
           view.source = unit[job[p].unit].source,
           view.status \notin {"awaiting_approval", "correction_awaiting_approval"},
           UNCHANGED branch,
           \/ UNCHANGED integratedCommits
           \/ /\ pc[p] \in {"evidence", "reconcileCommitted"}
              /\ integratedCommits' = IF poison' THEN integratedCommits
                                                 ELSE integratedCommits \cup {job[p].result},
           repeated => repeated', unretained => unretained', unfit => unfit',
           ProcFits(l, j, unit', branch),
           Orderly' => CallFits(l, j, unit', branch, integratedCommits'),
           Orderly' /\ ~poison => /\ unit[job[p].unit].status \in from
                                  /\ UnitFits(job[p].unit, unit', branch, integratedCommits')
    PROVE  BaseInv' /\ CalmInv'
<1> DEFINE u == job[p].unit
<1>1. u \in Units /\ BaseInv /\ CalmInv
  BY CallFacts, Facts
<1>2. /\ unit' \in [Units -> UnitViews] /\ UnitsOK'
      /\ \A w \in Units : unit[w].source <= unit'[w].source
      /\ \A w \in Units : w # u => unit'[w] = unit[w]
      /\ ~poison /\ unit[u].status \in from => ~poison'
      /\ poison => UNCHANGED <<unit, integratedCommits>>
  BY <1>1, RecordEffect DEF Record
<1>3. /\ integratedCommits' \subseteq integratedCommits \cup Prefixes(branch')
      /\ integratedCommits \subseteq integratedCommits'
  BY Facts DEF ProcFits
<1>4. BaseInv'
  BY <1>1, <1>2, <1>3, BaseStep
<1>5. ASSUME Orderly' PROVE CalmInv'
  <2>1. Orderly /\ (unfit \/ ~poison) /\ UnitFits(u, unit, branch, integratedCommits)
    BY <1>1, <1>5, Facts DEF Orderly
  <2>2. (unfit' \/ ~poison') /\ UnitFits(u, unit', branch, integratedCommits')
    BY <1>2, <1>5, <2>1
  <2> QED BY <1>1, <1>2, <1>3, <1>5, <2>1, <2>2, CalmStep
<1> QED BY <1>4, <1>5 DEF CalmInv

LEMMA IntegrateKeeps ==
    ASSUME IInv, NEW p \in Procs, NEW u \in Units, Integrate(p, u) PROVE BaseInv' /\ CalmInv'
<1> DEFINE j == [NoJob EXCEPT !.unit = u]
<1>1. StepOf(p, "analyze", j) /\ Typed'
  BY Facts DEF Integrate, Begin, StepOf, Typed, streamVars
<1>2. UNCHANGED <<branch, unit, integratedCommits, poison, unretained, unfit>> /\ (repeated => repeated')
  BY DEF Integrate, Begin, streamVars
<1>3. j \in Jobs /\ j.unit = u
  BY EmptySeq DEF Jobs, NoJob, PC, Commits
<1>4. ProcFits("analyze", j, unit, branch)
  BY <1>3 DEF ProcFits, PC, Integrating, Resting, Cancelling, HasBuilt
<1>5. CallFits("analyze", j, unit, branch, integratedCommits)
  BY <1>3 DEF Integrate, CallFits, Deciding, Reconciling, Rejecting
<1>6. Orderly' => \A q \in Others(p) : job[q].unit # u
  BY DEF Integrate, Begin, UnderWay, Orderly, Others
<1> HIDE DEF j
<1> QED BY <1>1, <1>2, <1>3, <1>4, <1>5, <1>6, Facts, QuietStep

LEMMA ReconcileKeeps ==
    ASSUME IInv, NEW p \in Procs, NEW u \in Units, Reconcile(p, u) PROVE BaseInv' /\ CalmInv'
<1> DEFINE j == [NoJob EXCEPT !.unit = u, !.base = unit[u].expected, !.result = unit[u].result]
<1>1. StepOf(p, "reconcileEnter", j) /\ Typed'
  BY Facts DEF Reconcile, Begin, StepOf, Typed, streamVars
<1>2. UNCHANGED <<branch, unit, integratedCommits, poison, unretained, unfit>> /\ (repeated => repeated')
  BY DEF Reconcile, Begin, streamVars
<1>3. /\ j \in Jobs /\ j.unit = u /\ j.base = unit[u].expected /\ j.result = unit[u].result
  BY Facts, UnitTypes DEF Jobs, NoJob, PC
<1>4. ProcFits("reconcileEnter", j, unit, branch)
  BY <1>3 DEF ProcFits, PC, Reconciling, Resting, Cancelling, HasBuilt
<1>5. CallFits("reconcileEnter", j, unit, branch, integratedCommits)
  BY <1>3 DEF Reconcile, Reconcilable, CallFits, Rejecting
<1>6. Orderly' => \A q \in Others(p) : job[q].unit # u
  BY DEF Reconcile, Begin, UnderWay, Orderly, Others
<1> HIDE DEF j
<1> QED BY <1>1, <1>2, <1>3, <1>4, <1>5, <1>6, Facts, QuietStep

LEMMA AnalyzeKeeps == ASSUME IInv, NEW p \in Procs, Analyze(p) PROVE BaseInv' /\ CalmInv'
<1> DEFINE u == job[p].unit
<1>1. Typed' \/ RecordConflicted(u)
  BY Facts DEF Analyze, Typed, streamVars, history
<1>2. pc[p] = "analyze" /\ pc[p] \notin Resting
  BY DEF Analyze, Resting, Cancelling
<1>3. CASE RecordConflicted(u) /\ UNCHANGED <<cancelled, integratedCommits>> /\ Done(p)
  <2> DEFINE view == To(u, "conflicted")
  <2>1. view \in UnitViews /\ view.source = unit[u].source /\ view.status = "conflicted"
    BY <1>2, CallFacts DEF To, UnitViews, Status
  <2>2. StepOf(p, "idle", NoJob)
    BY <1>3, Facts, GotoStep
  <2>3. Record(u, {"formed"}, view) /\ u \in Units
    BY <1>2, <1>3, CallFacts DEF RecordConflicted
  <2> HIDE DEF view
  <2>4. Typed'
    BY <1>3, <2>1, <2>3, Facts, RecordEffect DEF Analyze, Typed, history
  <2>5. ASSUME Orderly', ~poison
        PROVE  unit[u].status \in {"formed"} /\ UnitFits(u, unit', branch, integratedCommits)
    <3>1. Orderly
      BY <2>5 DEF Analyze, history, Orderly
    <3>2. /\ unit[u].status = "formed"
          /\ Recorded(ChangeIn(unit, u), branch, integratedCommits)
      BY <1>2, <3>1, CallFacts, Facts DEF CallFits, UnitFits
    <3>3. unit'[u] = view
      BY <2>1, <2>3, <2>5, <3>2, RecordEffect
    <3>4. ChangeIn(unit', u) = ChangeIn(unit, u)
      BY <2>1, <3>3 DEF ChangeIn
    <3> QED BY <2>1, <3>2, <3>3, <3>4 DEF UnitFits
  <2>6. /\ NoJob.unit = NoUnit
        /\ UNCHANGED <<branch, integratedCommits, repeated, unretained, unfit>>
    BY <1>3 DEF Analyze, NoJob, history
  <2> QED BY <1>2, <2>1, <2>2, <2>3, <2>4, <2>5, <2>6, RestFits, RecordKeeps
<1>4. CASE Goto(p, "enter") /\ UNCHANGED streamVars
  <2>1. StepOf(p, "enter", job[p]) /\ "enter" \in PC /\ Typed'
    BY <1>4, Facts, GotoStep DEF Analyze, PC, Integrating, Typed, streamVars, history
  <2>2. ProcFits("enter", job[p], unit, branch)
    BY <1>2, CallFacts DEF ProcFits, PC, Integrating, Resting, Cancelling, HasBuilt
  <2>3. Orderly => CallFits("enter", job[p], unit, branch, integratedCommits)
    BY <1>2, CallFacts DEF CallFits, Deciding, Reconciling, Rejecting
  <2> QED BY <1>4, <2>1, <2>2, <2>3, GotoKeeps DEF Analyze, streamVars, history
<1>5. CASE Done(p) /\ UNCHANGED streamVars
  <2>1. StepOf(p, "idle", NoJob) /\ Typed' /\ NoJob.unit = NoUnit
    BY <1>5, Facts, GotoStep DEF Analyze, Typed, streamVars, history, NoJob
  <2> QED BY <1>5, <2>1, RestFits, Facts, QuietStep DEF Analyze, streamVars, history
<1> QED BY <1>3, <1>4, <1>5 DEF Analyze

LEMMA EnterKeeps == ASSUME IInv, NEW p \in Procs, Enter(p) PROVE BaseInv' /\ CalmInv'
<1>1. pc[p] = "enter" /\ pc[p] \notin Resting
  BY DEF Enter, Resting, Cancelling
<1>2. Typed' /\ UNCHANGED <<branch, unit, integratedCommits, poison, repeated, unretained, unfit>>
  BY Facts, LeaseTypes DEF Enter, Typed, streamVars, history
<1>3. PICK l \in {"build", "rejectUnlessValidated"} : StepOf(p, l, job[p])
  BY Facts, GotoStep DEF Enter
<1>4. l \in PC /\ ProcFits(l, job[p], unit, branch)
  BY <1>1, CallFacts DEF ProcFits, PC, Integrating, Resting, Cancelling, HasBuilt
<1>5. Orderly => CallFits(l, job[p], unit, branch, integratedCommits)
  BY <1>1, CallFacts DEF CallFits, Deciding, Reconciling, Rejecting
<1> QED BY <1>2, <1>3, <1>4, <1>5, GotoKeeps

LEMMA BuildKeeps == ASSUME IInv, NEW p \in Procs, Build(p) PROVE BaseInv' /\ CalmInv'
<1> DEFINE u == job[p].unit
<1>1. pc[p] = "build" /\ pc[p] \notin Resting
  BY DEF Build, Resting, Cancelling
<1>2. Typed' /\ UNCHANGED <<branch, unit, integratedCommits, poison, repeated, unretained, unfit>>
  BY Facts DEF Build, Typed, streamVars, history
<1>3. CASE Receipt(p) \/ Error(p)
  <2>1. PICK then \in {"reject", "rejectUnlessValidated"} : Leave(p, then)
    BY <1>3 DEF Receipt, Error
  <2>2. Orderly => /\ unit[u].status = "formed"
                   /\ Recorded(ChangeIn(unit, u), branch, integratedCommits)
    BY <1>1, CallFacts DEF CallFits, UnitFits
  <2> QED BY <1>1, <1>2, <2>1, <2>2, LeaveKeeps DEF Endings
<1>4. CASE /\ Change(u) \notin Range(branch)
           /\ pc' = [pc EXCEPT ![p] = "prepare"]
           /\ job' = [job EXCEPT ![p].base = branch, ![p].result = Append(branch, Change(u))]
  <2> DEFINE j == [job[p] EXCEPT !.base = branch, !.result = Append(branch, Change(u))]
  <2>1. /\ u \in Units /\ Change(u) = ChangeIn(unit, u) /\ Change(u) \in Changes
        /\ job[p] \in Jobs /\ branch \in Seq(Changes)
    BY <1>1, CallFacts, Facts
  <2>2. /\ j \in Jobs /\ j.unit = u /\ j.base = branch /\ j.result = Append(branch, Change(u))
    <3>1. Append(branch, Change(u)) \in Commits /\ branch \in Commits
      BY <2>1, Appended DEF Commits
    <3> QED BY <2>1, <3>1 DEF Jobs
  <2>3. StepOf(p, "prepare", j)
    <3>1. job' = [job EXCEPT ![p] = j]
      BY <1>4, Facts
    <3> QED BY <1>4, <3>1 DEF StepOf
  <2>4. Change(u).unit = u /\ Change(u).source = unit[u].source /\ unit[u].source \in Nat
    BY <2>1, Facts, UnitTypes DEF Change
  <2> HIDE DEF j
  <2>5. ProcFits("prepare", j, unit, branch)
    BY <1>4, <2>1, <2>2, <2>4 DEF ProcFits, PC, Integrating, Resting, Cancelling, HasBuilt, Candidate
  <2>6. Orderly => CallFits("prepare", j, unit, branch, integratedCommits)
    BY <1>1, <1>4, <2>1, <2>2, CallFacts DEF CallFits, Deciding, Reconciling, Rejecting
  <2>7. Orderly' <=> Orderly
    BY <1>2 DEF Orderly
  <2> QED BY <1>2, <2>2, <2>3, <2>5, <2>6, <2>7, Facts, QuietStep
<1> QED BY <1>3, <1>4 DEF Build


\* The change of a unit depends on its sources only.
LEMMA SameChange ==
    ASSUME NEW u, NEW U, NEW V, V[u].source = U[u].source
    PROVE  ChangeIn(V, u) = ChangeIn(U, u)
BY DEF ChangeIn

LEMMA PrepareKeeps == ASSUME IInv, NEW p \in Procs, Prepare(p) PROVE BaseInv' /\ CalmInv'
<1> DEFINE u == job[p].unit
<1>1. pc[p] = "prepare" /\ pc[p] \notin Resting /\ pc[p] # "unlock"
  BY DEF Prepare, Resting, Cancelling
<1>2. UNCHANGED <<branch, lease, cancelled, integratedCommits, lapsed, repeated, unretained, unfit>>
  BY DEF Prepare, history
<1>3. Orderly => /\ unit[u].status = "formed"
                 /\ ChangeIn(unit, u) \notin Range(branch)
                 /\ ChangeIn(unit, u) \notin Range(job[p].base)
                 /\ job[p].result = Append(job[p].base, ChangeIn(unit, u))
  BY <1>1, CallFacts, Facts DEF CallFits
<1>4. CASE (Receipt(p) \/ Error(p)) /\ UNCHANGED <<unit, poison>>
  <2>1. PICK then \in {"reject", "rejectUnlessValidated"} : Leave(p, then)
    BY <1>4 DEF Receipt, Error
  <2>2. Typed'
    BY <1>2, <1>4, Facts DEF Typed
  <2> QED BY <1>1, <1>2, <1>3, <1>4, <2>1, <2>2, LeaveKeeps DEF Endings, Recorded
<1>5. CASE Active /\ RecordValidated(u, job[p].base, job[p].result) /\ Goto(p, "guard")
  <2> DEFINE view == [To(u, "validated") EXCEPT !.expected = job[p].base, !.result = job[p].result]
  <2>1. /\ view \in UnitViews /\ view.source = unit[u].source /\ view.status = "validated"
        /\ view.expected = job[p].base /\ view.result = job[p].result
    BY <1>1, CallFacts DEF To, UnitViews, Status
  <2>2. Record(u, {"formed"}, view) /\ u \in Units
    BY <1>1, <1>5, CallFacts DEF RecordValidated
  <2> HIDE DEF view
  <2>3. /\ unit' \in [Units -> UnitViews] /\ poison' \in BOOLEAN
        /\ \A w \in Units : unit[w].source <= unit'[w].source
        /\ unit[u].status = "formed" => unit'[u] = view
    BY <1>5, <2>1, <2>2, RecordEffect DEF Active, Readable
  <2>4. StepOf(p, "guard", job[p]) /\ Typed'
    BY <1>2, <1>5, <2>3, Facts, GotoStep DEF Typed
  <2>5. ProcFits("guard", job[p], unit, branch)
    BY <1>1, Facts DEF ProcFits, PC, Integrating, Resting, Cancelling, HasBuilt
  <2>6. ProcFits("guard", job[p], unit', branch)
    BY <2>3, <2>5, Facts, ProcFitsStays
  <2>7. ASSUME Orderly'
        PROVE  /\ unit[u].status \in {"formed"}
               /\ UnitFits(u, unit', branch, integratedCommits')
               /\ CallFits("guard", job[p], unit', branch, integratedCommits')
    <3>1. Orderly
      BY <1>2, <2>7 DEF Orderly
    <3>2. unit'[u] = view /\ ChangeIn(unit', u) = ChangeIn(unit, u)
      BY <1>3, <2>1, <2>3, <3>1, SameChange
    <3> QED BY <1>3, <2>1, <3>1, <3>2 DEF UnitFits, CallFits, Deciding, Reconciling, Rejecting
  <2> QED BY <1>1, <1>2, <2>1, <2>2, <2>4, <2>6, <2>7, RecordKeeps
<1> QED BY <1>4, <1>5 DEF Prepare

LEMMA GuardKeeps == ASSUME IInv, NEW p \in Procs, Guard(p) PROVE BaseInv' /\ CalmInv'
<1> DEFINE u == job[p].unit
<1>1. pc[p] = "guard" /\ pc[p] \notin Resting /\ pc[p] # "unlock"
  BY DEF Guard, Resting, Cancelling
<1>2. Typed' /\ UNCHANGED <<branch, unit, integratedCommits, poison, repeated, unretained, unfit>>
  BY Facts DEF Guard, Typed, streamVars, history
<1>3. CASE Receipt(p) \/ Error(p)
  <2>1. PICK then \in {"reject", "rejectUnlessValidated"} : Leave(p, then)
    BY <1>3 DEF Receipt, Error
  <2>2. Orderly => /\ unit[u].status = "validated"
                   /\ Recorded(ChangeIn(unit, u), branch, integratedCommits)
    BY <1>1, CallFacts DEF CallFits, Deciding, Recorded
  <2> QED BY <1>1, <1>2, <2>1, <2>2, LeaveKeeps DEF Endings
<1>4. CASE Goto(p, "swap")
  <2>1. StepOf(p, "swap", job[p]) /\ "swap" \in PC
    BY <1>4, Facts, GotoStep DEF PC, Integrating
  <2>2. ProcFits("swap", job[p], unit, branch)
    BY <1>1, Facts DEF ProcFits, PC, Integrating, Resting, Cancelling, HasBuilt
  <2>3. Orderly => CallFits("swap", job[p], unit, branch, integratedCommits)
    BY <1>1, CallFacts DEF CallFits, Deciding, Rejecting, Reconciling
  <2> QED BY <1>2, <2>1, <2>2, <2>3, GotoKeeps
<1> QED BY <1>3, <1>4 DEF Guard

LEMMA SwapKeeps == ASSUME IInv, NEW p \in Procs, Swap(p) PROVE BaseInv' /\ CalmInv'
<1> DEFINE u == job[p].unit
<1>1. pc[p] = "swap" /\ pc[p] \notin Resting /\ pc[p] # "unlock"
  BY DEF Swap, Resting, Cancelling
<1>2. Typed' /\ UNCHANGED <<unit, integratedCommits, poison, repeated, unretained, unfit>>
  BY Facts DEF Swap, Typed, streamVars, history
<1>3. Orderly => unit[u].status = "validated" /\ ChangeIn(unit, u) \notin Range(branch)
  BY <1>1, CallFacts DEF CallFits, Deciding
<1>4. CASE branch' = branch /\ (Receipt(p) \/ Error(p))
  <2>1. PICK then \in {"reject", "rejectUnlessValidated"} : Leave(p, then)
    BY <1>4 DEF Receipt, Error
  <2> QED BY <1>1, <1>2, <1>3, <1>4, <2>1, LeaveKeeps DEF Endings, Recorded
<1>5. CASE branch' = branch /\ Goto(p, "observe")
  <2>1. StepOf(p, "observe", job[p]) /\ "observe" \in PC
    BY <1>5, Facts, GotoStep DEF PC, Integrating
  <2>2. ProcFits("observe", job[p], unit, branch)
    BY <1>1, Facts DEF ProcFits, PC, Integrating, Resting, Cancelling, HasBuilt
  <2>3. Orderly => CallFits("observe", job[p], unit, branch, integratedCommits)
    BY <1>1, CallFacts DEF CallFits, Deciding, Rejecting, Reconciling
  <2> QED BY <1>2, <1>5, <2>1, <2>2, <2>3, GotoKeeps
<1>6. CASE branch = job[p].base /\ branch' = job[p].result /\ (Goto(p, "evidence") \/ Goto(p, "observe"))
  <2>1. PICK l \in {"evidence", "observe"} : StepOf(p, l, job[p])
    BY <1>6, Facts, GotoStep
  <2>2. PICK c \in Changes : /\ c.unit = u /\ c.source <= unit[c.unit].source
                             /\ branch' = Append(branch, c)
    BY <1>1, <1>6, Facts DEF ProcFits, HasBuilt, Candidate
  <2>3. branch' \in Prefixes(branch') /\ Candidate(job[p], unit)
    BY <1>1, <2>2, Facts, Appended, WholePrefix DEF ProcFits, HasBuilt
  <2>4. ProcFits(l, job[p], unit, branch')
    BY <1>1, <1>6, <2>3, CallFacts DEF ProcFits, PC, Integrating, Resting, Cancelling, HasBuilt
  <2>5. /\ \A w \in Units : unit[w].source <= unit[w].source
        /\ UnitsOK' /\ integratedCommits \subseteq integratedCommits \cup Prefixes(branch')
    BY <1>2, Facts, UnitTypes DEF UnitsOK
  <2>6. BaseInv'
    BY <1>2, <2>1, <2>2, <2>4, <2>5, Facts, BaseStep DEF Grown
  <2>7. ASSUME Orderly' PROVE CalmInv'
    <3>1. Orderly /\ (unfit' \/ ~poison')
      BY <1>2, <2>7, Facts DEF Orderly
    <3>2. UnitFits(u, unit, branch', integratedCommits)
      BY <1>1, <1>3, <3>1, CallFacts DEF UnitFits
    <3>3. CallFits(l, job[p], unit, branch', integratedCommits)
      BY <1>1, <3>1, CallFacts DEF CallFits, Deciding, Rejecting, Reconciling
    <3>4. u \in Units
      BY <1>1, CallFacts
    <3> QED BY <1>2, <2>1, <2>2, <3>1, <3>2, <3>3, <3>4, Facts, CalmStep
  <2> QED BY <2>6, <2>7 DEF CalmInv
<1> QED BY <1>4, <1>5, <1>6 DEF Swap

LEMMA ObserveKeeps == ASSUME IInv, NEW p \in Procs, Observe(p) PROVE BaseInv' /\ CalmInv'
<1> DEFINE u == job[p].unit
<1>1. pc[p] = "observe" /\ pc[p] \notin Resting /\ pc[p] # "unlock"
  BY DEF Observe, Resting, Cancelling
<1>2. Typed' /\ UNCHANGED <<branch, unit, integratedCommits, poison, repeated, unretained, unfit>>
  BY Facts DEF Observe, Typed, streamVars, history
<1>3. CASE branch = job[p].base /\ (Receipt(p) \/ Error(p))
  <2>1. PICK then \in {"reject", "rejectUnlessValidated"} : Leave(p, then)
    BY <1>3 DEF Receipt, Error
  <2>2. Orderly => /\ unit[u].status = "validated"
                   /\ Recorded(ChangeIn(unit, u), branch, integratedCommits)
    BY <1>1, <1>3, CallFacts DEF CallFits, UnitFits, Deciding, Recorded
  <2> QED BY <1>1, <1>2, <2>1, <2>2, LeaveKeeps DEF Endings
<1>4. CASE Leave(p, "idle")
  BY <1>1, <1>2, <1>4, LeaveKeeps DEF Endings
<1>5. CASE branch = job[p].result /\ Goto(p, "evidence")
  <2>1. StepOf(p, "evidence", job[p]) /\ "evidence" \in PC
    BY <1>5, Facts, GotoStep DEF PC, Integrating
  <2>2. ProcFits("evidence", job[p], unit, branch)
    BY <1>1, <1>5, Facts, WholePrefix DEF ProcFits, PC, Integrating, Resting, Cancelling, HasBuilt
  <2>3. Orderly => CallFits("evidence", job[p], unit, branch, integratedCommits)
    BY <1>1, CallFacts DEF CallFits, Deciding, Rejecting, Reconciling
  <2> QED BY <1>2, <2>1, <2>2, <2>3, GotoKeeps
<1> QED BY <1>3, <1>4, <1>5 DEF Observe

\* A call that is over apart from its lease asks nothing of its unit.
LEMMA OverFits ==
    ASSUME IInv, NEW p \in Procs, pc[p] \notin Resting, pc[p] # "unlock", NEW then \in Endings
    PROVE  LET j == [NoJob EXCEPT !.unit = job[p].unit, !.then = then]
           IN  /\ Leave(p, then) => StepOf(p, "unlock", j)
               /\ j.unit = job[p].unit
               /\ \A V, b : ProcFits("unlock", j, V, b)
               /\ then = "idle" => \A V, b, n : CallFits("unlock", j, V, b, n)
<1> DEFINE j == [NoJob EXCEPT !.unit = job[p].unit, !.then = then]
<1>1. job[p] \in Jobs /\ job[p].unit \in Units /\ then \in PC
  BY CallFacts DEF Endings, PC, Integrating
<1>2. j \in Jobs /\ j.unit = job[p].unit /\ j.then = then
  BY <1>1, StepJobs
<1>3. Leave(p, then) => StepOf(p, "unlock", j)
  BY Facts, GotoStep
<1> HIDE DEF j
<1>4. \A V, b : ProcFits("unlock", j, V, b)
  BY <1>1, <1>2 DEF ProcFits, Resting, Cancelling, HasBuilt, PC, Integrating
<1>5. then = "idle" => \A V, b, n : CallFits("unlock", j, V, b, n)
  BY <1>2 DEF CallFits, Deciding, Reconciling, Rejecting
<1> QED BY <1>2, <1>3, <1>4, <1>5 DEF j

\* A commit is recorded of a unit that was validated, by the call that knows it landed.
LEMMA CommitKeeps ==
    ASSUME IInv, NEW p \in Procs, pc[p] \in {"evidence", "reconcileCommitted"},
           RecordCommitted(job[p].unit, job[p].result), NEW then \in Endings, Leave(p, then),
           then = "idle" \/ ~Orderly',
           UNCHANGED <<branch, lease, cancelled, lapsed, repeated, unfit>>,
           unretained' \in BOOLEAN, unretained => unretained'
    PROVE  BaseInv' /\ CalmInv'
<1> DEFINE u == job[p].unit
           view == [To(u, "integrated") EXCEPT !.result = job[p].result]
           j == [NoJob EXCEPT !.unit = u, !.then = then]
<1>1. pc[p] \notin Resting /\ pc[p] # "unlock"
  BY DEF Resting, Cancelling
<1>2. /\ view \in UnitViews /\ view.source = unit[u].source /\ view.status = "integrated"
  BY <1>1, CallFacts DEF To, UnitViews, Status
<1>3. Record(u, {"validated"}, view) /\ u \in Units
  BY <1>1, CallFacts DEF RecordCommitted
<1>4. integratedCommits' = IF poison' THEN integratedCommits ELSE integratedCommits \cup {job[p].result}
  BY DEF RecordCommitted
<1>5. /\ StepOf(p, "unlock", j) /\ j.unit = u /\ ProcFits("unlock", j, unit', branch)
      /\ then = "idle" => CallFits("unlock", j, unit', branch, integratedCommits')
  BY <1>1, OverFits
<1> HIDE DEF view, j
<1>6. /\ poison' \in BOOLEAN
      /\ ~poison /\ unit[u].status = "validated" => unit'[u] = view /\ ~poison'
  BY <1>2, <1>3, RecordEffect
<1>7. Typed'
  BY <1>6, Facts DEF Typed
<1>8. ASSUME Orderly', ~poison
      PROVE  /\ unit[u].status \in {"validated"}
             /\ UnitFits(u, unit', branch, integratedCommits')
  <2>1. Orderly
    BY <1>8 DEF Orderly
  <2>2. /\ unit[u].status = "validated" /\ job[p].result = unit[u].result
        /\ unit[u].result = Append(unit[u].expected, ChangeIn(unit, u))
        /\ unit[u].expected \in Seq(Changes) /\ ChangeIn(unit, u) \in Changes
    BY <1>1, <2>1, CallFacts DEF CallFits, UnitFits, Deciding, Reconciling, UnitViews, Commits
  <2>3. ChangeIn(unit, u) \in Range(job[p].result)
    BY SMTT(30), <2>2, Appended
  <2>4. unit'[u] = view /\ ~poison' /\ ChangeIn(unit', u) = ChangeIn(unit, u)
    BY <1>2, <1>6, <1>8, <2>1, <2>2, SameChange
  <2> QED BY <1>2, <1>4, <1>8, <2>2, <2>3, <2>4 DEF UnitFits, Recorded
<1> QED BY <1>1, <1>2, <1>3, <1>4, <1>5, <1>7, <1>8, RecordKeeps

\* The call is over, with nothing recorded.
LEMMA OverKeeps ==
    ASSUME IInv, NEW p \in Procs, pc[p] \notin Resting, pc[p] # "unlock",
           NEW then \in Endings, Leave(p, then), then = "idle" \/ ~Orderly', Typed',
           UNCHANGED <<branch, unit, integratedCommits, poison, repeated, unfit>>, unretained => unretained'
    PROVE  BaseInv' /\ CalmInv'
<1> DEFINE j == [NoJob EXCEPT !.unit = job[p].unit, !.then = then]
<1>1. /\ StepOf(p, "unlock", j) /\ j.unit = job[p].unit /\ ProcFits("unlock", j, unit, branch)
      /\ then = "idle" => CallFits("unlock", j, unit, branch, integratedCommits)
  BY OverFits
<1> HIDE DEF j
<1> QED BY <1>1, Facts, QuietStep

LEMMA EvidenceKeeps == ASSUME IInv, NEW p \in Procs, Evidence(p) PROVE BaseInv' /\ CalmInv'
<1>1. pc[p] = "evidence" /\ pc[p] \notin Resting /\ pc[p] # "unlock"
  BY DEF Evidence, Resting, Cancelling
<1>2. PICK then \in Endings : Leave(p, then) /\ (then = "idle" \/ ~Orderly')
  BY DEF Evidence, Error, Endings, Orderly
<1>3. /\ UNCHANGED <<branch, lease, cancelled, lapsed, repeated, unfit>>
      /\ unretained' \in BOOLEAN /\ (unretained => unretained')
  <2>1. unretained \in BOOLEAN
    BY Facts DEF Typed
  <2>2. unretained' = unretained \/ unretained' = TRUE
    BY DEF Evidence
  <2>3. UNCHANGED <<branch, lease, cancelled, lapsed, repeated, unfit>>
    BY DEF Evidence
  <2>4. CASE unretained' = unretained
    BY <2>1, <2>3, <2>4
  <2>5. CASE unretained' = TRUE
    BY <2>3, <2>5
  <2> QED BY <2>2, <2>4, <2>5
<1>4. CASE RecordCommitted(job[p].unit, job[p].result)
  BY <1>1, <1>2, <1>3, <1>4, CommitKeeps
<1>5. CASE UNCHANGED <<unit, poison, integratedCommits>>
  <2>1. Typed'
    BY <1>3, <1>5, Facts DEF Typed
  <2> QED BY <1>1, <1>2, <1>3, <1>5, <2>1, OverKeeps
<1> QED BY <1>4, <1>5 DEF Evidence

LEMMA UnlockKeeps == ASSUME IInv, NEW p \in Procs, Unlock(p) PROVE BaseInv' /\ CalmInv'
<1>1. Typed' /\ UNCHANGED <<branch, unit, integratedCommits, poison, repeated, unretained, unfit>>
  BY Facts, LeaseTypes DEF Unlock, Typed, streamVars, history
<1>2. CASE job[p].then = "idle"
  <2>1. StepOf(p, "idle", NoJob) /\ NoJob.unit = NoUnit
    BY <1>2, Facts, GotoStep DEF Unlock, NoJob
  <2> QED BY <1>1, <2>1, RestFits, Facts, QuietStep
<1>3. CASE job[p].then # "idle"
  <2> DEFINE l == job[p].then
  <2>1. pc[p] = "unlock" /\ ProcFits(pc[p], job[p], unit, branch)
    BY Facts DEF Unlock
  <2>2. l \in {"reject", "rejectUnlessValidated"} /\ job[p].unit \in Units /\ job[p] \in Jobs
    BY <1>3, <2>1 DEF ProcFits, Endings, Resting, Cancelling
  <2>3. StepOf(p, l, job[p]) /\ l \in PC
    BY <1>3, <2>2, Facts, GotoStep DEF Unlock, PC, Integrating
  <2>4. ProcFits(l, job[p], unit, branch)
    BY <2>2 DEF ProcFits, PC, Integrating, Resting, Cancelling, HasBuilt
  <2>5. Orderly => CallFits(l, job[p], unit, branch, integratedCommits)
    <3>1. Orderly => CallFits("unlock", job[p], unit, branch, integratedCommits)
      BY <2>1, Facts
    <3> QED BY <1>3, <2>2, <3>1 DEF CallFits, Deciding, Rejecting, Reconciling
  <2> HIDE DEF l
  <2> QED BY <1>1, <2>3, <2>4, <2>5, GotoKeeps
<1> QED BY <1>2, <1>3

\* A unit is recorded as rejected whose change has not landed, or is recorded.
LEMMA RejectionKeeps ==
    ASSUME IInv, NEW p \in Procs, pc[p] \notin Resting, pc[p] # "unlock", RecordRejected(job[p].unit),
           NEW l, NEW j, StepOf(p, l, j), j.unit \in {job[p].unit, NoUnit},
           \A V, b : ProcFits(l, j, V, b), \A V, b, n : CallFits(l, j, V, b, n),
           UNCHANGED <<branch, lease, cancelled, integratedCommits, lapsed, repeated, unretained, unfit>>,
           Orderly /\ ~poison => /\ unit[job[p].unit].status \in {"formed", "validated"}
                                 /\ Recorded(ChangeIn(unit, job[p].unit), branch, integratedCommits)
    PROVE  BaseInv' /\ CalmInv'
<1> DEFINE u == job[p].unit
           view == To(u, "rejected")
<1>1. view \in UnitViews /\ view.source = unit[u].source /\ view.status = "rejected"
  BY CallFacts DEF To, UnitViews, Status
<1>2. Record(u, {"formed", "validated"}, view) /\ u \in Units
  BY CallFacts DEF RecordRejected
<1> HIDE DEF view
<1>3. /\ poison' \in BOOLEAN
      /\ ~poison /\ unit[u].status \in {"formed", "validated"} => unit'[u] = view
  BY <1>1, <1>2, RecordEffect
<1>4. Typed'
  BY <1>3, Facts DEF Typed
<1>5. ASSUME Orderly', ~poison
      PROVE  unit[u].status \in {"formed", "validated"} /\ UnitFits(u, unit', branch, integratedCommits')
  <2>1. Orderly
    BY <1>5 DEF Orderly
  <2>2. unit'[u] = view /\ ChangeIn(unit', u) = ChangeIn(unit, u)
    BY <1>1, <1>3, <1>5, <2>1, SameChange
  <2> QED BY <1>1, <1>5, <2>1, <2>2 DEF UnitFits
<1> QED BY <1>1, <1>2, <1>4, <1>5, RecordKeeps

LEMMA RejectKeeps == ASSUME IInv, NEW p \in Procs, Reject(p) PROVE BaseInv' /\ CalmInv'
<1> DEFINE u == job[p].unit
<1>1. /\ pc[p] \in {"reject", "rejectUnlessValidated"}
      /\ pc[p] \notin Resting /\ pc[p] # "unlock"
  BY DEF Reject, Resting, Cancelling
<1>2. StepOf(p, "idle", NoJob) /\ NoJob.unit = NoUnit
  BY Facts, GotoStep DEF Reject, NoJob
<1>3. UNCHANGED <<branch, lease, cancelled, integratedCommits, lapsed, repeated, unretained, unfit>>
  BY DEF Reject, history
<1>4. CASE UNCHANGED <<unit, poison>>
  <2>1. Typed'
    BY <1>3, <1>4, Facts DEF Typed
  <2> QED BY <1>2, <1>3, <1>4, <2>1, RestFits, Facts, QuietStep
<1>5. CASE /\ RecordRejected(u)
           /\ ~(pc[p] = "rejectUnlessValidated" /\ (poison \/ unit[u].status = "validated"))
  <2>1. Orderly /\ ~poison => /\ unit[u].status \in {"formed", "validated"}
                              /\ Recorded(ChangeIn(unit, u), branch, integratedCommits)
    BY <1>1, <1>5, CallFacts DEF CallFits, Rejecting, UnitFits
  <2> QED BY <1>1, <1>2, <1>3, <1>5, <2>1, RestFits, RejectionKeeps
<1> QED BY <1>4, <1>5 DEF Reject

LEMMA ReconcileEnterKeeps ==
    ASSUME IInv, NEW p \in Procs, ReconcileEnter(p) PROVE BaseInv' /\ CalmInv'
<1>1. pc[p] = "reconcileEnter" /\ pc[p] \notin Resting /\ pc[p] # "unlock"
  BY DEF ReconcileEnter, Resting, Cancelling
<1>2. Typed' /\ UNCHANGED <<branch, unit, integratedCommits, poison, repeated, unretained, unfit>>
  BY Facts, LeaseTypes DEF ReconcileEnter, Typed, streamVars, history
<1>3. CASE Done(p)
  <2>1. StepOf(p, "idle", NoJob) /\ NoJob.unit = NoUnit
    BY <1>3, Facts, GotoStep DEF NoJob
  <2> QED BY <1>2, <2>1, RestFits, Facts, QuietStep
<1>4. CASE Goto(p, "reconcileRead")
  <2>1. StepOf(p, "reconcileRead", job[p]) /\ "reconcileRead" \in PC
    BY <1>4, Facts, GotoStep DEF PC, Reconciling
  <2>2. ProcFits("reconcileRead", job[p], unit, branch)
    BY <1>1, CallFacts DEF ProcFits, PC, Reconciling, Resting, Cancelling, HasBuilt
  <2>3. Orderly => CallFits("reconcileRead", job[p], unit, branch, integratedCommits)
    BY <1>1, CallFacts DEF CallFits, Deciding, Rejecting, Reconciling
  <2> QED BY <1>2, <2>1, <2>2, <2>3, GotoKeeps
<1> QED BY <1>3, <1>4 DEF ReconcileEnter

LEMMA ReconcileReadKeeps ==
    ASSUME IInv, NEW p \in Procs, ReconcileRead(p) PROVE BaseInv' /\ CalmInv'
<1>1. pc[p] = "reconcileRead" /\ pc[p] \notin Resting /\ pc[p] # "unlock"
  BY DEF ReconcileRead, Resting, Cancelling
<1>2. Typed' /\ UNCHANGED <<branch, unit, integratedCommits, poison, repeated, unretained, unfit>>
  BY Facts DEF ReconcileRead, Typed, streamVars, history
<1>3. CASE Leave(p, "idle")
  BY <1>1, <1>2, <1>3, LeaveKeeps DEF Endings
<1>4. CASE branch = job[p].result /\ Goto(p, "reconcileCommitted")
  <2>1. StepOf(p, "reconcileCommitted", job[p]) /\ "reconcileCommitted" \in PC
    BY <1>4, Facts, GotoStep DEF PC, Reconciling
  <2>2. ProcFits("reconcileCommitted", job[p], unit, branch)
    BY <1>1, <1>4, CallFacts, Facts, WholePrefix
    DEF ProcFits, PC, Reconciling, Resting, Cancelling, HasBuilt
  <2>3. Orderly => CallFits("reconcileCommitted", job[p], unit, branch, integratedCommits)
    BY <1>1, CallFacts DEF CallFits, Deciding, Rejecting, Reconciling
  <2> QED BY <1>2, <2>1, <2>2, <2>3, GotoKeeps
<1>5. CASE branch = job[p].base /\ Goto(p, "reconcileNoEffect")
  <2>1. StepOf(p, "reconcileNoEffect", job[p]) /\ "reconcileNoEffect" \in PC
    BY <1>5, Facts, GotoStep DEF PC, Reconciling
  <2>2. ProcFits("reconcileNoEffect", job[p], unit, branch)
    BY <1>1, CallFacts DEF ProcFits, PC, Reconciling, Resting, Cancelling, HasBuilt
  <2>3. Orderly => CallFits("reconcileNoEffect", job[p], unit, branch, integratedCommits)
    BY <1>1, <1>5, CallFacts DEF CallFits, UnitFits, Deciding, Rejecting, Reconciling
  <2> QED BY <1>2, <2>1, <2>2, <2>3, GotoKeeps
<1> QED BY <1>3, <1>4, <1>5 DEF ReconcileRead

LEMMA ReconcileRecordKeeps ==
    ASSUME IInv, NEW p \in Procs, ReconcileRecord(p) PROVE BaseInv' /\ CalmInv'
<1> DEFINE u == job[p].unit
<1>1. /\ pc[p] \in {"reconcileCommitted", "reconcileNoEffect"}
      /\ pc[p] \notin Resting /\ pc[p] # "unlock"
  BY DEF ReconcileRecord, Resting, Cancelling
<1>2. Leave(p, "idle") /\ UNCHANGED <<branch, lease, cancelled, lapsed, repeated, unretained, unfit>>
  BY DEF ReconcileRecord, history
<1>3. CASE UNCHANGED <<unit, poison, integratedCommits>>
  <2>1. Typed'
    BY <1>2, <1>3, Facts DEF Typed
  <2> QED BY <1>1, <1>2, <1>3, <2>1, OverKeeps DEF Endings
<1>4. CASE pc[p] = "reconcileCommitted" /\ RecordCommitted(u, job[p].result)
  <2>1. unretained' \in BOOLEAN
    BY <1>2, Facts DEF Typed
  <2> QED BY <1>2, <1>4, <2>1, CommitKeeps DEF Endings
<1>5. CASE pc[p] = "reconcileNoEffect" /\ RecordRejected(u) /\ UNCHANGED integratedCommits
  <2> DEFINE j == [NoJob EXCEPT !.unit = u, !.then = "idle"]
  <2>1. /\ StepOf(p, "unlock", j) /\ j.unit = u
        /\ \A V, b : ProcFits("unlock", j, V, b)
        /\ \A V, b, n : CallFits("unlock", j, V, b, n)
    BY <1>1, <1>2, OverFits DEF Endings
  <2> HIDE DEF j
  <2>2. Orderly => /\ unit[u].status \in {"formed", "validated"}
                   /\ Recorded(ChangeIn(unit, u), branch, integratedCommits)
    BY <1>1, <1>5, CallFacts DEF CallFits, Deciding, Reconciling, Recorded
  <2> QED BY <1>1, <1>2, <1>5, <2>1, <2>2, RejectionKeeps
<1> QED BY <1>3, <1>4, <1>5 DEF ReconcileRecord

-----------------------------------------------------------------------------
(* The steps that are not of a call: the operator's, and time's.            *)
LEMMA OperatorStep ==
    ASSUME IInv, NEW u \in Units, Typed', UNCHANGED <<branch, integratedCommits, pc, job>>,
           unit' \in [Units -> UnitViews], UnitsOK',
           \A w \in Units : unit[w].source <= unit'[w].source,
           \A w \in Units : w # u => unit'[w] = unit[w],
           Orderly' => /\ Orderly /\ (unfit' \/ ~poison')
                       /\ unit[u].status \notin {"formed", "validated"}
                       /\ UnitFits(u, unit', branch, integratedCommits)
    PROVE  BaseInv' /\ CalmInv'
<1>0. /\ BaseInv /\ TypeOK /\ unit \in [Units -> UnitViews] /\ branch \in Seq(Changes)
      /\ \A p \in Procs : ProcFits(pc[p], job[p], unit, branch)
  BY Facts
<1>1. TypeOK'
  BY <1>0 DEF TypeOK, Typed, UnitsOK, history
<1>2. BranchOK'
  <2>1. ASSUME NEW c \in Range(branch) PROVE c.source <= unit'[c.unit].source
    <3>1. c.source <= unit[c.unit].source /\ c \in Changes
      BY <1>0, PrefixTypes DEF BaseInv, BranchOK
    <3>2. c.unit \in Units /\ c.source \in Nat
      BY <3>1, ChangeTypes
    <3>3. /\ unit[c.unit].source \in Nat /\ unit'[c.unit].source \in Nat
          /\ unit[c.unit].source <= unit'[c.unit].source
      BY <1>0, <3>2, UnitTypes
    <3> QED BY <3>1, <3>2, <3>3
  <2> QED BY <1>0, <2>1 DEF BaseInv, BranchOK
<1>3. ProcsOK'
  <2>1. \A p \in Procs : ProcFits(pc[p], job[p], unit', branch)
    BY <1>0, ProcFitsStays
  <2> QED BY <2>1 DEF ProcsOK
<1>4. ASSUME Orderly' PROVE CalmInv'
  <2>1. /\ Orderly /\ OneCall
        /\ \A w \in Units : UnitFits(w, unit, branch, integratedCommits)
        /\ \A p \in Procs : CallFits(pc[p], job[p], unit, branch, integratedCommits)
    BY <1>4, Facts DEF CalmInv
  <2>2. \A w \in Units : UnitFits(w, unit', branch, integratedCommits)
    <3>1. ASSUME NEW w \in Units, w # u PROVE UnitFits(w, unit', branch, integratedCommits)
      BY <2>1, <3>1, UnitFitsStays
    <3> QED BY <1>4, <3>1
  <2>3. ASSUME NEW p \in Procs
        PROVE  CallFits(pc[p], job[p], unit', branch, integratedCommits)
    <3>1. CallFits(pc[p], job[p], unit, branch, integratedCommits)
      BY <2>1
    <3>2. CASE job[p].unit \notin Units
      BY <1>0, <3>2, IdleFits
    <3>3. CASE job[p].unit \in Units /\ job[p].unit # u
      BY <3>1, <3>3, CallFitsStays
    <3>4. CASE job[p].unit = u
      BY <1>4, <3>1, <3>4 DEF CallFits, Deciding, Reconciling, Rejecting
    <3> QED BY <3>2, <3>3, <3>4
  <2>4. OneCall'
    BY <2>1 DEF OneCall
  <2> QED BY <1>4, <2>2, <2>3, <2>4 DEF CalmInv
<1> QED BY <1>1, <1>2, <1>3, <1>4 DEF BaseInv, CalmInv

LEMMA FormUnitKeeps ==
    ASSUME IInv, NEW u \in Units, FormUnit(u) PROVE BaseInv' /\ CalmInv'
<1> DEFINE view == To(u, "formed")
<1>1. view \in UnitViews /\ view.source = unit[u].source /\ view.status = "formed"
  BY Facts DEF To, UnitViews, Status
<1>2. /\ Record(u, {"absent"}, view) /\ ~poison
      /\ repeated' = (repeated \/ unit[u].status # "absent")
      /\ UNCHANGED <<branch, lease, cancelled, integratedCommits, pc, job, lapsed, unretained, unfit>>
  BY DEF FormUnit, Active, Readable
<1> HIDE DEF view
<1>3. /\ unit' \in [Units -> UnitViews] /\ UnitsOK' /\ poison' \in BOOLEAN
      /\ \A w \in Units : unit[w].source <= unit'[w].source
      /\ \A w \in Units : w # u => unit'[w] = unit[w]
      /\ unit[u].status = "absent" => unit'[u] = view /\ ~poison'
  BY <1>1, <1>2, RecordEffect
<1>4. Typed'
  BY <1>2, <1>3, Facts DEF Typed
<1>5. ASSUME Orderly'
      PROVE  /\ Orderly /\ ~poison' /\ unit[u].status \notin {"formed", "validated"}
             /\ UnitFits(u, unit', branch, integratedCommits)
  <2>1. Orderly /\ unit[u].status = "absent"
    BY <1>2, <1>5, Facts DEF Orderly, Typed
  <2>2. UnitFits(u, unit, branch, integratedCommits)
    BY <2>1, Facts
  <2>3. unit'[u] = view /\ ~poison' /\ ChangeIn(unit', u) = ChangeIn(unit, u)
    BY <1>1, <1>3, <2>1, SameChange
  <2> QED BY <1>1, <2>1, <2>2, <2>3 DEF UnitFits
<1> QED BY <1>2, <1>3, <1>4, <1>5, OperatorStep

\* A decision on a unit that no call is under way for keeps the unit's sources, or
\* replaces them by newer ones.
LEMMA DecideKeeps ==
    ASSUME IInv, NEW u \in Units, NEW from, NEW views, Decide(u, from, views),
           from \notin {"formed", "validated"},
           \A view \in views :
               /\ view \in UnitViews /\ view.status # "validated"
               /\ \/ view.source = unit[u].source
                  \/ /\ view.source = unit[u].source + 1 /\ view.source <= MaxAttempts[u]
                     /\ view.status = "formed"
               /\ view.status \in {"awaiting_approval", "correction_awaiting_approval"}
                      => view.source < MaxAttempts[u]
    PROVE  BaseInv' /\ CalmInv'
<1>1. /\ ~poison /\ unit[u].status = from
      /\ UNCHANGED <<branch, lease, cancelled, integratedCommits, pc, job, lapsed, repeated,
                     unretained>>
      /\ UNCHANGED <<poison, unfit>> \/ Unfit
  BY DEF Decide, Readable
<1>2. Typed' /\ (unfit' \/ ~poison')
  <2>1. Typed
    BY Facts
  <2>2. CASE UNCHANGED <<poison, unfit>>
    BY <1>1, <2>1, <2>2 DEF Typed
  <2>3. CASE poison' = TRUE /\ unfit' = TRUE
    BY <1>1, <2>1, <2>3 DEF Typed
  <2> QED BY <1>1, <2>2, <2>3 DEF Unfit
<1>3. /\ unit \in [Units -> UnitViews] /\ UnitsOK /\ TypeOK /\ branch \in Seq(Changes)
      /\ unit[u].source \in Nat /\ MaxAttempts[u] \in Nat
      /\ Orderly' => Orderly /\ UnitFits(u, unit, branch, integratedCommits)
  BY <1>1, Facts, UnitTypes, AttemptsAssumption DEF Orderly
<1>4. CASE UNCHANGED unit
  <2>1. UnitsOK' /\ \A w \in Units : unit[w].source <= unit'[w].source
    BY <1>3, <1>4, UnitTypes DEF UnitsOK
  <2> QED BY <1>1, <1>2, <1>3, <1>4, <2>1, OperatorStep
<1>5. ASSUME NEW view \in views, unit' = [unit EXCEPT ![u] = view]
      PROVE  BaseInv' /\ CalmInv'
  <2>1. /\ view \in UnitViews /\ unit[u].source <= view.source /\ view.source <= MaxAttempts[u]
        /\ view.status \in {"awaiting_approval", "correction_awaiting_approval"}
               => view.source < MaxAttempts[u]
    BY <1>3 DEF UnitsOK
  <2>2. /\ unit' \in [Units -> UnitViews] /\ unit'[u] = view
        /\ \A w \in Units : w # u => unit'[w] = unit[w]
    BY <1>3, <1>5, <2>1
  <2>3. \A w \in Units : unit[w].source <= unit'[w].source
    <3>1. ASSUME NEW w \in Units, w # u PROVE unit[w].source <= unit'[w].source
      BY <1>3, <2>2, <3>1, UnitTypes
    <3> QED BY <2>1, <2>2, <3>1
  <2>4. UnitsOK'
    BY <1>3, <2>1, <2>2 DEF UnitsOK
  <2>5. ASSUME Orderly' PROVE UnitFits(u, unit', branch, integratedCommits)
    <3>1. Orderly /\ UnitFits(u, unit, branch, integratedCommits)
      BY <1>3, <2>5
    <3>2. CASE view.source = unit[u].source
      <4>1. ChangeIn(unit', u) = ChangeIn(unit, u)
        BY <2>2, <3>2, SameChange
      <4> QED BY <1>1, <1>5, <2>2, <3>1, <4>1 DEF UnitFits
    <3>3. CASE view.source = unit[u].source + 1
      <4>1. \A c \in Range(branch) : c.source <= unit[c.unit].source
        BY Facts DEF BaseInv, BranchOK
      <4>2. ChangeIn(unit', u).unit = u /\ ChangeIn(unit', u).source = unit[u].source + 1
        BY <2>2, <3>3 DEF ChangeIn
      <4>3. ChangeIn(unit', u) \notin Range(branch)
        BY <1>3, <4>1, <4>2
      <4> QED BY <1>5, <2>2, <4>3 DEF UnitFits, Recorded
    <3> QED BY <1>5, <3>2, <3>3
  <2> QED BY <1>1, <1>2, <1>3, <2>2, <2>3, <2>4, <2>5, OperatorStep
<1> QED BY <1>4, <1>5 DEF Decide

LEMMA OperatorKeeps == ASSUME IInv, NEW u \in Units, Operator(u) PROVE BaseInv' /\ CalmInv'
<1>1. /\ unit[u] \in UnitViews /\ unit[u].source \in Nat /\ MaxAttempts[u] \in Nat
      /\ unit[u].status \in {"awaiting_approval", "correction_awaiting_approval"}
             => unit[u].source < MaxAttempts[u]
  BY Facts, UnitTypes, AttemptsAssumption DEF UnitsOK
<1>2. \A status \in Status : /\ To(u, status) \in UnitViews /\ To(u, status).status = status
                             /\ To(u, status).source = unit[u].source
  BY <1>1 DEF To, UnitViews
<1>3. /\ Replacement(u) \in UnitViews /\ Replacement(u).status = "formed"
      /\ Replacement(u).source = unit[u].source + 1
  <2> DEFINE r == To(u, "formed")
  <2>1. /\ r \in UnitViews /\ r.status = "formed" /\ r.source = unit[u].source
        /\ unit[u].source + 1 \in Nat
    BY <1>1, <1>2 DEF Status
  <2>2. Replacement(u) = [r EXCEPT !.source = unit[u].source + 1]
    BY <2>1 DEF Replacement
  <2> HIDE DEF r
  <2> QED BY <2>1, <2>2 DEF UnitViews
<1>4. CASE FormUnit(u)
  BY <1>4, FormUnitKeeps
<1>5. CASE ProposeReplan(u)
  BY <1>1, <1>2, <1>5, DecideKeeps DEF ProposeReplan, Status
<1>6. CASE DecideReplan(u)
  <2>1. unit[u].status = "awaiting_approval"
    BY <1>6 DEF DecideReplan, Decide
  <2> QED BY <1>1, <1>2, <1>3, <1>6, <2>1, DecideKeeps DEF DecideReplan, Status
<1>7. CASE RequestFinalAcceptance(u)
  BY <1>1, <1>2, <1>7, DecideKeeps DEF RequestFinalAcceptance, Status
<1>8. CASE DecideFinalAcceptance(u)
  BY <1>1, <1>2, <1>8, DecideKeeps DEF DecideFinalAcceptance, Status
<1>9. CASE PlanCorrection(u)
  BY <1>1, <1>2, <1>9, DecideKeeps DEF PlanCorrection, Status
<1>10. CASE DecideCorrection(u)
  <2>1. unit[u].status = "correction_awaiting_approval"
    BY <1>10 DEF DecideCorrection, Decide
  <2> QED BY <1>1, <1>2, <1>3, <1>10, <2>1, DecideKeeps DEF DecideCorrection, Status
<1> QED BY <1>4, <1>5, <1>6, <1>7, <1>8, <1>9, <1>10 DEF Operator

LEMMA LeaseElapsesKeeps == ASSUME IInv, LeaseElapses PROVE IInv'
<1>1. /\ Typed' /\ (lapsed => lapsed')
      /\ UNCHANGED <<branch, unit, cancelled, integratedCommits, poison, pc, job,
                     repeated, unretained, unfit>>
      /\ (Orderly' <=> Orderly)
  BY Facts DEF LeaseElapses, Typed, streamVars, Orderly
<1>2. BaseInv'
  BY <1>1, Facts DEF BaseInv, TypeOK, Typed, UnitsOK, BranchOK, ProcsOK, history
<1>3. CalmInv'
  BY <1>1, Facts DEF CalmInv, OneCall
<1>4. LeaseInv'
  <2>1. SUFFICES ASSUME ~lapsed'
                 PROVE  /\ \A p \in Procs : pc[p] \notin Critical
                        /\ cancelled => \A p \in Procs : pc[p] # "swap"
    BY <1>1 DEF LeaseInv
  <2>2. ~lapsed /\ lease.owner = NoProc
    BY <2>1 DEF LeaseElapses
  <2> QED BY <2>2, NoProcAssumption DEF IInv, LeaseInv, Held
<1> QED BY <1>2, <1>3, <1>4 DEF IInv

-----------------------------------------------------------------------------
(* The lease: a step of one process into, in, or out of its critical section.*)
LEMMA LeaseStep ==
    ASSUME IInv, NEW p \in Procs, NEW l, pc'[p] = l, \A q \in Others(p) : pc'[q] = pc[q],
           lapsed' = lapsed,
           \/ lease' = lease /\ (l \in Critical => pc[p] \in Critical)
           \/ Acquire(p)
           \/ lease.owner = p /\ l \notin Critical,
           l = "swap" => ~cancelled',
           cancelled' = cancelled \/ pc[p] = "cancelAppend"
    PROVE  LeaseInv'
<1>1. SUFFICES ASSUME ~lapsed' PROVE LeaseInv'
  BY DEF LeaseInv
<1>2. ~lapsed /\ \A q \in Procs : pc[q] \in Critical => Held(q)
  BY <1>1 DEF IInv, LeaseInv
<1>3. ASSUME NEW q \in Procs, pc'[q] \in Critical PROVE Held(q)'
  <2>1. CASE lease' = lease /\ (l \in Critical => pc[p] \in Critical)
    BY <1>2, <1>3, <2>1 DEF Held, Others
  <2>2. CASE Acquire(p)
    BY <1>2, <1>3, <2>2 DEF Held, Others, Acquire
  <2>3. CASE lease.owner = p /\ l \notin Critical
    BY <1>2, <1>3, <2>3 DEF Held, Others
  <2> QED BY <2>1, <2>2, <2>3
<1>4. ASSUME cancelled', NEW q \in Procs PROVE pc'[q] # "swap"
  <2>1. CASE q = p
    BY <1>4, <2>1
  <2>2. CASE q # p /\ cancelled' = cancelled
    BY <1>2, <1>4, <2>2 DEF IInv, LeaseInv, Others
  <2>3. CASE q # p /\ pc[p] = "cancelAppend"
    <3>1. Held(p)
      BY <1>2, <2>3 DEF Critical
    <3>2. pc[q] # "swap"
      BY <1>2, <2>3, <3>1 DEF Held, Critical
    <3> QED BY <2>3, <3>2 DEF Others
  <2> QED BY <2>1, <2>2, <2>3
<1> QED BY <1>3, <1>4 DEF LeaseInv

LEMMA Places ==
    ASSUME IInv, NEW p \in Procs, NEW l
    PROVE  /\ Goto(p, l) \/ pc' = [pc EXCEPT ![p] = l] => pc'[p] = l
           /\ Done(p) => pc'[p] = "idle"
           /\ \A then : Leave(p, then) => pc'[p] = "unlock"
           /\ Goto(p, l) \/ Done(p) \/ (\E then : Leave(p, then)) \/ pc' = [pc EXCEPT ![p] = l]
                  => \A q \in Others(p) : pc'[q] = pc[q]
<1>1. pc \in [Procs -> PC]
  BY Facts
<1> QED BY <1>1 DEF Goto, Done, Leave, Others

LEMMA IntegrateKeepsLease ==
    ASSUME IInv, NEW p \in Procs, IntegrateStep(p) PROVE LeaseInv'
<1>1. CASE Analyze(p)
  <2>1. PICK l \in {"idle", "enter"} : pc'[p] = l
    BY <1>1, Places DEF Analyze
  <2>2. \A q \in Others(p) : pc'[q] = pc[q]
    BY <1>1, Places DEF Analyze
  <2>3. UNCHANGED <<lease, lapsed, cancelled>>
    BY <1>1 DEF Analyze, streamVars, history
  <2> QED BY <2>1, <2>2, <2>3, LeaseStep DEF Critical
<1>2. CASE Enter(p)
  <2>1. \A q \in Others(p) : pc'[q] = pc[q]
    BY <1>2, Places DEF Enter
  <2>2. \/ Acquire(p) /\ pc'[p] = "build"
        \/ UNCHANGED lease /\ pc'[p] = "rejectUnlessValidated"
    BY <1>2, Places DEF Enter
  <2>3. UNCHANGED <<lapsed, cancelled>>
    BY <1>2 DEF Enter, streamVars, history
  <2> QED BY <2>1, <2>2, <2>3, LeaseStep DEF Critical
<1>3. CASE Build(p) \/ Prepare(p) \/ Swap(p) \/ Observe(p) \/ Evidence(p)
  <2>1. PICK l \in {"prepare", "guard", "evidence", "observe", "unlock"} : pc'[p] = l
    BY <1>3, Places DEF Build, Prepare, Swap, Observe, Evidence, Receipt, Error
  <2>2. \A q \in Others(p) : pc'[q] = pc[q]
    BY <1>3, Places DEF Build, Prepare, Swap, Observe, Evidence, Receipt, Error
  <2>3. UNCHANGED <<lease, lapsed, cancelled>> /\ pc[p] \in Critical
    BY <1>3 DEF Build, Prepare, Swap, Observe, Evidence, streamVars, history, Critical
  <2> QED BY <2>1, <2>2, <2>3, LeaseStep
<1>4. CASE Guard(p)
  <2>1. \A q \in Others(p) : pc'[q] = pc[q]
    BY <1>4, Places DEF Guard, Receipt, Error
  <2>2. pc'[p] = "unlock" \/ (pc'[p] = "swap" /\ ~cancelled)
    BY <1>4, Places DEF Guard, Receipt, Error, Active
  <2>3. UNCHANGED <<lease, lapsed, cancelled>> /\ pc[p] \in Critical
    BY <1>4 DEF Guard, streamVars, history, Critical
  <2> QED BY <2>1, <2>2, <2>3, LeaseStep
<1>5. CASE Unlock(p)
  <2>1. \A q \in Others(p) : pc'[q] = pc[q]
    BY <1>5, Places DEF Unlock
  <2>2. pc'[p] \in Endings
    <3>1. job[p].then \in Endings
      BY <1>5, Facts DEF Unlock, ProcFits
    <3> QED BY <1>5, <3>1, Places DEF Unlock, Endings
  <2>3. UNCHANGED <<lapsed, cancelled>> /\ (lease' = lease \/ lease.owner = p)
    BY <1>5 DEF Unlock, Release, streamVars, history
  <2> QED BY <2>1, <2>2, <2>3, LeaseStep DEF Endings, Critical
<1>6. CASE Reject(p)
  <2>1. pc'[p] = "idle" /\ \A q \in Others(p) : pc'[q] = pc[q]
    BY <1>6, Places DEF Reject
  <2>2. UNCHANGED <<lease, lapsed, cancelled>>
    BY <1>6 DEF Reject, history
  <2> QED BY <2>1, <2>2, LeaseStep DEF Critical
<1> QED BY <1>1, <1>2, <1>3, <1>4, <1>5, <1>6 DEF IntegrateStep

LEMMA OtherKeepsLease ==
    ASSUME IInv, NEW p \in Procs, OtherStep(p) \/ Cancel(p) \/ Crash(p) PROVE LeaseInv'
<1>1. CASE ReconcileEnter(p) \/ CancelEnter(p)
  <2>1. \A q \in Others(p) : pc'[q] = pc[q]
    BY <1>1, Places DEF ReconcileEnter, CancelEnter
  <2>2. \/ Acquire(p) /\ pc'[p] \in {"reconcileRead", "cancelAppend"}
        \/ UNCHANGED lease /\ pc'[p] = "idle"
    BY <1>1, Places DEF ReconcileEnter, CancelEnter
  <2>3. UNCHANGED <<lapsed, cancelled>>
    BY <1>1 DEF ReconcileEnter, CancelEnter, streamVars, history
  <2> QED BY <2>1, <2>2, <2>3, LeaseStep DEF Critical
<1>2. CASE ReconcileRead(p) \/ ReconcileRecord(p)
  <2>1. PICK l \in {"reconcileCommitted", "reconcileNoEffect", "unlock"} : pc'[p] = l
    BY <1>2, Places DEF ReconcileRead, ReconcileRecord
  <2>2. \A q \in Others(p) : pc'[q] = pc[q]
    BY <1>2, Places DEF ReconcileRead, ReconcileRecord
  <2>3. UNCHANGED <<lease, lapsed, cancelled>> /\ pc[p] \in Critical
    BY <1>2 DEF ReconcileRead, ReconcileRecord, streamVars, history, Critical
  <2> QED BY <2>1, <2>2, <2>3, LeaseStep
<1>3. CASE CancelAppend(p)
  <2>1. pc'[p] = "unlock" /\ \A q \in Others(p) : pc'[q] = pc[q]
    BY <1>3, Places DEF CancelAppend
  <2>2. UNCHANGED <<lease, lapsed>> /\ pc[p] = "cancelAppend"
    BY <1>3 DEF CancelAppend, history
  <2> QED BY <2>1, <2>2, LeaseStep DEF Critical
<1>4. CASE Cancel(p) \/ Crash(p)
  <2>1. PICK l \in {"idle", "cancelEnter"} : pc'[p] = l
    BY <1>4, Places DEF Cancel, Crash
  <2>2. \A q \in Others(p) : pc'[q] = pc[q]
    BY <1>4, Places DEF Cancel, Crash
  <2>3. UNCHANGED <<lapsed, cancelled>> /\ (lease' = lease \/ lease.owner = p)
    BY <1>4 DEF Cancel, Crash, Held, streamVars, history
  <2> QED BY <2>1, <2>2, <2>3, LeaseStep DEF Critical
<1> QED BY <1>1, <1>2, <1>3, <1>4 DEF OtherStep

LEMMA CallBeginsOutside ==
    ASSUME IInv, NEW p \in Procs, NEW u \in Units, Integrate(p, u) \/ Reconcile(p, u)
    PROVE  LeaseInv'
<1>1. PICK l \in {"analyze", "reconcileEnter"} : pc'[p] = l
  BY Facts DEF Integrate, Reconcile, Begin
<1>2. \A q \in Others(p) : pc'[q] = pc[q]
  BY Facts DEF Integrate, Reconcile, Begin, Others
<1>3. UNCHANGED <<lease, lapsed, cancelled>>
  BY DEF Integrate, Reconcile, streamVars
<1> QED BY <1>1, <1>2, <1>3, LeaseStep DEF Critical

LEMMA OperatorKeepsLease == ASSUME IInv, NEW u \in Units, Operator(u) PROVE LeaseInv'
<1>1. UNCHANGED <<lease, lapsed, cancelled, pc>>
  BY DEF Operator, FormUnit, ProposeReplan, DecideReplan, RequestFinalAcceptance,
     DecideFinalAcceptance, PlanCorrection, DecideCorrection, Decide, history
<1> QED BY <1>1 DEF IInv, LeaseInv, Held

-----------------------------------------------------------------------------
(* The invariant.                                                          *)
LEMMA InitIInv == Init => IInv
<1> SUFFICES ASSUME Init PROVE IInv
  OBVIOUS
<1>1. /\ <<>> \in Commits /\ Range(<<>>) = {} /\ NoJob \in Jobs /\ NoJob.unit = NoUnit
  BY EmptySeq DEF Commits, NoJob, Jobs, PC, Range
<1>2. \A u \in Units : /\ unit[u] = [status |-> "absent", source |-> 0, expected |-> <<>>, result |-> <<>>]
                       /\ unit[u].status = "absent" /\ unit[u].source = 0
  BY DEF Init
<1>3. unit \in [Units -> UnitViews]
  BY <1>1 DEF Init, UnitViews, Status
<1>4. \A p \in Procs : pc[p] = "idle" /\ job[p] = NoJob
  BY DEF Init
<1>5. TypeOK
  <2>1. pc \in [Procs -> PC] /\ job \in [Procs -> Jobs]
    BY <1>1 DEF Init, PC
  <2>2. \A u \in Units : unit[u].source <= MaxAttempts[u]
    BY <1>2, AttemptsAssumption
  <2> QED BY <1>1, <1>3, <2>1, <2>2 DEF Init, TypeOK, history
<1>6. UnitsOK
  BY <1>2, AttemptsAssumption DEF UnitsOK
<1>7. BranchOK
  BY <1>1 DEF BranchOK, Init
<1>8. ProcsOK
  BY <1>4, RestFits DEF ProcsOK
<1>9. CalmInv
  <2>1. \A u \in Units : UnitFits(u, unit, branch, integratedCommits)
    BY <1>1, <1>2 DEF UnitFits, Recorded, Init
  <2>2. OneCall
    BY <1>1, <1>4 DEF OneCall
  <2> QED BY <1>4, <2>1, <2>2, RestFits DEF CalmInv, Init
<1>10. LeaseInv
  BY <1>4 DEF LeaseInv, Critical
<1> QED BY <1>5, <1>6, <1>7, <1>8, <1>9, <1>10 DEF IInv, BaseInv

LEMMA NextIInv == IInv /\ [Next]_vars => IInv'
<1> SUFFICES ASSUME IInv, [Next]_vars PROVE IInv'
  OBVIOUS
<1>1. CASE LeaseElapses
  BY <1>1, LeaseElapsesKeeps
<1>2. ASSUME NEW u \in Units, Operator(u) PROVE IInv'
  BY <1>2, OperatorKeeps, OperatorKeepsLease DEF IInv
<1>3. ASSUME NEW u \in Units, NEW p \in Procs, Integrate(p, u) \/ Reconcile(p, u) PROVE IInv'
  BY <1>3, IntegrateKeeps, ReconcileKeeps, CallBeginsOutside DEF IInv
<1>4. ASSUME NEW p \in Procs, IntegrateStep(p) PROVE IInv'
  <2>1. BaseInv' /\ CalmInv'
    BY <1>4, AnalyzeKeeps, EnterKeeps, BuildKeeps, PrepareKeeps, GuardKeeps, SwapKeeps,
       ObserveKeeps, EvidenceKeeps, UnlockKeeps, RejectKeeps DEF IntegrateStep
  <2> QED BY <1>4, <2>1, IntegrateKeepsLease DEF IInv
<1>5. ASSUME NEW p \in Procs, OtherStep(p) \/ Cancel(p) \/ Crash(p) PROVE IInv'
  <2>1. BaseInv' /\ CalmInv'
    BY <1>5, ReconcileEnterKeeps, ReconcileReadKeeps, ReconcileRecordKeeps, CancelKeeps,
       CrashKeeps DEF OtherStep
  <2> QED BY <1>5, <2>1, OtherKeepsLease DEF IInv
<1>6. CASE UNCHANGED vars
  <2>1. /\ UNCHANGED <<branch, lease, unit, cancelled, integratedCommits, poison, pc, job,
                       lapsed, repeated, unretained, unfit>>
    BY <1>6 DEF vars, streamVars, history
  <2>2. BaseInv'
    BY <2>1 DEF IInv, BaseInv, TypeOK, UnitsOK, BranchOK, ProcsOK, history
  <2>3. CalmInv' /\ LeaseInv'
    BY <2>1 DEF IInv, CalmInv, LeaseInv, Orderly, OneCall, Held
  <2> QED BY <2>2, <2>3 DEF IInv
<1> QED BY <1>1, <1>2, <1>3, <1>4, <1>5, <1>6 DEF Next

(* RepositoryOrchestrator, IntegrationQueue and IntegrationLeaseStore keep   *)
(* the three invariants that carry the properties: where each call is fits   *)
(* the branch, the stream and the lease at every step of the others.         *)
THEOREM IntegrationInvariance == Spec => []IInv
<1> QED BY InitIInv, NextIInv, PTL DEF Spec

(* What RepositoryOrchestrator projects, and what each call works with, has  *)
(* its type after every step, for any processes, units and replacements.     *)
THEOREM IntegrationTypesHold == Spec => []TypeOK
<1>1. IInv => TypeOK
  BY DEF IInv, BaseInv
<1> QED BY <1>1, IntegrationInvariance, PTL

(* The repository stream stays readable (RepositoryOrchestrator, appendMany):*)
(* no crash, uncertain update-ref, cancellation or elapsed lease makes it    *)
(* append an event that its own projection rejects.  It is unreadable only   *)
(* after a call was made of a unit that is done or under way, a candidate    *)
(* was left behind without a record, or an operator's replan, correction,    *)
(* decision or cancellation carried what only the projection refuses.        *)
THEOREM StreamStaysReadable == Spec => []ReadableStream
<1>1. IInv => ReadableStream
  BY DEF IInv, CalmInv, ReadableStream
<1> QED BY <1>1, IntegrationInvariance, PTL

(* What the branch holds of a unit that the journal rejects, has in conflict *)
(* or forms anew was recorded as integrated before (integrate and            *)
(* reconcileIntegration settle a candidate by what the ref says).            *)
THEOREM RejectionsNeverLand == Spec => []RejectedNeverLands
<1>1. ASSUME IInv PROVE RejectedNeverLands
  <2>1. SUFFICES ASSUME Orderly, NEW u \in Units,
                        unit[u].status \in {"formed", "rejected", "conflicted", "awaiting_approval"},
                        Change(u) \in Range(branch)
                 PROVE  \E commit \in integratedCommits : Change(u) \in Range(commit)
    BY DEF RejectedNeverLands
  <2>2. UnitFits(u, unit, branch, integratedCommits) /\ Change(u) = ChangeIn(unit, u)
    BY <1>1, <2>1, Facts, ChangeOfUnit
  <2> QED BY <2>1, <2>2 DEF UnitFits, Recorded
<1> QED BY <1>1, IntegrationInvariance, PTL

LEMMA OnlySwapMoves ==
    ASSUME Next, ~(branch' = branch)
    PROVE  \E p \in Procs : Swap(p)
BY DEF Next, LeaseElapses, Operator, FormUnit, ProposeReplan, DecideReplan,
   RequestFinalAcceptance, DecideFinalAcceptance, PlanCorrection, DecideCorrection, Decide,
   Integrate, Reconcile, IntegrateStep, Analyze, Enter, Build, Prepare, Guard, Observe, Evidence,
   Unlock, Reject, OtherStep, ReconcileEnter, ReconcileRead, ReconcileRecord, CancelEnter,
   CancelAppend, Cancel, Crash

(* Once a cancellation is durable the integration ref never moves again, as  *)
(* long as no lease elapses while its owner lives: a cancellation waits for  *)
(* the lease that update-ref needs (serializeRepositoryCancellation).        *)
THEOREM CancellationsAreFinal == Spec => CancelledIsFinal
<1>1. ASSUME IInv, [Next]_vars PROVE cancelled /\ ~lapsed => branch' = branch
  <2>1. SUFFICES ASSUME cancelled, ~lapsed, ~(branch' = branch) PROVE FALSE
    OBVIOUS
  <2>2. PICK p \in Procs : Swap(p)
    BY <1>1, <2>1, OnlySwapMoves DEF vars
  <2>3. pc[p] # "swap"
    BY <1>1, <2>1 DEF IInv, LeaseInv
  <2> QED BY <2>2, <2>3 DEF Swap
<1>2. IInv /\ [Next]_vars => [cancelled /\ ~lapsed => branch' = branch]_vars
  BY <1>1
<1> QED BY <1>2, IntegrationInvariance, PTL DEF Spec, CancelledIsFinal

-----------------------------------------------------------------------------
(* The abstract specification.                                             *)
LEMMA OnlyCommitsRecord ==
    ASSUME Next, ~(integratedCommits' = integratedCommits)
    PROVE  \E p \in Procs : /\ pc[p] \in {"evidence", "reconcileCommitted"}
                            /\ RecordCommitted(job[p].unit, job[p].result)
                            /\ UNCHANGED branch
<1>1. PICK p \in Procs : Evidence(p) \/ ReconcileRecord(p)
  BY DEF Next, LeaseElapses, Operator, FormUnit, ProposeReplan, DecideReplan,
     RequestFinalAcceptance, DecideFinalAcceptance, PlanCorrection, DecideCorrection, Decide,
     Integrate, Reconcile, IntegrateStep, Analyze, Enter, Build, Prepare, Guard, Swap, Observe,
     Unlock, Reject, OtherStep, ReconcileEnter, ReconcileRead, CancelEnter,
     CancelAppend, Cancel, Crash, streamVars
<1>2. CASE Evidence(p)
  BY <1>2 DEF Evidence
<1>3. CASE ReconcileRecord(p)
  BY <1>3 DEF ReconcileRecord
<1> QED BY <1>1, <1>2, <1>3

LEMMA SwapLands ==
    ASSUME IInv, NEW p \in Procs, Swap(p), ~(branch' = branch)
    PROVE  /\ \E c \in Changes : c \notin Range(branch) /\ branch' = Append(branch, c)
           /\ UNCHANGED integratedCommits
<1>1. branch = job[p].base /\ branch' = job[p].result /\ pc[p] = "swap"
  BY DEF Swap
<1>2. Candidate(job[p], unit)
  BY <1>1, Facts DEF ProcFits, HasBuilt
<1> QED BY <1>1, <1>2 DEF Candidate, Swap, streamVars

(* Whatever lapses, is repeated or is lost, the branch grows by one new      *)
(* change at a time and what is recorded as integrated is part of it         *)
(* (IntegrationQueue's compare-and-swap of the ref, and the commit that      *)
(* onCommitted and reconcileIntegration record): RepositoryIntegration       *)
(* implements IntegrationBranch.                                             *)
THEOREM IntegrationImplementsBranch == Spec => ImplementsIntegrationBranch
<1>1. Init => Serial!Init
  BY DEF Init, Serial!Init
<1>2. ASSUME IInv, [Next]_vars PROVE [Serial!Next]_(Serial!vars)
  <2>1. SUFFICES ASSUME ~(branch' = branch /\ integratedCommits' = integratedCommits)
                 PROVE  Serial!Next
    BY DEF Serial!vars
  <2>2. Next
    BY <1>2, <2>1 DEF vars, streamVars
  <2>3. CASE ~(branch' = branch)
    <3>1. PICK p \in Procs : Swap(p)
      BY <2>2, <2>3, OnlySwapMoves
    <3>2. /\ \E c \in Changes : c \notin Range(branch) /\ branch' = Append(branch, c)
          /\ UNCHANGED integratedCommits
      BY <1>2, <2>3, <3>1, SwapLands
    <3> QED BY <3>2 DEF Serial!Next, Serial!Land, Serial!Range, Range
  <2>4. CASE branch' = branch
    <3>1. PICK p \in Procs : /\ pc[p] \in {"evidence", "reconcileCommitted"}
                             /\ RecordCommitted(job[p].unit, job[p].result)
      BY <2>1, <2>2, <2>4, OnlyCommitsRecord
    <3>2. job[p].result \in Prefixes(branch)
      BY <1>2, <3>1, Facts DEF ProcFits
    <3>3. integratedCommits' = integratedCommits \cup {job[p].result}
      BY <2>1, <2>4, <3>1 DEF RecordCommitted
    <3> QED BY <2>4, <3>2, <3>3 DEF Serial!Next, Serial!Record, Serial!Prefixes, Prefixes
  <2> QED BY <2>3, <2>4
<1> QED BY <1>1, <1>2, IntegrationInvariance, PTL DEF Spec, ImplementsIntegrationBranch, Serial!Spec

-----------------------------------------------------------------------------
(* What the branch and the record show by themselves.                      *)
BranchOnly == /\ branch \in Seq(Changes)
              /\ integratedCommits \subseteq Prefixes(branch)
              /\ \A i, k \in DOMAIN branch : branch[i] = branch[k] => i = k

LEMMA LandingKeepsBranch ==
    ASSUME BranchOnly, NEW c \in Changes, c \notin Range(branch), branch' = Append(branch, c),
           integratedCommits' = integratedCommits
    PROVE  BranchOnly'
<1> DEFINE n == Len(branch)
<1>1. /\ branch \in Seq(Changes) /\ n \in Nat /\ DOMAIN branch = 1..n
      /\ branch' \in Seq(Changes) /\ Prefixes(branch) \subseteq Prefixes(branch')
  BY Appended, LenProperties DEF BranchOnly
<1>2. /\ DOMAIN branch' = 1..n + 1 /\ branch'[n + 1] = c
      /\ \A i \in 1..n : branch'[i] = branch[i]
  BY <1>1, AppendProperties, LenProperties
<1>3. \A i \in 1..n : branch[i] # c
  BY <1>1 DEF Range
<1> HIDE DEF n
<1>4. \A i \in 1..n + 1 : i \in 1..n \/ i = n + 1
  BY <1>1
<1>5. \A i, k \in 1..n : branch[i] = branch[k] => i = k
  BY <1>1 DEF BranchOnly
<1>6. \A i, k \in 1..n + 1 : branch'[i] = branch'[k] => i = k
  BY <1>2, <1>3, <1>4, <1>5
<1> QED BY <1>1, <1>2, <1>6 DEF BranchOnly

(* What implements IntegrationBranch never lands a change twice, and keeps   *)
(* every commit that is recorded as integrated as a prefix of the branch.    *)
THEOREM LandsOnce == Serial!Spec => []BranchOnly
<1>1. Serial!Init => BranchOnly
  BY EmptySeq DEF Serial!Init, BranchOnly
<1>2. ASSUME BranchOnly, [Serial!Next]_(Serial!vars) PROVE BranchOnly'
  <2>1. CASE Serial!Land
    <3>1. PICK c \in Changes : c \notin Range(branch) /\ branch' = Append(branch, c)
      BY <2>1 DEF Serial!Land, Serial!Range, Range
    <3>2. integratedCommits' = integratedCommits
      BY <2>1 DEF Serial!Land
    <3> QED BY <1>2, <3>1, <3>2, LandingKeepsBranch
  <2>2. CASE Serial!Record
    BY <1>2, <2>2 DEF Serial!Record, Serial!Prefixes, Prefixes, BranchOnly
  <2>3. CASE UNCHANGED Serial!vars
    BY <1>2, <2>3 DEF Serial!vars, BranchOnly
  <2> QED BY <1>2, <2>1, <2>2, <2>3 DEF Serial!Next
<1> QED BY <1>1, <1>2, PTL DEF Serial!Spec

(* So does the integration of a repository, for any processes and units: a   *)
(* retry, a replacement or a correction never lands a change a second time.  *)
THEOREM IntegrationLandsOnce == Spec => []BranchOnly
BY LandsOnce, IntegrationImplementsBranch, PTL DEF ImplementsIntegrationBranch
=============================================================================
