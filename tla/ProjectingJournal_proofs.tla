---------------------- MODULE ProjectingJournal_proofs ----------------------
(***************************************************************************)
(* The projected file is the history of the journal, whoever crashed where;*)
(* an append returns with its events projected; and a projection that has  *)
(* the journal to itself fails only over a trace without its cursor: for   *)
(* any number of processes, events and events of a page.                   *)
(***************************************************************************)
EXTENDS ProjectingJournal, TLAPS, FiniteSetTheorems, SequenceTheorems, WellFoundedInduction

-----------------------------------------------------------------------------
(* The inductive invariant.                                                *)

Constructing == {"ensure", "inspectCursor", "inspectClaim", "recoverAtStart"}
Draining == {"drain", "recover", "reconcile", "claim", "append", "write", "commit"}
Writing  == {"append", "write", "commit"}

\* Places where a process holds the active claim, and where it does not.
Delivering(p) ==
    \/ pc[p] \in {"reconcile", "append", "write", "commit"}
    \/ pc[p] = "history" /\ seen[p] # NoClaim
Bystander(p) ==
    \/ pc[p] \in Constructing \cup {"out", "drain", "recover", "claim"}
    \/ pc[p] = "history" /\ seen[p] = NoClaim
    \/ pc[p] = "idle" /\ ~failed[p]

\* The active claim starts at the cursor; an incomplete line is the claim's next event.
ClaimOK ==
    /\ position <= head
    /\ claim # NoClaim =>
           /\ claim.by \in Procs /\ claim.after = position
           /\ position < claim.through /\ claim.through <= head
    /\ torn # 0 => claim # NoClaim /\ torn = Len(file) + 1 /\ torn <= claim.through

HolderOK(p) ==
    /\ Delivering(p) => claim = seen[p] /\ claim.by = p
    /\ Bystander(p) => claim.by # p
    /\ pc[p] \in Writing => torn = 0

\* What a process remembers of the file is in the file.
SinkOK(p) ==
    /\ sink[p].last <= Len(file)
    /\ pc[p] # "write" => sink[p].delivered \subseteq 1..Len(file)
    /\ pc[p] = "write" => sink[p].delivered \subseteq 1..claim.through
    /\ pc[p] = "append" => \A n \in Claimed(p) : n <= Len(file) => n \in sink[p].delivered
    /\ pc[p] \in Draining => sink[p].torn = 0
    /\ pc[p] = "idle" /\ ~failed[p] => sink[p].torn = 0

\* What it has still to write is the rest of its claim.
TodoOK(p) ==
    /\ pc[p] = "write" => /\ Len(file) < claim.through
                          /\ Len(todo[p]) = claim.through - Len(file)
                          /\ \A n \in 1..Len(todo[p]) : todo[p][n] = Len(file) + n
    /\ pc[p] = "commit" => Len(file) = claim.through

OwnOK(p) == /\ own[p] <= head
            /\ pc[p] = "idle" /\ ~failed[p] => own[p] <= position

ProcessOK(p) == HolderOK(p) /\ SinkOK(p) /\ TodoOK(p) /\ OwnOK(p)

IInv == TypeOK /\ FileIsHistory /\ ClaimOK /\ \A p \in Procs : ProcessOK(p)

\* What the only running process has read is still so.
UpToDate(p) ==
    /\ pc[p] \in Constructing \cup {"history"} => sink[p].torn = torn
    /\ pc[p] \in {"inspectClaim", "recoverAtStart", "history"} => cursor[p] = position
    /\ pc[p] \in {"recoverAtStart", "history"} => seen[p] = claim
    /\ pc[p] = "recoverAtStart" => claim # NoClaim
    /\ pc[p] \in {"idle", "drain", "claim"} => claim = NoClaim
    /\ pc[p] \notin {"recover", "reconcile"}
AloneInv ==
    ~disturbed =>
        /\ \A p, q \in Procs : Running(p) /\ Running(q) => p = q
        /\ \A p \in Procs : UpToDate(p)
        /\ \A p \in Procs : failed[p] =>
               created /\ ~exists /\ \A q \in Procs : ~Running(q)

-----------------------------------------------------------------------------
(* The numbers of an interval in order.                                    *)
LEMMA LeastNumber ==
    ASSUME NEW S \in SUBSET Nat, S # {}
    PROVE  \E m \in S : \A k \in S : m <= k
<1> DEFINE R == {ab \in Nat \X Nat : ab[1] < ab[2]}
<1>1. IsWellFoundedOn(R, Nat)
  BY NatLessThanWellFounded DEF OpToRel
<1>2. PICK m \in S : \A k \in S : ~(<<k, m>> \in R)
  <2> HIDE DEF R
  <2> QED BY <1>1, WFMin
<1>3. \A k \in S : ~(k < m)
  BY <1>2
<1> QED BY <1>3

LEMMA IncreasingOnto ==
    ASSUME NEW m \in Nat, NEW c \in Nat, NEW s \in [1..c -> (m + 1)..(m + c)],
           \A i, j \in 1..c : i < j => s[i] < s[j]
    PROVE  \A k \in 1..c : s[k] = m + k
<1>0. \A k \in 1..c : s[k] \in Int /\ m + 1 <= s[k] /\ s[k] <= m + c
  OBVIOUS
<1>1. \A k \in 1..c : ~(s[k] < m + k)
  <2> DEFINE S == {k \in 1..c : s[k] < m + k}
  <2>1. SUFFICES ASSUME S # {} PROVE FALSE
    OBVIOUS
  <2>2. PICK k \in S : \A j \in S : k <= j
    <3>1. S \in SUBSET Nat
      OBVIOUS
    <3> HIDE DEF S
    <3> QED BY <2>1, <3>1, LeastNumber
  <2>3. k \in 1..c /\ s[k] < m + k /\ k # 1
    BY <1>0
  <2>4. k - 1 \in 1..c /\ s[k - 1] < s[k]
    BY <2>3
  <2>5. k - 1 \in S
    BY <1>0, <2>3, <2>4
  <2> QED BY <2>2, <2>3, <2>5
<1>2. \A k \in 1..c : ~(s[k] > m + k)
  <2> DEFINE S == {d \in 0..c : \E k \in 1..c : d = c - k /\ s[k] > m + k}
  <2>1. SUFFICES ASSUME NEW i \in 1..c, s[i] > m + i PROVE FALSE
    OBVIOUS
  <2>2. S \in SUBSET Nat /\ c - i \in S
    BY <2>1
  <2>3. PICK d \in S : \A e \in S : d <= e
    <3> HIDE DEF S
    <3> QED BY <2>2, LeastNumber
  <2>4. PICK k \in 1..c : d = c - k /\ s[k] > m + k
    OBVIOUS
  <2>5. k # c
    BY <1>0, <2>4
  <2>6. k + 1 \in 1..c /\ s[k] < s[k + 1]
    BY <2>5
  <2>7. s[k + 1] > m + (k + 1)
    BY <1>0, <2>4, <2>6
  <2>8. c - (k + 1) \in S
    BY <2>6, <2>7
  <2>9. d <= c - (k + 1)
    <3> HIDE DEF S
    <3> QED BY <2>3, <2>8
  <2> QED BY <2>4, <2>9
<1> QED BY <1>0, <1>1, <1>2

LEMMA InOrderInterval ==
    ASSUME NEW m \in Nat, NEW c \in Nat
    PROVE  InOrder((m + 1)..(m + c)) = [k \in 1..c |-> m + k]
<1> DEFINE S == (m + 1)..(m + c)
           Fits(s) == \A i, j \in DOMAIN s : i < j => s[i] < s[j]
           f == [k \in 1..c |-> m + k]
           s == CHOOSE t \in [1..c -> S] : Fits(t)
<1>1. Cardinality(S) = c
  BY FS_Interval
<1>2. f \in [1..c -> S] /\ Fits(f)
  OBVIOUS
<1>3. s \in [1..c -> S] /\ Fits(s)
  <2> HIDE DEF f, Fits, S
  <2> QED BY <1>2
<1>4. \A k \in 1..c : s[k] = m + k
  <2> HIDE DEF s
  <2> QED BY <1>3, IncreasingOnto
<1>5. s = f
  <2> HIDE DEF s
  <2> QED BY <1>3, <1>4
<1> QED BY <1>1, <1>5 DEF InOrder

-----------------------------------------------------------------------------
(* Frames.                                                                 *)

LEMMA TypesOf ==
    ASSUME TypeOK, NEW p \in Procs
    PROVE  /\ head \in Nat /\ position \in Nat /\ Len(file) \in Nat /\ torn \in Nat
           /\ claim \in Claims /\ claim.after \in Nat /\ claim.through \in Nat
           /\ seen[p] \in Claims /\ seen[p].after \in Nat /\ seen[p].through \in Nat
           /\ sink[p].last \in Nat /\ sink[p].delivered \subseteq Nat /\ sink[p].torn \in Nat
           /\ cursor[p] \in Nat /\ own[p] \in Nat /\ todo[p] \in Seq(Nat)
<1>1. sink[p] \in [last : Nat, delivered : SUBSET Nat, torn : Nat] /\ seen[p] \in Claims
  BY DEF TypeOK
<1>2. /\ sink[p].last \in Nat /\ sink[p].delivered \subseteq Nat /\ sink[p].torn \in Nat
      /\ seen[p].after \in Nat /\ seen[p].through \in Nat
  BY <1>1 DEF Claims
<1>3. claim.after \in Nat /\ claim.through \in Nat
  BY DEF TypeOK, Claims
<1>4. cursor[p] \in Nat /\ own[p] \in Nat /\ todo[p] \in Seq(Nat)
  BY DEF TypeOK
<1>5. head \in Nat /\ position \in Nat /\ Len(file) \in Nat /\ torn \in Nat /\ claim \in Claims
  BY DEF TypeOK
<1> QED BY <1>1, <1>2, <1>3, <1>4, <1>5

\* What a step of p keeps of another process q.
LEMMA OtherKeeps ==
    ASSUME NEW q \in Procs, TypeOK, TypeOK', ProcessOK(q),
           UNCHANGED <<pc[q], failed[q], seen[q], sink[q], todo[q], own[q]>>,
           head <= head', position <= position', Len(file) <= Len(file'),
           UNCHANGED claim \/ (claim.by # q /\ claim'.by # q),
           claim.by = q => UNCHANGED file,
           torn' = 0 \/ torn' = torn \/ claim.by # q
    PROVE  ProcessOK(q)'
<1>0. /\ head \in Nat /\ head' \in Nat /\ position \in Nat /\ position' \in Nat
      /\ Len(file) \in Nat /\ Len(file') \in Nat
      /\ own[q] \in Nat /\ sink[q].last \in Nat /\ sink[q].delivered \subseteq Nat
      /\ claim.through \in Nat
  <2>1. head' \in Nat /\ position' \in Nat /\ file' \in Seq(Nat)
    BY DEF TypeOK
  <2> QED BY <2>1, TypesOf
<1>1. HolderOK(q)'
  <2>1. (Delivering(q) => claim = seen[q] /\ claim.by = q)'
    BY DEF ProcessOK, HolderOK, Delivering
  <2>2. (Bystander(q) => claim.by # q)'
    BY DEF ProcessOK, HolderOK, Bystander
  <2>3. (pc[q] \in Writing => torn = 0)'
    BY DEF ProcessOK, HolderOK, Delivering, Writing
  <2> QED BY <2>1, <2>2, <2>3 DEF HolderOK
<1>2. pc[q] \in Writing => UNCHANGED <<claim, file>>
  BY DEF ProcessOK, HolderOK, Delivering, Writing
<1>3. SinkOK(q)'
  <2>1. (sink[q].last <= Len(file))'
    BY <1>0 DEF ProcessOK, SinkOK
  <2>2. (pc[q] # "write" => sink[q].delivered \subseteq 1..Len(file))'
    BY <1>0 DEF ProcessOK, SinkOK
  <2>3. (pc[q] = "write" => sink[q].delivered \subseteq 1..claim.through)'
    BY <1>2 DEF ProcessOK, SinkOK, Writing
  <2>4. (pc[q] = "append" => \A n \in Claimed(q) : n <= Len(file) => n \in sink[q].delivered)'
    BY <1>2 DEF ProcessOK, SinkOK, Writing, Claimed
  <2>5. (/\ pc[q] \in Draining => sink[q].torn = 0
         /\ pc[q] = "idle" /\ ~failed[q] => sink[q].torn = 0)'
    BY DEF ProcessOK, SinkOK
  <2> QED BY <2>1, <2>2, <2>3, <2>4, <2>5 DEF SinkOK
<1>4. TodoOK(q)'
  BY <1>2 DEF ProcessOK, TodoOK, Writing
<1>5. OwnOK(q)'
  BY <1>0 DEF ProcessOK, OwnOK
<1> QED BY <1>1, <1>3, <1>4, <1>5 DEF ProcessOK

\* A step of p that leaves the journal and the file alone.
LEMMA LocalStep ==
    ASSUME NEW p \in Procs, IInv, TypeOK', UNCHANGED <<head, position, claim, file, torn>>,
           ProcessOK(p)',
           \A q \in Procs \ {p} :
               UNCHANGED <<pc[q], failed[q], seen[q], sink[q], todo[q], own[q]>>
    PROVE  IInv'
<1>0. TypeOK
  BY DEF IInv
<1>1. ASSUME NEW q \in Procs, q # p PROVE ProcessOK(q)'
  <2>1. UNCHANGED <<pc[q], failed[q], seen[q], sink[q], todo[q], own[q]>>
    BY <1>1
  <2>2. ProcessOK(q) /\ TypeOK
    BY DEF IInv
  <2>3. head \in Nat /\ position \in Nat /\ Len(file) \in Nat
    BY DEF IInv, TypeOK
  <2> QED BY <2>1, <2>2, <2>3, OtherKeeps
<1>2. FileIsHistory' /\ ClaimOK'
  BY DEF IInv, FileIsHistory, ClaimOK
<1> QED BY <1>1, <1>2 DEF IInv

LEMMA NoClaimType == NoClaim \in Claims
  BY DEF NoClaim, Claims

LEMMA UnopenedType == Unopened \in [last : Nat, delivered : SUBSET Nat, torn : Nat]
  BY DEF Unopened

-----------------------------------------------------------------------------
(* One lemma for each action.                                              *)

LEMMA EnsureCursorKeeps == ASSUME IInv, NEW p \in Procs, EnsureCursor(p) PROVE IInv'
<1>1. TypeOK'
  BY TypesOf DEF IInv, TypeOK, EnsureCursor, Goto, Fail, PC, dbVars, fileVars
<1>2. /\ UNCHANGED <<head, position, claim, file, torn>>
      /\ \A q \in Procs \ {p} :
             UNCHANGED <<pc[q], failed[q], seen[q], sink[q], todo[q], own[q]>>
  BY DEF IInv, TypeOK, EnsureCursor, Goto, Fail, dbVars, fileVars
<1>3. ProcessOK(p)'
  BY TypesOf DEF IInv, TypeOK, ProcessOK, HolderOK, SinkOK, TodoOK, OwnOK, Delivering,
     Bystander, Constructing, Draining, Writing, EnsureCursor, Goto, Fail, dbVars, fileVars
<1> QED BY <1>1, <1>2, <1>3, LocalStep

LEMMA InspectCursorKeeps == ASSUME IInv, NEW p \in Procs, InspectCursor(p) PROVE IInv'
<1>1. TypeOK'
  BY TypesOf DEF IInv, TypeOK, InspectCursor, Goto, Fail, PC, dbVars, fileVars
<1>2. /\ UNCHANGED <<head, position, claim, file, torn>>
      /\ \A q \in Procs \ {p} :
             UNCHANGED <<pc[q], failed[q], seen[q], sink[q], todo[q], own[q]>>
  BY DEF IInv, TypeOK, InspectCursor, Goto, Fail, dbVars, fileVars
<1>3. ProcessOK(p)'
  BY TypesOf DEF IInv, TypeOK, ProcessOK, HolderOK, SinkOK, TodoOK, OwnOK, Delivering,
     Bystander, Constructing, Draining, Writing, InspectCursor, Goto, Fail, dbVars, fileVars
<1> QED BY <1>1, <1>2, <1>3, LocalStep

LEMMA InspectClaimKeeps == ASSUME IInv, NEW p \in Procs, InspectClaim(p) PROVE IInv'
<1>1. TypeOK'
  BY TypesOf DEF IInv, TypeOK, InspectClaim, Goto, Fail, PC, dbVars, fileVars
<1>2. /\ UNCHANGED <<head, position, claim, file, torn>>
      /\ \A q \in Procs \ {p} :
             UNCHANGED <<pc[q], failed[q], seen[q], sink[q], todo[q], own[q]>>
  BY DEF IInv, TypeOK, InspectClaim, Goto, Fail, dbVars, fileVars
<1>3. ProcessOK(p)'
  BY TypesOf DEF IInv, TypeOK, ProcessOK, HolderOK, SinkOK, TodoOK, OwnOK, Delivering,
     Bystander, Constructing, Draining, Writing, InspectClaim, Goto, Fail, dbVars, fileVars
<1> QED BY <1>1, <1>2, <1>3, LocalStep

LEMMA DrainKeeps == ASSUME IInv, NEW p \in Procs, Drain(p) PROVE IInv'
<1>1. TypeOK'
  BY TypesOf DEF IInv, TypeOK, Drain, Goto, Fail, PC, dbVars, fileVars
<1>2. /\ UNCHANGED <<head, position, claim, file, torn>>
      /\ \A q \in Procs \ {p} :
             UNCHANGED <<pc[q], failed[q], seen[q], sink[q], todo[q], own[q]>>
  BY DEF IInv, TypeOK, Drain, Goto, Fail, dbVars, fileVars
<1>3. ProcessOK(p)'
  BY TypesOf DEF IInv, TypeOK, ProcessOK, HolderOK, SinkOK, TodoOK, OwnOK, Delivering,
     Bystander, Constructing, Draining, Writing, Drain, Goto, Fail, dbVars, fileVars
<1> QED BY <1>1, <1>2, <1>3, LocalStep

LEMMA OpenKeeps == ASSUME IInv, NEW p \in Procs, Open(p) PROVE IInv'
<1>0. Last \in Nat /\ Last = Len(file)
  BY DEF IInv, TypeOK, FileIsHistory, Last
<1> DEFINE opened == [Unopened EXCEPT !.last = Last, !.torn = torn]
<1>1. opened \in [last : Nat, delivered : SUBSET Nat, torn : Nat]
  BY <1>0, TypesOf DEF IInv, TypeOK, Unopened
<1>2. /\ pc[p] = "out" /\ UNCHANGED <<head, position, claim, file, torn, seen, todo, own, cursor>>
      /\ exists' \in BOOLEAN /\ disturbed' \in BOOLEAN /\ created' \in BOOLEAN
      /\ \/ sink' = [sink EXCEPT ![p] = opened] /\ pc' = [pc EXCEPT ![p] = "ensure"] /\ UNCHANGED failed
         \/ UNCHANGED sink /\ pc' = [pc EXCEPT ![p] = "gone"] /\ failed' = [failed EXCEPT ![p] = TRUE]
  BY DEF IInv, TypeOK, Open, Goto, dbVars
<1>3. /\ opened.last = Len(file) /\ opened.delivered = {}
  BY <1>0 DEF Unopened
<1> HIDE DEF opened
<1>4. TypeOK'
  <2>1. sink' \in [Procs -> [last : Nat, delivered : SUBSET Nat, torn : Nat]]
    BY <1>1, <1>2 DEF IInv, TypeOK
  <2>2. pc' \in [Procs -> PC] /\ failed' \in [Procs -> BOOLEAN]
    BY <1>2 DEF IInv, TypeOK, PC
  <2> QED BY <1>2, <2>1, <2>2 DEF IInv, TypeOK
<1>5. \A q \in Procs \ {p} :
          UNCHANGED <<pc[q], failed[q], seen[q], sink[q], todo[q], own[q]>>
  BY <1>2 DEF IInv, TypeOK
<1>6. /\ pc'[p] \in {"ensure", "gone"}
      /\ sink'[p].last <= Len(file) /\ sink'[p].delivered \subseteq 1..Len(file)
  <2>1. sink[p].last <= Len(file) /\ sink[p].delivered \subseteq 1..Len(file)
    BY <1>2 DEF IInv, ProcessOK, SinkOK
  <2> QED BY <1>0, <1>2, <1>3, <2>1 DEF IInv, TypeOK
<1>7. ProcessOK(p)'
  BY <1>2, <1>6, TypesOf DEF IInv, TypeOK, ProcessOK, HolderOK, SinkOK, TodoOK, OwnOK, Delivering,
     Bystander, Constructing, Draining, Writing
<1> QED BY <1>2, <1>4, <1>5, <1>7, LocalStep

LEMMA FailDisturbs ==
    ASSUME IInv, NEW p \in Procs, Fail(p), pc[p] # "write",
           UNCHANGED <<dbVars, fileVars, seen, cursor, sink, todo, own>>,
           disturbed' \in BOOLEAN
    PROVE  IInv'
<1>1. TypeOK'
  BY DEF IInv, TypeOK, Fail, PC, dbVars, fileVars
<1>2. /\ UNCHANGED <<head, position, claim, file, torn>>
      /\ \A q \in Procs \ {p} :
             UNCHANGED <<pc[q], failed[q], seen[q], sink[q], todo[q], own[q]>>
  BY DEF IInv, TypeOK, Fail, dbVars, fileVars
<1>3. ProcessOK(p)'
  BY DEF IInv, TypeOK, ProcessOK, HolderOK, SinkOK, TodoOK, OwnOK, Delivering,
     Bystander, Constructing, Draining, Writing, Fail, dbVars, fileVars
<1> QED BY <1>1, <1>2, <1>3, LocalStep

LEMMA FailKeeps ==
    ASSUME IInv, NEW p \in Procs, Fail(p), pc[p] # "write",
           UNCHANGED <<dbVars, fileVars, seen, cursor, sink, todo, own, disturbed>>
    PROVE  IInv'
<1>1. disturbed' \in BOOLEAN
  BY DEF IInv, TypeOK
<1> QED BY <1>1, FailDisturbs

LEMMA LinesAre == ASSUME IInv PROVE Lines = 1..Len(file)
<1>1. file \in Seq(Nat) /\ \A n \in 1..Len(file) : file[n] = n
  BY DEF IInv, TypeOK, FileIsHistory
<1>2. DOMAIN file = 1..Len(file)
  BY <1>1
<1>3. Lines = {n : n \in 1..Len(file)}
  BY <1>1, <1>2 DEF Lines
<1> QED BY <1>3

LEMMA SinkType ==
    ASSUME TypeOK, NEW p \in Procs, NEW D \in SUBSET Nat
    PROVE  [sink EXCEPT ![p].delivered = @ \cup D]
               \in [Procs -> [last : Nat, delivered : SUBSET Nat, torn : Nat]]
<1> DEFINE R == [last : Nat, delivered : SUBSET Nat, torn : Nat]
<1>1. sink \in [Procs -> R] /\ sink[p] \in R
  BY DEF TypeOK
<1>2. [sink[p] EXCEPT !.delivered = @ \cup D] \in R
  BY <1>1
<1> QED BY <1>1, <1>2

LEMMA ReconcileKeeps == ASSUME IInv, NEW p \in Procs, Reconcile(p) PROVE IInv'
<1>0. Found(p) \subseteq Nat /\ Found(p) \subseteq 1..Len(file)
  BY LinesAre, TypesOf DEF IInv, Found, Claimed
<1>1. CASE Fail(p) /\ UNCHANGED sink
  BY <1>1, FailKeeps DEF Reconcile, dbVars, fileVars
<1>2. ASSUME torn = 0, sink' = [sink EXCEPT ![p].delivered = @ \cup Found(p)],
             Goto(p, "append")
      PROVE  IInv'
  <2>1. TypeOK'
    BY <1>0, <1>2, SinkType DEF IInv, TypeOK, Reconcile, Goto, PC, dbVars, fileVars
  <2>2. /\ UNCHANGED <<head, position, claim, file, torn>>
        /\ \A q \in Procs \ {p} :
               UNCHANGED <<pc[q], failed[q], seen[q], sink[q], todo[q], own[q]>>
    BY <1>2 DEF IInv, TypeOK, Reconcile, Goto, dbVars, fileVars
  <2>3. /\ torn = 0 /\ sink'[p] = [sink[p] EXCEPT !.delivered = @ \cup Found(p)]
        /\ pc[p] = "reconcile" /\ pc'[p] = "append" /\ UNCHANGED <<seen, own, failed>>
    BY <1>2 DEF IInv, TypeOK, Reconcile, Goto
  <2>4. \A n \in Claimed(p) : n <= Len(file) => n \in Found(p)
    BY LinesAre, TypesOf DEF IInv, Found, Claimed
  <2>5. SinkOK(p)'
    <3>1. sink[p].delivered \cup Found(p) \subseteq 1..Len(file) /\ sink[p].torn = 0
      BY <1>0, <2>3, TypesOf DEF IInv, ProcessOK, SinkOK, Draining
    <3>2. sink[p] \in [last : Nat, delivered : SUBSET Nat, torn : Nat]
      BY DEF IInv, TypeOK
    <3>3. /\ sink'[p].delivered = sink[p].delivered \cup Found(p)
          /\ sink'[p].torn = 0 /\ sink'[p].last = sink[p].last
      BY <2>3, <3>1, <3>2
    <3>4. Claimed(p)' = Claimed(p)
      BY <2>3 DEF Claimed
    <3> QED BY <2>2, <2>3, <2>4, <3>1, <3>3, <3>4 DEF IInv, ProcessOK, SinkOK
  <2>6. HolderOK(p)' /\ TodoOK(p)' /\ OwnOK(p)'
    BY <2>2, <2>3 DEF IInv, ProcessOK, HolderOK, TodoOK, OwnOK, Delivering,
       Bystander, Constructing, Writing
  <2> QED BY <2>1, <2>2, <2>5, <2>6, LocalStep DEF ProcessOK
<1> QED BY <1>1, <1>2 DEF Reconcile

\* The events not yet delivered are the rest of the claim.
LEMMA UndeliveredIsRest ==
    ASSUME IInv, NEW p \in Procs, pc[p] = "append"
    PROVE  /\ Undelivered(p) = (Len(file) + 1)..claim.through
           /\ Claimed(p) = (position + 1)..claim.through
<1>1. /\ claim = seen[p] /\ claim.by = p /\ claim # NoClaim
      /\ claim.after = position /\ position <= Len(file) /\ Len(file) <= claim.through
  BY NoProcAssumption DEF IInv, ProcessOK, HolderOK, Delivering, ClaimOK, FileIsHistory, NoClaim
<1>2. /\ \A n \in Claimed(p) : n <= Len(file) => n \in sink[p].delivered
      /\ sink[p].delivered \subseteq 1..Len(file)
  BY DEF IInv, ProcessOK, SinkOK
<1> QED BY <1>1, <1>2, TypesOf DEF IInv, Undelivered, Claimed

LEMMA AppendToSinkKeeps == ASSUME IInv, NEW p \in Procs, AppendToSink(p) PROVE IInv'
<1> DEFINE c == claim.through - Len(file)
           rest == [n \in 1..c |-> Len(file) + n]
<1>0. /\ pc[p] = "append" /\ claim = seen[p] /\ claim.by = p /\ claim # NoClaim
      /\ position <= Len(file) /\ Len(file) <= claim.through /\ claim.through <= head
      /\ c \in Nat
  BY TypesOf, NoProcAssumption DEF AppendToSink, IInv, ProcessOK, HolderOK, Delivering,
     ClaimOK, FileIsHistory, NoClaim
<1>1. /\ Undelivered(p) = (Len(file) + 1)..claim.through
      /\ Claimed(p) \subseteq 1..claim.through /\ Claimed(p) \subseteq Nat
  BY SMTT(30), <1>0, UndeliveredIsRest, TypesOf DEF IInv
<1>2. InOrder(Undelivered(p)) = rest
  <2>1. claim.through = Len(file) + c
    BY TypesOf DEF IInv
  <2>2. InOrder((Len(file) + 1)..(Len(file) + c)) = rest
    BY <1>0, TypesOf, InOrderInterval DEF IInv
  <2> QED BY <1>1, <2>1, <2>2
<1>3. rest \in Seq(Nat)
  <2>1. \A n \in 1..c : Len(file) + n \in Nat
    BY <1>0, TypesOf DEF IInv
  <2> HIDE DEF c
  <2> QED BY <1>0, <2>1
<1> HIDE DEF c, rest
<1>4. CASE Fail(p) /\ UNCHANGED <<sink, todo>>
  BY <1>0, <1>4, FailKeeps DEF AppendToSink, dbVars, fileVars
<1>5. ASSUME sink' = [sink EXCEPT ![p].delivered = @ \cup Claimed(p)],
             todo' = [todo EXCEPT ![p] = InOrder(Undelivered(p))],
             Goto(p, IF Undelivered(p) = {} THEN "commit" ELSE "write")
      PROVE  IInv'
  <2>1. TypeOK'
    <3>1. todo' \in [Procs -> Seq(Nat)]
      BY <1>2, <1>3, <1>5 DEF IInv, TypeOK
    <3> QED BY <1>1, <1>5, <3>1, SinkType
            DEF IInv, TypeOK, AppendToSink, Goto, PC, dbVars, fileVars
  <2>2. /\ UNCHANGED <<head, position, claim, file, torn>>
        /\ \A q \in Procs \ {p} :
               UNCHANGED <<pc[q], failed[q], seen[q], sink[q], todo[q], own[q]>>
    BY <1>5 DEF IInv, TypeOK, AppendToSink, Goto, dbVars, fileVars
  <2>3. /\ torn = 0 /\ sink'[p] = [sink[p] EXCEPT !.delivered = @ \cup Claimed(p)]
        /\ todo'[p] = rest /\ pc'[p] = (IF Undelivered(p) = {} THEN "commit" ELSE "write")
        /\ UNCHANGED <<seen, own, failed>>
    BY <1>0, <1>2, <1>5
       DEF IInv, TypeOK, AppendToSink, Goto, ProcessOK, HolderOK, Writing
  <2>4. (sink[p].delivered \cup Claimed(p)) \subseteq 1..claim.through
    BY <1>0, <1>1, TypesOf DEF IInv, ProcessOK, SinkOK
  <2>5. /\ pc'[p] = "commit" => Len(file) = claim.through
        /\ pc'[p] = "write" => Len(file) < claim.through
        /\ pc'[p] \in {"commit", "write"}
    <3>1. Undelivered(p) = {} <=> ~(Len(file) < claim.through)
      BY <1>1, TypesOf DEF IInv
    <3> QED BY <1>0, <2>3, <3>1, TypesOf DEF IInv
  <2>6. HolderOK(p)' /\ OwnOK(p)'
    BY <1>0, <2>2, <2>3, <2>5 DEF IInv, ProcessOK, HolderOK, OwnOK, Delivering, Bystander,
       Constructing
  <2>7. SinkOK(p)'
    BY <1>0, <2>2, <2>3, <2>4, <2>5, TypesOf DEF IInv, ProcessOK, SinkOK, Draining
  <2>8. TodoOK(p)'
    <3>1. Len(rest) = c /\ \A n \in 1..c : rest[n] = Len(file) + n
      BY <1>0 DEF rest
    <3> QED BY <2>2, <2>3, <2>5, <3>1 DEF TodoOK, c
  <2> QED BY <2>1, <2>2, <2>6, <2>7, <2>8, LocalStep DEF ProcessOK
<1> QED BY <1>4, <1>5 DEF AppendToSink

LEMMA ReconcileHistoryKeeps ==
    ASSUME IInv, NEW p \in Procs, ReconcileHistory(p)
    PROVE  IInv'
<1>1. CASE Fail(p) /\ UNCHANGED <<sink, torn>>
  BY <1>1, FailKeeps DEF ReconcileHistory, dbVars, fileVars
<1>2. ASSUME sink' = [sink EXCEPT ![p].delivered = Lines, ![p].torn = 0],
             torn' = 0,
             Goto(p, IF seen[p] = NoClaim THEN "drain" ELSE "append")
      PROVE  IInv'
  <2>0. Lines \subseteq Nat /\ Lines = 1..Len(file)
    BY LinesAre, TypesOf DEF IInv
  <2>1. TypeOK'
    <3>1. [sink[p] EXCEPT !.delivered = Lines, !.torn = 0]
              \in [last : Nat, delivered : SUBSET Nat, torn : Nat]
      BY ZenonT(60), <2>0 DEF IInv, TypeOK
    <3>2. sink' \in [Procs -> [last : Nat, delivered : SUBSET Nat, torn : Nat]]
      BY <1>2, <3>1 DEF IInv, TypeOK
    <3> QED BY <1>2, <3>2 DEF IInv, TypeOK, ReconcileHistory, Goto, PC, dbVars
  <2>2. /\ UNCHANGED <<head, position, claim, file, seen, own, failed>>
        /\ \A q \in Procs \ {p} :
               UNCHANGED <<pc[q], failed[q], seen[q], sink[q], todo[q], own[q]>>
    BY <1>2 DEF IInv, TypeOK, ReconcileHistory, Goto, dbVars
  <2>3. /\ sink'[p] = [sink[p] EXCEPT !.delivered = Lines, !.torn = 0]
        /\ pc[p] = "history"
        /\ pc'[p] = (IF seen[p] = NoClaim THEN "drain" ELSE "append")
    BY <1>2 DEF IInv, TypeOK, ReconcileHistory, Goto
  <2>4. SinkOK(p)'
    <3>1. /\ sink'[p].delivered = 1..Len(file)
          /\ sink'[p].torn = 0 /\ sink'[p].last = sink[p].last
      BY <2>0, <2>3 DEF IInv, TypeOK
    <3>2. Claimed(p)' = Claimed(p) /\ \A n \in Claimed(p) : n <= Len(file) => n \in 1..Len(file)
      BY <2>2, TypesOf DEF Claimed, IInv
    <3> QED BY <2>2, <2>3, <3>1, <3>2 DEF IInv, ProcessOK, SinkOK
  <2>5. HolderOK(p)' /\ TodoOK(p)' /\ OwnOK(p)'
    BY <1>2, <2>2, <2>3 DEF IInv, ProcessOK, HolderOK, TodoOK, OwnOK, Delivering,
       Bystander, Constructing, Writing
  <2>6. ASSUME NEW q \in Procs, q # p PROVE ProcessOK(q)'
    <3>1. UNCHANGED <<pc[q], failed[q], seen[q], sink[q], todo[q], own[q]>>
      BY <2>2, <2>6
    <3>2. ProcessOK(q) /\ TypeOK /\ head <= head' /\ position <= position' /\ Len(file) <= Len(file')
      BY <2>2, TypesOf DEF IInv
    <3> QED BY <1>2, <2>1, <2>2, <3>1, <3>2, OtherKeeps
  <2>7. FileIsHistory' /\ ClaimOK'
    BY <1>2, <2>2 DEF IInv, FileIsHistory, ClaimOK
  <2> QED BY <2>1, <2>4, <2>5, <2>6, <2>7 DEF IInv, ProcessOK
<1> QED BY <1>1, <1>2 DEF ReconcileHistory, RepairTorn

LEMMA RecoverProjectionClaimKeeps ==
    ASSUME IInv, NEW p \in Procs,
           \/ pc[p] = "recoverAtStart" /\ RecoverProjectionClaim(p, "history")
           \/ pc[p] = "recover" /\ RecoverProjectionClaim(p, "reconcile")
    PROVE  IInv'
<1>1. CASE Fail(p) /\ disturbed' = (disturbed \/ Recoverable(p)) /\ UNCHANGED <<claim, seen>>
  <2>1. disturbed' \in BOOLEAN
    BY <1>1 DEF IInv, TypeOK
  <2>2. /\ UNCHANGED <<dbVars, fileVars, seen, cursor, sink, todo, own>>
        /\ Fail(p) /\ pc[p] # "write"
    BY <1>1 DEF RecoverProjectionClaim, dbVars, fileVars
  <2> QED BY <2>1, <2>2, FailDisturbs
<1>2. ASSUME NEW label \in {"history", "reconcile"}, Recoverable(p),
             claim' = [claim EXCEPT !.by = p], seen' = [seen EXCEPT ![p] = claim'],
             Goto(p, label), pc[p] \in {"recoverAtStart", "recover"},
             pc[p] = "recover" <=> label = "reconcile",
             UNCHANGED <<head, exists, position, fileVars, cursor, sink, todo, own, disturbed>>
      PROVE  IInv'
  <2>0. /\ claim # NoClaim /\ pc[claim.by] = "gone" /\ claim.by \in Procs
        /\ claim.by # p /\ claim' \in Claims /\ claim'.by = p /\ claim' # NoClaim
        /\ claim'.after = claim.after /\ claim'.through = claim.through
    BY <1>2, NoProcAssumption DEF Recoverable, IInv, TypeOK, ClaimOK, Claims, NoClaim
  <2>1. TypeOK'
    BY <1>2, <2>0 DEF IInv, TypeOK, Goto, PC, fileVars
  <2>2. /\ UNCHANGED <<head, position, file, torn, own, failed, sink>>
        /\ \A q \in Procs \ {p} :
               UNCHANGED <<pc[q], failed[q], seen[q], sink[q], todo[q], own[q]>>
        /\ pc'[p] = label /\ seen'[p] = claim'
    BY <1>2 DEF IInv, TypeOK, Goto, fileVars
  <2>3. ProcessOK(p)'
    BY <1>2, <2>0, <2>2 DEF IInv, ProcessOK, HolderOK, SinkOK, TodoOK, OwnOK, Delivering,
       Bystander, Constructing, Draining, Writing
  <2>4. ASSUME NEW q \in Procs, q # p PROVE ProcessOK(q)'
    <3>1. CASE claim.by = q
      <4>1. pc[q] = "gone" /\ pc'[q] = "gone"
        BY <2>0, <2>2, <2>4, <3>1
      <4> QED BY <2>2, <2>4, <4>1 DEF IInv, ProcessOK, HolderOK, SinkOK, TodoOK, OwnOK,
              Delivering, Bystander, Constructing, Draining, Writing
    <3>2. CASE claim.by # q
      <4>1. UNCHANGED <<pc[q], failed[q], seen[q], sink[q], todo[q], own[q]>>
        BY <2>2, <2>4
      <4>2. ProcessOK(q) /\ TypeOK /\ head <= head' /\ position <= position' /\ Len(file) <= Len(file')
        BY <2>2, TypesOf DEF IInv
      <4> QED BY <2>0, <2>1, <2>2, <2>4, <3>2, <4>1, <4>2, OtherKeeps
    <3> QED BY <3>1, <3>2
  <2>5. FileIsHistory' /\ ClaimOK'
    BY <2>0, <2>2 DEF IInv, FileIsHistory, ClaimOK
  <2> QED BY <2>1, <2>3, <2>4, <2>5 DEF IInv
<1> QED BY <1>1, <1>2 DEF RecoverProjectionClaim

LEMMA AppendEventKeeps == ASSUME IInv, NEW p \in Procs, AppendEvent(p) PROVE IInv'
<1>1. TypeOK'
  BY TypesOf DEF IInv, TypeOK, AppendEvent, Goto, PC, fileVars
<1>2. /\ UNCHANGED <<position, claim, file, torn, sink, failed>> /\ head' = head + 1
      /\ \A q \in Procs \ {p} :
             UNCHANGED <<pc[q], failed[q], seen[q], sink[q], todo[q], own[q]>>
      /\ pc[p] = "idle" /\ pc'[p] = (IF failed[p] THEN "idle" ELSE "drain")
      /\ own'[p] = head + 1
  BY DEF IInv, TypeOK, AppendEvent, Goto, fileVars
<1>3. ProcessOK(p)'
  <2>1. HolderOK(p)' /\ TodoOK(p)'
    BY <1>2 DEF IInv, ProcessOK, HolderOK, TodoOK, Delivering, Bystander, Constructing, Writing
  <2>2. SinkOK(p)'
    BY <1>2 DEF IInv, ProcessOK, SinkOK, Draining
  <2>3. OwnOK(p)'
    BY <1>2, TypesOf DEF IInv, ProcessOK, OwnOK
  <2> QED BY <2>1, <2>2, <2>3 DEF ProcessOK
<1>4. ASSUME NEW q \in Procs, q # p PROVE ProcessOK(q)'
  <2>1. UNCHANGED <<pc[q], failed[q], seen[q], sink[q], todo[q], own[q]>>
    BY <1>2, <1>4
  <2>2. ProcessOK(q) /\ TypeOK /\ head <= head' /\ position <= position' /\ Len(file) <= Len(file')
    BY <1>2, TypesOf DEF IInv
  <2> QED BY <1>1, <1>2, <2>1, <2>2, OtherKeeps
<1>5. FileIsHistory' /\ ClaimOK'
  BY <1>2, TypesOf DEF IInv, FileIsHistory, ClaimOK
<1> QED BY <1>1, <1>3, <1>4, <1>5 DEF IInv

LEMMA PageEnd ==
    ASSUME TypeOK, head > position
    PROVE  /\ Min({position + PageSize, head}) \in Nat
           /\ position < Min({position + PageSize, head}) /\ Min({position + PageSize, head}) <= head
<1> DEFINE a == position + PageSize
           S == {a, head}
<1>1. a \in Nat /\ position < a /\ head \in Nat
  BY PageSizeAssumption DEF TypeOK
<1>2. \E x \in S : \A y \in S : x <= y
  <2> HIDE DEF a
  <2>1. CASE a <= head
    BY <1>1, <2>1
  <2>2. CASE head <= a
    BY <1>1, <2>2
  <2> QED BY <1>1, <2>1, <2>2
<1>3. Min(S) \in S /\ \A y \in S : Min(S) <= y
  <2> HIDE DEF S
  <2> QED BY <1>2 DEF Min
<1>4. Min(S) \in Nat /\ position < Min(S) /\ Min(S) <= head
  <2> HIDE DEF a
  <2> QED BY <1>1, <1>3
<1> QED BY <1>4

LEMMA ClaimProjectionKeeps ==
    ASSUME IInv, NEW p \in Procs, ClaimProjection(p)
    PROVE  IInv'
<1>1. CASE Fail(p) /\ UNCHANGED <<claim, seen>>
  BY <1>1, FailKeeps DEF ClaimProjection, dbVars, fileVars
<1>2. ASSUME head > position, claim = NoClaim,
             claim' = [by |-> p, after |-> position,
                       through |-> Min({position + PageSize, head})],
             seen' = [seen EXCEPT ![p] = claim'], Goto(p, "append")
      PROVE  IInv'
  <2>0. /\ claim' \in Claims /\ claim'.by = p /\ claim' # NoClaim
        /\ claim'.after = position /\ position < claim'.through /\ claim'.through <= head
    BY <1>2, PageEnd, NoProcAssumption, TypesOf DEF IInv, Claims, NoClaim
  <2>1. TypeOK'
    BY <1>2, <2>0 DEF IInv, TypeOK, ClaimProjection, Goto, PC, fileVars
  <2>2. /\ UNCHANGED <<head, position, file, torn, own, failed, sink>>
        /\ \A q \in Procs \ {p} :
               UNCHANGED <<pc[q], failed[q], seen[q], sink[q], todo[q], own[q]>>
        /\ pc[p] = "claim" /\ pc'[p] = "append" /\ seen'[p] = claim'
    BY <1>2 DEF IInv, TypeOK, ClaimProjection, Goto, fileVars
  <2>3. torn = 0 /\ Len(file) = position
    BY <1>2, TypesOf DEF IInv, ClaimOK, FileIsHistory
  <2>4. ProcessOK(p)'
    <3>1. \A n \in Claimed(p)' : ~(n <= Len(file))
      BY <2>0, <2>2, <2>3, TypesOf DEF Claimed, IInv
    <3> QED BY <2>0, <2>2, <2>3, <3>1 DEF IInv, ProcessOK, HolderOK, SinkOK, TodoOK, OwnOK,
            Delivering, Bystander, Constructing, Draining, Writing
  <2>5. ASSUME NEW q \in Procs, q # p PROVE ProcessOK(q)'
    <3>1. UNCHANGED <<pc[q], failed[q], seen[q], sink[q], todo[q], own[q]>>
      BY <2>2, <2>5
    <3>2. claim.by # q /\ claim'.by # q
      BY <1>2, <2>0, <2>5, NoProcAssumption DEF NoClaim
    <3>3. ProcessOK(q) /\ TypeOK /\ head <= head' /\ position <= position' /\ Len(file) <= Len(file')
      BY <2>2, TypesOf DEF IInv
    <3> QED BY <2>1, <2>2, <3>1, <3>2, <3>3, OtherKeeps
  <2>6. FileIsHistory' /\ ClaimOK'
    <3>1. position \in Nat /\ claim'.through \in Nat
      BY <2>0, TypesOf DEF IInv, Claims
    <3> QED BY <2>0, <2>2, <2>3, <3>1 DEF IInv, FileIsHistory, ClaimOK
  <2> QED BY <2>1, <2>4, <2>5, <2>6 DEF IInv
<1>3. ASSUME claim = NoClaim, head = position, Goto(p, "idle"), UNCHANGED <<claim, seen>>
      PROVE  IInv'
  <2>1. TypeOK'
    BY <1>3 DEF IInv, TypeOK, ClaimProjection, Goto, PC, fileVars
  <2>2. /\ UNCHANGED <<head, position, claim, file, torn, sink>>
        /\ \A q \in Procs \ {p} :
               UNCHANGED <<pc[q], failed[q], seen[q], sink[q], todo[q], own[q]>>
        /\ pc[p] = "claim" /\ pc'[p] = "idle" /\ UNCHANGED <<seen, own, failed, todo>>
    BY <1>3 DEF IInv, TypeOK, ClaimProjection, Goto, fileVars
  <2>3. ProcessOK(p)'
    BY <1>3, <2>2, NoProcAssumption DEF IInv, ProcessOK, HolderOK, SinkOK, TodoOK, OwnOK,
       Delivering, Bystander, Constructing, Draining, Writing, NoClaim
  <2> QED BY <2>1, <2>2, <2>3, LocalStep
<1> QED BY <1>1, <1>2, <1>3 DEF ClaimProjection

LEMMA WriteLineKeeps == ASSUME IInv, NEW p \in Procs, WriteLine(p) PROVE IInv'
<1> DEFINE n == Len(file)
           c == claim.through - n
<1>0. TypeOK /\ n \in Nat /\ claim.through \in Nat /\ head \in Nat /\ position \in Nat
  BY TypesOf DEF IInv
<1>1. /\ pc[p] = "write" /\ claim = seen[p] /\ claim.by = p /\ claim # NoClaim /\ torn = 0
      /\ n < claim.through /\ Len(todo[p]) = c /\ \A k \in 1..c : todo[p][k] = n + k
  <2>1. pc[p] = "write" /\ HolderOK(p) /\ TodoOK(p)
    BY DEF WriteLine, IInv, ProcessOK
  <2>2. claim = seen[p] /\ claim.by = p /\ torn = 0
    BY <2>1 DEF HolderOK, Delivering, Writing
  <2>3. claim # NoClaim
    BY <2>2, NoProcAssumption DEF NoClaim
  <2> QED BY <2>1, <2>2, <2>3 DEF TodoOK
<1>2. c \in Nat \ {0} /\ (c = 1 <=> n + 1 = claim.through)
  BY <1>0, <1>1
<1>3. /\ Head(todo[p]) = n + 1
      /\ Tail(todo[p]) \in Seq(Nat) /\ Len(Tail(todo[p])) = c - 1
      /\ \A k \in 1..(c - 1) : Tail(todo[p])[k] = (n + 1) + k
      /\ Tail(todo[p]) = <<>> <=> c = 1
  <2>1. todo[p] \in Seq(Nat) /\ todo[p] # <<>> /\ Head(todo[p]) = todo[p][1]
    BY <1>0, <1>1, <1>2, TypesOf
  <2>2. /\ Tail(todo[p]) \in Seq(Nat) /\ Len(Tail(todo[p])) = c - 1
        /\ \A k \in 1..(c - 1) : Tail(todo[p])[k] = todo[p][k + 1]
    BY <1>1, <2>1, HeadTailProperties
  <2>3. \A k \in 1..(c - 1) : k + 1 \in 1..c
    BY <1>2
  <2> HIDE DEF c, n
  <2>4. Tail(todo[p]) = <<>> <=> c = 1
    <3> DEFINE t == Tail(todo[p])
    <3>1. t \in Seq(Nat) /\ Len(t) = c - 1
      BY <2>2
    <3> HIDE DEF t
    <3>2. t = <<>> <=> Len(t) = 0
      BY <3>1, EmptySeq
    <3>3. t = <<>> <=> c = 1
      BY <1>2, <3>1, <3>2
    <3> QED BY <3>3 DEF t
  <2> QED BY <1>0, <1>1, <1>2, <2>1, <2>2, <2>3, <2>4
<1>4. /\ file' \in Seq(Nat) /\ Len(file') = n + 1
      /\ \A k \in DOMAIN file' : file'[k] = k
  <2>1. file' = Append(file, n + 1) /\ file \in Seq(Nat) /\ n + 1 \in Nat
    <3>1. file' = Append(file, Head(todo[p]))
      BY <1>1 DEF WriteLine
    <3>2. file \in Seq(Nat) /\ Head(todo[p]) = n + 1
      BY <1>0, <1>3 DEF TypeOK
    <3> HIDE DEF n
    <3> QED BY <1>0, <3>1, <3>2
  <2>2. \A k \in 1..n : file[k] = k
    BY <2>1, LenProperties DEF IInv, FileIsHistory
  <2> QED BY <2>1, <2>2, AppendProperties, LenProperties
<1> HIDE DEF c
<1>5. /\ UNCHANGED <<head, position, claim, own, failed, seen>> /\ torn' = 0
      /\ \A q \in Procs \ {p} :
             UNCHANGED <<pc[q], failed[q], seen[q], sink[q], todo[q], own[q]>>
      /\ pc'[p] = (IF c = 1 THEN "commit" ELSE "write")
      /\ todo'[p] = Tail(todo[p])
      /\ sink'[p] = [sink[p] EXCEPT !.last = n + 1]
  BY <1>0, <1>3 DEF TypeOK, WriteLine, Goto, dbVars
<1>6. TypeOK'
  <2>0. sink[p] \in [last : Nat, delivered : SUBSET Nat, torn : Nat]
    BY <1>0 DEF TypeOK
  <2>1. [sink[p] EXCEPT !.last = n + 1] \in [last : Nat, delivered : SUBSET Nat, torn : Nat]
    BY <1>0, <2>0
  <2>2. sink' \in [Procs -> [last : Nat, delivered : SUBSET Nat, torn : Nat]]
    BY <1>0, <1>3, <2>1 DEF TypeOK, WriteLine
  <2>3. todo' \in [Procs -> Seq(Nat)]
    BY <1>0, <1>3 DEF TypeOK, WriteLine
  <2> QED BY <1>0, <1>4, <2>2, <2>3 DEF TypeOK, WriteLine, Goto, PC, dbVars
<1>7. ProcessOK(p)'
  <2>1. HolderOK(p)' /\ OwnOK(p)'
    BY <1>1, <1>5 DEF IInv, ProcessOK, HolderOK, OwnOK, Delivering, Bystander, Constructing
  <2>2. /\ sink'[p].last = n + 1 /\ sink'[p].delivered = sink[p].delivered
        /\ sink'[p].torn = sink[p].torn
    BY <1>0, <1>5 DEF TypeOK
  <2>3. /\ pc'[p] = "commit" => Len(file') = claim.through
        /\ pc'[p] = "write" => Len(file') < claim.through
        /\ pc'[p] \in {"commit", "write"}
    BY <1>0, <1>1, <1>2, <1>4, <1>5
  <2>4. SinkOK(p)'
    <3>1. sink[p].delivered \subseteq 1..claim.through /\ sink[p].torn = 0
      BY <1>1 DEF IInv, ProcessOK, SinkOK, Draining
    <3> QED BY <1>0, <1>4, <1>5, <2>2, <2>3, <3>1 DEF SinkOK
  <2>5. TodoOK(p)'
    <3>1. c - 1 = claim.through - Len(file')
      BY <1>0, <1>4 DEF c
    <3> QED BY <1>3, <1>4, <1>5, <2>3, <3>1 DEF TodoOK
  <2> QED BY <2>1, <2>4, <2>5 DEF ProcessOK
<1>8. ASSUME NEW q \in Procs, q # p PROVE ProcessOK(q)'
  <2>1. UNCHANGED <<pc[q], failed[q], seen[q], sink[q], todo[q], own[q]>> /\ claim.by # q
    BY <1>1, <1>5, <1>8
  <2>2. ProcessOK(q) /\ head <= head' /\ position <= position' /\ n <= Len(file')
    BY <1>0, <1>4, <1>5 DEF IInv
  <2> QED BY <1>0, <1>5, <1>6, <2>1, <2>2, OtherKeeps
<1>9. FileIsHistory' /\ ClaimOK'
  <2>1. FileIsHistory'
    BY <1>0, <1>1, <1>4, <1>5 DEF IInv, FileIsHistory
  <2>2. ClaimOK'
    BY <1>5 DEF IInv, ClaimOK
  <2> QED BY <2>1, <2>2
<1> QED BY <1>6, <1>7, <1>8, <1>9 DEF IInv

LEMMA CommitProjectionKeeps ==
    ASSUME IInv, NEW p \in Procs, CommitProjection(p)
    PROVE  IInv'
<1>1. CASE Fail(p) /\ UNCHANGED <<position, claim>>
  BY <1>1, FailKeeps DEF CommitProjection, dbVars, fileVars
<1>2. ASSUME position' = claim.through, claim' = NoClaim, Goto(p, "drain") PROVE IInv'
  <2>0. /\ pc[p] = "commit" /\ claim.by = p /\ claim # NoClaim /\ torn = 0
        /\ Len(file) = claim.through /\ position < claim.through /\ claim.through <= head
        /\ NoClaim.by # p
    <3>1. pc[p] = "commit" /\ HolderOK(p) /\ TodoOK(p) /\ ClaimOK
      BY DEF CommitProjection, IInv, ProcessOK
    <3>2. claim.by = p /\ torn = 0
      BY <3>1 DEF HolderOK, Delivering, Writing
    <3>3. claim # NoClaim /\ NoClaim.by # p
      BY <3>2, NoProcAssumption DEF NoClaim
    <3> QED BY <3>1, <3>2, <3>3 DEF TodoOK, ClaimOK
  <2>1. TypeOK'
    BY <1>2, NoClaimType, TypesOf DEF IInv, TypeOK, CommitProjection, Goto, PC, fileVars
  <2>2. /\ UNCHANGED <<head, file, torn, own, failed, sink>>
        /\ \A q \in Procs \ {p} :
               UNCHANGED <<pc[q], failed[q], seen[q], sink[q], todo[q], own[q]>>
        /\ pc'[p] = "drain"
    BY <1>2 DEF IInv, TypeOK, CommitProjection, Goto, fileVars
  <2>3. ProcessOK(p)'
    BY <1>2, <2>0, <2>2 DEF IInv, ProcessOK, HolderOK, SinkOK, TodoOK, OwnOK, Delivering,
       Bystander, Constructing, Draining, Writing
  <2>4. ASSUME NEW q \in Procs, q # p PROVE ProcessOK(q)'
    <3>1. UNCHANGED <<pc[q], failed[q], seen[q], sink[q], todo[q], own[q]>>
      BY <2>2, <2>4
    <3>2. claim.by # q /\ claim'.by # q
      BY <1>2, <2>0, <2>4, NoProcAssumption DEF NoClaim
    <3>3. ProcessOK(q) /\ TypeOK /\ head <= head' /\ position <= position' /\ Len(file) <= Len(file')
      BY <1>2, <2>0, <2>2, TypesOf DEF IInv
    <3> QED BY <2>1, <2>2, <3>1, <3>2, <3>3, OtherKeeps
  <2>5. FileIsHistory' /\ ClaimOK'
    BY <1>2, <2>0, <2>2, TypesOf DEF IInv, FileIsHistory, ClaimOK
  <2> QED BY <2>1, <2>3, <2>4, <2>5 DEF IInv
<1> QED BY <1>1, <1>2 DEF CommitProjection

LEMMA CrashKeeps == ASSUME IInv, NEW p \in Procs, Crash(p) PROVE IInv'
<1>1. CASE pc[p] = "write" /\ torn = 0 /\ torn' = Head(todo[p])
  <2>0. /\ claim = seen[p] /\ claim.by = p /\ claim # NoClaim /\ Len(file) < claim.through
        /\ torn' = Len(file) + 1 /\ torn' <= claim.through
    <3>1. /\ claim = seen[p] /\ claim.by = p /\ claim # NoClaim /\ Len(file) < claim.through
          /\ Len(todo[p]) = claim.through - Len(file)
          /\ \A k \in 1..Len(todo[p]) : todo[p][k] = Len(file) + k
      BY <1>1, NoProcAssumption DEF IInv, ProcessOK, HolderOK, Delivering, TodoOK, NoClaim
    <3>2. Len(todo[p]) \in Nat \ {0} /\ todo[p] \in Seq(Nat)
      BY <3>1, TypesOf DEF IInv
    <3>3. Head(todo[p]) = Len(file) + 1
      BY <3>1, <3>2
    <3> QED BY <1>1, <3>1, <3>3, TypesOf DEF IInv
  <2>1. TypeOK'
    BY <2>0, NoClaimType, UnopenedType DEF IInv, TypeOK, Crash, Goto, PC, dbVars
  <2>2. /\ UNCHANGED <<head, position, claim, file>>
        /\ \A q \in Procs \ {p} :
               UNCHANGED <<pc[q], failed[q], seen[q], sink[q], todo[q], own[q]>>
        /\ pc'[p] = "gone" /\ sink'[p] = Unopened /\ own'[p] = 0
    BY DEF IInv, TypeOK, Crash, Goto, dbVars
  <2>3. ProcessOK(p)'
    BY <2>2, TypesOf DEF IInv, ProcessOK, HolderOK, SinkOK, TodoOK, OwnOK, Delivering,
       Bystander, Constructing, Draining, Writing, Unopened
  <2>4. ASSUME NEW q \in Procs, q # p PROVE ProcessOK(q)'
    <3>1. UNCHANGED <<pc[q], failed[q], seen[q], sink[q], todo[q], own[q]>> /\ claim.by # q
      BY <2>0, <2>2, <2>4
    <3>2. ProcessOK(q) /\ TypeOK /\ head <= head' /\ position <= position' /\ Len(file) <= Len(file')
      BY <2>2, TypesOf DEF IInv
    <3> QED BY <2>1, <2>2, <3>1, <3>2, OtherKeeps
  <2>5. FileIsHistory' /\ ClaimOK'
    BY <2>0, <2>2 DEF IInv, FileIsHistory, ClaimOK
  <2> QED BY <2>1, <2>3, <2>4, <2>5 DEF IInv
<1>2. CASE UNCHANGED torn
  <2>1. TypeOK'
    BY <1>2, NoClaimType, UnopenedType DEF IInv, TypeOK, Crash, Goto, PC, dbVars
  <2>2. /\ UNCHANGED <<head, position, claim, file, torn>>
        /\ \A q \in Procs \ {p} :
               UNCHANGED <<pc[q], failed[q], seen[q], sink[q], todo[q], own[q]>>
        /\ pc'[p] = "gone" /\ sink'[p] = Unopened /\ own'[p] = 0
    BY <1>2 DEF IInv, TypeOK, Crash, Goto, dbVars
  <2>3. ProcessOK(p)'
    BY <2>2, TypesOf DEF IInv, ProcessOK, HolderOK, SinkOK, TodoOK, OwnOK, Delivering,
       Bystander, Constructing, Draining, Writing, Unopened
  <2> QED BY <2>1, <2>2, <2>3, LocalStep
<1> QED BY <1>1, <1>2 DEF Crash

-----------------------------------------------------------------------------
(* Safety.                                                                 *)
LEMMA InitIInv == Init => IInv
<1> SUFFICES ASSUME Init PROVE IInv
  OBVIOUS
<1>1. TypeOK
  <2>1. /\ file \in Seq(Nat) /\ todo \in [Procs -> Seq(Nat)]
        /\ sink \in [Procs -> [last : Nat, delivered : SUBSET Nat, torn : Nat]]
        /\ seen \in [Procs -> Claims]
    BY NoClaimType, UnopenedType, EmptySeq DEF Init
  <2> QED BY <2>1, NoClaimType DEF Init, TypeOK, PC
<1>2. FileIsHistory /\ ClaimOK
  BY DEF Init, FileIsHistory, ClaimOK
<1>3. ASSUME NEW p \in Procs PROVE ProcessOK(p)
  BY <1>3, NoProcAssumption DEF Init, ProcessOK, HolderOK, SinkOK, TodoOK, OwnOK, Delivering,
     Bystander, Constructing, Draining, Writing, Unopened, NoClaim
<1> QED BY <1>1, <1>2, <1>3 DEF IInv

LEMMA StepIInv == IInv /\ [Next]_vars => IInv'
<1>1. ASSUME IInv, NEW p \in Procs, Construct(p) PROVE IInv'
  BY <1>1, OpenKeeps, EnsureCursorKeeps, InspectCursorKeeps, InspectClaimKeeps,
     RecoverProjectionClaimKeeps, ReconcileHistoryKeeps DEF Construct, RecoverAtStart
<1>2. ASSUME IInv, NEW p \in Procs, DrainLoop(p) PROVE IInv'
  BY <1>2, DrainKeeps, RecoverProjectionClaimKeeps, ReconcileKeeps, ClaimProjectionKeeps,
     AppendToSinkKeeps, WriteLineKeeps, CommitProjectionKeeps DEF DrainLoop, Recover
<1>3. ASSUME IInv, UNCHANGED vars PROVE IInv'
  <2>1. TypeOK'
    BY <1>3 DEF IInv, TypeOK, vars, dbVars, fileVars
  <2>2. FileIsHistory' /\ ClaimOK'
    BY <1>3 DEF IInv, FileIsHistory, ClaimOK, vars, dbVars, fileVars
  <2>3. ASSUME NEW p \in Procs PROVE ProcessOK(p)'
    BY <1>3, <2>3 DEF IInv, ProcessOK, HolderOK, SinkOK, TodoOK, OwnOK, Delivering,
       Bystander, Claimed, vars, dbVars, fileVars
  <2> QED BY <2>1, <2>2, <2>3 DEF IInv
<1> QED BY <1>1, <1>2, <1>3, AppendEventKeeps, CrashKeeps DEF Next

\* Whoever appends, publishes, delivers or dies in between, the log, the projections and the
\* files fit together.
THEOREM Invariance == Spec => []IInv
  BY InitIInv, StepIInv, PTL DEF Spec

\* Every reachable state is well typed (projecting-journal.ts, agent-tail-file-sink.ts).
THEOREM TypesHold == Spec => []TypeOK
<1>1. IInv => TypeOK
  BY DEF IInv
<1> QED BY <1>1, Invariance, PTL

\* Whoever writes the trace file or is about to commit holds the claim, although recovery
\* replaces the claimants that are dead (sqlite-journal.ts, recoverProjectionClaim).
THEOREM OneDeliverer == Spec => []DelivererHoldsClaim
<1>1. IInv => DelivererHoldsClaim
  BY DEF IInv, ProcessOK, HolderOK, Delivering, DelivererHoldsClaim
<1> QED BY <1>1, Invariance, PTL

\* The trace file is the history of the journal: every event once, in order, up to the
\* cursor and perhaps some of the active claim (projecting-journal.ts, drain).
THEOREM TraceIsHistory == Spec => []FileIsHistory
<1>1. IInv => FileIsHistory
  BY DEF IInv
<1> QED BY <1>1, Invariance, PTL

\* An append that returns without a failed projection has its events in the file and
\* behind the cursor, whoever delivered them (projecting-journal.ts, append).
THEOREM AppendsAreProjected == Spec => []AppendIsProjected
<1>1. IInv => AppendIsProjected
  <2> SUFFICES ASSUME IInv, NEW p \in Procs, pc[p] = "idle", ~failed[p]
               PROVE  own[p] <= position /\ own[p] <= Len(file)
    BY DEF AppendIsProjected
  <2>1. own[p] <= position /\ position <= Len(file)
    BY DEF IInv, ProcessOK, OwnOK, FileIsHistory
  <2> QED BY <2>1, TypesOf DEF IInv
<1> QED BY <1>1, Invariance, PTL

-----------------------------------------------------------------------------
(* Refinement: an append publishes, a written line delivers, a commit      *)
(* commits; everything else, crashes and recoveries included, stutters.    *)

LEMMA WriteDelivers == ASSUME IInv, NEW p \in Procs, WriteLine(p) PROVE Delivery!Deliver
<1>1. /\ pc[p] = "write" /\ claim.by = p /\ torn = 0 /\ Len(file) < claim.through
      /\ Len(todo[p]) = claim.through - Len(file)
      /\ \A n \in 1..Len(todo[p]) : todo[p][n] = Len(file) + n
  BY DEF WriteLine, IInv, ProcessOK, HolderOK, TodoOK, Delivering, Writing
<1>2. claim # NoClaim
  BY <1>1, NoProcAssumption DEF NoClaim
<1>3. Len(file) < head
  BY <1>1, <1>2, TypesOf DEF IInv, ClaimOK
<1>4. Head(todo[p]) = Len(file) + 1
  <2>1. Len(todo[p]) \in Nat \ {0} /\ todo[p] \in Seq(Nat)
    BY <1>1, TypesOf DEF IInv
  <2> QED BY <1>1, <2>1
<1>5. file' = Append(file, Head(todo[p])) /\ UNCHANGED <<head, position>>
  BY <1>1 DEF WriteLine, dbVars
<1> QED BY <1>3, <1>4, <1>5 DEF Delivery!Deliver

LEMMA CommitCommits ==
    ASSUME IInv, NEW p \in Procs, CommitProjection(p)
    PROVE  Delivery!Commit \/ UNCHANGED <<head, file, position>>
<1>1. CASE Fail(p) /\ UNCHANGED <<position, claim>>
  BY <1>1 DEF CommitProjection, fileVars
<1>2. ASSUME position' = claim.through PROVE Delivery!Commit
  <2>1. pc[p] = "commit" /\ HolderOK(p) /\ TodoOK(p) /\ ClaimOK
    BY DEF CommitProjection, IInv, ProcessOK
  <2>2. claim.by = p /\ Len(file) = claim.through
    BY <2>1 DEF HolderOK, TodoOK, Delivering
  <2>3. claim # NoClaim
    BY <2>2, NoProcAssumption DEF NoClaim
  <2>4. claim.through \in (position + 1)..Len(file)
    BY <2>1, <2>2, <2>3, TypesOf DEF IInv, ClaimOK
  <2> QED BY <1>2, <2>4 DEF CommitProjection, fileVars, Delivery!Commit
<1> QED BY <1>1, <1>2 DEF CommitProjection

LEMMA StepDelivers == IInv /\ [Next]_vars => [Delivery!Next]_(Delivery!vars)
<1> SUFFICES ASSUME IInv, [Next]_vars PROVE Delivery!Next \/ UNCHANGED <<head, file, position>>
  BY DEF Delivery!vars
<1>1. ASSUME NEW p \in Procs, Construct(p) PROVE UNCHANGED <<head, file, position>>
  BY <1>1 DEF Construct, Open, EnsureCursor, InspectCursor, InspectClaim, RecoverAtStart,
     RecoverProjectionClaim, ReconcileHistory, dbVars, fileVars
<1>2. ASSUME NEW p \in Procs, AppendEvent(p) PROVE Delivery!Publish
  BY <1>2 DEF AppendEvent, fileVars, Delivery!Publish
<1>3. ASSUME NEW p \in Procs, DrainLoop(p)
      PROVE  Delivery!Next \/ UNCHANGED <<head, file, position>>
  <2>1. CASE WriteLine(p)
    BY <2>1, WriteDelivers DEF Delivery!Next
  <2>2. CASE CommitProjection(p)
    BY <2>2, CommitCommits DEF Delivery!Next
  <2>3. CASE Drain(p) \/ Recover(p) \/ Reconcile(p) \/ ClaimProjection(p) \/ AppendToSink(p)
    BY <2>3 DEF Drain, Recover, RecoverProjectionClaim, Reconcile, ClaimProjection,
       AppendToSink, dbVars, fileVars
  <2> QED BY <1>3, <2>1, <2>2, <2>3 DEF DrainLoop
<1>4. ASSUME NEW p \in Procs, Crash(p) PROVE UNCHANGED <<head, file, position>>
  BY <1>4 DEF Crash, dbVars
<1>5. CASE UNCHANGED vars
  BY <1>5 DEF vars, dbVars, fileVars
<1> QED BY <1>1, <1>2, <1>3, <1>4, <1>5 DEF Next, Delivery!Next

\* The projection implements the ordered delivery: every event once, in journal order, and
\* never committed before it is in the file (projecting-journal.ts).
THEOREM DeliversInOrder == Spec => ImplementsOrderedDelivery
<1>1. Init => Delivery!Init
  BY DEF Init, Delivery!Init
<1> QED BY <1>1, StepDelivers, Invariance, PTL DEF Spec, ImplementsOrderedDelivery, Delivery!Spec

-----------------------------------------------------------------------------
(* A projection that has the journal to itself.                            *)

\* A step of a running process that does not fail and keeps what it has read up to date.
LEMMA AloneStep ==
    ASSUME IInv, AloneInv, NEW p \in Procs, Running(p), UNCHANGED <<disturbed, failed>>,
           \A q \in Procs \ {p} : pc'[q] = pc[q],
           ~disturbed => UpToDate(p)'
    PROVE  AloneInv'
<1> SUFFICES ASSUME ~disturbed
             PROVE  /\ \A q, r \in Procs : Running(q)' /\ Running(r)' => q = r
                    /\ \A q \in Procs : ~failed'[q] /\ UpToDate(q)'
  BY DEF AloneInv
<1>0. \A q \in Procs : ~failed'[q]
  BY DEF AloneInv
<1>1. \A q \in Procs \ {p} : ~Running(q) /\ ~Running(q)'
  BY DEF AloneInv, Running
<1>2. \A q \in Procs \ {p} : UpToDate(q)'
  BY <1>1 DEF Running, UpToDate, Constructing
<1> QED BY <1>0, <1>1, <1>2 DEF AloneInv

\* Nobody else holds a claim that could not be recovered.
LEMMA HolderIsGone ==
    ASSUME IInv, AloneInv, ~disturbed, NEW p \in Procs, Running(p), claim # NoClaim, claim.by # p
    PROVE  pc[claim.by] = "gone"
BY DEF IInv, ProcessOK, HolderOK, Bystander, ClaimOK, AloneInv, Running

LEMMA AloneHistory ==
    ASSUME IInv, AloneInv, ~disturbed, NEW p \in Procs, pc[p] = "history"
    PROVE  HistoryMatches(p)
<1> DEFINE a == Authoritative(p)
           n == Len(file)
<1>1. cursor[p] = position /\ seen[p] = claim /\ sink[p].torn = torn
  BY DEF AloneInv, UpToDate, Constructing
<1>2. /\ position \in Nat /\ n \in Nat /\ torn \in Nat /\ claim.through \in Nat
      /\ position <= n /\ ClaimOK
      /\ \A k \in DOMAIN file : file[k] = k /\ DOMAIN file = 1..n
  BY TypesOf DEF IInv, TypeOK, FileIsHistory
<1>3. CASE claim = NoClaim
  <2>1. a = [k \in 1..position |-> k] \o <<>>
    BY <1>1, <1>3 DEF Authoritative
  <2>2. Len(a) = position /\ \A k \in 1..position : a[k] = k
    <3>1. [k \in 1..position |-> k] \in Seq(Nat)
      BY <1>2
    <3> QED BY <1>2, <2>1, <3>1, ConcatEmptySeq
  <2>3. n = position /\ torn = 0
    BY <1>2, <1>3 DEF IInv, FileIsHistory, ClaimOK
  <2> HIDE DEF a
  <2> QED BY <1>1, <1>2, <2>2, <2>3 DEF HistoryMatches, RetainedMatches, TornKnown, TornSuffix, a
<1>4. CASE claim # NoClaim
  <2>0. position < claim.through /\ n <= claim.through /\ claim.after = position
    BY <1>2, <1>4 DEF IInv, FileIsHistory, ClaimOK
  <2> DEFINE c == claim.through - position
             s == [k \in 1..position |-> k]
             t == [k \in 1..c |-> position + k]
  <2>1. /\ c \in Nat /\ position + c = claim.through
        /\ s \in Seq(Nat) /\ Len(s) = position /\ \A k \in 1..position : s[k] = k
        /\ t \in Seq(Nat) /\ Len(t) = c /\ \A k \in 1..c : t[k] = position + k
    <3>1. c \in Nat /\ position + c = claim.through
      BY <1>2, <2>0
    <3>2. s \in Seq(Nat) /\ Len(s) = position /\ \A k \in 1..position : s[k] = k
      BY <1>2
    <3> HIDE DEF c
    <3>3. t \in Seq(Nat) /\ Len(t) = c /\ \A k \in 1..c : t[k] = position + k
      BY <1>2, <3>1
    <3> QED BY <3>1, <3>2, <3>3
  <2>2. a = s \o t
    BY <1>1, <1>4, <2>0 DEF Authoritative
  <2> HIDE DEF a, s, t, c
  <2>3. Len(a) = claim.through /\ \A k \in 1..claim.through : a[k] = k
    <3>1. /\ Len(a) = position + c
          /\ \A k \in 1..(position + c) : a[k] = IF k <= position THEN s[k] ELSE t[k - position]
      BY ZenonT(60), <2>1, <2>2, ConcatProperties
    <3>2. ASSUME NEW k \in 1..claim.through PROVE a[k] = k
      <4>1. CASE k <= position
        BY <1>2, <2>1, <3>1, <4>1
      <4>2. CASE k > position
        <5>1. k - position \in 1..c /\ position + (k - position) = k
          BY <1>2, <2>1, <4>2
        <5> QED BY <1>2, <2>1, <3>1, <4>2, <5>1
      <4> QED BY <1>2, <4>1, <4>2
    <3> QED BY <2>1, <3>1, <3>2
  <2>4. RetainedMatches(p)
    BY <1>1, <1>2, <2>0, <2>3 DEF RetainedMatches, TornKnown, a
  <2>5. torn # 0 => n < Len(a) /\ a[n + 1] = torn
    BY <1>2, <2>0, <2>3 DEF ClaimOK
  <2> QED BY <1>1, <2>4, <2>5 DEF HistoryMatches, TornSuffix, a
<1> QED BY <1>3, <1>4

LEMMA AloneConstruct ==
    ASSUME IInv, AloneInv, NEW p \in Procs, Construct(p)
    PROVE  AloneInv'
<1> USE DEF IInv, TypeOK, Goto
<1>1. CASE Open(p)
  <2> SUFFICES ASSUME ~disturbed' PROVE AloneInv'
    BY DEF AloneInv
  <2>1. ~disturbed /\ \A q \in Procs : ~Running(q)
    BY <1>1 DEF Open
  <2>2. CASE Goto(p, "ensure")
    <3>1. \A q \in Procs : ~failed[q]
      BY <1>1, <2>1, <2>2 DEF Open, AloneInv
    <3>2. pc' = [pc EXCEPT ![p] = "ensure"] /\ UNCHANGED <<failed, torn>>
      BY <1>1, <2>2 DEF Open
    <3>3. sink' = [sink EXCEPT ![p] = [Unopened EXCEPT !.last = Last, !.torn = torn]]
      BY <1>1, <2>2 DEF Open
    <3>4. sink'[p].torn = torn
      BY <3>3 DEF Unopened
    <3>5. \A q \in Procs : UpToDate(q)'
      BY <2>1, <3>2, <3>4 DEF UpToDate, Constructing, Running
    <3> QED BY <2>1, <3>1, <3>2, <3>5 DEF AloneInv, Running
  <2>3. CASE pc' = [pc EXCEPT ![p] = "gone"]
    <3>1. created /\ ~exists /\ UNCHANGED <<created, exists>>
      BY <1>1, <2>3 DEF Open, dbVars
    <3>2. \A q \in Procs : ~Running(q)'
      BY <2>1, <2>3 DEF Running
    <3>3. \A q \in Procs : UpToDate(q)'
      BY <3>2 DEF UpToDate, Constructing, Running
    <3> QED BY <3>1, <3>2, <3>3 DEF AloneInv
  <2> QED BY <1>1, <2>2, <2>3 DEF Open
<1>2. CASE EnsureCursor(p)
  BY <1>2, AloneStep DEF EnsureCursor, UpToDate, Constructing, Running, AloneInv, fileVars
<1>3. CASE InspectCursor(p)
  BY <1>3, AloneStep DEF InspectCursor, UpToDate, Constructing, Running, AloneInv, dbVars,
     fileVars
<1>4. CASE InspectClaim(p)
  BY <1>4, AloneStep DEF InspectClaim, UpToDate, Constructing, Running, AloneInv, dbVars,
     fileVars
<1>5. CASE RecoverAtStart(p)
  <2>1. CASE disturbed'
    BY <2>1 DEF AloneInv
  <2>2. CASE ~disturbed'
    <3>0. ~disturbed
      BY <1>5, <2>2 DEF RecoverAtStart, RecoverProjectionClaim
    <3>1. Running(p) /\ claim # NoClaim /\ seen[p] = claim /\ claim.by # p
      BY <1>5, <3>0 DEF RecoverAtStart, AloneInv, UpToDate, ProcessOK, HolderOK, Bystander,
         Constructing, Running
    <3>2. Recoverable(p)
      BY <3>0, <3>1, HolderIsGone DEF Recoverable
    <3>3. /\ pc[p] = "recoverAtStart" /\ claim' = seen'[p]
          /\ Goto(p, "history") /\ UNCHANGED <<position, torn, cursor, sink, disturbed>>
      BY <1>5, <2>2, <3>2 DEF RecoverAtStart, RecoverProjectionClaim, fileVars
    <3>4. UpToDate(p)'
      BY <3>0, <3>3 DEF UpToDate, AloneInv, Constructing
    <3> QED BY <3>1, <3>3, <3>4, AloneStep
  <2> QED BY <2>1, <2>2
<1>6. CASE ReconcileHistory(p)
  <2>1. CASE disturbed
    BY <1>6, <2>1 DEF ReconcileHistory, AloneInv
  <2>2. CASE ~disturbed
    <3>1. /\ pc[p] = "history" /\ seen[p] = claim
          /\ Goto(p, IF seen[p] = NoClaim THEN "drain" ELSE "append")
          /\ UNCHANGED <<claim, disturbed>>
      BY <1>6, <2>2, AloneHistory DEF ReconcileHistory, AloneInv, UpToDate, dbVars
    <3> QED BY <3>1, AloneStep DEF UpToDate, Constructing, Running
  <2> QED BY <2>1, <2>2
<1> QED BY <1>1, <1>2, <1>3, <1>4, <1>5, <1>6 DEF Construct

LEMMA AloneDrain ==
    ASSUME IInv, AloneInv, NEW p \in Procs, DrainLoop(p)
    PROVE  AloneInv'
<1> USE DEF IInv, TypeOK, Goto
<1>0. ASSUME disturbed PROVE AloneInv'
  BY <1>0 DEF AloneInv, DrainLoop, Drain, Recover, RecoverProjectionClaim, Reconcile,
     ClaimProjection, AppendToSink, WriteLine, CommitProjection
<1> SUFFICES ASSUME ~disturbed PROVE AloneInv'
  BY <1>0
<1>1. UpToDate(p)
  BY DEF AloneInv
<1>2. CASE Drain(p)
  <2>1. /\ pc[p] = "drain" /\ Goto(p, "claim") /\ UNCHANGED <<claim, disturbed>> /\ claim = NoClaim
    BY <1>1, <1>2 DEF Drain, UpToDate, NoClaim, dbVars
  <2> QED BY <2>1, AloneStep DEF UpToDate, Constructing, Running
<1>3. CASE Recover(p) \/ Reconcile(p)
  BY <1>1, <1>3 DEF Recover, Reconcile, UpToDate
<1>4. CASE ClaimProjection(p)
  <2>1. pc[p] = "claim" /\ claim = NoClaim
    BY <1>1, <1>4 DEF ClaimProjection, UpToDate
  <2>2. /\ UNCHANGED <<failed, disturbed>>
        /\ \/ Goto(p, "append")
           \/ Goto(p, "idle") /\ UNCHANGED claim
    BY <1>4, <2>1 DEF ClaimProjection
  <2> QED BY <2>1, <2>2, AloneStep DEF UpToDate, Constructing, Running
<1>5. CASE AppendToSink(p)
  <2>1. /\ pc[p] = "append" /\ sink[p].torn = 0 /\ sink[p].last <= Len(file)
        /\ Undelivered(p) = (Len(file) + 1)..claim.through
    BY <1>5, UndeliveredIsRest DEF AppendToSink, ProcessOK, SinkOK, Draining
  <2>2. \A n \in Undelivered(p) : n > sink[p].last
    BY <2>1, TypesOf
  <2>3. /\ Goto(p, IF Undelivered(p) = {} THEN "commit" ELSE "write")
        /\ UNCHANGED disturbed
    BY <1>5, <2>1, <2>2 DEF AppendToSink
  <2> QED BY <2>1, <2>3, AloneStep DEF UpToDate, Constructing, Running
<1>6. CASE WriteLine(p)
  BY <1>6, AloneStep DEF WriteLine, UpToDate, Constructing, Running
<1>7. CASE CommitProjection(p)
  <2>1. pc[p] = "commit" /\ claim = seen[p]
    BY <1>7 DEF CommitProjection, ProcessOK, HolderOK, Delivering
  <2>2. Goto(p, "drain") /\ claim' = NoClaim /\ UNCHANGED disturbed
    BY <1>7, <2>1 DEF CommitProjection
  <2> QED BY <2>1, <2>2, AloneStep DEF UpToDate, Constructing, Running
<1> QED BY <1>2, <1>3, <1>4, <1>5, <1>6, <1>7 DEF DrainLoop

LEMMA StepAlone == IInv /\ AloneInv /\ [Next]_vars => AloneInv'
<1> SUFFICES ASSUME IInv, AloneInv, [Next]_vars PROVE AloneInv'
  OBVIOUS
<1> USE DEF IInv, TypeOK, Goto
<1>1. ASSUME NEW p \in Procs, AppendEvent(p) PROVE AloneInv'
  <2>1. CASE disturbed
    BY <1>1, <2>1 DEF AppendEvent, AloneInv
  <2>2. CASE ~disturbed
    <3>1. pc[p] = "idle" /\ Goto(p, "drain") /\ claim = NoClaim /\ UNCHANGED <<claim, disturbed>>
      BY <1>1, <2>2 DEF AppendEvent, AloneInv, UpToDate, Running
    <3> QED BY <3>1, AloneStep DEF UpToDate, Constructing, Running
  <2> QED BY <2>1, <2>2
<1>2. ASSUME NEW p \in Procs, Crash(p) PROVE AloneInv'
  <2>1. Running(p) /\ UNCHANGED <<disturbed, failed>> /\ pc' = [pc EXCEPT ![p] = "gone"]
    BY <1>2 DEF Crash
  <2>2. UpToDate(p)'
    BY <2>1 DEF UpToDate, Constructing
  <2> QED BY <2>1, <2>2, AloneStep
<1>3. CASE UNCHANGED vars
  BY <1>3 DEF vars, dbVars, fileVars, AloneInv, UpToDate, Running
<1> QED BY <1>1, <1>2, <1>3, AloneConstruct, AloneDrain DEF Next

\* Processes that run one after another recover from each other's crashes, a torn line
\* included, unless one has died between creating the trace and its cursor, when every later
\* open is refused: a drain or a constructor throws only when two processes have run at the
\* same time or the pid of a dead one read as live (projecting-journal.ts, main.ts l.1612,
\* sqlite-journal.ts l.1231).
THEOREM RecoversAlone == Spec => []AloneRecovers
<1>1. Init => AloneInv
  BY NoClaimType DEF Init, AloneInv, UpToDate, Constructing, Running
<1>2. AloneInv => AloneRecovers
  BY DEF AloneInv, AloneRecovers
<1> QED BY <1>1, <1>2, StepAlone, Invariance, PTL DEF Spec
=============================================================================
