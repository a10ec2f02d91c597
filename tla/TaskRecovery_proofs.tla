------------------------- MODULE TaskRecovery_proofs ------------------------
(***************************************************************************)
(* Proofs about the execution of one task and what is done about one that  *)
(* was cut short, for any number of recoverers, whatever each is called    *)
(* for: the invariant of the run, the recoveries, the stream and git; that *)
(* a completed task leaves nothing behind and a change that landed can be  *)
(* recovered; and that TaskRecovery implements HonestOutcome.              *)
(*                                                                         *)
(* The argument: the events of a stream come in one shape, whoever appends *)
(* them, so that what has happened can be read off its set of events and   *)
(* its last one; the change lands only behind integration_prepared and the *)
(* worktree goes only behind cleanup_started; and a call that acts on what *)
(* it saw is safe, either because what it saw cannot be taken back, or     *)
(* because the stream has grown since, which is on record (overtaken).     *)
(***************************************************************************)
EXTENDS TaskRecovery, SequenceTheorems, TLAPS

-----------------------------------------------------------------------------
(* The shape of a stream, by the set of its events and the last of them:   *)
(* what the projection lets through never leaves it.                       *)
Shape(past, last) ==
    /\ last \in past /\ past \subseteq Events
    /\ last \in Into.queued => past \subseteq Into.queued
    /\ last \notin Into.integrating \cup Into.terminal => past \cap Into.integrating = {}
    /\ last = "integration_started" => past \cap Into.integrating \subseteq {"integration_started"}
    /\ last = "integration_prepared" =>
           past \cap Into.integrating \subseteq {"integration_started", "integration_prepared"}
    /\ last \in Observations => past \cap CleanupBegun = {}
    /\ past \cap Into.terminal # {} => last \in Into.terminal
    /\ "integration_observed" \in past => /\ "integration_prepared" \in past
                                          /\ "integration_unverified" \notin past
    /\ past \cap CleanupBegun # {} => {"integration_observed", "cleanup_started"} \subseteq past
(* What is in the stream; the task has ended; the change is on the branch  *)
(* and its candidate is gone.                                              *)
Past == Range(log)
EndsWith(e) == log # <<>> /\ Last(log) = e
Closed == log # <<>> /\ Terminal(log)
Settled == Landed /\ ~candidate

(* The stream has a shape; an unverified integration leaves a pause        *)
(* behind; and who completes a task finds it clean, unless the run         *)
(* overtook him.                                                           *)
StreamOK ==
    /\ log # <<>> => Shape(Past, Last(log))
    /\ EndsWith("integration_unverified") => mark # "none"
    /\ EndsWith("completed") => "completion" \in overtaken \/ (ticket = "gone" /\ Settled)

(* The change lands behind its preparation, and the worktree goes behind   *)
(* the landing and the start of the cleanup.                               *)
GitOK ==
    /\ Landed => "integration_prepared" \in Past
    /\ ticket = "gone" => Settled /\ "cleanup_started" \in Past

(* Where the run is: with the change committed in its worktree, with the   *)
(* task leased to it, before the swap, and in its cleanup.                 *)
AtSource == {"announce", "enter", "build", "record", "guard", "swap"}
Leased == {"begin", "work", "artifact", "validate", "review", "policy", "stage", "commit",
           "unsure"} \cup AtSource
Unswapped == {"create", "prepare", "worktree", "adopt", "lease", "reject"} \cup Leased
Tidying == {"verify", "removeTree", "deleteRef", "finishCleanup", "obstructed", "complete"}
(* The worktree stays at the change until the cleanup starts, but for a    *)
(* bounded cleanup the run overtook, or after the end of the task.         *)
SourceKept(past, closed) ==
    ticket = "source" \/ "cleanup_started" \in past \/ "cleanup" \in overtaken \/ closed
(* What the run may rely on at each place.                                 *)
RunAt(place, past, closed) ==
    /\ place \in Unswapped => ref = "before"
    /\ place \in Leased => "leased" \in past /\ (closed => "cleanup" \in overtaken)
    /\ place \in AtSource \/ Landed => SourceKept(past, closed)
    /\ place \in {"record", "guard", "swap", "reconcile", "tidy"} => candidate
    /\ place \in {"guard", "swap"} => "integration_prepared" \in past
    /\ place \in {"tidy", "unlock"} =>
           \/ receipt = "failed" /\ ref = "before"
           \/ receipt = "completed" /\ Landed
           \/ receipt = "uncertain"
    /\ (place = "unlock" /\ receipt = "completed") \/ place \in {"check", "observe"} =>
           (candidate => failures)
    /\ place = "observe" => Landed
    /\ place = "startCleanup" => Settled /\ "integration_observed" \in past
    /\ place \in Tidying => Settled /\ "cleanup_started" \in past
    /\ place \in {"finishCleanup", "complete"} => ticket = "gone"
    /\ place = "terminate" => (Landed => "integration_observed" \in past)
RunOK == RunAt(pc[Run], Past, Closed)

(* What a recovery call may rely on at each place; Looked: it has seen an  *)
(* event that is still there.                                              *)
Cleaning == {"assert", "verify", "removeTree", "deleteRef", "reread", "hindered"}
Authorizing == {"issue", "compare", "append"}
Looked(c) == c.seen \in 1..Len(log)
RecoveryAt(place, c) ==
    /\ place = "inspect" => log # <<>>
    /\ place \in {"judge", "retain", "bound"} => Looked(c)
    /\ place \in Cleaning \cup Authorizing \cup {"read"} => Settled
    /\ place = "read" =>
           /\ Looked(c)
           /\ \/ log[c.seen] \in {"integration_prepared", "integration_observed"}
              \/ log[c.seen] \in CleanupBegun /\ ticket = "gone"
    /\ place \in Authorizing =>
           /\ c.path \in Paths
           /\ c.path \in CleanupBegun \cup {"cleaned"} =>
                  ticket = "gone" \/ "completion" \in overtaken
    /\ place \in Cleaning => "cleanup_started" \in Past
    /\ place = "reread" => ticket = "gone"
    /\ place \in {"unlease", "unleaseTree", "unleaseRef", "abandon"} =>
           Looked(c) /\ log[c.seen] = "worktree_creation_started"
RecoveryOK(r) == RecoveryAt(pc[r], call[r])

(* Types, those that TypeOK leaves open included.                          *)
RecoveryPlaces == RecoveryPC \cup CleanupPC \cup {"idle"}
Call == [seen : Nat, mark : Marks, path : Paths \cup {"none"},
         snapshot : {<<>>} \cup ((Nat \X Marks) \X Refs \X Tickets)]
TypesOK ==
    /\ TypeOK
    /\ duty \in Duties
    /\ call \in [Recoverers -> Call]
    /\ pc[Run] \in RunPC \cup CleanupPC \cup {"ended"}
    /\ \A r \in Recoverers : pc[r] \in RecoveryPlaces

TaskInv == TypesOK /\ StreamOK /\ GitOK /\ RunOK /\ \A r \in Recoverers : RecoveryOK(r)

-----------------------------------------------------------------------------
(* The stream.                                                             *)
LEMMA LifecycleOf ==
    ASSUME NEW l \in DOMAIN Into, NEW e \in Into[l]
    PROVE  Lifecycle(e) = l
<1>1. \A k \in DOMAIN Into : e \in Into[k] => k = l
  BY DEF Into
<1> QED BY <1>1 DEF Lifecycle

(* What is accepted keeps the shape.                                       *)
LEMMA ShapeKept ==
    ASSUME NEW s \in Seq(Events), NEW e, Accepts(s, e), Shape(Range(s), Last(s))
    PROVE  e \in Events /\ Shape(Range(s) \cup {e}, e)
<1>1. PICK l \in DOMAIN Into : Last(s) \in Into[l]
  BY DEF Shape, Events
<1>2. e \in OutOf[l] /\ l # "terminal" /\ InOrder(s, e)
  BY <1>1, LifecycleOf DEF Accepts, Terminal, Into
<1>3. l \in {"queued", "leased", "running", "validating", "awaiting_review",
            "integration_ready", "integrating"}
  BY <1>2 DEF Into
<1>4. e \in Events
  BY <1>2, <1>3 DEF OutOf, Into, Events
<1>5. CASE l = "integrating"
  BY <1>1, <1>2, <1>5, <1>4 DEF OutOf, Into, Shape, InOrder, Has, Observations, CleanupBegun
<1>6. CASE l = "integration_ready"
  BY <1>1, <1>2, <1>6, <1>4 DEF OutOf, Into, Shape, InOrder, Has, Observations, CleanupBegun
<1>7. CASE l \in {"queued", "leased", "running", "validating", "awaiting_review"}
  BY <1>1, <1>2, <1>7, <1>4 DEF OutOf, Into, Shape, InOrder, Has, Observations, CleanupBegun
<1> QED BY <1>3, <1>5, <1>6, <1>7, <1>4

LEMMA Longer ==
    ASSUME NEW s \in Seq(Events), NEW e \in Events
    PROVE  /\ s \o <<e>> \in Seq(Events) /\ s \o <<e>> # <<>>
           /\ Len(s \o <<e>>) = Len(s) + 1
           /\ \A i \in 1..Len(s) : (s \o <<e>>)[i] = s[i]
           /\ Range(s \o <<e>>) = Range(s) \cup {e}
           /\ Last(s \o <<e>>) = e
<1> DEFINE t == s \o <<e>>
<1>1. /\ t \in Seq(Events) /\ Len(t) = Len(s) + 1 /\ Len(s) \in Nat
      /\ \A i \in 1..Len(s) : t[i] = s[i]
      /\ t[Len(s) + 1] = e
  OBVIOUS
<1>2. DOMAIN t = 1..(Len(s) + 1) /\ DOMAIN s = 1..Len(s)
  BY <1>1
<1> HIDE DEF t
<1>3. Range(t) = Range(s) \cup {e}
  BY <1>1, <1>2 DEF Range
<1>4. Last(t) = e /\ t # <<>>
  BY <1>1 DEF Last
<1> QED BY <1>1, <1>3, <1>4 DEF t

LEMMA NothingAccepted ==
    ASSUME NEW s \in Seq(Events)
    PROVE  s \o <<>> = s
OBVIOUS

LEMMA OneAccepted ==
    ASSUME NEW s \in Seq(Events), NEW e, AcceptsAll(s, <<e>>)
    PROVE  Accepts(s, e)
<1>1. DOMAIN <<e>> = {1} /\ <<e>>[1] = e /\ SubSeq(<<e>>, 1, 1 - 1) = <<>>
  OBVIOUS
<1>2. Accepts(s \o <<>>, e)
  BY <1>1 DEF AcceptsAll
<1> QED BY <1>2, NothingAccepted

LEMMA TwoAccepted ==
    ASSUME NEW s \in Seq(Events), NEW e, NEW f, AcceptsAll(s, <<e, f>>)
    PROVE  Accepts(s, e) /\ Accepts(s \o <<e>>, f)
<1>1. DOMAIN <<e, f>> = {1, 2} /\ <<e, f>>[1] = e /\ <<e, f>>[2] = f
  OBVIOUS
<1>2. SubSeq(<<e, f>>, 1, 1 - 1) = <<>> /\ SubSeq(<<e, f>>, 1, 2 - 1) = <<e>>
  <2>1. <<e, f>> \in Seq({e, f}) /\ Len(<<e, f>>) = 2 /\ <<e, f>>[1] = e
    OBVIOUS
  <2>2. PICK t : t = SubSeq(<<e, f>>, 1, 2 - 1)
    OBVIOUS
  <2>3. t \in Seq({e, f}) /\ Len(t) = 1 /\ t[1] = e
    BY <2>1, <2>2
  <2>4. t = <<e>>
    BY <2>3
  <2>5. SubSeq(<<e, f>>, 1, 1 - 1) = <<>>
    OBVIOUS
  <2> QED BY <2>2, <2>4, <2>5
<1>3. Accepts(s \o <<>>, e)
  BY <1>1, <1>2 DEF AcceptsAll
<1>4. Accepts(s \o <<e>>, f)
  BY <1>1, <1>2 DEF AcceptsAll
<1> QED BY <1>3, <1>4, NothingAccepted

-----------------------------------------------------------------------------
(* Steps. What no step takes back: the stream, the landing with its        *)
(* candidate gone, and the end of the worktree.                            *)
Onward ==
    /\ log' \in Seq(Events) /\ Len(log) <= Len(log')
    /\ \A i \in 1..Len(log) : log'[i] = log[i]
    /\ Past \subseteq Past'
    /\ Closed => log' = log
    /\ Landed => Landed'
    /\ Settled => Settled'
    /\ ticket = "gone" => ticket' = "gone"
    /\ overtaken \subseteq overtaken'
Honest == [Promise!Next]_(Promise!vars)
Kept == TaskInv' /\ Honest

LEMMA RecoveryKept ==
    ASSUME TaskInv, Onward, NEW r \in Recoverers, pc'[r] = pc[r], call'[r] = call[r]
    PROVE  RecoveryOK(r)'
<1>1. RecoveryOK(r) /\ log \in Seq(Events)
  BY DEF TaskInv, TypesOK, TypeOK
<1>2. log' \in Seq(Events) /\ Len(log) \in Nat /\ Len(log') \in Nat /\ Len(log) <= Len(log')
  BY <1>1 DEF Onward
<1>3. log # <<>> => log' # <<>>
  BY <1>1, <1>2
<1> DEFINE c == call[r]
<1>4. ASSUME Looked(c)
      PROVE  c.seen \in 1..Len(log') /\ log'[c.seen] = log[c.seen]
  <2>1. c.seen \in 1..Len(log)
    BY <1>4 DEF Looked
  <2>2. c.seen \in 1..Len(log')
    BY <2>1, <1>2
  <2> QED BY <2>1, <2>2 DEF Onward
<1>5. /\ Settled => Settled'
      /\ ticket = "gone" => ticket' = "gone"
      /\ "completion" \in overtaken => "completion" \in overtaken'
      /\ "cleanup_started" \in Past => "cleanup_started" \in Past'
  BY DEF Onward
<1> HIDE DEF TaskInv, Onward
<1> QED BY <1>1, <1>3, <1>4, <1>5 DEF RecoveryOK, RecoveryAt, Looked

(* The run where it is, while others act.                                  *)
LEMMA RunKept ==
    ASSUME TaskInv, Onward, pc'[Run] = pc[Run], receipt' = receipt, candidate' = candidate,
           failures' = failures, ref = "before" => ref' = "before",
           pc[Run] \in AtSource \/ Landed => SourceKept(Past, Closed)',
           pc[Run] \in Leased => (Closed' => "cleanup" \in overtaken')
    PROVE  RunOK'
<1>1. RunOK
  BY DEF TaskInv
<1>2. /\ Past \subseteq Past'
      /\ Landed <=> Landed'
      /\ Settled => Settled'
      /\ ticket = "gone" => ticket' = "gone"
  BY DEF Onward, Landed
<1> HIDE DEF TaskInv, Onward
<1> QED BY <1>1, <1>2 DEF RunOK, RunAt, Landed, Leased, Unswapped

(* The promise, of a step that appends nothing and of one that does.       *)
LEMMA HonestStill ==
    ASSUME TaskInv, log' = log, Landed' <=> Landed, ticket' = "gone" <=> ticket = "gone",
           ("cleanup" \in overtaken' <=> "cleanup" \in overtaken) \/
               ("cleanup" \in overtaken' /\ ~Closed)
    PROVE  Honest
  BY DEF Honest, Promise!Next, Promise!vars, Has, Outcome, Closed

LEMMA HonestAppend ==
    ASSUME TaskInv, log # <<>>, ~Closed, log' # <<>>, Past \subseteq Past',
           Landed' <=> Landed, ticket' = "gone" <=> ticket = "gone",
           "cleanup" \in overtaken => "cleanup" \in overtaken',
           Terminal(log)' => Last(log') \in {"completed", "failed"},
           ~Terminal(log)' \/ "integration_observed" \notin Past'
               \/ "integration_observed" \in Past,
           "integration_observed" \in Past' => Landed \/ "integration_observed" \in Past,
           Terminal(log)' =>
              \/ "cleanup" \in overtaken'
              \/ "integration_observed" \in Past
              \/ Last(log') = "failed" /\ ~Landed
    PROVE  Honest
<1> DEFINE Told == IF "cleanup" \in overtaken THEN "open" ELSE Outcome
           Known == Has(log, "integration_observed")
           Stays == ticket # "gone"
<1>1. Told = "open"
  BY DEF Outcome, Closed
<1>2. /\ Known <=> "integration_observed" \in Past
      /\ Known' <=> "integration_observed" \in Past'
      /\ Stays' = Stays
  BY DEF Has, Past
<1>5. Landed' = Landed
  BY DEF Landed
<1>3. CASE Terminal(log)' /\ "cleanup" \notin overtaken'
  <2>1. Told' = Last(log')
    BY <1>3 DEF Outcome
  <2>2. Known' = Known
    <3>1. Known' <=> Known
      BY <1>2, <1>3
    <3> QED BY <3>1 DEF Has
  <2>3. \/ Told' = "completed" /\ Known
        \/ Told' = "failed" /\ (Landed => Known)
    BY <2>1, <1>2, <1>3
  <2>4. Promise!End
    BY <2>2, <2>3, <1>1, <1>2, <1>5 DEF Promise!End
  <2> QED BY <2>4 DEF Honest, Promise!Next
<1>4. CASE Terminal(log)' => "cleanup" \in overtaken'
  <2>1. Told' = "open"
    BY <1>4 DEF Outcome
  <2>2. CASE Known' <=> Known
    <3>1. Known' = Known
      BY <2>2 DEF Has
    <3> HIDE DEF Known, Stays, Told
    <3>2. <<Landed, Known, Stays, Told>>' = <<Landed, Known, Stays, Told>>
      BY <3>1, <2>1, <1>1, <1>2, <1>5
    <3> QED BY <3>2 DEF Honest, Promise!vars, Known, Stays, Told
  <2>3. CASE ~(Known' <=> Known)
    <3>1. Known' /\ ~Known /\ Landed
      BY <2>3, <1>2
    <3>2. Promise!Record
      BY <3>1, <2>1, <1>1, <1>2 DEF Promise!Record
    <3> QED BY <3>2 DEF Honest, Promise!Next
  <2> QED BY <2>2, <2>3
<1> QED BY <1>3, <1>4

-----------------------------------------------------------------------------
(* What an append does to the stream.                                      *)
LEMMA Appends ==
    ASSUME TaskInv, NEW e, Accepts(log, e), log' = log \o <<e>>
    PROVE  /\ e \in Events /\ log' \in Seq(Events)
           /\ log # <<>> /\ log' # <<>> /\ ~Closed
           /\ Past' = Past \cup {e} /\ Last(log') = e
           /\ Shape(Past', e)
           /\ Closed' <=> e \in Into.terminal
           /\ Len(log') = Len(log) + 1 /\ Len(log) \in Nat
           /\ \A i \in 1..Len(log) : log'[i] = log[i]
<1>1. log \in Seq(Events) /\ log # <<>> /\ Shape(Past, Last(log))
  BY DEF TaskInv, TypesOK, TypeOK, StreamOK, Accepts
<1>2. e \in Events /\ Shape(Past \cup {e}, e)
  BY <1>1, ShapeKept DEF Past
<1>3. /\ log' \in Seq(Events) /\ log' # <<>>
      /\ Past' = Past \cup {e} /\ Last(log') = e
      /\ Len(log') = Len(log) + 1
      /\ \A i \in 1..Len(log) : log'[i] = log[i]
  BY <1>1, <1>2, Longer DEF Past
<1>4. ~Closed /\ (Closed' <=> e \in Into.terminal)
  BY <1>3 DEF Closed, Accepts, Terminal
<1>5. Len(log) \in Nat
  BY <1>1
<1> QED BY <1>1, <1>2, <1>3, <1>4, <1>5

LEMMA Appended ==
    ASSUME TaskInv, NEW e, AppendAll(<<e>>) \/ Pause(<<e>>)
    PROVE  Accepts(log, e) /\ log' = log \o <<e>> /\ mark' \in Marks
           /\ (Pause(<<e>>) => mark' = "uncertain")
<1>1. log \in Seq(Events)
  BY DEF TaskInv, TypesOK, TypeOK
<1>2. AcceptsAll(log, <<e>>) /\ log' = log \o <<e>> /\ mark' \in {"none", "uncertain"}
  BY DEF AppendAll, Pause
<1> QED BY <1>1, <1>2, OneAccepted DEF Marks, Pause

LEMMA JustPaused ==
    ASSUME TaskInv, Pause(<<>>)
    PROVE  log' = log /\ mark' = "uncertain" /\ ~Closed /\ log # <<>>
<1>1. log \in Seq(Events)
  BY DEF TaskInv, TypesOK, TypeOK
<1> QED BY <1>1, NothingAccepted DEF Pause, Closed

LEMMA Evidence ==
    ASSUME TaskInv, "cleanup_started" \in Past
    PROVE  "integration_observed" \in Past
<1>1. log # <<>>
  BY DEF Past, Range
<1> QED BY <1>1 DEF TaskInv, StreamOK, Shape, CleanupBegun, Into

(* The run appends an event.                                               *)
LEMMA RunAppends ==
    ASSUME TaskInv, NEW e, Accepts(log, e), log' = log \o <<e>>, mark' \in Marks,
           e = "integration_unverified" => mark' = "uncertain",
           NEW place \in RunPC \cup CleanupPC \cup {"ended"}, Goto(Run, place), Keeping,
           RunAt(place, Past \cup {e}, e \in Into.terminal),
           e = "integration_observed" => Landed,
           e = "failed" => (Landed => "integration_observed" \in Past),
           e = "completed" => ticket = "gone" /\ Settled
    PROVE  Kept
<1>1. /\ e \in Events /\ log' \in Seq(Events)
      /\ log # <<>> /\ log' # <<>> /\ ~Closed
      /\ Past' = Past \cup {e} /\ Last(log') = e
      /\ Shape(Past', e)
      /\ Closed' <=> e \in Into.terminal
      /\ Len(log') = Len(log) + 1 /\ Len(log) \in Nat
      /\ \A i \in 1..Len(log) : log'[i] = log[i]
  BY Appends
<1>2. UNCHANGED <<ticket, candidate, failures, ref, stale, lease, duty, receipt, call, overtaken>>
  BY DEF Keeping, git, local
<1>3. pc' = [pc EXCEPT ![Run] = place] /\ pc \in [Procs -> PC] /\ TypesOK /\ StreamOK /\ GitOK
  BY DEF Goto, TaskInv, TypesOK, TypeOK
<1>4. pc'[Run] = place /\ (\A r \in Recoverers : pc'[r] = pc[r]) /\ pc' \in [Procs -> PC]
  BY <1>3, ProcsAssumption DEF Procs, PC
<1>5. TypesOK'
  BY <1>1, <1>2, <1>3, <1>4 DEF TypesOK, TypeOK
<1>6. Onward
  BY <1>1, <1>2 DEF Onward, Landed, Settled
<1>7. StreamOK' /\ GitOK'
  BY <1>1, <1>2, <1>3 DEF StreamOK, GitOK, EndsWith, Landed, Settled
<1>8. RunOK'
  BY <1>1, <1>2, <1>4 DEF RunOK, RunAt, SourceKept, Landed, Settled
<1>9. \A r \in Recoverers : RecoveryOK(r)'
  BY <1>2, <1>4, <1>6, RecoveryKept
<1>10. Honest
  <2>1. e \in Into.terminal => e \in {"completed", "failed"}
    BY DEF Into
  <2>2. "integration_observed" \notin Into.terminal
    BY DEF Into
  <2>3. Terminal(log)' <=> e \in Into.terminal
    BY <1>1 DEF Closed
  <2>4. e = "completed" => "integration_observed" \in Past
    BY <1>1, <1>3 DEF GitOK, StreamOK, Shape, CleanupBegun, Into
  <2>5. Landed' <=> Landed
    BY <1>2 DEF Landed
  <2> QED BY <1>1, <1>2, <2>1, <2>2, <2>3, <2>4, <2>5, HonestAppend
<1> QED BY <1>5, <1>7, <1>8, <1>9, <1>10 DEF Kept, TaskInv

(* The run moves and appends nothing; a pause is no event.                 *)
LEMMA RunMoves ==
    ASSUME TaskInv, log' = log, mark' = mark \/ mark' = "uncertain",
           NEW place \in RunPC \cup CleanupPC \cup {"ended"}, Goto(Run, place),
           UNCHANGED <<ref, duty, call, overtaken>>,
           ticket' \in Tickets, ticket' = "gone" <=> ticket = "gone",
           candidate' \in BOOLEAN, failures' \in BOOLEAN, stale' \in BOOLEAN,
           lease' \in [owner : Procs \cup {NoProc}, live : BOOLEAN],
           receipt' \in {"none", "completed", "failed", "uncertain"},
           Settled => ~candidate',
           RunAt(place, Past, Closed)'
    PROVE  Kept
<1>2. UNCHANGED <<ref, duty, call, overtaken>>
  OBVIOUS
<1>3. pc' = [pc EXCEPT ![Run] = place] /\ pc \in [Procs -> PC] /\ TypesOK /\ StreamOK /\ GitOK
  BY DEF Goto, TaskInv, TypesOK, TypeOK
<1>4. pc'[Run] = place /\ (\A r \in Recoverers : pc'[r] = pc[r]) /\ pc' \in [Procs -> PC]
  BY <1>3, ProcsAssumption DEF Procs, PC
<1>1. log \in Seq(Events) /\ Past' = Past /\ (Closed' <=> Closed) /\ Len(log) \in Nat
  BY <1>3 DEF TypesOK, TypeOK, Past, Closed, Terminal
<1>5. TypesOK'
  BY <1>1, <1>2, <1>3, <1>4 DEF TypesOK, TypeOK, Marks
<1>6. Onward
  BY <1>1, <1>2 DEF Onward, Landed, Settled
<1>7. StreamOK' /\ GitOK'
  BY <1>1, <1>2, <1>3, <1>6 DEF StreamOK, GitOK, EndsWith, Landed, Onward
<1>8. RunOK'
  BY <1>4 DEF RunOK
<1>9. \A r \in Recoverers : RecoveryOK(r)'
  BY <1>2, <1>4, <1>6, RecoveryKept
<1>10. Honest
  BY <1>2, HonestStill DEF Landed
<1> QED BY <1>5, <1>7, <1>8, <1>9, <1>10 DEF Kept, TaskInv

-----------------------------------------------------------------------------
(* The steps of the run. Those that append, or pause, or throw.            *)
LEMMA RunTries ==
    ASSUME TaskInv, NEW e,
           NEW then \in RunPC \cup CleanupPC \cup {"ended"},
           NEW otherwise \in RunPC \cup CleanupPC \cup {"ended"},
           Try(<<e>>, then, otherwise), Keeping,
           e # "integration_unverified",
           ~Closed => RunAt(then, Past \cup {e}, e \in Into.terminal),
           RunAt(otherwise, Past, Closed),
           e = "integration_observed" => Landed,
           e = "failed" => (Landed => "integration_observed" \in Past),
           e = "completed" => ticket = "gone" /\ Settled
    PROVE  Kept
<1>1. CASE AppendAll(<<e>>) /\ Goto(Run, then)
  <2>1. ~Closed
    BY <1>1, Appended, Appends
  <2> QED BY <1>1, <2>1, Appended, RunAppends
<1>2. CASE UNCHANGED stream /\ Goto(Run, otherwise)
  <2>1. /\ UNCHANGED <<log, mark, ticket, candidate, failures, ref, stale, lease,
                       duty, receipt, call, overtaken>>
        /\ TypeOK
    BY <1>2 DEF Keeping, git, local, stream, TaskInv, TypesOK
  <2>2. RunAt(otherwise, Past, Closed)'
    BY <2>1 DEF RunAt, SourceKept, Landed, Settled, Past, Closed, Terminal
  <2> QED BY <1>2, <2>1, <2>2, RunMoves DEF TypeOK, Settled
<1> QED BY <1>1, <1>2 DEF Try

LEMMA RunPauses ==
    ASSUME TaskInv, NEW e, NEW otherwise \in RunPC \cup CleanupPC \cup {"ended"},
           TryPause(<<e>>, otherwise), Keeping, e \notin Into.terminal,
           ~Closed => RunAt("ended", Past \cup {e}, FALSE),
           RunAt(otherwise, Past, Closed),
           e = "integration_observed" => Landed
    PROVE  Kept
<1>1. CASE Pause(<<e>>) /\ Goto(Run, "ended")
  <2>1. e \notin {"failed", "completed"}
    BY DEF Into
  <2>2. RunAt("ended", Past \cup {e}, e \in Into.terminal)
    <3>1. ~Closed
      BY <1>1, Appended, Appends
    <3> QED BY <3>1 DEF RunAt, SourceKept
  <2> QED BY <1>1, <2>1, <2>2, Appended, RunAppends
<1>2. CASE UNCHANGED stream /\ Goto(Run, otherwise)
  <2>1. /\ UNCHANGED <<log, mark, ticket, candidate, failures, ref, stale, lease,
                       duty, receipt, call, overtaken>>
        /\ TypeOK
    BY <1>2 DEF Keeping, git, local, stream, TaskInv, TypesOK
  <2>2. RunAt(otherwise, Past, Closed)'
    BY <2>1 DEF RunAt, SourceKept, Landed, Settled, Past, Closed, Terminal
  <2> QED BY <1>2, <2>1, <2>2, RunMoves DEF TypeOK, Settled
<1> QED BY <1>1, <1>2 DEF TryPause

LEMMA RunJustPauses ==
    ASSUME TaskInv, NEW otherwise \in RunPC \cup CleanupPC \cup {"ended"},
           TryPause(<<>>, otherwise), Keeping,
           RunAt("ended", Past, Closed), RunAt(otherwise, Past, Closed)
    PROVE  Kept
<1>1. PICK place \in {"ended", otherwise} :
          /\ Goto(Run, place) /\ log' = log /\ (mark' = mark \/ mark' = "uncertain")
  BY JustPaused DEF TryPause, stream
<1>2. /\ UNCHANGED <<log, ticket, candidate, failures, ref, stale, lease,
                     duty, receipt, call, overtaken>>
      /\ TypeOK
  BY <1>1 DEF Keeping, git, local, TaskInv, TypesOK
<1>3. RunAt(place, Past, Closed)'
  BY <1>1, <1>2 DEF RunAt, SourceKept, Landed, Settled, Past, Closed, Terminal
<1>4. place \in RunPC \cup CleanupPC \cup {"ended"}
  OBVIOUS
<1> QED BY <1>1, <1>2, <1>3, <1>4, RunMoves DEF TypeOK, Settled

LEMMA LeaseTaskHolds ==
    ASSUME TaskInv, LeaseTask
    PROVE  Kept
<1>1. RunOK /\ StreamOK /\ GitOK /\ Keeping
  BY DEF TaskInv, LeaseTask
<1>2. /\ RunAt("begin", Past \cup {"leased"}, "leased" \in Into.terminal)
      /\ RunAt("terminate", Past, Closed)
  BY <1>1 DEF LeaseTask, RunOK, RunAt, SourceKept, Leased, Unswapped, AtSource, Tidying, Into,
              Landed, Settled, GitOK
<1>3. Try(<<"leased">>, "begin", "terminate")
  BY DEF LeaseTask
<1> QED BY <1>1, <1>2, <1>3, RunTries DEF RunPC, CleanupPC, RunOK, RunAt, Unswapped,
                                         Tidying, LeaseTask, Landed, Leased, AtSource

LEMMA BeginHolds ==
    ASSUME TaskInv, Begin
    PROVE  Kept
<1>1. RunOK /\ StreamOK /\ GitOK /\ Keeping
  BY DEF TaskInv, Begin
<1>2. /\ RunAt("work", Past \cup {"started"}, "started" \in Into.terminal)
      /\ RunAt("terminate", Past, Closed)
  BY <1>1 DEF Begin, RunOK, RunAt, SourceKept, Leased, Unswapped, AtSource, Tidying, Into,
              Landed, Settled, GitOK
<1>3. Try(<<"started">>, "work", "terminate")
  BY DEF Begin
<1> QED BY <1>1, <1>2, <1>3, RunTries DEF RunPC, CleanupPC, RunOK, RunAt, Unswapped,
                                         Tidying, Begin, Landed, Leased, AtSource

LEMMA RecordArtifactHolds ==
    ASSUME TaskInv, RecordArtifact
    PROVE  Kept
<1>1. RunOK /\ StreamOK /\ GitOK /\ Keeping
  BY DEF TaskInv, RecordArtifact
<1>2. /\ RunAt("validate", Past \cup {"validation_started"}, "validation_started" \in Into.terminal)
      /\ RunAt("terminate", Past, Closed)
  BY <1>1 DEF RecordArtifact, RunOK, RunAt, SourceKept, Leased, Unswapped, AtSource, Tidying, Into,
              Landed, Settled, GitOK
<1>3. Try(<<"validation_started">>, "validate", "terminate")
  BY DEF RecordArtifact
<1> QED BY <1>1, <1>2, <1>3, RunTries DEF RunPC, CleanupPC, RunOK, RunAt, Unswapped,
                                         Tidying, RecordArtifact, Landed, Leased, AtSource

LEMMA AnnounceHolds ==
    ASSUME TaskInv, Announce
    PROVE  Kept
<1>1. RunOK /\ StreamOK /\ GitOK /\ Keeping
  BY DEF TaskInv, Announce
<1>2. /\ RunAt("enter", Past \cup {"integration_started"}, "integration_started" \in Into.terminal)
      /\ RunAt("terminate", Past, Closed)
  BY <1>1 DEF Announce, RunOK, RunAt, SourceKept, Leased, Unswapped, AtSource, Tidying, Into,
              Landed, Settled, GitOK
<1>3. Try(<<"integration_started">>, "enter", "terminate")
  BY DEF Announce
<1> QED BY <1>1, <1>2, <1>3, RunTries DEF RunPC, CleanupPC, RunOK, RunAt, Unswapped,
                                         Tidying, Announce, Landed, Leased, AtSource

LEMMA TerminateHolds ==
    ASSUME TaskInv, Terminate
    PROVE  Kept
<1>1. RunOK /\ StreamOK /\ GitOK /\ Keeping
  BY DEF TaskInv, Terminate
<1>2. /\ RunAt("ended", Past \cup {"failed"}, "failed" \in Into.terminal)
      /\ RunAt("ended", Past, Closed)
  BY <1>1 DEF Terminate, RunOK, RunAt, SourceKept, Leased, Unswapped, AtSource, Tidying, Into,
              Landed, Settled, GitOK
<1>3. Try(<<"failed">>, "ended", "ended")
  BY DEF Terminate
<1> QED BY <1>1, <1>2, <1>3, RunTries DEF RunPC, CleanupPC, RunOK, RunAt, Unswapped,
                                         Tidying, Terminate, Landed, Leased, AtSource

LEMMA RejectHolds ==
    ASSUME TaskInv, Reject
    PROVE  Kept
<1>1. RunOK /\ StreamOK /\ GitOK /\ Keeping
  BY DEF TaskInv, Reject
<1>2. /\ RunAt("ended", Past \cup {"failed"}, "failed" \in Into.terminal)
      /\ RunAt("uncertain", Past, Closed)
  BY <1>1 DEF Reject, RunOK, RunAt, SourceKept, Leased, Unswapped, AtSource, Tidying, Into,
              Landed, Settled, GitOK
<1>3. Try(<<"failed">>, "ended", "uncertain")
  BY DEF Reject
<1> QED BY <1>1, <1>2, <1>3, RunTries DEF RunPC, CleanupPC, RunOK, RunAt, Unswapped,
                                         Tidying, Reject, Landed, Leased, AtSource

LEMMA StartCleanupHolds ==
    ASSUME TaskInv, StartCleanup
    PROVE  Kept
<1>1. RunOK /\ StreamOK /\ GitOK /\ Keeping
  BY DEF TaskInv, StartCleanup
<1>2. /\ RunAt("verify", Past \cup {"cleanup_started"}, "cleanup_started" \in Into.terminal)
      /\ RunAt("terminate", Past, Closed)
  BY <1>1 DEF StartCleanup, RunOK, RunAt, SourceKept, Leased, Unswapped, AtSource, Tidying, Into,
              Landed, Settled, GitOK
<1>3. Try(<<"cleanup_started">>, "verify", "terminate")
  BY DEF StartCleanup
<1> QED BY <1>1, <1>2, <1>3, RunTries DEF RunPC, CleanupPC, RunOK, RunAt, Unswapped,
                                         Tidying, StartCleanup, Landed, Leased, AtSource

LEMMA FinishCleanupHolds ==
    ASSUME TaskInv, FinishCleanup
    PROVE  Kept
<1>1. RunOK /\ StreamOK /\ GitOK /\ Keeping
  BY DEF TaskInv, FinishCleanup
<1>2. /\ RunAt("complete", Past \cup {"cleanup_completed"}, "cleanup_completed" \in Into.terminal)
      /\ RunAt("terminate", Past, Closed)
  BY <1>1, Evidence DEF FinishCleanup, RunOK, RunAt, SourceKept, Leased, Unswapped, AtSource, Tidying, Into,
              Landed, Settled, GitOK
<1>3. Try(<<"cleanup_completed">>, "complete", "terminate")
  BY DEF FinishCleanup
<1> QED BY <1>1, <1>2, <1>3, RunTries DEF RunPC, CleanupPC, RunOK, RunAt, Unswapped,
                                         Tidying, FinishCleanup, Landed, Leased, AtSource

LEMMA CompleteHolds ==
    ASSUME TaskInv, Complete
    PROVE  Kept
<1>1. RunOK /\ StreamOK /\ GitOK /\ Keeping
  BY DEF TaskInv, Complete
<1>2. /\ RunAt("ended", Past \cup {"completed"}, "completed" \in Into.terminal)
      /\ RunAt("ended", Past, Closed)
  BY <1>1 DEF Complete, RunOK, RunAt, SourceKept, Leased, Unswapped, AtSource, Tidying, Into,
              Landed, Settled, GitOK
<1>3. Try(<<"completed">>, "ended", "ended")
  BY DEF Complete
<1> QED BY <1>1, <1>2, <1>3, RunTries DEF RunPC, CleanupPC, RunOK, RunAt, Unswapped,
                                         Tidying, Complete, Landed, Leased, AtSource

LEMMA ValidateHolds ==
    ASSUME TaskInv, Validate
    PROVE  Kept
<1>1. RunOK /\ StreamOK /\ GitOK /\ Keeping
  BY DEF TaskInv, Validate
<1>2. /\ RunAt("review", Past \cup {"review_requested"}, "review_requested" \in Into.terminal)
      /\ RunAt("ended", Past \cup {"failed"}, "failed" \in Into.terminal)
      /\ RunAt("terminate", Past, Closed)
      /\ ~Landed
  BY <1>1 DEF Validate, RunOK, RunAt, SourceKept, Leased, Unswapped, AtSource, Tidying, Into,
              Landed, Settled, GitOK
<1>3. CASE Try(<<"review_requested">>, "review", "terminate")
  BY <1>1, <1>2, <1>3, RunTries DEF RunPC
<1>4. CASE Try(<<"failed">>, "ended", "terminate")
  BY <1>1, <1>2, <1>4, RunTries DEF RunPC
<1> QED BY <1>3, <1>4 DEF Validate

LEMMA ReviewHolds ==
    ASSUME TaskInv, Review
    PROVE  Kept
<1>1. RunOK /\ StreamOK /\ GitOK /\ Keeping
  BY DEF TaskInv, Review
<1>2. /\ RunAt("policy", Past \cup {"review_approved"}, "review_approved" \in Into.terminal)
      /\ RunAt("ended", Past \cup {"failed"}, "failed" \in Into.terminal)
      /\ RunAt("terminate", Past, Closed)
      /\ ~Landed
  BY <1>1 DEF Review, RunOK, RunAt, SourceKept, Leased, Unswapped, AtSource, Tidying, Into,
              Landed, Settled, GitOK
<1>3. CASE Try(<<"review_approved">>, "policy", "terminate")
  BY <1>1, <1>2, <1>3, RunTries DEF RunPC
<1>4. CASE Try(<<"failed">>, "ended", "terminate")
  BY <1>1, <1>2, <1>4, RunTries DEF RunPC
<1> QED BY <1>3, <1>4 DEF Review

LEMMA PrepareHolds ==
    ASSUME TaskInv, Prepare
    PROVE  Kept
<1>1. RunOK /\ StreamOK /\ GitOK /\ Keeping
  BY DEF TaskInv, Prepare
<1>2. /\ RunAt("worktree", Past \cup {"worktree_creation_started"},
                "worktree_creation_started" \in Into.terminal)
      /\ RunAt("ended", Past, Closed)
      /\ RunAt("terminate", Past, Closed)
  BY <1>1 DEF Prepare, RunOK, RunAt, SourceKept, Leased, Unswapped, AtSource, Tidying, Into,
              Landed, Settled, GitOK
<1>3. CASE Try(<<"worktree_creation_started">>, "worktree", "terminate")
  <2>1. "worktree" \in RunPC /\ "terminate" \in RunPC
    BY DEF RunPC
  <2>2. ~Closed => RunAt("worktree", Past \cup {"worktree_creation_started"},
                         "worktree_creation_started" \in Into.terminal)
    BY <1>2
  <2>3. Keeping /\ RunAt("terminate", Past, Closed)
    BY <1>1, <1>2
  <2> HIDE DEF Prepare
  <2> QED BY <1>3, <2>1, <2>2, <2>3, RunTries
<1>4. CASE TryPause(<<>>, "ended")
  BY <1>1, <1>2, <1>4, RunJustPauses DEF RunPC
<1> QED BY <1>3, <1>4 DEF Prepare

LEMMA PauseUncertainHolds ==
    ASSUME TaskInv, PauseUncertain
    PROVE  Kept
<1>1. RunOK /\ StreamOK /\ GitOK /\ Keeping /\ TryPause(<<>>, "ended")
  BY DEF TaskInv, PauseUncertain
<1>2. RunAt("ended", Past, Closed)
  BY <1>1 DEF PauseUncertain, RunOK, RunAt, SourceKept, Leased, Unswapped, AtSource, Tidying, Into,
              Landed, Settled, GitOK
<1> QED BY <1>1, <1>2, RunJustPauses

LEMMA CommitUncertainHolds ==
    ASSUME TaskInv, CommitUncertain
    PROVE  Kept
<1>1. RunOK /\ StreamOK /\ GitOK /\ Keeping /\ TryPause(<<"commit_observed">>, "ended")
  BY DEF TaskInv, CommitUncertain
<1>2. RunAt("ended", Past \cup {"commit_observed"}, FALSE) /\ RunAt("ended", Past, Closed)
  BY <1>1 DEF CommitUncertain, RunOK, RunAt, SourceKept, Leased, Unswapped, AtSource, Tidying, Into,
              Landed, Settled, GitOK
<1> QED BY <1>1, <1>2, RunPauses DEF Into

LEMMA UncertainHolds ==
    ASSUME TaskInv, Uncertain
    PROVE  Kept
<1>1. RunOK /\ StreamOK /\ GitOK /\ Keeping /\ TryPause(<<"integration_unverified">>, "ended")
  BY DEF TaskInv, Uncertain
<1>2. /\ ~Closed => RunAt("ended", Past \cup {"integration_unverified"}, FALSE)
      /\ RunAt("ended", Past, Closed)
  BY <1>1 DEF Uncertain, RunOK, RunAt, SourceKept, Leased, Unswapped, AtSource, Tidying
<1> QED BY <1>1, <1>2, RunPauses DEF Into

LEMMA CleanupUncertainHolds ==
    ASSUME TaskInv, CleanupUncertain
    PROVE  Kept
<1>1. /\ RunOK /\ StreamOK /\ GitOK /\ Keeping
      /\ TryPause(<<"cleanup_observed">>, "terminate")
  BY DEF TaskInv, CleanupUncertain
<1>2. /\ RunAt("ended", Past \cup {"cleanup_observed"}, FALSE)
      /\ RunAt("terminate", Past, Closed)
  BY <1>1, Evidence DEF CleanupUncertain, RunOK, RunAt, SourceKept, Leased, Unswapped, AtSource, Tidying, Into,
              Landed, Settled, GitOK
<1> QED BY <1>1, <1>2, RunPauses DEF Into, RunPC

LEMMA ObserveHolds ==
    ASSUME TaskInv, Observe
    PROVE  Kept
<1>1. RunOK /\ StreamOK /\ GitOK /\ Keeping /\ Landed
  BY DEF TaskInv, Observe, RunOK, RunAt
<1>2. RunAt("uncertain", Past, Closed)
  BY <1>1 DEF Observe, RunOK, RunAt, SourceKept, Leased, Unswapped, AtSource, Tidying, Into,
              Landed, Settled, GitOK
<1>3. CASE failures
  <2>1. TryPause(<<"integration_observed">>, "uncertain")
    BY <1>3 DEF Observe
  <2>2. ~Closed => RunAt("ended", Past \cup {"integration_observed"}, FALSE)
    BY <1>1 DEF Observe, RunOK, RunAt, SourceKept, Leased, Unswapped, AtSource, Tidying
  <2> QED BY <2>1, <2>2, <1>1, <1>2, RunPauses DEF Into, RunPC
<1>4. CASE ~failures
  <2>1. Try(<<"integration_observed">>, "startCleanup", "uncertain")
    BY <1>4 DEF Observe
  <2>2. ~Closed => RunAt("startCleanup", Past \cup {"integration_observed"},
              "integration_observed" \in Into.terminal)
    BY <1>1, <1>4 DEF Observe, RunOK, RunAt, SourceKept, Leased, Unswapped, AtSource, Tidying, Into,
              Landed, Settled, GitOK
  <2> QED BY <2>1, <2>2, <1>1, <1>2, RunTries DEF RunPC
<1> QED BY <1>3, <1>4


-----------------------------------------------------------------------------
(* Those that append nothing.                                              *)
LEMMA RunGoes ==
    ASSUME TaskInv, NEW place \in RunPC \cup CleanupPC \cup {"ended"}, Goto(Run, place),
           UNCHANGED <<stream, ref, duty, call, overtaken>>,
           ticket' \in Tickets, ticket' = "gone" <=> ticket = "gone",
           candidate' \in BOOLEAN, failures' \in BOOLEAN, stale' \in BOOLEAN,
           lease' \in [owner : Procs \cup {NoProc}, live : BOOLEAN],
           receipt' \in {"none", "completed", "failed", "uncertain"},
           Settled => ~candidate',
           RunAt(place, Past, Closed)'
    PROVE  Kept
  BY RunMoves DEF stream

LEMMA SamePast ==
    ASSUME UNCHANGED stream
    PROVE  Past' = Past /\ (Closed' <=> Closed)
  BY DEF stream, Past, Closed, Terminal

LEMMA LeaseTypes ==
    ASSUME TaskInv, NEW p \in Procs
    PROVE  /\ Acquire(p) => lease' \in [owner : Procs \cup {NoProc}, live : BOOLEAN]
           /\ Release(p) => lease' \in [owner : Procs \cup {NoProc}, live : BOOLEAN]
<1>1. lease \in [owner : Procs \cup {NoProc}, live : BOOLEAN]
  BY DEF TaskInv, TypesOK, TypeOK
<1>2. /\ [owner |-> p, live |-> TRUE] \in [owner : Procs \cup {NoProc}, live : BOOLEAN]
      /\ [owner |-> NoProc, live |-> FALSE] \in [owner : Procs \cup {NoProc}, live : BOOLEAN]
  OBVIOUS
<1> QED BY <1>1, <1>2, Zenon DEF Acquire, Release

LEMMA AddWorktreeHolds ==
    ASSUME TaskInv, AddWorktree
    PROVE  Kept
<1>1. RunOK /\ StreamOK /\ GitOK /\ TypeOK
  BY DEF TaskInv, TypesOK
<1>2. PICK place \in {"lease", "terminate", "pause"} : Goto(Run, place)
  BY DEF AddWorktree, Leaving
<1>3. /\ UNCHANGED <<stream, ref, duty, call, overtaken>>
      /\ ticket' \in Tickets /\ (ticket' = "gone" <=> ticket = "gone")
      /\ candidate' \in BOOLEAN /\ failures' \in BOOLEAN /\ stale' \in BOOLEAN
      /\ lease' \in [owner : Procs \cup {NoProc}, live : BOOLEAN]
      /\ receipt' \in {"none", "completed", "failed", "uncertain"}
      /\ Settled => ~candidate'
  BY <1>1 DEF AddWorktree, TypeOK, Tickets, git, local, Keeping, Receive, Leaving, GitOK,
              RunOK, RunAt, SourceKept, Leased, Unswapped, AtSource, Tidying, Landed,
              Settled
<1>4. RunAt(place, Past, Closed)'
  BY <1>1, <1>2, <1>3, SamePast, Evidence DEF AddWorktree, Goto, TypeOK, Procs, GitOK, Tickets, git, local, Keeping, Receive, Leaving,
              RunOK, RunAt, SourceKept, Leased, Unswapped, AtSource, Tidying, Landed,
              Settled
<1> QED BY <1>2, <1>3, <1>4, RunGoes DEF RunPC, CleanupPC

LEMMA AdoptHolds ==
    ASSUME TaskInv, Adopt
    PROVE  Kept
<1>1. RunOK /\ StreamOK /\ GitOK /\ TypeOK
  BY DEF TaskInv, TypesOK
<1>2. PICK place \in {"lease", "terminate", "ended"} : Goto(Run, place)
  BY DEF Adopt, Leaving
<1>3. /\ UNCHANGED <<stream, ref, duty, call, overtaken>>
      /\ ticket' \in Tickets /\ (ticket' = "gone" <=> ticket = "gone")
      /\ candidate' \in BOOLEAN /\ failures' \in BOOLEAN /\ stale' \in BOOLEAN
      /\ lease' \in [owner : Procs \cup {NoProc}, live : BOOLEAN]
      /\ receipt' \in {"none", "completed", "failed", "uncertain"}
      /\ Settled => ~candidate'
  BY <1>1 DEF Adopt, TypeOK, Tickets, git, local, Keeping, Receive, Leaving, GitOK,
              RunOK, RunAt, SourceKept, Leased, Unswapped, AtSource, Tidying, Landed,
              Settled
<1>4. RunAt(place, Past, Closed)'
  BY <1>1, <1>2, <1>3, SamePast, Evidence DEF Adopt, Goto, TypeOK, Procs, GitOK, Tickets, git, local, Keeping, Receive, Leaving,
              RunOK, RunAt, SourceKept, Leased, Unswapped, AtSource, Tidying, Landed,
              Settled
<1> QED BY <1>2, <1>3, <1>4, RunGoes DEF RunPC, CleanupPC

LEMMA ResumeHolds ==
    ASSUME TaskInv, Resume
    PROVE  Kept
<1>1. RunOK /\ StreamOK /\ GitOK /\ TypeOK
  BY DEF TaskInv, TypesOK
<1>2. PICK place \in {"adopt"} : Goto(Run, place)
  BY DEF Resume, Leaving
<1>3. /\ UNCHANGED <<stream, ref, duty, call, overtaken>>
      /\ ticket' \in Tickets /\ (ticket' = "gone" <=> ticket = "gone")
      /\ candidate' \in BOOLEAN /\ failures' \in BOOLEAN /\ stale' \in BOOLEAN
      /\ lease' \in [owner : Procs \cup {NoProc}, live : BOOLEAN]
      /\ receipt' \in {"none", "completed", "failed", "uncertain"}
      /\ Settled => ~candidate'
  BY <1>1 DEF Resume, TypeOK, Tickets, git, local, Keeping, Receive, Leaving, GitOK,
              RunOK, RunAt, SourceKept, Leased, Unswapped, AtSource, Tidying, Landed,
              Settled
<1>5. ~Landed
  BY <1>1 DEF Resume, StreamOK, Shape, GitOK, Into
<1>4. RunAt(place, Past, Closed)'
  BY <1>1, <1>2, <1>3, <1>5, SamePast DEF Resume, Goto, TypeOK, Procs, GitOK, Tickets, git, local, Keeping, Receive, Leaving,
              RunOK, RunAt, SourceKept, Leased, Unswapped, AtSource, Tidying, Landed,
              Settled
<1> QED BY <1>2, <1>3, <1>4, RunGoes DEF RunPC, CleanupPC

LEMMA WorkHolds ==
    ASSUME TaskInv, Work
    PROVE  Kept
<1>1. RunOK /\ StreamOK /\ GitOK /\ TypeOK
  BY DEF TaskInv, TypesOK
<1>2. PICK place \in {"artifact", "terminate", "pause"} : Goto(Run, place)
  BY DEF Work, Leaving
<1>3. /\ UNCHANGED <<stream, ref, duty, call, overtaken>>
      /\ ticket' \in Tickets /\ (ticket' = "gone" <=> ticket = "gone")
      /\ candidate' \in BOOLEAN /\ failures' \in BOOLEAN /\ stale' \in BOOLEAN
      /\ lease' \in [owner : Procs \cup {NoProc}, live : BOOLEAN]
      /\ receipt' \in {"none", "completed", "failed", "uncertain"}
      /\ Settled => ~candidate'
  BY <1>1 DEF Work, TypeOK, Tickets, git, local, Keeping, Receive, Leaving, GitOK,
              RunOK, RunAt, SourceKept, Leased, Unswapped, AtSource, Tidying, Landed,
              Settled
<1>4. RunAt(place, Past, Closed)'
  BY <1>1, <1>2, <1>3, SamePast, Evidence DEF Work, Goto, TypeOK, Procs, GitOK, Tickets, git, local, Keeping, Receive, Leaving,
              RunOK, RunAt, SourceKept, Leased, Unswapped, AtSource, Tidying, Landed,
              Settled
<1> QED BY <1>2, <1>3, <1>4, RunGoes DEF RunPC, CleanupPC

LEMMA StageHolds ==
    ASSUME TaskInv, Stage
    PROVE  Kept
<1>1. RunOK /\ StreamOK /\ GitOK /\ TypeOK
  BY DEF TaskInv, TypesOK
<1>2. PICK place \in {"commit", "terminate"} : Goto(Run, place)
  BY DEF Stage, Leaving
<1>3. /\ UNCHANGED <<stream, ref, duty, call, overtaken>>
      /\ ticket' \in Tickets /\ (ticket' = "gone" <=> ticket = "gone")
      /\ candidate' \in BOOLEAN /\ failures' \in BOOLEAN /\ stale' \in BOOLEAN
      /\ lease' \in [owner : Procs \cup {NoProc}, live : BOOLEAN]
      /\ receipt' \in {"none", "completed", "failed", "uncertain"}
      /\ Settled => ~candidate'
  BY <1>1 DEF Stage, TypeOK, Tickets, git, local, Keeping, Receive, Leaving, GitOK,
              RunOK, RunAt, SourceKept, Leased, Unswapped, AtSource, Tidying, Landed,
              Settled
<1>4. RunAt(place, Past, Closed)'
  BY <1>1, <1>2, <1>3, SamePast, Evidence DEF Stage, Goto, TypeOK, Procs, GitOK, Tickets, git, local, Keeping, Receive, Leaving,
              RunOK, RunAt, SourceKept, Leased, Unswapped, AtSource, Tidying, Landed,
              Settled
<1> QED BY <1>2, <1>3, <1>4, RunGoes DEF RunPC, CleanupPC

LEMMA CommitHolds ==
    ASSUME TaskInv, Commit
    PROVE  Kept
<1>1. RunOK /\ StreamOK /\ GitOK /\ TypeOK
  BY DEF TaskInv, TypesOK
<1>2. PICK place \in {"announce", "terminate", "unsure"} : Goto(Run, place)
  BY DEF Commit, Goto
<1>3. /\ UNCHANGED <<stream, ref, duty, call, overtaken>>
      /\ ticket' \in Tickets /\ (ticket' = "gone" <=> ticket = "gone")
      /\ candidate' \in BOOLEAN /\ failures' \in BOOLEAN /\ stale' \in BOOLEAN
      /\ lease' \in [owner : Procs \cup {NoProc}, live : BOOLEAN]
      /\ receipt' \in {"none", "completed", "failed", "uncertain"}
      /\ Settled => ~candidate'
  BY <1>1 DEF Commit, TypeOK, Tickets, git, local, Keeping, Receive, Leaving, GitOK,
              RunOK, RunAt, SourceKept, Leased, Unswapped, AtSource, Tidying, Landed,
              Settled
<1>4. RunAt(place, Past, Closed)'
  BY <1>1, <1>2, <1>3, SamePast, Evidence DEF Commit, Goto, TypeOK, Procs, GitOK, Tickets, git, local, Keeping, Receive, Leaving,
              RunOK, RunAt, SourceKept, Leased, Unswapped, AtSource, Tidying, Landed,
              Settled
<1> QED BY <1>2, <1>3, <1>4, RunGoes DEF RunPC, CleanupPC

LEMMA EnterHolds ==
    ASSUME TaskInv, Enter
    PROVE  Kept
<1>1. RunOK /\ StreamOK /\ GitOK /\ TypeOK
  BY DEF TaskInv, TypesOK
<1>2. PICK place \in {"build", "terminate"} : Goto(Run, place)
  BY DEF Enter, Leaving
<1>3. /\ UNCHANGED <<stream, ref, duty, call, overtaken>>
      /\ UNCHANGED <<ticket, candidate, failures, stale, receipt>>
  BY DEF Enter, git, local
<1>5. lease' \in [owner : Procs \cup {NoProc}, live : BOOLEAN]
  BY <1>1, LeaseTypes DEF Enter, TypeOK, Procs
<1>4. RunAt(place, Past, Closed)'
  BY <1>1, <1>2, <1>3, SamePast, Evidence DEF Enter, Goto, TypeOK, Procs, GitOK, Tickets, git, local, Keeping, Receive, Leaving,
              RunOK, RunAt, SourceKept, Leased, Unswapped, AtSource, Tidying, Landed,
              Settled, Acquire
<1>6. /\ ticket \in Tickets /\ candidate \in BOOLEAN /\ failures \in BOOLEAN /\ stale \in BOOLEAN
      /\ receipt \in {"none", "completed", "failed", "uncertain"}
  BY <1>1 DEF TypeOK
<1>7. ticket' \in Tickets /\ (ticket' = "gone" <=> ticket = "gone") /\ (Settled => ~candidate')
      /\ candidate' \in BOOLEAN /\ failures' \in BOOLEAN /\ stale' \in BOOLEAN
      /\ receipt' \in {"none", "completed", "failed", "uncertain"}
  BY <1>3, <1>6 DEF Settled
<1> QED BY <1>2, <1>3, <1>4, <1>5, <1>7, RunGoes DEF RunPC

LEMMA BuildHolds ==
    ASSUME TaskInv, Build
    PROVE  Kept
<1>1. RunOK /\ StreamOK /\ GitOK /\ TypeOK
  BY DEF TaskInv, TypesOK
<1>2. PICK place \in {"record", "tidy", "unlock"} : Goto(Run, place)
  BY DEF Build, Leaving
<1>3. /\ UNCHANGED <<stream, ref, duty, call, overtaken>>
      /\ ticket' \in Tickets /\ (ticket' = "gone" <=> ticket = "gone")
      /\ candidate' \in BOOLEAN /\ failures' \in BOOLEAN /\ stale' \in BOOLEAN
      /\ lease' \in [owner : Procs \cup {NoProc}, live : BOOLEAN]
      /\ receipt' \in {"none", "completed", "failed", "uncertain"}
      /\ Settled => ~candidate'
  BY <1>1 DEF Build, TypeOK, Tickets, git, local, Keeping, Receive, Leaving, GitOK,
              RunOK, RunAt, SourceKept, Leased, Unswapped, AtSource, Tidying, Landed,
              Settled
<1>4. RunAt(place, Past, Closed)'
  BY <1>1, <1>2, <1>3, SamePast, Evidence DEF Build, Goto, TypeOK, Procs, GitOK, Tickets, git, local, Keeping, Receive, Leaving,
              RunOK, RunAt, SourceKept, Leased, Unswapped, AtSource, Tidying, Landed,
              Settled
<1> QED BY <1>2, <1>3, <1>4, RunGoes DEF RunPC, CleanupPC

LEMMA GuardHolds ==
    ASSUME TaskInv, Guard
    PROVE  Kept
<1>1. RunOK /\ StreamOK /\ GitOK /\ TypeOK
  BY DEF TaskInv, TypesOK
<1>2. PICK place \in {"swap", "tidy"} : Goto(Run, place)
  BY DEF Guard, Leaving
<1>3. /\ UNCHANGED <<stream, ref, duty, call, overtaken>>
      /\ ticket' \in Tickets /\ (ticket' = "gone" <=> ticket = "gone")
      /\ candidate' \in BOOLEAN /\ failures' \in BOOLEAN /\ stale' \in BOOLEAN
      /\ lease' \in [owner : Procs \cup {NoProc}, live : BOOLEAN]
      /\ receipt' \in {"none", "completed", "failed", "uncertain"}
      /\ Settled => ~candidate'
  BY <1>1 DEF Guard, TypeOK, Tickets, git, local, Keeping, Receive, Leaving, GitOK,
              RunOK, RunAt, SourceKept, Leased, Unswapped, AtSource, Tidying, Landed,
              Settled
<1>4. RunAt(place, Past, Closed)'
  BY <1>1, <1>2, <1>3, SamePast, Evidence DEF Guard, Goto, TypeOK, Procs, GitOK, Tickets, git, local, Keeping, Receive, Leaving,
              RunOK, RunAt, SourceKept, Leased, Unswapped, AtSource, Tidying, Landed,
              Settled
<1> QED BY <1>2, <1>3, <1>4, RunGoes DEF RunPC, CleanupPC

LEMMA ReconcileHolds ==
    ASSUME TaskInv, Reconcile
    PROVE  Kept
<1>1. RunOK /\ StreamOK /\ GitOK /\ TypeOK
  BY DEF TaskInv, TypesOK
<1>2. PICK place \in {"tidy", "unlock"} : Goto(Run, place)
  BY DEF Reconcile, Leaving
<1>3. /\ UNCHANGED <<stream, ref, duty, call, overtaken>>
      /\ ticket' \in Tickets /\ (ticket' = "gone" <=> ticket = "gone")
      /\ candidate' \in BOOLEAN /\ failures' \in BOOLEAN /\ stale' \in BOOLEAN
      /\ lease' \in [owner : Procs \cup {NoProc}, live : BOOLEAN]
      /\ receipt' \in {"none", "completed", "failed", "uncertain"}
      /\ Settled => ~candidate'
  BY <1>1 DEF Reconcile, TypeOK, Tickets, git, local, Keeping, Receive, Leaving, GitOK,
              RunOK, RunAt, SourceKept, Leased, Unswapped, AtSource, Tidying, Landed,
              Settled
<1>4. RunAt(place, Past, Closed)'
  BY <1>1, <1>2, <1>3, SamePast, Evidence DEF Reconcile, Goto, TypeOK, Procs, GitOK, Tickets, git, local, Keeping, Receive, Leaving,
              RunOK, RunAt, SourceKept, Leased, Unswapped, AtSource, Tidying, Landed,
              Settled
<1> QED BY <1>2, <1>3, <1>4, RunGoes DEF RunPC, CleanupPC

LEMMA TidyHolds ==
    ASSUME TaskInv, Tidy
    PROVE  Kept
<1>1. RunOK /\ StreamOK /\ GitOK /\ TypeOK
  BY DEF TaskInv, TypesOK
<1>2. PICK place \in {"unlock"} : Goto(Run, place)
  BY DEF Tidy, Leaving
<1>3. /\ UNCHANGED <<stream, ref, duty, call, overtaken>>
      /\ ticket' \in Tickets /\ (ticket' = "gone" <=> ticket = "gone")
      /\ candidate' \in BOOLEAN /\ failures' \in BOOLEAN /\ stale' \in BOOLEAN
      /\ lease' \in [owner : Procs \cup {NoProc}, live : BOOLEAN]
      /\ receipt' \in {"none", "completed", "failed", "uncertain"}
      /\ Settled => ~candidate'
  BY <1>1 DEF Tidy, TypeOK, Tickets, git, local, Keeping, Receive, Leaving, GitOK,
              RunOK, RunAt, SourceKept, Leased, Unswapped, AtSource, Tidying, Landed,
              Settled
<1>4. RunAt(place, Past, Closed)'
  BY <1>1, <1>2, <1>3, SamePast, Evidence DEF Tidy, Goto, TypeOK, Procs, GitOK, Tickets, git, local, Keeping, Receive, Leaving,
              RunOK, RunAt, SourceKept, Leased, Unswapped, AtSource, Tidying, Landed,
              Settled
<1> QED BY <1>2, <1>3, <1>4, RunGoes DEF RunPC, CleanupPC

LEMMA UnlockHolds ==
    ASSUME TaskInv, Unlock
    PROVE  Kept
<1>1. RunOK /\ StreamOK /\ GitOK /\ TypeOK
  BY DEF TaskInv, TypesOK
<1>2. PICK place \in {"check", "reject", "uncertain"} : Goto(Run, place)
  BY <1>1 DEF Unlock, RunOK, RunAt
<1>3. /\ UNCHANGED <<stream, ref, duty, call, overtaken>>
      /\ ticket' \in Tickets /\ (ticket' = "gone" <=> ticket = "gone")
      /\ candidate' \in BOOLEAN /\ failures' \in BOOLEAN /\ stale' \in BOOLEAN
      /\ lease' \in [owner : Procs \cup {NoProc}, live : BOOLEAN]
      /\ receipt' \in {"none", "completed", "failed", "uncertain"}
      /\ Settled => ~candidate'
  BY <1>1 DEF Unlock, TypeOK, Tickets, git, local, Keeping, Receive, Leaving, GitOK,
              RunOK, RunAt, SourceKept, Leased, Unswapped, AtSource, Tidying, Landed,
              Settled, Release
<1>4. RunAt(place, Past, Closed)'
  BY <1>1, <1>2, <1>3, SamePast, Evidence DEF Unlock, Goto, TypeOK, Procs, GitOK, Tickets, git, local, Keeping, Receive, Leaving,
              RunOK, RunAt, SourceKept, Leased, Unswapped, AtSource, Tidying, Landed,
              Settled, Release
<1> QED BY <1>2, <1>3, <1>4, RunGoes DEF RunPC, CleanupPC

LEMMA CheckReceiptHolds ==
    ASSUME TaskInv, CheckReceipt
    PROVE  Kept
<1>1. RunOK /\ StreamOK /\ GitOK /\ TypeOK
  BY DEF TaskInv, TypesOK
<1>2. PICK place \in {"observe", "uncertain"} : Goto(Run, place)
  BY DEF CheckReceipt, Leaving
<1>3. /\ UNCHANGED <<stream, ref, duty, call, overtaken>>
      /\ ticket' \in Tickets /\ (ticket' = "gone" <=> ticket = "gone")
      /\ candidate' \in BOOLEAN /\ failures' \in BOOLEAN /\ stale' \in BOOLEAN
      /\ lease' \in [owner : Procs \cup {NoProc}, live : BOOLEAN]
      /\ receipt' \in {"none", "completed", "failed", "uncertain"}
      /\ Settled => ~candidate'
  BY <1>1 DEF CheckReceipt, TypeOK, Tickets, git, local, Keeping, Receive, Leaving, GitOK,
              RunOK, RunAt, SourceKept, Leased, Unswapped, AtSource, Tidying, Landed,
              Settled
<1>4. RunAt(place, Past, Closed)'
  BY <1>1, <1>2, <1>3, SamePast, Evidence DEF CheckReceipt, Goto, TypeOK, Procs, GitOK, Tickets, git, local, Keeping, Receive, Leaving,
              RunOK, RunAt, SourceKept, Leased, Unswapped, AtSource, Tidying, Landed,
              Settled
<1> QED BY <1>2, <1>3, <1>4, RunGoes DEF RunPC, CleanupPC

LEMMA CreateHolds ==
    ASSUME TaskInv, Create
    PROVE  Kept
<1>1. /\ log = <<>> /\ log' = <<"created">> /\ UNCHANGED mark
      /\ Goto(Run, "prepare") /\ pc[Run] = "create"
      /\ UNCHANGED <<ticket, candidate, failures, ref, stale, lease, duty, receipt, call, overtaken>>
  BY DEF Create, Keeping, git, local
<1>2. TypesOK /\ GitOK /\ RunOK /\ ref = "before"
  BY <1>1 DEF TaskInv, RunOK, RunAt, Unswapped
<1>3. /\ Past = {} /\ Past' = {"created"} /\ Last(log') = "created" /\ log' \in Seq(Events)
      /\ Len(log) = 0 /\ log' # <<>>
  <2>1. "created" \in Events
    BY DEF Events, Into
  <2>2. DOMAIN <<"created">> = {1} /\ <<"created">>[1] = "created" /\ Len(<<"created">>) = 1
    OBVIOUS
  <2>3. DOMAIN <<>> = {}
    OBVIOUS
  <2> QED BY <1>1, <2>1, <2>2, <2>3 DEF Past, Range, Last
<1>4. pc'[Run] = "prepare" /\ (\A r \in Recoverers : pc'[r] = pc[r]) /\ pc' \in [Procs -> PC]
  BY <1>1, <1>2, ProcsAssumption DEF Procs, PC, RunPC, TypesOK, TypeOK, Goto
<1>5. TypesOK'
  BY <1>1, <1>2, <1>3, <1>4 DEF TypesOK, TypeOK, RunPC
<1>6. Onward
  BY <1>1, <1>3 DEF Onward, Landed, Settled, Closed
<1>7. StreamOK' /\ GitOK'
  BY <1>1, <1>2, <1>3 DEF StreamOK, GitOK, EndsWith, Landed, Settled, Shape, Into, Events,
                          Observations, CleanupBegun
<1>8. RunOK'
  BY <1>1, <1>2, <1>4 DEF RunOK, RunAt, Unswapped, Landed, Leased, AtSource, Tidying
<1>9. \A r \in Recoverers : RecoveryOK(r)'
  BY <1>1, <1>4, <1>6, RecoveryKept
<1>10. Honest
  <2>1. "cleanup" \notin overtaken => Outcome = "open" /\ Outcome' = "open"
    BY <1>1, <1>3 DEF Outcome, Terminal, Into
  <2>2. ~Has(log, "integration_observed") /\ ~Has(log', "integration_observed")
    BY <1>3 DEF Has, Past
  <2>3. Has(log, "integration_observed") = Has(log', "integration_observed")
    BY <2>2 DEF Has
  <2>4. Landed' = Landed
    BY <1>1 DEF Landed
  <2> QED BY <1>1, <2>1, <2>3, <2>4 DEF Honest, Promise!vars
<1> QED BY <1>5, <1>7, <1>8, <1>9, <1>10 DEF Kept, TaskInv

LEMMA PolicyHolds ==
    ASSUME TaskInv, Policy
    PROVE  Kept
<1>1. RunOK /\ StreamOK /\ GitOK /\ Keeping
  BY DEF TaskInv, Policy
<1>2. /\ RunAt("ended", Past \cup {"review_policy_blocked"}, "review_policy_blocked" \in Into.terminal)
      /\ RunAt("terminate", Past, Closed)
      /\ ref = "before" /\ RunAt("stage", Past, Closed)
  BY <1>1 DEF Policy, RunOK, RunAt, SourceKept, Leased, Unswapped, AtSource, Tidying, Into, Landed
<1>3. CASE Try(<<"review_policy_blocked">>, "ended", "terminate")
  BY <1>1, <1>2, <1>3, RunTries DEF RunPC
<1>4. CASE Goto(Run, "stage") /\ UNCHANGED stream
  <2>1. /\ UNCHANGED <<log, mark, ticket, candidate, failures, ref, stale, lease,
                       duty, receipt, call, overtaken>>
        /\ TypeOK
    BY <1>1, <1>4 DEF Keeping, git, local, stream, TaskInv, TypesOK
  <2>2. RunAt("stage", Past, Closed)'
    BY <2>1, <1>2 DEF RunAt, SourceKept, Landed, Settled, Past, Closed, Terminal
  <2> QED BY <1>4, <2>1, <2>2, RunMoves DEF TypeOK, Settled, RunPC
<1> QED BY <1>3, <1>4 DEF Policy

LEMMA LeavingHolds ==
    ASSUME TaskInv, NEW r \in {"completed", "failed", "uncertain"}, Leaving(r), candidate,
           UNCHANGED git, r = "failed" => ref = "before", r = "completed" => Landed,
           pc[Run] \in AtSource \/ Landed
    PROVE  Kept
<1>1. /\ UNCHANGED <<log, mark, ticket, candidate, failures, ref, stale, lease, duty, call, overtaken>>
      /\ Goto(Run, "tidy") /\ receipt' = r /\ TypeOK /\ RunOK
  BY DEF Leaving, Receive, git, stream, TaskInv, TypesOK
<1>2. RunAt("tidy", Past, Closed)'
  BY <1>1 DEF RunOK, RunAt, SourceKept, Landed, Settled, Past, Closed, Terminal, Unswapped, Leased,
              AtSource, Tidying
<1> QED BY <1>1, <1>2, RunMoves DEF TypeOK, Settled, RunPC

LEMMA RecordPreparedHolds ==
    ASSUME TaskInv, RecordPrepared
    PROVE  Kept
<1>1. RunOK /\ StreamOK /\ GitOK /\ UNCHANGED git /\ pc[Run] = "record" /\ ref = "before" /\ candidate
  BY DEF TaskInv, RecordPrepared, RunOK, RunAt, Unswapped, Leased, AtSource
<1>2. CASE AppendAll(<<"integration_prepared">>) /\ Goto(Run, "guard") /\ UNCHANGED <<lease, local>>
  <2>1. RunAt("guard", Past \cup {"integration_prepared"}, "integration_prepared" \in Into.terminal)
    BY <1>1 DEF RunOK, RunAt, SourceKept, Leased, Unswapped, AtSource, Tidying, Into, Landed
  <2>2. Keeping
    BY <1>1, <1>2 DEF Keeping
  <2>3. "guard" \in RunPC
    BY DEF RunPC
  <2>4. /\ Accepts(log, "integration_prepared")
        /\ log' = log \o <<"integration_prepared">> /\ mark' \in Marks
    BY <1>2, Appended
  <2>5. Goto(Run, "guard")
    BY <1>2
  <2>6. PICK e : e = "integration_prepared"
    OBVIOUS
  <2>7. /\ Accepts(log, e) /\ log' = log \o <<e>> /\ mark' \in Marks
        /\ RunAt("guard", Past \cup {e}, e \in Into.terminal)
    BY <2>1, <2>4, <2>6
  <2>8. e # "integration_unverified" /\ e # "integration_observed" /\ e # "failed" /\ e # "completed"
    BY <2>6
  <2>9. "guard" \in RunPC \cup CleanupPC \cup {"ended"}
    BY <2>3
  <2> QED BY <2>2, <2>5, <2>7, <2>8, <2>9, RunAppends
<1>3. CASE Leaving("failed") \/ Leaving("uncertain")
  BY <1>1, <1>3, LeavingHolds DEF AtSource
<1> QED BY <1>2, <1>3 DEF RecordPrepared

LEMMA SwapHolds ==
    ASSUME TaskInv, Swap
    PROVE  Kept
<1>1. /\ RunOK /\ StreamOK /\ GitOK /\ TypesOK /\ pc[Run] = "swap" /\ ref = "before" /\ candidate
      /\ "integration_prepared" \in Past /\ (Closed => "cleanup" \in overtaken)
      /\ RunAt("swap", Past, Closed)
  BY DEF TaskInv, Swap, RunOK, RunAt, Unswapped, Leased, AtSource
<1>2. CASE ref' = ref /\ Leaving("failed")
  BY <1>1, <1>2, LeavingHolds DEF AtSource, Swap, git
<1>3. CASE Goto(Run, "reconcile") /\ UNCHANGED <<ref, stream, lease, local>>
  <2>1. /\ UNCHANGED <<log, mark, ticket, candidate, failures, ref, stale, lease,
                       duty, receipt, call, overtaken>>
        /\ TypeOK
    BY <1>1, <1>3 DEF git, local, stream, TypesOK, Swap
  <2>2. RunAt("reconcile", Past, Closed)'
    BY <2>1, <1>1 DEF RunAt, SourceKept, Landed, Settled, Past, Closed, Terminal,
                      Unswapped, Leased, AtSource, Tidying
  <2> QED BY <1>3, <2>1, <2>2, RunMoves DEF TypeOK, Settled, RunPC
<1>4. CASE /\ ref' = "result"
           /\ \/ Leaving("completed")
              \/ Goto(Run, "reconcile") /\ UNCHANGED <<stream, lease, local>>
  <2>1. PICK place \in {"tidy", "reconcile"} :
           /\ Goto(Run, place) /\ (place = "tidy" => receipt' = "completed")
    BY <1>4 DEF Leaving, Receive
  <2>2. /\ UNCHANGED <<log, mark, ticket, candidate, failures, stale, lease, duty, call, overtaken>>
        /\ receipt' \in {"none", "completed", "failed", "uncertain"} /\ ref' = "result"
    BY <1>1, <1>4 DEF Leaving, Receive, local, stream, Swap, TypesOK, TypeOK
  <2>3. pc'[Run] = place /\ (\A r \in Recoverers : pc'[r] = pc[r]) /\ pc' \in [Procs -> PC]
    BY <1>1, <2>1, ProcsAssumption DEF Procs, PC, RunPC, TypesOK, TypeOK, Goto
  <2>4. Past' = Past /\ (Closed' <=> Closed) /\ log \in Seq(Events) /\ Len(log) \in Nat
    BY <1>1, <2>2 DEF Past, Closed, Terminal, TypesOK, TypeOK
  <2>5. TypesOK'
    BY <1>1, <2>2, <2>3 DEF TypesOK, TypeOK, RunPC, Refs
  <2>6. Onward
    BY <1>1, <2>2, <2>4 DEF Onward, Landed, Settled
  <2>7. StreamOK' /\ GitOK'
    BY <1>1, <2>2, <2>4, <2>6 DEF StreamOK, GitOK, EndsWith, Landed, Onward
  <2>8. RunAt(place, Past, Closed)'
    BY <2>1, <2>2, <2>4, <1>1 DEF RunAt, SourceKept, Landed, Settled,
                                  Unswapped, Leased, AtSource, Tidying
  <2>9. \A r \in Recoverers : RecoveryOK(r)'
    BY <2>2, <2>3, <2>6, RecoveryKept
  <2>10. Honest
    <3>1. "cleanup" \notin overtaken => Outcome = "open"
      BY <1>1 DEF Outcome, Closed
    <3>2. Landed' = TRUE /\ ~Landed
      BY <1>1, <2>2 DEF Landed
    <3>3. UNCHANGED <<Has(log, "integration_observed"), ticket # "gone",
                      IF "cleanup" \in overtaken THEN "open" ELSE Outcome>>
      BY <2>2 DEF Outcome, Has, Terminal
    <3> QED BY <3>1, <3>2, <3>3 DEF Honest, Promise!Next, Promise!Land
  <2> QED BY <2>3, <2>5, <2>7, <2>8, <2>9, <2>10 DEF Kept, TaskInv, RunOK
<1> QED BY <1>1, <1>2, <1>3, <1>4 DEF Swap

(* The branch of the worktree goes, behind the evidence.                   *)
DiscardsTree ==
    /\ UNCHANGED <<log, mark, candidate, failures, ref, overtaken>>
    /\ ticket' \in {ticket, "gone"} /\ Settled /\ "cleanup_started" \in Past
LEMMA Discarding ==
    ASSUME TaskInv, DiscardsTree
    PROVE  Onward /\ StreamOK' /\ GitOK' /\ Honest
<1>1. /\ TypesOK /\ StreamOK /\ GitOK
      /\ UNCHANGED <<log, mark, candidate, failures, ref, overtaken>>
      /\ ticket' \in {ticket, "gone"} /\ Settled /\ "cleanup_started" \in Past
  BY DEF DiscardsTree, TaskInv
<1>2. Past' = Past /\ (Closed' <=> Closed) /\ log \in Seq(Events) /\ Len(log) \in Nat
  BY <1>1 DEF Past, Closed, Terminal, TypesOK, TypeOK
<1>3. Onward
  BY <1>1, <1>2 DEF Onward, Landed, Settled
<1>4. StreamOK' /\ GitOK'
  BY <1>1, <1>2 DEF StreamOK, GitOK, EndsWith, Landed, Settled
<1>5. ASSUME ticket' = ticket PROVE Honest
  BY <1>1, <1>5, HonestStill DEF Landed
<1>6. ASSUME ticket' = "gone", ticket # "gone" PROVE Honest
  <2>1. "integration_observed" \in Past
    BY <1>1, Evidence
  <2>2. Has(log, "integration_observed")
    BY <2>1 DEF Has, Past
  <2>3. UNCHANGED <<Landed, Has(log, "integration_observed"),
                    IF "cleanup" \in overtaken THEN "open" ELSE Outcome>>
    BY <1>1 DEF Landed, Outcome, Has, Terminal
  <2>4. Promise!Discard
    BY <1>6, <2>2, <2>3 DEF Promise!Discard
  <2> QED BY <2>4 DEF Honest, Promise!Next
<1> QED BY <1>1, <1>3, <1>4, <1>5, <1>6

LEMMA RunVerifies ==
    ASSUME TaskInv, VerifyTicket(Run, "terminate")
    PROVE  Kept
<1>1. PICK place \in {"removeTree", "terminate"} : Goto(Run, place)
  BY DEF VerifyTicket
<1>2. /\ UNCHANGED <<stream, ticket, candidate, failures, ref, stale, lease,
                     duty, receipt, call, overtaken>>
      /\ TypeOK /\ RunOK /\ pc[Run] = "verify" /\ Past' = Past /\ (Closed' <=> Closed)
  BY SamePast DEF git, local, TaskInv, TypesOK, VerifyTicket
<1>3. RunAt(place, Past, Closed)'
  BY <1>1, <1>2, Evidence DEF RunOK, RunAt, SourceKept, Landed, Settled, Unswapped, Leased, AtSource, Tidying
<1> QED BY <1>1, <1>2, <1>3, RunGoes DEF TypeOK, Settled, RunPC, CleanupPC

LEMMA RunRemovesTree ==
    ASSUME TaskInv, RemoveTree(Run, "obstructed")
    PROVE  Kept
<1>1. PICK place \in {"deleteRef", "obstructed"} : Goto(Run, place)
  BY DEF RemoveTree
<1>2. /\ UNCHANGED <<stream, candidate, failures, ref, stale, lease,
                     duty, receipt, call, overtaken>>
      /\ TypeOK /\ RunOK /\ pc[Run] = "removeTree" /\ Past' = Past /\ (Closed' <=> Closed)
      /\ ticket' \in {ticket, IF ticket = "source" THEN "treeless" ELSE ticket}
  BY SamePast DEF git, local, TaskInv, TypesOK, RemoveTree
<1>3. RunAt(place, Past, Closed)'
  BY <1>1, <1>2 DEF RunOK, RunAt, SourceKept, Landed, Settled, Unswapped, Leased, AtSource, Tidying
<1> QED BY <1>1, <1>2, <1>3, RunGoes DEF TypeOK, Settled, RunPC, CleanupPC, Tickets

LEMMA RunDeletesRef ==
    ASSUME TaskInv, DeleteTicketRef(Run, "finishCleanup", "obstructed")
    PROVE  Kept
<1>1. PICK place \in {"finishCleanup", "obstructed"} :
          Goto(Run, place) /\ (place = "finishCleanup" => ticket' = "gone")
  BY DEF DeleteTicketRef
<1>2. /\ UNCHANGED <<log, mark, candidate, failures, ref, stale, lease,
                     duty, receipt, call, overtaken>>
      /\ UNCHANGED stream
      /\ TypesOK /\ RunOK /\ StreamOK /\ GitOK /\ pc[Run] = "deleteRef"
      /\ ticket' \in {ticket, "gone"}
  BY DEF stream, git, local, TaskInv, DeleteTicketRef
<1>3. Settled /\ "cleanup_started" \in Past /\ Past' = Past /\ (Closed' <=> Closed)
  BY <1>2, SamePast DEF RunOK, RunAt, Tidying
<1>4. RunAt(place, Past, Closed)'
  BY <1>1, <1>2, <1>3 DEF RunAt, SourceKept, Landed, Settled, Unswapped, Leased, AtSource, Tidying
<1>5. pc'[Run] = place /\ (\A r \in Recoverers : pc'[r] = pc[r]) /\ pc' \in [Procs -> PC]
  BY <1>1, <1>2, ProcsAssumption DEF Procs, PC, RunPC, TypesOK, TypeOK, Goto
<1>6. TypesOK'
  BY <1>1, <1>2, <1>5 DEF TypesOK, TypeOK, RunPC, Tickets
<1>7. DiscardsTree
  BY <1>2, <1>3 DEF DiscardsTree
<1>8. Onward /\ StreamOK' /\ GitOK' /\ Honest
  BY <1>7, Discarding
<1>9. \A r \in Recoverers : RecoveryOK(r)'
  BY <1>2, <1>5, <1>8, RecoveryKept
<1> QED BY <1>4, <1>5, <1>6, <1>8, <1>9 DEF Kept, TaskInv, RunOK

LEMMA RunStepHolds ==
    ASSUME TaskInv, RunStep
    PROVE  Kept
  BY CreateHolds, PrepareHolds, AddWorktreeHolds, PauseUncertainHolds, ResumeHolds, AdoptHolds,
     LeaseTaskHolds, BeginHolds, WorkHolds, RecordArtifactHolds, ValidateHolds, ReviewHolds,
     PolicyHolds, StageHolds, CommitHolds, CommitUncertainHolds, AnnounceHolds, TerminateHolds,
     EnterHolds, BuildHolds, RecordPreparedHolds, GuardHolds, SwapHolds, ReconcileHolds,
     TidyHolds, UnlockHolds, UncertainHolds, RejectHolds, CheckReceiptHolds, ObserveHolds,
     StartCleanupHolds, RunVerifies, RunRemovesTree, RunDeletesRef, CleanupUncertainHolds,
     FinishCleanupHolds, CompleteHolds DEF RunStep

-----------------------------------------------------------------------------
(* The steps of a recovery. What one is to show, whatever it appends or    *)
(* removes, ...                                                            *)
LEMMA RecoveryActs ==
    ASSUME TaskInv, NEW r \in Recoverers, NEW place \in RecoveryPlaces, Goto(r, place),
           NEW c \in Call, Answering(r, c),
           UNCHANGED <<ref, candidate, failures, stale, duty, receipt>>,
           lease' \in [owner : Procs \cup {NoProc}, live : BOOLEAN],
           mark' \in Marks, ticket' \in Tickets, overtaken' \subseteq {"completion", "cleanup"},
           Onward, StreamOK', GitOK', Honest, RecoveryAt(place, c)',
           pc[Run] \in AtSource \/ Landed => SourceKept(Past, Closed)',
           pc[Run] \in Leased => (Closed' => "cleanup" \in overtaken')
    PROVE  Kept
<1>1. /\ pc \in [Procs -> PC] /\ pc' = [pc EXCEPT ![r] = place] /\ TypesOK
      /\ call' = [call EXCEPT ![r] = c] /\ call \in [Recoverers -> Call]
      /\ r \in Procs /\ Run \in Procs /\ r # Run
  BY ProcsAssumption DEF TaskInv, TypesOK, TypeOK, Goto, Answering, Procs
<1>2. /\ pc'[r] = place /\ call'[r] = c /\ pc'[Run] = pc[Run]
      /\ \A q \in Recoverers \ {r} : pc'[q] = pc[q] /\ call'[q] = call[q]
      /\ call' \in [Recoverers -> Call] /\ pc' \in [Procs -> PC]
  BY <1>1 DEF Procs, PC, RecoveryPlaces
<1>3. TypesOK'
  BY <1>1, <1>2 DEF TypesOK, TypeOK, Onward, Refs
<1>4. RunOK'
  BY <1>2, RunKept
<1>5. ASSUME NEW q \in Recoverers PROVE RecoveryOK(q)'
  <2>1. CASE q = r
    BY <2>1, <1>2 DEF RecoveryOK
  <2>2. CASE q # r
    BY <2>2, <1>2, RecoveryKept
  <2> QED BY <2>1, <2>2
<1> QED BY <1>3, <1>4, <1>5 DEF Kept, TaskInv

(* ... one that only looks or moves on, ...                                *)
LEMMA RecoveryGoes ==
    ASSUME TaskInv, NEW r \in Recoverers, NEW place \in RecoveryPlaces, Goto(r, place),
           NEW c \in Call, Answering(r, c),
           UNCHANGED <<stream, git, duty, receipt>>,
           lease' \in [owner : Procs \cup {NoProc}, live : BOOLEAN],
           overtaken' \in {overtaken, overtaken \cup {"completion"}},
           RecoveryAt(place, c)'
    PROVE  Kept
<1>1. /\ UNCHANGED <<log, mark, ticket, candidate, failures, ref, stale, duty, receipt>>
      /\ TypesOK /\ StreamOK /\ GitOK /\ RunOK /\ log \in Seq(Events) /\ Len(log) \in Nat
      /\ overtaken \subseteq {"completion", "cleanup"}
  BY DEF stream, git, TaskInv, TypesOK, TypeOK
<1>2. Past' = Past /\ (Closed' <=> Closed) /\ overtaken \subseteq overtaken'
      /\ ("cleanup" \in overtaken' <=> "cleanup" \in overtaken)
  BY SamePast
<1>3. Onward
  BY <1>1, <1>2 DEF Onward, Landed, Settled
<1>4. StreamOK' /\ GitOK'
  BY <1>1, <1>2 DEF StreamOK, GitOK, EndsWith, Landed, Settled
<1>5. Honest
  BY <1>1, <1>2, HonestStill DEF Landed
<1>6. /\ pc[Run] \in AtSource \/ Landed => SourceKept(Past, Closed)'
      /\ pc[Run] \in Leased => (Closed' => "cleanup" \in overtaken')
  BY <1>1, <1>2 DEF RunOK, RunAt, SourceKept
<1>7. mark \in Marks /\ ticket \in Tickets /\ overtaken' \subseteq {"completion", "cleanup"}
  BY <1>1 DEF TypesOK, TypeOK
<1> QED BY <1>1, <1>3, <1>4, <1>5, <1>6, <1>7, RecoveryActs

(* ... and one whose call stays as it is.                                  *)
LEMMA SameCall ==
    ASSUME TaskInv, NEW r \in Recoverers, call' = call
    PROVE  Answering(r, call[r]) /\ call[r] \in Call
  BY DEF Answering, TaskInv, TypesOK

LEMMA CallTypes ==
    /\ NoCall \in Call
    /\ \A n \in Nat, m \in Marks : [NoCall EXCEPT !.seen = n, !.mark = m] \in Call
    /\ \A n \in Nat : [NoCall EXCEPT !.seen = n] \in Call
    /\ \A q \in Paths : [NoCall EXCEPT !.path = q] \in Call
    /\ \A c \in Call, q \in Paths : [c EXCEPT !.path = q] \in Call
    /\ \A c \in Call, t \in {<<>>} \cup ((Nat \X Marks) \X Refs \X Tickets) :
           [c EXCEPT !.snapshot = t] \in Call
  BY DEF NoCall, Call, Marks

LEMMA LeaseKept ==
    ASSUME TaskInv, lease' = lease
    PROVE  lease' \in [owner : Procs \cup {NoProc}, live : BOOLEAN]
  BY DEF TaskInv, TypesOK, TypeOK

LEMMA SameLook ==
    ASSUME TaskInv, UNCHANGED <<stream, git>>, overtaken \subseteq overtaken',
           NEW c \in Call, NEW place, RecoveryAt(place, c)
    PROVE  RecoveryAt(place, c)'
  BY SamePast DEF RecoveryAt, Looked, Settled, Landed, stream, git

LEMMA RecoveryRests ==
    ASSUME TaskInv, NEW r \in Recoverers, NEW place \in RecoveryPlaces, Goto(r, place),
           UNCHANGED <<stream, git, local>>,
           lease' \in [owner : Procs \cup {NoProc}, live : BOOLEAN],
           RecoveryAt(place, call[r])
    PROVE  Kept
<1>1. PICK c : c = call[r]
  OBVIOUS
<1>2. /\ UNCHANGED <<stream, git, duty, receipt>> /\ overtaken' = overtaken /\ call' = call
      /\ UNCHANGED <<stream, git>>
  BY DEF local
<1>3. Answering(r, c) /\ c \in Call /\ RecoveryAt(place, c)
  BY <1>1, <1>2, SameCall
<1>4. RecoveryAt(place, c)'
  BY <1>2, <1>3, SameLook
<1> QED BY <1>2, <1>3, <1>4, RecoveryGoes

LEMMA RecoveryAnswers ==
    ASSUME TaskInv, NEW r \in Recoverers, NEW place \in RecoveryPlaces, Goto(r, place),
           NEW c \in Call, Answering(r, c),
           UNCHANGED <<stream, git, duty, receipt, overtaken>>,
           lease' \in [owner : Procs \cup {NoProc}, live : BOOLEAN],
           RecoveryAt(place, c)
    PROVE  Kept
<1>1. RecoveryAt(place, c)'
  BY SameLook
<1> QED BY <1>1, RecoveryGoes

LEMMA RecoveryBeginHolds ==
    ASSUME TaskInv, NEW r \in Recoverers, RecoveryBegin(r)
    PROVE  Kept
<1>1. Goto(r, "inspect") /\ UNCHANGED <<stream, git, local>> /\ log # <<>> /\ Acquire(r)
  BY DEF RecoveryBegin
<1>2. RecoveryAt("inspect", call[r]) /\ "inspect" \in RecoveryPlaces /\ r \in Procs
  BY <1>1 DEF RecoveryAt, Cleaning, Authorizing, RecoveryPlaces, RecoveryPC, Procs
<1> QED BY <1>1, <1>2, LeaseTypes, RecoveryRests

(* The verdict of an inspection is about the last event it saw.            *)
LEMMA Verdict ==
    ASSUME TaskInv, NEW r \in Recoverers, Looked(call[r])
    PROVE  /\ Judged(r) = "record_completion" =>
                  DecideIntegration(log[call[r].seen]) \/ DecideCleanup(log[call[r].seen])
           /\ call[r].seen = Len(log) => log[call[r].seen] = Last(log)
<1>1. log \in Seq(Events) /\ call[r].seen \in 1..Len(log)
  BY DEF TaskInv, TypesOK, TypeOK, Looked
<1> DEFINE n == call[r].seen
           s == SubSeq(log, 1, n)
<1>2. n \in 1..Len(log) /\ s \in Seq(Events) /\ Len(s) = n /\ s[n] = log[n]
  BY <1>1
<1>3. Last(s) = log[n]
  BY <1>2 DEF Last
<1>4. Judged(r) = "record_completion" => DecideIntegration(Last(s)) \/ DecideCleanup(Last(s))
  BY DEF Judged, Decision
<1> QED BY <1>3, <1>4 DEF Last

LEMMA JudgeHolds ==
    ASSUME TaskInv, NEW r \in Recoverers, Judge(r)
    PROVE  Kept
<1>1. /\ Goto(r, "read") /\ UNCHANGED <<stream, git, local>> /\ lease' = lease
      /\ pc[r] = "judge" /\ Judged(r) = "record_completion"
  BY DEF Judge
<1>2. Looked(call[r])
  BY <1>1 DEF TaskInv, RecoveryOK, RecoveryAt
<1>3. DecideIntegration(log[call[r].seen]) \/ DecideCleanup(log[call[r].seen])
  BY <1>1, <1>2, Verdict
<1>4. RecoveryAt("read", call[r]) /\ "read" \in RecoveryPlaces
  BY <1>2, <1>3 DEF RecoveryAt, DecideIntegration, DecideCleanup, Verified, Settled, Landed,
                    Cleaning, Authorizing, RecoveryPlaces, RecoveryPC
<1> QED BY <1>1, <1>4, LeaseKept, RecoveryRests

LEMMA AssertActiveHolds ==
    ASSUME TaskInv, NEW r \in Recoverers, AssertActive(r)
    PROVE  Kept
<1>1. /\ Goto(r, "verify") /\ UNCHANGED <<stream, git, local>> /\ lease' = lease
      /\ pc[r] = "assert"
  BY DEF AssertActive
<1>2. RecoveryAt("verify", call[r]) /\ "verify" \in RecoveryPlaces
  BY <1>1 DEF TaskInv, RecoveryOK, RecoveryAt, Cleaning, Authorizing, RecoveryPlaces, CleanupPC
<1> QED BY <1>1, <1>2, LeaseKept, RecoveryRests

LEMMA RecoveryVerifies ==
    ASSUME TaskInv, NEW r \in Recoverers, VerifyTicket(r, "hindered")
    PROVE  Kept
<1>1. PICK place \in {"removeTree", "hindered"} : Goto(r, place)
  BY DEF VerifyTicket
<1>2. UNCHANGED <<stream, git, local>> /\ lease' = lease /\ pc[r] = "verify"
  BY DEF VerifyTicket
<1>3. RecoveryAt(place, call[r]) /\ place \in RecoveryPlaces
  BY <1>2 DEF TaskInv, RecoveryOK, RecoveryAt, Cleaning, Authorizing, RecoveryPlaces, CleanupPC,
              RecoveryPC
<1> QED BY <1>1, <1>2, <1>3, LeaseKept, RecoveryRests

LEMMA VerifyUnleasedHolds ==
    ASSUME TaskInv, NEW r \in Recoverers, VerifyUnleased(r)
    PROVE  Kept
<1>1. /\ Goto(r, "unleaseTree") /\ UNCHANGED <<stream, git, local>> /\ lease' = lease
      /\ pc[r] = "unlease"
  BY DEF VerifyUnleased
<1>2. RecoveryAt("unleaseTree", call[r]) /\ "unleaseTree" \in RecoveryPlaces
  BY <1>1 DEF TaskInv, RecoveryOK, RecoveryAt, Cleaning, Authorizing, RecoveryPlaces, RecoveryPC
<1> QED BY <1>1, <1>2, LeaseKept, RecoveryRests

(* Those that keep what they saw.                                          *)
LEMMA SeenNow ==
    ASSUME TaskInv, log # <<>>
    PROVE  Len(log) \in Nat /\ Len(log) \in 1..Len(log) /\ mark \in Marks
  BY DEF TaskInv, TypesOK, TypeOK

LEMMA InspectHolds ==
    ASSUME TaskInv, NEW r \in Recoverers, Inspect(r)
    PROVE  Kept
<1> DEFINE seen == [NoCall EXCEPT !.seen = Len(log), !.mark = mark]
<1>1. /\ Goto(r, "judge") /\ UNCHANGED <<stream, git, duty, receipt, overtaken>> /\ lease' = lease
      /\ pc[r] = "inspect" /\ Answering(r, seen)
  BY DEF Inspect
<1>2. log # <<>>
  BY <1>1 DEF TaskInv, RecoveryOK, RecoveryAt
<1>3. seen \in Call /\ seen.seen = Len(log)
  BY <1>2, SeenNow, CallTypes DEF NoCall
<1>4. RecoveryAt("judge", seen) /\ "judge" \in RecoveryPlaces
  BY <1>2, <1>3, SeenNow DEF RecoveryAt, Cleaning, Authorizing, RecoveryPlaces, RecoveryPC, Looked
<1>5. PICK c : c = seen
  OBVIOUS
<1>6. Answering(r, c) /\ c \in Call /\ RecoveryAt("judge", c)
  BY <1>1, <1>3, <1>4, <1>5
<1> QED BY <1>1, <1>4, <1>6, LeaseKept, RecoveryAnswers

LEMMA BeginInspectionHolds ==
    ASSUME TaskInv, NEW r \in Recoverers, BeginInspection(r)
    PROVE  Kept
<1> DEFINE seen == [NoCall EXCEPT !.seen = Len(log), !.mark = mark]
<1>1. /\ UNCHANGED <<stream, git, duty, receipt, overtaken>> /\ lease' = lease
      /\ log # <<>> /\ Answering(r, seen)
  BY DEF BeginInspection
<1>2. PICK place \in duty[r] \ {"complete"} : Goto(r, place)
  BY DEF BeginInspection
<1>3. place \in {"retain", "bound"}
  BY <1>2, ProcsAssumption DEF TaskInv, TypesOK
<1>4. seen \in Call /\ seen.seen = Len(log)
  BY <1>1, SeenNow, CallTypes DEF NoCall
<1>5. RecoveryAt(place, seen) /\ place \in RecoveryPlaces
  BY <1>1, <1>3, <1>4, SeenNow
     DEF RecoveryAt, Cleaning, Authorizing, RecoveryPlaces, RecoveryPC, Looked
<1>6. PICK c : c = seen
  OBVIOUS
<1>7. Answering(r, c) /\ c \in Call /\ RecoveryAt(place, c)
  BY <1>1, <1>4, <1>5, <1>6
<1> QED BY <1>1, <1>2, <1>5, <1>7, LeaseKept, RecoveryAnswers

LEMMA AuthorizeCleanupHolds ==
    ASSUME TaskInv, NEW r \in Recoverers, AuthorizeCleanup(r)
    PROVE  Kept
<1> DEFINE seen == [NoCall EXCEPT !.seen = Len(log)]
<1>1. /\ Goto(r, "unlease") /\ UNCHANGED <<stream, git, duty, receipt, overtaken>> /\ lease' = lease
      /\ pc[r] = "bound" /\ Answering(r, seen) /\ Last(log) = "worktree_creation_started"
  BY DEF AuthorizeCleanup, Unleased
<1>2. Looked(call[r])
  BY <1>1 DEF TaskInv, RecoveryOK, RecoveryAt
<1>3. log # <<>>
  BY <1>2 DEF Looked
<1>4. seen \in Call /\ seen.seen = Len(log)
  BY <1>3, SeenNow, CallTypes DEF NoCall
<1>5. RecoveryAt("unlease", seen) /\ "unlease" \in RecoveryPlaces
  BY <1>1, <1>3, <1>4, SeenNow
     DEF RecoveryAt, Cleaning, Authorizing, RecoveryPlaces, RecoveryPC, Looked, Last
<1>6. PICK c : c = seen
  OBVIOUS
<1>7. Answering(r, c) /\ c \in Call /\ RecoveryAt("unlease", c)
  BY <1>1, <1>4, <1>5, <1>6
<1> QED BY <1>1, <1>5, <1>7, LeaseKept, RecoveryAnswers

LEMMA ReadAgainHolds ==
    ASSUME TaskInv, NEW r \in Recoverers, ReadAgain(r)
    PROVE  Kept
<1> DEFINE path == Last(log)
<1>1. /\ Goto(r, "issue") /\ UNCHANGED <<stream, git, duty, receipt>> /\ lease' = lease
      /\ pc[r] = "read" /\ Answering(r, [NoCall EXCEPT !.path = path]) /\ path \in Paths
      /\ Overtakes(r, "completion")
  BY DEF ReadAgain
<1>2. Settled /\ Looked(call[r]) /\ log \in Seq(Events) /\ overtaken \subseteq {"completion", "cleanup"}
  BY <1>1 DEF TaskInv, RecoveryOK, RecoveryAt, TypesOK, TypeOK
<1>3. ~Terminal(log) /\ path # "cleaned"
  <2>1. log # <<>> /\ Shape(Past, path)
    BY <1>2 DEF Looked, TaskInv, StreamOK
  <2> QED BY <1>1, <2>1 DEF Terminal, Paths, Batch, Into, Shape, Events
<1>4. overtaken' \in {overtaken, overtaken \cup {"completion"}}
  BY <1>1 DEF Overtakes
<1>5. path \in CleanupBegun => ticket = "gone" \/ "completion" \in overtaken'
  <2>1. CASE Len(log) # call[r].seen
    BY <1>1, <1>3, <2>1 DEF Overtakes
  <2>2. CASE Len(log) = call[r].seen
    <3>1. log[call[r].seen] = path
      BY <1>2, <2>2, Verdict
    <3> QED BY <1>1, <3>1 DEF TaskInv, RecoveryOK, RecoveryAt, CleanupBegun
  <2> QED BY <2>1, <2>2
<1>6. PICK c : c = [NoCall EXCEPT !.path = path]
  OBVIOUS
<1>7. c \in Call /\ c.path = path /\ Answering(r, c)
  BY <1>1, <1>6, CallTypes DEF NoCall
<1>8. c.path \in Paths /\ (c.path \in CleanupBegun \cup {"cleaned"} =>
                              ticket' = "gone" \/ "completion" \in overtaken')
  BY <1>1, <1>3, <1>5, <1>7 DEF git
<1>9. Settled'
  BY <1>1, <1>2 DEF Settled, Landed, git
<1>10. RecoveryAt("issue", c)' /\ "issue" \in RecoveryPlaces
  BY <1>8, <1>9 DEF RecoveryAt, Cleaning, Authorizing, RecoveryPlaces, RecoveryPC
<1> QED BY <1>1, <1>4, <1>7, <1>10, LeaseKept, RecoveryGoes

LEMMA IssueHolds ==
    ASSUME TaskInv, NEW r \in Recoverers, Issue(r)
    PROVE  Kept
<1>1. /\ Goto(r, "compare") /\ UNCHANGED <<stream, git, duty, receipt, overtaken>> /\ lease' = lease
      /\ pc[r] = "issue" /\ Answering(r, [call[r] EXCEPT !.snapshot = Snapshot])
      /\ call[r] \in Call
  BY DEF Issue, TaskInv, TypesOK
<1>2. Snapshot \in (Nat \X Marks) \X Refs \X Tickets
  BY DEF Snapshot, Version, TaskInv, TypesOK, TypeOK
<1>3. PICK c : c = [call[r] EXCEPT !.snapshot = Snapshot]
  OBVIOUS
<1>4. c \in Call /\ c.path = call[r].path /\ Answering(r, c)
  BY ZenonT(60), <1>1, <1>2, <1>3, CallTypes DEF Call
<1>5. RecoveryAt("compare", c) /\ "compare" \in RecoveryPlaces
  BY <1>1, <1>4 DEF TaskInv, RecoveryOK, RecoveryAt, Cleaning, Authorizing, RecoveryPlaces, RecoveryPC
<1> QED BY <1>1, <1>4, <1>5, LeaseKept, RecoveryAnswers

LEMMA CompareHolds ==
    ASSUME TaskInv, NEW r \in Recoverers, Compare(r)
    PROVE  Kept
<1>1. /\ Goto(r, "append") /\ UNCHANGED <<stream, git, duty, receipt, overtaken>> /\ lease' = lease
      /\ pc[r] = "compare" /\ Answering(r, [call[r] EXCEPT !.snapshot = <<>>])
      /\ call[r] \in Call
  BY DEF Compare, TaskInv, TypesOK
<1>3. PICK c : c = [call[r] EXCEPT !.snapshot = <<>>]
  OBVIOUS
<1>4. c \in Call /\ c.path = call[r].path /\ Answering(r, c)
  BY ZenonT(60), <1>1, <1>3, CallTypes DEF Call
<1>5. RecoveryAt("append", c) /\ "append" \in RecoveryPlaces
  BY <1>1, <1>4 DEF TaskInv, RecoveryOK, RecoveryAt, Cleaning, Authorizing, RecoveryPlaces, RecoveryPC
<1> QED BY <1>1, <1>4, <1>5, LeaseKept, RecoveryAnswers

LEMMA ReportHolds ==
    ASSUME TaskInv, NEW r \in Recoverers, Report(r)
    PROVE  Kept
<1>1. /\ Goto(r, "issue") /\ UNCHANGED <<stream, git, duty, receipt, overtaken>> /\ lease' = lease
      /\ call[r] \in Call /\ {"cleaned", "obstructed"} \subseteq Paths
      /\ "obstructed" \notin CleanupBegun \cup {"cleaned"}
  BY DEF Report, TaskInv, TypesOK, Paths, Batch, CleanupBegun
<1>2. PICK way \in {"cleaned", "obstructed"} :
          /\ Answering(r, [call[r] EXCEPT !.path = way])
          /\ pc[r] = IF way = "cleaned" THEN "reread" ELSE "hindered"
  BY DEF Report
<1>3. PICK c : c = [call[r] EXCEPT !.path = way]
  OBVIOUS
<1>4. c \in Call /\ c.path = way /\ Answering(r, c)
  <2>1. way \in Paths
    BY <1>1
  <2>2. c \in Call /\ c.path = way
    BY ZenonT(60), <1>1, <1>3, <2>1, CallTypes DEF Call
  <2> QED BY <1>2, <1>3, <2>2
<1>5. RecoveryAt("issue", c) /\ "issue" \in RecoveryPlaces
  BY <1>1, <1>2, <1>4
     DEF TaskInv, RecoveryOK, RecoveryAt, Cleaning, Authorizing, RecoveryPlaces, RecoveryPC
<1> QED BY <1>1, <1>4, <1>5, LeaseKept, RecoveryAnswers

LEMMA CloseHolds ==
    ASSUME TaskInv, NEW r \in Recoverers, Close(r)
    PROVE  Kept
<1>1. /\ Goto(r, "idle") /\ UNCHANGED <<stream, git, duty, receipt, overtaken>> /\ Release(r)
      /\ Answering(r, NoCall) /\ r \in Procs
  BY DEF Close, Procs
<1>2. RecoveryAt("idle", NoCall) /\ "idle" \in RecoveryPlaces
  BY DEF RecoveryAt, Cleaning, Authorizing, RecoveryPlaces
<1>3. PICK c : c = NoCall
  OBVIOUS
<1>4. c \in Call /\ Answering(r, c) /\ RecoveryAt("idle", c)
  BY <1>1, <1>2, <1>3, CallTypes
<1> QED BY <1>1, <1>2, <1>4, LeaseTypes, RecoveryAnswers

(* Those that clear the worktree away, or its branch.                      *)
LEMMA RecoveryRemovesTree ==
    ASSUME TaskInv, NEW r \in Recoverers, RemoveTree(r, "hindered")
    PROVE  Kept
<1>1. PICK place \in {"deleteRef", "hindered"} : Goto(r, place)
  BY DEF RemoveTree
<1>2. /\ UNCHANGED <<log, mark, candidate, failures, ref, stale, lease, duty, receipt, call, overtaken>>
      /\ TypesOK /\ StreamOK /\ GitOK /\ RunOK /\ log \in Seq(Events) /\ Len(log) \in Nat
      /\ RecoveryOK(r) /\ pc[r] = "removeTree"
      /\ ticket' \in {ticket, IF ticket = "source" THEN "treeless" ELSE ticket}
  BY DEF RemoveTree, stream, local, TaskInv, TypesOK, TypeOK
<1>3. /\ Past' = Past /\ (Closed' <=> Closed) /\ Settled /\ Settled' /\ "cleanup_started" \in Past
      /\ (ticket' = "gone" <=> ticket = "gone") /\ (Landed' <=> Landed)
  BY <1>2 DEF Past, Closed, Terminal, Settled, Landed, RecoveryOK, RecoveryAt, Cleaning
<1>4. Onward
  BY <1>2, <1>3 DEF Onward
<1>5. StreamOK' /\ GitOK'
  BY <1>2, <1>3 DEF StreamOK, GitOK, EndsWith, Landed, Settled
<1>6. Honest
  BY <1>2, <1>3, HonestStill
<1>7. PICK c : c = call[r]
  OBVIOUS
<1>8. Answering(r, c) /\ c \in Call
  BY <1>2, <1>7, SameCall
<1>9. RecoveryAt(place, c)' /\ place \in RecoveryPlaces
  BY <1>3 DEF RecoveryAt, Cleaning, Authorizing, RecoveryPlaces, RecoveryPC, CleanupPC
<1>10. /\ pc[Run] \in AtSource \/ Landed => SourceKept(Past, Closed)'
       /\ pc[Run] \in Leased => (Closed' => "cleanup" \in overtaken')
  BY <1>2, <1>3 DEF RunOK, RunAt, SourceKept
<1>11. mark' \in Marks /\ ticket' \in Tickets /\ overtaken' \subseteq {"completion", "cleanup"}
  BY <1>2 DEF TypesOK, TypeOK, Tickets
<1>12. UNCHANGED <<ref, candidate, failures, stale, duty, receipt>> /\ lease' = lease
  BY <1>2
<1> QED BY <1>1, <1>4, <1>5, <1>6, <1>8, <1>9, <1>10, <1>11, <1>12, LeaseKept, RecoveryActs

LEMMA RecoveryDeletesRef ==
    ASSUME TaskInv, NEW r \in Recoverers, DeleteTicketRef(r, "reread", "hindered")
    PROVE  Kept
<1>1. PICK place \in {"reread", "hindered"} :
          Goto(r, place) /\ (place = "reread" => ticket' = "gone")
  BY DEF DeleteTicketRef
<1>2. /\ UNCHANGED <<log, mark, candidate, failures, ref, stale, lease, duty, receipt, call, overtaken>>
      /\ TypesOK /\ RunOK /\ RecoveryOK(r) /\ pc[r] = "deleteRef"
      /\ ticket' \in {ticket, "gone"}
  BY DEF DeleteTicketRef, stream, local, TaskInv
<1>3. /\ Past' = Past /\ (Closed' <=> Closed) /\ Settled /\ Settled' /\ "cleanup_started" \in Past
      /\ (Landed' <=> Landed)
  BY <1>2 DEF Past, Closed, Terminal, Settled, Landed, RecoveryOK, RecoveryAt, Cleaning
<1>4. DiscardsTree
  BY <1>2, <1>3 DEF DiscardsTree
<1>5. Onward /\ StreamOK' /\ GitOK' /\ Honest
  BY <1>4, Discarding
<1>7. PICK c : c = call[r]
  OBVIOUS
<1>8. Answering(r, c) /\ c \in Call
  BY <1>2, <1>7, SameCall
<1>9. RecoveryAt(place, c)' /\ place \in RecoveryPlaces
  BY <1>1, <1>3 DEF RecoveryAt, Cleaning, Authorizing, RecoveryPlaces, RecoveryPC, CleanupPC
<1>10. /\ pc[Run] \in AtSource \/ Landed => SourceKept(Past, Closed)'
       /\ pc[Run] \in Leased => (Closed' => "cleanup" \in overtaken')
  BY <1>2, <1>3 DEF RunOK, RunAt, SourceKept
<1>11. mark' \in Marks /\ ticket' \in Tickets /\ overtaken' \subseteq {"completion", "cleanup"}
  BY <1>2 DEF TypesOK, TypeOK, Tickets
<1>12. UNCHANGED <<ref, candidate, failures, stale, duty, receipt>> /\ lease' = lease
  BY <1>2
<1> QED BY <1>1, <1>5, <1>8, <1>9, <1>10, <1>11, <1>12, LeaseKept, RecoveryActs

(* The bounded cleanup. An inspection that still holds is of a task that    *)
(* was never leased, and whose change has not landed.                      *)
LEMMA NeverLeased ==
    ASSUME TaskInv, NEW r \in Recoverers, Looked(call[r]),
           log[call[r].seen] = "worktree_creation_started", Len(log) = call[r].seen
    PROVE  /\ ~Landed /\ pc[Run] \notin Leased
           /\ "integration_observed" \notin Past
<1>1. Last(log) = "worktree_creation_started" /\ log # <<>>
  BY Verdict DEF Looked
<1>2. Past \subseteq Into.queued
  BY <1>1 DEF TaskInv, StreamOK, Shape, Into
<1> QED BY <1>2 DEF TaskInv, GitOK, RunOK, RunAt, Into

LEMMA RemoveUnleasedTreeHolds ==
    ASSUME TaskInv, NEW r \in Recoverers, RemoveUnleasedTree(r)
    PROVE  Kept
<1>1. PICK place \in {"close", "unleaseRef"} : Goto(r, place)
  BY DEF RemoveUnleasedTree
<1>2. /\ UNCHANGED <<log, mark, candidate, failures, ref, stale, lease, duty, receipt, call>>
      /\ TypesOK /\ StreamOK /\ GitOK /\ RunOK /\ log \in Seq(Events) /\ Len(log) \in Nat
      /\ RecoveryOK(r) /\ pc[r] = "unleaseTree"
      /\ overtaken \subseteq {"completion", "cleanup"}
  BY DEF RemoveUnleasedTree, stream, TaskInv, TypesOK, TypeOK
<1>3. /\ ticket' \in {ticket, "partial", "treeless"}
      /\ ticket' # ticket => ticket \in {"base", "source"}
      /\ ticket = "source" => ticket' \in {"source", "treeless"}
      /\ ticket' = "treeless" => Overtakes(r, "cleanup")
      /\ ticket' # "treeless" => overtaken' = overtaken
  BY DEF RemoveUnleasedTree
<1>4. overtaken' = overtaken \/
          (overtaken' = overtaken \cup {"cleanup"} /\ Len(log) # call[r].seen /\ ~Terminal(log))
  BY <1>3 DEF Overtakes
<1>5. /\ Past' = Past /\ (Closed' <=> Closed)
      /\ (ticket' = "gone" <=> ticket = "gone") /\ (Landed' <=> Landed)
      /\ Looked(call[r]) /\ log[call[r].seen] = "worktree_creation_started"
      /\ overtaken \subseteq overtaken'
  BY <1>2, <1>3, <1>4 DEF Past, Closed, Terminal, Landed, RecoveryOK, RecoveryAt
<1>6. Onward
  BY <1>2, <1>5 DEF Onward, Settled
<1>7. StreamOK' /\ GitOK'
  BY <1>2, <1>5 DEF StreamOK, GitOK, EndsWith, Landed, Settled
<1>8. Honest
  BY <1>2, <1>4, <1>5, HonestStill DEF Closed
<1>9. PICK c : c = call[r]
  OBVIOUS
<1>10. Answering(r, c) /\ c \in Call /\ Looked(c) /\ log[c.seen] = "worktree_creation_started"
  BY <1>2, <1>5, <1>9, SameCall
<1>11. RecoveryAt(place, c)' /\ place \in RecoveryPlaces
  BY <1>2, <1>10 DEF RecoveryAt, Cleaning, Authorizing, RecoveryPlaces, RecoveryPC, Looked
<1>12. pc[Run] \in AtSource \/ Landed => SourceKept(Past, Closed)'
  <2>1. SUFFICES ASSUME pc[Run] \in AtSource \/ Landed, SourceKept(Past, Closed), ~Closed,
                        ticket = "source", ticket' = "treeless"
                 PROVE  "cleanup" \in overtaken'
    BY <1>2, <1>3, <1>5 DEF RunOK, RunAt, SourceKept
  <2>2. Len(log) # call[r].seen
    BY <1>5, <2>1, NeverLeased DEF Leased
  <2> QED BY <1>2, <1>3, <2>1, <2>2 DEF Overtakes, Closed, RecoveryOK, RecoveryAt, Looked
<1>13. pc[Run] \in Leased => (Closed' => "cleanup" \in overtaken')
  BY <1>2, <1>5 DEF RunOK, RunAt
<1>14. mark' \in Marks /\ ticket' \in Tickets /\ overtaken' \subseteq {"completion", "cleanup"}
  BY <1>2, <1>3, <1>4 DEF TypesOK, TypeOK, Tickets
<1>15. UNCHANGED <<ref, candidate, failures, stale, duty, receipt>> /\ lease' = lease
  BY <1>2
<1> QED BY <1>1, <1>6, <1>7, <1>8, <1>10, <1>11, <1>12, <1>13, <1>14, <1>15, LeaseKept, RecoveryActs

LEMMA DeleteUnleasedRefHolds ==
    ASSUME TaskInv, NEW r \in Recoverers, DeleteUnleasedRef(r)
    PROVE  Kept
<1>1. PICK place \in {"close", "abandon"} : Goto(r, place)
  BY DEF DeleteUnleasedRef
<1>2. /\ UNCHANGED <<log, mark, candidate, failures, ref, stale, lease, duty, receipt, call, overtaken>>
      /\ TypesOK /\ StreamOK /\ GitOK /\ RunOK /\ log \in Seq(Events) /\ Len(log) \in Nat
      /\ RecoveryOK(r) /\ pc[r] = "unleaseRef"
      /\ ticket = "partial" /\ ticket' \in {"partial", "none"}
  BY DEF DeleteUnleasedRef, stream, local, TaskInv, TypesOK, TypeOK
<1>5. /\ Past' = Past /\ (Closed' <=> Closed) /\ (Landed' <=> Landed)
      /\ (ticket' = "gone" <=> ticket = "gone")
      /\ Looked(call[r]) /\ log[call[r].seen] = "worktree_creation_started"
  BY <1>2 DEF Past, Closed, Terminal, Landed, RecoveryOK, RecoveryAt
<1>6. Onward
  BY <1>2, <1>5 DEF Onward, Settled
<1>7. StreamOK' /\ GitOK'
  BY <1>2, <1>5 DEF StreamOK, GitOK, EndsWith, Landed, Settled
<1>8. Honest
  BY <1>2, <1>5, HonestStill
<1>9. PICK c : c = call[r]
  OBVIOUS
<1>10. Answering(r, c) /\ c \in Call /\ Looked(c) /\ log[c.seen] = "worktree_creation_started"
  BY <1>2, <1>5, <1>9, SameCall
<1>11. RecoveryAt(place, c)' /\ place \in RecoveryPlaces
  BY <1>2, <1>10 DEF RecoveryAt, Cleaning, Authorizing, RecoveryPlaces, RecoveryPC, Looked
<1>12. /\ pc[Run] \in AtSource \/ Landed => SourceKept(Past, Closed)'
       /\ pc[Run] \in Leased => (Closed' => "cleanup" \in overtaken')
  BY <1>2, <1>5 DEF RunOK, RunAt, SourceKept
<1>14. mark' \in Marks /\ ticket' \in Tickets /\ overtaken' \subseteq {"completion", "cleanup"}
  BY <1>2 DEF TypesOK, TypeOK, Tickets
<1>15. UNCHANGED <<ref, candidate, failures, stale, duty, receipt>> /\ lease' = lease
  BY <1>2
<1> QED BY <1>1, <1>6, <1>7, <1>8, <1>10, <1>11, <1>12, <1>14, <1>15, LeaseKept, RecoveryActs

LEMMA AtRest ==
    ASSUME NEW r \in Recoverers, NEW place \in {"idle", "close"}, Answering(r, NoCall)
    PROVE  \E c \in Call : Answering(r, c) /\ RecoveryAt(place, c)'
<1>1. PICK c : c = NoCall
  OBVIOUS
<1>2. c \in Call /\ Answering(r, c)
  BY <1>1, CallTypes
<1>3. RecoveryAt(place, c)'
  BY DEF RecoveryAt, Cleaning, Authorizing
<1> QED BY <1>2, <1>3

LEMMA RetainHolds ==
    ASSUME TaskInv, NEW r \in Recoverers, Retain(r)
    PROVE  Kept
<1>1. /\ UNCHANGED <<git, lease, duty, receipt, overtaken>>
      /\ Answering(r, NoCall) /\ Goto(r, "idle") /\ Pause(<<>>)
  BY DEF Retain
<1>2. /\ UNCHANGED <<ticket, candidate, failures, ref, stale>>
      /\ log' = log /\ mark' = "uncertain"
      /\ TypesOK /\ StreamOK /\ GitOK /\ RunOK /\ log \in Seq(Events) /\ Len(log) \in Nat
  BY <1>1, JustPaused DEF git, TaskInv, TypesOK, TypeOK
<1>3. Past' = Past /\ (Closed' <=> Closed) /\ (Landed' <=> Landed)
  BY <1>2 DEF Past, Closed, Terminal, Landed
<1>4. Onward
  BY <1>1, <1>2, <1>3 DEF Onward, Settled
<1>5. StreamOK' /\ GitOK'
  BY <1>1, <1>2, <1>3 DEF StreamOK, GitOK, EndsWith, Landed, Settled
<1>6. Honest
  BY <1>1, <1>2, <1>3, HonestStill
<1>7. PICK c \in Call : Answering(r, c) /\ RecoveryAt("idle", c)'
  BY <1>1, AtRest
<1>8. /\ pc[Run] \in AtSource \/ Landed => SourceKept(Past, Closed)'
      /\ pc[Run] \in Leased => (Closed' => "cleanup" \in overtaken')
  BY <1>1, <1>2, <1>3 DEF RunOK, RunAt, SourceKept
<1>9. /\ mark' \in Marks /\ ticket' \in Tickets /\ overtaken' \subseteq {"completion", "cleanup"}
      /\ "idle" \in RecoveryPlaces
  BY <1>1, <1>2 DEF TypesOK, TypeOK, Marks, RecoveryPlaces
<1>10. UNCHANGED <<ref, candidate, failures, stale, duty, receipt>> /\ lease' = lease
  BY <1>1, <1>2
<1> QED BY <1>1, <1>4, <1>5, <1>6, <1>7, <1>8, <1>9, <1>10, LeaseKept, RecoveryActs

LEMMA AbandonHolds ==
    ASSUME TaskInv, NEW r \in Recoverers, Abandon(r)
    PROVE  Kept
<1>1. /\ UNCHANGED <<git, lease, duty, receipt>> /\ Overtakes(r, "cleanup")
      /\ Answering(r, NoCall) /\ Goto(r, "idle") /\ AppendAll(<<"failed">>)
      /\ Looked(call[r]) /\ log[call[r].seen] = "worktree_creation_started"
  BY DEF Abandon, TaskInv, RecoveryOK, RecoveryAt
<1>2. /\ UNCHANGED <<ticket, candidate, failures, ref, stale>> /\ mark' \in Marks
      /\ TypesOK /\ StreamOK /\ GitOK /\ RunOK /\ overtaken \subseteq {"completion", "cleanup"}
      /\ "failed" \in Into.terminal /\ "failed" # "integration_observed"
  BY <1>1, Appended DEF git, TaskInv, TypesOK, TypeOK, Into
<1>3. /\ log' \in Seq(Events) /\ log # <<>> /\ log' # <<>> /\ ~Closed
      /\ Past' = Past \cup {"failed"} /\ Last(log') = "failed" /\ Shape(Past', "failed") /\ Closed'
      /\ Len(log') = Len(log) + 1 /\ Len(log) \in Nat
      /\ \A i \in 1..Len(log) : log'[i] = log[i]
  <2>1. PICK e : e = "failed"
    OBVIOUS
  <2>2. Accepts(log, e) /\ log' = log \o <<e>>
    BY <1>1, <2>1, Appended
  <2> QED BY <1>2, <2>1, <2>2, Appends
<1>4. /\ overtaken' \in {overtaken, overtaken \cup {"cleanup"}} /\ (Landed' <=> Landed)
      /\ Len(log) # call[r].seen => "cleanup" \in overtaken'
  BY <1>1, <1>2, <1>3 DEF Overtakes, Closed, Landed
<1>5. Onward
  BY <1>2, <1>3, <1>4 DEF Onward, Settled
<1>6. StreamOK' /\ GitOK'
  BY <1>2, <1>3, <1>4 DEF StreamOK, GitOK, EndsWith, Landed, Settled
<1>7. "cleanup" \in overtaken' \/ (~Landed /\ pc[Run] \notin Leased)
  BY <1>1, <1>4, NeverLeased
<1>8. Honest
  BY <1>2, <1>3, <1>4, <1>7, HonestAppend
<1>9. PICK c \in Call : Answering(r, c) /\ RecoveryAt("idle", c)'
  BY <1>1, AtRest
<1>10. /\ pc[Run] \in AtSource \/ Landed => SourceKept(Past, Closed)'
       /\ pc[Run] \in Leased => (Closed' => "cleanup" \in overtaken')
  BY <1>3, <1>7 DEF SourceKept
<1>11. /\ ticket' \in Tickets /\ overtaken' \subseteq {"completion", "cleanup"}
       /\ "idle" \in RecoveryPlaces
  BY <1>2, <1>4 DEF TypesOK, TypeOK, RecoveryPlaces
<1>12. UNCHANGED <<ref, candidate, failures, stale, duty, receipt>> /\ lease' = lease
  BY <1>1, <1>2
<1> QED BY <1>1, <1>2, <1>5, <1>6, <1>8, <1>9, <1>10, <1>11, <1>12, LeaseKept, RecoveryActs

(* An authorized append, of one event or of two.                           *)
Grown(added, last) ==
    /\ log' \in Seq(Events) /\ log # <<>> /\ log' # <<>> /\ ~Closed
    /\ Past' = Past \cup added /\ Last(log') = last /\ Shape(Past', last)
    /\ Closed' <=> last \in Into.terminal
    /\ Len(log) \in Nat /\ Len(log) <= Len(log')
    /\ \A i \in 1..Len(log) : log'[i] = log[i]

LEMMA GrownByOne ==
    ASSUME TaskInv, NEW e, AppendAll(<<e>>)
    PROVE  Grown({e}, e)
<1>1. Accepts(log, e) /\ log' = log \o <<e>>
  BY Appended
<1>2. /\ log' \in Seq(Events) /\ log # <<>> /\ log' # <<>> /\ ~Closed
      /\ Past' = Past \cup {e} /\ Last(log') = e /\ Shape(Past', e)
      /\ Closed' <=> e \in Into.terminal
      /\ Len(log') = Len(log) + 1 /\ Len(log) \in Nat
      /\ \A i \in 1..Len(log) : log'[i] = log[i]
  BY <1>1, Appends
<1>3. Len(log) <= Len(log')
  BY <1>2
<1> QED BY <1>2, <1>3 DEF Grown

LEMMA GrownByTwo ==
    ASSUME TaskInv, NEW e, NEW f, AppendAll(<<e, f>>)
    PROVE  Grown({e, f}, f)
<1>1. log \in Seq(Events) /\ AcceptsAll(log, <<e, f>>) /\ log' = log \o <<e, f>>
  BY DEF AppendAll, TaskInv, TypesOK, TypeOK
<1> DEFINE s == log \o <<e>>
<1>2. Accepts(log, e) /\ Accepts(s, f)
  BY <1>1, TwoAccepted
<1>3. log # <<>> /\ ~Closed /\ Shape(Past, Last(log))
  BY <1>2 DEF Accepts, Closed, TaskInv, StreamOK
<1>4. e \in Events /\ Shape(Past \cup {e}, e)
  BY <1>1, <1>2, <1>3, ShapeKept DEF Past
<1>5. /\ s \in Seq(Events) /\ Range(s) = Past \cup {e} /\ Last(s) = e
      /\ Len(s) = Len(log) + 1 /\ \A i \in 1..Len(log) : s[i] = log[i]
  BY <1>1, <1>4, Longer DEF Past
<1>7. f \in Events /\ Shape((Past \cup {e}) \cup {f}, f)
  BY <1>2, <1>4, <1>5, ShapeKept
<1>6. log' = s \o <<f>>
  <2>1. log' \in Seq(Events) /\ Len(log') = Len(log) + 2
    BY <1>1, <1>4, <1>7
  <2>2. s \o <<f>> \in Seq(Events) /\ Len(s \o <<f>>) = Len(log) + 2
    BY <1>1, <1>4, <1>7
  <2>3. \A i \in 1..(Len(log) + 2) : log'[i] = (s \o <<f>>)[i]
    BY <1>1, <1>4, <1>7
  <2> DEFINE t == s \o <<f>>
  <2>4. /\ log' \in Seq(Events) /\ t \in Seq(Events) /\ Len(log') = Len(t)
        /\ \A i \in 1..Len(log') : log'[i] = t[i]
    BY <2>1, <2>2, <2>3
  <2> HIDE DEF t
  <2>5. log' = t
    BY <2>4, SeqEqual
  <2> QED BY <2>5 DEF t
<1> HIDE DEF s
<1>8. /\ log' \in Seq(Events) /\ Range(log') = (Past \cup {e}) \cup {f} /\ Last(log') = f
      /\ log' # <<>> /\ Len(log') = Len(s) + 1 /\ \A i \in 1..Len(s) : log'[i] = s[i]
  BY <1>5, <1>6, <1>7, Longer
<1>9. /\ Len(log) \in Nat /\ Len(log) <= Len(log')
      /\ \A i \in 1..Len(log) : log'[i] = log[i]
  BY <1>1, <1>5, <1>8
<1>10. Past' = Past \cup {e, f} /\ Shape(Past', f)
  BY <1>7, <1>8 DEF Past
<1>11. Closed' <=> f \in Into.terminal
  BY <1>8 DEF Closed, Terminal
<1> QED BY <1>3, <1>8, <1>9, <1>10, <1>11 DEF Grown

LEMMA BatchGrows ==
    ASSUME TaskInv, NEW path \in Paths, AppendAll(Batch[path])
    PROVE  \E added \in SUBSET Events, last \in Events :
              /\ Grown(added, last)
              /\ added \subseteq Into.integrating \cup {"completed"}
              /\ "integration_unverified" # last /\ "failed" # last
              /\ path \in {"integration_prepared", "integration_observed"} => "cleanup_started" \in added
              /\ "integration_observed" \in added => last = "cleanup_started"
              /\ last = "completed" => /\ path \in CleanupBegun \cup {"cleaned"}
                                       /\ Past' \cap CleanupBegun # {}
<1>1. CASE path = "integration_prepared"
  <2>1. Batch[path] = <<"integration_observed", "cleanup_started">>
    BY <1>1 DEF Batch
  <2>2. Grown({"integration_observed", "cleanup_started"}, "cleanup_started")
    BY <2>1, GrownByTwo
  <2> QED BY <1>1, <2>2 DEF Into, Events, CleanupBegun
<1>2. CASE path = "integration_observed"
  <2>1. Batch[path] = <<"cleanup_started">>
    BY <1>2 DEF Batch
  <2>2. Grown({"cleanup_started"}, "cleanup_started")
    BY <2>1, GrownByOne
  <2> QED BY <1>2, <2>2 DEF Into, Events, CleanupBegun
<1>3. CASE path \in {"cleanup_started", "cleaned"}
  <2>1. Batch[path] = <<"cleanup_completed", "completed">>
    BY <1>3 DEF Batch
  <2>2. Grown({"cleanup_completed", "completed"}, "completed")
    BY <2>1, GrownByTwo
  <2>3. Past' \cap CleanupBegun # {}
    BY <2>2 DEF Grown, CleanupBegun, Into
  <2>4. {"cleanup_completed", "completed"} \in SUBSET Events /\ "completed" \in Events
    BY DEF Into, Events
  <2>5. /\ {"cleanup_completed", "completed"} \subseteq Into.integrating \cup {"completed"}
        /\ path \in CleanupBegun \cup {"cleaned"}
    BY <1>3 DEF Into, CleanupBegun
  <2> QED BY <1>3, <2>2, <2>3, <2>4, <2>5
<1>4. CASE path = "cleanup_observed"
  <2>1. Batch[path] = <<"cleanup_reconciled", "completed">>
    BY <1>4 DEF Batch
  <2>2. Grown({"cleanup_reconciled", "completed"}, "completed")
    BY <2>1, GrownByTwo
  <2>3. Past' \cap CleanupBegun # {}
    BY <2>2 DEF Grown, CleanupBegun, Into
  <2> QED BY <1>4, <2>2, <2>3 DEF Into, Events, CleanupBegun
<1>5. CASE path \in {"cleanup_completed", "cleanup_reconciled"}
  <2>1. Batch[path] = <<"completed">>
    BY <1>5 DEF Batch
  <2>2. Grown({"completed"}, "completed")
    BY <2>1, GrownByOne
  <2>3. Accepts(log, "completed")
    BY <2>1, Appended
  <2>4. Past' \cap CleanupBegun # {}
    BY <2>2, <2>3 DEF Grown, CleanupBegun, Into, Accepts, InOrder, Has, Past
  <2> QED BY <1>5, <2>2, <2>4 DEF Into, Events, CleanupBegun
<1>6. CASE path = "obstructed"
  <2>1. Batch[path] = <<"cleanup_observed">>
    BY <1>6 DEF Batch
  <2>2. Grown({"cleanup_observed"}, "cleanup_observed")
    BY <2>1, GrownByOne
  <2> QED BY <1>6, <2>2 DEF Into, Events, CleanupBegun
<1> QED BY <1>1, <1>2, <1>3, <1>4, <1>5, <1>6 DEF Paths, Batch

LEMMA AppendAuthorizedHolds ==
    ASSUME TaskInv, NEW r \in Recoverers, AppendAuthorized(r)
    PROVE  Kept
<1> DEFINE path == call[r].path
<1>1. /\ UNCHANGED <<git, lease, duty, receipt, overtaken>> /\ Answering(r, NoCall)
      /\ AppendAll(Batch[path]) /\ mark' = "none"
      /\ Settled /\ path \in Paths
      /\ path \in CleanupBegun \cup {"cleaned"} => ticket = "gone" \/ "completion" \in overtaken
  BY DEF AppendAuthorized, AppendAll, TaskInv, RecoveryOK, RecoveryAt, Authorizing
<1>2. PICK place \in {"assert", "close"} :
          /\ Goto(r, place)
          /\ place = "assert" => path \in {"integration_prepared", "integration_observed"}
  BY DEF AppendAuthorized
<1>3. PICK added \in SUBSET Events, last \in Events :
              /\ Grown(added, last)
              /\ added \subseteq Into.integrating \cup {"completed"}
              /\ "integration_unverified" # last /\ "failed" # last
              /\ path \in {"integration_prepared", "integration_observed"} => "cleanup_started" \in added
              /\ "integration_observed" \in added => last = "cleanup_started"
              /\ last = "completed" => /\ path \in CleanupBegun \cup {"cleaned"}
                                       /\ Past' \cap CleanupBegun # {}
  BY <1>1, BatchGrows
<1>4. /\ log' \in Seq(Events) /\ log # <<>> /\ log' # <<>> /\ ~Closed
      /\ Past' = Past \cup added /\ Last(log') = last /\ Shape(Past', last)
      /\ Closed' <=> last \in Into.terminal
      /\ Len(log) \in Nat /\ Len(log) <= Len(log')
      /\ \A i \in 1..Len(log) : log'[i] = log[i]
  BY <1>3 DEF Grown
<1>5. /\ UNCHANGED <<ticket, candidate, failures, ref, stale, overtaken>>
      /\ TypesOK /\ StreamOK /\ GitOK /\ RunOK /\ Landed /\ (Landed' <=> Landed)
      /\ Settled' /\ pc[Run] \notin Leased
  BY <1>1 DEF git, TaskInv, Landed, Settled, RunOK, RunAt, Unswapped
<1>6. Onward
  BY <1>4, <1>5 DEF Onward
<1>7. StreamOK'
  BY <1>1, <1>3, <1>4, <1>5 DEF StreamOK, EndsWith
<1>8. GitOK'
  BY <1>4, <1>5 DEF GitOK
<1>9. Honest
  <2>1. Terminal(log)' <=> last \in Into.terminal
    BY <1>4 DEF Closed
  <2>2. last \in Into.terminal => last = "completed"
    BY <1>3 DEF Into
  <2>3. last = "completed" => "integration_observed" \in Past
    <3>1. last = "completed" => "integration_observed" \notin added
      BY <1>3
    <3>2. last = "completed" => "integration_observed" \in Past'
      BY <1>1, <1>3, <1>4 DEF Shape
    <3> QED BY <1>4, <3>1, <3>2
  <2> QED BY <1>4, <1>5, <2>1, <2>2, <2>3, HonestAppend
<1>10. PICK c : c = NoCall
  OBVIOUS
<1>11. c \in Call /\ Answering(r, c)
  BY <1>1, <1>10, CallTypes
<1>12. RecoveryAt(place, c)' /\ place \in RecoveryPlaces
  BY <1>2, <1>3, <1>4, <1>5 DEF RecoveryAt, Cleaning, Authorizing, RecoveryPlaces, RecoveryPC
<1>13. /\ pc[Run] \in AtSource \/ Landed => SourceKept(Past, Closed)'
       /\ pc[Run] \in Leased => (Closed' => "cleanup" \in overtaken')
  BY <1>4, <1>5 DEF RunOK, RunAt, SourceKept
<1>14. /\ mark' \in Marks /\ ticket' \in Tickets /\ overtaken' \subseteq {"completion", "cleanup"}
  BY <1>1, <1>5 DEF TypesOK, TypeOK, Marks
<1>15. UNCHANGED <<ref, candidate, failures, stale, duty, receipt>> /\ lease' = lease
  BY <1>1, <1>5
<1> QED BY <1>2, <1>6, <1>7, <1>8, <1>9, <1>11, <1>12, <1>13, <1>14, <1>15, LeaseKept, RecoveryActs

-----------------------------------------------------------------------------
(* What is not of a process, and the end of one.                           *)
LEMMA OthersAct ==
    ASSUME TaskInv, UNCHANGED <<log, ticket, candidate, failures, pc, local>>,
           mark' \in Marks, mark' = "none" => mark = "none",
           ref' \in Refs, ref = "before" => ref' = "before", Landed => Landed',
           stale' \in BOOLEAN, lease' \in [owner : Procs \cup {NoProc}, live : BOOLEAN]
    PROVE  Kept
<1>1. /\ UNCHANGED <<log, ticket, candidate, failures, pc, duty, receipt, call, overtaken>>
      /\ TypesOK /\ StreamOK /\ GitOK /\ RunOK /\ log \in Seq(Events) /\ Len(log) \in Nat
  BY DEF local, TaskInv, TypesOK, TypeOK
<1>2. Past' = Past /\ (Closed' <=> Closed) /\ (Landed' <=> Landed) /\ (Settled => Settled')
  BY <1>1 DEF Past, Closed, Terminal, Landed, Settled
<1>3. TypesOK'
  BY <1>1 DEF TypesOK, TypeOK
<1>4. Onward
  BY <1>1, <1>2 DEF Onward
<1>5. StreamOK' /\ GitOK'
  BY <1>1, <1>2 DEF StreamOK, GitOK, EndsWith
<1>6. /\ pc[Run] \in AtSource \/ Landed => SourceKept(Past, Closed)'
      /\ pc[Run] \in Leased => (Closed' => "cleanup" \in overtaken')
  BY <1>1, <1>2 DEF RunOK, RunAt, SourceKept
<1>7. RunOK'
  BY <1>1, <1>4, <1>6, RunKept
<1>8. \A r \in Recoverers : RecoveryOK(r)'
  BY <1>1, <1>4, RecoveryKept
<1>9. Honest
  BY <1>1, <1>2, HonestStill
<1> QED BY <1>3, <1>5, <1>7, <1>8, <1>9 DEF Kept, TaskInv

LEMMA ReconcileEffectHolds ==
    ASSUME TaskInv, ReconcileEffect
    PROVE  Kept
<1>1. /\ UNCHANGED <<log, ticket, candidate, failures, ref, stale, lease, pc, local>>
      /\ mark' \in Marks /\ mark' # "none"
      /\ TypeOK
  BY DEF ReconcileEffect, git, Marks, TaskInv, TypesOK
<1> QED BY <1>1, OthersAct DEF TypeOK, Landed

LEMMA LeaseElapsesHolds ==
    ASSUME TaskInv, LeaseElapses
    PROVE  Kept
<1>1. /\ UNCHANGED <<log, mark, ticket, candidate, failures, ref, stale, pc, local>>
      /\ lease' = [lease EXCEPT !.live = FALSE] /\ TypeOK
  BY DEF LeaseElapses, git, stream, TaskInv, TypesOK
<1>2. lease' \in [owner : Procs \cup {NoProc}, live : BOOLEAN]
  BY <1>1 DEF TypeOK
<1> QED BY <1>1, <1>2, OthersAct DEF TypeOK, Landed

LEMMA OtherLandsHolds ==
    ASSUME TaskInv, OtherLands
    PROVE  Kept
<1>1. /\ UNCHANGED <<log, mark, ticket, candidate, failures, lease, pc, local>>
      /\ TypeOK /\ stale' \in BOOLEAN /\ ref' \in Refs
  BY DEF OtherLands, stream, TaskInv, TypesOK, TypeOK, Refs
<1>2. ref = "before" => ref' = "before"
  BY DEF OtherLands
<1>3. Landed => Landed'
  BY DEF OtherLands, Landed
<1> QED BY <1>1, <1>2, <1>3, OthersAct DEF TypeOK

LEMMA CrashHolds ==
    ASSUME TaskInv, NEW p \in Procs, Crash(p)
    PROVE  Kept
<1>1. /\ UNCHANGED <<stream, git, duty, receipt, overtaken>>
      /\ call' = [r \in Recoverers |-> IF r = p THEN NoCall ELSE call[r]]
      /\ Goto(p, IF p = Run THEN "ended" ELSE "idle")
      /\ lease' = IF lease.owner = p THEN [lease EXCEPT !.owner = NoProc] ELSE lease
  BY DEF Crash
<1>2. lease' \in [owner : Procs \cup {NoProc}, live : BOOLEAN]
  <2>1. lease \in [owner : Procs \cup {NoProc}, live : BOOLEAN]
    BY DEF TaskInv, TypesOK, TypeOK
  <2>2. [lease EXCEPT !.owner = NoProc] \in [owner : Procs \cup {NoProc}, live : BOOLEAN]
    BY <2>1
  <2> QED BY <1>1, <2>1, <2>2
<1>3. CASE p = Run
  <2>1. /\ Goto(Run, "ended") /\ UNCHANGED <<stream, ref, duty, call, overtaken>>
        /\ UNCHANGED <<ticket, candidate, failures, stale, receipt>> /\ TypeOK /\ RunOK
        /\ Past' = Past /\ (Closed' <=> Closed)
    <3>1. call' = call
      BY <1>1, <1>3, ProcsAssumption DEF TaskInv, TypesOK
    <3> QED BY <1>1, <1>3, <3>1, SamePast DEF git, TaskInv, TypesOK
  <2>2. RunAt("ended", Past, Closed)'
    BY <2>1 DEF RunOK, RunAt, SourceKept, Landed, Settled, Unswapped, Leased, AtSource, Tidying
  <2> QED BY <1>2, <2>1, <2>2, RunGoes DEF TypeOK, Settled
<1>4. CASE p \in Recoverers
  <2>1. p # Run /\ Goto(p, "idle")
    BY <1>1, <1>4, ProcsAssumption
  <2>2. Answering(p, NoCall)
    BY <1>1, <1>4 DEF Answering, TaskInv, TypesOK
  <2>3. RecoveryAt("idle", NoCall) /\ "idle" \in RecoveryPlaces
    BY DEF RecoveryAt, Cleaning, Authorizing, RecoveryPlaces
  <2>4. PICK c : c = NoCall
    OBVIOUS
  <2>5. c \in Call /\ Answering(p, c) /\ RecoveryAt("idle", c)
    BY <2>2, <2>3, <2>4, CallTypes
  <2> QED BY <1>1, <1>2, <1>4, <2>1, <2>3, <2>5, RecoveryAnswers
<1> QED BY <1>3, <1>4 DEF Procs

LEMMA RecoveryStepHolds ==
    ASSUME TaskInv, NEW r \in Recoverers, RecoveryStep(r)
    PROVE  Kept
  BY RecoveryBeginHolds, InspectHolds, JudgeHolds, ReadAgainHolds, IssueHolds, CompareHolds,
     AppendAuthorizedHolds, AssertActiveHolds, RecoveryVerifies, RecoveryRemovesTree,
     RecoveryDeletesRef, ReportHolds, CloseHolds, BeginInspectionHolds, RetainHolds,
     AuthorizeCleanupHolds, VerifyUnleasedHolds, RemoveUnleasedTreeHolds,
     DeleteUnleasedRefHolds, AbandonHolds DEF RecoveryStep

LEMMA StuttersHold ==
    ASSUME TaskInv, UNCHANGED vars
    PROVE  Kept
<1>1. /\ UNCHANGED <<log, mark, ticket, candidate, failures, ref, stale, lease, pc, local>> /\ TypeOK
  BY DEF vars, stream, git, TaskInv, TypesOK
<1> QED BY <1>1, OthersAct DEF TypeOK, Landed

LEMMA StepsHold ==
    ASSUME TaskInv, [Next]_vars
    PROVE  Kept
<1> HIDE DEF TaskInv, Kept
<1> QED BY RunStepHolds, RecoveryStepHolds, CrashHolds, ReconcileEffectHolds, LeaseElapsesHolds,
           OtherLandsHolds, StuttersHold DEF Next

LEMMA InitTaskInv ==
    ASSUME Init
    PROVE  TaskInv /\ Promise!Init
<1>1. Past = {} /\ log \in Seq(Events) /\ Len(log) = 0 /\ ~Closed
  <2>1. DOMAIN <<>> = {}
    OBVIOUS
  <2> QED BY <2>1 DEF Init, Past, Range, Closed
<1>2. /\ pc[Run] = "create" /\ pc \in [Procs -> PC]
      /\ \A r \in Recoverers : pc[r] = "idle" /\ call[r] = NoCall
  BY ProcsAssumption DEF Init, Procs, PC, RunPC
<1>3. /\ call \in [Recoverers -> Call] /\ duty \in Duties
      /\ lease \in [owner : Procs \cup {NoProc}, live : BOOLEAN]
  BY CallTypes DEF Init
<1>4. TypesOK
  BY <1>1, <1>2, <1>3 DEF Init, TypesOK, TypeOK, Marks, Tickets, Refs, RunPC, RecoveryPlaces
<1>5. StreamOK /\ GitOK
  BY <1>1 DEF Init, StreamOK, GitOK, EndsWith, Landed
<1>6. RunOK
  BY <1>1, <1>2 DEF Init, RunOK, RunAt, Unswapped, Leased, AtSource, Tidying, Landed
<1>7. \A r \in Recoverers : RecoveryOK(r)
  BY <1>2 DEF RecoveryOK, RecoveryAt, Cleaning, Authorizing
<1>8. Promise!Init
  BY <1>1 DEF Init, Promise!Init, Landed, Has, Past, Outcome
<1> QED BY <1>4, <1>5, <1>6, <1>7, <1>8 DEF TaskInv

(* TaskInv holds in every state: what the stream, git, the run and each    *)
(* recovery call know of one another.                                      *)
THEOREM TaskInvariance == Spec => []TaskInv
<1>1. Init => TaskInv
  BY InitTaskInv
<1>2. TaskInv /\ [Next]_vars => TaskInv'
  BY StepsHold DEF Kept
<1> QED BY <1>1, <1>2, PTL DEF Spec

(* A completed task leaves neither its worktree nor its candidate behind,  *)
(* but for a recovery the run overtook.                                    *)
THEOREM CompletionCleans == Spec => []CompletedIsClean
<1>1. TaskInv => CompletedIsClean
  BY DEF TaskInv, StreamOK, EndsWith, CompletedIsClean, Outcome, Settled
<1> QED BY <1>1, TaskInvariance, PTL

(* A change that landed is never out of reach of recordCompletion by the   *)
(* stream alone.                                                           *)
THEOREM LandingsAreRecoverable == Spec => []LandedIsRecoverable
<1>1. ASSUME TaskInv PROVE LandedIsRecoverable
  <2>1. SUFFICES ASSUME ref = "result", ~candidate, ~failures, mark = "none", ~Terminal(log),
                        "cleanup" \notin overtaken,
                        Past \cap CleanupBegun # {} => ticket = "gone"
                 PROVE  Decision(log, mark) = "record_completion" /\ Last(log) \in Paths
    BY DEF LandedIsRecoverable, Past
  <2>2. Landed /\ "integration_prepared" \in Past
    BY <1>1, <2>1 DEF Landed, TaskInv, GitOK
  <2>3. log # <<>> /\ Shape(Past, Last(log)) /\ ~Closed
    <3>1. log # <<>>
      BY <2>2 DEF Past, Range
    <3> QED BY <1>1, <2>1, <3>1 DEF TaskInv, StreamOK, Closed
  <2>4. SourceKept(Past, Closed)
    BY <1>1, <2>2 DEF TaskInv, RunOK, RunAt
  <2>5. Last(log) # "integration_unverified"
    BY <1>1, <2>1, <2>3 DEF TaskInv, StreamOK, EndsWith
  <2>6. Last(log) \in {"integration_prepared", "integration_observed"} \cup CleanupBegun
    BY <2>1, <2>2, <2>3, <2>5 DEF Shape, Terminal, Into, Events, CleanupBegun
  <2>7. CASE Last(log) \in CleanupBegun
    <3>1. ticket = "gone"
      BY <2>1, <2>3, <2>7 DEF Shape
    <3>2. DecideCleanup(Last(log))
      BY <2>1, <2>7, <3>1 DEF DecideCleanup, Verified
    <3> QED BY <2>1, <2>7, <3>2 DEF Decision, Contradicted, DecidePreparation, DecideWork,
                                    CleanupBegun, Into, Paths, Batch
  <2>8. CASE Last(log) \in {"integration_prepared", "integration_observed"}
    <3>1. "cleanup_started" \notin Past
      BY <2>3, <2>8 DEF Shape, Observations, CleanupBegun, Into
    <3>2. ticket = "source"
      BY <2>1, <2>3, <2>4, <3>1 DEF SourceKept
    <3>3. DecideIntegration(Last(log))
      BY <2>1, <2>8, <3>2 DEF DecideIntegration, Verified
    <3> QED BY <2>1, <2>8, <3>3 DEF Decision, Contradicted, DecidePreparation, DecideWork,
                                    Into, Paths, Batch
  <2> QED BY <2>6, <2>7, <2>8
<1> QED BY <1>1, TaskInvariance, PTL

(* The task implements HonestOutcome: every step is one of its steps, or   *)
(* none.                                                                   *)
THEOREM OutcomesAreHonest == Spec => ImplementsHonestOutcome
<1>1. Init => Promise!Init
  BY InitTaskInv
<1>2. TaskInv /\ [Next]_vars => [Promise!Next]_(Promise!vars)
  BY StepsHold DEF Kept, Honest
<1> QED BY <1>1, <1>2, TaskInvariance, PTL DEF Spec, ImplementsHonestOutcome, Promise!Spec
=============================================================================
