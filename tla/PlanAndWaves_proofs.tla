------------------------ MODULE PlanAndWaves_proofs -------------------------
(***************************************************************************)
(* Proofs about the way of a run from its plan to its waves of writers:    *)
(* RunApproval first, MultiWriter behind it.                               *)
(*                                                                         *)
(* For RunApproval, for any calls, planning requests, proposals, questions *)
(* and admissions, and any bounds: a request has at most one decision;     *)
(* while a rejection is not yet in the run, its request stays the last one *)
(* and open, because only a pending decision lets a run be revised or      *)
(* accepted, and only the command of the rejection ends it; and what is    *)
(* pending is in the index, whose version grows with every decision, so    *)
(* that a look at the index is good for an append at the same version.     *)
(*                                                                         *)
(* For MultiWriter, for any milestones, plans, dependencies and limits: a  *)
(* milestone waits in the queue of the governor exactly while its run      *)
(* does; what a permit holds is active and of its wave; an execution       *)
(* belongs to a wave that is running or to a handoff that is resumed, and  *)
(* up to its handoff it is held; an execution has its claim, a claim has   *)
(* the reviews it depends on behind it, and a launched writer is never     *)
(* planned or ready again.                                                 *)
(***************************************************************************)
EXTENDS RunApproval, MultiWriter, FiniteSetTheorems, WellFoundedInduction, SequenceTheorems, TLAPS

Plans == UNION {Proposals[c] : c \in Asks}
Proposed == [plan : Plans, revision : 1..MaxRevisions, state : {"proposed", "correction"}]
Views == {NoPlanning} \union Proposed
Request == [plan : Digests, end : {"open", "rejected", "revised", "ready"}]
Lifecycles == {"analyzing", "planning", "awaiting_approval", "approved_and_ready_for_execution",
               "waiting", "terminal"}
Places == {"idle", "append", "revise", "ask", "raise", "rejected", "record", "correct"}
PlanningCalls ==
    [at : Places, about : Asks \union {"none"}, plan : Plans \union {NoPlan}, seen : Views,
     decided : Asks \union {"none"}, then : {"idle", "revise", "append"}]
AdmissionCalls ==
    [at : {"admit"}, about : Admissions, plan : {NoPlan}, seen : Nat, decided : {"none"}, then : {"idle"}]
Calls == PlanningCalls \union AdmissionCalls

TypeOK ==
    /\ run \in [lifecycle : Lifecycles, from : {"none", "analyzing"}, requests : Seq(Request),
                fresh : BOOLEAN, service : Nat]
    /\ planning \in Views
    /\ decision \in [Decisions -> [status : {"none", "pending", "accepted", "rejected", "declined", "lapsed"},
                                   request : Nat]]
    /\ index \in [revision : Nat, pending : SUBSET Decisions]
    /\ admitted \subseteq Admissions
    /\ used \subseteq Asks \X {"ask", "withdraw", "reject"}
    /\ call \in [Procs -> Calls]

(* The run: every request but the last has its answer, an analysis has     *)
(* none behind it, and a run that awaits an answer has one to give.        *)
RunFits ==
    /\ \A m \in DOMAIN run.requests :
           m # Len(run.requests) => run.requests[m].end \in {"rejected", "revised"}
    /\ run.lifecycle \in {"analyzing", "waiting"} => run.requests = <<>>
    /\ run.lifecycle = "waiting" => run.from = "analyzing"
    /\ run.lifecycle = "planning" => LastEnd(run) \in {"none", "rejected", "revised"}
    /\ run.lifecycle = "awaiting_approval" => run.requests # <<>> /\ LastEnd(run) = "open"

(* A decision and the request it was raised for. A rejection stands before *)
(* the run has it: its request is then still the last and open, and the    *)
(* command that takes the run back is not used.                            *)
DecisionFits(d) ==
    LET end == run.requests[decision[d].request].end
    IN CASE decision[d].status = "none" -> decision[d].request = 0 /\ <<d, "reject">> \notin used
         [] decision[d].status = "rejected" ->
              /\ decision[d].request \in DOMAIN run.requests
              /\ \/ <<d, "reject">> \in used /\ end = "rejected"
                 \/ /\ <<d, "reject">> \notin used /\ end = "open"
                    /\ decision[d].request = Len(run.requests)
         [] OTHER ->
              /\ decision[d].request \in DOMAIN run.requests
              /\ <<d, "reject">> \notin used
              /\ end \in IF decision[d].status = "accepted" THEN {"ready"} ELSE {"open", "revised"}
DecisionsFit == \A d \in Asks : DecisionFits(d)
(* One decision per request                                                *)
OneOwner ==
    \A d, e \in Asks :
        decision[d].request = decision[e].request /\ decision[d].request # 0 => d = e

(* What a call has read and what it is about                               *)
OfPlan(c) == c.about \in Asks /\ c.plan \in Plans
OfRejection(c) ==
    /\ c.decided \in Asks
    /\ decision[c.decided].status = "rejected"
    /\ c.then # "idle" => OfPlan(c)
OfRecord(c) == OfRejection(c) /\ c.seen \in Views /\ DecidedPlan(c.decided) = Digest(c.seen)
OfAdmission(c) ==
    /\ c.about \in Admissions
    /\ c.seen \in Nat /\ c.seen <= index.revision
    /\ c.seen = index.revision => Blocks(c.about) = {}
CallFits(c) ==
    /\ c.at \in {"append", "revise"} => OfPlan(c) /\ c.seen \in Views
    /\ c.at \in {"ask", "raise"} => c.about \in Asks /\ c.seen \in Proposed
    /\ c.at = "rejected" => OfRejection(c)
    /\ c.at \in {"record", "correct"} => OfRecord(c)
    /\ c.at = "correct" => run.requests[decision[c.decided].request].end = "rejected"
    /\ c.at = "admit" => OfAdmission(c)
CallsFit == \A p \in Procs, c \in Calls : call[p] = c => CallFits(c)

(* What is pending is in the index that admissions look at.                *)
Indexed == \A d \in Decisions : Pending(d) => d \in index.pending

IInv ==
    /\ TypeOK /\ RunFits /\ DecisionsFit /\ OneOwner
    /\ RejectionsAreBacked /\ CallsFit /\ Indexed

-----------------------------------------------------------------------------
(* The last element of a sequence replaced                                 *)
LEMMA LastReplaced ==
    ASSUME NEW S, NEW s \in Seq(S), s # <<>>, NEW x \in S
    PROVE  /\ Front(s) \o <<x>> = [s EXCEPT ![Len(s)] = x]
           /\ Len(s) \in Nat \ {0} /\ DOMAIN s = 1..Len(s)
<1>. DEFINE n == Len(s)
            new == [s EXCEPT ![n] = x]
<1>1. n \in Nat /\ n # 0 /\ n \in 1..n /\ DOMAIN s = 1..n
  BY EmptySeq, LenProperties
<1>2. /\ Front(s) \in Seq(S) /\ Len(Front(s)) = n - 1
      /\ \A i \in 1..(n - 1) : Front(s)[i] = s[i]
  BY <1>1 DEF Front
<1>3. Front(s) \o <<x>> = Append(Front(s), x)
  BY <1>2, AppendIsConcat
<1>4. /\ Append(Front(s), x) \in Seq(S) /\ Len(Append(Front(s), x)) = n
      /\ \A i \in 1..(n - 1) : Append(Front(s), x)[i] = s[i]
      /\ Append(Front(s), x)[n] = x
  <2> HIDE DEF n
  <2> QED BY <1>1, <1>2, AppendProperties
<1>5. /\ new \in Seq(S) /\ Len(new) = n
      /\ \A i \in 1..n : new[i] = IF i = n THEN x ELSE s[i]
  <2>1. \A i \in 1..Len(s) : /\ [s EXCEPT ![i] = x] \in Seq(S)
                              /\ Len([s EXCEPT ![i] = x]) = Len(s)
                              /\ \A j \in 1..Len(s) : [s EXCEPT ![i] = x][j] = IF j = i THEN x ELSE s[j]
    BY ExceptSeq
  <2> QED BY <1>1, <2>1
<1>6. Append(Front(s), x) = new
  <2> HIDE DEF n, new
  <2>1. \A i \in 1..n : Append(Front(s), x)[i] = new[i]
    <3>1. \A i \in 1..n : i = n \/ i \in 1..(n - 1)
      BY <1>1
    <3> QED BY <1>1, <1>4, <1>5, <3>1
  <2> QED BY <1>4, <1>5, <2>1, SeqEqual
<1>7. n \in Nat \ {0} /\ DOMAIN s = 1..n
  BY <1>1
<1> QED BY <1>3, <1>6, <1>7

(* The requests of a run after an answer, and after another request        *)
LEMMA AnsweredRun ==
    ASSUME NEW s \in Seq(Request), s # <<>>, NEW end \in {"rejected", "revised", "ready"}
    PROVE  LET n == Len(s)
               after == Front(s) \o <<[plan |-> Last(s).plan, end |-> end]>>
           IN /\ n \in Nat \ {0} /\ DOMAIN s = 1..n
              /\ after \in Seq(Request) /\ Len(after) = n /\ DOMAIN after = 1..n
              /\ \A m \in 1..n : m # n => after[m] = s[m]
              /\ after[n] = [plan |-> s[n].plan, end |-> end]
              /\ s[n].plan \in Digests
<1> DEFINE n == Len(s)
           x == [plan |-> Last(s).plan, end |-> end]
           after == Front(s) \o <<x>>
<1>1. n \in Nat \ {0} /\ n \in 1..n /\ DOMAIN s = 1..n
  BY EmptySeq, LenProperties
<1>2. s[n] \in Request
  BY <1>1, ElementOfSeq
<1>3. x = [plan |-> s[n].plan, end |-> end] /\ x \in Request /\ s[n].plan \in Digests
  BY <1>2 DEF Last, Request
<1>4. after = [s EXCEPT ![n] = x]
  BY <1>3, LastReplaced
<1>5. after \in Seq(Request) /\ Len(after) = n
  <2>1. \A i \in 1..Len(s), e \in Request :
            [s EXCEPT ![i] = e] \in Seq(Request) /\ Len([s EXCEPT ![i] = e]) = Len(s)
    BY ExceptSeq
  <2> HIDE DEF x, after
  <2> QED BY <1>1, <1>3, <1>4, <2>1
<1>6. DOMAIN after = 1..n
  BY <1>1, <1>4
<1>7. /\ \A m \in 1..n : m # n => after[m] = s[m]
      /\ after[n] = x
  BY <1>1, <1>4
<1> QED BY <1>1, <1>3, <1>5, <1>6, <1>7

LEMMA AskedRun ==
    ASSUME NEW s \in Seq(Request), NEW plan \in Digests
    PROVE  LET n == Len(s)
               after == Append(s, [plan |-> plan, end |-> "open"])
           IN /\ n \in Nat /\ DOMAIN s = 1..n
              /\ after \in Seq(Request) /\ after # <<>>
              /\ Len(after) = n + 1 /\ DOMAIN after = 1..(n + 1)
              /\ \A m \in 1..n : after[m] = s[m]
              /\ after[n + 1] = [plan |-> plan, end |-> "open"]
<1> DEFINE x == [plan |-> plan, end |-> "open"]
<1>1. x \in Request
  BY DEF Request
<1> HIDE DEF x
<1> QED BY <1>1, AppendProperties, LenProperties, EmptySeq DEF x

-----------------------------------------------------------------------------
(* What a call may have read and what it is about keep their meaning as    *)
(* long as the verdicts and the requests they speak of do.                 *)
Kept ==
    /\ \A d \in Asks : decision[d].status = "rejected" =>
           decision'[d].status = "rejected" /\ decision'[d].request = decision[d].request
    /\ \A m \in DOMAIN run.requests :
           /\ run'.requests[m].plan = run.requests[m].plan
           /\ run.requests[m].end = "rejected" => run'.requests[m].end = "rejected"
    /\ index' # index => index'.revision \in Nat /\ index'.revision > index.revision

LEMMA CallKept ==
    ASSUME TypeOK, DecisionsFit, Kept, NEW c \in Calls, CallFits(c)
    PROVE  CallFits(c)'
<1>1. ASSUME c.decided \in Asks, decision[c.decided].status = "rejected"
      PROVE  /\ decision'[c.decided].status = "rejected"
             /\ decision'[c.decided].request = decision[c.decided].request
             /\ decision[c.decided].request \in DOMAIN run.requests
  <2> PICK d \in Asks : d = c.decided
    BY <1>1
  <2>1. DecisionFits(d)
    BY DEF DecisionsFit
  <2> QED BY <1>1, <2>1 DEF Kept, DecisionFits
<1>2. OfRejection(c) => OfRejection(c)'
  BY <1>1 DEF OfRejection, OfPlan
<1>3. OfRecord(c) => OfRecord(c)'
  <2> SUFFICES ASSUME OfRecord(c) PROVE OfRecord(c)'
    OBVIOUS
  <2>1. c.decided \in Asks /\ decision[c.decided].status = "rejected"
    BY DEF OfRecord, OfRejection
  <2> DEFINE m == decision[c.decided].request
  <2>2. m \in DOMAIN run.requests /\ run'.requests[m].plan = run.requests[m].plan
    BY <1>1, <2>1 DEF Kept
  <2>3. (DecidedPlan(c.decided) = Digest(c.seen))'
    BY <1>1, <2>1, <2>2 DEF OfRecord, DecidedPlan, Digest
  <2> QED BY <1>2, <2>3 DEF OfRecord
<1>4. c.at = "correct" => (run.requests[decision[c.decided].request].end = "rejected")'
  <2> SUFFICES ASSUME c.at = "correct" PROVE run'.requests[decision'[c.decided].request].end = "rejected"
    OBVIOUS
  <2>1. c.decided \in Asks /\ decision[c.decided].status = "rejected"
    BY DEF CallFits, OfRecord, OfRejection
  <2> QED BY <1>1, <2>1 DEF Kept, CallFits
<1>5. OfAdmission(c) => OfAdmission(c)'
  <2>1. index.revision \in Nat
    BY DEF TypeOK
  <2>2. CASE index' = index
    BY <2>2 DEF OfAdmission, Blocks
  <2>3. CASE index' # index
    BY <2>1, <2>3 DEF OfAdmission, Kept
  <2> QED BY <2>2, <2>3
<1> QED BY <1>2, <1>3, <1>4, <1>5 DEF CallFits, OfPlan

(* A step changes at most one call: the others still fit.                  *)
LEMMA CallsKept ==
    ASSUME TypeOK, DecisionsFit, CallsFit, Kept, NEW p \in Procs,
           \A q \in Procs : q # p => call'[q] = call[q],
           \A c \in Calls : call'[p] = c => CallFits(c)'
    PROVE  CallsFit'
<1> SUFFICES ASSUME NEW q \in Procs, NEW c \in Calls, call'[q] = c, q # p PROVE CallFits(c)'
  BY DEF CallsFit
<1>1. CallFits(c)
  BY DEF CallsFit
<1> QED BY <1>1, CallKept

LEMMA CallsUnchanged ==
    ASSUME TypeOK, DecisionsFit, CallsFit, Kept, call' = call
    PROVE  CallsFit'
<1> SUFFICES ASSUME NEW q \in Procs, NEW c \in Calls, call'[q] = c PROVE CallFits(c)'
  BY DEF CallsFit
<1>1. CallFits(c)
  BY DEF CallsFit
<1> QED BY <1>1, CallKept

-----------------------------------------------------------------------------
(* Steps of a call that write no stream, or that of the plan               *)
Streams == <<run, planning, decision, index, admitted, used>>

LEMMA PlanStep ==
    ASSUME IInv, UNCHANGED <<run, decision, index, admitted, used>>, planning' \in Views,
           planning'.state = "correction" =>
               \E n \in DOMAIN run.requests :
                   run.requests[n] = [plan |-> Digest(planning)', end |-> "rejected"],
           NEW p \in Procs, NEW next \in Calls, Goes(p, next), CallFits(next)
    PROVE  IInv'
<1>1. TypeOK /\ DecisionsFit /\ CallsFit
  BY DEF IInv
<1>2. call' \in [Procs -> Calls] /\ call'[p] = next /\ \A q \in Procs : q # p => call'[q] = call[q]
  BY <1>1 DEF Goes, TypeOK
<1>3. Kept
  BY DEF Kept
<1>4. CallFits(next)'
  BY <1>1, <1>3, CallKept
<1>5. CallsFit'
  BY <1>1, <1>2, <1>3, <1>4, CallsKept
<1>6. TypeOK'
  BY <1>1, <1>2 DEF TypeOK
<1>7. RunFits' /\ DecisionsFit' /\ OneOwner' /\ Indexed'
  BY DEF IInv, RunFits, DecisionsFit, DecisionFits, OneOwner, Indexed, LastEnd, Pending
<1>8. RejectionsAreBacked'
  BY DEF IInv, RejectionsAreBacked, Owners
<1> QED BY <1>5, <1>6, <1>7, <1>8 DEF IInv

LEMMA CallOnly ==
    ASSUME IInv, UNCHANGED Streams, NEW p \in Procs, NEW next \in Calls,
           Goes(p, next), CallFits(next)
    PROVE  IInv'
<1>1. UNCHANGED <<run, planning, decision, index, admitted, used>>
  BY DEF Streams
<1>2. /\ planning' \in Views
      /\ planning'.state = "correction" =>
             \E n \in DOMAIN run.requests :
                 run.requests[n] = [plan |-> Digest(planning)', end |-> "rejected"]
  BY <1>1 DEF IInv, TypeOK, RejectionsAreBacked, Digest
<1> QED BY <1>1, <1>2, PlanStep

(* A call that is under way, as the constant it is in this state           *)
LEMMA CallIs ==
    ASSUME IInv, NEW p \in Procs
    PROVE  call[p] \in Calls /\ \A c \in Calls : call[p] = c => CallFits(c)
BY DEF IInv, TypeOK, CallsFit

LEMMA PlacedCall ==
    ASSUME NEW c \in PlanningCalls, NEW place \in Places
    PROVE  LET next == [c EXCEPT !.at = place]
           IN /\ next \in Calls /\ next.at = place
              /\ next.about = c.about /\ next.plan = c.plan /\ next.seen = c.seen
              /\ next.decided = c.decided /\ next.then = c.then
BY DEF Calls, PlanningCalls

LEMMA IdleCall == NoCall \in Calls /\ CallFits(NoCall)
BY DEF NoCall, Calls, PlanningCalls, Places, Views, CallFits

LEMMA PlanningCall ==
    ASSUME NEW c \in Calls, c.at # "admit"
    PROVE  c \in PlanningCalls
BY DEF Calls, AdmissionCalls

LEMMA BeginProposeGoes ==
    ASSUME IInv, NEW p \in Procs, NEW k \in Asks, BeginPropose(p, k)
    PROVE  IInv' /\ UNCHANGED <<run, decision>>
<1>1. UNCHANGED Streams
  BY DEF BeginPropose, SameRun, SameAttention, Streams
<1>2. planning \in Views
  BY DEF IInv, TypeOK
<1>3. PICK plan \in Proposals[k] :
         \/ Goes(p, [NoCall EXCEPT !.at = "append", !.about = k, !.plan = plan, !.seen = planning])
         \/ /\ planning = [plan |-> plan, revision |-> 1, state |-> "proposed"]
            /\ Goes(p, [NoCall EXCEPT !.at = "ask", !.about = k, !.seen = planning])
  BY DEF BeginPropose
<1>4. plan \in Plans
  BY DEF Plans
<1> PICK view \in Views : view = planning
  BY <1>2
<1>5. CASE Goes(p, [NoCall EXCEPT !.at = "append", !.about = k, !.plan = plan, !.seen = planning])
  <2> DEFINE next == [NoCall EXCEPT !.at = "append", !.about = k, !.plan = plan, !.seen = view]
  <2>1. next \in Calls /\ CallFits(next)
    BY <1>4 DEF NoCall, Calls, PlanningCalls, Places, CallFits, OfPlan
  <2>2. Goes(p, next)
    BY <1>5
  <2> HIDE DEF next
  <2> QED BY <1>1, <2>1, <2>2, CallOnly DEF Streams
<1>6. CASE /\ planning = [plan |-> plan, revision |-> 1, state |-> "proposed"]
           /\ Goes(p, [NoCall EXCEPT !.at = "ask", !.about = k, !.seen = planning])
  <2> DEFINE next == [NoCall EXCEPT !.at = "ask", !.about = k, !.seen = view]
  <2>1. view \in Proposed
    BY <1>6 DEF Views, NoPlanning
  <2>2. next \in Calls /\ CallFits(next)
    BY <2>1 DEF NoCall, Calls, PlanningCalls, Places, CallFits
  <2>3. Goes(p, next)
    BY <1>6
  <2> HIDE DEF next
  <2> QED BY <1>1, <2>2, <2>3, CallOnly DEF Streams
<1> QED BY <1>3, <1>5, <1>6

LEMMA BeginReviseGoes ==
    ASSUME IInv, NEW p \in Procs, NEW k \in Asks, BeginRevise(p, k)
    PROVE  IInv' /\ UNCHANGED <<run, decision>>
<1>1. UNCHANGED Streams
  BY DEF BeginRevise, SameRun, SameAttention, Streams
<1> PICK view \in Views : view = planning
  BY DEF IInv, TypeOK
<1>2. PICK plan \in Proposals[k] :
         \/ Goes(p, [[NoCall EXCEPT !.about = k, !.plan = plan] EXCEPT !.at = "revise", !.seen = view])
         \/ \E d \in RejectedFor(planning) :
               Goes(p, [[NoCall EXCEPT !.about = k, !.plan = plan]
                            EXCEPT !.at = "rejected", !.decided = d, !.then = "revise"])
  BY DEF BeginRevise
<1>3. plan \in Plans
  BY DEF Plans
<1>4. CASE Goes(p, [[NoCall EXCEPT !.about = k, !.plan = plan] EXCEPT !.at = "revise", !.seen = view])
  <2> DEFINE next == [[NoCall EXCEPT !.about = k, !.plan = plan] EXCEPT !.at = "revise", !.seen = view]
  <2>1. next \in Calls /\ CallFits(next)
    BY <1>3 DEF NoCall, Calls, PlanningCalls, Places, CallFits, OfPlan
  <2>2. Goes(p, next)
    BY <1>4
  <2> HIDE DEF next
  <2> QED BY <1>1, <2>1, <2>2, CallOnly DEF Streams
<1>5. ASSUME NEW d \in RejectedFor(planning),
             Goes(p, [[NoCall EXCEPT !.about = k, !.plan = plan]
                          EXCEPT !.at = "rejected", !.decided = d, !.then = "revise"])
      PROVE  IInv' /\ UNCHANGED <<run, decision>>
  <2> PICK e \in Asks : e = d /\ decision[e].status = "rejected"
    BY DEF RejectedFor
  <2> DEFINE next == [[NoCall EXCEPT !.about = k, !.plan = plan]
                          EXCEPT !.at = "rejected", !.decided = e, !.then = "revise"]
  <2>1. next \in Calls /\ next.about = k /\ next.plan = plan /\ next.at = "rejected" /\ next.decided = e
    BY <1>3 DEF NoCall, Calls, PlanningCalls, Places, Views
  <2>2. Goes(p, next)
    BY <1>5
  <2> HIDE DEF next
  <2>3. CallFits(next)
    BY <1>3, <2>1 DEF CallFits, OfRejection, OfPlan
  <2> QED BY <1>1, <2>1, <2>2, <2>3, CallOnly DEF Streams
<1> QED BY <1>2, <1>4, <1>5

LEMMA ReviseGoes ==
    ASSUME IInv, NEW p \in Procs, Revise(p)
    PROVE  IInv' /\ UNCHANGED <<run, decision>>
<1>1. UNCHANGED Streams /\ call[p].at = "revise"
  BY DEF Revise, SameRun, SameAttention, Streams
<1> PICK c \in Calls : c = call[p] /\ CallFits(c)
  BY CallIs
<1>2. c \in PlanningCalls /\ c.at = "revise" /\ OfPlan(c) /\ c.seen \in Views
  BY <1>1, PlanningCall DEF CallFits
<1>3. CASE Replays(p) /\ Goes(p, [At(p, "ask") EXCEPT !.plan = NoPlan])
  <2> DEFINE next == [[c EXCEPT !.at = "ask"] EXCEPT !.plan = NoPlan]
  <2>1. c.seen \in Proposed
    BY <1>2, <1>3 DEF Replays, Views, NoPlanning
  <2>2. next \in Calls /\ next.at = "ask" /\ next.about = c.about /\ next.seen = c.seen
    BY <1>2 DEF Calls, PlanningCalls, Places
  <2>3. Goes(p, next)
    BY <1>3 DEF At
  <2> HIDE DEF next
  <2>4. CallFits(next)
    BY <1>2, <2>1, <2>2 DEF CallFits, OfPlan
  <2> QED BY <1>1, <2>2, <2>3, <2>4, CallOnly DEF Streams
<1>4. CASE Goes(p, At(p, "append"))
  <2> DEFINE next == [c EXCEPT !.at = "append"]
  <2>1. /\ next \in Calls /\ next.at = "append"
        /\ next.about = c.about /\ next.plan = c.plan /\ next.seen = c.seen
    BY <1>2, PlacedCall DEF Places
  <2>2. Goes(p, next)
    BY <1>4 DEF At
  <2> HIDE DEF next
  <2>3. CallFits(next)
    BY <1>2, <2>1 DEF CallFits, OfPlan
  <2> QED BY <1>1, <2>1, <2>2, <2>3, CallOnly DEF Streams
<1> QED BY <1>3, <1>4 DEF Revise

LEMMA WithdrawRejectedGoes ==
    ASSUME IInv, NEW p \in Procs, WithdrawRejected(p)
    PROVE  IInv' /\ UNCHANGED <<run, decision>>
<1>1. UNCHANGED Streams /\ call[p].at = "revise"
  BY DEF WithdrawRejected, SameRun, SameAttention, Streams
<1> PICK c \in Calls : c = call[p] /\ CallFits(c)
  BY CallIs
<1>2. c \in PlanningCalls /\ c.at = "revise" /\ OfPlan(c) /\ c.seen \in Views
  BY <1>1, PlanningCall DEF CallFits
<1>3. PICK d \in Asks :
         /\ decision[d].status = "rejected"
         /\ Goes(p, [[c EXCEPT !.at = "rejected"] EXCEPT !.decided = d, !.then = "append"])
  BY DEF WithdrawRejected, RejectedFor, At
<1> DEFINE next == [[c EXCEPT !.at = "rejected"] EXCEPT !.decided = d, !.then = "append"]
<1>4. /\ next \in Calls /\ next.at = "rejected" /\ next.decided = d
      /\ next.about = c.about /\ next.plan = c.plan
  BY <1>2 DEF Calls, PlanningCalls, Places
<1>5. Goes(p, next)
  BY <1>3
<1> HIDE DEF next
<1>6. CallFits(next)
  BY <1>2, <1>3, <1>4 DEF CallFits, OfRejection, OfPlan
<1> QED BY <1>1, <1>4, <1>5, <1>6, CallOnly DEF Streams

LEMMA ReconcileRejectedGoes ==
    ASSUME IInv, NEW p \in Procs, NEW d \in Asks, ReconcileRejected(p, d)
    PROVE  IInv' /\ UNCHANGED <<run, decision>>
<1>1. UNCHANGED Streams /\ decision[d].status = "rejected"
  BY DEF ReconcileRejected, SameRun, SameAttention, Streams
<1> DEFINE next == [NoCall EXCEPT !.at = "rejected", !.decided = d]
<1>2. next \in Calls /\ next.at = "rejected" /\ next.decided = d /\ next.then = "idle"
  BY DEF NoCall, Calls, PlanningCalls, Places, Views
<1>3. Goes(p, next)
  BY DEF ReconcileRejected
<1> HIDE DEF next
<1>4. CallFits(next)
  BY <1>1, <1>2 DEF CallFits, OfRejection
<1> QED BY <1>1, <1>2, <1>3, <1>4, CallOnly DEF Streams

LEMMA BeginAdmitGoes ==
    ASSUME IInv, NEW p \in Procs, NEW a \in Admissions, BeginAdmit(p, a)
    PROVE  IInv' /\ UNCHANGED <<run, decision>>
<1>1. UNCHANGED Streams /\ Blocks(a) = {}
  BY DEF BeginAdmit, SameRun, SameAttention, Streams
<1> PICK revision \in Nat : revision = index.revision
  BY DEF IInv, TypeOK
<1> DEFINE next == [NoCall EXCEPT !.at = "admit", !.about = a, !.seen = revision]
<1>2. next \in AdmissionCalls /\ next.at = "admit" /\ next.about = a /\ next.seen = revision
  BY DEF NoCall, AdmissionCalls
<1>3. Goes(p, next)
  BY DEF BeginAdmit
<1> HIDE DEF next
<1>4. next \in Calls /\ CallFits(next)
  BY <1>1, <1>2 DEF Calls, CallFits, OfAdmission
<1> QED BY <1>1, <1>3, <1>4, CallOnly DEF Streams

LEMMA LeaveGoes ==
    ASSUME IInv, NEW p \in Procs, Leave(p)
    PROVE  IInv' /\ UNCHANGED <<run, decision>>
BY IdleCall, CallOnly DEF Leave, SameRun, SameAttention, Streams

-----------------------------------------------------------------------------
(* A rejection that is recorded, and what the call goes on with            *)
LEMMA ContinueFits ==
    ASSUME NEW c \in PlanningCalls, OfRejection(c), NEW view \in Views
    PROVE  LET next == IF c.then = "idle" THEN NoCall
                       ELSE [c EXCEPT !.at = c.then, !.decided = "none", !.then = "idle", !.seen = view]
           IN next \in Calls /\ CallFits(next)
<1>1. CASE c.then = "idle"
  BY <1>1, IdleCall
<1>2. CASE c.then # "idle"
  <2> DEFINE next == [c EXCEPT !.at = c.then, !.decided = "none", !.then = "idle", !.seen = view]
  <2>1. c.then \in {"revise", "append"}
    BY <1>2 DEF PlanningCalls
  <2>2. /\ next \in Calls /\ next.at \in {"revise", "append"}
        /\ next.about = c.about /\ next.plan = c.plan /\ next.seen = view
    BY <2>1 DEF PlanningCalls, Calls, Places
  <2>3. OfPlan(next)
    BY <1>2, <2>2 DEF OfRejection, OfPlan
  <2> HIDE DEF next
  <2>4. CallFits(next)
    BY <2>2, <2>3 DEF CallFits
  <2> QED BY <1>2, <2>2, <2>4 DEF next
<1> QED BY <1>1, <1>2

LEMMA ReadRejectedGoes ==
    ASSUME IInv, NEW p \in Procs, ReadRejected(p)
    PROVE  IInv' /\ UNCHANGED <<run, decision>>
<1>1. UNCHANGED Streams /\ call[p].at = "rejected"
  BY DEF ReadRejected, SameRun, SameAttention, Streams
<1> PICK c \in Calls : c = call[p] /\ CallFits(c)
  BY CallIs
<1> PICK view \in Views : view = planning
  BY DEF IInv, TypeOK
<1>2. c \in PlanningCalls /\ c.at = "rejected" /\ OfRejection(c)
  BY <1>1, PlanningCall DEF CallFits
<1>3. CASE Continue(p, planning)
  <2> DEFINE next == IF c.then = "idle" THEN NoCall
                     ELSE [c EXCEPT !.at = c.then, !.decided = "none", !.then = "idle", !.seen = view]
  <2>1. next \in Calls /\ CallFits(next)
    BY <1>2, ContinueFits
  <2>2. Goes(p, next)
    BY <1>3 DEF Continue
  <2> HIDE DEF next
  <2> QED BY <1>1, <2>1, <2>2, CallOnly DEF Streams
<1>4. CASE /\ DecidedPlan(call[p].decided) = Digest(planning)
           /\ Goes(p, [At(p, "record") EXCEPT !.seen = planning])
  <2> DEFINE next == [[c EXCEPT !.at = "record"] EXCEPT !.seen = view]
  <2>1. /\ next \in Calls /\ next.at = "record" /\ next.seen = view
        /\ next.about = c.about /\ next.plan = c.plan
        /\ next.decided = c.decided /\ next.then = c.then
    BY <1>2 DEF PlanningCalls, Calls, Places
  <2>2. Goes(p, next)
    BY <1>4 DEF At
  <2> HIDE DEF next
  <2>3. OfRejection(next)
    BY <1>2, <2>1 DEF OfRejection, OfPlan
  <2>4. DecidedPlan(next.decided) = Digest(next.seen)
    BY <1>4, <2>1
  <2>5. CallFits(next)
    BY <2>1, <2>3, <2>4 DEF CallFits, OfRecord
  <2> QED BY <1>1, <2>1, <2>2, <2>5, CallOnly DEF Streams
<1> QED BY <1>3, <1>4 DEF ReadRejected

-----------------------------------------------------------------------------
(* The appends to the planning stream                                      *)
LEMMA AppendPlanGoes ==
    ASSUME IInv, NEW p \in Procs, AppendPlan(p)
    PROVE  IInv' /\ UNCHANGED <<run, decision>>
<1>1. UNCHANGED <<run, decision, index, admitted, used>> /\ call[p].at = "append"
  BY DEF AppendPlan, SameRun, SameAttention
<1> PICK c \in Calls : c = call[p] /\ CallFits(c)
  BY CallIs
<1>2. c \in PlanningCalls /\ c.at = "append" /\ OfPlan(c)
  BY <1>1, PlanningCall DEF CallFits
<1>3. PICK r \in 1..MaxRevisions : r = planning.revision + 1
  <2>1. planning \in Views /\ planning.revision < MaxRevisions
    BY DEF IInv, TypeOK, AppendPlan
  <2>2. planning.revision \in Nat
    BY <2>1 DEF Views, NoPlanning, Proposed
  <2> QED BY <2>1, <2>2, ApprovalAssumption
<1> DEFINE view == [plan |-> c.plan, revision |-> r, state |-> "proposed"]
           next == [[c EXCEPT !.at = "ask"] EXCEPT !.plan = NoPlan, !.seen = view]
<1>4. planning' = view
  BY <1>3 DEF AppendPlan
<1>5. view \in Proposed /\ view \in Views /\ view.state # "correction"
  BY <1>2 DEF Proposed, Views, OfPlan
<1>6. next \in Calls /\ next.at = "ask" /\ next.about = c.about /\ next.seen = view
  <2> HIDE DEF view
  <2> QED BY <1>2, <1>5 DEF PlanningCalls, Calls, Places
<1>7. Goes(p, next)
  BY <1>4 DEF AppendPlan, At
<1> HIDE DEF next, view
<1>8. CallFits(next)
  BY <1>2, <1>5, <1>6 DEF CallFits, OfPlan
<1> QED BY <1>1, <1>4, <1>5, <1>6, <1>7, <1>8, PlanStep

LEMMA RecordOnPlanGoes ==
    ASSUME IInv, NEW p \in Procs, RecordOnPlan(p)
    PROVE  IInv' /\ UNCHANGED <<run, decision>>
<1>1. UNCHANGED <<run, decision, index, admitted, used>> /\ call[p].at = "correct"
  BY DEF RecordOnPlan, SameRun, SameAttention
<1> PICK c \in Calls : c = call[p] /\ CallFits(c)
  BY CallIs
<1>2. /\ c \in PlanningCalls /\ c.at = "correct" /\ OfRecord(c)
      /\ run.requests[decision[c.decided].request].end = "rejected"
  BY <1>1, PlanningCall DEF CallFits
<1>3. OfRejection(c) /\ c.decided \in Asks /\ decision[c.decided].status = "rejected"
  BY <1>2 DEF OfRecord, OfRejection
<1>4. planning = c.seen /\ planning \in Views /\ DecidedPlan(c.decided) = Digest(planning)
  BY <1>2 DEF RecordOnPlan, OfRecord
<1> PICK d \in Asks : d = c.decided
  BY <1>3
<1> DEFINE m == decision[d].request
<1>5. m \in DOMAIN run.requests
  <2>1. DecisionFits(d)
    BY DEF IInv, DecisionsFit
  <2> QED BY <1>3, <2>1 DEF DecisionFits
<1>6. run.requests[m] = [plan |-> Digest(planning), end |-> "rejected"]
  <2>1. run.requests \in Seq(Request)
    BY DEF IInv, TypeOK
  <2>2. run.requests[m] \in Request
    BY <1>5, <2>1, LenProperties, ElementOfSeq
  <2>3. run.requests[m].plan = Digest(planning) /\ run.requests[m].end = "rejected"
    BY <1>2, <1>4 DEF DecidedPlan
  <2> QED BY <2>2, <2>3 DEF Request
<1>7. PICK view \in Views : view = [planning EXCEPT !.state = "correction"] /\ view # NoPlanning
  <2>1. planning # NoPlanning
    <3>1. Digest(planning) \in Digests
      <4>1. run.requests \in Seq(Request)
        BY DEF IInv, TypeOK
      <4>2. run.requests[m] \in Request
        BY <1>5, <4>1, LenProperties, ElementOfSeq
      <4> QED BY <1>6, <4>2 DEF Request
    <3> QED BY <3>1 DEF Digest, Digests, NoPlanning
  <2>2. planning \in Proposed
    BY <1>4, <2>1 DEF Views
  <2>3. [planning EXCEPT !.state = "correction"] \in Proposed
    BY <2>2 DEF Proposed
  <2>4. \A view \in Proposed : view # NoPlanning
    BY DEF Proposed, NoPlanning
  <2> QED BY <2>3, <2>4 DEF Views
<1>8. planning' = view /\ Digest(planning)' = Digest(planning)
  BY <1>4, <1>7 DEF RecordOnPlan, Digest, Views, Proposed, NoPlanning
<1> DEFINE next == IF c.then = "idle" THEN NoCall
                   ELSE [c EXCEPT !.at = c.then, !.decided = "none", !.then = "idle", !.seen = view]
<1>9. next \in Calls /\ CallFits(next)
  BY <1>2, <1>3, ContinueFits
<1>10. Goes(p, next)
  BY <1>8 DEF RecordOnPlan, Continue
<1> HIDE DEF next
<1>11. planning' \in Views
  BY <1>8
<1>12. \E n \in DOMAIN run.requests :
           run.requests[n] = [plan |-> Digest(planning)', end |-> "rejected"]
  BY <1>5, <1>6, <1>8
<1> QED BY <1>1, <1>9, <1>10, <1>11, <1>12, PlanStep

-----------------------------------------------------------------------------
(* The other steps of the run: its requests are what they were.            *)
LEMMA RunKeepsStep ==
    ASSUME IInv, UNCHANGED <<planning, decision, index, admitted, used>>,
           run'.requests = run.requests, RunFits',
           run'.lifecycle \in Lifecycles, run'.from \in {"none", "analyzing"},
           run' = [lifecycle |-> run'.lifecycle, from |-> run'.from, requests |-> run'.requests,
                   fresh |-> run'.fresh, service |-> run'.service],
           run'.fresh \in BOOLEAN, run'.service \in Nat,
           call' = call \/ call' = [p \in Procs |-> NoCall]
    PROVE  IInv'
<1>1. TypeOK /\ DecisionsFit /\ CallsFit
  BY DEF IInv
<1>2. Kept
  BY DEF Kept
<1>3. CallsFit'
  <2>1. CASE call' = call
    BY <1>1, <1>2, <2>1, CallsUnchanged
  <2>2. CASE call' = [p \in Procs |-> NoCall]
    <3> SUFFICES ASSUME NEW p \in Procs, NEW c \in Calls, call'[p] = c PROVE CallFits(c)'
      BY DEF CallsFit
    <3>1. c.at = "idle"
      BY <2>2 DEF NoCall
    <3> QED BY <3>1 DEF CallFits
  <2> QED BY <2>1, <2>2
<1>4. TypeOK'
  <2>1. call' \in [Procs -> Calls]
    BY <1>1, IdleCall DEF TypeOK
  <2>2. run'.requests \in Seq(Request)
    BY <1>1 DEF TypeOK
  <2> QED BY <1>1, <2>1, <2>2 DEF TypeOK
<1>5. DecisionsFit' /\ OneOwner' /\ RejectionsAreBacked' /\ Indexed'
  BY DEF IInv, DecisionsFit, DecisionFits, OneOwner, RejectionsAreBacked, Indexed, Owners, Digest, Pending
<1> QED BY <1>3, <1>4, <1>5 DEF IInv

LEMMA RunTyped ==
    ASSUME IInv
    PROVE  /\ run = [lifecycle |-> run.lifecycle, from |-> run.from, requests |-> run.requests,
                     fresh |-> run.fresh, service |-> run.service]
           /\ run.lifecycle \in Lifecycles /\ run.from \in {"none", "analyzing"}
           /\ run.fresh \in BOOLEAN /\ run.service \in Nat
           /\ run.requests \in Seq(Request) /\ RunFits
BY DEF IInv, TypeOK

LEMMA WaitGoes ==
    ASSUME IInv, Wait
    PROVE  IInv' /\ UNCHANGED <<run.requests, decision, Live(run)>>
<1>1. /\ run' = [lifecycle |-> "waiting", from |-> "analyzing", requests |-> run.requests,
                 fresh |-> FALSE, service |-> run.service]
      /\ run.lifecycle = "analyzing"
      /\ UNCHANGED <<planning, decision, index, admitted, used, call>>
  BY RunTyped DEF Wait, Waiting, SameAttention
<1>2. RunFits'
  BY <1>1, RunTyped DEF RunFits
<1> QED BY <1>1, <1>2, RunTyped, RunKeepsStep DEF Lifecycles, Live

LEMMA ResumeGoes ==
    ASSUME IInv, Resume
    PROVE  IInv' /\ UNCHANGED <<run.requests, decision, Live(run)>>
<1>1. /\ run' = [lifecycle |-> "analyzing", from |-> "none", requests |-> run.requests,
                 fresh |-> FALSE, service |-> run.service]
      /\ run.lifecycle = "waiting"
      /\ UNCHANGED <<planning, decision, index, admitted, used, call>>
  BY RunTyped DEF Resume, Resumed, Suspended, SameAttention, RunFits
<1>2. RunFits'
  BY <1>1, RunTyped DEF RunFits
<1> QED BY <1>1, <1>2, RunTyped, RunKeepsStep DEF Lifecycles, Live

LEMMA CompleteAnalysisGoes ==
    ASSUME IInv, CompleteAnalysis
    PROVE  IInv' /\ UNCHANGED <<run.requests, decision, Live(run)>>
<1>1. /\ run' = [lifecycle |-> "planning", from |-> run.from, requests |-> run.requests,
                 fresh |-> FALSE, service |-> run.service]
      /\ run.lifecycle = "analyzing"
      /\ UNCHANGED <<planning, decision, index, admitted, used, call>>
  BY RunTyped DEF CompleteAnalysis, Moved, SameAttention
<1>2. RunFits'
  BY <1>1, RunTyped DEF RunFits, LastEnd
<1> QED BY <1>1, <1>2, RunTyped, RunKeepsStep DEF Lifecycles, Live

LEMMA EndRunGoes ==
    ASSUME IInv, EndRun
    PROVE  IInv' /\ UNCHANGED <<run.requests, decision>> /\ Live(run) /\ ~Live(run)'
<1>1. /\ run' = [lifecycle |-> "terminal", from |-> "none", requests |-> run.requests,
                 fresh |-> FALSE, service |-> run.service]
      /\ Live(run)
      /\ UNCHANGED <<planning, decision, index, admitted, used, call>>
  BY RunTyped DEF EndRun, Ended, SameAttention
<1>2. RunFits'
  BY <1>1, RunTyped DEF RunFits
<1> QED BY <1>1, <1>2, RunTyped, RunKeepsStep DEF Lifecycles, Live

LEMMA RestartGoes ==
    ASSUME IInv, Restart
    PROVE  IInv' /\ UNCHANGED <<run.requests, decision, Live(run)>>
<1>1. UNCHANGED <<planning, decision, index, admitted, used>> /\ call' = [p \in Procs |-> NoCall]
  BY DEF Restart, SameAttention
<1>2. PICK fresh \in BOOLEAN :
        run' = [lifecycle |-> run.lifecycle, from |-> run.from, requests |-> run.requests,
                fresh |-> fresh, service |-> run.service + 1]
  <2>1. CASE run.lifecycle \in {"terminal", "approved_and_ready_for_execution"}
    <3>1. run' = [run EXCEPT !.service = @ + 1]
      BY <2>1 DEF Restart
    <3>2. run' = [lifecycle |-> run.lifecycle, from |-> run.from, requests |-> run.requests,
                  fresh |-> run.fresh, service |-> run.service + 1]
      BY <3>1, RunTyped
    <3> QED BY <3>2, RunTyped
  <2>2. CASE run.lifecycle \notin {"terminal", "approved_and_ready_for_execution"}
    <3>1. run' = [run EXCEPT !.service = run.service + 1, !.fresh = FALSE]
      BY <2>2 DEF Restart, Reopened
    <3>2. run' = [lifecycle |-> run.lifecycle, from |-> run.from, requests |-> run.requests,
                  fresh |-> FALSE, service |-> run.service + 1]
      BY <3>1, RunTyped
    <3> QED BY <3>2
  <2> QED BY <2>1, <2>2
<1>3. RunFits'
  BY <1>2, RunTyped DEF RunFits, LastEnd
<1>4. run.service + 1 \in Nat
  BY RunTyped
<1> QED BY <1>1, <1>2, <1>3, <1>4, RunTyped, RunKeepsStep DEF Live

-----------------------------------------------------------------------------
(* A run that awaits an answer has an open request, its last one.          *)
LEMMA OpenRequest ==
    ASSUME IInv, AwaitsAnswer(run)
    PROVE  LET n == Len(run.requests)
           IN /\ run.requests \in Seq(Request) /\ run.requests # <<>>
              /\ n \in Nat \ {0} /\ DOMAIN run.requests = 1..n
              /\ run.requests[n] \in Request /\ run.requests[n].end = "open"
              /\ LastPlan(run) = run.requests[n].plan /\ LastEnd(run) = "open"
<1>1. run.requests \in Seq(Request) /\ run.requests # <<>> /\ LastEnd(run) = "open"
  BY RunTyped DEF AwaitsAnswer, RunFits
<1>2. Len(run.requests) \in Nat \ {0} /\ DOMAIN run.requests = 1..Len(run.requests)
  BY <1>1, EmptySeq, LenProperties
<1>3. run.requests[Len(run.requests)] \in Request
  BY <1>1, <1>2, ElementOfSeq
<1> QED BY <1>1, <1>2, <1>3 DEF LastEnd, LastPlan, Last

(* A verdict on a decision that changes no run                             *)
LEMMA ResolvedStep ==
    ASSUME IInv, NEW d \in Decisions, NEW status \in {"accepted", "rejected", "declined", "lapsed"},
           Resolved(d, status), UNCHANGED <<run, planning, admitted, used>>,
           d \in Asks => \/ status = "lapsed"
                         \/ status = "rejected" /\ Current(d)
    PROVE  /\ RunFits' /\ DecisionsFit' /\ OneOwner' /\ RejectionsAreBacked' /\ Indexed' /\ Kept
           /\ call' \in [Procs -> Calls] => TypeOK'
           /\ decision' = [decision EXCEPT ![d].status = status]
           /\ Pending(d)
<1>1. /\ decision' = [decision EXCEPT ![d].status = status] /\ Pending(d)
      /\ index' = [revision |-> index.revision + 1, pending |-> index.pending \ {d}]
  BY DEF Resolved
<1>2. TypeOK /\ DecisionsFit /\ OneOwner /\ RejectionsAreBacked /\ Indexed
  BY DEF IInv
<1>3. /\ decision' \in [Decisions -> [status : {"none", "pending", "accepted", "rejected", "declined", "lapsed"},
                                      request : Nat]]
      /\ decision'[d].status = status
      /\ \A e \in Decisions : decision'[e].request = decision[e].request
      /\ \A e \in Decisions : e # d => decision'[e] = decision[e]
  BY <1>1, <1>2 DEF TypeOK
<1>4. index.revision \in Nat /\ index' \in [revision : Nat, pending : SUBSET Decisions]
  BY <1>1, <1>2 DEF TypeOK
<1>5. index'.revision > index.revision /\ index'.pending = index.pending \ {d}
  BY <1>1, <1>4
<1>6. \A e \in Asks : e \in Decisions
  BY DEF Decisions
<1>7. DecisionsFit'
  <2> SUFFICES ASSUME NEW e \in Asks PROVE DecisionFits(e)'
    BY DEF DecisionsFit
  <2>1. DecisionFits(e) /\ decision'[e].request = decision[e].request
    BY <1>2, <1>3, <1>6 DEF DecisionsFit
  <2>2. CASE e # d
    BY <1>3, <1>6, <2>1, <2>2 DEF DecisionFits
  <2>3. CASE e = d /\ status = "lapsed"
    BY <1>1, <1>3, <2>1, <2>3 DEF DecisionFits, Pending
  <2>4. CASE e = d /\ status = "rejected" /\ Current(d)
    <3>1. decision[d].request = Len(run.requests) /\ run.requests[decision[d].request].end = "open"
      BY <2>4, OpenRequest DEF Current
    <3> QED BY <1>1, <1>3, <2>1, <2>4, <3>1 DEF DecisionFits, Pending
  <2> QED BY <2>2, <2>3, <2>4
<1>8. OneOwner' /\ Kept /\ Indexed'
  BY <1>1, <1>2, <1>3, <1>4, <1>5, <1>6 DEF OneOwner, Kept, Indexed, Pending
<1>9. RejectionsAreBacked'
  <2>1. ASSUME NEW n, NEW e \in Owners(n), decision[e].status = "rejected"
        PROVE  e \in Owners(n)' /\ decision'[e].status = "rejected"
    BY <1>1, <1>3, <1>6, <2>1 DEF Owners, Pending
  <2> QED BY <1>2, <2>1 DEF RejectionsAreBacked, Digest
<1>10. RunFits' /\ (call' \in [Procs -> Calls] => TypeOK')
  BY <1>2, <1>3, <1>4 DEF IInv, RunFits, TypeOK, LastEnd
<1> QED BY <1>1, <1>7, <1>8, <1>9, <1>10

LEMMA SettledGoes ==
    ASSUME IInv, NEW d \in Decisions, NEW status \in {"accepted", "declined", "lapsed"},
           Resolved(d, status), d \in Asks => status = "lapsed",
           UNCHANGED <<run, planning, admitted, used, call>>
    PROVE  /\ IInv' /\ UNCHANGED run /\ Pending(d)
           /\ decision' = [decision EXCEPT ![d].status = status]
<1>1. TypeOK /\ DecisionsFit /\ CallsFit /\ call' \in [Procs -> Calls]
  BY DEF IInv, TypeOK
<1>2. /\ RunFits' /\ DecisionsFit' /\ OneOwner' /\ RejectionsAreBacked' /\ Indexed' /\ Kept /\ TypeOK'
      /\ decision' = [decision EXCEPT ![d].status = status] /\ Pending(d)
  BY <1>1, ResolvedStep
<1>3. CallsFit'
  BY <1>1, <1>2, CallsUnchanged
<1> QED BY <1>2, <1>3 DEF IInv

LEMMA RejectGoes ==
    ASSUME IInv, NEW p \in Procs, NEW d \in Asks, Reject(p, d)
    PROVE  /\ IInv' /\ UNCHANGED run /\ Pending(d) /\ Current(d)
           /\ decision' = [decision EXCEPT ![d].status = "rejected"]
<1> DEFINE next == [NoCall EXCEPT !.at = "rejected", !.decided = d]
<1>1. /\ Resolved(d, "rejected") /\ UNCHANGED <<run, planning, admitted, used>>
      /\ Current(d) /\ Goes(p, next) /\ d \in Decisions
  BY DEF Reject, SameRun, Decisions
<1>2. TypeOK /\ DecisionsFit /\ CallsFit
  BY DEF IInv
<1>3. next \in Calls /\ next.at = "rejected" /\ next.decided = d /\ next.then = "idle"
  BY DEF NoCall, Calls, PlanningCalls, Places, Views
<1> HIDE DEF next
<1>4. call' \in [Procs -> Calls] /\ call'[p] = next /\ \A q \in Procs : q # p => call'[q] = call[q]
  BY <1>1, <1>2, <1>3 DEF Goes, TypeOK
<1>5. /\ RunFits' /\ DecisionsFit' /\ OneOwner' /\ RejectionsAreBacked' /\ Indexed' /\ Kept /\ TypeOK'
      /\ decision' = [decision EXCEPT ![d].status = "rejected"] /\ Pending(d)
  BY <1>1, <1>4, ResolvedStep
<1>6. \A c \in Calls : call'[p] = c => CallFits(c)'
  <2> SUFFICES ASSUME NEW c \in Calls, call'[p] = c PROVE CallFits(c)'
    OBVIOUS
  <2>1. c.at = "rejected" /\ c.decided = d /\ c.then = "idle"
    BY <1>3, <1>4
  <2>2. decision'[d].status = "rejected"
    BY <1>1, <1>2, <1>5 DEF TypeOK
  <2> QED BY <2>1, <2>2 DEF CallFits, OfRejection
<1>7. CallsFit'
  BY <1>2, <1>4, <1>5, <1>6, CallsKept
<1> QED BY <1>1, <1>5, <1>7 DEF IInv

-----------------------------------------------------------------------------
(* A decision that is raised: for the last request, which has none yet, or *)
(* for a question.                                                         *)
LEMMA RaisedStep ==
    ASSUME IInv, NEW d \in Decisions, NEW request \in Nat, Raised(d, request),
           decision[d].status = "none", UNCHANGED <<run, planning, admitted, used>>,
           d \in Asks => AwaitsAnswer(run) /\ request = Len(run.requests) /\ Owners(request) = {}
    PROVE  /\ RunFits' /\ DecisionsFit' /\ OneOwner' /\ RejectionsAreBacked' /\ Indexed' /\ Kept
           /\ call' \in [Procs -> Calls] => TypeOK'
           /\ decision' = [decision EXCEPT ![d] = [status |-> "pending", request |-> request]]
<1>1. /\ decision' = [decision EXCEPT ![d] = [status |-> "pending", request |-> request]]
      /\ index' = [revision |-> index.revision + 1, pending |-> index.pending \union {d}]
  BY DEF Raised
<1>2. TypeOK /\ DecisionsFit /\ OneOwner /\ RejectionsAreBacked /\ Indexed
  BY DEF IInv
<1>3. /\ decision' \in [Decisions -> [status : {"none", "pending", "accepted", "rejected", "declined", "lapsed"},
                                      request : Nat]]
      /\ decision'[d] = [status |-> "pending", request |-> request]
      /\ \A e \in Decisions : e # d => decision'[e] = decision[e]
  BY <1>1, <1>2 DEF TypeOK
<1>4. index.revision \in Nat /\ index' \in [revision : Nat, pending : SUBSET Decisions]
  BY <1>1, <1>2 DEF TypeOK
<1>5. index'.revision > index.revision /\ index'.pending = index.pending \union {d}
  BY <1>1, <1>4
<1>6. \A e \in Asks : e \in Decisions
  BY DEF Decisions
<1>7. DecisionsFit'
  <2> SUFFICES ASSUME NEW e \in Asks PROVE DecisionFits(e)'
    BY DEF DecisionsFit
  <2>1. DecisionFits(e)
    BY <1>2 DEF DecisionsFit
  <2>2. CASE e # d
    BY <1>3, <1>6, <2>1, <2>2 DEF DecisionFits
  <2>3. CASE e = d
    <3>1. request \in DOMAIN run.requests /\ run.requests[request].end = "open"
      BY <2>3, OpenRequest
    <3> QED BY <1>3, <2>1, <2>3, <3>1 DEF DecisionFits
  <2> QED BY <2>2, <2>3
<1>8. OneOwner'
  <2> SUFFICES ASSUME NEW e \in Asks, NEW f \in Asks,
                      decision'[e].request = decision'[f].request, decision'[e].request # 0
               PROVE  e = f
    BY DEF OneOwner
  <2>1. CASE d \notin Asks
    BY <1>2, <1>3, <1>6, <2>1 DEF OneOwner
  <2>2. CASE d \in Asks
    <3>1. \A g \in Asks : g # d => decision[g].request # request
      BY <2>2 DEF Owners
    <3> QED BY <1>2, <1>3, <1>6, <2>2, <3>1 DEF OneOwner
  <2> QED BY <2>1, <2>2
<1>9. Indexed' /\ Kept
  BY <1>1, <1>2, <1>3, <1>4, <1>5, <1>6 DEF Kept, Indexed, Pending
<1>10. RejectionsAreBacked'
  <2>1. ASSUME NEW n, NEW e \in Owners(n), decision[e].status = "rejected"
        PROVE  e \in Owners(n)' /\ decision'[e].status = "rejected"
    BY <1>3, <1>6, <2>1 DEF Owners
  <2> QED BY <1>2, <2>1 DEF RejectionsAreBacked, Digest
<1>11. RunFits' /\ (call' \in [Procs -> Calls] => TypeOK')
  BY <1>2, <1>3, <1>4 DEF IInv, RunFits, TypeOK, LastEnd
<1> QED BY <1>1, <1>7, <1>8, <1>9, <1>10, <1>11

LEMMA RaiseGoes ==
    ASSUME IInv, NEW p \in Procs, Raise(p)
    PROVE  /\ IInv' /\ UNCHANGED run /\ AwaitsAnswer(run)
           /\ Owners(Len(run.requests)) = {}
           /\ \E d \in Asks : decision' = [decision EXCEPT ![d] =
                                  [status |-> "pending", request |-> Len(run.requests)]]
<1>1. TypeOK /\ DecisionsFit /\ CallsFit
  BY DEF IInv
<1>2. /\ AwaitsAnswer(run) /\ Owners(Len(run.requests)) = {}
      /\ decision[call[p].about].status = "none" /\ Raised(call[p].about, Len(run.requests))
      /\ UNCHANGED <<run, planning, admitted, used>>
      /\ Goes(p, NoCall)
  BY DEF Raise, SameRun, NoDecision
<1>3. call[p].about \in Asks
  <2> PICK c \in Calls : c = call[p] /\ CallFits(c)
    BY CallIs
  <2> QED BY DEF Raise, CallFits
<1> PICK d \in Asks : d = call[p].about
  BY <1>3
<1> PICK n \in Nat : n = Len(run.requests)
  BY <1>2, OpenRequest
<1>4. call' \in [Procs -> Calls] /\ call'[p] = NoCall /\ \A q \in Procs : q # p => call'[q] = call[q]
  BY <1>1, <1>2, IdleCall DEF Goes, TypeOK
<1>5. /\ RunFits' /\ DecisionsFit' /\ OneOwner' /\ RejectionsAreBacked' /\ Indexed' /\ Kept /\ TypeOK'
      /\ decision' = [decision EXCEPT ![d] = [status |-> "pending", request |-> n]]
  BY <1>2, <1>4, RaisedStep DEF Decisions
<1>6. \A c \in Calls : call'[p] = c => CallFits(c)'
  BY <1>4 DEF NoCall, CallFits
<1>7. CallsFit'
  BY <1>1, <1>4, <1>5, <1>6, CallsKept
<1> QED BY <1>2, <1>5, <1>7 DEF IInv

LEMMA RequestQuestionGoes ==
    ASSUME IInv, NEW q \in Questions, RequestQuestion(q)
    PROVE  /\ IInv' /\ UNCHANGED run
           /\ decision' = [decision EXCEPT ![q] = [status |-> "pending", request |-> 0]]
<1>1. TypeOK /\ DecisionsFit /\ CallsFit /\ call' = call
  BY DEF IInv, RequestQuestion
<1>2. /\ decision[q].status = "none" /\ Raised(q, 0) /\ q \in Decisions /\ q \notin Asks
      /\ UNCHANGED <<run, planning, admitted, used>>
  BY ApprovalAssumption DEF RequestQuestion, NoDecision, Decisions
<1>3. /\ RunFits' /\ DecisionsFit' /\ OneOwner' /\ RejectionsAreBacked' /\ Indexed' /\ Kept /\ TypeOK'
      /\ decision' = [decision EXCEPT ![q] = [status |-> "pending", request |-> 0]]
  BY <1>1, <1>2, RaisedStep DEF TypeOK
<1>4. CallsFit'
  BY <1>1, <1>3, CallsUnchanged
<1> QED BY <1>2, <1>3, <1>4 DEF IInv

-----------------------------------------------------------------------------
(* An admission is appended at the version at which nothing it depends on  *)
(* was pending.                                                            *)
NothingPendingOver(a) == \A d \in Decisions : Pending(d) => Touches[d] \intersect Considers[a] = {}

LEMMA AdmitGoes ==
    ASSUME IInv, NEW p \in Procs, Admit(p)
    PROVE  /\ IInv' /\ UNCHANGED <<run, decision>>
           /\ \A a \in admitted' \ admitted : NothingPendingOver(a)
<1>1. TypeOK /\ DecisionsFit /\ CallsFit
  BY DEF IInv
<1>2. /\ call[p].at = "admit" /\ index.revision = call[p].seen
      /\ admitted' = admitted \union {call[p].about}
      /\ index' = [index EXCEPT !.revision = @ + 1]
      /\ Goes(p, NoCall)
      /\ UNCHANGED <<run, used, planning, decision>>
  BY DEF Admit, SameRun
<1> PICK c \in Calls : c = call[p] /\ CallFits(c)
  BY CallIs
<1>3. c.about \in Admissions /\ Blocks(c.about) = {}
  BY <1>2 DEF CallFits, OfAdmission
<1>4. call' \in [Procs -> Calls] /\ call'[p] = NoCall /\ \A q \in Procs : q # p => call'[q] = call[q]
  BY <1>1, <1>2, IdleCall DEF Goes, TypeOK
<1>5. /\ index.revision \in Nat /\ index' \in [revision : Nat, pending : SUBSET Decisions]
      /\ index'.revision > index.revision /\ index'.pending = index.pending
  <2>1. index \in [revision : Nat, pending : SUBSET Decisions]
    BY <1>1 DEF TypeOK
  <2>2. index' = [revision |-> index.revision + 1, pending |-> index.pending]
    BY <1>2, <2>1
  <2> QED BY <2>1, <2>2
<1>6. TypeOK' /\ Kept
  BY <1>1, <1>2, <1>3, <1>4, <1>5 DEF TypeOK, Kept
<1>7. CallsFit'
  <2>1. \A k \in Calls : call'[p] = k => CallFits(k)'
    BY <1>4 DEF NoCall, CallFits
  <2> QED BY <1>1, <1>4, <1>6, <2>1, CallsKept
<1>8. RunFits' /\ DecisionsFit' /\ OneOwner' /\ RejectionsAreBacked' /\ Indexed'
  BY <1>2, <1>5 DEF IInv, RunFits, DecisionsFit, DecisionFits, OneOwner, RejectionsAreBacked, Indexed,
              LastEnd, Owners, Digest, Pending
<1>9. NothingPendingOver(c.about)
  BY <1>3 DEF NothingPendingOver, Blocks, IInv, Indexed
<1> QED BY <1>2, <1>6, <1>7, <1>8, <1>9 DEF IInv

-----------------------------------------------------------------------------
(* The request for approval                                                *)
LEMMA AskGoes ==
    ASSUME IInv, NEW p \in Procs, Ask(p)
    PROVE  /\ IInv' /\ UNCHANGED decision
           /\ \/ UNCHANGED run
              \/ /\ run.lifecycle = "planning"
                 /\ \E plan \in Digests : run' = Requested(run, plan)
<1>1. TypeOK /\ DecisionsFit /\ CallsFit /\ call[p].at = "ask"
  BY DEF IInv, Ask
<1> PICK c \in Calls : c = call[p] /\ CallFits(c)
  BY CallIs
<1>2. c \in PlanningCalls /\ c.at = "ask" /\ c.about \in Asks /\ c.seen \in Proposed
  BY <1>1, PlanningCall DEF CallFits
<1> DEFINE next == [c EXCEPT !.at = "raise"]
<1>3. next \in Calls /\ next.at = "raise" /\ next.about = c.about /\ next.seen = c.seen
  BY <1>2, PlacedCall DEF Places
<1>4. Goes(p, next)
  BY DEF Ask, At
<1> HIDE DEF next
<1>5. CallFits(next) /\ CallFits(next)'
  BY <1>2, <1>3 DEF CallFits
<1>6. PICK plan \in Digests : plan = Digest(c.seen)
  BY <1>2 DEF Digest, Digests, Proposed, Plans
<1>7. UNCHANGED <<decision, index, admitted, planning>>
  BY DEF Ask, SameAttention
<1>8. CASE UNCHANGED <<run, used>>
  <2>1. UNCHANGED Streams
    BY <1>7, <1>8 DEF Streams
  <2> QED BY <1>3, <1>4, <1>5, <1>7, <1>8, <2>1, CallOnly
<1>9. CASE /\ run.lifecycle = "planning" /\ <<c.about, "ask">> \notin used
           /\ run' = Requested(run, Digest(c.seen))
           /\ used' = used \union {<<c.about, "ask">>}
  <2> PICK s \in Seq(Request) : s = run.requests
    BY RunTyped
  <2> PICK n \in Nat : n = Len(s)
    BY LenProperties
  <2>1. run' = [lifecycle |-> "awaiting_approval", from |-> run.from, fresh |-> TRUE,
                requests |-> Append(s, [plan |-> plan, end |-> "open"]), service |-> run.service]
    BY <1>6, <1>9, RunTyped DEF Requested
  <2>2. /\ DOMAIN run.requests = 1..n
        /\ run'.requests \in Seq(Request) /\ run'.requests # <<>>
        /\ Len(run'.requests) = n + 1 /\ DOMAIN run'.requests = 1..(n + 1)
        /\ \A m \in 1..n : run'.requests[m] = run.requests[m]
        /\ run'.requests[n + 1] = [plan |-> plan, end |-> "open"]
    BY <2>1, AskedRun
  <2>3. \A d \in Asks, word \in {"ask", "withdraw", "reject"} :
            <<d, word>> \in used' <=> <<d, word>> \in used \/ (d = c.about /\ word = "ask")
    BY <1>9
  <2>4. TypeOK'
    <3>1. call' \in [Procs -> Calls]
      BY <1>1, <1>3, <1>4 DEF Goes, TypeOK
    <3>2. used' \subseteq Asks \X {"ask", "withdraw", "reject"}
      BY <1>1, <1>2, <1>9 DEF TypeOK
    <3>3. run' \in [lifecycle : Lifecycles, from : {"none", "analyzing"}, requests : Seq(Request),
                    fresh : BOOLEAN, service : Nat]
      BY <2>1, <2>2, RunTyped DEF Lifecycles
    <3> QED BY <1>1, <1>7, <3>1, <3>2, <3>3 DEF TypeOK
  <2>5. /\ \A m \in 1..n : run.requests[m].end \in {"rejected", "revised"}
    <3>1. \A m \in 1..n : m # n => run.requests[m].end \in {"rejected", "revised"}
      BY <2>2, RunTyped DEF RunFits
    <3>2. n # 0 => LastEnd(run) = run.requests[n].end
      BY EmptySeq DEF LastEnd, Last
    <3>3. LastEnd(run) \in {"none", "rejected", "revised"}
      BY <1>9, RunTyped DEF RunFits
    <3>4. \A m \in 1..n : run.requests[m].end # "none"
      <4>1. s \in [1..n -> Request]
        BY LenProperties
      <4> QED BY <4>1 DEF Request
    <3> QED BY <3>1, <3>2, <3>3, <3>4
  <2>6. RunFits'
    <3>1. LastEnd(run)' = "open"
      BY <2>2 DEF LastEnd, Last
    <3> QED BY <2>1, <2>2, <2>5, <3>1 DEF RunFits
  <2>7. DecisionsFit'
    <3> SUFFICES ASSUME NEW d \in Asks PROVE DecisionFits(d)'
      BY DEF DecisionsFit
    <3>1. DecisionFits(d) /\ (<<d, "reject">> \in used' <=> <<d, "reject">> \in used)
      BY <1>1, <2>3 DEF DecisionsFit
    <3>2. decision[d].request \in 1..n => run'.requests[decision[d].request] = run.requests[decision[d].request]
      BY <2>2
    <3>3. decision[d].request \in 1..n =>
              decision[d].request \in 1..(n + 1) /\ run.requests[decision[d].request].end \in {"rejected", "revised"}
      BY <2>5
    <3>4. CASE decision[d].status = "none"
      BY <1>7, <3>1, <3>4 DEF DecisionFits
    <3>5. CASE decision[d].status = "rejected"
      BY <1>7, <2>2, <3>1, <3>2, <3>3, <3>5 DEF DecisionFits
    <3>6. CASE decision[d].status \notin {"none", "rejected"}
      BY <1>7, <2>2, <3>1, <3>2, <3>3, <3>6 DEF DecisionFits
    <3> QED BY <3>4, <3>5, <3>6
  <2>8. Kept
    BY <1>7, <2>2 DEF Kept
  <2>9. OneOwner' /\ Indexed'
    BY <1>7 DEF IInv, OneOwner, Indexed, Pending
  <2>10. RejectionsAreBacked'
    <3>1. \A m : Owners(m)' = Owners(m)
      BY <1>7 DEF Owners
    <3>2. \A m \in DOMAIN run'.requests : m \in DOMAIN run.requests \/ run'.requests[m].end = "open"
      <4>1. \A m \in 1..(n + 1) : m \in 1..n \/ m = n + 1
        OBVIOUS
      <4> QED BY <2>2, <4>1
    <3>3. \A m \in DOMAIN run.requests :
              m \in DOMAIN run'.requests /\ run'.requests[m] = run.requests[m]
      <4>1. \A m \in 1..n : m \in 1..(n + 1)
        OBVIOUS
      <4> QED BY <2>2, <4>1
    <3>4. RejectionsAreBacked /\ Digest(planning)' = Digest(planning) /\ planning' = planning
      BY <1>7 DEF IInv, Digest
    <3>5. ASSUME NEW m \in DOMAIN run'.requests, run'.requests[m].end = "rejected"
          PROVE  \E d \in Owners(m)' : decision'[d].status = "rejected"
      BY <1>7, <3>1, <3>2, <3>3, <3>4, <3>5 DEF RejectionsAreBacked
    <3>6. planning'.state = "correction" =>
              \E m \in DOMAIN run'.requests :
                  run'.requests[m] = [plan |-> Digest(planning)', end |-> "rejected"]
      BY <3>3, <3>4 DEF RejectionsAreBacked
    <3> QED BY <3>5, <3>6 DEF RejectionsAreBacked
  <2>11. CallsFit'
    <3>1. call'[p] = next /\ \A q \in Procs : q # p => call'[q] = call[q]
      BY <1>1, <1>4 DEF Goes, TypeOK
    <3> QED BY <1>1, <1>5, <2>8, <3>1, CallsKept
  <2> QED BY <1>6, <1>7, <1>9, <2>4, <2>6, <2>7, <2>9, <2>10, <2>11 DEF IInv
<1> QED BY <1>8, <1>9 DEF Ask

-----------------------------------------------------------------------------
(* The last request is answered.                                           *)
AnsweredAs(n, stage, end) ==
    /\ n \in Nat \ {0} /\ DOMAIN run.requests = 1..n /\ run.requests[n].end = "open"
    /\ run'.requests \in Seq(Request) /\ Len(run'.requests) = n /\ DOMAIN run'.requests = 1..n
    /\ \A m \in 1..n : m # n => run'.requests[m] = run.requests[m]
    /\ run'.requests[n] = [plan |-> run.requests[n].plan, end |-> end]
    /\ run.requests[n].plan \in Digests
    /\ run' \in [lifecycle : Lifecycles, from : {"none", "analyzing"}, requests : Seq(Request),
                 fresh : BOOLEAN, service : Nat]
    /\ run'.lifecycle = stage /\ run.lifecycle = "awaiting_approval"
    /\ LastEnd(run)' = end /\ LastPlan(run)' = run.requests[n].plan
    /\ RunFits'
    /\ \A m \in DOMAIN run.requests :
           /\ run'.requests[m].plan = run.requests[m].plan
           /\ run.requests[m].end = "rejected" => run'.requests[m].end = "rejected"

LEMMA AnsweredFacts ==
    ASSUME IInv, AwaitsAnswer(run), NEW n, n = Len(run.requests), NEW stage, NEW end,
           \/ stage = "planning" /\ end \in {"rejected", "revised"}
           \/ stage = "approved_and_ready_for_execution" /\ end = "ready",
           run' = Answered(run, stage, end)
    PROVE  AnsweredAs(n, stage, end)
<1> PICK s \in Seq(Request) : s = run.requests /\ s # <<>>
  BY OpenRequest
<1>1. end \in {"rejected", "revised", "ready"}
  OBVIOUS
<1> DEFINE after == Front(s) \o <<[plan |-> Last(s).plan, end |-> end]>>
<1>2. run' = [lifecycle |-> stage, from |-> run.from, fresh |-> FALSE,
              requests |-> after, service |-> run.service]
  BY RunTyped DEF Answered
<1>3. /\ n \in Nat \ {0} /\ DOMAIN s = 1..n
      /\ after \in Seq(Request) /\ Len(after) = n /\ DOMAIN after = 1..n
      /\ \A m \in 1..n : m # n => after[m] = s[m]
      /\ after[n] = [plan |-> s[n].plan, end |-> end]
      /\ s[n].plan \in Digests
  <2>1. n = Len(s)
    OBVIOUS
  <2>2. /\ Len(s) \in Nat \ {0} /\ DOMAIN s = 1..Len(s)
        /\ after \in Seq(Request) /\ Len(after) = Len(s) /\ DOMAIN after = 1..Len(s)
        /\ \A m \in 1..Len(s) : m # Len(s) => after[m] = s[m]
        /\ after[Len(s)] = [plan |-> s[Len(s)].plan, end |-> end]
        /\ s[Len(s)].plan \in Digests
    <3>1. \A e \in {"rejected", "revised", "ready"} :
            LET new == Front(s) \o <<[plan |-> Last(s).plan, end |-> e]>>
            IN /\ Len(s) \in Nat \ {0} /\ DOMAIN s = 1..Len(s)
               /\ new \in Seq(Request) /\ Len(new) = Len(s) /\ DOMAIN new = 1..Len(s)
               /\ \A m \in 1..Len(s) : m # Len(s) => new[m] = s[m]
               /\ new[Len(s)] = [plan |-> s[Len(s)].plan, end |-> e]
               /\ s[Len(s)].plan \in Digests
      BY AnsweredRun
    <3> QED BY <1>1, <3>1
  <2> HIDE DEF after
  <2> QED BY <2>1, <2>2
<1> HIDE DEF after
<1>4. run.requests[n].end = "open" /\ run.lifecycle = "awaiting_approval"
  BY OpenRequest DEF AwaitsAnswer
<1>5. run' \in [lifecycle : Lifecycles, from : {"none", "analyzing"}, requests : Seq(Request),
                fresh : BOOLEAN, service : Nat]
  BY <1>2, <1>3, RunTyped DEF Lifecycles
<1>6. run'.requests = after /\ run'.lifecycle = stage
  BY <1>2
<1>7. after # <<>>
  BY <1>3, EmptySeq
<1>8. LastEnd(run)' = end /\ LastPlan(run)' = s[n].plan
  BY <1>3, <1>6, <1>7 DEF LastEnd, LastPlan, Last
<1>9. RunFits'
  <2>1. \A m \in 1..n : m # n => run.requests[m].end \in {"rejected", "revised"}
    BY <1>3, RunTyped DEF RunFits
  <2>2. \A m \in DOMAIN run'.requests :
            m # Len(run'.requests) => run'.requests[m].end \in {"rejected", "revised"}
    BY <1>3, <1>6, <2>1
  <2> QED BY <1>6, <1>8, <2>2 DEF RunFits
<1>10. \A m \in DOMAIN run.requests :
          /\ run'.requests[m].plan = run.requests[m].plan
          /\ run.requests[m].end = "rejected" => run'.requests[m].end = "rejected"
  BY <1>3, <1>4, <1>6
<1> QED BY <1>3, <1>4, <1>5, <1>6, <1>8, <1>9, <1>10 DEF AnsweredAs

LEMMA WithdrawGoes ==
    ASSUME IInv, NEW p \in Procs, Withdraw(p)
    PROVE  /\ IInv' /\ UNCHANGED decision
           /\ AwaitsAnswer(run) /\ run' = Withdrawn(run)
           /\ \E d \in Asks : Pending(d) /\ decision[d].request = Len(run.requests)
<1>1. TypeOK /\ DecisionsFit /\ CallsFit /\ OneOwner
  BY DEF IInv
<1>2. /\ call[p].at = "revise"
      /\ run' = Withdrawn(run)
      /\ used' = used \union {<<call[p].about, "withdraw">>}
      /\ Goes(p, At(p, "append"))
      /\ UNCHANGED <<decision, index, admitted, planning>>
  BY DEF Withdraw, SameAttention
<1> PICK d \in Asks : Pending(d) /\ Current(d)
  BY DEF Withdraw
<1>3. AwaitsAnswer(run) /\ decision[d].request = Len(run.requests)
  BY DEF Current
<1> PICK c \in Calls : c = call[p] /\ CallFits(c)
  BY CallIs
<1>4. c \in PlanningCalls /\ c.at = "revise" /\ OfPlan(c) /\ c.seen \in Views
  BY <1>2, PlanningCall DEF CallFits
<1> DEFINE next == [c EXCEPT !.at = "append"]
<1>5. /\ next \in Calls /\ next.at = "append"
      /\ next.about = c.about /\ next.plan = c.plan /\ next.seen = c.seen
  BY <1>4, PlacedCall DEF Places
<1>6. Goes(p, next)
  BY <1>2 DEF At
<1> HIDE DEF next
<1>7. CallFits(next)'
  BY <1>4, <1>5 DEF CallFits, OfPlan
<1>8. call' \in [Procs -> Calls] /\ call'[p] = next /\ \A q \in Procs : q # p => call'[q] = call[q]
  BY <1>1, <1>5, <1>6 DEF Goes, TypeOK
<1> PICK n \in Nat : n = Len(run.requests)
  BY <1>3, OpenRequest
<1>9. /\ DOMAIN run.requests = 1..n /\ Len(run'.requests) = n /\ DOMAIN run'.requests = 1..n
      /\ run.requests[n].end = "open"
      /\ \A m \in 1..n : m # n => run'.requests[m] = run.requests[m]
      /\ run'.requests[n].end = "revised"
      /\ run' \in [lifecycle : Lifecycles, from : {"none", "analyzing"}, requests : Seq(Request),
                   fresh : BOOLEAN, service : Nat]
      /\ RunFits' /\ Kept
  <2>1. run' = Answered(run, "planning", "revised")
    BY <1>2 DEF Withdrawn
  <2>2. AnsweredAs(n, "planning", "revised")
    BY <1>3, <2>1, AnsweredFacts
  <2> QED BY <1>2, <2>2 DEF AnsweredAs, Kept
<1>10. used' \subseteq Asks \X {"ask", "withdraw", "reject"}
  BY <1>1, <1>2, <1>4 DEF TypeOK, OfPlan
<1>11. TypeOK'
  BY <1>1, <1>2, <1>8, <1>9, <1>10 DEF TypeOK
<1>12. DecisionsFit'
  <2> SUFFICES ASSUME NEW e \in Asks PROVE DecisionFits(e)'
    BY DEF DecisionsFit
  <2>1. DecisionFits(e) /\ (<<e, "reject">> \in used' <=> <<e, "reject">> \in used)
    BY <1>1, <1>2 DEF DecisionsFit
  <2>2. decision[e].request = n => decision[e].status = "pending"
    <3>1. n # 0
      BY <1>3, OpenRequest
    <3> QED BY <1>1, <1>3, <3>1 DEF OneOwner, Pending
  <2>3. CASE decision[e].request = n
    <3>1. n \in 1..n
      BY <1>3, OpenRequest
    <3> QED BY <1>2, <1>9, <2>1, <2>2, <2>3, <3>1 DEF DecisionFits
  <2>4. CASE decision[e].request # n
    BY <1>2, <1>9, <2>1, <2>4 DEF DecisionFits
  <2> QED BY <2>3, <2>4
<1>13. OneOwner' /\ Indexed'
  BY <1>2 DEF IInv, OneOwner, Indexed, Pending
<1>14. RejectionsAreBacked'
  <2>1. \A m : Owners(m)' = Owners(m)
    BY <1>2 DEF Owners
  <2>2. \A m \in DOMAIN run.requests :
            run.requests[m].end = "rejected" => m # n /\ run'.requests[m] = run.requests[m]
    BY <1>9
  <2>3. RejectionsAreBacked /\ Digest(planning)' = Digest(planning) /\ planning' = planning
    BY <1>2 DEF IInv, Digest
  <2>4. ASSUME NEW m \in DOMAIN run'.requests, run'.requests[m].end = "rejected"
        PROVE  \E e \in Owners(m)' : decision'[e].status = "rejected"
    BY <1>2, <1>9, <2>1, <2>3, <2>4 DEF RejectionsAreBacked
  <2>5. planning'.state = "correction" =>
            \E m \in DOMAIN run'.requests :
                run'.requests[m] = [plan |-> Digest(planning)', end |-> "rejected"]
    BY <1>9, <2>2, <2>3 DEF RejectionsAreBacked
  <2> QED BY <2>4, <2>5 DEF RejectionsAreBacked
<1>15. CallsFit'
  BY <1>1, <1>7, <1>8, <1>9, CallsKept
<1> QED BY <1>2, <1>3, <1>9, <1>11, <1>12, <1>13, <1>14, <1>15 DEF IInv

LEMMA RecordOnRunGoes ==
    ASSUME IInv, NEW p \in Procs, RecordOnRun(p)
    PROVE  /\ IInv' /\ UNCHANGED decision
           /\ \/ UNCHANGED run
              \/ /\ AwaitsAnswer(run) /\ run' = Declined(run)
                 /\ \E d \in Asks : decision[d].status = "rejected" /\ decision[d].request = Len(run.requests)
<1>1. TypeOK /\ DecisionsFit /\ CallsFit /\ OneOwner
  BY DEF IInv
<1>2. /\ call[p].at = "record"
      /\ Goes(p, At(p, "correct"))
      /\ UNCHANGED <<decision, index, admitted, planning>>
  BY DEF RecordOnRun, SameAttention
<1> PICK c \in Calls : c = call[p] /\ CallFits(c)
  BY CallIs
<1>3. c \in PlanningCalls /\ c.at = "record" /\ OfRecord(c)
  BY <1>2, PlanningCall DEF CallFits
<1> PICK d \in Asks : d = c.decided /\ decision[d].status = "rejected"
  BY <1>3 DEF OfRecord, OfRejection
<1>4. DecisionFits(d)
  BY <1>1 DEF DecisionsFit
<1> DEFINE next == [c EXCEPT !.at = "correct"]
<1>5. /\ next \in Calls /\ next.at = "correct" /\ next.about = c.about /\ next.plan = c.plan
      /\ next.seen = c.seen /\ next.decided = c.decided /\ next.then = c.then
  BY <1>3, PlacedCall DEF Places
<1>6. Goes(p, next)
  BY <1>2 DEF At
<1> HIDE DEF next
<1>7. OfRecord(next)
  BY <1>3, <1>5 DEF OfRecord, OfRejection, OfPlan
<1>8. call' \in [Procs -> Calls] /\ call'[p] = next /\ \A q \in Procs : q # p => call'[q] = call[q]
  BY <1>1, <1>5, <1>6 DEF Goes, TypeOK
<1>9. CASE run.lifecycle = "planning" /\ LastEnd(run) = "rejected" /\ UNCHANGED <<run, used>>
  <2>1. UNCHANGED Streams
    BY <1>2, <1>9 DEF Streams
  <2>2. run.requests[decision[d].request].end = "rejected"
    <3>1. decision[d].request = Len(run.requests) => run.requests[decision[d].request].end = LastEnd(run)
      BY <1>4, EmptySeq DEF DecisionFits, LastEnd, Last
    <3> QED BY <1>4, <1>9, <3>1 DEF DecisionFits
  <2>3. CallFits(next)
    BY <1>5, <1>7, <2>2 DEF CallFits
  <2> QED BY <1>2, <1>5, <1>6, <1>9, <2>1, <2>3, CallOnly
<1>10. CASE /\ AwaitsAnswer(run) /\ <<d, "reject">> \notin used
            /\ run' = Declined(run) /\ used' = used \union {<<d, "reject">>}
  <2> PICK n \in Nat : n = Len(run.requests)
    BY <1>10, OpenRequest
  <2>1. /\ DOMAIN run.requests = 1..n /\ Len(run'.requests) = n /\ DOMAIN run'.requests = 1..n
        /\ n # 0 /\ run.requests[n].end = "open"
        /\ \A m \in 1..n : m # n => run'.requests[m] = run.requests[m]
        /\ run'.requests[n].end = "rejected"
        /\ run' \in [lifecycle : Lifecycles, from : {"none", "analyzing"}, requests : Seq(Request),
                     fresh : BOOLEAN, service : Nat]
        /\ RunFits' /\ Kept
    <3>1. run' = Answered(run, "planning", "rejected")
      BY <1>10 DEF Declined
    <3>2. AnsweredAs(n, "planning", "rejected")
      BY <1>10, <3>1, AnsweredFacts
    <3> QED BY <1>2, <3>2 DEF AnsweredAs, Kept
  <2>2. decision[d].request = n /\ n \in 1..n
    BY <1>4, <1>10, <2>1 DEF DecisionFits
  <2>3. used' \subseteq Asks \X {"ask", "withdraw", "reject"}
    BY <1>1, <1>10 DEF TypeOK
  <2>4. TypeOK'
    BY <1>1, <1>2, <1>8, <2>1, <2>3 DEF TypeOK
  <2>5. DecisionsFit'
    <3> SUFFICES ASSUME NEW e \in Asks PROVE DecisionFits(e)'
      BY DEF DecisionsFit
    <3>1. DecisionFits(e)
      BY <1>1 DEF DecisionsFit
    <3>2. CASE e = d
      BY <1>2, <1>10, <2>1, <2>2, <3>2 DEF DecisionFits
    <3>3. CASE e # d
      <4>1. decision[e].request # n
        BY <1>1, <2>1, <2>2, <3>3 DEF OneOwner
      <4>2. <<e, "reject">> \in used' <=> <<e, "reject">> \in used
        BY <1>10, <3>3
      <4> QED BY <1>2, <2>1, <3>1, <4>1, <4>2 DEF DecisionFits
    <3> QED BY <3>2, <3>3
  <2>6. OneOwner' /\ Indexed'
    BY <1>2 DEF IInv, OneOwner, Indexed, Pending
  <2>7. RejectionsAreBacked'
    <3>1. \A m : Owners(m)' = Owners(m)
      BY <1>2 DEF Owners
    <3>2. \A m \in DOMAIN run.requests :
              run.requests[m].end = "rejected" => m # n /\ run'.requests[m] = run.requests[m]
      BY <2>1
    <3>3. RejectionsAreBacked /\ Digest(planning)' = Digest(planning) /\ planning' = planning
      BY <1>2 DEF IInv, Digest
    <3>4. ASSUME NEW m \in DOMAIN run'.requests, run'.requests[m].end = "rejected"
          PROVE  \E e \in Owners(m)' : decision'[e].status = "rejected"
      <4>1. CASE m = n
        <5>1. d \in Owners(n)' /\ decision'[d].status = "rejected"
          BY <1>2, <2>2 DEF Owners
        <5> QED BY <4>1, <5>1
      <4>2. CASE m # n
        BY <1>2, <2>1, <3>1, <3>3, <3>4, <4>2 DEF RejectionsAreBacked
      <4> QED BY <4>1, <4>2
    <3>5. planning'.state = "correction" =>
              \E m \in DOMAIN run'.requests :
                  run'.requests[m] = [plan |-> Digest(planning)', end |-> "rejected"]
      BY <2>1, <3>2, <3>3 DEF RejectionsAreBacked
    <3> QED BY <3>4, <3>5 DEF RejectionsAreBacked
  <2>8. CallsFit'
    <3>1. CallFits(c)'
      BY <1>1, <2>1, CallKept
    <3>2. OfRecord(c)'
      BY <1>3, <3>1 DEF CallFits
    <3>3. OfRecord(next)'
      BY <1>5, <3>2 DEF OfRecord, OfRejection, OfPlan
    <3>4. run'.requests[decision'[next.decided].request].end = "rejected"
      BY <1>2, <1>5, <2>1, <2>2
    <3>5. CallFits(next)'
      BY <1>5, <3>3, <3>4 DEF CallFits
    <3> QED BY <1>1, <1>8, <2>1, <3>5, CallsKept
  <2> QED BY <1>2, <1>10, <2>1, <2>2, <2>4, <2>5, <2>6, <2>7, <2>8 DEF IInv
<1> QED BY <1>9, <1>10 DEF RecordOnRun

LEMMA AcceptApprovalGoes ==
    ASSUME IInv, NEW d \in Asks, AcceptApproval(d)
    PROVE  /\ IInv' /\ Pending(d) /\ Current(d) /\ run' = Readied(run)
           /\ decision' = [decision EXCEPT ![d].status = "accepted"]
<1>1. TypeOK /\ DecisionsFit /\ CallsFit /\ OneOwner
  BY DEF IInv
<1>2. /\ run' = Readied(run) /\ AwaitsAnswer(run) /\ decision[d].request = Len(run.requests)
      /\ Pending(d) /\ Current(d)
      /\ decision' = [decision EXCEPT ![d].status = "accepted"]
      /\ index' = [revision |-> index.revision + 1, pending |-> index.pending \ {d}]
      /\ UNCHANGED <<planning, admitted, used, call>>
  BY DEF AcceptApproval, Current, Resolved
<1> PICK n \in Nat : n = Len(run.requests)
  BY <1>2, OpenRequest
<1>3. /\ DOMAIN run.requests = 1..n /\ Len(run'.requests) = n /\ DOMAIN run'.requests = 1..n
      /\ n # 0 /\ run.requests[n].end = "open"
      /\ \A m \in 1..n : m # n => run'.requests[m] = run.requests[m]
      /\ run'.requests[n].end = "ready"
      /\ run' \in [lifecycle : Lifecycles, from : {"none", "analyzing"}, requests : Seq(Request),
                   fresh : BOOLEAN, service : Nat]
      /\ RunFits'
      /\ \A m \in DOMAIN run.requests :
             /\ run'.requests[m].plan = run.requests[m].plan
             /\ run.requests[m].end = "rejected" => run'.requests[m].end = "rejected"
  <2>1. run' = Answered(run, "approved_and_ready_for_execution", "ready")
    BY <1>2 DEF Readied
  <2>2. AnsweredAs(n, "approved_and_ready_for_execution", "ready")
    BY <1>2, <2>1, AnsweredFacts
  <2> QED BY <2>2 DEF AnsweredAs
<1>4. /\ decision' \in [Decisions -> [status : {"none", "pending", "accepted", "rejected", "declined", "lapsed"},
                                      request : Nat]]
      /\ decision'[d].status = "accepted"
      /\ \A e \in Decisions : decision'[e].request = decision[e].request
      /\ \A e \in Decisions : e # d => decision'[e] = decision[e]
      /\ d \in Decisions /\ \A e \in Asks : e \in Decisions
  BY <1>1, <1>2 DEF TypeOK, Decisions
<1>5. index.revision \in Nat /\ index' \in [revision : Nat, pending : SUBSET Decisions]
  BY <1>1, <1>2 DEF TypeOK
<1>6. index'.revision > index.revision /\ index'.pending = index.pending \ {d}
  BY <1>2, <1>5
<1>7. TypeOK'
  BY <1>1, <1>2, <1>3, <1>4, <1>5 DEF TypeOK
<1>8. Kept
  BY <1>2, <1>3, <1>4, <1>5, <1>6 DEF Kept, Pending
<1>9. DecisionsFit'
  <2> SUFFICES ASSUME NEW e \in Asks PROVE DecisionFits(e)'
    BY DEF DecisionsFit
  <2>1. DecisionFits(e)
    BY <1>1 DEF DecisionsFit
  <2>2. CASE e = d
    <3>1. n \in 1..n
      BY <1>3
    <3> QED BY <1>2, <1>3, <1>4, <2>1, <2>2, <3>1 DEF DecisionFits, Pending
  <2>3. CASE e # d
    <3>1. decision[e].request # n
      BY <1>1, <1>2, <1>3, <2>3 DEF OneOwner
    <3> QED BY <1>2, <1>3, <1>4, <2>1, <2>3, <3>1 DEF DecisionFits
  <2> QED BY <2>2, <2>3
<1>10. OneOwner' /\ Indexed'
  BY <1>1, <1>2, <1>4, <1>6 DEF IInv, OneOwner, Indexed, Pending
<1>11. RejectionsAreBacked'
  <2>1. ASSUME NEW m, NEW e \in Owners(m), decision[e].status = "rejected"
        PROVE  e \in Owners(m)' /\ decision'[e].status = "rejected"
    BY <1>2, <1>4, <2>1 DEF Owners, Pending
  <2>2. \A m \in DOMAIN run.requests :
            run.requests[m].end = "rejected" => m # n /\ run'.requests[m] = run.requests[m]
    BY <1>3
  <2>3. RejectionsAreBacked /\ Digest(planning)' = Digest(planning) /\ planning' = planning
    BY <1>2 DEF IInv, Digest
  <2>4. ASSUME NEW m \in DOMAIN run'.requests, run'.requests[m].end = "rejected"
        PROVE  \E e \in Owners(m)' : decision'[e].status = "rejected"
    BY <1>3, <2>1, <2>3, <2>4 DEF RejectionsAreBacked
  <2>5. planning'.state = "correction" =>
            \E m \in DOMAIN run'.requests :
                run'.requests[m] = [plan |-> Digest(planning)', end |-> "rejected"]
    BY <1>3, <2>2, <2>3 DEF RejectionsAreBacked
  <2> QED BY <2>4, <2>5 DEF RejectionsAreBacked
<1>12. CallsFit'
  BY <1>1, <1>2, <1>8, CallsUnchanged
<1> QED BY <1>2, <1>3, <1>7, <1>9, <1>10, <1>11, <1>12 DEF IInv

-----------------------------------------------------------------------------
(* What the verdict on a request is                                        *)
VerdictFits(n) ==
    /\ run.requests[n].end = "revised" => Verdict(n) = "withdrawn"
    /\ run.requests[n].end # "revised" =>
           /\ Owners(n) = {} => Verdict(n) = "open"
           /\ \A d \in Asks :
                  Owners(n) = {d} =>
                      Verdict(n) = IF decision[d].status = "pending" THEN "open" ELSE decision[d].status

LEMMA Verdicts ==
    ASSUME NEW n
    PROVE  VerdictFits(n) /\ VerdictFits(n)'
<1>1. \A d : (CHOOSE e \in {d} : TRUE) = d
  OBVIOUS
<1>2. VerdictFits(n)
  BY <1>1 DEF VerdictFits, Verdict
<1>3. VerdictFits(n)'
  BY <1>1 DEF VerdictFits, Verdict
<1> QED BY <1>2, <1>3

(* The verdicts other than the one that changes keep what they are.        *)
LEMMA VerdictKept ==
    ASSUME NEW n, run'.requests[n].end = run.requests[n].end, Owners(n)' = Owners(n),
           \A d \in Owners(n) : decision'[d] = decision[d]
    PROVE  Verdict(n)' = Verdict(n)
<1>1. CASE Owners(n) = {}
  BY <1>1 DEF Verdict
<1>2. CASE Owners(n) # {}
  <2>1. (CHOOSE d \in Owners(n) : TRUE) \in Owners(n)
    BY <1>2
  <2> QED BY <1>2, <2>1 DEF Verdict
<1> QED BY <1>1, <1>2

(* A step that leaves the verdicts as they are changes none of what is     *)
(* promised; one that leaves the requests and the decisions about them     *)
(* leaves the verdicts.                                                    *)
LEMMA SameVerdicts ==
    ASSUME DOMAIN run'.requests = DOMAIN run.requests,
           \A n \in DOMAIN run.requests : run'.requests[n].plan = run.requests[n].plan,
           \A n \in DOMAIN run.requests : Verdict(n)' = Verdict(n),
           Live(run)' = Live(run),
           \/ LastEnd(run) # "ready" /\ LastEnd(run)' # "ready"
           \/ LastEnd(run)' = LastEnd(run) /\ LastPlan(run)' = LastPlan(run)
    PROVE  UNCHANGED Promise!vars
<1>1. [n \in DOMAIN run.requests |-> Verdict(n)]' = [n \in DOMAIN run.requests |-> Verdict(n)]
  OBVIOUS
<1>2. [n \in DOMAIN run.requests |-> run.requests[n].plan]' = [n \in DOMAIN run.requests |-> run.requests[n].plan]
  OBVIOUS
<1> QED BY <1>1, <1>2 DEF Promise!vars

LEMMA SilentStep ==
    ASSUME run'.requests = run.requests, Live(run)' = Live(run),
           \A d \in Asks : decision'[d] = decision[d]
    PROVE  UNCHANGED Promise!vars
<1>1. \A n : Owners(n)' = Owners(n)
  BY DEF Owners
<1>2. \A n : Verdict(n)' = Verdict(n)
  <2> SUFFICES ASSUME NEW n PROVE Verdict(n)' = Verdict(n)
    OBVIOUS
  <2>1. \A d \in Owners(n) : decision'[d] = decision[d]
    BY DEF Owners
  <2> QED BY <1>1, <2>1, VerdictKept
<1>3. LastEnd(run)' = LastEnd(run) /\ LastPlan(run)' = LastPlan(run)
  BY DEF LastEnd, LastPlan
<1> QED BY <1>2, <1>3, SameVerdicts

(* A step that gives the last request its verdict, or lets it lapse        *)
LEMMA DecisionStep ==
    ASSUME run.requests \in Seq(Request), NEW n \in Nat \ {0}, n = Len(run.requests),
           DOMAIN run'.requests = DOMAIN run.requests,
           \A m \in 1..n : run'.requests[m].plan = run.requests[m].plan,
           \A m \in 1..n : m # n => Verdict(m)' = Verdict(m),
           Verdict(n) = "open", NEW v \in {"accepted", "rejected", "withdrawn", "lapsed"}, Verdict(n)' = v,
           v = "lapsed" \/ Live(run), Live(run)' = Live(run),
           LastEnd(run) # "ready",
           IF v = "accepted" THEN LastEnd(run)' = "ready" /\ LastPlan(run)' = run.requests[n].plan
           ELSE LastEnd(run)' # "ready"
    PROVE  Promise!Decide(v)
<1> DEFINE S == {Verdict(m) : m \in 1..n} \union {v}
           verdict == [m \in DOMAIN run.requests |-> Verdict(m)]
           asked == [m \in DOMAIN run.requests |-> run.requests[m].plan]
<1>1. DOMAIN run.requests = 1..n
  BY LenProperties
<1>2. verdict \in [1..n -> S] /\ asked \in [1..n -> {run.requests[m].plan : m \in 1..n}]
  BY <1>1
<1>3. verdict \in Seq(S) /\ Len(verdict) = n /\ Len(asked) = n
  BY <1>2
<1>4. verdict # <<>> /\ Last(verdict) = "open" /\ Last(asked) = run.requests[n].plan
  BY <1>1, <1>3, EmptySeq DEF Last
<1>5. verdict' = [verdict EXCEPT ![n] = v]
  BY <1>1
<1>6. verdict' = Front(verdict) \o <<v>>
  <2> PICK s \in Seq(S) : s = verdict
    BY <1>3
  <2> PICK x \in S : x = v
    OBVIOUS
  <2>1. Front(s) \o <<x>> = [s EXCEPT ![Len(s)] = x]
    <3>1. s # <<>>
      BY <1>4
    <3> HIDE DEF S, verdict
    <3> QED BY <3>1, LastReplaced
  <2> QED BY <1>3, <1>5, <2>1
<1>7. asked' = asked
  BY <1>1
<1> DEFINE granted == IF LastEnd(run) = "ready" THEN LastPlan(run) ELSE NoPlan
<1>8. granted' = IF v = "accepted" THEN Last(asked) ELSE granted
  BY <1>4
<1>9. (~Live(run))' = ~Live(run)
  OBVIOUS
<1> QED BY <1>4, <1>6, <1>7, <1>8, <1>9 DEF Promise!Decide, Promise!Last, Promise!Front, Last, Front

-----------------------------------------------------------------------------
(* Each step of a run, of a call or of an operator is a step of the exact  *)
(* approval, or none.                                                      *)
Refines == [Promise!Next]_Promise!vars

LEMMA OnlyOwner ==
    ASSUME IInv, NEW d \in Asks, decision[d].request # 0
    PROVE  Owners(decision[d].request) = {d}
BY DEF IInv, OneOwner, Owners

LEMMA QuietStep ==
    ASSUME UNCHANGED <<run, decision>>
    PROVE  Refines
BY SilentStep DEF Refines

LEMMA Appended ==
    ASSUME NEW S, NEW n \in Nat, NEW s \in [1..n -> S], NEW x \in S
    PROVE  Append(s, x) = [m \in 1..(n + 1) |-> IF m = n + 1 THEN x ELSE s[m]]
<1> DEFINE new == [m \in 1..(n + 1) |-> IF m = n + 1 THEN x ELSE s[m]]
<1>1. s \in Seq(S) /\ Len(s) = n
  BY SeqDef
<1>2. /\ Append(s, x) \in Seq(S) /\ Len(Append(s, x)) = n + 1
      /\ \A m \in 1..n : Append(s, x)[m] = s[m]
      /\ Append(s, x)[n + 1] = x
  BY <1>1, AppendProperties
<1>3. DOMAIN Append(s, x) = 1..(n + 1) /\ Append(s, x) \in [1..(n + 1) -> S]
  BY <1>2, LenProperties
<1>4. new \in [1..(n + 1) -> S]
  OBVIOUS
<1>5. \A m \in 1..(n + 1) : Append(s, x)[m] = new[m]
  <2>1. \A m \in 1..(n + 1) : m \in 1..n \/ m = n + 1
    OBVIOUS
  <2> QED BY <1>2, <2>1
<1> QED BY <1>3, <1>4, <1>5

LEMMA AskRefines ==
    ASSUME IInv, run.lifecycle = "planning", UNCHANGED decision,
           NEW plan \in Digests, run' = Requested(run, plan)
    PROVE  Refines
<1> PICK s \in Seq(Request) : s = run.requests
  BY RunTyped
<1> PICK n \in Nat : n = Len(s)
  BY LenProperties
<1>1. run'.requests = Append(s, [plan |-> plan, end |-> "open"]) /\ run'.lifecycle = "awaiting_approval"
  BY RunTyped DEF Requested
<1>2. /\ DOMAIN run.requests = 1..n /\ DOMAIN run'.requests = 1..(n + 1) /\ Len(run'.requests) = n + 1
      /\ run'.requests # <<>>
      /\ \A m \in 1..n : run'.requests[m] = run.requests[m]
      /\ run'.requests[n + 1] = [plan |-> plan, end |-> "open"]
  BY <1>1, AskedRun
<1>3. Live(run) /\ Live(run)'
  BY <1>1 DEF Live
<1>4. LastEnd(run) # "ready" /\ LastEnd(run)' = "open"
  BY <1>2, RunTyped DEF RunFits, LastEnd, Last
<1>5. \A m : Owners(m)' = Owners(m)
  BY DEF Owners
<1>6. \A m \in 1..n : Verdict(m)' = Verdict(m) /\ Verdict(m) \in {"rejected", "withdrawn"}
  <2> SUFFICES ASSUME NEW m \in 1..n
               PROVE  Verdict(m)' = Verdict(m) /\ Verdict(m) \in {"rejected", "withdrawn"}
    OBVIOUS
  <2>1. Verdict(m)' = Verdict(m)
    BY <1>2, <1>5, VerdictKept
  <2>2. run.requests[m].end \in {"rejected", "revised"}
    <3>1. m # n => run.requests[m].end \in {"rejected", "revised"}
      BY <1>2, RunTyped DEF RunFits
    <3>2. m = n => LastEnd(run) = run.requests[m].end
      BY EmptySeq DEF LastEnd, Last
    <3>3. s \in [1..n -> Request]
      BY LenProperties
    <3>4. run.requests[m].end # "none"
      BY <3>3 DEF Request
    <3> QED BY <3>1, <3>2, <3>4, RunTyped DEF RunFits
  <2>3. CASE run.requests[m].end = "revised"
    BY <2>1, <2>3, Verdicts DEF VerdictFits
  <2>4. CASE run.requests[m].end = "rejected"
    <3> PICK d \in Owners(m) : decision[d].status = "rejected"
      BY <1>2, <2>4 DEF IInv, RejectionsAreBacked
    <3>1. d \in Asks /\ decision[d].request = m /\ m # 0
      BY DEF Owners
    <3>2. Owners(m) = {d}
      BY <3>1, OnlyOwner
    <3> QED BY <2>1, <2>4, <3>1, <3>2, Verdicts DEF VerdictFits
  <2> QED BY <2>2, <2>3, <2>4
<1>7. Verdict(n + 1)' = "open"
  <2>1. \A d \in Asks : decision[d].request # n + 1
    <3> SUFFICES ASSUME NEW d \in Asks PROVE decision[d].request # n + 1
      OBVIOUS
    <3>1. DecisionFits(d)
      BY DEF IInv, DecisionsFit
    <3>2. decision[d].request = 0 \/ decision[d].request \in 1..n
      BY <1>2, <3>1 DEF DecisionFits
    <3> QED BY <3>2
  <2>2. Owners(n + 1)' = {}
    BY <2>1 DEF Owners
  <2>3. VerdictFits(n + 1)'
    BY Verdicts
  <2> QED BY <1>2, <2>2, <2>3 DEF VerdictFits
<1> DEFINE asked == [m \in DOMAIN run.requests |-> run.requests[m].plan]
           verdict == [m \in DOMAIN run.requests |-> Verdict(m)]
<1>8. \A m \in 1..(n + 1) : m \in 1..n \/ m = n + 1
  OBVIOUS
<1>9. asked' = Append(asked, plan)
  <2>1. asked \in [1..n -> Digests]
    <3>1. s \in [1..n -> Request]
      BY LenProperties
    <3> QED BY <1>2, <3>1 DEF Request
  <2>2. asked' = [m \in 1..(n + 1) |-> IF m = n + 1 THEN plan ELSE asked[m]]
    BY <1>2, <1>8
  <2> PICK f \in [1..n -> Digests] : f = asked
    BY <2>1
  <2>3. asked' = [m \in 1..(n + 1) |-> IF m = n + 1 THEN plan ELSE f[m]]
    BY <2>2
  <2> HIDE DEF asked
  <2> QED BY <2>3, Appended
<1>10. verdict' = Append(verdict, "open")
  <2>1. verdict \in [1..n -> {"rejected", "withdrawn"}]
    BY <1>2, <1>6
  <2>2. verdict' = [m \in 1..(n + 1) |-> IF m = n + 1 THEN "open" ELSE verdict[m]]
    BY <1>2, <1>6, <1>7, <1>8
  <2> PICK f \in [1..n -> {"rejected", "withdrawn", "open"}] : f = verdict
    BY <2>1
  <2>3. verdict' = [m \in 1..(n + 1) |-> IF m = n + 1 THEN "open" ELSE f[m]]
    BY <2>2
  <2>4. Append(f, "open") = [m \in 1..(n + 1) |-> IF m = n + 1 THEN "open" ELSE f[m]]
    <3> DEFINE S == {"rejected", "withdrawn", "open"}
    <3>1. f \in [1..n -> S] /\ "open" \in S
      OBVIOUS
    <3> HIDE DEF S
    <3> QED BY <3>1, Appended
  <2> HIDE DEF verdict
  <2> QED BY <2>3, <2>4
<1>11. \A m \in DOMAIN verdict : verdict[m] \in {"rejected", "withdrawn"}
  BY <1>2, <1>6
<1>12. Promise!Ask(plan)
  BY <1>3, <1>4, <1>9, <1>10, <1>11 DEF Promise!Ask
<1> QED BY <1>12 DEF Refines, Promise!Next

(* A decision that is taken while the request it is for is the last and    *)
(* open is the verdict on it.                                              *)
LEMMA LastDecision ==
    ASSUME IInv, NEW d \in Asks, Pending(d), NEW n, n = Len(run.requests), decision[d].request = n,
           run.requests[n].end = "open"
    PROVE  /\ n \in Nat \ {0} /\ n \in 1..n /\ DOMAIN run.requests = 1..n
           /\ Owners(n) = {d} /\ Verdict(n) = "open" /\ LastEnd(run) = "open"
           /\ LastPlan(run) = run.requests[n].plan
<1>1. DecisionFits(d)
  BY DEF IInv, DecisionsFit
<1>2. n \in Nat /\ DOMAIN run.requests = 1..n
  BY RunTyped, LenProperties
<1>3. n \in 1..n
  BY <1>1, <1>2 DEF DecisionFits, Pending
<1>4. n \in Nat \ {0}
  BY <1>2, <1>3
<1>5. Owners(n) = {d}
  BY <1>4, OnlyOwner
<1>6. VerdictFits(n)
  BY Verdicts
<1>7. Verdict(n) = "open"
  BY <1>5, <1>6 DEF VerdictFits, Pending
<1>8. run.requests # <<>>
  BY <1>4, EmptySeq
<1> QED BY <1>2, <1>3, <1>4, <1>5, <1>7, <1>8 DEF LastEnd, LastPlan, Last

LEMMA VerdictTaken ==
    ASSUME IInv, NEW d \in Asks, Pending(d), NEW status \in {"rejected", "lapsed"},
           decision[d].request = Len(run.requests),
           run.requests[Len(run.requests)].end = "open",
           status = "lapsed" \/ Live(run),
           decision' = [decision EXCEPT ![d].status = status], UNCHANGED run
    PROVE  Refines
<1> PICK n : n = Len(run.requests)
  OBVIOUS
<1>1. /\ n \in Nat \ {0} /\ n \in 1..n /\ DOMAIN run.requests = 1..n
      /\ Owners(n) = {d} /\ Verdict(n) = "open" /\ LastEnd(run) = "open"
  BY LastDecision
<1>2. /\ decision'[d].status = status
      /\ \A e \in Asks : decision'[e].request = decision[e].request
      /\ \A e \in Asks : e # d => decision'[e] = decision[e]
  BY DEF IInv, TypeOK, Decisions
<1>3. \A m : Owners(m)' = Owners(m)
  BY <1>2 DEF Owners
<1>4. \A m \in 1..n : m # n => Verdict(m)' = Verdict(m)
  <2> SUFFICES ASSUME NEW m \in 1..n, m # n PROVE Verdict(m)' = Verdict(m)
    OBVIOUS
  <2>1. \A e \in Owners(m) : decision'[e] = decision[e]
    BY <1>2 DEF Owners
  <2> QED BY <1>3, <2>1, VerdictKept
<1>5. Verdict(n)' = status
  <2>1. VerdictFits(n)' /\ Owners(n)' = {d}
    BY <1>1, <1>3, Verdicts
  <2> QED BY <1>2, <2>1 DEF VerdictFits
<1>6. Live(run)' = Live(run) /\ LastEnd(run)' # "ready"
  BY <1>1 DEF Live, LastEnd
<1>7. Promise!Decide(status)
  BY <1>1, <1>4, <1>5, <1>6, RunTyped, DecisionStep
<1> QED BY <1>7 DEF Refines, Promise!Next

LEMMA LapsedRefines ==
    ASSUME IInv, NEW d \in Asks, Pending(d),
           decision' = [decision EXCEPT ![d].status = "lapsed"], UNCHANGED run
    PROVE  Refines
<1> PICK n : n = decision[d].request
  OBVIOUS
<1>1. DecisionFits(d) /\ n \in DOMAIN run.requests /\ run.requests[n].end \in {"open", "revised"}
  BY DEF IInv, DecisionsFit, DecisionFits, Pending
<1>2. CASE run.requests[n].end = "open"
  <2>1. n = Len(run.requests)
    BY <1>1, <1>2, RunTyped DEF RunFits
  <2> QED BY <1>2, <2>1, VerdictTaken
<1>3. CASE run.requests[n].end = "revised"
  <2>1. /\ \A e \in Asks : decision'[e].request = decision[e].request
        /\ \A e \in Asks : e # d => decision'[e] = decision[e]
    BY DEF IInv, TypeOK, Decisions
  <2>2. \A m : Owners(m)' = Owners(m)
    BY <2>1 DEF Owners
  <2>3. \A m : Verdict(m)' = Verdict(m)
    <3> SUFFICES ASSUME NEW m PROVE Verdict(m)' = Verdict(m)
      OBVIOUS
    <3>1. CASE m = n
      <4>1. VerdictFits(n) /\ VerdictFits(n)'
        BY Verdicts
      <4> QED BY <1>3, <3>1, <4>1 DEF VerdictFits
    <3>2. CASE m # n
      <4>1. \A e \in Owners(m) : decision'[e] = decision[e]
        BY <2>1, <3>2 DEF Owners
      <4> QED BY <2>2, <4>1, VerdictKept
    <3> QED BY <3>1, <3>2
  <2>4. Live(run)' = Live(run) /\ LastEnd(run)' = LastEnd(run) /\ LastPlan(run)' = LastPlan(run)
    BY DEF Live, LastEnd, LastPlan
  <2> QED BY <2>3, <2>4, SameVerdicts DEF Refines
<1> QED BY <1>1, <1>2, <1>3

LEMMA RaiseRefines ==
    ASSUME IInv, NEW p \in Procs, Raise(p)
    PROVE  Refines
<1> PICK n : n = Len(run.requests)
  OBVIOUS
<1>1. UNCHANGED run /\ AwaitsAnswer(run) /\ Owners(n) = {}
  BY RaiseGoes
<1> PICK d \in Asks : decision' = [decision EXCEPT ![d] = [status |-> "pending", request |-> n]]
  BY RaiseGoes
<1>2. decision[d].request = 0 /\ decision[d].status = "none"
  <2> PICK e \in Asks : decision[e] = NoDecision /\ decision'[e].status = "pending"
    <3>1. call[p].about \in Asks
      <4> PICK c \in Calls : c = call[p] /\ CallFits(c)
        BY CallIs
      <4> QED BY DEF Raise, CallFits
    <3>2. decision'[call[p].about].status = "pending"
      BY <3>1 DEF Raise, Raised, IInv, TypeOK, Decisions
    <3> QED BY <3>1, <3>2 DEF Raise
  <2>1. e # d => decision'[e] = decision[e]
    BY DEF IInv, TypeOK, Decisions
  <2> QED BY <2>1 DEF NoDecision
<1>3. n \in Nat \ {0} /\ DOMAIN run.requests = 1..n /\ run.requests[n].end = "open" /\ LastEnd(run) = "open"
  BY <1>1, OpenRequest
<1>4. /\ decision'[d] = [status |-> "pending", request |-> n]
      /\ \A e \in Asks : e # d => decision'[e] = decision[e]
  BY DEF IInv, TypeOK, Decisions
<1>5. Owners(n)' = {d}
  BY <1>1, <1>4 DEF Owners
<1>6. \A m \in 1..n : m # n => Owners(m)' = Owners(m) /\ \A e \in Owners(m) : decision'[e] = decision[e]
  <2> SUFFICES ASSUME NEW m \in 1..n, m # n
               PROVE  Owners(m)' = Owners(m) /\ \A e \in Owners(m) : decision'[e] = decision[e]
    OBVIOUS
  <2>1. m # 0
    OBVIOUS
  <2> QED BY <1>2, <1>4, <2>1 DEF Owners
<1>7. \A m \in 1..n : Verdict(m)' = Verdict(m)
  <2> SUFFICES ASSUME NEW m \in 1..n PROVE Verdict(m)' = Verdict(m)
    OBVIOUS
  <2>1. CASE m = n
    <3>1. VerdictFits(n) /\ VerdictFits(n)'
      BY Verdicts
    <3>2. Verdict(n) = "open" /\ Verdict(n)' = "open"
      BY <1>1, <1>3, <1>4, <1>5, <3>1 DEF VerdictFits
    <3> QED BY <2>1, <3>2
  <2>2. CASE m # n
    BY <1>1, <1>6, <2>2, VerdictKept
  <2> QED BY <2>1, <2>2
<1>8. Live(run)' = Live(run) /\ LastEnd(run)' = LastEnd(run) /\ LastPlan(run)' = LastPlan(run)
  BY <1>1 DEF Live, LastEnd, LastPlan
<1> QED BY <1>1, <1>3, <1>7, <1>8, SameVerdicts DEF Refines

(* The answers of the run: a revision is the verdict on its request, and a *)
(* rejection follows the one that was decided.                             *)
LEMMA AnswerRefines ==
    ASSUME IInv, NEW d \in Asks, AwaitsAnswer(run), decision[d].request = Len(run.requests),
           NEW stage, NEW end, run' = Answered(run, stage, end),
           \/ /\ stage = "planning" /\ end = "revised" /\ Pending(d) /\ decision' = decision
           \/ /\ stage = "planning" /\ end = "rejected"
              /\ decision[d].status = "rejected" /\ decision' = decision
           \/ /\ stage = "approved_and_ready_for_execution" /\ end = "ready" /\ Pending(d)
              /\ decision' = [decision EXCEPT ![d].status = "accepted"]
    PROVE  Refines
<1> PICK n : n = Len(run.requests)
  OBVIOUS
<1>1. AnsweredAs(n, stage, end)
  BY AnsweredFacts
<1>2. /\ n \in Nat \ {0} /\ DOMAIN run.requests = 1..n /\ run.requests[n].end = "open"
      /\ DOMAIN run'.requests = 1..n
      /\ \A m \in 1..n : m # n => run'.requests[m] = run.requests[m]
      /\ \A m \in 1..n : run'.requests[m].plan = run.requests[m].plan
      /\ run'.requests[n].end = end
      /\ LastEnd(run)' = end /\ LastPlan(run)' = run.requests[n].plan
  BY <1>1 DEF AnsweredAs
<1>3. Live(run) /\ Live(run)' /\ LastEnd(run) = "open"
  BY <1>1, OpenRequest DEF AnsweredAs, Live
<1>4. \A e \in Asks : decision'[e].request = decision[e].request /\ (e # d => decision'[e] = decision[e])
  BY DEF IInv, TypeOK, Decisions
<1>5. Owners(n) = {d} /\ \A m : Owners(m)' = Owners(m)
  BY <1>2, <1>4, OnlyOwner DEF Owners
<1>6. \A m \in 1..n : m # n => Verdict(m)' = Verdict(m)
  <2> SUFFICES ASSUME NEW m \in 1..n, m # n PROVE Verdict(m)' = Verdict(m)
    OBVIOUS
  <2>1. \A e \in Owners(m) : decision'[e] = decision[e]
    BY <1>4 DEF Owners
  <2> QED BY <1>2, <1>5, <2>1, VerdictKept
<1>7. /\ VerdictFits(n) /\ VerdictFits(n)' /\ Owners(n)' = {d}
  BY <1>5, Verdicts
<1>8. CASE end = "revised"
  <2>1. Verdict(n) = "open" /\ Verdict(n)' = "withdrawn"
    BY <1>2, <1>5, <1>7, <1>8 DEF VerdictFits, Pending
  <2>2. Promise!Decide("withdrawn")
    BY <1>2, <1>3, <1>6, <1>8, <2>1, RunTyped, DecisionStep
  <2> QED BY <2>2 DEF Refines, Promise!Next
<1>9. CASE end = "rejected"
  <2>1. Verdict(n) = "rejected" /\ Verdict(n)' = "rejected"
    BY <1>2, <1>5, <1>7, <1>9 DEF VerdictFits
  <2>2. \A m \in DOMAIN run.requests : Verdict(m)' = Verdict(m)
    BY <1>2, <1>6, <2>1
  <2> QED BY <1>2, <1>3, <1>9, <2>2, SameVerdicts DEF Refines
<1>10. CASE end = "ready"
  <2>1. decision'[d].status = "accepted"
    BY <1>10 DEF IInv, TypeOK, Decisions
  <2>2. Verdict(n) = "open" /\ Verdict(n)' = "accepted"
    BY <1>2, <1>5, <1>7, <1>10, <2>1 DEF VerdictFits, Pending
  <2>3. Promise!Decide("accepted")
    BY <1>2, <1>3, <1>6, <1>10, <2>2, RunTyped, DecisionStep
  <2> QED BY <2>3 DEF Refines, Promise!Next
<1> QED BY <1>8, <1>9, <1>10

-----------------------------------------------------------------------------
(* All the steps                                                           *)
Holds == IInv' /\ Refines /\ \A a \in admitted' \ admitted : NothingPendingOver(a)

LEMMA InitHolds ==
    ASSUME Init
    PROVE  IInv /\ Promise!Init
<1>1. /\ run = [lifecycle |-> "analyzing", from |-> "none", requests |-> <<>>, fresh |-> FALSE, service |-> 1]
      /\ planning = NoPlanning /\ admitted = {} /\ used = {}
      /\ decision = [d \in Decisions |-> NoDecision]
      /\ index = [revision |-> 0, pending |-> {}]
      /\ call = [p \in Procs |-> NoCall]
  BY DEF Init, AcceptedRun
<1>2. DOMAIN run.requests = {} /\ run.requests \in Seq(Request)
  BY <1>1
<1>3. TypeOK
  BY <1>1, <1>2, IdleCall DEF TypeOK, Views, Lifecycles, NoDecision
<1>4. RunFits /\ OneOwner /\ Indexed /\ LastEnd(run) = "none"
  BY <1>1, <1>2 DEF RunFits, OneOwner, Indexed, LastEnd, Decisions, NoDecision, Pending
<1>5. DecisionsFit
  BY <1>1 DEF DecisionsFit, DecisionFits, Decisions, NoDecision
<1>6. RejectionsAreBacked
  BY <1>1, <1>2 DEF RejectionsAreBacked, NoPlanning
<1>7. CallsFit
  BY <1>1 DEF CallsFit, CallFits, NoCall
<1>8. Promise!Init
  <2>1. [n \in DOMAIN run.requests |-> run.requests[n].plan] = <<>>
    BY <1>2
  <2>2. [n \in DOMAIN run.requests |-> Verdict(n)] = <<>>
    BY <1>2
  <2>3. Live(run)
    BY <1>1 DEF Live
  <2> QED BY <1>4, <2>1, <2>2, <2>3 DEF Promise!Init
<1> QED BY <1>3, <1>4, <1>5, <1>6, <1>7, <1>8 DEF IInv

LEMMA PlanningHolds ==
    ASSUME IInv, NEW p \in Procs, Planning(p)
    PROVE  Holds
<1>1. admitted' = admitted
  BY DEF Planning, BeginPropose, BeginRevise, Reject, ReconcileRejected, Revise, Withdraw, WithdrawRejected,
         AppendPlan, Ask, Raise, ReadRejected, RecordOnRun, RecordOnPlan, Leave, SameAttention
<1>2. SUFFICES IInv' /\ Refines
  BY <1>1 DEF Holds
<1>3. ASSUME NEW k \in Asks, BeginPropose(p, k)
      PROVE  IInv' /\ Refines
  BY <1>3, BeginProposeGoes, QuietStep
<1>4. ASSUME NEW k \in Asks, BeginRevise(p, k)
      PROVE  IInv' /\ Refines
  BY <1>4, BeginReviseGoes, QuietStep
<1>5. ASSUME NEW k \in Asks, Reject(p, k)
      PROVE  IInv' /\ Refines
  <2>1. /\ IInv' /\ UNCHANGED run /\ Pending(k) /\ Current(k)
        /\ decision' = [decision EXCEPT ![k].status = "rejected"]
    BY <1>5, RejectGoes
  <2>2. AwaitsAnswer(run) /\ decision[k].request = Len(run.requests)
    BY <2>1 DEF Current
  <2>3. Live(run) /\ run.requests[Len(run.requests)].end = "open"
    BY <2>2, OpenRequest DEF AwaitsAnswer, Live
  <2> QED BY <2>1, <2>2, <2>3, VerdictTaken
<1>6. ASSUME NEW k \in Asks, ReconcileRejected(p, k)
      PROVE  IInv' /\ Refines
  BY <1>6, ReconcileRejectedGoes, QuietStep
<1>7. CASE Revise(p)
  BY <1>7, ReviseGoes, QuietStep
<1>8. CASE Withdraw(p)
  <2>1. IInv' /\ UNCHANGED decision /\ AwaitsAnswer(run) /\ run' = Answered(run, "planning", "revised")
    BY <1>8, WithdrawGoes DEF Withdrawn
  <2> PICK d \in Asks : Pending(d) /\ decision[d].request = Len(run.requests)
    BY <1>8, WithdrawGoes
  <2> QED BY <2>1, AnswerRefines
<1>9. CASE WithdrawRejected(p)
  BY <1>9, WithdrawRejectedGoes, QuietStep
<1>10. CASE AppendPlan(p)
  BY <1>10, AppendPlanGoes, QuietStep
<1>11. CASE Ask(p)
  BY <1>11, AskGoes, AskRefines, QuietStep
<1>12. CASE Raise(p)
  BY <1>12, RaiseGoes, RaiseRefines
<1>13. CASE ReadRejected(p)
  BY <1>13, ReadRejectedGoes, QuietStep
<1>14. CASE RecordOnRun(p)
  <2>1. IInv' /\ UNCHANGED decision
    BY <1>14, RecordOnRunGoes
  <2>2. CASE UNCHANGED run
    BY <2>1, <2>2, QuietStep
  <2>3. ASSUME AwaitsAnswer(run), run' = Declined(run),
               NEW d \in Asks, decision[d].status = "rejected", decision[d].request = Len(run.requests)
        PROVE  Refines
    <3>1. run' = Answered(run, "planning", "rejected")
      BY <2>3 DEF Declined
    <3> QED BY <2>1, <2>3, <3>1, AnswerRefines
  <2> QED BY <1>14, <2>1, <2>2, <2>3, RecordOnRunGoes
<1>15. CASE RecordOnPlan(p)
  BY <1>15, RecordOnPlanGoes, QuietStep
<1>16. CASE Leave(p)
  BY <1>16, LeaveGoes, QuietStep
<1> QED BY <1>3, <1>4, <1>5, <1>6, <1>7, <1>8, <1>9, <1>10, <1>11, <1>12, <1>13, <1>14, <1>15, <1>16
        DEF Planning

LEMMA AttentionHolds ==
    ASSUME IInv, Attention
    PROVE  Holds
<1>1. ASSUME NEW d \in Asks, AcceptApproval(d)
      PROVE  Holds
  <2>1. /\ IInv' /\ Pending(d) /\ Current(d) /\ run' = Answered(run, "approved_and_ready_for_execution", "ready")
        /\ decision' = [decision EXCEPT ![d].status = "accepted"] /\ admitted' = admitted
    BY <1>1, AcceptApprovalGoes DEF Readied, AcceptApproval
  <2> QED BY <2>1, AnswerRefines DEF Current, Holds
<1>2. ASSUME NEW d \in Asks, MarkStale(d) \/ Expire(d)
      PROVE  Holds
  <2>1. Resolved(d, "lapsed") /\ UNCHANGED <<run, planning, admitted, used, call>> /\ d \in Decisions
    BY <1>2 DEF MarkStale, Expire, Decisions
  <2>2. IInv' /\ UNCHANGED run /\ Pending(d) /\ decision' = [decision EXCEPT ![d].status = "lapsed"]
    BY <2>1, SettledGoes
  <2> QED BY <2>1, <2>2, LapsedRefines DEF Holds
<1>3. ASSUME NEW q \in Questions, RequestQuestion(q) \/ AnswerQuestion(q)
      PROVE  Holds
  <2>1. q \in Decisions /\ \A d \in Asks : d # q /\ d \in Decisions
    BY ApprovalAssumption DEF Decisions
  <2>2. decision \in [Decisions -> [status : {"none", "pending", "accepted", "rejected", "declined", "lapsed"},
                                    request : Nat]]
    BY DEF IInv, TypeOK
  <2>3. CASE RequestQuestion(q)
    <3>1. /\ IInv' /\ UNCHANGED run /\ admitted' = admitted
          /\ decision' = [decision EXCEPT ![q] = [status |-> "pending", request |-> 0]]
      BY <2>3, RequestQuestionGoes DEF RequestQuestion
    <3>2. Live(run)' = Live(run) /\ \A d \in Asks : decision'[d] = decision[d]
      BY <2>1, <2>2, <3>1 DEF Live
    <3> QED BY <3>1, <3>2, SilentStep DEF Holds, Refines
  <2>4. CASE AnswerQuestion(q)
    <3>1. PICK status \in {"accepted", "declined"} :
              Resolved(q, status) /\ UNCHANGED <<run, planning, admitted, used, call>>
      BY <2>4 DEF AnswerQuestion
    <3>2. IInv' /\ UNCHANGED run /\ decision' = [decision EXCEPT ![q].status = status]
      BY <2>1, <3>1, SettledGoes
    <3>3. Live(run)' = Live(run) /\ \A d \in Asks : decision'[d] = decision[d]
      BY <2>1, <2>2, <3>2 DEF Live
    <3> QED BY <3>1, <3>2, <3>3, SilentStep DEF Holds, Refines
  <2> QED BY <1>3, <2>3, <2>4
<1>4. ASSUME NEW p \in Procs, Admit(p)
      PROVE  Holds
  BY <1>4, AdmitGoes, QuietStep DEF Holds
<1>5. ASSUME NEW p \in Procs, NEW a \in Admissions, BeginAdmit(p, a)
      PROVE  Holds
  <2>1. admitted' = admitted
    BY <1>5 DEF BeginAdmit, SameAttention
  <2> QED BY <1>5, <2>1, BeginAdmitGoes, QuietStep DEF Holds
<1> QED BY <1>1, <1>2, <1>3, <1>4, <1>5 DEF Attention

LEMMA RunCommandsHold ==
    ASSUME IInv, RunCommands
    PROVE  Holds
<1>1. admitted' = admitted
  BY DEF RunCommands, Wait, Resume, CompleteAnalysis, EndRun, Restart, SameAttention
<1>2. CASE Wait \/ Resume \/ CompleteAnalysis \/ Restart
  <2>1. IInv' /\ UNCHANGED <<run.requests, decision, Live(run)>>
    BY <1>2, WaitGoes, ResumeGoes, CompleteAnalysisGoes, RestartGoes
  <2>2. UNCHANGED Promise!vars
    BY <2>1, SilentStep
  <2> QED BY <1>1, <2>1, <2>2 DEF Holds, Refines
<1>3. CASE EndRun
  <2>1. IInv' /\ UNCHANGED <<run.requests, decision>> /\ Live(run) /\ ~Live(run)'
    BY <1>3, EndRunGoes
  <2>2. \A n : Owners(n)' = Owners(n)
    BY <2>1 DEF Owners
  <2>3. \A n : Verdict(n)' = Verdict(n)
    BY <2>1, <2>2, VerdictKept
  <2>4. [n \in DOMAIN run.requests |-> Verdict(n)]' = [n \in DOMAIN run.requests |-> Verdict(n)]
    BY <2>1, <2>3
  <2>5. [n \in DOMAIN run.requests |-> run.requests[n].plan]' = [n \in DOMAIN run.requests |-> run.requests[n].plan]
    BY <2>1
  <2>6. LastEnd(run)' = LastEnd(run) /\ LastPlan(run)' = LastPlan(run)
    BY <2>1 DEF LastEnd, LastPlan
  <2>7. Promise!End
    BY <2>1, <2>4, <2>5, <2>6 DEF Promise!End
  <2> QED BY <1>1, <2>1, <2>7 DEF Holds, Refines, Promise!Next
<1> QED BY <1>2, <1>3 DEF RunCommands

LEMMA StepHolds ==
    ASSUME IInv, [Next]_vars
    PROVE  Holds
<1>1. CASE Next
  BY <1>1, PlanningHolds, AttentionHolds, RunCommandsHold DEF Next
<1>2. CASE UNCHANGED vars
  <2>1. UNCHANGED <<run, planning, decision, index, admitted, used, call>>
    BY <1>2 DEF vars
  <2>2. Kept /\ TypeOK /\ DecisionsFit /\ CallsFit
    BY <2>1 DEF Kept, IInv
  <2>3. CallsFit'
    BY <2>1, <2>2, CallsUnchanged
  <2>4. TypeOK'
    BY <2>1, <2>2 DEF TypeOK
  <2>5. RunFits' /\ DecisionsFit' /\ OneOwner'
    BY <2>1 DEF IInv, RunFits, DecisionsFit, DecisionFits, OneOwner, LastEnd
  <2>6. RejectionsAreBacked' /\ Indexed'
    BY <2>1 DEF IInv, RejectionsAreBacked, Indexed, Owners, Digest, Pending
  <2> QED BY <2>1, <2>3, <2>4, <2>5, <2>6, QuietStep DEF Holds, IInv
<1> QED BY <1>1, <1>2

-----------------------------------------------------------------------------
(* The streams of the run, of its plan and of its decisions, the index and *)
(* what every call has read fit together, whoever proposes, answers,       *)
(* expires, restarts or gives up in between.                               *)
THEOREM ApprovalInvariance == Spec => []IInv
<1>1. Init => IInv
  BY InitHolds
<1>2. IInv /\ [Next]_vars => IInv'
  BY StepHolds DEF Holds
<1> QED BY <1>1, <1>2, PTL DEF Spec

(* A rejection is shown by no stream before the one it comes from shows    *)
(* it, for any calls that are cut short or repeated.                       *)
THEOREM RejectionsAlwaysBacked == Spec => []RejectionsAreBacked
<1>1. IInv => RejectionsAreBacked
  BY DEF IInv
<1> QED BY <1>1, ApprovalInvariance, PTL

(* No callback is admitted while a decision it depends on is pending in    *)
(* its own stream: the version of the index is what makes the look before  *)
(* the append good for the append.                                         *)
THEOREM AdmissionsWait == Spec => NoAdmissionOverPending
<1>1. IInv /\ [Next]_vars =>
          [\A a \in admitted' \ admitted : \A d \in Decisions :
               Pending(d) => Touches[d] \intersect Considers[a] = {}]_vars
  BY StepHolds DEF Holds, NothingPendingOver
<1> QED BY <1>1, ApprovalInvariance, PTL DEF Spec, NoAdmissionOverPending

(* The approval is exact: one verdict per request, which stays, and a run  *)
(* that is ready only by the acceptance of its latest request.             *)
THEOREM ApprovalIsExact == Spec => ImplementsExactApproval
<1>1. Init => Promise!Init
  BY InitHolds
<1>2. IInv /\ [Next]_vars => [Promise!Next]_Promise!vars
  BY StepHolds DEF Holds, Refines
<1> QED BY <1>1, <1>2, ApprovalInvariance, PTL DEF Spec, ImplementsExactApproval, Promise!Spec

-----------------------------------------------------------------------------

(* MultiWriter.                                                            *)

(* The states of planned tasks, task streams, runs and executions, with    *)
(* those that only a step of its own tells apart from others.              *)
TaskStages == {"planned", "ready", "running", "completed", "failed"}
StreamStages == {"none", "working", "awaiting", "dispatched", "completed", "failed",
            "unsure", "unsureReview"}
RunPlaces == {"idle", "pass", "again", "resume", "waiting", "granted", "admit", "start", "wave"}
ExecPlaces == {"none", "called", "writing", "handoff", "handed", "admitted", "arrived",
               "resuming", "reviewing", "returned", "rejected", "failing", "settled", "dealt"}

(* Types, of the streams and of all.                                       *)
DurableOK ==
    /\ life \in [Milestones -> {"open", "paused"}]
    /\ task \in [Writers -> TaskStages]
    /\ review \in [Writers -> TaskStages]
    /\ claim \in [Writers -> {"none", "claimed", "integrated", "released"}]
    /\ stream \in [Writers -> StreamStages]
WritersTypeOK ==
    /\ DurableOK
    /\ active \in SUBSET Writers
    /\ queue \in Seq(Milestones)
    /\ pc \in [Milestones -> RunPlaces]
    /\ pending \in [Milestones -> SUBSET Writers]
    /\ todo \in [Milestones -> SUBSET Writers]
    /\ wave \in [Milestones -> SUBSET Writers]
    /\ resumed \in [Milestones -> BOOLEAN]
    /\ held \in [Milestones -> SUBSET Writers]
    /\ exec \in [Writers -> ExecPlaces]
    /\ launched \in SUBSET Writers
    /\ runs \in [Milestones -> Nat]
    /\ troubles \in Nat

(* A milestone waits in the queue once, and only there.                    *)
Waits(q, at) ==
    /\ \A m \in Milestones : at[m] = "waiting" <=> \E i \in DOMAIN q : q[i] = m
    /\ \A i, j \in DOMAIN q : q[i] = q[j] => i = j
QueueFits == Waits(queue, pc)

(* A run without a permit holds nothing. What a permit holds is active and *)
(* of the run's wave, all of it until the wave is called.                  *)
Empty == {"idle", "pass", "again", "resume", "waiting"}
Granted == {"granted", "admit", "start"}
SharesFit(m) ==
    /\ pending[m] \subseteq Of(m) /\ todo[m] \subseteq Of(m) /\ wave[m] \subseteq Of(m)
    /\ held[m] \subseteq wave[m] /\ held[m] \subseteq active
    /\ pc[m] \in Empty => held[m] = {}
    /\ pc[m] \in Granted => wave[m] \subseteq held[m]
(* A wave that starts is claimed as a whole, and nobody in it has been     *)
(* called.                                                                 *)
WaveFits(m) == \A w \in wave[m] :
    /\ pc[m] = "start" \/ (pc[m] = "admit" /\ resumed[m]) => claim[w] = "claimed"
    /\ pc[m] \in {"admit", "start"} => w \notin launched

(* An execution belongs to the wave of its milestone, or is the one that   *)
(* the run resumes alone; as long as it writes, it holds its slot.         *)
Dispatching == {"called", "writing", "handoff"}
ExecFits(m, w) ==
    /\ exec[w] # "none" => pc[m] = "resume" \/ (pc[m] = "wave" /\ w \in wave[m])
    /\ exec[w] \in Dispatching => w \in held[m]
    /\ pc[m] = "resume" /\ exec[w] # "none" => \A v \in Of(m) \ {w} : exec[v] = "none"
(* The writer is in the plan of a milestone.                               *)
Planned(w) == \E m \in Milestones : w \in Of(m)

(* What an execution and a claim of a writer say about its tasks and about *)
(* the reviews it depends on.                                              *)
ClaimFits(w) ==
    /\ ~Planned(w) => exec[w] = "none"
    /\ exec[w] \notin {"none", "settled", "dealt"} => claim[w] = "claimed"
    /\ claim[w] # "none" => \A d \in DependsOnReview[w] : claim[d] = "integrated"
    /\ claim[w] = "integrated" <=> review[w] = "completed"
    /\ w \in launched => task[w] \notin {"planned", "ready"}

WritersInv ==
    /\ WritersTypeOK
    /\ WithinLimits(active) /\ QueueFits /\ HeadDoesNotFit
    /\ \A m \in Milestones : SharesFit(m) /\ WaveFits(m) /\ \A w \in Of(m) : ExecFits(m, w)
    /\ \A w \in Writers : ClaimFits(w)

-----------------------------------------------------------------------------
(* The arithmetic of the governor.                                         *)
LEMMA OfModel ==
    ASSUME NEW S \in SUBSET Writers, NEW T \in SUBSET Writers, NEW x \in Models
    PROVE  /\ IsFiniteSet(S) /\ IsFiniteSet(OnModel(S, x))
           /\ Cardinality(S) \in Nat /\ Cardinality(OnModel(S, x)) \in Nat
           /\ OnModel(S, x) \subseteq S
           /\ OnModel(S \union T, x) = OnModel(S, x) \union OnModel(T, x)
<1>1. IsFiniteSet(S)
  BY FS_Subset, GovernorAssumption
<1>2. OnModel(S, x) \in SUBSET S
  BY DEF OnModel
<1>3. IsFiniteSet(OnModel(S, x))
  BY <1>1, <1>2, FS_Subset
<1>4. OnModel(S \union T, x) = OnModel(S, x) \union OnModel(T, x)
  BY DEF OnModel
<1> QED BY <1>1, <1>2, <1>3, <1>4, FS_CardinalityType

(* Two sets together have at most as many members as the two counts say.   *)
LEMMA UnionAtMost ==
    ASSUME NEW S, IsFiniteSet(S), NEW T, IsFiniteSet(T)
    PROVE  Cardinality(S \union T) <= Cardinality(S) + Cardinality(T)
<1>1. IsFiniteSet(S \intersect T) /\ Cardinality(S \intersect T) \in Nat
  BY FS_Intersection, FS_CardinalityType
<1>2. Cardinality(S) \in Nat /\ Cardinality(T) \in Nat
  BY FS_CardinalityType
<1>3. Cardinality(S \union T) = Cardinality(S) + Cardinality(T) - Cardinality(S \intersect T)
  BY FS_Union
<1> QED BY <1>1, <1>2, <1>3

(* A wave that fits beside the active writers keeps the limits, although   *)
(* only the models of the wave are looked at.                              *)
LEMMA FitKeepsLimits ==
    ASSUME NEW act \in SUBSET Writers, NEW ws \in SUBSET Writers,
           WithinLimits(act), CanAcquire(act, ws)
    PROVE  WithinLimits(act \union ws)
<1> USE GovernorAssumption
<1>0. IsFiniteSet(act) /\ IsFiniteSet(ws)
  BY FS_Subset
<1>1. Cardinality(act \union ws) <= GlobalLimit
  <2>1. Cardinality(act \union ws) <= Cardinality(act) + Cardinality(ws)
    BY <1>0, UnionAtMost
  <2>2. Cardinality(act) \in Nat /\ Cardinality(ws) \in Nat /\ Cardinality(act \union ws) \in Nat
    BY <1>0, FS_Union, FS_CardinalityType
  <2> QED BY <2>1, <2>2 DEF CanAcquire
<1>2. ASSUME NEW x \in Models
      PROVE  Cardinality(OnModel(act \union ws, x)) <= ModelLimit[x]
  <2>1. /\ IsFiniteSet(OnModel(act, x)) /\ Cardinality(OnModel(act, x)) \in Nat
        /\ OnModel(act \union ws, x) = OnModel(act, x) \union OnModel(ws, x)
    BY OfModel
  <2>0. IsFiniteSet(OnModel(ws, x)) /\ Cardinality(OnModel(ws, x)) \in Nat
    BY OfModel
  <2>2. CASE x \in {ModelOf[w] : w \in ws}
    <3>1. Cardinality(OnModel(act, x)) + Cardinality(OnModel(ws, x)) <= ModelLimit[x]
      BY <2>2 DEF CanAcquire
    <3>2. Cardinality(OnModel(act \union ws, x))
            <= Cardinality(OnModel(act, x)) + Cardinality(OnModel(ws, x))
      BY <2>1, <2>0, UnionAtMost
    <3>3. Cardinality(OnModel(act \union ws, x)) \in Nat
      BY OfModel
    <3> QED BY <2>1, <2>0, <3>1, <3>2, <3>3
  <2>3. CASE x \notin {ModelOf[w] : w \in ws}
    <3>1. OnModel(ws, x) = {}
      BY <2>3 DEF OnModel
    <3> QED BY <2>1, <3>1 DEF WithinLimits
  <2> QED BY <2>2, <2>3
<1> QED BY <1>1, <1>2 DEF WithinLimits

(* Fewer writers keep the limits.                                          *)
LEMMA FewerKeepLimits ==
    ASSUME NEW act \in SUBSET Writers, NEW ws \in SUBSET act, WithinLimits(act)
    PROVE  WithinLimits(ws)
<1> USE GovernorAssumption
<1>1. Cardinality(ws) <= GlobalLimit
  <2>1. IsFiniteSet(act)
    BY OfModel, FS_Subset
  <2>2. Cardinality(ws) <= Cardinality(act) /\ Cardinality(ws) \in Nat /\ Cardinality(act) \in Nat
    BY <2>1, FS_Subset, FS_CardinalityType
  <2> QED BY <2>2 DEF WithinLimits
<1>2. ASSUME NEW x \in Models
      PROVE  Cardinality(OnModel(ws, x)) <= ModelLimit[x]
  <2>1. OnModel(ws, x) \in SUBSET OnModel(act, x)
    BY DEF OnModel
  <2>2. IsFiniteSet(OnModel(act, x)) /\ Cardinality(OnModel(act, x)) \in Nat
    BY OfModel
  <2>3. Cardinality(OnModel(ws, x)) <= Cardinality(OnModel(act, x)) /\ Cardinality(OnModel(ws, x)) \in Nat
    BY <2>1, <2>2, FS_Subset, FS_CardinalityType
  <2> QED BY <2>2, <2>3 DEF WithinLimits
<1> QED BY <1>1, <1>2 DEF WithinLimits

(* The least member of a set of numbers.                                   *)
LEMMA LeastMember ==
    ASSUME NEW S \in SUBSET Nat, S # {}
    PROVE  \E x \in S : \A y \in S : x <= y
<1> DEFINE R == {ab \in Nat \X Nat : ab[1] < ab[2]}
<1>1. IsWellFoundedOn(R, Nat)
  BY NatLessThanWellFounded DEF OpToRel
<1>2. PICK x \in S : \A y \in S : ~(<<y, x>> \in R)
  <2> HIDE DEF R
  <2> QED BY <1>1, WFMin
<1>3. ASSUME NEW y \in S PROVE x <= y
  <2>1. ~(y < x) /\ x \in Nat /\ y \in Nat
    BY <1>2
  <2> QED BY <2>1
<1> QED BY <1>3

(* drain(): the waves that are granted are the longest prefix of the queue *)
(* of which each fits in turn.                                             *)
LEMMA DrainedPrefix ==
    ASSUME NEW act \in SUBSET Writers, NEW q \in Seq(SUBSET Writers)
    PROVE  /\ Drained(act, q) \in 0..Len(q)
           /\ \A n \in 1..Drained(act, q) : CanAcquire(act \union Taken(q, n - 1), q[n])
           /\ Drained(act, q) < Len(q) =>
                ~CanAcquire(act \union Taken(q, Drained(act, q)), q[Drained(act, q) + 1])
<1> DEFINE Fit(n) == CanAcquire(act \union Taken(q, n - 1), q[n])
           D == {n \in 1..Len(q) : \A i \in 1..n : Fit(i)}
           Out == (1..Len(q)) \ D
<1>0. Drained(act, q) = Cardinality(D)
  BY DEF Drained
<1>1. PICK len \in Nat : len = Len(q)
  BY LenProperties
<1>2. \E k \in 0..len : D = 1..k /\ (k < len => ~Fit(k + 1))
  <2> HIDE DEF Fit
  <2>1. CASE Out = {}
    <3>1. D = 1..len
      BY <1>1, <2>1
    <3> QED BY <1>1, <3>1
  <2>2. CASE Out # {}
    <3>1. PICK x \in Out : \A y \in Out : x <= y
      <4>1. Out \in SUBSET Nat
        BY <1>1
      <4> HIDE DEF Out
      <4> QED BY <2>2, <4>1, LeastMember
    <3>2. x \in Nat /\ 1 <= x /\ x <= len /\ x - 1 \in 0..len
      BY <1>1, <3>1
    <3>3. \A n \in 1..(x - 1) : n \in D
      BY <1>1, <3>1, <3>2
    <3>4. \A n \in D : n \in Nat /\ n < x
      <4> SUFFICES ASSUME NEW n \in D, x <= n PROVE FALSE
        BY <1>1, <3>2
      <4>1. \A i \in 1..x : i \in 1..n
        BY <1>1, <3>2
      <4>2. x \in D
        BY <1>1, <3>2, <4>1
      <4> QED BY <3>1, <4>2
    <3>5. D = 1..(x - 1)
      BY <1>1, <3>2, <3>3, <3>4
    <3>6. ~Fit(x)
      <4> SUFFICES ASSUME Fit(x) PROVE FALSE
        OBVIOUS
      <4>1. \A i \in 1..x : Fit(i)
        <5> SUFFICES ASSUME NEW i \in 1..x PROVE Fit(i)
          OBVIOUS
        <5>1. CASE i = x
          BY <5>1
        <5>2. CASE i # x
          <6>1. i \in D
            BY <3>2, <3>3, <5>2
          <6>2. i \in 1..i
            BY <3>2
          <6> QED BY <6>1, <6>2
        <5> QED BY <5>1, <5>2
      <4>2. x \in D
        BY <1>1, <3>2, <4>1
      <4> QED BY <3>1, <4>2
    <3>7. (x - 1) + 1 = x
      BY <3>2
    <3> QED BY <3>2, <3>5, <3>6, <3>7
  <2> QED BY <2>1, <2>2
<1>3. PICK k \in 0..len : D = 1..k /\ (k < len => ~Fit(k + 1))
  BY <1>2
<1>4. Cardinality(D) = k
  <2> HIDE DEF D
  <2>1. k \in Int /\ 1 \in Int
    BY <1>3
  <2>2. Cardinality(1..k) = IF 1 > k THEN 0 ELSE k - 1 + 1
    BY <2>1, FS_Interval
  <2> QED BY <1>3, <2>2
<1>5. \A n \in 1..k : Fit(n)
  <2> SUFFICES ASSUME NEW n \in 1..k PROVE Fit(n)
    OBVIOUS
  <2>1. n \in D
    BY <1>3
  <2>2. n \in 1..n
    BY <1>3
  <2> HIDE DEF Fit
  <2> QED BY <2>1, <2>2
<1>6. (k + 1) - 1 = k
  BY <1>3
<1> HIDE DEF D
<1> QED BY <1>0, <1>1, <1>3, <1>4, <1>5, <1>6

(* The waves that are granted keep the limits.                             *)
LEMMA TakenKeepsLimits ==
    ASSUME NEW act \in SUBSET Writers, NEW q \in Seq(SUBSET Writers), WithinLimits(act)
    PROVE  WithinLimits(act \union Taken(q, Drained(act, q)))
<1> DEFINE k == Drained(act, q)
           Bad == {n \in 0..k : ~WithinLimits(act \union Taken(q, n))}
<1>1. /\ k \in Nat /\ k \in 0..Len(q)
      /\ \A n \in 1..k : CanAcquire(act \union Taken(q, n - 1), q[n])
  <2>1. Len(q) \in Nat
    BY LenProperties
  <2>2. /\ Drained(act, q) \in 0..Len(q)
        /\ \A n \in 1..Drained(act, q) : CanAcquire(act \union Taken(q, n - 1), q[n])
    BY DrainedPrefix
  <2>3. \A i \in 0..Len(q) : i \in Nat
    BY <2>1
  <2> QED BY <2>2, <2>3
<1> HIDE DEF k
<1>2. SUFFICES ASSUME Bad # {} PROVE FALSE
  <2>1. k \in 0..k
    BY <1>1
  <2> QED BY <2>1 DEF k
<1>3. PICK n \in Bad : \A y \in Bad : n <= y
  <2>1. Bad \in SUBSET Nat
    BY <1>1
  <2> HIDE DEF Bad
  <2> QED BY <1>2, <2>1, LeastMember
<1>4. n # 0
  <2>1. Taken(q, 0) = {}
    BY DEF Taken
  <2>2. act \union {} = act
    OBVIOUS
  <2> QED BY <1>3, <2>1, <2>2
<1>5. n \in Nat /\ n \in 1..k /\ n - 1 \in 0..k /\ ~(n <= n - 1)
  BY <1>1, <1>3, <1>4
<1>6. WithinLimits(act \union Taken(q, n - 1))
  BY <1>3, <1>5
<1>7. n \in 1..Len(q) /\ q[n] \in SUBSET Writers
  BY <1>1, <1>5
<1>8. Taken(q, n) = Taken(q, n - 1) \union q[n]
  <2>1. 1..n = 1..(n - 1) \union {n}
    BY <1>5
  <2> QED BY <2>1 DEF Taken
<1>9. act \union Taken(q, n - 1) \in SUBSET Writers
  <2>1. \A i \in 1..(n - 1) : i \in 1..Len(q)
    BY <1>1, <1>5
  <2>2. \A i \in 1..(n - 1) : q[i] \in SUBSET Writers
    BY <2>1
  <2> QED BY <2>2 DEF Taken
<1>10. WithinLimits((act \union Taken(q, n - 1)) \union q[n])
  BY <1>1, <1>5, <1>6, <1>7, <1>9, FitKeepsLimits
<1>11. (act \union Taken(q, n - 1)) \union q[n] = act \union Taken(q, n)
  BY <1>8
<1> QED BY <1>3, <1>10, <1>11

(* Govern, as a relation of the state before and after.                    *)
Grants(act, q, at, hold, waves, act2, q2, at2, hold2) ==
    LET n == Drained(act, [i \in DOMAIN q |-> waves[q[i]]])
        got == {q[i] : i \in 1..n}
    IN /\ act2 = act \union UNION {waves[m] : m \in got}
       /\ q2 = SubSeq(q, n + 1, Len(q))
       /\ at2 = [m \in Milestones |-> IF m \in got THEN "granted" ELSE at[m]]
       /\ hold2 = [m \in Milestones |-> IF m \in got THEN waves[m] ELSE hold[m]]

(* What every call of the governor leaves behind: the limits are kept, the *)
(* waves that are granted hold what they asked for, the others wait, and   *)
(* the first of these does not fit.                                        *)
LEMMA Governed ==
    ASSUME NEW act \in SUBSET Writers, NEW q \in Seq(Milestones),
           NEW at \in [Milestones -> RunPlaces],
           NEW hold \in [Milestones -> SUBSET Writers],
           NEW waves \in [Milestones -> SUBSET Writers],
           WithinLimits(act),
           Waits(q, at),
           NEW act2, NEW q2, NEW at2, NEW hold2,
           Grants(act, q, at, hold, waves, act2, q2, at2, hold2)
    PROVE  /\ act2 \in SUBSET Writers /\ act \subseteq act2 /\ WithinLimits(act2)
           /\ q2 \in Seq(Milestones) /\ Waits(q2, at2)
           /\ at2 \in [Milestones -> RunPlaces]
           /\ hold2 \in [Milestones -> SUBSET Writers]
           /\ \A m \in Milestones :
                \/ at2[m] = at[m] /\ hold2[m] = hold[m]
                \/ /\ at[m] = "waiting" /\ at2[m] = "granted"
                   /\ hold2[m] = waves[m] /\ waves[m] \subseteq act2
           /\ q2 # <<>> => ~CanAcquire(act2, waves[Head(q2)])
<1> DEFINE s == [i \in DOMAIN q |-> waves[q[i]]]
<1>w. /\ \A m \in Milestones : at[m] = "waiting" <=> \E i \in DOMAIN q : q[i] = m
      /\ \A i, j \in DOMAIN q : q[i] = q[j] => i = j
  BY DEF Waits
<1>0. PICK len \in Nat : len = Len(q) /\ DOMAIN q = 1..len
  BY LenProperties
<1>1. /\ s \in Seq(SUBSET Writers) /\ Len(s) = len
      /\ \A i \in 1..len : s[i] = waves[q[i]] /\ q[i] \in Milestones
  <2>1. \A i \in 1..len : q[i] \in Milestones
    BY <1>0
  <2>2. s = [i \in 1..len |-> waves[q[i]]]
    BY <1>0
  <2>3. \A i \in 1..len : waves[q[i]] \in SUBSET Writers
    BY <2>1
  <2>4. s \in [1..len -> SUBSET Writers]
    BY <2>2, <2>3
  <2>5. s \in Seq(SUBSET Writers)
    BY <2>4, SeqDef
  <2> HIDE DEF s
  <2>6. Len(s) = len
    BY <2>4, <2>5, LenProperties
  <2> QED BY <2>1, <2>2, <2>5, <2>6
<1>d. PICK n, got :
        /\ n = Drained(act, s) /\ got = {q[i] : i \in 1..n}
        /\ act2 = act \union UNION {waves[m] : m \in got}
        /\ q2 = SubSeq(q, n + 1, Len(q))
        /\ at2 = [m \in Milestones |-> IF m \in got THEN "granted" ELSE at[m]]
        /\ hold2 = [m \in Milestones |-> IF m \in got THEN waves[m] ELSE hold[m]]
  BY DEF Grants
<1> HIDE DEF s
<1>g. got = {q[i] : i \in 1..n}
  BY <1>d
<1>2. /\ n \in 0..len
      /\ WithinLimits(act \union Taken(s, n))
      /\ n < len => ~CanAcquire(act \union Taken(s, n), s[n + 1])
  <2>1. /\ n \in 0..Len(s)
        /\ n < Len(s) => ~CanAcquire(act \union Taken(s, n), s[n + 1])
    BY <1>1, <1>d, DrainedPrefix
  <2>2. WithinLimits(act \union Taken(s, n))
    BY <1>1, <1>d, TakenKeepsLimits
  <2> QED BY <1>1, <2>1, <2>2
<1>3. /\ act2 = act \union UNION {waves[m] : m \in got}
      /\ q2 = SubSeq(q, n + 1, Len(q))
      /\ at2 = [m \in Milestones |-> IF m \in got THEN "granted" ELSE at[m]]
      /\ hold2 = [m \in Milestones |-> IF m \in got THEN waves[m] ELSE hold[m]]
  BY <1>d
<1>4. UNION {waves[m] : m \in got} = Taken(s, n)
  <2>1. \A i \in 1..n : i \in 1..len
    BY <1>0, <1>2
  <2>2. \A i \in 1..n : s[i] = waves[q[i]]
    BY <1>1, <2>1
  <2> QED BY <1>g, <2>2 DEF Taken
<1>5. act2 = act \union Taken(s, n) /\ WithinLimits(act2) /\ act \subseteq act2
  BY <1>2, <1>3, <1>4
<1>6. \A i \in 1..n : i \in 1..len /\ q[i] \in Milestones
  BY <1>0, <1>1, <1>2
<1>7. act2 \in SUBSET Writers
  <2>1. \A m \in got : waves[m] \in SUBSET Writers
    BY <1>g, <1>6
  <2> QED BY <1>3, <2>1
<1>8. /\ at2 \in [Milestones -> RunPlaces] /\ hold2 \in [Milestones -> SUBSET Writers]
  BY <1>3 DEF RunPlaces
<1>9. PICK rest \in Nat : rest = len - n
  <2>1. len - n \in Nat
    BY <1>0, <1>2
  <2> QED BY <2>1
<1>10. /\ q2 \in Seq(Milestones) /\ Len(q2) = rest
       /\ DOMAIN q2 = 1..rest
       /\ \A i \in 1..rest : q2[i] = q[n + i] /\ n + i \in 1..len
  <2>1. n + 1 \in Int /\ len \in Int
    BY <1>0, <1>2
  <2>2. \A i \in (n + 1)..len : q[i] \in Milestones
    BY <1>1, <1>2
  <2>3. q2 = SubSeq(q, n + 1, len)
    BY <1>0, <1>3
  <2>4. /\ q2 \in Seq(Milestones)
        /\ Len(q2) = IF n + 1 <= len THEN len - (n + 1) + 1 ELSE 0
        /\ \A i \in 1..(len - (n + 1) + 1) : q2[i] = q[(n + 1) + i - 1]
    BY <2>1, <2>2, <2>3, SubSeqProperties
  <2>5. len - (n + 1) + 1 = rest /\ (~(n + 1 <= len) => rest = 0)
    BY <1>0, <1>2, <1>9
  <2>6. Len(q2) = rest
    BY <2>4, <2>5
  <2>7. \A i \in 1..rest : (n + 1) + i - 1 = n + i /\ n + i \in 1..len
    BY <1>0, <1>2, <1>9
  <2>8. \A i \in 1..rest : q2[i] = q[n + i]
    BY <2>4, <2>5, <2>7
  <2> QED BY <2>4, <2>6, <2>7, <2>8, LenProperties
<1>11. \A m \in Milestones :
         \/ at2[m] = at[m] /\ hold2[m] = hold[m]
         \/ /\ at[m] = "waiting" /\ at2[m] = "granted"
            /\ hold2[m] = waves[m] /\ waves[m] \subseteq act2
  <2> SUFFICES ASSUME NEW m \in Milestones, m \in got
               PROVE  /\ at[m] = "waiting" /\ at2[m] = "granted"
                      /\ hold2[m] = waves[m] /\ waves[m] \subseteq act2
    BY <1>3
  <2>1. PICK i \in 1..n : m = q[i]
    BY <1>g
  <2>2. at[m] = "waiting"
    BY <1>0, <1>6, <1>w, <2>1
  <2> QED BY <1>3, <2>2
<1>12. Waits(q2, at2)
  <2>1. ASSUME NEW i \in 1..rest PROVE q2[i] \notin got
    <3> SUFFICES ASSUME NEW j \in 1..n, q[j] = q2[i] PROVE FALSE
      BY <1>g
    <3>1. q[j] = q[n + i] /\ j \in DOMAIN q /\ n + i \in DOMAIN q
      BY <1>0, <1>6, <1>10
    <3>2. j = n + i
      BY <3>1, <1>w
    <3> QED BY <1>2, <1>9, <3>2
  <2>2. ASSUME NEW m \in Milestones, at2[m] = "waiting" PROVE \E i \in DOMAIN q2 : q2[i] = m
    <3>1. m \notin got /\ at[m] = "waiting"
      BY <1>3, <2>2
    <3>2. PICK i \in 1..len : q[i] = m
      BY <1>0, <1>w, <3>1
    <3>3. ~(i \in 1..n)
      BY <1>g, <3>1, <3>2
    <3>4. i - n \in 1..rest /\ n + (i - n) = i
      BY <1>0, <1>2, <1>9, <3>2, <3>3
    <3> QED BY <1>10, <3>2, <3>4
  <2>3. ASSUME NEW i \in DOMAIN q2 PROVE at2[q2[i]] = "waiting"
    <3>1. q2[i] \notin got /\ q2[i] = q[n + i] /\ n + i \in DOMAIN q
      BY <1>0, <1>10, <2>1
    <3>2. q[n + i] \in Milestones
      BY <1>0, <1>1, <3>1
    <3>3. at[q[n + i]] = "waiting"
      BY <1>w, <3>1, <3>2
    <3> QED BY <1>3, <3>1, <3>2, <3>3
  <2>4. ASSUME NEW i \in DOMAIN q2, NEW j \in DOMAIN q2, q2[i] = q2[j]
        PROVE  i = j
    <3>1. /\ i \in 1..rest /\ j \in 1..rest
          /\ q[n + i] = q[n + j] /\ n + i \in DOMAIN q /\ n + j \in DOMAIN q
      BY <1>0, <1>10, <2>4
    <3>2. n + i = n + j
      BY <1>w, <3>1
    <3> QED BY <1>2, <1>9, <3>1, <3>2
  <2> QED BY <2>2, <2>3, <2>4 DEF Waits
<1>13. ASSUME q2 # <<>> PROVE ~CanAcquire(act2, waves[Head(q2)])
  <2>1. rest # 0
    BY <1>10, <1>13
  <2>2. 1 \in 1..rest /\ n < len
    BY <1>0, <1>2, <1>9, <2>1
  <2>3. Head(q2) = q[n + 1] /\ n + 1 \in 1..len
    BY <1>10, <2>2
  <2>4. s[n + 1] = waves[Head(q2)]
    BY <1>1, <2>3
  <2> QED BY <1>2, <1>5, <2>2, <2>4
<1> QED BY <1>5, <1>7, <1>8, <1>10, <1>11, <1>12, <1>13

-----------------------------------------------------------------------------
(* Frames: what a step that concerns one milestone or one writer keeps of  *)
(* the others.                                                             *)
LEMMA PlanFacts ==
    /\ \A m \in Milestones : Of(m) \in SUBSET Writers
    /\ \A m, n \in Milestones : \A w \in Of(m) : w \in Of(n) => m = n
    /\ \A m \in Milestones : \A w \in Of(m) : MilestoneOf(w) = m
<1>1. ASSUME NEW m \in Milestones, NEW i \in DOMAIN Plan[m] PROVE Plan[m][i] \in Writers
  <2>1. Plan[m] \in Seq(Writers)
    BY PlanAssumption
  <2>2. i \in 1..Len(Plan[m])
    BY <2>1, LenProperties
  <2> QED BY <2>1, <2>2
<1>2. \A m \in Milestones : Of(m) \in SUBSET Writers
  BY <1>1 DEF Of
<1>3. \A m, n \in Milestones : \A w \in Of(m) : w \in Of(n) => m = n
  BY IdentityAssumption DEF Of
<1>4. ASSUME NEW m \in Milestones, NEW w \in Of(m) PROVE MilestoneOf(w) = m
  <2>1. MilestoneOf(w) \in Milestones /\ w \in Of(MilestoneOf(w))
    BY DEF MilestoneOf
  <2> QED BY <1>3, <2>1
<1> QED BY <1>2, <1>3, <1>4

(* A writer that is executed is planned, and in the wave its run calls or  *)
(* resumes.                                                                *)
LEMMA ActiveWriter ==
    ASSUME WritersInv, NEW w \in Writers, exec[w] # "none"
    PROVE  /\ MilestoneOf(w) \in Milestones /\ w \in Of(MilestoneOf(w))
           /\ \/ pc[MilestoneOf(w)] = "resume"
              \/ pc[MilestoneOf(w)] = "wave" /\ w \in wave[MilestoneOf(w)]
           /\ ExecFits(MilestoneOf(w), w)
<1>1. PICK m \in Milestones : w \in Of(m)
  BY DEF WritersInv, ClaimFits, Planned
<1>2. MilestoneOf(w) = m
  BY <1>1, PlanFacts
<1>3. ExecFits(m, w)
  BY <1>1 DEF WritersInv
<1> QED BY <1>1, <1>2, <1>3 DEF ExecFits

(* What a step of another milestone does to the run of n: nothing, or it   *)
(* is granted its wave.                                                    *)
Same(n) ==
    \/ pc'[n] = pc[n] /\ held'[n] = held[n]
    \/ pc[n] = "waiting" /\ pc'[n] = "granted"

LEMMA SameExecs ==
    ASSUME WritersInv, NEW n \in Milestones, Same(n), wave'[n] = wave[n],
           \A w \in Of(n) : exec'[w] = exec[w]
    PROVE  \A w \in Of(n) : ExecFits(n, w)'
<1> SUFFICES ASSUME NEW w \in Of(n) PROVE ExecFits(n, w)'
  OBVIOUS
<1>1. ExecFits(n, w) /\ exec'[w] = exec[w] /\ \A v \in Of(n) \ {w} : exec'[v] = exec[v]
  BY DEF WritersInv
<1>2. Of(n)' = Of(n)
  BY DEF Of
<1>3. CASE pc'[n] = pc[n] /\ held'[n] = held[n]
  BY <1>1, <1>2, <1>3 DEF ExecFits
<1>4. CASE pc[n] = "waiting" /\ pc'[n] = "granted"
  BY <1>1, <1>2, <1>4 DEF ExecFits, Dispatching
<1> QED BY <1>3, <1>4 DEF Same

LEMMA SameWave ==
    ASSUME WritersInv, NEW n \in Milestones, Same(n), wave'[n] = wave[n],
           resumed'[n] = resumed[n], \A w \in Of(n) : claim'[w] = claim[w],
           \A w \in Of(n) : w \in launched' => w \in launched
    PROVE  WaveFits(n)'
<1>1. WaveFits(n) /\ wave[n] \subseteq Of(n)
  BY DEF WritersInv, SharesFit
<1> QED BY <1>1 DEF WaveFits, Same

(* A step that moves one writer along.                                     *)
LEMMA ClaimsMove ==
    ASSUME WritersInv, NEW w \in Writers,
           \A v \in Writers \ {w} : /\ task'[v] = task[v] /\ review'[v] = review[v]
                                    /\ claim'[v] = claim[v] /\ exec'[v] = exec[v],
           \A v \in Writers : v \in launched' => v \in launched,
           claim[w] = "integrated" => claim'[w] = "integrated",
           claim'[w] # "none" => claim[w] # "none",
           claim'[w] = "integrated" <=> review'[w] = "completed",
           exec'[w] # "none" => exec[w] # "none" \/ Planned(w),
           exec'[w] \notin {"none", "settled", "dealt"} => claim'[w] = "claimed",
           task'[w] \in {"planned", "ready"} => task[w] \in {"planned", "ready"}
    PROVE  \A v \in Writers : ClaimFits(v)'
<1> SUFFICES ASSUME NEW v \in Writers PROVE ClaimFits(v)'
  OBVIOUS
<1>1. ClaimFits(v) /\ ClaimFits(w) /\ DependsOnReview[v] \subseteq Writers
  BY PlanAssumption DEF WritersInv
<1>2. \A d \in Writers : claim[d] = "integrated" => claim'[d] = "integrated"
  OBVIOUS
<1>3. Planned(v)' = Planned(v)
  BY DEF Planned, Of
<1>4. CASE v = w
  BY <1>1, <1>2, <1>3, <1>4 DEF ClaimFits
<1>5. CASE v # w
  <2>1. /\ task'[v] = task[v] /\ review'[v] = review[v]
        /\ claim'[v] = claim[v] /\ exec'[v] = exec[v]
    BY <1>5
  <2> QED BY <1>1, <1>2, <1>3, <2>1 DEF ClaimFits
<1> QED BY <1>4, <1>5

(* What a call of the governor for the milestone m is: the writers out are *)
(* released, q is the queue it drains, place and hold are where the run of  *)
(* m would be without a grant and what its permit holds.                    *)
Called(m, out, q, place, hold, waves, act, at, holds, ws, act2, q2, at2, hold2, ws2, left, look) ==
    /\ out \in SUBSET Of(m) /\ q \in Seq(Milestones) /\ place \in RunPlaces
    /\ hold \in SUBSET Writers /\ waves \in [Milestones -> SUBSET Writers]
    /\ Waits(q, [at EXCEPT ![m] = place])
    /\ Grants(act \ out, q, [at EXCEPT ![m] = place], [holds EXCEPT ![m] = hold], waves,
              act2, q2, at2, hold2)
    /\ \A n \in Milestones \ {m} : ws2[n] = ws[n] /\ waves[n] = ws[n]
    /\ place = "waiting" => ws2[m] = waves[m]
    /\ hold \subseteq act \ out /\ hold \subseteq ws2[m]
    /\ place \in Empty => hold = {}
    /\ place \in Granted => ws2[m] \subseteq hold
    /\ ws2 \in [Milestones -> SUBSET Writers] /\ ws2[m] \subseteq Of(m)
    /\ left \in [Milestones -> SUBSET Writers] /\ look \in [Milestones -> SUBSET Writers]
    /\ \A n \in Milestones : left[n] \subseteq Of(n) /\ look[n] \subseteq Of(n)

(* A call of the governor for one milestone.                               *)
LEMMA GovernStep ==
    ASSUME WritersInv, NEW m \in Milestones, NEW out, NEW q, NEW place, NEW hold, NEW waves,
           Called(m, out, q, place, hold, waves, active, pc, held, wave,
                  active', queue', pc', held', wave', pending', todo')
    PROVE  /\ active' \in SUBSET Writers /\ queue' \in Seq(Milestones)
           /\ pc' \in [Milestones -> RunPlaces] /\ held' \in [Milestones -> SUBSET Writers]
           /\ WithinLimits(active)' /\ QueueFits' /\ HeadDoesNotFit'
           /\ \A n \in Milestones : SharesFit(n)'
           /\ \A n \in Milestones \ {m} : Same(n)
           /\ place # "waiting" => pc'[m] = place /\ held'[m] = hold
           /\ place = "waiting" => pc'[m] \in {"waiting", "granted"}
<1>0. /\ out \in SUBSET Of(m) /\ q \in Seq(Milestones) /\ place \in RunPlaces
      /\ hold \in SUBSET Writers /\ waves \in [Milestones -> SUBSET Writers]
      /\ Waits(q, [pc EXCEPT ![m] = place])
      /\ Grants(active \ out, q, [pc EXCEPT ![m] = place], [held EXCEPT ![m] = hold], waves,
                active', queue', pc', held')
      /\ \A n \in Milestones \ {m} : wave'[n] = wave[n] /\ waves[n] = wave[n]
      /\ place = "waiting" => wave'[m] = waves[m]
      /\ hold \subseteq active \ out /\ hold \subseteq wave'[m]
      /\ place \in Empty => hold = {}
      /\ place \in Granted => wave'[m] \subseteq hold
      /\ wave' \in [Milestones -> SUBSET Writers] /\ wave'[m] \subseteq Of(m)
      /\ pending' \in [Milestones -> SUBSET Writers] /\ todo' \in [Milestones -> SUBSET Writers]
      /\ \A n \in Milestones : pending'[n] \subseteq Of(n) /\ todo'[n] \subseteq Of(n)
  BY DEF Called
<1> USE <1>0
<1> DEFINE at == [pc EXCEPT ![m] = place]
           holds == [held EXCEPT ![m] = hold]
<1>1. /\ WritersTypeOK /\ WithinLimits(active) /\ QueueFits
      /\ \A n \in Milestones : SharesFit(n)
  BY DEF WritersInv
<1>2. /\ at \in [Milestones -> RunPlaces] /\ at[m] = place
      /\ \A n \in Milestones \ {m} : at[n] = pc[n]
      /\ holds \in [Milestones -> SUBSET Writers] /\ holds[m] = hold
      /\ \A n \in Milestones \ {m} : holds[n] = held[n]
  BY <1>1 DEF RunAt, WritersTypeOK
<1>3. active \ out \in SUBSET Writers /\ WithinLimits(active \ out)
  <2>1. active \in SUBSET Writers /\ active \ out \in SUBSET active
    BY <1>1 DEF WritersTypeOK
  <2> QED BY <1>1, <2>1, FewerKeepLimits
<1> HIDE DEF at, holds
<1>4. Grants(active \ out, q, at, holds, waves, active', queue', pc', held')
  BY DEF at, holds
<1>5. Waits(q, at)
  BY DEF at
<1>6. /\ active' \in SUBSET Writers /\ active \ out \subseteq active' /\ WithinLimits(active')
      /\ queue' \in Seq(Milestones) /\ QueueFits'
      /\ pc' \in [Milestones -> RunPlaces] /\ held' \in [Milestones -> SUBSET Writers]
      /\ \A n \in Milestones :
           \/ pc'[n] = at[n] /\ held'[n] = holds[n]
           \/ /\ at[n] = "waiting" /\ pc'[n] = "granted"
              /\ held'[n] = waves[n] /\ waves[n] \subseteq active'
      /\ queue' # <<>> => ~CanAcquire(active', waves[Head(queue')])
  <2> DEFINE act == active \ out
  <2>1. act \in SUBSET Writers /\ WithinLimits(act)
    BY <1>3
  <2>g. Grants(act, q, at, holds, waves, active', queue', pc', held')
    BY <1>4
  <2> HIDE DEF act
  <2>2. PICK a2, q2, at2, h2 : a2 = active' /\ q2 = queue' /\ at2 = pc' /\ h2 = held'
    OBVIOUS
  <2>3. Grants(act, q, at, holds, waves, a2, q2, at2, h2)
    BY <2>g, <2>2
  <2>5. /\ act \in SUBSET Writers /\ q \in Seq(Milestones) /\ at \in [Milestones -> RunPlaces]
        /\ holds \in [Milestones -> SUBSET Writers] /\ waves \in [Milestones -> SUBSET Writers]
        /\ WithinLimits(act) /\ Waits(q, at)
        /\ Grants(act, q, at, holds, waves, a2, q2, at2, h2)
    BY <1>2, <1>5, <2>1, <2>3
  <2>4. /\ a2 \in SUBSET Writers /\ act \subseteq a2 /\ WithinLimits(a2)
        /\ q2 \in Seq(Milestones) /\ Waits(q2, at2)
        /\ at2 \in [Milestones -> RunPlaces] /\ h2 \in [Milestones -> SUBSET Writers]
        /\ \A k \in Milestones :
             \/ at2[k] = at[k] /\ h2[k] = holds[k]
             \/ /\ at[k] = "waiting" /\ at2[k] = "granted"
                /\ h2[k] = waves[k] /\ waves[k] \subseteq a2
        /\ q2 # <<>> => ~CanAcquire(a2, waves[Head(q2)])
    BY <2>5, Governed
  <2> QED BY <2>2, <2>4 DEF act, QueueFits
<1>7. HeadDoesNotFit'
  <2> SUFFICES ASSUME queue' # <<>> PROVE ~CanAcquire(active', wave'[Head(queue')])
    BY DEF HeadDoesNotFit
  <2>1. Head(queue') = queue'[1] /\ 1 \in DOMAIN queue' /\ Head(queue') \in Milestones
    BY <1>6, HeadTailProperties, EmptySeq, LenProperties
  <2>2. pc'[Head(queue')] = "waiting"
    BY <1>6, <2>1 DEF QueueFits, Waits
  <2>3. waves[Head(queue')] = wave'[Head(queue')]
    <3>1. CASE Head(queue') # m
      BY <2>1, <3>1
    <3>2. CASE Head(queue') = m
      <4>1. at[m] = "waiting"
        BY <1>6, <2>2, <3>2
      <4> QED BY <1>2, <3>2, <4>1
    <3> QED BY <3>1, <3>2
  <2> QED BY <1>6, <2>3
<1>8. \A n \in Milestones \ {m} : Same(n)
  BY <1>2, <1>6 DEF Same
<1>9. ASSUME NEW n \in Milestones PROVE SharesFit(n)'
  <2>0. Of(n)' = Of(n) /\ SharesFit(n)
    BY <1>1 DEF Of
  <2>1. wave'[n] \subseteq Of(n)
    BY <2>0 DEF SharesFit
  <2>2. CASE pc'[n] = at[n] /\ held'[n] = holds[n]
    <3>1. CASE n = m
      BY <1>2, <1>6, <2>0, <2>1, <2>2, <3>1 DEF SharesFit
    <3>2. CASE n # m
      <4>1. held[n] \intersect out = {}
        BY <2>0, <3>2, PlanFacts DEF SharesFit
      <4>2. held'[n] = held[n] /\ pc'[n] = pc[n] /\ wave'[n] = wave[n]
        BY <1>2, <2>2, <3>2
      <4> QED BY <1>6, <2>0, <2>1, <4>1, <4>2 DEF SharesFit
    <3> QED BY <3>1, <3>2
  <2>3. CASE /\ at[n] = "waiting" /\ pc'[n] = "granted"
             /\ held'[n] = waves[n] /\ waves[n] \subseteq active'
    <3>1. waves[n] = wave'[n]
      BY <1>2, <2>3
    <3> QED BY <2>0, <2>1, <2>3, <3>1 DEF SharesFit, Empty, Granted
  <2> QED BY <1>6, <2>2, <2>3
<1>10. /\ place # "waiting" => pc'[m] = place /\ held'[m] = hold
       /\ place = "waiting" => pc'[m] \in {"waiting", "granted"}
  BY <1>2, <1>6
<1> QED BY <1>6, <1>7, <1>8, <1>9, <1>10

-----------------------------------------------------------------------------
(* The kinds of steps. WavesHold is what every step is shown to keep; an   *)
(* execution is called only for a writer that is claimed and was never     *)
(* launched.                                                               *)
WriterCallsFit ==
    \A w \in Writers : exec'[w] = "called" =>
        exec[w] = "called" \/ (w \notin launched /\ claim[w] = "claimed")
WavesHold == WritersInv' /\ WriterCallsFit

(* A step that leaves the governor and the runs alone.                     *)
LEMMA QuietGovernor ==
    ASSUME WritersInv, UNCHANGED <<governor, pc, pending, todo, wave, held>>
    PROVE  /\ WithinLimits(active)' /\ QueueFits' /\ HeadDoesNotFit'
           /\ \A n \in Milestones : SharesFit(n)'
           /\ \A n \in Milestones : Same(n)
<1>1. UNCHANGED <<active, queue, pc, pending, todo, wave, held>>
  BY DEF governor
<1>2. WithinLimits(active') /\ QueueFits' /\ HeadDoesNotFit'
  BY <1>1 DEF WritersInv, QueueFits, HeadDoesNotFit
<1>3. ASSUME NEW n \in Milestones PROVE SharesFit(n)'
  <2>1. SharesFit(n) /\ Of(n)' = Of(n)
    BY DEF WritersInv, Of
  <2> QED BY <1>1, <2>1 DEF SharesFit
<1> QED BY <1>1, <1>2, <1>3 DEF Same

(* An append to the streams while no run or execution moves.               *)
LEMMA DurableStep ==
    ASSUME WritersInv, NEW w \in Writers, DurableOK',
           runs' \in [Milestones -> Nat], troubles' \in Nat,
           UNCHANGED <<governor, pc, pending, todo, wave, resumed, held, exec, launched, claim>>,
           \A v \in Writers \ {w} : task'[v] = task[v] /\ review'[v] = review[v],
           review'[w] = "completed" <=> review[w] = "completed",
           task'[w] \in {"planned", "ready"} => task[w] \in {"planned", "ready"}
    PROVE  WavesHold
<1>1. /\ WithinLimits(active)' /\ QueueFits' /\ HeadDoesNotFit'
      /\ \A n \in Milestones : SharesFit(n)'
      /\ \A n \in Milestones : Same(n)
  BY QuietGovernor
<1>2. WritersTypeOK'
  BY DEF WritersInv, WritersTypeOK, governor
<1>3. ASSUME NEW n \in Milestones PROVE WaveFits(n)' /\ \A v \in Of(n) : ExecFits(n, v)'
  <2>1. Same(n)
    BY <1>1
  <2>2. WaveFits(n)'
    BY <2>1, SameWave
  <2>3. \A v \in Of(n) : ExecFits(n, v)'
    BY <2>1, SameExecs
  <2> QED BY <2>2, <2>3
<1>4. \A v \in Writers : ClaimFits(v)'
  <2>1. ClaimFits(w)
    BY DEF WritersInv
  <2> QED BY <2>1, ClaimsMove DEF ClaimFits
<1>5. \A n \in Milestones : Of(n)' = Of(n)
  BY DEF Of
<1> QED BY <1>1, <1>2, <1>3, <1>4, <1>5 DEF WavesHold, WritersInv, WriterCallsFit

(* The claims around a writer whose execution moves.                       *)
Moves(w, place) ==
    /\ \A v \in Writers \ {w} : /\ task'[v] = task[v] /\ review'[v] = review[v]
                                /\ claim'[v] = claim[v]
    /\ claim[w] = "integrated" => claim'[w] = "integrated"
    /\ claim'[w] # "none" => claim[w] # "none"
    /\ claim'[w] = "integrated" <=> review'[w] = "completed"
    /\ place \notin {"none", "settled", "dealt"} => claim'[w] = "claimed"
    /\ task'[w] \in {"planned", "ready"} => task[w] \in {"planned", "ready"}

(* An execution goes on while the other runs keep theirs: what holds of    *)
(* the waves and executions.                                               *)
LEMMA ExecMoves ==
    ASSUME WritersInv, NEW w \in Writers, exec[w] # "none",
           NEW place \in ExecPlaces \ {"none", "called"}, Step(w, place),
           Moves(w, place),
           place \in Dispatching => exec[w] \in Dispatching,
           \A n \in Milestones \ {MilestoneOf(w)} : Same(n),
           pc'[MilestoneOf(w)] = pc[MilestoneOf(w)],
           place \in Dispatching => w \in held'[MilestoneOf(w)],
           \A v \in Writers \ {w} : v \in held[MilestoneOf(w)] => v \in held'[MilestoneOf(w)]
    PROVE  /\ \A n \in Milestones : WaveFits(n)' /\ \A v \in Of(n) : ExecFits(n, v)'
           /\ \A v \in Writers : ClaimFits(v)'
           /\ WriterCallsFit
<1> DEFINE m == MilestoneOf(w)
<1>1. /\ m \in Milestones /\ w \in Of(m)
      /\ pc[m] = "resume" \/ (pc[m] = "wave" /\ w \in wave[m])
      /\ ExecFits(m, w)
  BY ActiveWriter
<1>2. /\ exec' = [exec EXCEPT ![w] = place] /\ exec \in [Writers -> ExecPlaces]
      /\ UNCHANGED <<pending, todo, wave, resumed, launched, runs>>
  BY DEF Step, WritersInv, WritersTypeOK
<1>3. /\ exec'[w] = place /\ \A v \in Writers \ {w} : exec'[v] = exec[v]
  BY <1>2
<1>4. \A n \in Milestones : Of(n)' = Of(n) /\ Of(n) \in SUBSET Writers
  BY PlanFacts DEF Of
<1>5. ASSUME NEW n \in Milestones, n # m
      PROVE  WaveFits(n)' /\ \A v \in Of(n) : ExecFits(n, v)'
  <2>1. w \notin Of(n)
    BY <1>1, <1>5, PlanFacts
  <2>2. \A v \in Of(n) : exec'[v] = exec[v] /\ claim'[v] = claim[v]
    BY <1>3, <1>4, <2>1 DEF Moves
  <2>3. Same(n) /\ wave'[n] = wave[n] /\ resumed'[n] = resumed[n]
    BY <1>2, <1>5
  <2>4. WaveFits(n)'
    BY <1>2, <2>2, <2>3, SameWave
  <2>5. \A v \in Of(n) : ExecFits(n, v)'
    BY <2>2, <2>3, SameExecs
  <2> QED BY <2>4, <2>5
<1>6. WaveFits(m)'
  BY <1>1 DEF WaveFits
<1>7. ASSUME NEW v \in Of(m) PROVE ExecFits(m, v)'
  <2>1. ExecFits(m, v) /\ v \in Writers /\ pc'[m] = pc[m] /\ wave'[m] = wave[m]
    BY <1>1, <1>2, <1>4 DEF WritersInv
  <2>2. CASE v = w
    <3>1. pc'[m] = "resume" => \A u \in Of(m) \ {w} : exec'[u] = "none"
      BY <1>1, <1>3, <1>4, <2>1 DEF ExecFits
    <3> QED BY <1>1, <1>3, <1>4, <2>1, <2>2, <3>1 DEF ExecFits
  <2>3. CASE v # w
    <3>1. exec'[v] = exec[v]
      BY <1>3, <2>1, <2>3
    <3>2. pc'[m] = "resume" => exec[v] = "none"
      BY <1>1, <2>1, <2>3 DEF ExecFits
    <3>3. exec[v] \in Dispatching => v \in held'[m]
      BY <2>1, <2>3 DEF ExecFits
    <3> QED BY <2>1, <3>1, <3>2, <3>3 DEF ExecFits
  <2> QED BY <2>2, <2>3
<1>8. \A v \in Writers : ClaimFits(v)'
  BY <1>1, <1>2, <1>3, ClaimsMove DEF Moves, Planned
<1>9. WriterCallsFit
  BY <1>3 DEF WriterCallsFit
<1> HIDE DEF m
<1> QED BY <1>1, <1>5, <1>6, <1>7, <1>8, <1>9

(* A step of an execution that leaves its run alone.                       *)
LEMMA ExecStep ==
    ASSUME WritersInv, NEW w \in Writers, exec[w] # "none",
           NEW place \in ExecPlaces \ {"none", "called"}, Step(w, place), Undisturbed,
           Moves(w, place), DurableOK', troubles' \in Nat,
           place \in Dispatching => exec[w] \in Dispatching
    PROVE  WavesHold
<1>1. UNCHANGED <<governor, pc, pending, todo, wave, held, resumed, launched, runs>>
  BY DEF Step, Undisturbed
<1>2. /\ WithinLimits(active)' /\ QueueFits' /\ HeadDoesNotFit'
      /\ \A n \in Milestones : SharesFit(n)'
      /\ \A n \in Milestones : Same(n)
  BY <1>1, QuietGovernor
<1>3. WritersTypeOK'
  BY <1>1 DEF WritersInv, WritersTypeOK, governor, Step
<1>4. /\ \A n \in Milestones : WaveFits(n)' /\ \A v \in Of(n) : ExecFits(n, v)'
      /\ \A v \in Writers : ClaimFits(v)'
      /\ WriterCallsFit
  <2>1. place \in Dispatching => w \in held'[MilestoneOf(w)]
    BY <1>1, ActiveWriter DEF ExecFits
  <2> QED BY <1>1, <1>2, <2>1, ExecMoves
<1>5. \A n \in Milestones : Of(n)' = Of(n)
  BY DEF Of
<1> QED BY <1>2, <1>3, <1>4, <1>5 DEF WavesHold, WritersInv

(* A step of an execution that gives its slot back.                        *)
LEMMA LeaveStep ==
    ASSUME WritersInv, NEW w \in Writers, exec[w] # "none",
           NEW place \in ExecPlaces \ {"none", "called", "writing", "handoff"}, Step(w, place),
           PermitRelease(MilestoneOf(w), {w}, pc),
           Moves(w, place), DurableOK', troubles' \in Nat
    PROVE  WavesHold
<1> DEFINE m == MilestoneOf(w)
           out == {w} \intersect held[m]
           hold == held[m] \ {w}
<1>1. /\ m \in Milestones /\ w \in Of(m)
      /\ pc[m] = "resume" \/ (pc[m] = "wave" /\ w \in wave[m])
  BY ActiveWriter
<1>2. /\ WritersTypeOK /\ QueueFits
      /\ \A n \in Milestones : SharesFit(n) /\ Of(n) \in SUBSET Writers
  BY PlanFacts DEF WritersInv
<1>3. RunAt(m, pc[m]) = pc /\ [held EXCEPT ![m] = @ \ {w}] = [held EXCEPT ![m] = hold]
  BY <1>2 DEF RunAt, WritersTypeOK
<1>4. UNCHANGED <<pending, todo, wave, resumed, launched, runs>>
  BY DEF Step
<1>5. Grants(active \ out, queue, [pc EXCEPT ![m] = pc[m]], [held EXCEPT ![m] = hold], wave,
             active', queue', pc', held')
  BY <1>3 DEF PermitRelease, Govern, Grants, RunAt
<1>6. /\ out \in SUBSET Of(m) /\ hold \in SUBSET Writers /\ pc[m] \in RunPlaces
      /\ hold \subseteq active \ out /\ hold \subseteq wave[m]
      /\ pc[m] \in Empty => hold = {}
      /\ pc[m] # "waiting" /\ pc[m] \notin Granted
  BY <1>1, <1>2 DEF SharesFit, WritersTypeOK, Granted
<1>7. /\ wave \in [Milestones -> SUBSET Writers] /\ pending \in [Milestones -> SUBSET Writers]
      /\ todo \in [Milestones -> SUBSET Writers] /\ queue \in Seq(Milestones)
      /\ \A n \in Milestones : wave[n] \subseteq Of(n) /\ pending[n] \subseteq Of(n)
                               /\ todo[n] \subseteq Of(n)
      /\ Waits(queue, [pc EXCEPT ![m] = pc[m]])
  BY <1>2, <1>3 DEF SharesFit, WritersTypeOK, QueueFits, RunAt
<1> HIDE DEF m, out, hold
<1>8. /\ active' \in SUBSET Writers /\ queue' \in Seq(Milestones)
      /\ pc' \in [Milestones -> RunPlaces] /\ held' \in [Milestones -> SUBSET Writers]
      /\ WithinLimits(active)' /\ QueueFits' /\ HeadDoesNotFit'
      /\ \A n \in Milestones : SharesFit(n)'
      /\ \A n \in Milestones \ {m} : Same(n)
      /\ pc'[m] = pc[m] /\ held'[m] = hold
  <2> DEFINE place0 == pc[m]
  <2>1. Called(m, out, queue, place0, hold, wave, active, pc, held, wave,
               active', queue', pc', held', wave', pending', todo')
    BY <1>1, <1>4, <1>5, <1>6, <1>7 DEF Called
  <2>2. place0 # "waiting" /\ place0 = pc[m]
    BY <1>6
  <2> HIDE DEF place0
  <2>3. /\ active' \in SUBSET Writers /\ queue' \in Seq(Milestones)
        /\ pc' \in [Milestones -> RunPlaces] /\ held' \in [Milestones -> SUBSET Writers]
        /\ WithinLimits(active)' /\ QueueFits' /\ HeadDoesNotFit'
        /\ \A n \in Milestones : SharesFit(n)'
        /\ \A n \in Milestones \ {m} : Same(n)
        /\ (place0 # "waiting" => pc'[m] = place0 /\ held'[m] = hold)
        /\ (place0 = "waiting" => pc'[m] \in {"waiting", "granted"})
    BY <1>1, <2>1, GovernStep
  <2> QED BY <2>2, <2>3
<1>9. WritersTypeOK'
  BY <1>2, <1>4, <1>8 DEF WritersTypeOK, Step
<1>10. \A v \in Writers \ {w} : v \in held[m] => v \in held'[m]
  BY <1>8 DEF hold
<1>11. /\ \A n \in Milestones : WaveFits(n)' /\ \A v \in Of(n) : ExecFits(n, v)'
       /\ \A v \in Writers : ClaimFits(v)'
       /\ WriterCallsFit
  BY <1>8, <1>10, ExecMoves DEF m, Dispatching
<1>12. \A n \in Milestones : Of(n)' = Of(n)
  BY DEF Of
<1> QED BY <1>8, <1>9, <1>11, <1>12 DEF WavesHold, WritersInv

(* A step that moves no claim and calls no execution.                      *)
LEMMA ClaimsSame ==
    ASSUME WritersInv, UNCHANGED <<task, review, claim, launched>>,
           \A v \in Writers : exec'[v] = exec[v] \/ exec'[v] = "none"
    PROVE  /\ \A v \in Writers : ClaimFits(v)'
           /\ WriterCallsFit
<1>1. ASSUME NEW v \in Writers PROVE ClaimFits(v)'
  <2>1. ClaimFits(v) /\ Planned(v)' = Planned(v)
    BY DEF WritersInv, Planned, Of
  <2> QED BY <2>1 DEF ClaimFits
<1>2. WriterCallsFit
  BY DEF WriterCallsFit
<1> QED BY <1>1, <1>2

(* What the other milestones keep of a step of the run of one.             *)
LEMMA Others ==
    ASSUME WritersInv, NEW n \in Milestones, Same(n), wave'[n] = wave[n],
           resumed'[n] = resumed[n],
           \A v \in Of(n) : claim'[v] = claim[v] /\ exec'[v] = exec[v],
           \A v \in Of(n) : v \in launched' => v \in launched
    PROVE  WaveFits(n)' /\ \A v \in Of(n) : ExecFits(n, v)'
<1>1. WaveFits(n)'
  BY SameWave
<1>2. \A v \in Of(n) : ExecFits(n, v)'
  BY SameExecs
<1> QED BY <1>1, <1>2

(* The run of a milestone ends.                                            *)
LEMMA ForgetStep ==
    ASSUME WritersInv, NEW m \in Milestones, NEW freed \in SUBSET Of(m), Forget(m, freed),
           pc[m] # "waiting", UNCHANGED <<task, review, claim>>, DurableOK'
    PROVE  WavesHold
<1>1. /\ Govern(active \ freed, queue, RunAt(m, "idle"), [held EXCEPT ![m] = {}], wave)
      /\ pending' = [pending EXCEPT ![m] = {}]
      /\ todo' = [todo EXCEPT ![m] = {}]
      /\ wave' = [wave EXCEPT ![m] = {}]
      /\ resumed' = [resumed EXCEPT ![m] = FALSE]
      /\ exec' = [w \in Writers |-> IF w \in Of(m) THEN "none" ELSE exec[w]]
      /\ UNCHANGED <<launched, runs, troubles>>
  BY DEF Forget
<1>2. /\ WritersTypeOK /\ QueueFits
      /\ \A n \in Milestones : SharesFit(n) /\ Of(n) \in SUBSET Writers
  BY PlanFacts DEF WritersInv
<1>3. Waits(queue, RunAt(m, "idle"))
  BY <1>2 DEF RunAt, WritersTypeOK, QueueFits, Waits
<1>4. /\ wave \in [Milestones -> SUBSET Writers] /\ wave' \in [Milestones -> SUBSET Writers]
      /\ pending' \in [Milestones -> SUBSET Writers]
      /\ todo' \in [Milestones -> SUBSET Writers] /\ queue \in Seq(Milestones)
      /\ \A n \in Milestones : pending'[n] \subseteq Of(n) /\ todo'[n] \subseteq Of(n)
      /\ wave'[m] = {} /\ resumed' \in [Milestones -> BOOLEAN]
      /\ \A n \in Milestones \ {m} : wave'[n] = wave[n] /\ resumed'[n] = resumed[n]
      /\ "idle" \in RunPlaces
  BY <1>1, <1>2 DEF SharesFit, WritersTypeOK, RunPlaces
<1>5. /\ active' \in SUBSET Writers /\ queue' \in Seq(Milestones)
      /\ pc' \in [Milestones -> RunPlaces] /\ held' \in [Milestones -> SUBSET Writers]
      /\ WithinLimits(active)' /\ QueueFits' /\ HeadDoesNotFit'
      /\ \A n \in Milestones : SharesFit(n)'
      /\ \A n \in Milestones \ {m} : Same(n)
      /\ pc'[m] = "idle" /\ held'[m] = {}
  <2> DEFINE place == "idle"
             hold == {}
  <2>1. Called(m, freed, queue, place, hold, wave, active, pc, held, wave,
               active', queue', pc', held', wave', pending', todo')
    BY <1>1, <1>3, <1>4 DEF Govern, Grants, RunAt, Granted, Called
  <2>2. place = "idle" /\ hold = {}
    OBVIOUS
  <2> HIDE DEF place, hold
  <2>3. /\ active' \in SUBSET Writers /\ queue' \in Seq(Milestones)
        /\ pc' \in [Milestones -> RunPlaces] /\ held' \in [Milestones -> SUBSET Writers]
        /\ WithinLimits(active)' /\ QueueFits' /\ HeadDoesNotFit'
        /\ \A n \in Milestones : SharesFit(n)'
        /\ \A n \in Milestones \ {m} : Same(n)
        /\ (place # "waiting" => pc'[m] = place /\ held'[m] = hold)
        /\ (place = "waiting" => pc'[m] \in {"waiting", "granted"})
    BY <2>1, GovernStep
  <2> QED BY <2>2, <2>3
<1>6. exec' \in [Writers -> ExecPlaces] /\ launched' \in SUBSET Writers
  BY <1>1, <1>2 DEF WritersTypeOK, ExecPlaces
<1>7. WritersTypeOK'
  BY <1>1, <1>2, <1>4, <1>5, <1>6 DEF WritersTypeOK
<1>8. ASSUME NEW n \in Milestones, n # m
      PROVE  WaveFits(n)' /\ \A v \in Of(n) : ExecFits(n, v)'
  <2>1. \A v \in Of(n) : exec'[v] = exec[v]
    BY <1>1, <1>2, <1>8, PlanFacts
  <2> QED BY <1>1, <1>4, <1>5, <1>8, <2>1, Others
<1>9. \A n \in Milestones : Of(n)' = Of(n)
  BY DEF Of
<1>10. WaveFits(m)' /\ \A v \in Of(m) : ExecFits(m, v)'
  <2>1. WaveFits(m)'
    BY <1>4 DEF WaveFits
  <2>2. \A v \in Of(m) : exec'[v] = "none"
    BY <1>1, <1>2
  <2> QED BY <1>9, <2>1, <2>2 DEF ExecFits, Dispatching
<1>11. /\ \A v \in Writers : ClaimFits(v)'
       /\ WriterCallsFit
  BY <1>1, ClaimsSame
<1> QED BY <1>5, <1>7, <1>8, <1>9, <1>10, <1>11 DEF WavesHold, WritersInv

(* A claim of an earlier run is reconciled.                                *)
LEMMA DropStep ==
    ASSUME WritersInv, NEW m \in Milestones, NEW w \in Of(m), pc[m] \in {"pass", "again"},
           Release(w, RunAt(m, "again")), Dropped(m, w), Moves(w, "none"), DurableOK'
    PROVE  WavesHold
<1>1. /\ Govern(active \ {w}, queue, RunAt(m, "again"), held, wave)
      /\ pending' = [pending EXCEPT ![m] = @ \ {w}]
      /\ todo' = [todo EXCEPT ![m] = @ \ {w}]
      /\ UNCHANGED <<wave, resumed, exec, launched, runs, troubles>>
  BY DEF Release, Dropped
<1>2. /\ WritersTypeOK /\ QueueFits /\ held[m] = {} /\ w \in Writers
      /\ \A n \in Milestones : SharesFit(n) /\ Of(n) \in SUBSET Writers
  BY PlanFacts DEF WritersInv, SharesFit, Empty
<1>3. Waits(queue, RunAt(m, "again")) /\ [held EXCEPT ![m] = {}] = held
  BY <1>2 DEF RunAt, WritersTypeOK, QueueFits, Waits
<1>4. /\ wave \in [Milestones -> SUBSET Writers]
      /\ pending' \in [Milestones -> SUBSET Writers]
      /\ todo' \in [Milestones -> SUBSET Writers] /\ queue \in Seq(Milestones)
      /\ \A n \in Milestones : pending'[n] \subseteq Of(n) /\ todo'[n] \subseteq Of(n)
      /\ wave[m] \subseteq Of(m)
  BY <1>1, <1>2 DEF SharesFit, WritersTypeOK
<1>5. /\ active' \in SUBSET Writers /\ queue' \in Seq(Milestones)
      /\ pc' \in [Milestones -> RunPlaces] /\ held' \in [Milestones -> SUBSET Writers]
      /\ WithinLimits(active)' /\ QueueFits' /\ HeadDoesNotFit'
      /\ \A n \in Milestones : SharesFit(n)'
      /\ \A n \in Milestones \ {m} : Same(n)
      /\ pc'[m] = "again" /\ held'[m] = {}
  <2> DEFINE place == "again"
             hold == {}
             out == {w}
  <2>1. Called(m, out, queue, place, hold, wave, active, pc, held, wave,
               active', queue', pc', held', wave', pending', todo')
    BY <1>1, <1>3, <1>4 DEF RunPlaces, Govern, Grants, RunAt, Granted, Called
  <2>2. place = "again" /\ hold = {}
    OBVIOUS
  <2> HIDE DEF place, hold, out
  <2>3. /\ active' \in SUBSET Writers /\ queue' \in Seq(Milestones)
        /\ pc' \in [Milestones -> RunPlaces] /\ held' \in [Milestones -> SUBSET Writers]
        /\ WithinLimits(active)' /\ QueueFits' /\ HeadDoesNotFit'
        /\ \A n \in Milestones : SharesFit(n)'
        /\ \A n \in Milestones \ {m} : Same(n)
        /\ (place # "waiting" => pc'[m] = place /\ held'[m] = hold)
        /\ (place = "waiting" => pc'[m] \in {"waiting", "granted"})
    BY <2>1, GovernStep
  <2> QED BY <2>2, <2>3
<1>6. WritersTypeOK'
  BY <1>1, <1>2, <1>4, <1>5 DEF WritersTypeOK
<1>7. ASSUME NEW n \in Milestones, n # m
      PROVE  WaveFits(n)' /\ \A v \in Of(n) : ExecFits(n, v)'
  <2>1. w \notin Of(n)
    BY <1>7, PlanFacts
  <2>2. \A v \in Of(n) : exec'[v] = exec[v] /\ claim'[v] = claim[v]
    BY <1>1, <1>2, <2>1 DEF Moves
  <2> QED BY <1>1, <1>5, <1>7, <2>2, Others
<1>8. \A v \in Of(m) : exec[v] = "none" /\ exec'[v] = "none"
  BY <1>1 DEF WritersInv, ExecFits
<1>9. \A n \in Milestones : Of(n)' = Of(n)
  BY DEF Of
<1>10. WaveFits(m)' /\ \A v \in Of(m) : ExecFits(m, v)'
  <2>1. WaveFits(m)'
    BY <1>5 DEF WaveFits
  <2> QED BY <1>8, <1>9, <2>1 DEF ExecFits, Dispatching
<1>11. \A v \in Writers : ClaimFits(v)'
  BY <1>1, <1>2, <1>8, ClaimsMove DEF Moves
<1>12. WriterCallsFit
  BY <1>1 DEF WriterCallsFit
<1> QED BY <1>5, <1>6, <1>7, <1>9, <1>10, <1>11, <1>12 DEF WavesHold, WritersInv

(* The run of a milestone moves on and leaves the governor alone.          *)
LEMMA QuietRun ==
    ASSUME WritersInv, NEW m \in Milestones, NEW place \in RunPlaces \ {"waiting"},
           pc[m] # "waiting", pc' = RunAt(m, place), UNCHANGED governor,
           \A n \in Milestones \ {m} : wave'[n] = wave[n] /\ held'[n] = held[n],
           held'[m] \subseteq held[m] \intersect wave'[m], wave'[m] \subseteq Of(m),
           place \in Empty => held'[m] = {}, place \in Granted => wave'[m] \subseteq held'[m],
           \A n \in Milestones : pending'[n] \subseteq Of(n) /\ todo'[n] \subseteq Of(n)
    PROVE  /\ pc' \in [Milestones -> RunPlaces] /\ pc'[m] = place
           /\ WithinLimits(active)' /\ QueueFits' /\ HeadDoesNotFit'
           /\ \A n \in Milestones : SharesFit(n)'
           /\ \A n \in Milestones \ {m} : Same(n)
<1>1. /\ WritersTypeOK /\ QueueFits /\ WithinLimits(active) /\ HeadDoesNotFit
      /\ \A n \in Milestones : SharesFit(n) /\ Of(n)' = Of(n)
      /\ active' = active /\ queue' = queue
  BY DEF WritersInv, Of, governor
<1>2. /\ pc' \in [Milestones -> RunPlaces] /\ pc'[m] = place
      /\ \A n \in Milestones \ {m} : pc'[n] = pc[n]
  BY <1>1 DEF RunAt, WritersTypeOK
<1>3. QueueFits'
  BY <1>1, <1>2 DEF QueueFits, Waits
<1>4. HeadDoesNotFit'
  <2> SUFFICES ASSUME queue # <<>> PROVE ~CanAcquire(active, wave'[Head(queue)])
    BY <1>1 DEF HeadDoesNotFit
  <2>1. Head(queue) = queue[1] /\ 1 \in DOMAIN queue /\ Head(queue) \in Milestones
    BY <1>1, HeadTailProperties, EmptySeq, LenProperties DEF WritersTypeOK
  <2>2. pc[Head(queue)] = "waiting"
    BY <1>1, <2>1 DEF QueueFits, Waits
  <2>3. wave'[Head(queue)] = wave[Head(queue)]
    BY <2>1, <2>2
  <2> QED BY <1>1, <2>3 DEF HeadDoesNotFit
<1>5. ASSUME NEW n \in Milestones PROVE SharesFit(n)'
  <2>1. CASE n = m
    BY <1>1, <1>2, <2>1 DEF SharesFit
  <2>2. CASE n # m
    BY <1>1, <1>2, <2>2 DEF SharesFit
  <2> QED BY <2>1, <2>2
<1>6. \A n \in Milestones \ {m} : Same(n)
  BY <1>2 DEF Same
<1> QED BY <1>1, <1>2, <1>3, <1>4, <1>5, <1>6

(* The parts of the invariant, put together.                               *)
LEMMA Together ==
    ASSUME WritersTypeOK', WithinLimits(active)', QueueFits', HeadDoesNotFit',
           \A n \in Milestones : SharesFit(n)',
           \A n \in Milestones : WaveFits(n)' /\ \A v \in Of(n) : ExecFits(n, v)',
           \A v \in Writers : ClaimFits(v)', WriterCallsFit
    PROVE  WavesHold
<1>1. \A n \in Milestones : Of(n)' = Of(n)
  BY DEF Of
<1> QED BY <1>1 DEF WavesHold, WritersInv

(* The others of a milestone whose run moves, while no execution does.     *)
LEMMA OthersStill ==
    ASSUME WritersInv, NEW m \in Milestones, UNCHANGED <<exec, launched>>,
           \A n \in Milestones \ {m} : Same(n) /\ wave'[n] = wave[n] /\ resumed'[n] = resumed[n],
           \A v \in Writers : v \notin Of(m) => claim'[v] = claim[v],
           WaveFits(m)', \A v \in Of(m) : ExecFits(m, v)'
    PROVE  \A n \in Milestones : WaveFits(n)' /\ \A v \in Of(n) : ExecFits(n, v)'
<1> SUFFICES ASSUME NEW n \in Milestones, n # m
             PROVE  WaveFits(n)' /\ \A v \in Of(n) : ExecFits(n, v)'
  OBVIOUS
<1>1. \A v \in Of(n) : v \in Writers /\ v \notin Of(m)
  BY PlanFacts
<1>2. Same(n) /\ wave'[n] = wave[n] /\ resumed'[n] = resumed[n]
  OBVIOUS
<1> QED BY <1>1, <1>2, Others

(* Between its waves and before it calls them, a run has no executions.    *)
LEMMA NoneBefore ==
    ASSUME WritersInv, NEW m \in Milestones, pc[m] \notin {"resume", "wave"}
    PROVE  \A v \in Of(m) : exec[v] = "none"
BY DEF WritersInv, ExecFits

LEMMA NoExecs ==
    ASSUME NEW m \in Milestones, \A v \in Of(m) : exec'[v] = "none"
    PROVE  \A v \in Of(m) : ExecFits(m, v)'
<1>1. Of(m)' = Of(m)
  BY DEF Of
<1> QED BY <1>1 DEF ExecFits, Dispatching

LEMMA RunHolds ==
    ASSUME WritersInv, NEW m \in Milestones, Run(m)
    PROVE  WavesHold
<1>1. /\ pc[m] = "idle" /\ pc' = RunAt(m, "pass")
      /\ runs' = [runs EXCEPT ![m] = @ + 1]
      /\ pending' = [pending EXCEPT ![m] = Of(m)]
      /\ todo' = [todo EXCEPT ![m] = Of(m)]
      /\ UNCHANGED <<life, task, review, claim, stream, active, queue, governor, wave, resumed,
                     held, exec, launched, troubles>>
  BY DEF Run, durable, governor
<1>2. /\ WritersTypeOK
      /\ \A n \in Milestones : SharesFit(n) /\ Of(n) \in SUBSET Writers
  BY PlanFacts DEF WritersInv
<1>3. /\ pc' \in [Milestones -> RunPlaces] /\ pc'[m] = "pass"
      /\ WithinLimits(active)' /\ QueueFits' /\ HeadDoesNotFit'
      /\ \A n \in Milestones : SharesFit(n)'
      /\ \A n \in Milestones \ {m} : Same(n)
  <2>1. /\ "pass" \in RunPlaces \ {"waiting"} /\ "pass" \in Empty /\ "pass" \notin Granted
        /\ held[m] = {} /\ wave[m] \subseteq Of(m)
        /\ \A n \in Milestones : pending'[n] \subseteq Of(n) /\ todo'[n] \subseteq Of(n)
    BY <1>1, <1>2 DEF RunPlaces, Empty, Granted, SharesFit, WritersTypeOK
  <2> QED BY <1>1, <2>1, QuietRun
<1>4. WritersTypeOK'
  BY <1>1, <1>2, <1>3 DEF WritersTypeOK, DurableOK
<1>5. \A v \in Of(m) : exec'[v] = "none"
  BY <1>1, NoneBefore
<1>6. WaveFits(m)' /\ \A v \in Of(m) : ExecFits(m, v)'
  BY <1>3, <1>5, NoExecs DEF WaveFits
<1>7. \A n \in Milestones : WaveFits(n)' /\ \A v \in Of(n) : ExecFits(n, v)'
  BY <1>1, <1>3, <1>6, OthersStill
<1>8. (\A v \in Writers : ClaimFits(v)') /\ WriterCallsFit
  BY <1>1, ClaimsSame
<1> QED BY <1>3, <1>4, <1>7, <1>8, Together

LEMMA SeePermitHolds ==
    ASSUME WritersInv, NEW m \in Milestones, SeePermit(m)
    PROVE  WavesHold
<1>1. /\ pc[m] = "granted" /\ pc' = RunAt(m, "admit") /\ StillRunnable(m)
      /\ UNCHANGED <<life, task, review, claim, stream, active, queue, governor, pending, todo,
                     wave, resumed, held, exec, launched, runs, troubles>>
  BY DEF SeePermit, durable, governor
<1>2. /\ WritersTypeOK
      /\ \A n \in Milestones : SharesFit(n) /\ Of(n) \in SUBSET Writers
  BY PlanFacts DEF WritersInv
<1>3. /\ pc' \in [Milestones -> RunPlaces] /\ pc'[m] = "admit"
      /\ WithinLimits(active)' /\ QueueFits' /\ HeadDoesNotFit'
      /\ \A n \in Milestones : SharesFit(n)'
      /\ \A n \in Milestones \ {m} : Same(n)
  <2>1. /\ "admit" \in RunPlaces \ {"waiting"} /\ "admit" \notin Empty
        /\ held[m] \subseteq wave[m] /\ wave[m] \subseteq held[m] /\ wave[m] \subseteq Of(m)
        /\ \A n \in Milestones : pending'[n] \subseteq Of(n) /\ todo'[n] \subseteq Of(n)
    BY <1>1, <1>2 DEF RunPlaces, Empty, Granted, SharesFit
  <2> QED BY <1>1, <2>1, QuietRun
<1>4. WritersTypeOK'
  BY <1>1, <1>2, <1>3 DEF WritersTypeOK, DurableOK
<1>5. \A v \in Of(m) : exec'[v] = "none"
  BY <1>1, NoneBefore
<1>6. WaveFits(m)'
  <2> SUFFICES ASSUME NEW v \in wave[m]
               PROVE  (resumed[m] => claim[v] = "claimed") /\ v \notin launched
    BY <1>1, <1>3 DEF WaveFits
  <2>1. ClaimFits(v)
    BY <1>2 DEF WritersInv, SharesFit
  <2> QED BY <1>1, <2>1 DEF StillRunnable, Runnable, ClaimFits
<1>7. \A v \in Of(m) : ExecFits(m, v)'
  BY <1>5, NoExecs
<1>8. \A n \in Milestones : WaveFits(n)' /\ \A v \in Of(n) : ExecFits(n, v)'
  BY <1>1, <1>3, <1>6, <1>7, OthersStill
<1>9. (\A v \in Writers : ClaimFits(v)') /\ WriterCallsFit
  BY <1>1, ClaimsSame
<1> QED BY <1>3, <1>4, <1>8, <1>9, Together

LEMMA ClaimWaveHolds ==
    ASSUME WritersInv, NEW m \in Milestones, ClaimWave(m)
    PROVE  WavesHold
<1>1. /\ pc[m] = "admit" /\ pc' = RunAt(m, "start")
      /\ resumed[m] \/ Claimable(m)
      /\ claim' = [w \in Writers |-> IF w \in wave[m] THEN "claimed" ELSE claim[w]]
      /\ UNCHANGED <<life, task, review, stream, active, queue, governor, pending, todo,
                     wave, resumed, held, exec, launched, runs, troubles>>
  BY DEF ClaimWave, governor
<1>2. /\ WritersTypeOK
      /\ \A n \in Milestones : SharesFit(n) /\ Of(n) \in SUBSET Writers
  BY PlanFacts DEF WritersInv
<1>3. /\ pc' \in [Milestones -> RunPlaces] /\ pc'[m] = "start"
      /\ WithinLimits(active)' /\ QueueFits' /\ HeadDoesNotFit'
      /\ \A n \in Milestones : SharesFit(n)'
      /\ \A n \in Milestones \ {m} : Same(n)
  <2>1. /\ "start" \in RunPlaces \ {"waiting"} /\ "start" \notin Empty
        /\ held[m] \subseteq wave[m] /\ wave[m] \subseteq held[m] /\ wave[m] \subseteq Of(m)
        /\ \A n \in Milestones : pending'[n] \subseteq Of(n) /\ todo'[n] \subseteq Of(n)
    BY <1>1, <1>2 DEF RunPlaces, Empty, Granted, SharesFit
  <2> QED BY <1>1, <2>1, QuietRun
<1>4. WritersTypeOK'
  BY <1>1, <1>2, <1>3 DEF WritersTypeOK, DurableOK
<1>5. \A v \in Of(m) : exec[v] = "none" /\ exec'[v] = "none"
  BY <1>1, NoneBefore
<1>6. \A v \in wave[m] : v \in Of(m) /\ v \in Writers /\ v \notin launched
  BY <1>1, <1>2 DEF WritersInv, WaveFits, SharesFit
<1>7. WaveFits(m)'
  BY <1>1, <1>3, <1>6 DEF WaveFits
<1>8. \A v \in Of(m) : ExecFits(m, v)'
  BY <1>5, NoExecs
<1>9. \A v \in Writers : v \notin Of(m) => claim'[v] = claim[v]
  BY <1>1, <1>6
<1>10. \A n \in Milestones : WaveFits(n)' /\ \A v \in Of(n) : ExecFits(n, v)'
  BY <1>1, <1>3, <1>7, <1>8, <1>9, OthersStill
<1>11. ASSUME NEW v \in wave[m]
       PROVE  claim[v] \in {"none", "claimed"} /\ (claim[v] = "none" => Claimable(m))
  BY <1>1 DEF WritersInv, WaveFits, Claimable
<1>12. \A d \in Writers : claim[d] = "integrated" => claim'[d] = "integrated"
  BY <1>1, <1>11
<1>13. ASSUME NEW v \in Writers PROVE ClaimFits(v)'
  <2>1. ClaimFits(v) /\ DependsOnReview[v] \subseteq Writers /\ Planned(v)' = Planned(v)
    BY PlanAssumption DEF WritersInv, Planned, Of
  <2>2. CASE v \notin wave[m]
    <3>1. claim'[v] = claim[v]
      BY <1>1, <2>2
    <3> QED BY <1>1, <1>12, <2>1, <3>1 DEF ClaimFits
  <2>3. CASE v \in wave[m]
    <3>1. \A d \in DependsOnReview[v] : claim[d] = "integrated"
      <4>1. CASE claim[v] = "none"
        <5>1. \A d \in DependsOnReview[v] : review[d] = "completed"
          BY <1>11, <2>3, <4>1 DEF Claimable, DependenciesDone
        <5>2. \A d \in DependsOnReview[v] : ClaimFits(d)
          BY <2>1 DEF WritersInv
        <5> QED BY <5>1, <5>2 DEF ClaimFits
      <4>2. CASE claim[v] # "none"
        BY <2>1, <4>2 DEF ClaimFits
      <4> QED BY <4>1, <4>2
    <3>2. review[v] # "completed" /\ claim'[v] = "claimed"
      BY <1>1, <1>11, <2>1, <2>3 DEF ClaimFits
    <3> QED BY <1>1, <1>12, <2>1, <3>1, <3>2 DEF ClaimFits
  <2> QED BY <2>2, <2>3
<1>14. WriterCallsFit
  BY <1>1 DEF WriterCallsFit
<1> QED BY <1>3, <1>4, <1>10, <1>13, <1>14, Together

LEMMA LaunchHolds ==
    ASSUME WritersInv, NEW m \in Milestones, Launch(m)
    PROVE  WavesHold
<1>1. /\ pc[m] = "start" /\ pc' = RunAt(m, "wave")
      /\ \A w \in wave[m] : task[w] = "running"
      /\ exec' = [w \in Writers |-> IF w \in wave[m] THEN "called" ELSE exec[w]]
      /\ launched' = launched \union wave[m]
      /\ UNCHANGED <<life, task, review, claim, stream, active, queue, governor, pending, todo,
                     wave, resumed, held, runs, troubles>>
  BY DEF Launch, durable, governor
<1>2. /\ WritersTypeOK
      /\ \A n \in Milestones : SharesFit(n) /\ Of(n) \in SUBSET Writers
  BY PlanFacts DEF WritersInv
<1>3. /\ pc' \in [Milestones -> RunPlaces] /\ pc'[m] = "wave"
      /\ WithinLimits(active)' /\ QueueFits' /\ HeadDoesNotFit'
      /\ \A n \in Milestones : SharesFit(n)'
      /\ \A n \in Milestones \ {m} : Same(n)
  <2>1. /\ "wave" \in RunPlaces \ {"waiting"} /\ "wave" \notin Empty /\ "wave" \notin Granted
        /\ held[m] \subseteq wave[m] /\ wave[m] \subseteq held[m] /\ wave[m] \subseteq Of(m)
        /\ \A n \in Milestones : pending'[n] \subseteq Of(n) /\ todo'[n] \subseteq Of(n)
    BY <1>1, <1>2 DEF RunPlaces, Empty, Granted, SharesFit
  <2> QED BY <1>1, <2>1, QuietRun
<1>4. WritersTypeOK'
  <2>1. exec' \in [Writers -> ExecPlaces] /\ launched' \in SUBSET Writers
    BY <1>1, <1>2 DEF WritersTypeOK, ExecPlaces
  <2> QED BY <1>1, <1>2, <1>3, <2>1 DEF WritersTypeOK, DurableOK
<1>5. \A v \in Of(m) : exec[v] = "none" /\ v \in Writers
  BY <1>1, <1>2, NoneBefore
<1>6. \A v \in wave[m] : /\ v \in Of(m) /\ v \in Writers /\ v \notin launched
                         /\ claim[v] = "claimed" /\ v \in held[m]
  BY <1>1, <1>2 DEF WritersInv, WaveFits, SharesFit, Granted
<1>7. WaveFits(m)'
  BY <1>3 DEF WaveFits
<1>8. ASSUME NEW v \in Of(m) PROVE ExecFits(m, v)'
  BY <1>1, <1>3, <1>5, <1>6 DEF ExecFits, Dispatching
<1>9. ASSUME NEW n \in Milestones, n # m
      PROVE  WaveFits(n)' /\ \A v \in Of(n) : ExecFits(n, v)'
  <2>1. \A v \in Of(n) : v \notin wave[m] /\ v \in Writers
    BY <1>2, <1>6, <1>9, PlanFacts
  <2>2. \A v \in Of(n) : exec'[v] = exec[v] /\ claim'[v] = claim[v]
    BY <1>1, <2>1
  <2>3. \A v \in Of(n) : v \in launched' => v \in launched
    BY <1>1, <2>1
  <2>4. Same(n) /\ wave'[n] = wave[n] /\ resumed'[n] = resumed[n]
    BY <1>1, <1>3, <1>9
  <2> QED BY <2>2, <2>3, <2>4, Others
<1>10. \A n \in Milestones : Of(n)' = Of(n)
  BY DEF Of
<1>11. \A n \in Milestones : WaveFits(n)' /\ \A v \in Of(n) : ExecFits(n, v)'
  BY <1>7, <1>8, <1>9, <1>10
<1>12. ASSUME NEW v \in Writers PROVE ClaimFits(v)'
  <2>1. ClaimFits(v) /\ Planned(v)' = Planned(v)
    BY DEF WritersInv, Planned, Of
  <2>2. CASE v \in wave[m]
    BY <1>1, <1>6, <2>1, <2>2 DEF ClaimFits, Planned
  <2>3. CASE v \notin wave[m]
    BY <1>1, <2>1, <2>3 DEF ClaimFits
  <2> QED BY <2>2, <2>3
<1>13. WriterCallsFit
  BY <1>1, <1>6 DEF WriterCallsFit
<1> QED BY <1>3, <1>4, <1>11, <1>12, <1>13, Together

LEMMA NextPassHolds ==
    ASSUME WritersInv, NEW m \in Milestones, NextPass(m)
    PROVE  WavesHold
<1>1. CASE Top(m, pending[m]) = "idle"
  <2>1. Forget(m, {}) /\ UNCHANGED <<life, task, review, claim, stream>> /\ pc[m] # "waiting"
    BY <1>1 DEF NextPass, Return, durable
  <2>2. DurableOK'
    BY <2>1 DEF WritersInv, WritersTypeOK, DurableOK
  <2> QED BY <2>1, <2>2, ForgetStep
<1>2. CASE Top(m, pending[m]) # "idle"
  <2>1. /\ pc[m] = "again" /\ pc' = RunAt(m, "pass")
        /\ todo' = [todo EXCEPT ![m] = pending[m]]
        /\ UNCHANGED <<life, task, review, claim, stream, active, queue, governor, pending, wave,
                       resumed, held, exec, launched, runs, troubles>>
    BY <1>2 DEF NextPass, durable, governor
  <2>2. /\ WritersTypeOK
        /\ \A n \in Milestones : SharesFit(n) /\ Of(n) \in SUBSET Writers
    BY PlanFacts DEF WritersInv
  <2>3. /\ pc' \in [Milestones -> RunPlaces] /\ pc'[m] = "pass"
        /\ WithinLimits(active)' /\ QueueFits' /\ HeadDoesNotFit'
        /\ \A n \in Milestones : SharesFit(n)'
        /\ \A n \in Milestones \ {m} : Same(n)
    <3>1. /\ "pass" \in RunPlaces \ {"waiting"} /\ "pass" \in Empty /\ "pass" \notin Granted
          /\ held[m] = {} /\ wave[m] \subseteq Of(m)
          /\ \A n \in Milestones : pending'[n] \subseteq Of(n) /\ todo'[n] \subseteq Of(n)
      BY <2>1, <2>2 DEF RunPlaces, Empty, Granted, SharesFit, WritersTypeOK
    <3> QED BY <2>1, <3>1, QuietRun
  <2>4. WritersTypeOK'
    BY <2>1, <2>2, <2>3 DEF WritersTypeOK, DurableOK
  <2>5. \A v \in Of(m) : exec'[v] = "none"
    BY <2>1, NoneBefore
  <2>6. WaveFits(m)' /\ \A v \in Of(m) : ExecFits(m, v)'
    BY <2>3, <2>5, NoExecs DEF WaveFits
  <2>7. \A n \in Milestones : WaveFits(n)' /\ \A v \in Of(n) : ExecFits(n, v)'
    BY <2>1, <2>3, <2>6, OthersStill
  <2>8. (\A v \in Writers : ClaimFits(v)') /\ WriterCallsFit
    BY <2>1, ClaimsSame
  <2> QED BY <2>3, <2>4, <2>7, <2>8, Together
<1> QED BY <1>1, <1>2

(* The appends that end a claim.                                           *)
LEMMA IntegratedMoves ==
    ASSUME WritersInv, NEW w \in Writers, Integrated(w), claim[w] # "none"
    PROVE  DurableOK' /\ Moves(w, "none") /\ Moves(w, "settled") /\ Moves(w, "dealt")
<1>1. /\ claim' = [claim EXCEPT ![w] = "integrated"]
      /\ review' = [review EXCEPT ![w] = "completed"]
      /\ UNCHANGED <<life, task, stream>> /\ DurableOK
  BY DEF Integrated, WritersInv, WritersTypeOK
<1>2. DurableOK'
  BY <1>1 DEF DurableOK, TaskStages
<1> QED BY <1>1, <1>2 DEF Moves, DurableOK

(* A release ends the claim of the writer, whichever state its execution   *)
(* is in.                                                                  *)
LEMMA ReleasedMoves ==
    ASSUME WritersInv, NEW w \in Writers, Released(w), claim[w] = "claimed"
    PROVE  DurableOK' /\ Moves(w, "none") /\ Moves(w, "settled") /\ Moves(w, "dealt")
<1>1. /\ claim' = [claim EXCEPT ![w] = "released"]
      /\ task' = [task EXCEPT ![w] = IF @ = "running" THEN "failed" ELSE @]
      /\ review' = [review EXCEPT ![w] = IF @ = "running" THEN "failed" ELSE @]
      /\ UNCHANGED <<life, stream>> /\ DurableOK /\ ClaimFits(w)
  BY DEF Released, WritersInv, WritersTypeOK
<1>2. DurableOK'
  BY <1>1 DEF DurableOK, TaskStages
<1> QED BY <1>1, <1>2 DEF Moves, DurableOK, ClaimFits

LEMMA StillMoves ==
    ASSUME WritersInv, NEW w \in Writers, UNCHANGED <<life, task, review, claim, stream>>
    PROVE  DurableOK' /\ Moves(w, "none") /\ Moves(w, "settled") /\ Moves(w, "dealt")
<1>1. DurableOK /\ ClaimFits(w)
  BY DEF WritersInv, WritersTypeOK
<1> QED BY <1>1 DEF Moves, DurableOK, ClaimFits

LEMMA ApproachHolds ==
    ASSUME WritersInv, NEW m \in Milestones, NEW w \in Writers, Approach(m, w)
    PROVE  WavesHold
<1>1. /\ UNCHANGED <<life, claim, stream, governor, pc, pending, todo, wave,
                     resumed, held, exec, launched, runs, troubles>>
      /\ WritersTypeOK /\ DurableOK
  BY DEF Approach, WritersInv, WritersTypeOK
<1>2. /\ DurableOK'
      /\ \A v \in Writers \ {w} : task'[v] = task[v] /\ review'[v] = review[v]
      /\ review'[w] = "completed" <=> review[w] = "completed"
      /\ task'[w] \in {"planned", "ready"} => task[w] \in {"planned", "ready"}
  BY <1>1 DEF Approach, DurableOK, TaskStages
<1>3. runs' \in [Milestones -> Nat] /\ troubles' \in Nat
  BY <1>1 DEF WritersTypeOK
<1> QED BY <1>1, <1>2, <1>3, DurableStep

(* A run that ends gives back what its permit holds.                       *)
LEMMA ReturnHolds ==
    ASSUME WritersInv, NEW m \in Milestones, NEW freed \in SUBSET Of(m), Forget(m, freed),
           pc[m] # "waiting", UNCHANGED durable
    PROVE  WavesHold
<1>1. UNCHANGED <<life, task, review, claim, stream>>
  BY DEF durable
<1>2. DurableOK'
  BY <1>1 DEF WritersInv, WritersTypeOK, DurableOK
<1> QED BY <1>1, <1>2, ForgetStep

LEMMA ResumeHandoffHolds ==
    ASSUME WritersInv, NEW m \in Milestones, NEW w \in Of(m), ResumeHandoff(m, w)
    PROVE  WavesHold
<1>1. /\ pc[m] \in {"pass", "again"} /\ claim[w] = "claimed" /\ w \in Writers
      /\ \A n \in Milestones : SharesFit(n) /\ Of(n) \in SUBSET Writers
      /\ WritersTypeOK
  BY PlanFacts DEF ResumeHandoff, Passing, Interrupted, WritersInv
<1>2. CASE Approach(m, w)
  BY <1>1, <1>2, ApproachHolds
<1>3. CASE Return(m)
  <2>1. {} \in SUBSET Of(m) /\ Forget(m, {}) /\ UNCHANGED durable
    BY <1>3 DEF Return
  <2> QED BY <1>1, <2>1, ReturnHolds
<1>4. CASE /\ pc' = RunAt(m, "resume")
           /\ exec' = [exec EXCEPT ![w] = "resuming"]
           /\ UNCHANGED <<durable, governor, pending, todo, wave, resumed, held,
                          launched, runs, troubles>>
  <2>1. UNCHANGED <<life, task, review, claim, stream, active, queue, governor, pending, todo,
                    wave, resumed, held, launched, runs, troubles>>
    BY <1>4 DEF durable, governor
  <2>2. /\ pc' \in [Milestones -> RunPlaces] /\ pc'[m] = "resume"
        /\ WithinLimits(active)' /\ QueueFits' /\ HeadDoesNotFit'
        /\ \A n \in Milestones : SharesFit(n)'
        /\ \A n \in Milestones \ {m} : Same(n)
    <3>1. /\ "resume" \in RunPlaces \ {"waiting"} /\ "resume" \notin Granted
          /\ held[m] = {} /\ wave[m] \subseteq Of(m)
          /\ \A n \in Milestones : pending'[n] \subseteq Of(n) /\ todo'[n] \subseteq Of(n)
      BY <1>1, <2>1 DEF RunPlaces, Empty, Granted, SharesFit
    <3> QED BY <1>1, <1>4, <2>1, <3>1, QuietRun
  <2>3. exec' \in [Writers -> ExecPlaces]
    BY <1>1, <1>4 DEF WritersTypeOK, ExecPlaces
  <2>4. WritersTypeOK'
    BY <1>1, <2>1, <2>2, <2>3 DEF WritersTypeOK, DurableOK
  <2>5. /\ exec'[w] = "resuming" /\ \A v \in Writers \ {w} : exec'[v] = exec[v]
        /\ \A v \in Of(m) : exec[v] = "none" /\ v \in Writers
    BY <1>1, <1>4, NoneBefore DEF WritersTypeOK
  <2>6. WaveFits(m)' /\ \A v \in Of(m) : ExecFits(m, v)'
    BY <1>1, <2>2, <2>5 DEF WaveFits, ExecFits, Dispatching
  <2>7. ASSUME NEW n \in Milestones, n # m
        PROVE  WaveFits(n)' /\ \A v \in Of(n) : ExecFits(n, v)'
    <3>1. \A v \in Of(n) : v \in Writers /\ v # w
      BY <1>1, <2>7, PlanFacts
    <3>2. Same(n) /\ wave'[n] = wave[n] /\ resumed'[n] = resumed[n]
      BY <2>1, <2>2, <2>7
    <3>3. \A v \in Of(n) : claim'[v] = claim[v] /\ exec'[v] = exec[v]
      BY <2>1, <2>5, <3>1
    <3> QED BY <2>1, <3>2, <3>3, Others
  <2>8. \A n \in Milestones : Of(n)' = Of(n)
    BY DEF Of
  <2>9. \A v \in Writers : ClaimFits(v)'
    <3>1. ClaimFits(w)
      BY <1>1 DEF WritersInv
    <3> QED BY <1>1, <2>1, <2>5, <3>1, ClaimsMove DEF ClaimFits, Planned
  <2>10. WriterCallsFit
    BY <2>5 DEF WriterCallsFit
  <2>11. \A n \in Milestones : WaveFits(n)' /\ \A v \in Of(n) : ExecFits(n, v)'
    BY <2>6, <2>7, <2>8
  <2> QED BY <2>2, <2>4, <2>9, <2>10, <2>11, Together
<1> QED BY <1>2, <1>3, <1>4 DEF ResumeHandoff

LEMMA ResumeReturnsHolds ==
    ASSUME WritersInv, NEW m \in Milestones, NEW w \in Of(m), ResumeReturns(m, w)
    PROVE  WavesHold
<1>1. /\ pc[m] = "resume" /\ exec[w] = "returned" /\ pc' = RunAt(m, "again")
      /\ pending' = [pending EXCEPT ![m] = @ \ {w}]
      /\ todo' = [todo EXCEPT ![m] = @ \ {w}]
      /\ exec' = [exec EXCEPT ![w] = "none"]
      /\ UNCHANGED <<active, queue, governor, wave, resumed, held, launched, runs, troubles>>
  BY DEF ResumeReturns, governor
<1>2. /\ WritersTypeOK /\ w \in Writers
      /\ \A n \in Milestones : SharesFit(n) /\ Of(n) \in SUBSET Writers
  BY PlanFacts DEF WritersInv
<1>3. claim[w] = "claimed" /\ \A v \in Of(m) \ {w} : exec[v] = "none"
  BY <1>1, <1>2 DEF WritersInv, ClaimFits, ExecFits
<1>4. DurableOK' /\ Moves(w, "none")
  <2>1. CASE Integrated(w)
    BY <1>2, <1>3, <2>1, IntegratedMoves
  <2>2. CASE Released(w)
    BY <1>2, <1>3, <2>2, ReleasedMoves
  <2>3. CASE UNCHANGED durable
    BY <1>2, <2>3, StillMoves DEF durable
  <2> QED BY <2>1, <2>2, <2>3 DEF ResumeReturns
<1>5. /\ pc' \in [Milestones -> RunPlaces] /\ pc'[m] = "again"
      /\ WithinLimits(active)' /\ QueueFits' /\ HeadDoesNotFit'
      /\ \A n \in Milestones : SharesFit(n)'
      /\ \A n \in Milestones \ {m} : Same(n)
  <2>1. /\ "again" \in RunPlaces \ {"waiting"} /\ "again" \notin Granted
        /\ held[m] = {} /\ wave[m] \subseteq Of(m)
        /\ \A n \in Milestones : pending'[n] \subseteq Of(n) /\ todo'[n] \subseteq Of(n)
    BY <1>1, <1>2 DEF RunPlaces, Empty, Granted, SharesFit, WritersTypeOK
  <2> QED BY <1>1, <1>2, <2>1, QuietRun
<1>6. WritersTypeOK'
  BY <1>1, <1>2, <1>4, <1>5 DEF WritersTypeOK, ExecPlaces
<1>7. exec'[w] = "none" /\ \A v \in Writers \ {w} : exec'[v] = exec[v]
  BY <1>1, <1>2 DEF WritersTypeOK
<1>8. \A v \in Of(m) : exec'[v] = "none"
  BY <1>2, <1>3, <1>7
<1>9. WaveFits(m)' /\ \A v \in Of(m) : ExecFits(m, v)'
  BY <1>5, <1>8, NoExecs DEF WaveFits
<1>10. ASSUME NEW n \in Milestones, n # m
       PROVE  WaveFits(n)' /\ \A v \in Of(n) : ExecFits(n, v)'
  <2>1. \A v \in Of(n) : v \in Writers /\ v # w
    BY <1>2, <1>10, PlanFacts
  <2>2. Same(n) /\ wave'[n] = wave[n] /\ resumed'[n] = resumed[n]
    BY <1>1, <1>5, <1>10
  <2>3. \A v \in Of(n) : claim'[v] = claim[v] /\ exec'[v] = exec[v]
    BY <1>4, <1>7, <2>1 DEF Moves
  <2> QED BY <1>1, <2>2, <2>3, Others
<1>11. \A n \in Milestones : Of(n)' = Of(n)
  BY DEF Of
<1>12. \A n \in Milestones : WaveFits(n)' /\ \A v \in Of(n) : ExecFits(n, v)'
  BY <1>9, <1>10, <1>11
<1>13. \A v \in Writers : ClaimFits(v)'
  BY <1>1, <1>2, <1>4, <1>7, ClaimsMove DEF Moves
<1>14. WriterCallsFit
  BY <1>7 DEF WriterCallsFit
<1> QED BY <1>5, <1>6, <1>12, <1>13, <1>14, Together

LEMMA WaveReturnsHolds ==
    ASSUME WritersInv, NEW m \in Milestones, WaveReturns(m)
    PROVE  WavesHold
<1> DEFINE left == pending[m] \ wave[m]
<1>0. pc[m] = "wave"
  BY DEF WaveReturns, WaveOver
<1>1. CASE Return(m)
  <2>1. {} \in SUBSET Of(m) /\ Forget(m, {}) /\ UNCHANGED durable
    BY <1>1 DEF Return
  <2> QED BY <1>0, <2>1, ReturnHolds
<1>2. CASE /\ pc' = RunAt(m, "pass")
           /\ pending' = [pending EXCEPT ![m] = left]
           /\ todo' = [todo EXCEPT ![m] = left]
           /\ exec' = [w \in Writers |-> IF w \in wave[m] THEN "none" ELSE exec[w]]
           /\ wave' = [wave EXCEPT ![m] = {}]
           /\ resumed' = [resumed EXCEPT ![m] = FALSE]
           /\ held' = [held EXCEPT ![m] = {}]
           /\ UNCHANGED <<durable, governor, launched, runs, troubles>>
  <2>1. UNCHANGED <<life, task, review, claim, stream, active, queue, governor,
                    launched, runs, troubles>>
    BY <1>2 DEF durable, governor
  <2>2. /\ WritersTypeOK
        /\ \A n \in Milestones : SharesFit(n) /\ Of(n) \in SUBSET Writers
    BY PlanFacts DEF WritersInv
  <2>3. /\ pc' \in [Milestones -> RunPlaces] /\ pc'[m] = "pass"
        /\ WithinLimits(active)' /\ QueueFits' /\ HeadDoesNotFit'
        /\ \A n \in Milestones : SharesFit(n)'
        /\ \A n \in Milestones \ {m} : Same(n)
    <3>1. /\ "pass" \in RunPlaces \ {"waiting"} /\ "pass" \notin Granted
          /\ held'[m] = {} /\ wave'[m] = {}
          /\ \A n \in Milestones \ {m} : wave'[n] = wave[n] /\ held'[n] = held[n]
          /\ \A n \in Milestones : pending'[n] \subseteq Of(n) /\ todo'[n] \subseteq Of(n)
      BY <1>2, <2>2 DEF RunPlaces, Granted, SharesFit, WritersTypeOK
    <3> QED BY <1>0, <1>2, <2>1, <3>1, QuietRun
  <2>4. exec' \in [Writers -> ExecPlaces]
    BY <1>2, <2>2 DEF WritersTypeOK, ExecPlaces
  <2>5. WritersTypeOK'
    BY <1>2, <2>1, <2>2, <2>3, <2>4 DEF WritersTypeOK, DurableOK
  <2>6. \A v \in Of(m) : exec'[v] = "none"
    BY <1>0, <1>2, <2>2 DEF WritersInv, ExecFits
  <2>7. WaveFits(m)' /\ \A v \in Of(m) : ExecFits(m, v)'
    BY <2>3, <2>6, NoExecs DEF WaveFits
  <2>8. ASSUME NEW n \in Milestones, n # m
        PROVE  WaveFits(n)' /\ \A v \in Of(n) : ExecFits(n, v)'
    <3>1. \A v \in Of(n) : v \in Writers /\ v \notin wave[m]
      BY <2>2, <2>8, PlanFacts DEF SharesFit
    <3>2. Same(n) /\ wave'[n] = wave[n] /\ resumed'[n] = resumed[n]
      BY <1>2, <2>2, <2>3, <2>8 DEF WritersTypeOK
    <3>3. \A v \in Of(n) : claim'[v] = claim[v] /\ exec'[v] = exec[v]
      BY <1>2, <2>1, <3>1
    <3> QED BY <2>1, <3>2, <3>3, Others
  <2>9. \A n \in Milestones : Of(n)' = Of(n)
    BY DEF Of
  <2>10. \A n \in Milestones : WaveFits(n)' /\ \A v \in Of(n) : ExecFits(n, v)'
    BY <2>7, <2>8, <2>9
  <2>11. (\A v \in Writers : ClaimFits(v)') /\ WriterCallsFit
    <3>1. \A v \in Writers : exec'[v] = exec[v] \/ exec'[v] = "none"
      BY <1>2
    <3> QED BY <2>1, <3>1, ClaimsSame
  <2> QED BY <2>3, <2>5, <2>10, <2>11, Together
<1> QED BY <1>1, <1>2 DEF WaveReturns


(* A milestone joins the queue.                                            *)
LEMMA Joins ==
    ASSUME WritersInv, NEW m \in Milestones, pc[m] # "waiting"
    PROVE  /\ Append(queue, m) \in Seq(Milestones)
           /\ Waits(Append(queue, m), [pc EXCEPT ![m] = "waiting"])
<1> DEFINE q == Append(queue, m)
           at == [pc EXCEPT ![m] = "waiting"]
<1>1. /\ queue \in Seq(Milestones) /\ pc \in [Milestones -> RunPlaces]
      /\ \A n \in Milestones : pc[n] = "waiting" <=> \E i \in DOMAIN queue : queue[i] = n
      /\ \A i, j \in DOMAIN queue : queue[i] = queue[j] => i = j
  BY DEF WritersInv, WritersTypeOK, QueueFits, Waits
<1>2. PICK len \in Nat : len = Len(queue) /\ DOMAIN queue = 1..len
  BY <1>1, LenProperties
<1>3. /\ q \in Seq(Milestones) /\ DOMAIN q = 1..(len + 1)
      /\ q[len + 1] = m /\ \A i \in 1..len : q[i] = queue[i]
  <2>1. /\ q \in Seq(Milestones) /\ Len(q) = len + 1
        /\ \A i \in 1..Len(queue) : q[i] = queue[i] /\ q[Len(queue) + 1] = m
    BY <1>1, <1>2, AppendProperties
  <2>2. q[len + 1] = m /\ \A i \in 1..len : q[i] = queue[i]
    BY <1>1, <1>2, AppendProperties
  <2> HIDE DEF q
  <2> QED BY <2>1, <2>2, LenProperties
<1>4. /\ at[m] = "waiting" /\ \A n \in Milestones \ {m} : at[n] = pc[n]
  BY <1>1
<1>5. \A i \in 1..len : queue[i] # m /\ queue[i] \in Milestones
  BY <1>1, <1>2
<1>6. \A i \in 1..(len + 1) : i \in 1..len \/ i = len + 1
  BY <1>2
<1>7. len + 1 \in 1..(len + 1) /\ \A i \in 1..len : i \in 1..(len + 1)
  BY <1>2
<1> HIDE DEF q, at
<1>8. ASSUME NEW n \in Milestones
      PROVE  at[n] = "waiting" <=> \E i \in DOMAIN q : q[i] = n
  <2>1. CASE n = m
    BY <1>3, <1>4, <1>7, <2>1
  <2>2. CASE n # m
    BY <1>1, <1>2, <1>3, <1>4, <1>6, <1>7, <2>2
  <2> QED BY <2>1, <2>2
<1>9. ASSUME NEW i \in DOMAIN q, NEW j \in DOMAIN q, q[i] = q[j] PROVE i = j
  BY <1>1, <1>2, <1>3, <1>5, <1>6, <1>9
<1>10. Waits(q, at)
  BY <1>8, <1>9 DEF Waits
<1> QED BY <1>3, <1>10 DEF q, at

(* A milestone leaves the queue, wherever it is.                           *)
LEMMA Leaves ==
    ASSUME WritersInv, NEW m \in Milestones
    PROVE  /\ Without(queue, m) \in Seq(Milestones)
           /\ Waits(Without(queue, m), [pc EXCEPT ![m] = "idle"])
<1> DEFINE at == [pc EXCEPT ![m] = "idle"]
<1>1. /\ queue \in Seq(Milestones) /\ pc \in [Milestones -> RunPlaces]
      /\ \A n \in Milestones : pc[n] = "waiting" <=> \E i \in DOMAIN queue : queue[i] = n
      /\ \A i, j \in DOMAIN queue : queue[i] = queue[j] => i = j
  BY DEF WritersInv, WritersTypeOK, QueueFits, Waits
<1>2. /\ at[m] = "idle" /\ \A n \in Milestones \ {m} : at[n] = pc[n]
  BY <1>1
<1> HIDE DEF at
<1>3. CASE pc[m] # "waiting"
  <2>1. Without(queue, m) = queue
    BY <1>3 DEF Without
  <2>2. \A i \in DOMAIN queue : queue[i] # m
    BY <1>1, <1>3
  <2>3. Waits(queue, at)
    BY <1>1, <1>2, <2>2 DEF Waits
  <2> QED BY <1>1, <2>1, <2>3 DEF at
<1>4. CASE pc[m] = "waiting"
  <2>1. PICK len \in Nat : len = Len(queue) /\ DOMAIN queue = 1..len
    BY <1>1, LenProperties
  <2>2. PICK k \in 1..len : /\ queue[k] = m
                            /\ Without(queue, m) = SubSeq(queue, 1, k - 1) \o SubSeq(queue, k + 1, len)
    <3> DEFINE k0 == CHOOSE i \in DOMAIN queue : queue[i] = m
    <3>1. k0 \in 1..len /\ queue[k0] = m
      BY <1>1, <1>4, <2>1
    <3>2. Without(queue, m) = SubSeq(queue, 1, k0 - 1) \o SubSeq(queue, k0 + 1, len)
      BY <1>4, <2>1 DEF Without
    <3> HIDE DEF k0
    <3> QED BY <3>1, <3>2
  <2>3. PICK front, rest :
          /\ front = SubSeq(queue, 1, k - 1) /\ rest = SubSeq(queue, k + 1, len)
          /\ front \in Seq(Milestones) /\ Len(front) = k - 1
          /\ \A i \in 1..(k - 1) : front[i] = queue[i]
          /\ rest \in Seq(Milestones) /\ Len(rest) = len - k
          /\ \A i \in 1..(len - k) : rest[i] = queue[k + i]
    <3>1. /\ SubSeq(queue, 1, k - 1) \in Seq(Milestones)
          /\ Len(SubSeq(queue, 1, k - 1)) = k - 1
          /\ \A i \in 1..(k - 1) : SubSeq(queue, 1, k - 1)[i] = queue[i]
      <4>1. 1 \in Int /\ k - 1 \in Int /\ \A i \in 1..(k - 1) : queue[i] \in Milestones
        BY <1>1, <2>1
      <4>2. /\ SubSeq(queue, 1, k - 1) \in Seq(Milestones)
            /\ Len(SubSeq(queue, 1, k - 1)) = IF 1 <= k - 1 THEN (k - 1) - 1 + 1 ELSE 0
            /\ \A i \in 1..((k - 1) - 1 + 1) : SubSeq(queue, 1, k - 1)[i] = queue[1 + i - 1]
        BY <4>1, SubSeqProperties
      <4>3. /\ (k - 1) - 1 + 1 = k - 1 /\ (~(1 <= k - 1) => k - 1 = 0)
            /\ \A i \in 1..(k - 1) : 1 + i - 1 = i
        BY <2>1
      <4> QED BY <4>2, <4>3
    <3>2. /\ SubSeq(queue, k + 1, len) \in Seq(Milestones)
          /\ Len(SubSeq(queue, k + 1, len)) = len - k
          /\ \A i \in 1..(len - k) : SubSeq(queue, k + 1, len)[i] = queue[k + i]
      <4>1. k + 1 \in Int /\ len \in Int /\ \A i \in (k + 1)..len : queue[i] \in Milestones
        BY <1>1, <2>1
      <4>2. /\ SubSeq(queue, k + 1, len) \in Seq(Milestones)
            /\ Len(SubSeq(queue, k + 1, len)) = IF k + 1 <= len THEN len - (k + 1) + 1 ELSE 0
            /\ \A i \in 1..(len - (k + 1) + 1) :
                 SubSeq(queue, k + 1, len)[i] = queue[(k + 1) + i - 1]
        BY <4>1, SubSeqProperties
      <4>3. /\ len - (k + 1) + 1 = len - k /\ (~(k + 1 <= len) => len - k = 0)
            /\ \A i \in 1..(len - k) : (k + 1) + i - 1 = k + i
        BY <2>1
      <4> QED BY <4>2, <4>3
    <3> QED BY <3>1, <3>2
  <2>4. PICK q : q = front \o rest
    OBVIOUS
  <2>5. /\ q = Without(queue, m) /\ q \in Seq(Milestones)
        /\ DOMAIN q = 1..(len - 1)
        /\ \A i \in 1..(len - 1) : q[i] = IF i < k THEN queue[i] ELSE queue[i + 1]
    <3>1. q \in Seq(Milestones)
      BY <2>3, <2>4, ConcatProperties
    <3>2. Len(q) = (k - 1) + (len - k)
      BY <2>3, <2>4, ConcatProperties
    <3>3. \A i \in 1..((k - 1) + (len - k)) :
             q[i] = IF i <= k - 1 THEN front[i] ELSE rest[i - (k - 1)]
      <4>1. \A i \in 1..(Len(front) + Len(rest)) :
               (front \o rest)[i] = IF i <= Len(front) THEN front[i] ELSE rest[i - Len(front)]
        BY <2>3, ConcatProperties
      <4> QED BY <2>3, <2>4, <4>1
    <3>4. (k - 1) + (len - k) = len - 1
      BY <2>1
    <3>5. ASSUME NEW i \in 1..(len - 1)
          PROVE  q[i] = IF i < k THEN queue[i] ELSE queue[i + 1]
      <4>1. CASE i < k
        <5>1. i <= k - 1 /\ i \in 1..(k - 1)
          BY <2>1, <4>1
        <5> QED BY <2>3, <3>3, <3>4, <4>1, <5>1
      <4>2. CASE ~(i < k)
        <5>1. ~(i <= k - 1) /\ i - (k - 1) \in 1..(len - k) /\ k + (i - (k - 1)) = i + 1
          BY <2>1, <4>2
        <5> QED BY <2>3, <3>3, <3>4, <4>2, <5>1
      <4> QED BY <4>1, <4>2
    <3> QED BY <2>2, <2>3, <2>4, <3>1, <3>2, <3>4, <3>5, LenProperties
  <2>6. PICK old : old = [i \in 1..(len - 1) |-> IF i < k THEN i ELSE i + 1]
    OBVIOUS
  <2>7. /\ \A i \in 1..(len - 1) : old[i] \in 1..len /\ old[i] # k /\ q[i] = queue[old[i]]
        /\ \A i, j \in 1..(len - 1) : old[i] = old[j] => i = j
        /\ \A j \in 1..len : j # k => \E i \in 1..(len - 1) : old[i] = j
    <3>1. \A i \in 1..(len - 1) : old[i] \in 1..len /\ old[i] # k /\ q[i] = queue[old[i]]
      BY <2>1, <2>5, <2>6
    <3>2. \A i, j \in 1..(len - 1) : old[i] = old[j] => i = j
      BY <2>1, <2>6
    <3>3. ASSUME NEW j \in 1..len, j # k PROVE \E i \in 1..(len - 1) : old[i] = j
      <4>1. CASE j < k
        <5>1. j \in 1..(len - 1)
          BY <2>1, <4>1
        <5> QED BY <2>6, <4>1, <5>1
      <4>2. CASE ~(j < k)
        <5>1. j - 1 \in 1..(len - 1) /\ ~(j - 1 < k) /\ (j - 1) + 1 = j
          BY <2>1, <3>3, <4>2
        <5> QED BY <2>6, <5>1
      <4> QED BY <4>1, <4>2
    <3> QED BY <3>1, <3>2, <3>3
  <2>8. ASSUME NEW n \in Milestones
        PROVE  at[n] = "waiting" <=> \E i \in DOMAIN q : q[i] = n
    <3>1. CASE n = m
      <4>1. ASSUME NEW i \in 1..(len - 1) PROVE q[i] # m
        <5>1. old[i] \in 1..len /\ old[i] # k /\ q[i] = queue[old[i]]
          BY <2>7
        <5> QED BY <1>1, <2>1, <2>2, <5>1
      <4> QED BY <1>2, <2>5, <3>1, <4>1
    <3>2. CASE n # m
      <4>1. at[n] = "waiting" <=> \E j \in 1..len : queue[j] = n
        BY <1>1, <1>2, <2>1, <3>2
      <4>2. ASSUME NEW j \in 1..len, queue[j] = n PROVE \E i \in 1..(len - 1) : q[i] = n
        <5>1. j # k
          BY <2>2, <3>2, <4>2
        <5>2. PICK i \in 1..(len - 1) : old[i] = j
          BY <2>7, <5>1
        <5> QED BY <2>7, <4>2, <5>2
      <4>3. ASSUME NEW i \in 1..(len - 1), q[i] = n PROVE \E j \in 1..len : queue[j] = n
        BY <2>7, <4>3
      <4> QED BY <2>5, <4>1, <4>2, <4>3
    <3> QED BY <3>1, <3>2
  <2>9. ASSUME NEW i \in DOMAIN q, NEW j \in DOMAIN q, q[i] = q[j] PROVE i = j
    <3>1. i \in 1..(len - 1) /\ j \in 1..(len - 1)
      BY <2>5
    <3>2. /\ old[i] \in DOMAIN queue /\ old[j] \in DOMAIN queue
          /\ queue[old[i]] = queue[old[j]]
      BY <2>1, <2>7, <2>9, <3>1
    <3>3. old[i] = old[j]
      BY <1>1, <3>2
    <3> QED BY <2>7, <3>1, <3>3
  <2>10. Waits(q, at)
    BY <2>8, <2>9 DEF Waits
  <2> QED BY <2>5, <2>10 DEF at
<1> QED BY <1>3, <1>4


(* The wave of a milestone is one of its writers'.                         *)
LEMMA SelectedOf ==
    ASSUME NEW m \in Milestones
    PROVE  SelectWave(m) \subseteq pending[m]
BY DEF SelectWave, Eligible

LEMMA SelectHolds ==
    ASSUME WritersInv, NEW m \in Milestones, Select(m)
    PROVE  WavesHold
<1>1. PICK ws, waves, claimed :
        /\ claimed = {w \in pending[m] : claim[w] = "claimed"}
        /\ ws = IF claimed = {} THEN SelectWave(m) ELSE {w \in claimed : task[w] = "ready"}
        /\ waves = [wave EXCEPT ![m] = ws]
  OBVIOUS
<1>2. pc[m] = "pass"
  BY DEF Select
<1>3. \/ Return(m)
      \/ /\ \/ /\ ws \subseteq active
               /\ Govern(active, queue, RunAt(m, "granted"), [held EXCEPT ![m] = ws], waves)
            \/ Govern(active, Append(queue, m), RunAt(m, "waiting"), held, waves)
         /\ wave' = waves
         /\ resumed' = [resumed EXCEPT ![m] = claimed # {}]
         /\ todo' = [todo EXCEPT ![m] = {}]
         /\ UNCHANGED <<durable, pending, exec, launched, runs, troubles>>
  BY <1>1 DEF Select
<1>4. CASE Return(m)
  <2>1. {} \in SUBSET Of(m) /\ Forget(m, {}) /\ UNCHANGED durable
    BY <1>4 DEF Return
  <2> QED BY <1>2, <2>1, ReturnHolds
<1>5. CASE /\ \/ /\ ws \subseteq active
                 /\ Govern(active, queue, RunAt(m, "granted"), [held EXCEPT ![m] = ws], waves)
              \/ Govern(active, Append(queue, m), RunAt(m, "waiting"), held, waves)
           /\ wave' = waves
           /\ resumed' = [resumed EXCEPT ![m] = claimed # {}]
           /\ todo' = [todo EXCEPT ![m] = {}]
           /\ UNCHANGED <<durable, pending, exec, launched, runs, troubles>>
  <2>1. UNCHANGED <<life, task, review, claim, stream, pending, exec, launched, runs, troubles>>
    BY <1>5 DEF durable
  <2>2. /\ WritersTypeOK /\ QueueFits /\ held[m] = {} /\ pc[m] # "waiting"
        /\ \A n \in Milestones : SharesFit(n) /\ Of(n) \in SUBSET Writers
    BY <1>2, PlanFacts DEF WritersInv, SharesFit, Empty
  <2>3. ws \in SUBSET Of(m) /\ ws \in SUBSET Writers
    BY <1>1, <2>2, SelectedOf DEF SharesFit
  <2>4. /\ waves \in [Milestones -> SUBSET Writers] /\ waves[m] = ws
        /\ \A n \in Milestones \ {m} : waves[n] = wave[n]
        /\ wave' = waves
    BY <1>1, <1>5, <2>2, <2>3 DEF WritersTypeOK
  <2>5. /\ pending' \in [Milestones -> SUBSET Writers] /\ todo' \in [Milestones -> SUBSET Writers]
        /\ \A n \in Milestones : pending'[n] \subseteq Of(n) /\ todo'[n] \subseteq Of(n)
    BY <1>5, <2>1, <2>2 DEF SharesFit, WritersTypeOK
  <2>6. /\ active' \in SUBSET Writers /\ queue' \in Seq(Milestones)
        /\ pc' \in [Milestones -> RunPlaces] /\ held' \in [Milestones -> SUBSET Writers]
        /\ WithinLimits(active)' /\ QueueFits' /\ HeadDoesNotFit'
        /\ \A n \in Milestones : SharesFit(n)'
        /\ \A n \in Milestones \ {m} : Same(n)
        /\ pc'[m] \in {"waiting", "granted"}
    <3>1. CASE /\ ws \subseteq active
               /\ Govern(active, queue, RunAt(m, "granted"), [held EXCEPT ![m] = ws], waves)
      <4> DEFINE place == "granted"
                 out == {}
                 hold == ws
      <4>0. Waits(queue, [pc EXCEPT ![m] = place]) /\ active \ out = active
        BY <2>2 DEF WritersTypeOK, QueueFits, Waits
      <4>1. Called(m, out, queue, place, hold, wave', active, pc, held, wave,
                   active', queue', pc', held', wave', pending', todo')
        BY <2>2, <2>3, <2>4, <2>5, <3>1, <4>0 DEF Govern, Grants, RunAt, Empty, RunPlaces, WritersTypeOK, Called
      <4>2. place = "granted"
        OBVIOUS
      <4> HIDE DEF place, hold, out
      <4>3. /\ active' \in SUBSET Writers /\ queue' \in Seq(Milestones)
            /\ pc' \in [Milestones -> RunPlaces] /\ held' \in [Milestones -> SUBSET Writers]
            /\ WithinLimits(active)' /\ QueueFits' /\ HeadDoesNotFit'
            /\ \A n \in Milestones : SharesFit(n)'
            /\ \A n \in Milestones \ {m} : Same(n)
            /\ (place # "waiting" => pc'[m] = place /\ held'[m] = hold)
            /\ (place = "waiting" => pc'[m] \in {"waiting", "granted"})
        BY <4>1, GovernStep
      <4> QED BY <4>2, <4>3
    <3>2. CASE Govern(active, Append(queue, m), RunAt(m, "waiting"), held, waves)
      <4> DEFINE place == "waiting"
                 out == {}
                 hold == {}
                 q == Append(queue, m)
      <4>0. /\ q \in Seq(Milestones) /\ Waits(q, [pc EXCEPT ![m] = place])
            /\ active \ out = active /\ [held EXCEPT ![m] = hold] = held
        BY <2>2, Joins DEF WritersTypeOK
      <4>4. Grants(active \ out, q, [pc EXCEPT ![m] = place], [held EXCEPT ![m] = hold], wave',
                   active', queue', pc', held')
        <5>1. Grants(active, Append(queue, m), [pc EXCEPT ![m] = "waiting"], held, waves,
                     active', queue', pc', held')
          BY <3>2 DEF Govern, Grants, RunAt
        <5> QED BY <2>4, <4>0, <5>1
      <4> HIDE DEF q
      <4>1. Called(m, out, q, place, hold, wave', active, pc, held, wave,
                   active', queue', pc', held', wave', pending', todo')
        BY <2>2, <2>3, <2>4, <2>5, <4>0, <4>4 DEF Granted, RunPlaces, WritersTypeOK, Called
      <4>2. place = "waiting"
        OBVIOUS
      <4> HIDE DEF place, hold, out
      <4>3. /\ active' \in SUBSET Writers /\ queue' \in Seq(Milestones)
            /\ pc' \in [Milestones -> RunPlaces] /\ held' \in [Milestones -> SUBSET Writers]
            /\ WithinLimits(active)' /\ QueueFits' /\ HeadDoesNotFit'
            /\ \A n \in Milestones : SharesFit(n)'
            /\ \A n \in Milestones \ {m} : Same(n)
            /\ (place # "waiting" => pc'[m] = place /\ held'[m] = hold)
            /\ (place = "waiting" => pc'[m] \in {"waiting", "granted"})
        BY <4>1, GovernStep
      <4> QED BY <4>2, <4>3
    <3> QED BY <1>5, <3>1, <3>2
  <2>7. WritersTypeOK'
    <3>1. resumed' \in [Milestones -> BOOLEAN]
      BY <1>5, <2>2 DEF WritersTypeOK
    <3> QED BY <2>1, <2>2, <2>4, <2>5, <2>6, <3>1 DEF WritersTypeOK, DurableOK
  <2>8. \A v \in Of(m) : exec'[v] = "none"
    BY <1>2, <2>1, NoneBefore
  <2>9. WaveFits(m)' /\ \A v \in Of(m) : ExecFits(m, v)'
    BY <2>6, <2>8, NoExecs DEF WaveFits
  <2>10. \A n \in Milestones \ {m} : Same(n) /\ wave'[n] = wave[n] /\ resumed'[n] = resumed[n]
    BY <1>5, <2>2, <2>4, <2>6 DEF WritersTypeOK
  <2>11. \A n \in Milestones : WaveFits(n)' /\ \A v \in Of(n) : ExecFits(n, v)'
    BY <2>1, <2>9, <2>10, OthersStill
  <2>12. (\A v \in Writers : ClaimFits(v)') /\ WriterCallsFit
    BY <2>1, ClaimsSame
  <2> QED BY <2>6, <2>7, <2>11, <2>12, Together
<1> QED BY <1>3, <1>4, <1>5

LEMMA AbortHolds ==
    ASSUME WritersInv, NEW m \in Milestones, Abort(m)
    PROVE  WavesHold
<1>1. /\ pc[m] \in {"waiting", "granted"} /\ troubles' = troubles + 1
      /\ Govern(active \ held[m], Without(queue, m), RunAt(m, "idle"),
                [held EXCEPT ![m] = {}], wave)
      /\ pending' = [pending EXCEPT ![m] = {}]
      /\ wave' = [wave EXCEPT ![m] = {}]
      /\ resumed' = [resumed EXCEPT ![m] = FALSE]
      /\ UNCHANGED <<life, task, review, claim, stream, todo, exec, launched, runs>>
  BY DEF Abort, durable
<1>2. /\ WritersTypeOK
      /\ \A n \in Milestones : SharesFit(n) /\ Of(n) \in SUBSET Writers
  BY PlanFacts DEF WritersInv
<1>3. /\ active' \in SUBSET Writers /\ queue' \in Seq(Milestones)
      /\ pc' \in [Milestones -> RunPlaces] /\ held' \in [Milestones -> SUBSET Writers]
      /\ WithinLimits(active)' /\ QueueFits' /\ HeadDoesNotFit'
      /\ \A n \in Milestones : SharesFit(n)'
      /\ \A n \in Milestones \ {m} : Same(n)
      /\ pc'[m] = "idle"
  <2> DEFINE place == "idle"
             out == held[m]
             hold == {}
             q == Without(queue, m)
  <2>0. /\ q \in Seq(Milestones) /\ Waits(q, [pc EXCEPT ![m] = place])
        /\ out \in SUBSET Of(m)
    BY <1>2, Leaves DEF SharesFit
  <2>4. Grants(active \ out, q, [pc EXCEPT ![m] = place], [held EXCEPT ![m] = hold], wave,
               active', queue', pc', held')
    BY <1>1 DEF Govern, Grants, RunAt
  <2> HIDE DEF q, out
  <2>1. Called(m, out, q, place, hold, wave, active, pc, held, wave,
               active', queue', pc', held', wave', pending', todo')
    BY <1>1, <1>2, <2>0, <2>4 DEF Granted, RunPlaces, SharesFit, WritersTypeOK, Called
  <2>2. place = "idle"
    OBVIOUS
  <2> HIDE DEF place, hold
  <2>3. /\ active' \in SUBSET Writers /\ queue' \in Seq(Milestones)
        /\ pc' \in [Milestones -> RunPlaces] /\ held' \in [Milestones -> SUBSET Writers]
        /\ WithinLimits(active)' /\ QueueFits' /\ HeadDoesNotFit'
        /\ \A n \in Milestones : SharesFit(n)'
        /\ \A n \in Milestones \ {m} : Same(n)
        /\ (place # "waiting" => pc'[m] = place /\ held'[m] = hold)
        /\ (place = "waiting" => pc'[m] \in {"waiting", "granted"})
    BY <2>1, GovernStep
  <2> QED BY <2>2, <2>3
<1>4. WritersTypeOK'
  BY <1>1, <1>2, <1>3 DEF WritersTypeOK, DurableOK
<1>5. \A v \in Of(m) : exec'[v] = "none"
  BY <1>1, NoneBefore
<1>6. WaveFits(m)' /\ \A v \in Of(m) : ExecFits(m, v)'
  BY <1>3, <1>5, NoExecs DEF WaveFits
<1>7. \A n \in Milestones \ {m} : Same(n) /\ wave'[n] = wave[n] /\ resumed'[n] = resumed[n]
  BY <1>1, <1>2, <1>3 DEF WritersTypeOK
<1>8. \A n \in Milestones : WaveFits(n)' /\ \A v \in Of(n) : ExecFits(n, v)'
  BY <1>1, <1>6, <1>7, OthersStill
<1>9. (\A v \in Writers : ClaimFits(v)') /\ WriterCallsFit
  BY <1>1, ClaimsSame
<1> QED BY <1>3, <1>4, <1>8, <1>9, Together

LEMMA CrashHolds ==
    ASSUME WritersInv, Crash
    PROVE  WavesHold
<1>1. /\ troubles' = troubles + 1 /\ active' = {} /\ queue' = <<>>
      /\ pc' = [m \in Milestones |-> "idle"]
      /\ pending' = [m \in Milestones |-> {}]
      /\ todo' = [m \in Milestones |-> {}]
      /\ wave' = [m \in Milestones |-> {}]
      /\ resumed' = [m \in Milestones |-> FALSE]
      /\ held' = [m \in Milestones |-> {}]
      /\ exec' = [w \in Writers |-> "none"]
      /\ UNCHANGED <<life, task, review, claim, stream, launched, runs>>
  BY DEF Crash, durable
<1>2. WritersTypeOK /\ WithinLimits(active)
  BY DEF WritersInv
<1>3. WithinLimits(active)'
  <2>1. active \in SUBSET Writers /\ {} \in SUBSET active
    BY <1>2 DEF WritersTypeOK
  <2>2. WithinLimits({})
    BY <1>2, <2>1, FewerKeepLimits
  <2> QED BY <1>1, <2>2
<1>4. queue' \in Seq(Milestones) /\ QueueFits' /\ HeadDoesNotFit'
  <2>1. <<>> \in Seq(Milestones) /\ DOMAIN <<>> = {}
    OBVIOUS
  <2> QED BY <1>1, <2>1 DEF QueueFits, Waits, HeadDoesNotFit
<1>5. WritersTypeOK'
  BY <1>1, <1>2, <1>4 DEF WritersTypeOK, DurableOK, RunPlaces, ExecPlaces
<1>6. \A n \in Milestones : SharesFit(n)' /\ WaveFits(n)'
  BY <1>1 DEF SharesFit, WaveFits, Granted
<1>7. ASSUME NEW n \in Milestones PROVE \A v \in Of(n) : ExecFits(n, v)'
  <2>1. \A v \in Of(n) : exec'[v] = "none"
    BY <1>1, PlanFacts
  <2> QED BY <2>1, NoExecs
<1>8. (\A v \in Writers : ClaimFits(v)') /\ WriterCallsFit
  BY <1>1, ClaimsSame
<1> QED BY <1>3, <1>4, <1>5, <1>6, <1>7, <1>8, Together


-----------------------------------------------------------------------------
(* The executions.                                                         *)
Advances(w, place) ==
    /\ exec[w] \notin {"none", "settled", "dealt"}
    /\ place \in ExecPlaces \ {"none", "called"}
    /\ Step(w, place) /\ Undisturbed /\ UNCHANGED claim
    /\ DurableOK' /\ troubles' \in Nat
    /\ \A v \in Writers \ {w} : task'[v] = task[v] /\ review'[v] = review[v]
    /\ review'[w] = "completed" => review[w] = "completed"
    /\ task'[w] \in {"planned", "ready"} => task[w] \in {"planned", "ready"}
    /\ place \in Dispatching => exec[w] \in Dispatching

LEMMA AdvanceStep ==
    ASSUME WritersInv, NEW w \in Writers, NEW place, Advances(w, place)
    PROVE  WavesHold
<1>1. ClaimFits(w)
  BY DEF WritersInv
<1>2. /\ exec[w] # "none" /\ place \in ExecPlaces \ {"none", "called"}
      /\ Step(w, place) /\ Undisturbed /\ DurableOK' /\ troubles' \in Nat
      /\ place \in Dispatching => exec[w] \in Dispatching
  BY DEF Advances
<1>3. Moves(w, place)
  BY <1>1 DEF Advances, Moves, ClaimFits
<1> QED BY <1>2, <1>3, ExecStep

LEMMA ExecuteHolds ==
    ASSUME WritersInv, NEW w \in Writers, Execute(w)
    PROVE  WavesHold
<1>1. DurableOK /\ troubles \in Nat
  BY DEF WritersInv, WritersTypeOK
<1>2. PICK place : place = "writing"
  OBVIOUS
<1>3. Advances(w, place)
  BY <1>1, <1>2 DEF Advances, Execute, Step, Undisturbed, DurableOK, durable, StreamStages, TaskStages, ExecPlaces, Dispatching
<1> QED BY <1>3, AdvanceStep

LEMMA WriterEndsHolds ==
    ASSUME WritersInv, NEW w \in Writers, WriterEnds(w)
    PROVE  WavesHold
<1>1. DurableOK /\ troubles \in Nat
  BY DEF WritersInv, WritersTypeOK
<1>2. PICK place : place = "returned"
  OBVIOUS
<1>3. Advances(w, place)
  BY <1>1, <1>2 DEF Advances, WriterEnds, Step, Undisturbed, DurableOK, durable, StreamStages, TaskStages, ExecPlaces, Dispatching
<1> QED BY <1>3, AdvanceStep

LEMMA ValidatedHandoffHolds ==
    ASSUME WritersInv, NEW w \in Writers, ValidatedHandoff(w)
    PROVE  WavesHold
<1>1. DurableOK /\ troubles \in Nat
  BY DEF WritersInv, WritersTypeOK
<1>2. PICK place : place = "handoff"
  OBVIOUS
<1>3. Advances(w, place)
  BY <1>1, <1>2 DEF Advances, ValidatedHandoff, Step, Undisturbed, DurableOK, durable, StreamStages, TaskStages, ExecPlaces, Dispatching
<1> QED BY <1>3, AdvanceStep

LEMMA AdmitReviewerHolds ==
    ASSUME WritersInv, NEW w \in Writers, AdmitReviewer(w)
    PROVE  WavesHold
<1>1. DurableOK /\ troubles \in Nat
  BY DEF WritersInv, WritersTypeOK
<1>2. PICK place : place = IF w \in ExecutionReviewed THEN "arrived" ELSE "admitted"
  OBVIOUS
<1>3. Advances(w, place)
  BY <1>1, <1>2 DEF Advances, AdmitReviewer, Step, Undisturbed, DurableOK, durable, StreamStages, TaskStages, ExecPlaces, Dispatching
<1> QED BY <1>3, AdvanceStep

LEMMA StartReviewerHolds ==
    ASSUME WritersInv, NEW w \in Writers, StartReviewer(w)
    PROVE  WavesHold
<1>1. DurableOK /\ troubles \in Nat
  BY DEF WritersInv, WritersTypeOK
<1>2. PICK place : place = "arrived"
  OBVIOUS
<1>3. Advances(w, place)
  BY <1>1, <1>2 DEF Advances, StartReviewer, Step, Undisturbed, DurableOK, durable, StreamStages, TaskStages, ExecPlaces, Dispatching
<1> QED BY <1>3, AdvanceStep

LEMMA HandOffRefusedHolds ==
    ASSUME WritersInv, NEW w \in Writers, HandOffRefused(w)
    PROVE  WavesHold
<1>1. DurableOK /\ troubles \in Nat
  BY DEF WritersInv, WritersTypeOK
<1>2. PICK place : place = "returned"
  OBVIOUS
<1>3. Advances(w, place)
  BY <1>1, <1>2 DEF Advances, HandOffRefused, Step, Undisturbed, DurableOK, durable, StreamStages, TaskStages, ExecPlaces, Dispatching
<1> QED BY <1>3, AdvanceStep

LEMMA DispatchReviewHolds ==
    ASSUME WritersInv, NEW w \in Writers, DispatchReview(w)
    PROVE  WavesHold
<1>1. DurableOK /\ troubles \in Nat
  BY DEF WritersInv, WritersTypeOK
<1>2. PICK place : place = "reviewing"
  OBVIOUS
<1>3. Advances(w, place)
  BY <1>1, <1>2 DEF Advances, DispatchReview, Step, Undisturbed, DurableOK, durable, StreamStages, TaskStages, ExecPlaces, Dispatching
<1> QED BY <1>3, AdvanceStep

LEMMA ReviewEndsHolds ==
    ASSUME WritersInv, NEW w \in Writers, ReviewEnds(w)
    PROVE  WavesHold
<1>1. DurableOK /\ troubles \in Nat
  BY DEF WritersInv, WritersTypeOK
<1>2. PICK place : place = "returned"
  OBVIOUS
<1>3. Advances(w, place)
  BY <1>1, <1>2 DEF Advances, ReviewEnds, Step, Undisturbed, DurableOK, durable, StreamStages, TaskStages, ExecPlaces, Dispatching
<1> QED BY <1>3, AdvanceStep

LEMMA SettleFailureHolds ==
    ASSUME WritersInv, NEW w \in Writers, SettleFailure(w)
    PROVE  WavesHold
<1>1. DurableOK /\ troubles \in Nat
  BY DEF WritersInv, WritersTypeOK
<1>2. PICK place : place = "failing"
  OBVIOUS
<1>3. Advances(w, place)
  BY <1>1, <1>2 DEF Advances, SettleFailure, Step, Undisturbed, DurableOK, durable, StreamStages, TaskStages, ExecPlaces, Dispatching, Returned
<1> QED BY <1>3, AdvanceStep

LEMMA SettleNothingHolds ==
    ASSUME WritersInv, NEW w \in Writers, SettleNothing(w)
    PROVE  WavesHold
<1>1. DurableOK /\ troubles \in Nat
  BY DEF WritersInv, WritersTypeOK
<1>2. PICK place : place = "settled"
  OBVIOUS
<1>3. Advances(w, place)
  BY <1>1, <1>2 DEF Advances, SettleNothing, Step, Undisturbed, DurableOK, durable, StreamStages, TaskStages, ExecPlaces, Dispatching, Returned
<1> QED BY <1>3, AdvanceStep

LEMMA SettleRefusedHolds ==
    ASSUME WritersInv, NEW w \in Writers, SettleRefused(w)
    PROVE  WavesHold
<1>1. DurableOK /\ troubles \in Nat
  BY DEF WritersInv, WritersTypeOK
<1>2. PICK place : place = "rejected"
  OBVIOUS
<1>3. Advances(w, place)
  BY <1>1, <1>2 DEF Advances, SettleRefused, Step, Undisturbed, DurableOK, durable, StreamStages, TaskStages, ExecPlaces, Dispatching, Returned
<1> QED BY <1>3, AdvanceStep

LEMMA ExecRejectsHolds ==
    ASSUME WritersInv, NEW w \in Writers, ExecRejects(w)
    PROVE  WavesHold
<1>1. DurableOK /\ troubles \in Nat
  BY DEF WritersInv, WritersTypeOK
<1>2. PICK place : place = "rejected"
  OBVIOUS
<1>3. Advances(w, place)
  BY <1>1, <1>2 DEF Advances, ExecRejects, Step, Undisturbed, DurableOK, durable, StreamStages, TaskStages, ExecPlaces, Dispatching, StillWriting
<1> QED BY <1>3, AdvanceStep

LEMMA SettleIntegratedHolds ==
    ASSUME WritersInv, NEW w \in Writers, SettleIntegrated(w)
    PROVE  WavesHold
<1>1. /\ exec[w] = "returned" /\ claim[w] = "claimed" /\ troubles \in Nat
      /\ Integrated(w) /\ Step(w, "settled") /\ UNCHANGED troubles /\ Undisturbed
  BY DEF SettleIntegrated, Returned, WritersInv, WritersTypeOK, ClaimFits
<1>2. DurableOK' /\ Moves(w, "settled")
  BY <1>1, IntegratedMoves
<1>3. PICK place : place = "settled"
  OBVIOUS
<1>4. /\ exec[w] # "none" /\ place \in ExecPlaces \ {"none", "called"}
      /\ Step(w, place) /\ Undisturbed /\ DurableOK' /\ troubles' \in Nat
      /\ Moves(w, place)
      /\ place \in Dispatching => exec[w] \in Dispatching
  BY <1>1, <1>2, <1>3 DEF ExecPlaces, Dispatching
<1> QED BY <1>4, ExecStep

LEMMA HandOffHolds ==
    ASSUME WritersInv, NEW w \in Writers, HandOff(w)
    PROVE  WavesHold
<1>1. /\ exec[w] = "handoff" /\ task' = [task EXCEPT ![w] = "completed"]
      /\ PermitRelease(MilestoneOf(w), {w}, pc) /\ Step(w, "handed")
      /\ UNCHANGED <<life, review, claim, stream, troubles>>
      /\ DurableOK /\ troubles \in Nat /\ ClaimFits(w)
  BY DEF HandOff, WritersInv, WritersTypeOK
<1>2. PICK place : place = "handed"
  OBVIOUS
<1>3. DurableOK'
  BY <1>1 DEF DurableOK, TaskStages
<1>4. Moves(w, place)
  BY <1>1, <1>2 DEF Moves, ClaimFits, DurableOK
<1>5. /\ exec[w] # "none" /\ place \in ExecPlaces \ {"none", "called", "writing", "handoff"}
      /\ Step(w, place) /\ troubles' \in Nat
  BY <1>1, <1>2 DEF ExecPlaces
<1> QED BY <1>1, <1>3, <1>4, <1>5, LeaveStep

LEMMA SettleReleasedHolds ==
    ASSUME WritersInv, NEW w \in Writers, SettleReleased(w)
    PROVE  WavesHold
<1>1. /\ exec[w] = "failing" /\ claim[w] = "claimed" /\ troubles \in Nat
      /\ PermitRelease(MilestoneOf(w), {w}, pc) /\ Step(w, "settled")
      /\ Released(w) /\ UNCHANGED troubles
  BY DEF SettleReleased, WritersInv, WritersTypeOK, ClaimFits
<1>2. DurableOK' /\ Moves(w, "settled")
  BY <1>1, ReleasedMoves
<1>3. PICK place : place = "settled"
  OBVIOUS
<1>4. /\ exec[w] # "none" /\ place \in ExecPlaces \ {"none", "called", "writing", "handoff"}
      /\ Step(w, place) /\ troubles' \in Nat /\ Moves(w, place)
  BY <1>1, <1>2, <1>3 DEF ExecPlaces
<1> QED BY <1>1, <1>2, <1>4, LeaveStep

LEMMA StartOwnReviewHolds ==
    ASSUME WritersInv, NEW w \in Writers, StartOwnReview(w)
    PROVE  WavesHold
<1>1. /\ review[w] = "ready" /\ review' = [review EXCEPT ![w] = "running"]
      /\ UNCHANGED <<life, task, claim, stream>>
      /\ UNCHANGED <<governor, pc, pending, todo, wave, resumed, held, exec, launched, claim>>
      /\ UNCHANGED <<runs, troubles>>
      /\ WritersTypeOK /\ DurableOK
  BY DEF StartOwnReview, WritersInv, WritersTypeOK
<1>2. /\ DurableOK' /\ runs' \in [Milestones -> Nat] /\ troubles' \in Nat
      /\ \A v \in Writers \ {w} : task'[v] = task[v] /\ review'[v] = review[v]
      /\ review'[w] = "completed" <=> review[w] = "completed"
      /\ task'[w] \in {"planned", "ready"} => task[w] \in {"planned", "ready"}
  BY <1>1 DEF DurableOK, TaskStages, WritersTypeOK
<1> QED BY <1>1, <1>2, DurableStep

(* Every step of an execution keeps the invariant.                         *)
LEMMA ExecutionHolds ==
    ASSUME WritersInv, NEW w \in Writers, ExecutionStep(w) \/ ExecRejects(w)
    PROVE  WavesHold
BY ExecuteHolds, WriterEndsHolds, ValidatedHandoffHolds, HandOffHolds, AdmitReviewerHolds,
   StartReviewerHolds, HandOffRefusedHolds, DispatchReviewHolds, StartOwnReviewHolds,
   ReviewEndsHolds, SettleIntegratedHolds, SettleFailureHolds, SettleReleasedHolds,
   SettleNothingHolds, SettleRefusedHolds, ExecRejectsHolds DEF ExecutionStep

-----------------------------------------------------------------------------
(* The reconciliation, the wave before its call, and the rejected writers. *)
LEMMA PassingFacts ==
    ASSUME WritersInv, NEW m \in Milestones, NEW w \in Of(m), Passing(m, w)
    PROVE  /\ w \in Writers /\ pc[m] \in {"pass", "again"} /\ pc[m] # "waiting"
           /\ {w} \in SUBSET Of(m) /\ {} \in SUBSET Of(m)
BY PlanFacts DEF Passing

LEMMA DropSettledHolds ==
    ASSUME WritersInv, NEW m \in Milestones, NEW w \in Of(m), DropSettled(m, w)
    PROVE  WavesHold
<1>1. /\ Passing(m, w) /\ Release(w, RunAt(m, "again")) /\ Dropped(m, w)
      /\ UNCHANGED <<life, task, review, claim, stream>>
  BY DEF DropSettled, durable
<1>2. w \in Writers /\ pc[m] \in {"pass", "again"}
  BY <1>1, PassingFacts
<1>3. DurableOK' /\ Moves(w, "none")
  BY <1>1, <1>2, StillMoves
<1> QED BY <1>1, <1>2, <1>3, DropStep

LEMMA ReconcileCompletedHolds ==
    ASSUME WritersInv, NEW m \in Milestones, NEW w \in Of(m), ReconcileCompleted(m, w)
    PROVE  WavesHold
<1>1. /\ w \in Writers /\ pc[m] \in {"pass", "again"} /\ pc[m] # "waiting"
      /\ {w} \in SUBSET Of(m) /\ claim[w] = "claimed"
  BY PassingFacts DEF ReconcileCompleted
<1>2. CASE Approach(m, w)
  BY <1>1, <1>2, ApproachHolds
<1>3. CASE Integrated(w) /\ Release(w, RunAt(m, "again")) /\ Dropped(m, w)
  <2>1. DurableOK' /\ Moves(w, "none")
    BY <1>1, <1>3, IntegratedMoves
  <2> QED BY <1>1, <1>3, <2>1, DropStep
<1>4. CASE Forget(m, {w}) /\ UNCHANGED durable
  BY <1>1, <1>4, ReturnHolds
<1> QED BY <1>2, <1>3, <1>4 DEF ReconcileCompleted

LEMMA ReconcileFailedHolds ==
    ASSUME WritersInv, NEW m \in Milestones, NEW w \in Of(m), ReconcileFailed(m, w)
    PROVE  WavesHold
<1>1. /\ w \in Writers /\ pc[m] \in {"pass", "again"} /\ pc[m] # "waiting"
      /\ {w} \in SUBSET Of(m) /\ claim[w] = "claimed"
  BY PassingFacts DEF ReconcileFailed
<1>2. CASE Released(w) /\ Release(w, RunAt(m, "again")) /\ Dropped(m, w)
  <2>1. DurableOK' /\ Moves(w, "none")
    BY <1>1, <1>2, ReleasedMoves
  <2> QED BY <1>1, <1>2, <2>1, DropStep
<1>3. CASE Forget(m, {w}) /\ UNCHANGED durable
  BY <1>1, <1>3, ReturnHolds
<1> QED BY <1>2, <1>3 DEF ReconcileFailed

LEMMA PauseUncertainHolds ==
    ASSUME WritersInv, NEW m \in Milestones, NEW w \in Of(m), PauseUncertain(m, w)
    PROVE  WavesHold
<1>1. /\ w \in Writers /\ pc[m] # "waiting" /\ {} \in SUBSET Of(m)
      /\ WritersTypeOK /\ DurableOK
  BY PassingFacts DEF PauseUncertain, WritersInv, WritersTypeOK
<1>2. CASE /\ stream' = [stream EXCEPT ![w] =
                              IF @ = "dispatched" THEN "unsureReview" ELSE "unsure"]
           /\ UNCHANGED <<life, task, review, claim, governor, pc, pending, todo, wave,
                          resumed, held, exec, launched, runs, troubles>>
  <2>1. DurableOK'
    BY <1>1, <1>2 DEF DurableOK, StreamStages
  <2>2. runs' \in [Milestones -> Nat] /\ troubles' \in Nat
    BY <1>1, <1>2 DEF WritersTypeOK
  <2> QED BY <1>1, <1>2, <2>1, <2>2, DurableStep
<1>3. CASE /\ life' = [life EXCEPT ![m] = "paused"]
           /\ Forget(m, {})
           /\ UNCHANGED <<task, review, claim, stream>>
  <2>1. DurableOK'
    BY <1>1, <1>3 DEF DurableOK
  <2> QED BY <1>1, <1>3, <2>1, ForgetStep
<1> QED BY <1>2, <1>3 DEF PauseUncertain

LEMMA ResumeThrowsHolds ==
    ASSUME WritersInv, NEW m \in Milestones, NEW w \in Of(m), ResumeThrows(m, w)
    PROVE  WavesHold
<1>1. pc[m] # "waiting" /\ {} \in SUBSET Of(m) /\ Forget(m, {}) /\ UNCHANGED durable
  BY DEF ResumeThrows, Return
<1> QED BY <1>1, ReturnHolds

LEMMA StaleHandoffHolds ==
    ASSUME WritersInv, NEW m \in Milestones, NEW w \in Writers, w \in Of(m), StaleHandoff(m, w)
    PROVE  WavesHold
<1>1. /\ life' = [life EXCEPT ![m] = "paused"] /\ Forget(m, {})
      /\ UNCHANGED <<task, review, claim, stream>> /\ DurableOK /\ {} \in SUBSET Of(m)
  BY DEF StaleHandoff, WritersInv, WritersTypeOK
<1>2. pc[m] # "waiting"
  BY DEF StaleHandoff, WritersInv, ExecFits
<1>3. DurableOK'
  BY <1>1 DEF DurableOK
<1> QED BY <1>1, <1>2, <1>3, ForgetStep

LEMMA WaveFailsHolds ==
    ASSUME WritersInv, NEW m \in Milestones, WaveFails(m)
    PROVE  WavesHold
<1>1. /\ pc[m] # "waiting" /\ held[m] \in SUBSET Of(m)
      /\ Forget(m, held[m]) /\ UNCHANGED durable
  BY DEF WaveFails, GiveUpWave, WritersInv, SharesFit
<1> QED BY <1>1, ReturnHolds

LEMMA TaskStepHolds ==
    ASSUME WritersInv, NEW m \in Milestones, NEW w \in Of(m),
           AdmitWriter(m, w) \/ StartWriter(m, w)
    PROVE  WavesHold
<1>1. /\ w \in Writers /\ WritersTypeOK /\ DurableOK
      /\ UNCHANGED <<life, review, claim, stream>>
      /\ UNCHANGED <<governor, pc, pending, todo, wave, resumed, held, exec, launched, claim>>
      /\ UNCHANGED <<runs, troubles>>
  BY PlanFacts DEF AdmitWriter, StartWriter, WritersInv, WritersTypeOK
<1>2. /\ DurableOK' /\ runs' \in [Milestones -> Nat] /\ troubles' \in Nat
      /\ \A v \in Writers \ {w} : task'[v] = task[v] /\ review'[v] = review[v]
      /\ review'[w] = "completed" <=> review[w] = "completed"
      /\ task'[w] \in {"planned", "ready"} => task[w] \in {"planned", "ready"}
  BY ZenonT(60), <1>1 DEF DurableOK, TaskStages, WritersTypeOK, AdmitWriter, StartWriter
<1> QED BY <1>1, <1>2, DurableStep

(* The first writer of a set of them is one of them.                       *)
LEMMA FirstOf ==
    ASSUME NEW m \in Milestones, NEW ws \in SUBSET Of(m), ws # {}
    PROVE  First(m, ws) \in ws
<1> DEFINE S == {i \in DOMAIN Plan[m] : Plan[m][i] \in ws}
<1>1. DOMAIN Plan[m] = 1..Len(Plan[m]) /\ Len(Plan[m]) \in Nat
  <2>1. Plan[m] \in Seq(Writers)
    BY PlanAssumption
  <2> QED BY <2>1, LenProperties
<1>2. S # {} /\ S \in SUBSET Nat
  BY <1>1 DEF Of
<1>3. PICK x \in S : \A y \in S : x <= y
  <2> HIDE DEF S
  <2> QED BY <1>2, LeastMember
<1>4. \A j \in 1..(x - 1) : Plan[m][j] \notin ws
  <2> SUFFICES ASSUME NEW j \in 1..(x - 1), Plan[m][j] \in ws PROVE FALSE
    OBVIOUS
  <2>1. x \in Nat /\ x \in 1..Len(Plan[m])
    BY <1>1, <1>3
  <2>2. j \in DOMAIN Plan[m] /\ ~(x <= j)
    BY <1>1, <2>1
  <2> QED BY <1>3, <2>2
<1>5. \E i \in DOMAIN Plan[m] : /\ Plan[m][i] \in ws
                                /\ \A j \in 1..(i - 1) : Plan[m][j] \notin ws
  BY <1>3, <1>4
<1> QED BY <1>5 DEF First

LEMMA ExaminesFacts ==
    ASSUME WritersInv, NEW m \in Milestones, NEW w \in Of(m), Examines(m, w)
    PROVE  /\ w \in Writers /\ pc[m] = "wave" /\ MilestoneOf(w) = m
           /\ exec[w] = "rejected" /\ claim[w] = "claimed"
<1>1. w \in Writers /\ pc[m] = "wave" /\ MilestoneOf(w) = m
  BY PlanFacts DEF Examines, WaveOver
<1>2. Rejected(m) # {} /\ w = First(m, Rejected(m)) /\ wave[m] \subseteq Of(m)
  BY DEF Examines, WritersInv, SharesFit
<1>3. exec[w] = "rejected"
  BY <1>1, <1>2, FirstOf DEF Rejected
<1>4. ClaimFits(w)
  BY <1>1 DEF WritersInv
<1> QED BY <1>1, <1>3, <1>4 DEF ClaimFits

LEMMA RejectedCompletedHolds ==
    ASSUME WritersInv, NEW m \in Milestones, NEW w \in Of(m), RejectedCompleted(m, w)
    PROVE  WavesHold
<1>1. /\ w \in Writers /\ pc[m] = "wave" /\ MilestoneOf(w) = m
      /\ exec[w] = "rejected" /\ claim[w] = "claimed" /\ troubles \in Nat
  BY ExaminesFacts DEF RejectedCompleted, WritersInv, WritersTypeOK
<1>2. CASE Approach(m, w)
  BY <1>1, <1>2, ApproachHolds
<1>3. CASE Integrated(w) /\ PermitRelease(m, {w}, pc) /\ Step(w, "dealt") /\ UNCHANGED troubles
  <2>1. DurableOK' /\ Moves(w, "dealt")
    BY <1>1, <1>3, IntegratedMoves
  <2>2. PICK place : place = "dealt"
    OBVIOUS
  <2>3. /\ exec[w] # "none" /\ place \in ExecPlaces \ {"none", "called", "writing", "handoff"}
        /\ Step(w, place) /\ troubles' \in Nat /\ Moves(w, place)
        /\ PermitRelease(MilestoneOf(w), {w}, pc)
    BY <1>1, <1>3, <2>1, <2>2 DEF ExecPlaces
  <2> QED BY <1>1, <2>1, <2>3, LeaveStep
<1>4. CASE ThrowAfter(m, w)
  <2>1. /\ pc[m] # "waiting" /\ {w} \intersect held[m] \in SUBSET Of(m)
        /\ Forget(m, {w} \intersect held[m]) /\ UNCHANGED durable
    BY <1>1, <1>4 DEF ThrowAfter
  <2> QED BY <2>1, ReturnHolds
<1> QED BY <1>2, <1>3, <1>4 DEF RejectedCompleted

LEMMA RejectedFailedHolds ==
    ASSUME WritersInv, NEW m \in Milestones, NEW w \in Of(m), RejectedFailed(m, w)
    PROVE  WavesHold
<1>1. /\ w \in Writers /\ pc[m] = "wave" /\ MilestoneOf(w) = m
      /\ exec[w] = "rejected" /\ claim[w] = "claimed" /\ troubles \in Nat
      /\ WritersTypeOK /\ DurableOK
  BY ExaminesFacts DEF RejectedFailed, WritersInv, WritersTypeOK
<1>2. CASE /\ task' = [task EXCEPT ![w] = "failed"]
           /\ UNCHANGED <<life, review, claim, stream, governor, pc, pending, todo, wave,
                          resumed, held, exec, launched, runs, troubles>>
  <2>1. DurableOK' /\ runs' \in [Milestones -> Nat] /\ troubles' \in Nat
    BY <1>1, <1>2 DEF DurableOK, TaskStages, WritersTypeOK
  <2>2. /\ UNCHANGED <<governor, pc, pending, todo, wave, resumed, held, exec, launched, claim>>
        /\ \A v \in Writers \ {w} : task'[v] = task[v] /\ review'[v] = review[v]
        /\ review'[w] = "completed" <=> review[w] = "completed"
        /\ task'[w] \in {"planned", "ready"} => task[w] \in {"planned", "ready"}
    BY <1>1, <1>2 DEF DurableOK
  <2> QED BY <1>1, <2>1, <2>2, DurableStep
<1>3. CASE Released(w) /\ PermitRelease(m, {w}, pc) /\ Step(w, "dealt") /\ UNCHANGED troubles
  <2>1. DurableOK' /\ Moves(w, "dealt")
    BY <1>1, <1>3, ReleasedMoves
  <2>2. PICK place : place = "dealt"
    OBVIOUS
  <2>3. /\ exec[w] # "none" /\ place \in ExecPlaces \ {"none", "called", "writing", "handoff"}
        /\ Step(w, place) /\ troubles' \in Nat /\ Moves(w, place)
        /\ PermitRelease(MilestoneOf(w), {w}, pc)
    BY <1>1, <1>3, <2>1, <2>2 DEF ExecPlaces
  <2> QED BY <1>1, <2>1, <2>3, LeaveStep
<1>4. CASE ThrowAfter(m, w)
  <2>1. /\ pc[m] # "waiting" /\ {w} \intersect held[m] \in SUBSET Of(m)
        /\ Forget(m, {w} \intersect held[m]) /\ UNCHANGED durable
    BY <1>1, <1>4 DEF ThrowAfter
  <2> QED BY <2>1, ReturnHolds
<1> QED BY <1>2, <1>3, <1>4 DEF RejectedFailed

LEMMA RejectedRetainedHolds ==
    ASSUME WritersInv, NEW m \in Milestones, NEW w \in Of(m), RejectedRetained(m, w)
    PROVE  WavesHold
<1>1. /\ w \in Writers /\ exec[w] = "rejected" /\ DurableOK /\ troubles \in Nat
  BY ExaminesFacts DEF RejectedRetained, WritersInv, WritersTypeOK
<1>2. PICK place : place = "dealt"
  OBVIOUS
<1>3. Advances(w, place)
  BY <1>1, <1>2 DEF Advances, RejectedRetained, Step, Undisturbed, DurableOK, durable,
                    ExecPlaces, Dispatching
<1> QED BY <1>1, <1>3, AdvanceStep

-----------------------------------------------------------------------------
(* Appends of other processes.                                             *)
LEMMA SteadyStep ==
    ASSUME WritersInv, DurableOK', runs' \in [Milestones -> Nat], troubles' \in Nat,
           UNCHANGED <<governor, pc, pending, todo, wave, resumed, held, exec, launched>>,
           UNCHANGED <<task, review, claim>>
    PROVE  WavesHold
<1>1. /\ WithinLimits(active)' /\ QueueFits' /\ HeadDoesNotFit'
      /\ \A n \in Milestones : SharesFit(n)'
      /\ \A n \in Milestones : Same(n)
  BY QuietGovernor
<1>2. WritersTypeOK'
  BY DEF WritersInv, WritersTypeOK, governor
<1>3. ASSUME NEW n \in Milestones PROVE WaveFits(n)' /\ \A v \in Of(n) : ExecFits(n, v)'
  <2>1. Same(n)
    BY <1>1
  <2> QED BY <2>1, Others
<1>4. (\A v \in Writers : ClaimFits(v)') /\ WriterCallsFit
  BY ClaimsSame
<1> QED BY <1>1, <1>2, <1>3, <1>4, Together

LEMMA OutsideHolds ==
    ASSUME WritersInv, \/ \E m \in Milestones : Pause(m) \/ Resolve(m)
                       \/ \E w \in Writers : OperatorSettles(w)
    PROVE  WavesHold
<1>1. /\ UNCHANGED <<governor, pc, pending, todo, wave, resumed, held, exec, launched>>
      /\ UNCHANGED <<task, review, claim>> /\ UNCHANGED runs
      /\ WritersTypeOK /\ DurableOK
  BY DEF Pause, Resolve, OperatorSettles, WritersInv, WritersTypeOK
<1>2. DurableOK' /\ troubles' \in Nat /\ runs' \in [Milestones -> Nat]
  <2>1. ASSUME NEW m \in Milestones, Pause(m) \/ Resolve(m)
        PROVE  DurableOK' /\ troubles' \in Nat
    <3>1. stream' = stream /\ troubles' \in Nat
      BY <1>1, <2>1 DEF Pause, Resolve, WritersTypeOK
    <3>2. life' \in [Milestones -> {"open", "paused"}]
      BY <1>1, <2>1 DEF Pause, Resolve, DurableOK
    <3> QED BY <1>1, <3>1, <3>2 DEF DurableOK
  <2>2. ASSUME NEW w \in Writers, OperatorSettles(w)
        PROVE  DurableOK' /\ troubles' \in Nat
    BY <1>1, <2>2 DEF OperatorSettles, DurableOK, StreamStages, WritersTypeOK
  <2>3. runs' \in [Milestones -> Nat]
    BY <1>1 DEF WritersTypeOK
  <2> QED BY <2>1, <2>2, <2>3
<1> QED BY <1>1, <1>2, SteadyStep

LEMMA RunStepHolds ==
    ASSUME WritersInv, NEW m \in Milestones, RunStep(m)
    PROVE  WavesHold
<1>1. ASSUME NEW w \in Of(m),
             \/ DropSettled(m, w)
             \/ ReconcileCompleted(m, w) \/ ReconcileFailed(m, w)
             \/ PauseUncertain(m, w) \/ ResumeHandoff(m, w)
             \/ ResumeReturns(m, w) \/ ResumeThrows(m, w)
             \/ AdmitWriter(m, w) \/ StartWriter(m, w)
             \/ RejectedCompleted(m, w) \/ RejectedFailed(m, w) \/ RejectedRetained(m, w)
      PROVE  WavesHold
  BY <1>1, DropSettledHolds, ReconcileCompletedHolds, ReconcileFailedHolds, PauseUncertainHolds,
     ResumeHandoffHolds, ResumeReturnsHolds, ResumeThrowsHolds, TaskStepHolds,
     RejectedCompletedHolds, RejectedFailedHolds, RejectedRetainedHolds
<1>2. CASE \/ NextPass(m) \/ Select(m) \/ SeePermit(m) \/ ClaimWave(m)
           \/ WaveFails(m) \/ Launch(m) \/ WaveReturns(m)
  BY <1>2, NextPassHolds, SelectHolds, SeePermitHolds, ClaimWaveHolds, WaveFailsHolds,
     LaunchHolds, WaveReturnsHolds
<1> QED BY <1>1, <1>2 DEF RunStep

LEMMA WritersStepHolds ==
    ASSUME WritersInv, [WritersNext]_writersVars
    PROVE  WavesHold
<1>1. ASSUME NEW m \in Milestones, Run(m) \/ RunStep(m) \/ Abort(m)
      PROVE  WavesHold
  BY <1>1, RunHolds, RunStepHolds, AbortHolds
<1>2. CASE \/ \E m \in Milestones : Pause(m) \/ Resolve(m)
           \/ \E w \in Writers : OperatorSettles(w)
  BY <1>2, OutsideHolds
<1>5. ASSUME NEW m \in Milestones, NEW w \in Writers, w \in Of(m), StaleHandoff(m, w)
      PROVE  WavesHold
  BY <1>5, StaleHandoffHolds
<1>6. ASSUME NEW w \in Writers, ExecutionStep(w) \/ ExecRejects(w)
      PROVE  WavesHold
  BY <1>6, ExecutionHolds
<1>7. CASE Crash
  BY <1>7, CrashHolds
<1>8. CASE UNCHANGED writersVars
  <2>1. /\ UNCHANGED <<governor, pc, pending, todo, wave, resumed, held, exec, launched>>
        /\ UNCHANGED <<task, review, claim>> /\ UNCHANGED <<life, stream, runs, troubles>>
        /\ WritersTypeOK /\ DurableOK
    BY <1>8 DEF writersVars, governor, WritersInv, WritersTypeOK
  <2>2. DurableOK' /\ runs' \in [Milestones -> Nat] /\ troubles' \in Nat
    BY <2>1 DEF WritersTypeOK, DurableOK
  <2> QED BY <2>1, <2>2, SteadyStep
<1> QED BY <1>1, <1>2, <1>5, <1>6, <1>7, <1>8 DEF WritersNext

LEMMA WritersInitially == WritersInit => WritersInv
<1> SUFFICES ASSUME WritersInit PROVE WritersInv
  OBVIOUS
<1>1. DurableOK
  BY DEF WritersInit, DurableOK, TaskStages, StreamStages
<1>2. <<>> \in Seq(Milestones) /\ DOMAIN <<>> = {}
  OBVIOUS
<1>3. WritersTypeOK
  BY <1>1, <1>2 DEF WritersInit, WritersTypeOK, RunPlaces, ExecPlaces
<1>4. WithinLimits(active)
  <2> USE GovernorAssumption
  <2>1. Cardinality({}) = 0
    BY FS_EmptySet
  <2>2. \A x \in Models : OnModel({}, x) = {} /\ ModelLimit[x] \in Nat
    BY DEF OnModel
  <2>3. Cardinality({}) <= GlobalLimit
    BY <2>1
  <2>4. ASSUME NEW x \in Models PROVE Cardinality(OnModel({}, x)) <= ModelLimit[x]
    <3>1. Cardinality(OnModel({}, x)) = 0
      BY <2>1, <2>2
    <3>2. ModelLimit[x] \in Nat
      BY <2>2
    <3> QED BY <3>1, <3>2
  <2> QED BY <2>3, <2>4 DEF WritersInit, WithinLimits
<1>5. QueueFits /\ HeadDoesNotFit
  BY <1>2 DEF WritersInit, QueueFits, Waits, HeadDoesNotFit
<1>6. ASSUME NEW m \in Milestones
      PROVE  SharesFit(m) /\ WaveFits(m) /\ \A w \in Of(m) : ExecFits(m, w)
  BY PlanFacts DEF WritersInit, SharesFit, WaveFits, ExecFits, Granted, Dispatching
<1>7. ASSUME NEW w \in Writers PROVE ClaimFits(w)
  BY DEF WritersInit, ClaimFits
<1> QED BY <1>3, <1>4, <1>5, <1>6, <1>7 DEF WritersInv

-----------------------------------------------------------------------------
(* The inductive invariant of the waves: the types, the limits of the      *)
(* governor, its queue, and how the runs, the permits, the executions and  *)
(* the claims fit together.                                                *)
THEOREM WavesInvariance == WritersSpec => []WritersInv
<1>1. WritersInv /\ [WritersNext]_writersVars => WritersInv'
  BY WritersStepHolds DEF WavesHold
<1> QED BY <1>1, WritersInitially, PTL DEF WritersSpec

(* A writer at work, from the call of its execution to its handoff, holds  *)
(* a slot of the governor, and the slots stay within the limits of the     *)
(* process and of each model.                                              *)
THEOREM SlotsAreHeld == WritersSpec => []CapacityRespected
<1>1. WritersInv => CapacityRespected
  <2> SUFFICES ASSUME WritersInv, NEW w \in Working PROVE w \in active
    BY DEF WritersInv, CapacityRespected
  <2>1. w \in Writers /\ exec[w] \in Dispatching /\ exec[w] # "none"
    BY DEF Working, Dispatching
  <2>2. MilestoneOf(w) \in Milestones /\ ExecFits(MilestoneOf(w), w)
    BY <2>1, ActiveWriter
  <2> QED BY <2>1, <2>2 DEF ExecFits, WritersInv, SharesFit
<1> QED BY <1>1, WavesInvariance, PTL

(* No wakeup is lost: the wave at the head of the queue never fits beside  *)
(* the active writers.                                                     *)
THEOREM NoWakeupLost == WritersSpec => []HeadDoesNotFit
<1>1. WritersInv => HeadDoesNotFit
  BY DEF WritersInv
<1> QED BY <1>1, WavesInvariance, PTL

(* No writer is executed twice, over crashes, pauses, aborts and new runs. *)
THEOREM WritersLaunchOnce == WritersSpec => LaunchedOnce
<1>1. WritersInv /\ [WritersNext]_writersVars =>
        [\A w \in launched : exec'[w] = "called" => exec[w] = "called"]_writersVars
  <2> SUFFICES ASSUME WritersInv, [WritersNext]_writersVars, NEW w \in launched, exec'[w] = "called"
               PROVE  exec[w] = "called"
    OBVIOUS
  <2>1. WriterCallsFit /\ w \in Writers
    BY WritersStepHolds DEF WavesHold, WritersInv, WritersTypeOK
  <2> QED BY <2>1 DEF WriterCallsFit
<1> QED BY <1>1, WavesInvariance, PTL DEF WritersSpec, LaunchedOnce

(* A writer is called only when the changes whose reviews it depends on    *)
(* are integrated.                                                         *)
THEOREM CallsFollowIntegration == WritersSpec => FollowsIntegration
<1>1. WritersInv /\ [WritersNext]_writersVars =>
        [\A w \in Writers :
           exec'[w] = "called" => \A d \in DependsOnReview[w] : claim[d] = "integrated"]_writersVars
  <2> SUFFICES ASSUME WritersInv, [WritersNext]_writersVars, NEW w \in Writers, exec'[w] = "called"
               PROVE  \A d \in DependsOnReview[w] : claim[d] = "integrated"
    OBVIOUS
  <2>1. WriterCallsFit /\ ClaimFits(w)
    BY WritersStepHolds DEF WavesHold, WritersInv
  <2>2. claim[w] = "claimed"
    BY <2>1 DEF WriterCallsFit, ClaimFits
  <2> QED BY <2>1, <2>2 DEF ClaimFits
<1> QED BY <1>1, WavesInvariance, PTL DEF WritersSpec, FollowsIntegration
=============================================================================
