------------------------ MODULE GitHubEffects_proofs ------------------------
(***************************************************************************)
(* An effect at GitHub is sent at most once, never after it was called     *)
(* denied, and can be asked about until it is proven, the attempts are used*)
(* up or the day is over: for any number of calls and grants, whatever is  *)
(* late or killed.                                                         *)
(***************************************************************************)
EXTENDS GitHubEffects, TLAPS, FiniteSetTheorems, SequenceTheorems

-----------------------------------------------------------------------------
(* The inductive invariant.                                                *)

Places == {"idle", "admit", "consume", "refuse", "look", "send", "wait", "observe", "deny",
           "inspect", "read", "record", "release"}
CallStates == [at : Places, grant : Grants \union {NoGrant}, version : Nat,
               outcome : {"none", "uncertain", "completed"}]

\* The stream of an effect whose outcome may still be open: IsStreamOfEffect, event by event.
Effect(s) ==
    /\ Len(s) >= 2 /\ s[1] = "consumed" /\ s[2] = "accepted"
    /\ \A n \in 3..Len(s) : \/ s[n] \in {"completed", "uncertain"}
                            \/ n = 3 /\ s[n] = "observed_uncertain"
Answers(s) == {n \in DOMAIN s : s[n] \in {"completed", "uncertain"}}
Askable(s) ==
    /\ Effect(s)
    /\ \A n \in DOMAIN s : s[n] = "completed" => n = Len(s)
    /\ Cardinality(Answers(s)) <= MaxReconciliations
\* Open: one more answer may be appended.
IsOpen(s) ==
    Effect(s) /\ s[Len(s)] # "completed" /\ Cardinality(Answers(s)) < MaxReconciliations

\* A stream is empty, refuses its grant, ends in a denial, or is askable.
StreamOK(s) ==
    \/ s = <<>>
    \/ Len(s) = 1 /\ s[1] = "denied"
    \/ Len(s) = 3 /\ s[1] = "consumed" /\ s[2] = "accepted" /\ s[3] = "observed_denied"
    \/ Askable(s)

\* A call that has spent a grant, and has not yet recorded what it knows of the effect.
Spending(c) == call[c].at \in {"look", "send", "deny", "wait", "observe"}

CallOK(c) ==
    /\ call[c].at # "idle" => call[c].grant \in Grants
    /\ Spending(c) => Effect(stream[call[c].grant])
    /\ call[c].at \in {"look", "send", "deny"} => sent[call[c].grant] = 0
    /\ call[c].at = "consume" /\ call[c].grant \in Pulls =>
           NeedsPush[call[c].grant] \in Has("completed")
    /\ call[c].at \in {"read", "record"} =>
           /\ call[c].version <= Len(stream[call[c].grant])
           /\ call[c].version = Len(stream[call[c].grant]) => IsOpen(stream[call[c].grant])
    /\ call[c].at = "record" => call[c].outcome \in {"uncertain", "completed"}
    /\ call[c].at = "record" /\ call[c].outcome = "completed" => call[c].grant \in seen

\* The consumption of a grant makes one call its only spender.
OneSpender == \A c, d \in Calls : Spending(c) /\ Spending(d) /\ call[c].grant = call[d].grant => c = d

GrantOK(g) == /\ StreamOK(stream[g])
              /\ sent[g] \in {0, 1} /\ (sent[g] = 1 => Effect(stream[g]))

IInv == /\ TypeOK /\ call \in [Calls -> CallStates]
        /\ \A g \in Grants : GrantOK(g)
        /\ \A c \in Calls : CallOK(c)
        /\ OneSpender
        /\ Shown(branch, pulls) \subseteq seen

-----------------------------------------------------------------------------
(* Streams.                                                                *)

LEMMA SeqOfOne == \A e \in Events : <<e>> \in Seq(Events) /\ Len(<<e>>) = 1 /\ <<e>>[1] = e
  OBVIOUS

LEMMA ConsumptionSeq ==
    /\ <<"consumed", "accepted">> \in Seq(Events) /\ Len(<<"consumed", "accepted">>) = 2
    /\ <<"consumed", "accepted">>[1] = "consumed" /\ <<"consumed", "accepted">>[2] = "accepted"
  BY DEF Events

\* What an append does to the streams, and to the sets of grants the abstract specification sees.
LEMMA AppendsTo ==
    ASSUME TypeOK, NEW g \in Grants, NEW ev \in Seq(Events),
           stream' = [stream EXCEPT ![g] = @ \o ev]
    PROVE  /\ stream' \in [Grants -> Seq(Events)]
           /\ \A h \in Grants \ {g} : stream'[h] = stream[h]
           /\ Len(stream'[g]) = Len(stream[g]) + Len(ev)
           /\ \A n \in 1..Len(stream[g]) : stream'[g][n] = stream[g][n]
           /\ \A n \in 1..Len(ev) : stream'[g][Len(stream[g]) + n] = ev[n]
<1> DEFINE s == stream[g]
           t == s \o ev
<1>1. s \in Seq(Events) /\ Len(s) \in Nat /\ Len(ev) \in Nat /\ DOMAIN s = 1..Len(s)
  BY LenProperties DEF TypeOK
<1>2. /\ t \in Seq(Events) /\ Len(t) = Len(s) + Len(ev) /\ DOMAIN t = 1..Len(t)
      /\ \A n \in 1..Len(t) : t[n] = IF n <= Len(s) THEN s[n] ELSE ev[n - Len(s)]
  BY <1>1, ConcatProperties, LenProperties
<1>3. stream'[g] = t /\ \A h \in Grants \ {g} : stream'[h] = stream[h]
  BY DEF TypeOK
<1>4. stream' \in [Grants -> Seq(Events)]
  BY <1>2 DEF TypeOK
<1> HIDE DEF s, t
<1>5. /\ \A n \in 1..Len(s) : t[n] = s[n]
      /\ \A n \in 1..Len(ev) : t[Len(s) + n] = ev[n]
  <2>1. \A n \in 1..Len(s) : n \in 1..Len(t) /\ n <= Len(s)
    BY <1>1, <1>2
  <2>2. \A n \in 1..Len(ev) : /\ Len(s) + n \in 1..Len(t) /\ ~(Len(s) + n <= Len(s))
                              /\ (Len(s) + n) - Len(s) = n
    BY <1>1, <1>2
  <2> QED BY <1>2, <2>1, <2>2
<1> QED BY <1>2, <1>3, <1>4, <1>5 DEF s

\* The sets of grants the abstract specification sees grow by the grant whose stream grows.
LEMMA HasAfter ==
    ASSUME TypeOK, NEW g \in Grants, NEW ev \in Seq(Events),
           stream' = [stream EXCEPT ![g] = @ \o ev], NEW e
    PROVE  Has(e)' = IF \E n \in 1..Len(ev) : ev[n] = e THEN Has(e) \union {g} ELSE Has(e)
<1> DEFINE s == stream[g]
           t == stream'[g]
<1>1. /\ s \in Seq(Events) /\ Len(s) \in Nat /\ Len(ev) \in Nat /\ DOMAIN s = 1..Len(s)
      /\ t \in Seq(Events) /\ DOMAIN t = 1..Len(t)
  BY AppendsTo, LenProperties DEF TypeOK
<1>2. /\ Len(t) = Len(s) + Len(ev) /\ \A n \in 1..Len(s) : t[n] = s[n]
      /\ \A n \in 1..Len(ev) : t[Len(s) + n] = ev[n]
      /\ \A h \in Grants \ {g} : stream'[h] = stream[h]
  BY AppendsTo
<1>3. (\E n \in DOMAIN t : t[n] = e) <=>
          (\E n \in DOMAIN s : s[n] = e) \/ (\E n \in 1..Len(ev) : ev[n] = e)
  <2> HIDE DEF s, t
  <2>1. ASSUME NEW n \in DOMAIN t, t[n] = e
        PROVE  (\E k \in DOMAIN s : s[k] = e) \/ (\E k \in 1..Len(ev) : ev[k] = e)
    <3>1. CASE n <= Len(s)
      BY <1>1, <1>2, <2>1, <3>1
    <3>2. CASE ~(n <= Len(s))
      <4>1. n - Len(s) \in 1..Len(ev) /\ Len(s) + (n - Len(s)) = n
        BY <1>1, <1>2, <2>1, <3>2
      <4> QED BY <1>2, <2>1, <4>1
    <3> QED BY <3>1, <3>2
  <2>2. ASSUME NEW n \in DOMAIN s, s[n] = e PROVE n \in DOMAIN t /\ t[n] = e
    BY <1>1, <1>2, <2>2
  <2>3. ASSUME NEW n \in 1..Len(ev), ev[n] = e
        PROVE  Len(s) + n \in DOMAIN t /\ t[Len(s) + n] = e
    BY <1>1, <1>2, <2>3
  <2> QED BY <2>1, <2>2, <2>3
<1>4. \A h \in Grants \ {g} : h \in Has(e)' <=> h \in Has(e)
  BY <1>2 DEF Has
<1>5. g \in Has(e)' <=> \E n \in DOMAIN t : t[n] = e
  BY DEF Has
<1>6. g \in Has(e) <=> \E n \in DOMAIN s : s[n] = e
  BY DEF Has
<1>7. Has(e) \subseteq Grants /\ Has(e)' \subseteq Grants
  BY DEF Has
<1> HIDE DEF s, t
<1> QED BY <1>3, <1>4, <1>5, <1>6, <1>7

LEMMA EffectIs ==
    ASSUME NEW g \in Grants, stream[g] \in Seq(Events)
    PROVE  IsStreamOfEffect(g) <=> Effect(stream[g])
<1> DEFINE s == stream[g]
           first == IF Len(s) >= 3 /\ s[3] = "observed_uncertain" THEN 4 ELSE 3
<1>1. Len(s) \in Nat
  BY LenProperties
<1>2. Len(s) >= 2 => (SubSeq(s, 1, 2) = <<"consumed", "accepted">>
                          <=> s[1] = "consumed" /\ s[2] = "accepted")
  <2> SUFFICES ASSUME Len(s) >= 2
               PROVE  SubSeq(s, 1, 2) = <<"consumed", "accepted">>
                          <=> s[1] = "consumed" /\ s[2] = "accepted"
    OBVIOUS
  <2> DEFINE u == SubSeq(s, 1, 2)
             v == <<"consumed", "accepted">>
  <2>1. u \in Seq(Events) /\ Len(u) = 2 /\ u[1] = s[1] /\ u[2] = s[2]
    BY <1>1
  <2>2. v \in Seq(Events) /\ Len(v) = 2 /\ v[1] = "consumed" /\ v[2] = "accepted"
    BY ConsumptionSeq
  <2> HIDE DEF u, v
  <2>3. u = v <=> u[1] = v[1] /\ u[2] = v[2]
    <3>1. ASSUME u[1] = v[1], u[2] = v[2] PROVE u = v
      <4>1. \A n \in 1..2 : n = 1 \/ n = 2
        OBVIOUS
      <4>2. \A n \in 1..Len(u) : u[n] = v[n]
        BY <2>1, <3>1, <4>1
      <4> QED BY <2>1, <2>2, <4>2, SeqEqual
    <3> QED BY <3>1
  <2>4. u = v <=> s[1] = "consumed" /\ s[2] = "accepted"
    BY <2>1, <2>2, <2>3
  <2> QED BY <2>4 DEF u, v
<1>3. (\A n \in first..Len(s) : s[n] \in {"completed", "uncertain"}) <=>
          \A n \in 3..Len(s) : \/ s[n] \in {"completed", "uncertain"}
                               \/ n = 3 /\ s[n] = "observed_uncertain"
  BY <1>1
<1> QED BY <1>2, <1>3 DEF IsStreamOfEffect, Effect

LEMMA OpenIs ==
    ASSUME NEW g \in Grants, stream[g] \in Seq(Events)
    PROVE  Open(g) <=> IsOpen(stream[g]) /\ g \notin elapsed
BY EffectIs DEF Open, IsOpen, Attempts, Answers

\* A reconciliation appends an answer to a stream that is still open.
LEMMA AnswerKeepsAskable ==
    ASSUME NEW s \in Seq(Events), NEW t \in Seq(Events), Askable(s), IsOpen(s),
           Len(t) = Len(s) + 1, \A n \in 1..Len(s) : t[n] = s[n],
           t[Len(t)] \in {"completed", "uncertain"}
    PROVE  Askable(t)
<1>1. /\ Len(s) \in Nat /\ Len(s) >= 2 /\ DOMAIN s = 1..Len(s) /\ DOMAIN t = 1..Len(t)
  BY LenProperties DEF Askable, Effect
<1>2. Effect(t)
  <2>1. ASSUME NEW n \in 3..Len(t)
        PROVE  t[n] \in {"completed", "uncertain"} \/ (n = 3 /\ t[n] = "observed_uncertain")
    BY <1>1, <2>1 DEF Askable, Effect
  <2> QED BY <1>1, <2>1 DEF Askable, Effect
<1>3. ASSUME NEW n \in DOMAIN t, t[n] = "completed" PROVE n = Len(t)
  BY <1>1, <1>3 DEF Askable, IsOpen
<1>4. Answers(t) = Answers(s) \union {Len(t)} /\ Len(t) \notin Answers(s)
  <2>1. \A n : n \in DOMAIN t <=> n \in DOMAIN s \/ n = Len(t)
    BY <1>1
  <2>2. \A n \in DOMAIN s : t[n] = s[n]
    BY <1>1
  <2>3. Len(t) \notin DOMAIN s
    BY <1>1
  <2> QED BY <2>1, <2>2, <2>3 DEF Answers
<1>5. IsFiniteSet(Answers(s))
  <2>1. Answers(s) \subseteq 1..Len(s)
    BY <1>1 DEF Answers
  <2>2. IsFiniteSet(1..Len(s))
    BY <1>1, FS_Interval
  <2> QED BY <2>1, <2>2, FS_Subset
<1>6. Cardinality(Answers(t)) = Cardinality(Answers(s)) + 1 /\ Cardinality(Answers(s)) \in Nat
  BY <1>4, <1>5, FS_AddElement, FS_CardinalityType
<1> QED BY <1>2, <1>3, <1>6, AttemptsAreBounded DEF Askable, IsOpen

\* The observation of the call that sent the effect is not an answer.
LEMMA ObservationKeepsAskable ==
    ASSUME NEW s \in Seq(Events), NEW t \in Seq(Events), Effect(s), Len(s) = 2,
           Len(t) = 3, \A n \in 1..2 : t[n] = s[n], t[3] = "observed_uncertain"
    PROVE  Askable(t)
<1>1. DOMAIN t = 1..3
  BY LenProperties
<1>2. Answers(t) = {}
  BY <1>1 DEF Answers, Effect
<1> QED BY <1>1, <1>2, FS_EmptySet, AttemptsAreBounded DEF Askable, Effect

LEMMA ConsumptionIsAskable ==
    ASSUME NEW t \in Seq(Events), Len(t) = 2, t[1] = "consumed", t[2] = "accepted"
    PROVE  Askable(t)
<1>1. DOMAIN t = 1..2
  BY LenProperties
<1>2. Answers(t) = {}
  BY <1>1 DEF Answers
<1> QED BY <1>1, <1>2, FS_EmptySet, AttemptsAreBounded DEF Askable, Effect

-----------------------------------------------------------------------------
(* Frames.                                                                 *)

\* What a step keeps of a call that does not take it.
LEMMA OtherKeeps ==
    ASSUME NEW c \in Calls, TypeOK, call[c] \in CallStates, CallOK(c),
           call[c].at # "idle", UNCHANGED call[c],
           LET g == call[c].grant IN
               /\ UNCHANGED stream[g] \/ Len(stream'[g]) > Len(stream[g])
               /\ Spending(c) => Effect(stream[g])'
               /\ UNCHANGED sent[g] \/ call[c].at \notin {"look", "send", "deny"},
           Has("completed") \subseteq Has("completed")', seen \subseteq seen'
    PROVE  CallOK(c)'
<1> DEFINE g == call[c].grant
<1>0. g \in Grants /\ Len(stream[g]) \in Nat /\ call[c].version \in Nat
  BY LenProperties DEF CallOK, TypeOK, CallStates
<1>1. (call[c].at \in {"read", "record"} =>
           /\ call[c].version <= Len(stream[g])
           /\ call[c].version = Len(stream[g]) => IsOpen(stream[g]))'
  <2>1. CASE UNCHANGED stream[g]
    BY <2>1 DEF CallOK
  <2>2. CASE Len(stream'[g]) > Len(stream[g])
    <3>1. call[c].at \in {"read", "record"} => call[c].version <= Len(stream[g])
      BY DEF CallOK
    <3> QED BY <1>0, <2>2, <3>1
  <2> QED BY <2>1, <2>2
<1> QED BY <1>0, <1>1 DEF CallOK, Spending

LEMMA GrantKeeps ==
    ASSUME NEW g \in Grants, GrantOK(g), UNCHANGED <<stream[g], sent[g]>>
    PROVE  GrantOK(g)'
BY DEF GrantOK

\* A step of c that leaves the streams alone.
LEMMA CallStep ==
    ASSUME IInv, NEW c \in Calls, UNCHANGED <<stream, sent, branch, pulls, seen>>, TypeOK',
           call' \in [Calls -> CallStates], \A d \in Calls \ {c} : UNCHANGED call[d],
           CallOK(c)', Spending(c)' => Spending(c) /\ UNCHANGED call[c].grant
    PROVE  IInv'
<1>1. ASSUME NEW d \in Calls, d # c PROVE CallOK(d)'
  BY <1>1 DEF IInv, CallOK, Spending, Has
<1>2. OneSpender'
  BY DEF IInv, OneSpender, Spending
<1>3. \A g \in Grants : GrantOK(g)'
  BY GrantKeeps DEF IInv
<1> QED BY <1>1, <1>2, <1>3 DEF IInv, Shown

-----------------------------------------------------------------------------
(* One lemma for each action.                                              *)

LEMMA WindowEndsKeeps == ASSUME IInv, NEW g \in Grants, WindowEnds(g) PROVE IInv'
<1>1. TypeOK'
  BY DEF IInv, TypeOK, WindowEnds, remote
<1>2. UNCHANGED <<stream, sent, call, branch, pulls, seen>>
  BY DEF WindowEnds, remote
<1>3. \A c \in Calls : CallOK(c)'
  BY <1>2 DEF IInv, CallOK, Spending, Has
<1>4. \A h \in Grants : GrantOK(h)'
  BY <1>2, GrantKeeps DEF IInv
<1> QED BY <1>1, <1>2, <1>3, <1>4 DEF IInv, OneSpender, Spending, Shown

LEMMA BeginKeeps ==
    ASSUME IInv, NEW c \in Calls, NEW g \in Grants, NEW at \in {"admit", "inspect"}, Begin(c, at, g)
    PROVE  IInv'
<1>1. call' \in [Calls -> CallStates] /\ \A d \in Calls \ {c} : UNCHANGED call[d]
  BY DEF IInv, Begin, CallStates, Places, Idle
<1>2. call'[c].at = at /\ call'[c].grant = g
  BY DEF IInv, Begin, CallStates, Idle
<1>3. TypeOK' /\ UNCHANGED <<stream, sent, branch, pulls, seen>>
  BY DEF IInv, TypeOK, Begin, remote
<1> QED BY <1>1, <1>2, <1>3, CallStep DEF CallOK, Spending

LEMMA EndKeeps == ASSUME IInv, NEW c \in Calls, Release(c) \/ Crash(c) PROVE IInv'
<1>1. call' \in [Calls -> CallStates] /\ \A d \in Calls \ {c} : UNCHANGED call[d]
  BY DEF IInv, Release, Crash, CallStates, Places, Idle
<1>2. call'[c].at = "idle"
  BY DEF IInv, Release, Crash, Idle
<1>3. TypeOK' /\ UNCHANGED <<stream, sent, branch, pulls, seen>>
  <2>1. lease' \in [by : Calls \union {NoCall}, live : BOOLEAN]
    <3>1. NoLease \in [by : Calls \union {NoCall}, live : BOOLEAN]
      BY DEF NoLease
    <3>2. lease' = NoLease \/ UNCHANGED lease
      BY DEF Release, Crash
    <3> QED BY <3>1, <3>2 DEF IInv, TypeOK
  <2> QED BY <2>1 DEF IInv, TypeOK, Release, Crash, remote
<1> QED BY <1>1, <1>2, <1>3, CallStep DEF CallOK, Spending

\* A call moves on and keeps its grant.
LEMMA GoesTo ==
    ASSUME IInv, NEW c \in Calls, NEW at \in Places, Goes(c, at)
    PROVE  /\ call' \in [Calls -> CallStates] /\ \A d \in Calls \ {c} : UNCHANGED call[d]
           /\ call'[c].at = at /\ UNCHANGED <<call[c].grant, call[c].version, call[c].outcome>>
<1>1. call[c] \in CallStates
  BY DEF IInv
<1>2. [call[c] EXCEPT !.at = at] \in CallStates
  BY <1>1 DEF CallStates
<1>3. call' = [call EXCEPT ![c] = [call[c] EXCEPT !.at = at]]
  BY DEF Goes
<1> QED BY <1>1, <1>2, <1>3 DEF IInv, CallStates

\* HasCompletedPush looks at the last event of the stream of the push.
LEMMA AdmittedPush ==
    ASSUME TypeOK, NEW g \in Pulls, HasCompletedPush(g)
    PROVE  NeedsPush[g] \in Has("completed")
<1>1. NeedsPush[g] \in Grants /\ stream[NeedsPush[g]] \in Seq(Events)
  BY PullsNameGrants DEF TypeOK
<1> QED BY <1>1, LenProperties DEF HasCompletedPush, Has

LEMMA AdmitKeeps == ASSUME IInv, NEW c \in Calls, Admit(c) PROVE IInv'
<1> DEFINE g == call[c].grant
<1>1. TypeOK' /\ UNCHANGED <<stream, sent, branch, pulls, seen>>
  BY DEF IInv, TypeOK, Admit, remote
<1>2. g \in Grants
  BY DEF IInv, CallOK, Admit, At
<1>3. CASE Goes(c, "consume") /\ (g \in Pulls => HasCompletedPush(g))
  <2>1. /\ call' \in [Calls -> CallStates] /\ \A d \in Calls \ {c} : UNCHANGED call[d]
        /\ call'[c].at = "consume" /\ UNCHANGED call[c].grant
    BY <1>3, GoesTo DEF Places
  <2>2. g \in Pulls => NeedsPush[g] \in Has("completed")
    BY <1>3, AdmittedPush DEF IInv
  <2>3. Has("completed")' = Has("completed")
    BY <1>1 DEF Has
  <2> QED BY <1>1, <1>2, <2>1, <2>2, <2>3, CallStep DEF CallOK, Spending
<1>4. ASSUME NEW at \in {"release", "refuse"}, Goes(c, at) PROVE IInv'
  <2>1. /\ call' \in [Calls -> CallStates] /\ \A d \in Calls \ {c} : UNCHANGED call[d]
        /\ call'[c].at = at /\ UNCHANGED call[c].grant
    BY <1>4, GoesTo DEF Places
  <2> QED BY <1>1, <1>2, <2>1, CallStep DEF CallOK, Spending
<1> QED BY <1>3, <1>4 DEF Admit

LEMMA LookKeeps == ASSUME IInv, NEW c \in Calls, Look(c) \/ Wait(c) PROVE IInv'
<1>1. TypeOK' /\ UNCHANGED <<stream, sent, branch, pulls, seen>>
  BY DEF IInv, TypeOK, Look, Wait, remote
<1>2. PICK at \in {"send", "deny", "observe"} :
          /\ Goes(c, at) /\ call[c].at \in {"look", "wait"}
          /\ at \in {"send", "deny"} => call[c].at = "look"
  BY DEF Look, Wait, At
<1>3. /\ call' \in [Calls -> CallStates] /\ \A d \in Calls \ {c} : UNCHANGED call[d]
      /\ call'[c].at = at /\ UNCHANGED call[c].grant
  BY <1>2, GoesTo DEF Places
<1>4. Spending(c) /\ CallOK(c)
  BY <1>2 DEF IInv, Spending
<1>5. CallOK(c)'
  BY <1>1, <1>2, <1>3, <1>4 DEF CallOK, Spending
<1> QED BY <1>1, <1>3, <1>4, <1>5, CallStep

LEMMA InspectKeeps == ASSUME IInv, NEW c \in Calls, Inspect(c) PROVE IInv'
<1> DEFINE g == call[c].grant
<1>1. TypeOK' /\ UNCHANGED <<stream, sent, branch, pulls, seen>>
  BY DEF IInv, TypeOK, Inspect, remote
<1>2. g \in Grants /\ Len(stream[g]) \in Nat /\ call[c] \in CallStates
  BY LenProperties DEF IInv, TypeOK, CallOK, Inspect, At
<1>3. CASE Open(g) /\ call' = [call EXCEPT ![c].at = "read", ![c].version = Len(stream[g])]
  <2>1. [call[c] EXCEPT !.at = "read", !.version = Len(stream[g])] \in CallStates
    BY <1>2 DEF CallStates, Places
  <2>2. call' = [call EXCEPT ![c] = [call[c] EXCEPT !.at = "read", !.version = Len(stream[g])]]
    BY <1>3
  <2>3. /\ call' \in [Calls -> CallStates] /\ \A d \in Calls \ {c} : UNCHANGED call[d]
        /\ call'[c].at = "read" /\ call'[c].version = Len(stream[g]) /\ UNCHANGED call[c].grant
    BY <1>2, <2>1, <2>2 DEF IInv, CallStates
  <2>4. IsOpen(stream[g])
    BY <1>2, <1>3, OpenIs DEF IInv, TypeOK
  <2>5. CallOK(c)'
    BY <1>1, <1>2, <2>3, <2>4 DEF CallOK, Spending
  <2> QED BY <1>1, <2>3, <2>5, CallStep DEF Spending
<1>4. CASE Goes(c, "release")
  <2>1. /\ call' \in [Calls -> CallStates] /\ \A d \in Calls \ {c} : UNCHANGED call[d]
        /\ call'[c].at = "release" /\ UNCHANGED call[c].grant
    BY <1>4, GoesTo DEF Places
  <2> QED BY <1>1, <1>2, <2>1, CallStep DEF CallOK, Spending
<1> QED BY <1>3, <1>4 DEF Inspect

\* What proves an outcome is there to be seen.
LEMMA ProvenIsSeen ==
    ASSUME NEW g \in Grants, Proven(g), Shown(branch, pulls) \subseteq seen
    PROVE  g \in seen
BY DEF Proven, Shown

LEMMA ReadKeeps == ASSUME IInv, NEW c \in Calls, Read(c) PROVE IInv'
<1> DEFINE g == call[c].grant
<1>1. TypeOK' /\ UNCHANGED <<stream, sent, branch, pulls, seen>>
  BY DEF IInv, TypeOK, Read, remote
<1>2. g \in Grants /\ call[c] \in CallStates /\ call[c].at = "read" /\ CallOK(c)
  BY DEF IInv, CallOK, Read, At
<1>3. PICK outcome \in {"uncertain", "completed"} :
          /\ call' = [call EXCEPT ![c].at = "record", ![c].outcome = outcome]
          /\ outcome = "completed" => g \in seen
  BY <1>2, ProvenIsSeen DEF Read, IInv
<1>4. /\ call' \in [Calls -> CallStates] /\ \A d \in Calls \ {c} : UNCHANGED call[d]
      /\ call'[c].at = "record" /\ call'[c].outcome = outcome
      /\ UNCHANGED <<call[c].grant, call[c].version>>
  <2>1. [call[c] EXCEPT !.at = "record", !.outcome = outcome] \in CallStates
    BY <1>2 DEF CallStates, Places
  <2>2. call' = [call EXCEPT ![c] = [call[c] EXCEPT !.at = "record", !.outcome = outcome]]
    BY <1>3
  <2> QED BY <1>2, <2>1, <2>2 DEF IInv, CallStates
<1>5. CallOK(c)'
  BY <1>1, <1>2, <1>3, <1>4 DEF CallOK, Spending
<1> QED BY <1>1, <1>4, <1>5, CallStep DEF Spending

LEMMA SendKeeps == ASSUME IInv, NEW c \in Calls, Send(c) PROVE IInv'
<1> DEFINE g == call[c].grant
<1>0. g \in Grants /\ call[c].at = "send" /\ CallOK(c) /\ Spending(c)
  BY DEF IInv, CallOK, Send, At, Spending
<1>1. CASE Goes(c, "deny") /\ UNCHANGED <<flying, sent>>
  <2>1. TypeOK' /\ UNCHANGED <<stream, sent, branch, pulls, seen>>
    BY <1>1 DEF IInv, TypeOK, Send, remote
  <2>2. /\ call' \in [Calls -> CallStates] /\ \A d \in Calls \ {c} : UNCHANGED call[d]
        /\ call'[c].at = "deny" /\ UNCHANGED call[c].grant
    BY <1>1, GoesTo DEF Places
  <2>3. CallOK(c)'
    BY <1>0, <2>1, <2>2 DEF CallOK, Spending
  <2> QED BY <1>0, <2>1, <2>2, <2>3, CallStep
<1>2. CASE Goes(c, "wait") /\ flying' = flying \union {g} /\ sent' = [sent EXCEPT ![g] = @ + 1]
  <2>0. sent[g] = 0 /\ Effect(stream[g])
    BY <1>0 DEF CallOK
  <2>1. TypeOK' /\ UNCHANGED <<stream, branch, pulls, seen>>
    BY <1>0, <1>2 DEF IInv, TypeOK, Send, remote
  <2>2. /\ call' \in [Calls -> CallStates] /\ \A d \in Calls \ {c} : UNCHANGED call[d]
        /\ call'[c].at = "wait" /\ UNCHANGED call[c].grant
    BY <1>2, GoesTo DEF Places
  <2>3. sent'[g] = 1 /\ \A h \in Grants \ {g} : UNCHANGED sent[h]
    BY <1>0, <1>2, <2>0 DEF IInv, TypeOK
  <2>4. CallOK(c)'
    BY <1>0, <2>1, <2>2 DEF CallOK, Spending
  <2>5. ASSUME NEW d \in Calls, d # c PROVE CallOK(d)'
    <3>1. CASE call[d].at \in {"look", "send", "deny"}
      <4>1. call[d].grant # g /\ call[d].grant \in Grants
        BY <1>0, <2>5, <3>1 DEF IInv, OneSpender, Spending, CallOK
      <4> QED BY <2>1, <2>2, <2>3, <2>5, <3>1, <4>1 DEF IInv, CallOK, Spending
    <3>2. CASE call[d].at \notin {"look", "send", "deny"}
      BY <2>1, <2>2, <2>5, <3>2 DEF IInv, CallOK, Spending, Has
    <3> QED BY <3>1, <3>2
  <2>6. OneSpender'
    BY <1>0, <2>2 DEF IInv, OneSpender, Spending
  <2>7. \A h \in Grants : GrantOK(h)'
    BY <2>0, <2>1, <2>3 DEF IInv, GrantOK
  <2> QED BY <2>1, <2>2, <2>4, <2>5, <2>6, <2>7 DEF IInv, Shown
<1> QED BY <1>1, <1>2 DEF Send

\* A step that only moves the remote, or the lease.
LEMMA RemoteKeeps ==
    ASSUME IInv, TypeOK', UNCHANGED <<stream, call, sent>>, seen \subseteq seen',
           (Shown(branch, pulls) \subseteq seen)'
    PROVE  IInv'
<1>1. \A c \in Calls : CallOK(c)'
  BY DEF IInv, CallOK, Spending, Has
<1>2. OneSpender' /\ \A g \in Grants : GrantOK(g)'
  BY GrantKeeps DEF IInv, OneSpender, Spending
<1> QED BY <1>1, <1>2 DEF IInv

LEMMA ArriveKeeps == ASSUME IInv, NEW g \in Grants, Arrive(g) PROVE IInv'
<1>1. branch' \in Oids /\ pulls' \subseteq Pulls
  BY DEF IInv, TypeOK, Arrive, Oids, Grants
<1>2. seen' = seen \union Shown(branch', pulls') /\ seen' \subseteq Grants
  BY <1>1 DEF IInv, TypeOK, Arrive, Shown, Grants
<1>3. TypeOK'
  BY <1>1, <1>2 DEF IInv, TypeOK, Arrive
<1> QED BY <1>2, <1>3, RemoteKeeps DEF Arrive, Shown

LEMMA MoveKeeps == ASSUME IInv, Move PROVE IInv'
<1>1. branch' \in Oids /\ pulls' = pulls
  BY DEF Move
<1>2. seen' = seen \union Shown(branch', pulls') /\ seen' \subseteq Grants
  BY <1>1 DEF IInv, TypeOK, Move, Shown, Grants
<1>3. TypeOK'
  BY <1>1, <1>2 DEF IInv, TypeOK, Move
<1> QED BY <1>2, <1>3, RemoteKeeps DEF Move, Shown

LEMMA LapseKeeps == ASSUME IInv, Lapse PROVE IInv'
<1>1. TypeOK'
  BY DEF IInv, TypeOK, Lapse, remote
<1> QED BY <1>1, RemoteKeeps DEF IInv, Lapse, remote, Shown

\* A step of c that appends to the stream of its grant.
LEMMA StreamStep ==
    ASSUME IInv, NEW c \in Calls, call[c].at # "idle", NEW ev \in Seq(Events), Len(ev) > 0,
           NEW at \in {"look", "release"}, Goes(c, at),
           stream' = [stream EXCEPT ![call[c].grant] = @ \o ev],
           UNCHANGED <<lease, flying, remote, sent, elapsed>>,
           StreamOK(stream[call[c].grant])',
           \/ Effect(stream[call[c].grant])'
           \/ /\ sent[call[c].grant] = 0 /\ at = "release"
              /\ \A d \in Calls \ {c} : ~(Spending(d) /\ call[d].grant = call[c].grant),
           at = "look" => stream[call[c].grant] = <<>> /\ sent[call[c].grant] = 0
    PROVE  IInv'
<1> DEFINE g == call[c].grant
<1>0. g \in Grants /\ TypeOK /\ Len(stream[g]) \in Nat /\ Len(ev) \in Nat
  BY LenProperties DEF IInv, CallOK, TypeOK
<1>1. /\ stream' \in [Grants -> Seq(Events)] /\ \A h \in Grants \ {g} : UNCHANGED stream[h]
      /\ Len(stream'[g]) > Len(stream[g])
      /\ Has("completed") \subseteq Has("completed")'
  <2>1. /\ stream' \in [Grants -> Seq(Events)] /\ \A h \in Grants \ {g} : stream'[h] = stream[h]
        /\ Len(stream'[g]) = Len(stream[g]) + Len(ev)
        /\ Has("completed") \subseteq Has("completed")'
    <3>1. PICK k \in Grants : k = g
      BY <1>0
    <3>2. stream' = [stream EXCEPT ![k] = @ \o ev] /\ TypeOK
      BY <1>0, <3>1
    <3>3. /\ stream' \in [Grants -> Seq(Events)] /\ \A h \in Grants \ {k} : stream'[h] = stream[h]
          /\ Len(stream'[k]) = Len(stream[k]) + Len(ev)
      BY ONLY <3>2, AppendsTo, ev \in Seq(Events), k \in Grants
    <3>4. Has("completed")' = Has("completed") \/ Has("completed")' = Has("completed") \union {k}
      BY ONLY <3>2, HasAfter, ev \in Seq(Events), k \in Grants
    <3> QED BY <3>1, <3>3, <3>4
  <2>2. Len(stream[g]) + Len(ev) > Len(stream[g])
    BY <1>0
  <2> QED BY <2>1, <2>2
<1>2. /\ call' \in [Calls -> CallStates] /\ \A d \in Calls \ {c} : UNCHANGED call[d]
      /\ call'[c].at = at /\ UNCHANGED call[c].grant
  BY GoesTo DEF Places
<1>3. TypeOK' /\ UNCHANGED <<sent, branch, pulls, seen>>
  BY <1>0, <1>1 DEF TypeOK, remote
<1>4. CallOK(c)'
  BY <1>0, <1>2, <1>3 DEF CallOK, Spending
<1>5. ASSUME NEW d \in Calls, d # c PROVE CallOK(d)'
  <2>1. CASE call[d].at = "idle"
    BY <1>2, <1>5, <2>1 DEF CallOK, Spending
  <2>2. CASE call[d].at # "idle"
    <3>1. UNCHANGED call[d] /\ call[d] \in CallStates /\ CallOK(d) /\ call[d].grant \in Grants
      BY <1>2, <1>5, <2>2 DEF IInv, CallOK
    <3>2. Spending(d) => Effect(stream[call[d].grant])'
      <4>1. CASE call[d].grant = g
        <5>1. Spending(d) => Effect(stream'[g])
          BY <1>2, <1>5, <4>1
        <5> QED BY <3>1, <4>1, <5>1
      <4>2. CASE call[d].grant # g
        BY <1>1, <3>1, <4>2 DEF CallOK
      <4> QED BY <4>1, <4>2
    <3>3. \/ UNCHANGED stream[call[d].grant]
          \/ Len(stream'[call[d].grant]) > Len(stream[call[d].grant])
      BY <1>1, <3>1
    <3> QED BY <1>0, <1>1, <1>3, <2>2, <3>1, <3>2, <3>3, OtherKeeps
  <2> QED BY <2>1, <2>2
<1>6. OneSpender'
  <2>1. CASE at = "look"
    <3>1. \A d \in Calls : Spending(d) => call[d].grant # g
      <4>1. ~Effect(stream[g])
        BY <2>1, EmptySeq DEF Effect
      <4> QED BY <4>1 DEF IInv, CallOK
    <3> QED BY <1>2, <3>1 DEF IInv, OneSpender, Spending
  <2>2. CASE at = "release"
    BY <1>2, <2>2 DEF IInv, OneSpender, Spending
  <2> QED BY <2>1, <2>2
<1>7. ASSUME NEW h \in Grants PROVE GrantOK(h)'
  <2>1. CASE h = g
    BY <1>2, <1>3, <1>7, <2>1 DEF IInv, GrantOK
  <2>2. CASE h # g
    BY <1>1, <1>3, <1>7, <2>2 DEF IInv, GrantOK
  <2> QED BY <2>1, <2>2
<1> QED BY <1>2, <1>3, <1>4, <1>5, <1>6, <1>7 DEF IInv, Shown

LEMMA ConsumeKeeps == ASSUME IInv, NEW c \in Calls, Consume(c) PROVE IInv'
<1> DEFINE g == call[c].grant
           ev == <<"consumed", "accepted">>
<1>0. g \in Grants /\ call[c].at = "consume" /\ TypeOK /\ GrantOK(g)
  BY DEF IInv, CallOK, Consume, At
<1>1. CASE stream[g] = <<>>
  <2>1. stream' = [stream EXCEPT ![g] = @ \o ev] /\ Goes(c, "look")
    BY <1>1 DEF Consume, AppendAt
  <2>2. PICK k \in Grants : k = g
    BY <1>0
  <2>3. stream' = [stream EXCEPT ![k] = @ \o ev]
    BY <2>1, <2>2
  <2>4. /\ stream' \in [Grants -> Seq(Events)] /\ Len(stream'[k]) = Len(stream[k]) + Len(ev)
        /\ \A n \in 1..Len(ev) : stream'[k][Len(stream[k]) + n] = ev[n]
    <3> HIDE DEF ev
    <3>1. ev \in Seq(Events)
      BY ConsumptionSeq DEF ev
    <3> QED BY ONLY <1>0, <2>3, AppendsTo, <3>1, k \in Grants
  <2>5. /\ stream'[k] \in Seq(Events) /\ Len(stream'[k]) = 2
        /\ stream'[k][1] = "consumed" /\ stream'[k][2] = "accepted"
    <3>1. Len(stream[k]) = 0
      BY <1>1, <2>2
    <3>2. Len(ev) = 2 /\ ev[1] = "consumed" /\ ev[2] = "accepted"
      BY ConsumptionSeq
    <3> HIDE DEF ev
    <3> QED BY <2>4, <3>1, <3>2
  <2>6. Askable(stream'[k])
    BY <2>5, ConsumptionIsAskable
  <2>7. Askable(stream'[g])
    BY <2>2, <2>6
  <2>8. call'[c].grant = g
    BY <2>1, GoesTo DEF Places
  <2>9. sent[g] = 0
    BY <1>0, <1>1, EmptySeq DEF GrantOK, Effect
  <2>10. StreamOK(stream[call[c].grant])' /\ Effect(stream[call[c].grant])'
    BY <2>7, <2>8 DEF StreamOK, Askable
  <2>11. ev \in Seq(Events) /\ Len(ev) > 0
    BY ConsumptionSeq
  <2> HIDE DEF ev
  <2> QED BY <1>0, <1>1, <2>1, <2>9, <2>10, <2>11, StreamStep DEF Consume
<1>2. CASE stream[g] # <<>>
  <2>1. TypeOK' /\ UNCHANGED <<stream, sent, branch, pulls, seen>>
    BY <1>0, <1>2 DEF TypeOK, Consume, remote
  <2>2. /\ call' \in [Calls -> CallStates] /\ \A d \in Calls \ {c} : UNCHANGED call[d]
        /\ call'[c].at = "release" /\ UNCHANGED call[c].grant
    BY <1>2, GoesTo DEF Places, Consume
  <2> QED BY <1>0, <2>1, <2>2, CallStep DEF CallOK, Spending
<1> QED BY <1>1, <1>2

\* A call that ends without an append.
LEMMA EndsQuietly ==
    ASSUME IInv, NEW c \in Calls, call[c].at # "idle", Goes(c, "release"), UNCHANGED stream,
           UNCHANGED <<lease, flying, remote, sent, moves, lapses, elapsed>>
    PROVE  IInv'
<1>1. TypeOK' /\ UNCHANGED <<stream, sent, branch, pulls, seen>>
  BY DEF IInv, TypeOK, remote
<1>2. /\ call' \in [Calls -> CallStates] /\ \A d \in Calls \ {c} : UNCHANGED call[d]
      /\ call'[c].at = "release" /\ UNCHANGED call[c].grant
  BY GoesTo DEF Places
<1>3. call[c].grant \in Grants
  BY DEF IInv, CallOK
<1> QED BY <1>1, <1>2, <1>3, CallStep DEF CallOK, Spending

\* What the append of one event makes of a stream.
LEMMA AppendsOne ==
    ASSUME TypeOK, NEW g \in Grants, NEW e \in Events, stream' = [stream EXCEPT ![g] = @ \o <<e>>]
    PROVE  /\ stream' \in [Grants -> Seq(Events)]
           /\ Len(stream'[g]) = Len(stream[g]) + 1 /\ stream'[g][Len(stream'[g])] = e
           /\ \A n \in 1..Len(stream[g]) : stream'[g][n] = stream[g][n]
<1> DEFINE ev == <<e>>
<1>1. ev \in Seq(Events) /\ Len(ev) = 1 /\ ev[1] = e /\ Len(stream[g]) \in Nat
  BY SeqOfOne, LenProperties DEF TypeOK
<1>2. stream' = [stream EXCEPT ![g] = @ \o ev]
  OBVIOUS
<1> HIDE DEF ev
<1>3. /\ stream' \in [Grants -> Seq(Events)] /\ Len(stream'[g]) = Len(stream[g]) + Len(ev)
      /\ \A n \in 1..Len(stream[g]) : stream'[g][n] = stream[g][n]
      /\ \A n \in 1..Len(ev) : stream'[g][Len(stream[g]) + n] = ev[n]
  BY <1>1, <1>2, AppendsTo
<1>4. stream'[g][Len(stream[g]) + 1] = ev[1]
  BY <1>1, <1>3
<1> QED BY <1>1, <1>3, <1>4

LEMMA RefuseKeeps == ASSUME IInv, NEW c \in Calls, Refuse(c) PROVE IInv'
<1> DEFINE g == call[c].grant
           ev == <<"denied">>
<1>0. g \in Grants /\ call[c].at = "refuse" /\ TypeOK /\ GrantOK(g) /\ "denied" \in Events
  BY DEF IInv, CallOK, Refuse, At, Events
<1>1. CASE UNCHANGED stream
  BY <1>0, <1>1, EndsQuietly DEF Refuse
<1>2. CASE AppendAt(g, 0, ev)
  <2>1. stream' = [stream EXCEPT ![g] = @ \o ev] /\ Goes(c, "release") /\ Len(stream[g]) = 0
    BY <1>2 DEF Refuse, AppendAt
  <2>2. PICK k \in Grants : k = g
    BY <1>0
  <2>3. stream' = [stream EXCEPT ![k] = @ \o <<"denied">>]
    BY <2>1, <2>2
  <2>4. Len(stream'[k]) = 1 /\ stream'[k][1] = "denied"
    <3>1. Len(stream'[k]) = Len(stream[k]) + 1 /\ stream'[k][Len(stream'[k])] = "denied"
      BY ONLY <1>0, <2>3, AppendsOne, k \in Grants
    <3> QED BY <2>1, <2>2, <3>1
  <2>5. StreamOK(stream[call[c].grant])'
    <3>1. call'[c].grant = g
      BY <2>1, GoesTo DEF Places
    <3> QED BY <2>2, <2>4, <3>1 DEF StreamOK
  <2>6. ~Effect(stream[g])
    BY <2>1 DEF Effect
  <2>7. sent[g] = 0 /\ \A d \in Calls \ {c} : ~(Spending(d) /\ call[d].grant = g)
    BY <1>0, <2>6 DEF IInv, GrantOK, CallOK
  <2>8. ev \in Seq(Events) /\ Len(ev) > 0
    BY <1>0, SeqOfOne
  <2> HIDE DEF ev
  <2> QED BY <1>0, <2>1, <2>5, <2>7, <2>8, StreamStep DEF Refuse
<1> QED BY <1>1, <1>2 DEF Refuse

LEMMA ObserveKeeps == ASSUME IInv, NEW c \in Calls, Observe(c) PROVE IInv'
<1> DEFINE g == call[c].grant
           e == IF At(c, "deny") THEN "observed_denied" ELSE "observed_uncertain"
           ev == <<e>>
<1>0. /\ g \in Grants /\ call[c].at \in {"observe", "deny"} /\ TypeOK /\ GrantOK(g) /\ e \in Events
      /\ Effect(stream[g]) /\ stream[g] \in Seq(Events) /\ CallOK(c) /\ Spending(c)
  BY DEF IInv, CallOK, Observe, At, Events, Spending, TypeOK
<1>1. CASE UNCHANGED stream
  BY <1>0, <1>1, EndsQuietly DEF Observe
<1>2. CASE AppendAt(g, 2, ev)
  <2>1. stream' = [stream EXCEPT ![g] = @ \o ev] /\ Goes(c, "release") /\ Len(stream[g]) = 2
    BY <1>2 DEF Observe, AppendAt
  <2>2. PICK k \in Grants : k = g
    BY <1>0
  <2>3. PICK a \in Events : a = e
    BY <1>0
  <2>4. stream' = [stream EXCEPT ![k] = @ \o <<a>>]
    BY <2>1, <2>2, <2>3
  <2>5. /\ Len(stream'[k]) = 3 /\ stream'[k][3] = a /\ stream'[k] \in Seq(Events)
        /\ \A n \in 1..2 : stream'[k][n] = stream[k][n]
    <3>1. /\ stream' \in [Grants -> Seq(Events)]
          /\ Len(stream'[k]) = Len(stream[k]) + 1 /\ stream'[k][Len(stream'[k])] = a
          /\ \A n \in 1..Len(stream[k]) : stream'[k][n] = stream[k][n]
      BY ONLY <1>0, <2>4, AppendsOne, k \in Grants, a \in Events
    <3>2. Len(stream[k]) = 2
      BY <2>1, <2>2
    <3> QED BY <3>1, <3>2
  <2>6. call'[c].grant = g
    BY <2>1, GoesTo DEF Places
  <2>7. ev \in Seq(Events) /\ Len(ev) > 0
    BY <1>0, SeqOfOne
  <2>8. CASE call[c].at = "observe"
    <3>1. a = "observed_uncertain"
      BY <2>3, <2>8 DEF At
    <3>2. stream[k] \in Seq(Events) /\ Effect(stream[k]) /\ Len(stream[k]) = 2
      BY <1>0, <2>1, <2>2
    <3>3. Askable(stream'[k])
      BY <2>5, <3>1, <3>2, ObservationKeepsAskable
    <3>4. StreamOK(stream[call[c].grant])' /\ Effect(stream[call[c].grant])'
      BY <2>2, <2>6, <3>3 DEF StreamOK, Askable
    <3> HIDE DEF ev
    <3> QED BY <1>0, <2>1, <2>7, <3>4, StreamStep DEF Observe
  <2>9. CASE call[c].at = "deny"
    <3>1. a = "observed_denied"
      BY <2>3, <2>9 DEF At
    <3>2. stream'[k][1] = "consumed" /\ stream'[k][2] = "accepted"
      BY <1>0, <2>2, <2>5 DEF Effect
    <3>3. StreamOK(stream[call[c].grant])'
      BY <2>2, <2>5, <2>6, <3>1, <3>2 DEF StreamOK
    <3>4. sent[g] = 0 /\ \A d \in Calls \ {c} : ~(Spending(d) /\ call[d].grant = g)
      BY <1>0, <2>9 DEF IInv, CallOK, OneSpender
    <3> HIDE DEF ev
    <3> QED BY <1>0, <2>1, <2>7, <3>3, <3>4, StreamStep DEF Observe
  <2> QED BY <1>0, <2>8, <2>9
<1> QED BY <1>1, <1>2 DEF Observe

\* The stream a reconciliation answers has not moved since it was inspected.
LEMMA RecordKeeps == ASSUME IInv, NEW c \in Calls, Record(c) PROVE IInv'
<1> DEFINE g == call[c].grant
           e == call[c].outcome
           ev == <<e>>
<1>0. /\ g \in Grants /\ call[c].at = "record" /\ TypeOK /\ GrantOK(g) /\ CallOK(c)
      /\ stream[g] \in Seq(Events) /\ e \in {"completed", "uncertain"} /\ e \in Events
  BY DEF IInv, CallOK, Record, At, Events, TypeOK
<1>1. CASE UNCHANGED stream
  BY <1>0, <1>1, EndsQuietly DEF Record
<1>2. CASE AppendAt(g, call[c].version, ev)
  <2>1. stream' = [stream EXCEPT ![g] = @ \o ev] /\ Goes(c, "release") /\ IsOpen(stream[g])
    BY <1>0, <1>2 DEF Record, AppendAt, CallOK
  <2>2. PICK k \in Grants : k = g
    BY <1>0
  <2>3. PICK a \in Events : a = e
    BY <1>0
  <2>4. stream' = [stream EXCEPT ![k] = @ \o <<a>>]
    BY <2>1, <2>2, <2>3
  <2>5. /\ Len(stream'[k]) = Len(stream[k]) + 1 /\ stream'[k][Len(stream'[k])] = a
        /\ stream'[k] \in Seq(Events) /\ \A n \in 1..Len(stream[k]) : stream'[k][n] = stream[k][n]
    BY ONLY <1>0, <2>4, AppendsOne, k \in Grants, a \in Events
  <2>6. stream[k] \in Seq(Events) /\ IsOpen(stream[k]) /\ Askable(stream[k])
    <3>1. IsOpen(stream[k]) /\ StreamOK(stream[k])
      BY <1>0, <2>1, <2>2 DEF GrantOK
    <3>2. Askable(stream[k])
      BY <3>1, EmptySeq DEF StreamOK, IsOpen, Effect
    <3> QED BY <1>0, <2>2, <3>1, <3>2
  <2>7. Askable(stream'[k])
    BY <1>0, <2>3, <2>5, <2>6, AnswerKeepsAskable
  <2>8. call'[c].grant = g
    BY <2>1, GoesTo DEF Places
  <2>9. StreamOK(stream[call[c].grant])' /\ Effect(stream[call[c].grant])'
    BY <2>2, <2>7, <2>8 DEF StreamOK, Askable
  <2>10. ev \in Seq(Events) /\ Len(ev) > 0
    BY <1>0, SeqOfOne
  <2> HIDE DEF ev
  <2> QED BY <1>0, <2>1, <2>9, <2>10, StreamStep DEF Record
<1> QED BY <1>1, <1>2 DEF Record

-----------------------------------------------------------------------------
LEMMA InitIInv == Init => IInv
<1> SUFFICES ASSUME Init PROVE IInv
  OBVIOUS
<1>1. TypeOK
  <2>1. NoLease \in [by : Calls \union {NoCall}, live : BOOLEAN]
    BY DEF NoLease
  <2>2. seen \subseteq Grants /\ branch \in Oids
    BY DEF Init, Shown, Grants, Oids
  <2>3. stream \in [Grants -> Seq(Events)] /\ sent \in [Grants -> Nat]
    BY DEF Init
  <2> QED BY <2>1, <2>2, <2>3 DEF Init, TypeOK
<1>2. call \in [Calls -> CallStates] /\ \A c \in Calls : call[c].at = "idle"
  BY DEF Init, Idle, CallStates, Places
<1>3. \A g \in Grants : GrantOK(g)
  BY DEF Init, GrantOK, StreamOK
<1>4. Shown(branch, pulls) \subseteq seen
  BY DEF Init
<1> QED BY <1>1, <1>2, <1>3, <1>4 DEF IInv, CallOK, OneSpender, Spending

LEMMA StepIInv == IInv /\ [Next]_vars => IInv'
<1> SUFFICES ASSUME IInv, [Next]_vars PROVE IInv'
  OBVIOUS
<1>1. CASE UNCHANGED vars
  <2>1. TypeOK'
    BY <1>1 DEF IInv, TypeOK, vars, remote
  <2> QED BY <1>1, <2>1, RemoteKeeps DEF IInv, vars, remote, Shown
<1>2. ASSUME NEW c \in Calls, NEW g \in Grants, Begin(c, "admit", g) \/ Begin(c, "inspect", g)
      PROVE  IInv'
  BY <1>2, BeginKeeps
<1>3. ASSUME NEW c \in Calls,
             \/ Admit(c) \/ Consume(c) \/ Refuse(c) \/ Look(c) \/ Send(c) \/ Wait(c) \/ Observe(c)
             \/ Inspect(c) \/ Read(c) \/ Record(c) \/ Release(c) \/ Crash(c)
      PROVE  IInv'
  BY <1>3, AdmitKeeps, ConsumeKeeps, RefuseKeeps, LookKeeps, SendKeeps, ObserveKeeps,
     InspectKeeps, ReadKeeps, RecordKeeps, EndKeeps
<1>4. CASE Lapse \/ Move \/ \E g \in Grants : Arrive(g)
  BY <1>4, LapseKeeps, MoveKeeps, ArriveKeeps
<1>5. CASE \E g \in Grants : WindowEnds(g)
  BY <1>5, WindowEndsKeeps
<1> QED BY <1>1, <1>2, <1>3, <1>4, <1>5 DEF Next

\* Whatever the calls and the remote do, every stream, every call and the remote fit together.
THEOREM Invariance == Spec => []IInv
<1> QED BY InitIInv, StepIInv, PTL DEF Spec

\* Streams hold known events and the effects under way are those of grants of the policy.
THEOREM TypesHold == Spec => []TypeOK
<1>1. IInv => TypeOK
  BY DEF IInv
<1> QED BY <1>1, Invariance, PTL

\* consume() makes one call the spender of a grant: no other is between the consumption and
\* its observation, and none is before its effect when the effect has been sent.
THEOREM SpendsOnce ==
    Spec => [](OneSpender /\ \A c \in Calls : call[c].at \in {"look", "send", "deny"} =>
                                                  sent[call[c].grant] = 0)
<1>1. IInv => OneSpender /\ \A c \in Calls : call[c].at \in {"look", "send", "deny"} =>
                                                sent[call[c].grant] = 0
  BY DEF IInv, CallOK
<1> QED BY <1>1, Invariance, PTL

\* An effect that may have happened can be asked about until it is proven, its attempts are
\* used up or a day has passed since it was accepted: reconciliationState() refuses the stream
\* of no effect that was sent for any other reason, and lets none be asked about too often.
THEOREM SentEffectsAreAskable == Spec => []SentIsAskable
<1>1. IInv => SentIsAskable
  <2> SUFFICES ASSUME IInv, NEW g \in Grants, sent[g] > 0
               PROVE  /\ IsStreamOfEffect(g) /\ Attempts(g) <= MaxReconciliations
                      /\ \A n \in DOMAIN stream[g] : stream[g][n] = "completed" => n = Len(stream[g])
                      /\ \/ Open(g) \/ g \in elapsed
                         \/ stream[g][Len(stream[g])] = "completed" \/ Attempts(g) = MaxReconciliations
    BY DEF SentIsAskable
  <2>1. GrantOK(g) /\ stream[g] \in Seq(Events)
    BY DEF IInv, TypeOK
  <2>2. Effect(stream[g])
    BY <2>1 DEF GrantOK
  <2>3. Askable(stream[g])
    BY <2>1, <2>2, EmptySeq DEF GrantOK, StreamOK, Effect
  <2>4. Attempts(g) \in Nat /\ Attempts(g) <= MaxReconciliations
    <3>1. Answers(stream[g]) \subseteq 1..Len(stream[g]) /\ Len(stream[g]) \in Nat
      BY <2>1, LenProperties DEF Answers
    <3>2. IsFiniteSet(1..Len(stream[g]))
      BY <3>1, FS_Interval
    <3>3. Cardinality(Answers(stream[g])) \in Nat
      BY <3>1, <3>2, FS_Subset, FS_CardinalityType
    <3> QED BY <2>3, <3>3 DEF Askable, Attempts, Answers
  <2>5. Attempts(g) < MaxReconciliations \/ Attempts(g) = MaxReconciliations
    BY <2>4, AttemptsAreBounded
  <2>6. IsStreamOfEffect(g)
    BY <2>1, <2>2, EffectIs
  <2> QED BY <2>3, <2>4, <2>5, <2>6 DEF Askable, Open
<1> QED BY <1>1, Invariance, PTL

-----------------------------------------------------------------------------
(* The refinement: each step is one of ExactEffect, or a stutter.          *)

\* The stream of an open effect is spent and not denied; the empty stream is neither.
LEMMA StreamSays ==
    ASSUME NEW g \in Grants, stream[g] \in Seq(Events)
    PROVE  /\ Effect(stream[g]) => /\ g \in Has("consumed") /\ g \notin Has("denied")
                                   /\ g \notin Has("observed_denied")
           /\ stream[g] = <<>> => \A e \in Events : g \notin Has(e)
<1> DEFINE s == stream[g]
<1>1. Len(s) \in Nat /\ DOMAIN s = 1..Len(s)
  BY LenProperties
<1>2. ASSUME Effect(s)
      PROVE  g \in Has("consumed") /\ g \notin Has("denied") /\ g \notin Has("observed_denied")
  <2>1. \A n \in DOMAIN s : s[n] \in {"consumed", "accepted", "completed", "uncertain", "observed_uncertain"}
    <3> SUFFICES ASSUME NEW n \in 1..Len(s)
                 PROVE  s[n] \in {"consumed", "accepted", "completed", "uncertain", "observed_uncertain"}
      BY <1>1
    <3>1. n = 1 \/ n = 2 \/ n \in 3..Len(s)
      BY <1>1
    <3> QED BY <1>2, <3>1 DEF Effect
  <2>2. 1 \in DOMAIN s /\ s[1] = "consumed"
    BY <1>1, <1>2 DEF Effect
  <2> QED BY <2>1, <2>2 DEF Has
<1>3. ASSUME s = <<>> PROVE \A e \in Events : g \notin Has(e)
  <2>1. DOMAIN s = {}
    BY <1>3
  <2> QED BY <2>1 DEF Has
<1> QED BY <1>2, <1>3

\* The append of one event, as the abstract specification sees it.
LEMMA HasAfterOne ==
    ASSUME TypeOK, NEW g \in Grants, NEW e \in Events,
           stream' = [stream EXCEPT ![g] = @ \o <<e>>], NEW f
    PROVE  Has(f)' = IF f = e THEN Has(f) \union {g} ELSE Has(f)
<1> DEFINE ev == <<e>>
<1>1. ev \in Seq(Events) /\ \A n \in 1..Len(ev) : ev[n] = e
  BY SeqOfOne
<1>2. stream' = [stream EXCEPT ![g] = @ \o ev] /\ 1 \in 1..Len(ev)
  BY SeqOfOne
<1> HIDE DEF ev
<1>3. Has(f)' = IF \E n \in 1..Len(ev) : ev[n] = f THEN Has(f) \union {g} ELSE Has(f)
  BY ONLY <1>1, <1>2, HasAfter, TypeOK, g \in Grants
<1> QED BY <1>1, <1>2, <1>3

LEMMA HasAfterConsumption ==
    ASSUME TypeOK, NEW g \in Grants, stream' = [stream EXCEPT ![g] = @ \o <<"consumed", "accepted">>]
    PROVE  /\ Has("consumed")' = Has("consumed") \union {g}
           /\ UNCHANGED <<Has("denied"), Has("observed_denied"), Has("completed")>>
<1> DEFINE ev == <<"consumed", "accepted">>
<1>0. ev \in Seq(Events)
  BY ConsumptionSeq
<1>1. /\ \A n \in 1..Len(ev) : ev[n] \in {"consumed", "accepted"}
      /\ 1 \in 1..Len(ev) /\ ev[1] = "consumed"
  <2>1. \A n \in 1..2 : n = 1 \/ n = 2
    OBVIOUS
  <2> QED BY ConsumptionSeq, <2>1
<1>2. stream' = [stream EXCEPT ![g] = @ \o ev]
  OBVIOUS
<1> HIDE DEF ev
<1>3. /\ (\E n \in 1..Len(ev) : ev[n] = "consumed") /\ ~(\E n \in 1..Len(ev) : ev[n] = "denied")
      /\ ~(\E n \in 1..Len(ev) : ev[n] = "observed_denied")
      /\ ~(\E n \in 1..Len(ev) : ev[n] = "completed")
  BY <1>1
<1>4. Has("consumed")' = Has("consumed") \union {g}
  <2>1. Has("consumed")' = IF \E n \in 1..Len(ev) : ev[n] = "consumed"
                         THEN Has("consumed") \union {g} ELSE Has("consumed")
    BY ONLY TypeOK, g \in Grants, <1>0, <1>2, HasAfter
  <2> QED BY <1>3, <2>1
<1>5. Has("denied")' = Has("denied")
  <2>1. Has("denied")' = IF \E n \in 1..Len(ev) : ev[n] = "denied"
                       THEN Has("denied") \union {g} ELSE Has("denied")
    BY ONLY TypeOK, g \in Grants, <1>0, <1>2, HasAfter
  <2> QED BY <1>3, <2>1
<1>6. Has("observed_denied")' = Has("observed_denied")
  <2>1. Has("observed_denied")' = IF \E n \in 1..Len(ev) : ev[n] = "observed_denied"
                                THEN Has("observed_denied") \union {g} ELSE Has("observed_denied")
    BY ONLY TypeOK, g \in Grants, <1>0, <1>2, HasAfter
  <2> QED BY <1>3, <2>1
<1>7. Has("completed")' = Has("completed")
  <2>1. Has("completed")' = IF \E n \in 1..Len(ev) : ev[n] = "completed"
                          THEN Has("completed") \union {g} ELSE Has("completed")
    BY ONLY TypeOK, g \in Grants, <1>0, <1>2, HasAfter
  <2> QED BY <1>3, <2>1
<1> QED BY <1>4, <1>5, <1>6, <1>7

LEMMA HasOfUnchanged ==
    ASSUME UNCHANGED stream
    PROVE  UNCHANGED <<Has("consumed"), Has("denied"), Has("observed_denied"), Has("completed")>>
BY DEF Has

LEMMA Stutters == ASSUME UNCHANGED <<stream, sent, seen>> PROVE UNCHANGED Exact!vars
BY HasOfUnchanged DEF Exact!vars

LEMMA ConsumeSpends == ASSUME IInv, NEW c \in Calls, Consume(c) PROVE [Exact!Next]_Exact!vars
<1> DEFINE g == call[c].grant
<1>0. /\ g \in Grants /\ call[c].at = "consume" /\ TypeOK /\ CallOK(c) /\ stream[g] \in Seq(Events)
      /\ UNCHANGED <<sent, seen>>
  BY DEF IInv, TypeOK, CallOK, Consume, At, remote
<1>1. CASE stream[g] = <<>>
  <2>1. PICK k \in Grants : k = g
    BY <1>0
  <2>2. stream' = [stream EXCEPT ![k] = @ \o <<"consumed", "accepted">>]
    BY <1>1, <2>1 DEF Consume, AppendAt
  <2>3. /\ Has("consumed")' = Has("consumed") \union {k}
        /\ UNCHANGED <<Has("denied"), Has("observed_denied"), Has("completed")>>
    BY ONLY <1>0, <2>2, HasAfterConsumption, k \in Grants
  <2>4. k \notin Has("consumed") \union (Has("denied") \union Has("observed_denied"))
    BY <1>0, <1>1, <2>1, StreamSays DEF Events
  <2>5. (IF k \in Pulls THEN {NeedsPush[k]} ELSE {}) \subseteq Has("completed")
    BY <1>0, <2>1 DEF CallOK
  <2>6. Exact!Spend(k)
    BY <1>0, <2>3, <2>4, <2>5 DEF Exact!Spend
  <2> QED BY <2>6 DEF Exact!Next
<1>2. CASE stream[g] # <<>>
  BY <1>0, <1>2, Stutters DEF Consume
<1> QED BY <1>1, <1>2

LEMMA RefuseDenies == ASSUME IInv, NEW c \in Calls, Refuse(c) PROVE [Exact!Next]_Exact!vars
<1> DEFINE g == call[c].grant
<1>0. /\ g \in Grants /\ TypeOK /\ GrantOK(g) /\ stream[g] \in Seq(Events)
      /\ UNCHANGED <<sent, seen>> /\ "denied" \in Events
  BY DEF IInv, TypeOK, CallOK, Refuse, At, remote, Events
<1>1. CASE UNCHANGED stream
  BY <1>0, <1>1, Stutters
<1>2. CASE AppendAt(g, 0, <<"denied">>)
  <2>1. PICK k \in Grants : k = g
    BY <1>0
  <2>2. stream' = [stream EXCEPT ![k] = @ \o <<"denied">>] /\ Len(stream[k]) = 0
    BY <1>2, <2>1 DEF AppendAt
  <2>3. /\ Has("consumed")' = Has("consumed") /\ Has("denied")' = Has("denied") \union {k}
        /\ Has("observed_denied")' = Has("observed_denied") /\ Has("completed")' = Has("completed")
    <3>1. Has("consumed")' = Has("consumed")
      BY ONLY <1>0, <2>2, HasAfterOne, k \in Grants
    <3>2. Has("denied")' = Has("denied") \union {k}
      BY ONLY <1>0, <2>2, HasAfterOne, k \in Grants
    <3>3. Has("observed_denied")' = Has("observed_denied")
      BY ONLY <1>0, <2>2, HasAfterOne, k \in Grants
    <3>4. Has("completed")' = Has("completed")
      BY ONLY <1>0, <2>2, HasAfterOne, k \in Grants
    <3> QED BY <3>1, <3>2, <3>3, <3>4
  <2>4. sent[k] = 0
    BY <1>0, <2>1, <2>2 DEF GrantOK, Effect
  <2>5. Exact!Deny(k)
    BY <1>0, <2>3, <2>4 DEF Exact!Deny
  <2> QED BY <2>5 DEF Exact!Next
<1> QED BY <1>1, <1>2 DEF Refuse

LEMMA ObserveDenies == ASSUME IInv, NEW c \in Calls, Observe(c) PROVE [Exact!Next]_Exact!vars
<1> DEFINE g == call[c].grant
<1>0. /\ g \in Grants /\ TypeOK /\ CallOK(c) /\ call[c].at \in {"observe", "deny"}
      /\ UNCHANGED <<sent, seen>> /\ {"observed_denied", "observed_uncertain"} \subseteq Events
  BY DEF IInv, CallOK, Observe, At, remote, Events
<1>1. CASE UNCHANGED stream
  BY <1>0, <1>1, Stutters
<1>2. CASE ~(UNCHANGED stream)
  <2>1. PICK k \in Grants : k = g
    BY <1>0
  <2>2. CASE call[c].at = "deny"
    <3>1. stream' = [stream EXCEPT ![k] = @ \o <<"observed_denied">>] /\ sent[k] = 0
      BY <1>0, <1>2, <2>1, <2>2 DEF Observe, AppendAt, At, CallOK
    <3>2. Has("consumed")' = Has("consumed")
      BY ONLY <1>0, <3>1, HasAfterOne, k \in Grants
    <3>3. Has("denied")' = Has("denied")
      BY ONLY <1>0, <3>1, HasAfterOne, k \in Grants
    <3>4. Has("observed_denied")' = Has("observed_denied") \union {k}
      BY ONLY <1>0, <3>1, HasAfterOne, k \in Grants
    <3>5. Has("completed")' = Has("completed")
      BY ONLY <1>0, <3>1, HasAfterOne, k \in Grants
    <3>6. Exact!Deny(k)
      BY <1>0, <3>1, <3>2, <3>3, <3>4, <3>5 DEF Exact!Deny
    <3> QED BY <3>6 DEF Exact!Next
  <2>3. CASE call[c].at = "observe"
    <3>1. stream' = [stream EXCEPT ![k] = @ \o <<"observed_uncertain">>]
      BY <1>0, <1>2, <2>1, <2>3 DEF Observe, AppendAt, At
    <3>2. Has("consumed")' = Has("consumed")
      BY ONLY <1>0, <3>1, HasAfterOne, k \in Grants
    <3>3. Has("denied")' = Has("denied")
      BY ONLY <1>0, <3>1, HasAfterOne, k \in Grants
    <3>4. Has("observed_denied")' = Has("observed_denied")
      BY ONLY <1>0, <3>1, HasAfterOne, k \in Grants
    <3>5. Has("completed")' = Has("completed")
      BY ONLY <1>0, <3>1, HasAfterOne, k \in Grants
    <3> QED BY <1>0, <3>2, <3>3, <3>4, <3>5 DEF Exact!vars
  <2> QED BY <1>0, <2>2, <2>3
<1> QED BY <1>1, <1>2

LEMMA RecordCompletes == ASSUME IInv, NEW c \in Calls, Record(c) PROVE [Exact!Next]_Exact!vars
<1> DEFINE g == call[c].grant
<1>0. /\ g \in Grants /\ TypeOK /\ CallOK(c) /\ call[c].at = "record" /\ stream[g] \in Seq(Events)
      /\ UNCHANGED <<sent, seen>> /\ {"completed", "uncertain"} \subseteq Events
      /\ call[c].outcome \in {"uncertain", "completed"}
  BY DEF IInv, TypeOK, CallOK, Record, At, remote, Events
<1>1. CASE UNCHANGED stream
  BY <1>0, <1>1, Stutters
<1>2. CASE AppendAt(g, call[c].version, <<call[c].outcome>>)
  <2>1. PICK k \in Grants : k = g
    BY <1>0
  <2>2. IsOpen(stream[k]) /\ Effect(stream[k])
    BY <1>0, <1>2, <2>1 DEF AppendAt, CallOK, IsOpen
  <2>3. CASE call[c].outcome = "completed"
    <3>1. stream' = [stream EXCEPT ![k] = @ \o <<"completed">>] /\ k \in seen
      BY <1>0, <1>2, <2>1, <2>3 DEF AppendAt, CallOK
    <3>2. Has("consumed")' = Has("consumed")
      BY ONLY <1>0, <3>1, HasAfterOne, k \in Grants
    <3>3. Has("denied")' = Has("denied")
      BY ONLY <1>0, <3>1, HasAfterOne, k \in Grants
    <3>4. Has("observed_denied")' = Has("observed_denied")
      BY ONLY <1>0, <3>1, HasAfterOne, k \in Grants
    <3>5. Has("completed")' = Has("completed") \union {k}
      BY ONLY <1>0, <3>1, HasAfterOne, k \in Grants
    <3>6. k \in Has("consumed") /\ k \notin Has("denied") \union Has("observed_denied")
      BY <1>0, <2>1, <2>2, StreamSays
    <3>7. Exact!Complete(k)
      BY <1>0, <3>1, <3>2, <3>3, <3>4, <3>5, <3>6 DEF Exact!Complete
    <3> QED BY <3>7 DEF Exact!Next
  <2>4. CASE call[c].outcome = "uncertain"
    <3>1. stream' = [stream EXCEPT ![k] = @ \o <<"uncertain">>]
      BY <1>2, <2>1, <2>4 DEF AppendAt
    <3>2. Has("consumed")' = Has("consumed")
      BY ONLY <1>0, <3>1, HasAfterOne, k \in Grants
    <3>3. Has("denied")' = Has("denied")
      BY ONLY <1>0, <3>1, HasAfterOne, k \in Grants
    <3>4. Has("observed_denied")' = Has("observed_denied")
      BY ONLY <1>0, <3>1, HasAfterOne, k \in Grants
    <3>5. Has("completed")' = Has("completed")
      BY ONLY ZenonT(60), <1>0, <3>1, HasAfterOne, k \in Grants
    <3> QED BY <1>0, <3>2, <3>3, <3>4, <3>5 DEF Exact!vars
  <2> QED BY <1>0, <2>3, <2>4
<1> QED BY <1>1, <1>2 DEF Record

LEMMA SendSends == ASSUME IInv, NEW c \in Calls, Send(c) PROVE [Exact!Next]_Exact!vars
<1> DEFINE g == call[c].grant
<1>0. /\ g \in Grants /\ TypeOK /\ sent[g] = 0 /\ Effect(stream[g]) /\ stream[g] \in Seq(Events)
      /\ UNCHANGED <<stream, seen>>
  BY DEF IInv, TypeOK, CallOK, Send, At, remote, Spending
<1>1. CASE UNCHANGED sent
  BY <1>0, <1>1, Stutters
<1>2. CASE sent' = [sent EXCEPT ![g] = @ + 1]
  <2>1. PICK k \in Grants : k = g
    BY <1>0
  <2>2. sent' = [sent EXCEPT ![k] = 1] /\ sent[k] = 0
    BY <1>0, <1>2, <2>1
  <2>3. k \in Has("consumed") /\ k \notin Has("denied") \union Has("observed_denied")
    BY <1>0, <2>1, StreamSays
  <2>4. Exact!Send(k)
    BY <1>0, <2>2, <2>3, HasOfUnchanged DEF Exact!Send
  <2> QED BY <2>4 DEF Exact!Next
<1> QED BY <1>1, <1>2 DEF Send

LEMMA RemoteShows ==
    ASSUME IInv, Move \/ \E g \in Grants : Arrive(g) PROVE [Exact!Next]_Exact!vars
<1>1. seen' = seen \union Shown(branch', pulls') /\ UNCHANGED <<stream, sent>>
  BY DEF Move, Arrive
<1>2. Shown(branch', pulls') \subseteq Grants
  BY DEF IInv, TypeOK, Shown, Grants, Move, Arrive
<1>3. Exact!Show
  BY <1>1, <1>2, HasOfUnchanged DEF Exact!Show
<1> QED BY <1>3 DEF Exact!Next

LEMMA InitRefines == Init => Exact!Init
<1> SUFFICES ASSUME Init PROVE Exact!Init
  OBVIOUS
<1>1. \A e : Has(e) = {}
  BY DEF Init, Has
<1>2. seen \in SUBSET Grants
  BY DEF Init, Shown, Grants
<1> QED BY <1>1, <1>2 DEF Init, Exact!Init

LEMMA StepRefines == IInv /\ [Next]_vars => [Exact!Next]_Exact!vars
<1> SUFFICES ASSUME IInv, [Next]_vars PROVE [Exact!Next]_Exact!vars
  OBVIOUS
<1>1. CASE UNCHANGED vars
  BY <1>1, Stutters DEF vars, remote
<1>2. ASSUME NEW c \in Calls,
             \/ Admit(c) \/ Look(c) \/ Wait(c) \/ Inspect(c) \/ Read(c) \/ Release(c) \/ Crash(c)
             \/ \E g \in Grants : Begin(c, "admit", g) \/ Begin(c, "inspect", g)
      PROVE  [Exact!Next]_Exact!vars
  <2>1. UNCHANGED <<stream, sent, seen>>
    BY <1>2 DEF Admit, Look, Wait, Inspect, Read, Release, Crash, Begin, remote
  <2> QED BY <2>1, Stutters
<1>3. ASSUME NEW c \in Calls, Consume(c) \/ Refuse(c) \/ Send(c) \/ Observe(c) \/ Record(c)
      PROVE  [Exact!Next]_Exact!vars
  BY <1>3, ConsumeSpends, RefuseDenies, SendSends, ObserveDenies, RecordCompletes
<1>4. CASE Lapse \/ \E g \in Grants : WindowEnds(g)
  BY <1>4, Stutters DEF Lapse, WindowEnds, remote
<1>5. CASE Move \/ \E g \in Grants : Arrive(g)
  BY <1>5, RemoteShows
<1> QED BY <1>1, <1>2, <1>3, <1>4, <1>5 DEF Next

\* An effect is sent at most once and never after it was called denied, a pull request only
\* after its push is proven, and a completion is true, whatever is late, lost or killed.
THEOREM RefinesExactEffect == Spec => ImplementsExactEffect
<1> QED BY InitRefines, StepRefines, Invariance, PTL DEF Spec, ImplementsExactEffect, Exact!Spec
=============================================================================
