--------------------------- MODULE GitHubEffects ----------------------------
(***************************************************************************)
(* The host broker of GitHub effects (capsule/github-broker.ts): push(),   *)
(* createPullRequest() and their reconciliations, as calls of several      *)
(* processes on one repository.  A call holds the lease of the repository, *)
(* spends its grant in the grant's stream, looks at the remote, hands the  *)
(* effect to a child process and records what it knows of it.  From then   *)
(* on the effect is on its own: it arrives late, or never, whether the     *)
(* call still waits for it, has given it up or has been killed.            *)
(*                                                                         *)
(* A call is a process: those of one process are queued on top of that     *)
(* (withRepositoryLock).  The effects are on one branch of the repository. *)
(***************************************************************************)
EXTENDS Naturals, Sequences, FiniteSets, TLC

CONSTANTS
    Calls,         \* the calls that may be under way
    NoCall,
    Pushes, Pulls, \* the grants of the policy, by their operation
    NoGrant,
    Commit,        \* the commit a grant pushes, or opens the pull request for
    Old,           \* the commit a push expects at the branch
    NeedsPush,     \* the push grant a pull request names
    Zero,          \* no branch
    Foreign,       \* a commit of somebody else
    MaxReconciliations,
    MaxMoves,      \* bound: how often somebody else moves the branch
    MaxLapses,     \* bound: how often a lease elapses under its owner
    MaxElapsed     \* bound: how many windows of reconciliation end

Grants == Pushes \union Pulls
Oids == {Commit[g] : g \in Grants} \union {Zero, Foreign}

ASSUME GrantsDiffer == Pushes \intersect Pulls = {} /\ NoGrant \notin Grants
ASSUME NoCallIsNone == NoCall \notin Calls
ASSUME AttemptsAreBounded == MaxReconciliations \in Nat
ASSUME PullsNameGrants == NeedsPush \in [Pulls -> Grants]

VARIABLES
    stream,   \* the events of each grant stream
    lease,    \* [by, live] of the repository lease
    call,     \* [at, grant, version, outcome] of each call
    flying,   \* the grants whose effect is under way to the remote
    branch,   \* the remote branch
    pulls,    \* the grants with a pull request at the remote
    sent,     \* history: how often the effect of a grant was sent
    seen,     \* history: the grants whose result the remote has held
    moves, lapses,
    elapsed   \* the grants accepted longer ago than RECONCILIATION_WINDOW_MS

remote == <<branch, pulls, seen>>
vars == <<stream, lease, call, flying, remote, sent, moves, lapses, elapsed>>

NoLease == [by |-> NoCall, live |-> FALSE]
Idle == [at |-> "idle", grant |-> NoGrant, version |-> 0, outcome |-> "none"]
Events == {"consumed", "accepted", "denied", "observed_denied", "observed_uncertain",
           "completed", "uncertain"}

Shown(oid, opened) == {g \in Pushes : Commit[g] = oid} \union opened

Init ==
    /\ stream = [g \in Grants |-> <<>>]
    /\ lease = NoLease
    /\ call = [c \in Calls |-> Idle]
    /\ flying = {} /\ pulls = {}
    /\ branch \in {Zero, Foreign}
    /\ sent = [g \in Grants |-> 0]
    /\ seen = Shown(branch, {})
    /\ moves = 0 /\ lapses = 0 /\ elapsed = {}

Goes(c, at) == call' = [call EXCEPT ![c].at = at]
At(c, at) == call[c].at = at
Holds(c) == lease = [by |-> c, live |-> TRUE]

\* The journal appends at an expected version and refuses any other.
AppendAt(g, version, events) ==
    Len(stream[g]) = version /\ stream' = [stream EXCEPT ![g] = @ \o events]

-----------------------------------------------------------------------------
(* withRepositoryLease(): a lease that is held is not waited for.          *)
Begin(c, at, g) ==
    /\ At(c, "idle") /\ ~lease.live
    /\ lease' = [by |-> c, live |-> TRUE]
    /\ call' = [call EXCEPT ![c] = [Idle EXCEPT !.at = at, !.grant = g]]
    /\ UNCHANGED <<stream, flying, remote, sent, moves, lapses, elapsed>>

\* The process is stopped for longer than the lease lasts.
Lapse ==
    /\ lease.live /\ lapses < MaxLapses
    /\ lease' = [lease EXCEPT !.live = FALSE]
    /\ lapses' = lapses + 1
    /\ UNCHANGED <<stream, call, flying, remote, sent, moves, elapsed>>

Release(c) ==
    /\ At(c, "release")
    /\ lease' = IF lease.by = c THEN NoLease ELSE lease
    /\ call' = [call EXCEPT ![c] = Idle]
    /\ UNCHANGED <<stream, flying, remote, sent, moves, lapses, elapsed>>

\* The lease of a process that was killed elapses; its children live on.
Crash(c) ==
    /\ ~At(c, "idle")
    /\ call' = [call EXCEPT ![c] = Idle]
    /\ lease' = IF lease.by = c THEN NoLease ELSE lease
    /\ UNCHANGED <<stream, flying, remote, sent, moves, lapses, elapsed>>

-----------------------------------------------------------------------------
(* admit(): the grant must be unused, and the push a pull request names    *)
(* must have ended completed.                                              *)
HasCompletedPush(g) ==
    LET needed == NeedsPush[g] IN
    /\ needed \in Pushes /\ Commit[needed] = Commit[g] /\ Old[needed] = Zero
    /\ Len(stream[needed]) >= 4
    /\ SubSeq(stream[needed], 1, 2) = <<"consumed", "accepted">>
    /\ \A n \in 3..Len(stream[needed]) : stream[needed][n] \notin {"consumed", "accepted", "denied"}
    /\ stream[needed][Len(stream[needed])] = "completed"

Admit(c) ==
    LET g == call[c].grant IN
    /\ At(c, "admit")
    /\ \/ stream[g] # <<>> /\ Goes(c, "release")
       \/ stream[g] = <<>> /\ (g \in Pulls => HasCompletedPush(g)) /\ Goes(c, "consume")
       \/ stream[g] = <<>> /\ Goes(c, "refuse") \* expired, not the exact action, or no completed push
    /\ UNCHANGED <<stream, lease, flying, remote, sent, moves, lapses, elapsed>>

\* Mutant: a grant is spent whatever its stream holds by now.
Consume_Again(c) ==
    LET g == call[c].grant IN
    /\ At(c, "consume")
    /\ IF stream[g] = <<>> THEN stream' = [stream EXCEPT ![g] = <<"consumed", "accepted">>]
       ELSE UNCHANGED stream
    /\ Goes(c, "look")
    /\ UNCHANGED <<lease, flying, remote, sent, moves, lapses, elapsed>>

Consume(c) ==
    LET g == call[c].grant IN
    /\ At(c, "consume")
    /\ IF stream[g] = <<>>
       THEN AppendAt(g, 0, <<"consumed", "accepted">>) /\ Goes(c, "look")
       ELSE Goes(c, "release") /\ UNCHANGED stream
    /\ UNCHANGED <<lease, flying, remote, sent, moves, lapses, elapsed>>

Refuse(c) ==
    /\ At(c, "refuse")
    /\ \/ AppendAt(call[c].grant, 0, <<"denied">>)
       \/ stream[call[c].grant] # <<>> /\ UNCHANGED stream
    /\ Goes(c, "release")
    /\ UNCHANGED <<lease, flying, remote, sent, moves, lapses, elapsed>>

(* Executables, credential, objects and the remote are looked at; whatever *)
(* is wrong with one of them ends the call before its effect is sent.      *)
Look(c) ==
    LET g == call[c].grant IN
    /\ At(c, "look")
    /\ \/ branch = (IF g \in Pushes THEN Old[g] ELSE Commit[g]) /\ Goes(c, "send")
       \/ Goes(c, "deny")
    /\ UNCHANGED <<stream, lease, flying, remote, sent, moves, lapses, elapsed>>

\* assertLease(), and the effect is handed to its child process.
Send(c) ==
    LET g == call[c].grant IN
    /\ At(c, "send")
    /\ IF Holds(c)
       THEN /\ flying' = flying \union {g}
            /\ sent' = [sent EXCEPT ![g] = @ + 1]
            /\ Goes(c, "wait")
       ELSE Goes(c, "deny") /\ UNCHANGED <<flying, sent>>
    /\ UNCHANGED <<stream, lease, remote, moves, lapses, elapsed>>

\* The child answers, or it is ended by its time limit, a cancellation or the lost lease.
Wait(c) ==
    /\ At(c, "wait")
    /\ Goes(c, "observe")
    /\ UNCHANGED <<stream, lease, flying, remote, sent, moves, lapses, elapsed>>

\* Mutant: the observation goes to the end of the stream.
Observe_Anywhere(c) ==
    /\ call[c].at \in {"observe", "deny"}
    /\ AppendAt(call[c].grant, Len(stream[call[c].grant]),
               <<IF At(c, "deny") THEN "observed_denied" ELSE "observed_uncertain">>)
    /\ Goes(c, "release")
    /\ UNCHANGED <<lease, flying, remote, sent, moves, lapses, elapsed>>

\* observe(): after the admission and before any reconciliation, or not at all.
Observe(c) ==
    LET g == call[c].grant IN
    /\ call[c].at \in {"observe", "deny"}
    /\ \/ AppendAt(g, 2, <<IF At(c, "deny") THEN "observed_denied" ELSE "observed_uncertain">>)
       \/ Len(stream[g]) # 2 /\ UNCHANGED stream
    /\ Goes(c, "release")
    /\ UNCHANGED <<lease, flying, remote, sent, moves, lapses, elapsed>>

-----------------------------------------------------------------------------
(* The effect at the remote.  A push names the commit it replaces, and the *)
(* remote compares (--force-with-lease).                                   *)
Arrive(g) ==
    /\ g \in flying
    /\ flying' = flying \ {g}
    /\ \/ g \in Pushes /\ branch = Old[g] /\ branch' = Commit[g] /\ UNCHANGED pulls
       \/ g \in Pulls /\ pulls' = pulls \union {g} /\ UNCHANGED branch
       \/ UNCHANGED <<branch, pulls>> \* refused, or lost
    /\ seen' = seen \union Shown(branch', pulls')
    /\ UNCHANGED <<stream, lease, call, sent, moves, lapses, elapsed>>

Move ==
    /\ moves < MaxMoves
    /\ \E oid \in Oids \ {branch} : branch' = oid
    /\ seen' = seen \union Shown(branch', pulls)
    /\ moves' = moves + 1
    /\ UNCHANGED <<stream, lease, call, flying, pulls, sent, lapses, elapsed>>

-----------------------------------------------------------------------------
(* reconcilePush() and reconcilePullRequest(): the stream must be that of  *)
(* an effect whose outcome is open, and whose acceptance is not older than *)
(* a day (reconciliationState).                                            *)
Attempts(g) == Cardinality({n \in DOMAIN stream[g] : stream[g][n] \in {"completed", "uncertain"}})

IsStreamOfEffect(g) ==
    LET first == IF Len(stream[g]) >= 3 /\ stream[g][3] = "observed_uncertain" THEN 4 ELSE 3 IN
    /\ Len(stream[g]) >= 2 /\ SubSeq(stream[g], 1, 2) = <<"consumed", "accepted">>
    /\ \A n \in first..Len(stream[g]) : stream[g][n] \in {"completed", "uncertain"}

Open(g) ==
    /\ IsStreamOfEffect(g)
    /\ stream[g][Len(stream[g])] # "completed"
    /\ Attempts(g) < MaxReconciliations
    /\ g \notin elapsed

\* RECONCILIATION_WINDOW_MS has passed since the acceptance was recorded.
WindowEnds(g) ==
    /\ Len(stream[g]) >= 2 /\ g \notin elapsed /\ Cardinality(elapsed) < MaxElapsed
    /\ elapsed' = elapsed \union {g}
    /\ UNCHANGED <<stream, lease, call, flying, remote, sent, moves, lapses>>

Inspect(c) ==
    LET g == call[c].grant IN
    /\ At(c, "inspect")
    /\ IF Open(g) THEN call' = [call EXCEPT ![c].at = "read", ![c].version = Len(stream[g])]
       ELSE Goes(c, "release")
    /\ UNCHANGED <<stream, lease, flying, remote, sent, moves, lapses, elapsed>>

\* The remote is read; nothing but the exact result is a proof of anything.  A pull
\* request has the head of its branch, and keeps it when the branch is deleted.
Proven(g) == IF g \in Pushes THEN branch = Commit[g] ELSE g \in pulls /\ branch \in {Commit[g], Zero}

Read(c) ==
    LET g == call[c].grant IN
    /\ At(c, "read")
    /\ \E outcome \in {"uncertain"} \union (IF Proven(g) THEN {"completed"} ELSE {}) :
           call' = [call EXCEPT ![c].at = "record", ![c].outcome = outcome]
    /\ UNCHANGED <<stream, lease, flying, remote, sent, moves, lapses, elapsed>>

Record(c) ==
    LET g == call[c].grant IN
    /\ At(c, "record")
    /\ \/ AppendAt(g, call[c].version, <<call[c].outcome>>)
       \/ Len(stream[g]) # call[c].version /\ UNCHANGED stream
    /\ Goes(c, "release")
    /\ UNCHANGED <<lease, flying, remote, sent, moves, lapses, elapsed>>

-----------------------------------------------------------------------------
Next ==
    \/ \E c \in Calls, g \in Grants : Begin(c, "admit", g) \/ Begin(c, "inspect", g)
    \/ \E c \in Calls :
        \/ Admit(c) \/ Consume(c) \/ Refuse(c) \/ Look(c) \/ Send(c) \/ Wait(c) \/ Observe(c)
        \/ Inspect(c) \/ Read(c) \/ Record(c) \/ Release(c) \/ Crash(c)
    \/ Lapse \/ Move
    \/ \E g \in Grants : Arrive(g) \/ WindowEnds(g)

Spec == Init /\ [][Next]_vars

-----------------------------------------------------------------------------
TypeOK ==
    /\ stream \in [Grants -> Seq(Events)]
    /\ lease \in [by : Calls \union {NoCall}, live : BOOLEAN]
    /\ flying \subseteq Grants /\ pulls \subseteq Pulls /\ seen \subseteq Grants
    /\ branch \in Oids
    /\ sent \in [Grants -> Nat] /\ elapsed \subseteq Grants

Has(event) == {g \in Grants : \E n \in DOMAIN stream[g] : stream[g][n] = event}

Exact == INSTANCE ExactEffect WITH
    Needs <- [g \in Grants |-> IF g \in Pulls THEN {NeedsPush[g]} ELSE {}],
    spent <- Has("consumed"),
    denied <- Has("denied") \union Has("observed_denied"),
    completed <- Has("completed")

(* Whoever calls how often, whatever is late, lost or killed: an effect is *)
(* sent at most once and never after it was called denied, a pull request  *)
(* only after its push is proven, and a completion is true.                *)
ImplementsExactEffect == Exact!Spec

(* An effect that may have happened can be asked about until it is proven, *)
(* its attempts are used up or a day has passed since it was accepted: no  *)
(* late observation and no second reconciliation leaves a stream that      *)
(* reconciliationState() refuses for any other reason, or asks too often.  *)
SentIsAskable ==
    \A g \in Grants : sent[g] > 0 =>
        /\ IsStreamOfEffect(g) /\ Attempts(g) <= MaxReconciliations
        /\ \A n \in DOMAIN stream[g] : stream[g][n] = "completed" => n = Len(stream[g])
        /\ \/ Open(g) \/ g \in elapsed
           \/ stream[g][Len(stream[g])] = "completed" \/ Attempts(g) = MaxReconciliations
=============================================================================
