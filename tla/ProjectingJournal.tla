------------------------- MODULE ProjectingJournal -------------------------
(***************************************************************************)
(* The durable projection of the event journal into an Agent Tail file:    *)
(* ProjectingEventJournal (journal/projecting-journal.ts) over the         *)
(* projection claims of SqliteEventJournal (journal/sqlite-journal.ts) and *)
(* AgentTailJsonlFileSink (observability/agent-tail-file-sink.ts).         *)
(*                                                                         *)
(* Several processes append to one journal with a sink on one trace file,  *)
(* and so with one cursor.  A step is one SQLite transaction, one scan of  *)
(* the file or one line written to it; a process may be killed between any *)
(* two of them, or in the middle of a line.  Whatever throws in a drain or *)
(* in the constructor makes its journal `failed`: it goes on appending and *)
(* never projects again; an open that throws ends the process.             *)
(*                                                                         *)
(* Abstractions.  An event is its global position, and the trace selects   *)
(* all of them.  A claim is identified by the position it starts after:    *)
(* the cursor only grows, so no two claims start at the same one.          *)
(***************************************************************************)
EXTENDS Integers, Sequences, FiniteSets, FiniteSetsExt

CONSTANTS Procs,      \* process incarnations
          NoProc,
          PageSize,   \* events of one claim (maxEvents)
          MaxEvents   \* bound: events of the journal

ASSUME NoProcAssumption   == NoProc \notin Procs
ASSUME PageSizeAssumption == PageSize \in Nat \ {0}
ASSUME BoundsAssumption   == MaxEvents \in Nat

VARIABLES head,      \* global position of the last event
          exists,    \* the row of projection_cursors exists
          position,  \* its position
          claim,     \* its claim
          created,   \* the trace file exists
          file,      \* complete lines of the trace file
          torn,      \* the event of the incomplete last line, or 0
          pc, failed,
          seen,      \* the claim a process works with
          cursor,    \* the position its constructor read
          sink,      \* lastGlobalPosition, delivered positions and torn suffix
          todo,      \* lines still to be written
          own,       \* position of the last event it appended
          disturbed  \* history: two processes have run at the same time, or a dead one
                     \* was taken for alive

dbVars   == <<head, exists, position, claim>>
fileVars == <<created, file, torn>>
vars == <<dbVars, fileVars, pc, failed, seen, cursor, sink, todo, own, disturbed>>

NoClaim == [by |-> NoProc, after |-> 0, through |-> 0]
Claims  == [by : Procs \cup {NoProc}, after : Nat, through : Nat]
PC == {"out", "ensure", "inspectCursor", "inspectClaim", "recoverAtStart", "history",
       "idle", "drain", "recover", "reconcile", "claim", "append", "write", "commit", "gone"}
Unopened == [last |-> 0, delivered |-> {}, torn |-> 0]
Running(p) == pc[p] \notin {"out", "gone"}
Lines == {file[n] : n \in DOMAIN file}
Last  == IF file = <<>> THEN 0 ELSE file[Len(file)]

Init ==
    /\ head = 0 /\ exists = FALSE /\ position = 0 /\ claim = NoClaim
    /\ created = FALSE /\ file = <<>> /\ torn = 0
    /\ pc = [p \in Procs |-> "out"]
    /\ failed = [p \in Procs |-> FALSE]
    /\ seen = [p \in Procs |-> NoClaim]
    /\ cursor = [p \in Procs |-> 0]
    /\ sink = [p \in Procs |-> Unopened]
    /\ todo = [p \in Procs |-> <<>>]
    /\ own = [p \in Procs |-> 0]
    /\ disturbed = FALSE

Goto(p, label) == pc' = [pc EXCEPT ![p] = label] /\ UNCHANGED failed
\* The catch of the constructor and of drain.
Fail(p) == pc' = [pc EXCEPT ![p] = "idle"] /\ failed' = [failed EXCEPT ![p] = TRUE]

-----------------------------------------------------------------------------
(* A new process: openAgentTailSink, then the constructor                   *)

\* A trace without cursor is created, and refused when the file exists: a process that dies
\* before it ensures the cursor leaves a trace nobody can open.  One with a cursor is resumed.
Open(p) ==
    /\ pc[p] = "out"
    /\ disturbed' = (disturbed \/ \E q \in Procs : Running(q))
    /\ \/ /\ exists <=> created
          /\ created' = TRUE
          /\ sink' = [sink EXCEPT ![p] = [Unopened EXCEPT !.last = Last, !.torn = torn]]
          /\ Goto(p, "ensure")
       \/ /\ created /\ ~exists
          /\ pc' = [pc EXCEPT ![p] = "gone"]
          /\ failed' = [failed EXCEPT ![p] = TRUE]
          /\ UNCHANGED <<created, sink>>
    /\ UNCHANGED <<dbVars, file, torn, seen, cursor, todo, own>>

EnsureCursor(p) ==
    /\ pc[p] = "ensure"
    /\ exists' = TRUE
    /\ Goto(p, "inspectCursor")
    /\ UNCHANGED <<head, position, claim, fileVars, seen, cursor, sink, todo, own, disturbed>>

InspectCursor(p) ==
    /\ pc[p] = "inspectCursor"
    /\ cursor' = [cursor EXCEPT ![p] = position]
    /\ Goto(p, "inspectClaim")
    /\ UNCHANGED <<dbVars, fileVars, seen, sink, todo, own, disturbed>>

InspectClaim(p) ==
    /\ pc[p] = "inspectClaim"
    /\ seen' = [seen EXCEPT ![p] = claim]
    /\ Goto(p, IF claim = NoClaim THEN "history" ELSE "recoverAtStart")
    /\ UNCHANGED <<dbVars, fileVars, cursor, sink, todo, own, disturbed>>

\* Mutant: any claimant may be replaced.
Recoverable_Always(p) == claim # NoClaim /\ claim.after = seen[p].after

\* The claim inspected is still there, and who holds it now is dead.
Recoverable(p) ==
    /\ claim # NoClaim /\ claim.after = seen[p].after
    /\ pc[claim.by] = "gone"

\* Death is judged by the pid: another process with the same one, or one that may not be
\* signalled, makes a dead claimant live.
RecoverProjectionClaim(p, label) ==
    /\ \/ /\ Recoverable(p)
          /\ claim' = [claim EXCEPT !.by = p]
          /\ seen' = [seen EXCEPT ![p] = claim']
          /\ Goto(p, label)
          /\ UNCHANGED disturbed
       \/ /\ Fail(p)
          /\ disturbed' = (disturbed \/ Recoverable(p))
          /\ UNCHANGED <<claim, seen>>
    /\ UNCHANGED <<head, exists, position, fileVars, cursor, sink, todo, own>>

RecoverAtStart(p) == pc[p] = "recoverAtStart" /\ RecoverProjectionClaim(p, "history")

\* What the file may hold: the committed events, then those of the active claim.
Authoritative(p) ==
    [n \in 1..cursor[p] |-> n] \o
        (IF seen[p] = NoClaim THEN <<>>
         ELSE [n \in 1..(seen[p].through - seen[p].after) |-> seen[p].after + n])

\* The torn suffix the sink knows of; an unexpected one makes the scan throw.
TornKnown(p) == torn # 0 => sink[p].torn # 0
TornSuffix(p) == IF torn # 0 THEN torn ELSE sink[p].torn

\* Mutant: an incomplete line is left where it is.
RepairTorn_Skipped == UNCHANGED torn
RepairTorn == torn' = 0

\* validateRetainedHistory.
RetainedMatches(p) ==
    /\ Len(file) \in cursor[p]..Len(Authoritative(p))
    /\ \A n \in DOMAIN file : file[n] = Authoritative(p)[n]
    /\ TornKnown(p)

\* reconcileHistory, or repairTornClaim when there is a claim: the torn line must be
\* the next one of the claim, and is cut off.
HistoryMatches(p) ==
    /\ RetainedMatches(p)
    /\ TornSuffix(p) # 0 => /\ Len(file) < Len(Authoritative(p))
                            /\ Authoritative(p)[Len(file) + 1] = TornSuffix(p)

ReconcileHistory(p) ==
    /\ pc[p] = "history"
    /\ IF HistoryMatches(p)
       THEN /\ sink' = [sink EXCEPT ![p].delivered = Lines, ![p].torn = 0]
            /\ IF torn = 0 THEN UNCHANGED torn ELSE RepairTorn
            /\ Goto(p, IF seen[p] = NoClaim THEN "drain" ELSE "append")
       ELSE Fail(p) /\ UNCHANGED <<sink, torn>>
    /\ UNCHANGED <<dbVars, created, file, seen, cursor, todo, own, disturbed>>

-----------------------------------------------------------------------------
(* append and drain                                                         *)

\* A failed projection appends all the same.
AppendEvent(p) ==
    /\ pc[p] = "idle"
    /\ head < MaxEvents
    /\ head' = head + 1
    /\ own' = [own EXCEPT ![p] = head + 1]
    /\ Goto(p, IF failed[p] THEN "idle" ELSE "drain")
    /\ UNCHANGED <<exists, position, claim, fileVars, seen, cursor, sink, todo, disturbed>>

Drain(p) ==
    /\ pc[p] = "drain"
    /\ seen' = [seen EXCEPT ![p] = claim]
    /\ Goto(p, IF claim.by \in {NoProc, p} THEN "claim" ELSE "recover")
    /\ UNCHANGED <<dbVars, fileVars, cursor, sink, todo, own, disturbed>>

Recover(p) == pc[p] = "recover" /\ RecoverProjectionClaim(p, "reconcile")

Claimed(p) == (seen[p].after + 1)..seen[p].through

Found(p) == Claimed(p) \cap Lines

\* reconcile: which events of the recovered claim the file holds already.
Reconcile(p) ==
    /\ pc[p] = "reconcile"
    /\ IF torn = 0 /\ \A n \in Claimed(p) : n <= sink[p].last => n \in Found(p)
       THEN sink' = [sink EXCEPT ![p].delivered = @ \cup Found(p)] /\ Goto(p, "append")
       ELSE Fail(p) /\ UNCHANGED sink
    /\ UNCHANGED <<dbVars, fileVars, seen, cursor, todo, own, disturbed>>

\* claimProjection: a new claim of one page, or nothing to do.  No process gets here with a
\* claim of its own (Bystander of ProjectingJournal_proofs).
ClaimProjection(p) ==
    /\ pc[p] = "claim"
    /\ \/ /\ claim = NoClaim /\ head > position
          /\ claim' = [by |-> p, after |-> position, through |-> Min({position + PageSize, head})]
          /\ seen' = [seen EXCEPT ![p] = claim']
          /\ Goto(p, "append")
       \/ /\ claim = NoClaim /\ head = position
          /\ Goto(p, "idle")
          /\ UNCHANGED <<claim, seen>>
       \/ /\ claim # NoClaim /\ claim.by # p
          /\ Fail(p)
          /\ UNCHANGED <<claim, seen>>
    /\ UNCHANGED <<head, exists, position, fileVars, cursor, sink, todo, own, disturbed>>

Undelivered(p) == Claimed(p) \ sink[p].delivered
InOrder(S) == CHOOSE s \in [1..Cardinality(S) -> S] : \A m, n \in DOMAIN s : m < n => s[m] < s[n]

\* AgentTailJsonlFileSink.append, up to its first write.
AppendToSink(p) ==
    /\ pc[p] = "append"
    /\ IF sink[p].torn = 0 /\ \A n \in Undelivered(p) : n > sink[p].last
       THEN /\ sink' = [sink EXCEPT ![p].delivered = @ \cup Claimed(p)]
            /\ todo' = [todo EXCEPT ![p] = InOrder(Undelivered(p))]
            /\ Goto(p, IF Undelivered(p) = {} THEN "commit" ELSE "write")
       ELSE Fail(p) /\ UNCHANGED <<sink, todo>>
    /\ UNCHANGED <<dbVars, fileVars, seen, cursor, own, disturbed>>

\* A line written after an incomplete one makes garbage of both: line 0.
WriteLine(p) ==
    /\ pc[p] = "write"
    /\ file' = Append(file, IF torn = 0 THEN Head(todo[p]) ELSE 0)
    /\ torn' = 0
    /\ todo' = [todo EXCEPT ![p] = Tail(@)]
    /\ sink' = [sink EXCEPT ![p].last = Head(todo[p])]
    /\ Goto(p, IF Tail(todo[p]) = <<>> THEN "commit" ELSE "write")
    /\ UNCHANGED <<dbVars, created, seen, cursor, own, disturbed>>

\* Mutant: a drain of one page.
CommitProjection_OnePage(p) ==
    /\ pc[p] = "commit"
    /\ IF claim = seen[p]
       THEN position' = claim.through /\ claim' = NoClaim /\ Goto(p, "idle")
       ELSE Fail(p) /\ UNCHANGED <<position, claim>>
    /\ UNCHANGED <<head, exists, fileVars, seen, cursor, sink, todo, own, disturbed>>

CommitProjection(p) ==
    /\ pc[p] = "commit"
    /\ IF claim = seen[p]
       THEN position' = claim.through /\ claim' = NoClaim /\ Goto(p, "drain")
       ELSE Fail(p) /\ UNCHANGED <<position, claim>>
    /\ UNCHANGED <<head, exists, fileVars, seen, cursor, sink, todo, own, disturbed>>

-----------------------------------------------------------------------------
\* The process exits or is killed, perhaps in the middle of a line; its memory is gone.
Crash(p) ==
    /\ Running(p)
    /\ Goto(p, "gone")
    /\ \/ UNCHANGED torn
       \/ pc[p] = "write" /\ torn = 0 /\ torn' = Head(todo[p])
    /\ seen' = [seen EXCEPT ![p] = NoClaim] /\ cursor' = [cursor EXCEPT ![p] = 0]
    /\ sink' = [sink EXCEPT ![p] = Unopened] /\ todo' = [todo EXCEPT ![p] = <<>>]
    /\ own' = [own EXCEPT ![p] = 0]
    /\ UNCHANGED <<dbVars, created, file, disturbed>>

Construct(p) ==
    \/ Open(p) \/ EnsureCursor(p) \/ InspectCursor(p) \/ InspectClaim(p)
    \/ RecoverAtStart(p) \/ ReconcileHistory(p)
DrainLoop(p) ==
    \/ Drain(p) \/ Recover(p) \/ Reconcile(p) \/ ClaimProjection(p)
    \/ AppendToSink(p) \/ WriteLine(p) \/ CommitProjection(p)

Next == \E p \in Procs : Construct(p) \/ AppendEvent(p) \/ DrainLoop(p) \/ Crash(p)

Spec == Init /\ [][Next]_vars

-----------------------------------------------------------------------------
TypeOK ==
    /\ head \in Nat /\ exists \in BOOLEAN /\ position \in Nat /\ claim \in Claims
    /\ created \in BOOLEAN /\ file \in Seq(Nat) /\ torn \in Nat
    /\ pc \in [Procs -> PC] /\ failed \in [Procs -> BOOLEAN]
    /\ seen \in [Procs -> Claims] /\ cursor \in [Procs -> Nat]
    /\ sink \in [Procs -> [last : Nat, delivered : SUBSET Nat, torn : Nat]]
    /\ todo \in [Procs -> Seq(Nat)] /\ own \in [Procs -> Nat]
    /\ disturbed \in BOOLEAN

\* Who delivers, or is about to commit, holds the claim: at most one process writes
\* the file at a time, although recovery replaces claimants (sqlite-journal.ts l.440).
DelivererHoldsClaim ==
    \A p \in Procs :
        (\/ pc[p] \in {"reconcile", "append", "write", "commit"}
         \/ pc[p] = "history" /\ seen[p] # NoClaim) => claim = seen[p] /\ claim.by = p

\* The file holds the committed events and perhaps some of the active claim: every
\* event once, in order, none missing, whoever crashed where.
FileIsHistory ==
    /\ \A n \in DOMAIN file : file[n] = n
    /\ position <= Len(file)
    /\ Len(file) <= (IF claim = NoClaim THEN position ELSE claim.through)

\* When an append returns and its projection has not failed, its events are in the
\* file and committed, whether it or another process has delivered them.
AppendIsProjected ==
    \A p \in Procs : pc[p] = "idle" /\ ~failed[p] => own[p] <= position /\ own[p] <= Len(file)

\* Processes that run one after another recover from each other's crashes, a torn line
\* included, and none is refused, unless one has died between creating the trace and its
\* cursor (main.ts l.1612, projecting-journal.ts l.56); excepted is also a dead claimant
\* whose pid reads as live (sqlite-journal.ts l.1231).
AloneRecovers == ~disturbed => \A p \in Procs : failed[p] => created /\ ~exists

Delivery == INSTANCE OrderedDelivery WITH copy <- file

\* The projection delivers every event once, in order, and commits only what it delivered.
ImplementsOrderedDelivery == Delivery!Spec
=============================================================================
