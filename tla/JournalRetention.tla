-------------------------- MODULE JournalRetention --------------------------
(***************************************************************************)
(* Archiving, deleting and backing up a journal that is being written and  *)
(* read (journal/retention.ts): JournalRetentionService and the journal of *)
(* archived and active events it opens, ArchivedEventJournal.              *)
(*                                                                         *)
(* An operation is a row of retention_operations and, beside it, files of  *)
(* the archive directory; its steps are the transactions and the file      *)
(* operations of the code, and a process can end between any two of them.  *)
(* An event is its position.  The contents of a file are what its name     *)
(* says, so that checksums and the chain of manifests are here the anchored *)
(* sequence of ranges; a temporary file is linked while the file it was    *)
(* published as exists beside it.  An audit event is an event of the       *)
(* journal like any other.                                                 *)
(*                                                                         *)
(* Attended: an operation is reconciled only once the process that runs it *)
(* is gone, and by one process at a time.  The code leaves this to the     *)
(* operator, who has to confirm each reconciliation.                       *)
(***************************************************************************)
EXTENDS Naturals, FiniteSets, Sequences, FiniteSetsExt

CONSTANTS
    Procs,       \* processes that run retention commands
    Readers,     \* readers of the combined journal
    Boundaries,  \* the positions operators archive and prune through
    Starts,      \* the positions projection cursors are created at
    MaxEvents,   \* the event limit of one archive
    PageSize,    \* the event limit of one page
    MaxAppends,  \* events appended by others (bound)
    MaxReads,    \* pages read or claimed, and cursors created (bound)
    MaxCalls,    \* retention commands (bound)
    MaxTroubles, \* publications that fail, processes that end (bound)
    MaxTogether  \* commands and troubles together (bound)

ASSUME RetentionAssumption ==
    /\ Boundaries \subseteq Nat \ {0} /\ Starts \subseteq Nat
    /\ MaxEvents \in Nat \ {0} /\ PageSize \in Nat \ {0}
    /\ MaxAppends \in Nat /\ MaxReads \in Nat
    /\ MaxCalls \in Nat /\ MaxTroubles \in Nat /\ MaxTogether \in Nat

VARIABLES
    head,      \* journal_metadata.global_position
    rows,      \* the events in the database
    retained,  \* retained_through_position
    anchor,    \* the archived ranges, as anchored in the database
    op,        \* the active row of retention_operations
    past,      \* its settled rows
    requests,  \* the prune requests nobody has consumed
    files,     \* published files of the archive directory
    temps,     \* its temporary files
    cursor,    \* a projection cursor and its claim
    job,       \* what a process is doing
    page,      \* the archived part of the page a reader is reading
    got,       \* the events a reader has got
    appends, reads, calls, troubles  \* bounds

journal == <<head, rows, retained, anchor>>
audit == <<op, past, requests>>
disk == <<files, temps>>
reading == <<page, got, reads>>
vars == <<head, rows, retained, anchor, op, past, requests, files, temps,
          cursor, job, page, got, appends, reads, calls, troubles>>

NoOp == [id |-> 0, kind |-> "none", state |-> "none", from |-> 0, through |-> 0,
         evidence |-> FALSE, applied |-> FALSE]
Idle == [at |-> "idle", id |-> 0, through |-> 0, seen |-> 0, request |-> 0,
         part |-> "none", class |-> "none"]
NoPage == [events |-> {}, more |-> FALSE, on |-> FALSE]

Init ==
    /\ head = 0 /\ rows = {} /\ retained = 0 /\ anchor = <<>>
    /\ op = NoOp /\ past = {} /\ requests = {}
    /\ files = {} /\ temps = {}
    /\ cursor = [exists |-> FALSE, at |-> 0, claim |-> 0]
    /\ job = [p \in Procs |-> Idle]
    /\ page = [r \in Readers |-> NoPage]
    /\ got = [r \in Readers |-> {}]
    /\ appends = 0 /\ reads = 0 /\ calls = 0 /\ troubles = 0

-----------------------------------------------------------------------------
Anchored == {anchor[i] : i \in DOMAIN anchor}
ArchiveHead == IF anchor = <<>> THEN 0 ELSE anchor[Len(anchor)][2]
Span(s) == s[1]..s[2]

(* The files of an operation. A temporary file is named after the file it  *)
(* becomes and the operation.                                              *)
File(part, key) == [part |-> part, key |-> key]
ArchiveFiles(s) == {File("segment", s), File("manifest", s)}
FileOf(o, part) == File(part, IF part = "backup" THEN <<o.id, 0>> ELSE <<o.from, o.through>>)
TempOf(o, part) == [file |-> FileOf(o, part), id |-> o.id]
Parts(o) == CASE o.kind = "archive" -> {"segment", "manifest"}
              [] o.kind = "maintenance" -> {"backup"}
              [] OTHER -> {}
Linked(t) == t.file \in files

(* anchoredManifestFiles(): the manifests are those of the anchored chain, *)
(* and there is no other file but the published ones of an archive that is *)
(* under way. Any temporary file is refused, its own included.             *)
Underway == IF op.kind = "archive" THEN ArchiveFiles(<<op.from, op.through>>) ELSE {}
Chained ==
    /\ \A s \in Anchored : File("manifest", s) \in files
    /\ retained <= ArchiveHead
    /\ \A f \in files : \/ f.part = "backup" \/ f \in Underway
                        \/ \E s \in Anchored : f \in ArchiveFiles(s)
    /\ temps = {}

(* scanSegment(): what is still active must agree with the segment.        *)
Scannable(s) == /\ File("segment", s) \in files
                /\ \A e \in Span(s) : e > retained => e \in rows
Verifiable == Chained /\ \A s \in Anchored : Scannable(s)

-----------------------------------------------------------------------------
(* Appends. Audited(n): a transaction that appends n audit events.         *)
Audited(n) == /\ head' = head + n
              /\ rows' = rows \union (head + 1)..(head + n)
Unread == UNCHANGED <<cursor, reading, appends, troubles>>

AppendEvent ==
    /\ appends < MaxAppends
    /\ appends' = appends + 1
    /\ Audited(1)
    /\ UNCHANGED <<retained, anchor, audit, disk, cursor, job, reading, calls, troubles>>

Within == calls + troubles < MaxTogether
Trouble == Within /\ troubles < MaxTroubles /\ troubles' = troubles + 1
Calls == Within /\ calls < MaxCalls /\ calls' = calls + 1
Goes(p, place) == job' = [job EXCEPT ![p].at = place]
Leaves(p) == job' = [job EXCEPT ![p] = Idle]
Mine(p, state) == op.id = job[p].id /\ op.state = state

(* A statement that fails ends the call; the row of the operation stays.   *)
Throws(p) == Leaves(p) /\ UNCHANGED <<journal, audit, disk, calls>> /\ Unread

Settle(outcome) ==
    /\ past' = past \union {[op EXCEPT !.state = outcome]}
    /\ op' = NoOp
    /\ UNCHANGED requests

-----------------------------------------------------------------------------
(* archive(): the chain is verified first; the transaction that records    *)
(* the intent checks that the anchor has not moved since.                  *)
ArchiveCall(p, b) ==
    /\ job[p] = Idle /\ Calls
    /\ Verifiable
    /\ b > ArchiveHead /\ b <= head /\ b - ArchiveHead <= MaxEvents
    /\ job' = [job EXCEPT ![p] = [Idle EXCEPT !.at = "archive", !.id = calls',
                                  !.through = b, !.seen = Len(anchor)]]
    /\ UNCHANGED <<journal, audit, disk>> /\ Unread

ArchiveBegin(p) ==
    /\ job[p].at = "archive"
    /\ IF op = NoOp /\ Len(anchor) = job[p].seen
       THEN /\ op' = [NoOp EXCEPT !.id = job[p].id, !.kind = "archive",
                      !.state = "publishing", !.from = ArchiveHead + 1,
                      !.through = job[p].through]
            /\ Audited(2)
            /\ job' = [job EXCEPT ![p].at = "write", ![p].part = "segment"]
            /\ UNCHANGED <<retained, anchor, past, requests, disk, calls>> /\ Unread
       ELSE Throws(p)

(* maintain(): a backup is published like a segment.                       *)
MaintainBegin(p) ==
    /\ job[p] = Idle /\ Calls
    /\ op = NoOp
    /\ op' = [NoOp EXCEPT !.id = calls', !.kind = "maintenance",
              !.state = "publishing", !.through = head]
    /\ Audited(1)
    /\ job' = [job EXCEPT ![p] = [Idle EXCEPT !.at = "write", !.id = calls', !.part = "backup"]]
    /\ UNCHANGED <<retained, anchor, past, requests, disk>> /\ Unread

-----------------------------------------------------------------------------
(* Publication: a temporary file, a link to its final name, the removal of *)
(* the temporary name. The evidence of a backup is recorded before the     *)
(* link.                                                                   *)
Publishing(p, place) == job[p].at = place /\ op.id = job[p].id

WriteTemp(p) ==
    /\ Publishing(p, "write")
    /\ FileOf(op, job[p].part) \notin files
    /\ job[p].part = "segment" => op.from..op.through \subseteq rows
    /\ temps' = temps \union {TempOf(op, job[p].part)}
    /\ Goes(p, IF job[p].part = "backup" THEN "evidence" ELSE "link")
    /\ UNCHANGED <<journal, audit, files, calls>> /\ Unread

RecordEvidence(p) ==
    /\ Publishing(p, "evidence")
    /\ op' = [op EXCEPT !.evidence = TRUE]
    /\ Goes(p, "link")
    /\ UNCHANGED <<journal, past, requests, disk, calls>> /\ Unread

Link(p) ==
    /\ Publishing(p, "link")
    /\ files' = files \union {FileOf(op, job[p].part)}
    /\ Goes(p, "unlink")
    /\ UNCHANGED <<journal, audit, temps, calls>> /\ Unread

Unlink(p) ==
    /\ Publishing(p, "unlink")
    /\ temps' = temps \ {TempOf(op, job[p].part)}
    /\ job' = IF job[p].part = "segment"
              THEN [job EXCEPT ![p].at = "write", ![p].part = "manifest"]
              ELSE [job EXCEPT ![p].at = "complete"]
    /\ UNCHANGED <<journal, audit, files, calls>> /\ Unread

(* A publication that fails removes its temporary file. The operation has  *)
(* failed if nothing of it is published, and stays active otherwise; a     *)
(* backup whose directory cannot be synced is taken back.                  *)
PublishFails_NeverActive(p) ==
    /\ \/ \E place \in {"write", "evidence", "link"} : Publishing(p, place)
       \/ Publishing(p, "complete") /\ op.kind = "maintenance"
    /\ temps' = temps \ {TempOf(op, job[p].part)}
    /\ files' = files \ (IF op.kind = "maintenance" THEN {FileOf(op, "backup")} ELSE {})
    /\ Settle("failed") /\ Audited(1)
    /\ Leaves(p)
    /\ Trouble
    /\ UNCHANGED <<retained, anchor, cursor, reading, appends, calls>>
PublishFails_KeepsTemp(p) ==
    /\ \/ \E place \in {"write", "evidence", "link"} : Publishing(p, place)
       \/ Publishing(p, "complete") /\ op.kind = "maintenance"
    /\ UNCHANGED temps
    /\ files' = files \ (IF op.kind = "maintenance" THEN {FileOf(op, "backup")} ELSE {})
    /\ IF \A part \in Parts(op) : FileOf(op, part) \notin files'
       THEN Settle("failed") /\ Audited(1)
       ELSE UNCHANGED <<audit, head, rows>>
    /\ Leaves(p)
    /\ Trouble
    /\ UNCHANGED <<retained, anchor, cursor, reading, appends, calls>>
PublishFails(p) ==
    /\ \/ \E place \in {"write", "evidence", "link"} : Publishing(p, place)
       \/ Publishing(p, "complete") /\ op.kind = "maintenance"
    /\ temps' = temps \ {TempOf(op, job[p].part)}
    /\ files' = files \ (IF op.kind = "maintenance" THEN {FileOf(op, "backup")} ELSE {})
    /\ IF \A part \in Parts(op) : FileOf(op, part) \notin files'
       THEN Settle("failed") /\ Audited(1)
       ELSE UNCHANGED <<audit, head, rows>>
    /\ Leaves(p)
    /\ Trouble
    /\ UNCHANGED <<retained, anchor, cursor, reading, appends, calls>>

(* completeArchive(), by the archive itself or by its reconciliation.      *)
AnchorArchive ==
    /\ op.state = "publishing" /\ op.from = ArchiveHead + 1
    /\ anchor' = Append(anchor, <<op.from, op.through>>)
    /\ Settle("completed")
    /\ Audited(1)
    /\ UNCHANGED <<retained, disk, calls>> /\ Unread

CompleteArchive(p) ==
    /\ Publishing(p, "complete") /\ op.kind = "archive"
    /\ AnchorArchive
    /\ Leaves(p)

CompleteMaintenance(p) ==
    /\ Publishing(p, "complete") /\ op.kind = "maintenance"
    /\ Settle("completed")
    /\ Audited(2)
    /\ Leaves(p)
    /\ UNCHANGED <<retained, anchor, disk, calls>> /\ Unread

-----------------------------------------------------------------------------
(* requestPrune() and prune(): three transactions, of which the second is  *)
(* the irreversible one.                                                   *)
RequestPrune(b) ==
    /\ Calls
    /\ b <= head /\ b > retained
    /\ requests' = requests \union {[id |-> calls', through |-> b]}
    /\ Audited(1)
    /\ UNCHANGED <<retained, anchor, op, past, disk, job>> /\ Unread

PruneCall(p, r) ==
    /\ job[p] = Idle /\ Calls
    /\ op = NoOp
    /\ Verifiable
    /\ job' = [job EXCEPT ![p] = [Idle EXCEPT !.at = "authorize", !.id = calls',
                                  !.through = r.through, !.request = r.id]]
    /\ UNCHANGED <<journal, audit, disk>> /\ Unread

(* assertNoCursorBlockers()                                                *)
Blocked(b) == cursor.exists /\ (cursor.at < b \/ cursor.claim # 0)

Authorize(p) ==
    LET r == [id |-> job[p].request, through |-> job[p].through] IN
    /\ job[p].at = "authorize"
    /\ IF r \notin requests \/ r.through > ArchiveHead
       THEN Throws(p)
       ELSE IF Blocked(r.through)
       THEN /\ Audited(2) /\ Leaves(p)
            /\ UNCHANGED <<retained, anchor, audit, disk, calls>> /\ Unread
       ELSE IF op # NoOp
       THEN Throws(p)
       ELSE /\ requests' = requests \ {r}
            /\ op' = [NoOp EXCEPT !.id = job[p].id, !.kind = "prune",
                      !.state = "authorized", !.through = r.through]
            /\ Audited(1)
            /\ Goes(p, "effect")
            /\ UNCHANGED <<retained, anchor, past, disk, calls>> /\ Unread

PruneEffect_AsAuthorized(p) ==
    /\ job[p].at = "effect"
    /\ IF /\ Verifiable /\ Mine(p, "authorized")
          /\ ArchiveHead >= op.through
       THEN /\ rows' = {e \in rows : e > op.through}
            /\ retained' = op.through
            /\ op' = [op EXCEPT !.state = "effect_applied", !.applied = TRUE]
            /\ Goes(p, "completing")
            /\ UNCHANGED <<head, anchor, past, requests, disk, calls>> /\ Unread
       ELSE Throws(p)
PruneEffect(p) ==
    /\ job[p].at = "effect"
    /\ IF /\ Verifiable /\ Mine(p, "authorized")
          /\ ~Blocked(op.through) /\ ArchiveHead >= op.through
       THEN /\ rows' = {e \in rows : e > op.through}
            /\ retained' = op.through
            /\ op' = [op EXCEPT !.state = "effect_applied", !.applied = TRUE]
            /\ Goes(p, "completing")
            /\ UNCHANGED <<head, anchor, past, requests, disk, calls>> /\ Unread
       ELSE Throws(p)

PruneComplete(p) ==
    /\ job[p].at = "completing" /\ Mine(p, "effect_applied")
    /\ Settle("completed")
    /\ Audited(1)
    /\ Leaves(p)
    /\ UNCHANGED <<retained, anchor, disk, calls>> /\ Unread

-----------------------------------------------------------------------------
(* The process ends, killed or by an error it does not handle.             *)
Crash(p) ==
    /\ job[p] # Idle
    /\ Leaves(p)
    /\ Trouble
    /\ UNCHANGED <<journal, audit, disk, cursor, reading, appends, calls>>

(* inspectRecovery(). strictTempResidues() refuses any temporary file that *)
(* is not one of the operation, and any that is linked.                    *)
Abandoned == op # NoOp /\ \A p \in Procs : job[p].id # op.id
CanInspect == \A t \in temps :
    /\ \E part \in Parts(op) : t = TempOf(op, part)
    /\ ~Linked(t)

Published(part) == FileOf(op, part) \in files
Class ==
    CASE op.kind = "archive" ->
           IF Published("segment") /\ Published("manifest")
           THEN IF /\ op.from = ArchiveHead + 1
                   /\ Scannable(<<op.from, op.through>>)
                THEN "fully_published_missing_completion" ELSE "published_files_invalid"
           ELSE IF Published("segment") THEN "segment_only_orphan"
           ELSE IF Published("manifest") THEN "manifest_only_orphan"
           ELSE IF temps # {} THEN "archive_temp_only" ELSE "intent_without_publication"
      [] op.kind = "maintenance" ->
           IF Published("backup") THEN "maintenance_backup_published"
           ELSE IF temps # {} THEN "maintenance_temp_only" ELSE "maintenance_no_artifact"
      [] OTHER ->
           IF op.state = "effect_applied" \/ retained >= op.through
           THEN "effect_applied_missing_completion" ELSE "authorization_without_effect"

Inspect(p) ==
    /\ job[p] = Idle
    /\ Abandoned /\ CanInspect
    /\ job' = [job EXCEPT ![p] = [Idle EXCEPT !.at = "reconcile", !.id = op.id, !.class = Class]]
    /\ UNCHANGED <<journal, audit, disk, calls>> /\ Unread

(* reconcile(). An effect that is proven is completed.                     *)
Remaining == \E e \in rows : e <= op.through
PruneApplied == retained >= op.through /\ ~Remaining
PruneNotApplied == op.state = "authorized" /\ retained < op.through /\ Remaining
Proven(class) ==
    \/ class = "fully_published_missing_completion"
    \/ class = "maintenance_backup_published" /\ op.evidence
    \/ op.kind = "prune" /\ PruneApplied

(* What did not have its effect has failed, and what it left is removed,   *)
(* one file after the other.                                               *)
Discarded(class) ==
    \/ class \in {"archive_temp_only", "segment_only_orphan", "manifest_only_orphan",
                  "published_files_invalid", "intent_without_publication",
                  "maintenance_temp_only", "maintenance_no_artifact"}
    \/ class = "maintenance_backup_published" /\ ~op.evidence
    \/ op.kind = "prune" /\ PruneNotApplied

Leftovers == \E part \in Parts(op) : Published(part) \/ TempOf(op, part) \in temps
RemoveLeftover ==
    LET left == {part \in Parts(op) : Published(part)}
    IN IF left # {}
       THEN /\ files' = files \ {FileOf(op, IF "segment" \in left THEN "segment"
                                            ELSE CHOOSE part \in left : TRUE)}
            /\ UNCHANGED temps
       ELSE /\ temps' = temps \ {TempOf(op, part) : part \in Parts(op)}
            /\ UNCHANGED files

Reconcile(p) ==
    /\ job[p].at = "reconcile"
    /\ IF op.id # job[p].id
       THEN Throws(p)
       ELSE IF Proven(job[p].class)
       THEN /\ Leaves(p)
            /\ IF op.kind = "archive" THEN AnchorArchive
               ELSE /\ Settle("completed") /\ Audited(1)
                    /\ UNCHANGED <<retained, anchor, disk, calls>> /\ Unread
       ELSE IF Discarded(job[p].class) /\ Leftovers
       THEN /\ RemoveLeftover
            /\ UNCHANGED <<journal, audit, job, calls>> /\ Unread
       ELSE IF Discarded(job[p].class)
       THEN /\ Leaves(p)
            /\ Settle("failed") /\ Audited(1)
            /\ UNCHANGED <<retained, anchor, disk, calls>> /\ Unread
       ELSE Throws(p)

-----------------------------------------------------------------------------
(* The combined journal. A page is the first PageSize archived events      *)
(* after a position and, when they end the archive, the active ones.       *)
Lowest(s, n) == {e \in s : Cardinality({f \in s : f < e}) < n}
After(events, from) == Max(events \union {from})

ArchivedAfter(from) ==
    LET all == {e \in UNION {Span(s) : s \in Anchored} : e > from}
    IN [events |-> Lowest(all, PageSize), more |-> Cardinality(all) > PageSize, on |-> TRUE]
ArchiveReadable(from) ==
    /\ Chained
    /\ \A s \in Anchored : s[2] > from => Scannable(s)

(* The active events are refused below the retained boundary, and when     *)
(* there is a gap.                                                         *)
NeedsActive(archived) == ~archived.more /\ Cardinality(archived.events) < PageSize
ActiveAfter(archived, from) ==
    Lowest({e \in rows : e > After(archived.events, from)},
           PageSize - Cardinality(archived.events))
ActiveReadable_Anywhere(archived, from) == After(archived.events, from) <= head
ActiveReadable(archived, from) ==
    LET last == After(archived.events, from)
        active == ActiveAfter(archived, from)
    IN last >= retained /\ active = (last + 1)..(last + Cardinality(active))
PageOf(archived, from) ==
    archived.events \union (IF NeedsActive(archived) THEN ActiveAfter(archived, from) ELSE {})
PageReadable(archived, from) == NeedsActive(archived) => ActiveReadable(archived, from)

(* A reader reads the archive and then, in a snapshot of its own, the      *)
(* database: both may have moved in between.                               *)
Position(r) == After(got[r], 0)
Reads == reads < MaxReads /\ reads' = reads + 1
ReadArchive(r) ==
    /\ ~page[r].on /\ Position(r) < head
    /\ Reads
    /\ ArchiveReadable(Position(r))
    /\ page' = [page EXCEPT ![r] = ArchivedAfter(Position(r))]
    /\ UNCHANGED <<journal, audit, disk, cursor, job, got, appends, calls, troubles>>
ReadActive(r) ==
    /\ page[r].on
    /\ page' = [page EXCEPT ![r] = NoPage]
    /\ got' = [got EXCEPT ![r] = @ \union
                 IF PageReadable(page[r], Position(r)) THEN PageOf(page[r], Position(r)) ELSE {}]
    /\ UNCHANGED <<journal, audit, disk, cursor, job, reads, appends, calls, troubles>>

(* A projection of the combined journal: its transactions hold the write   *)
(* lock while they read the page.                                          *)
CursorOnly == UNCHANGED <<journal, audit, disk, job, page, got, appends, calls, troubles>>
EnsureCursor(from) ==
    /\ ~cursor.exists /\ from <= head /\ Reads
    /\ cursor' = [exists |-> TRUE, at |-> from, claim |-> 0]
    /\ CursorOnly
ClaimProjection ==
    LET archived == ArchivedAfter(cursor.at) IN
    /\ cursor.claim = 0 /\ Reads
    /\ ArchiveReadable(cursor.at) /\ PageReadable(archived, cursor.at)
    /\ cursor' = [cursor EXCEPT !.exists = TRUE,
                                !.claim = After(PageOf(archived, cursor.at), 0)]
    /\ CursorOnly
CommitProjection ==
    LET archived == ArchivedAfter(cursor.at) IN
    /\ cursor.claim # 0
    /\ ArchiveReadable(cursor.at) /\ PageReadable(archived, cursor.at)
    /\ cursor' = [cursor EXCEPT !.at = cursor.claim, !.claim = 0]
    /\ CursorOnly /\ UNCHANGED reads

-----------------------------------------------------------------------------
Next ==
    \/ AppendEvent
    \/ \E b \in Boundaries : RequestPrune(b) \/ \E p \in Procs : ArchiveCall(p, b)
    \/ \E p \in Procs, r \in requests : PruneCall(p, r)
    \/ \E p \in Procs :
         \/ ArchiveBegin(p) \/ MaintainBegin(p)
         \/ WriteTemp(p) \/ RecordEvidence(p) \/ Link(p) \/ Unlink(p) \/ PublishFails(p)
         \/ CompleteArchive(p) \/ CompleteMaintenance(p)
         \/ Authorize(p) \/ PruneEffect(p) \/ PruneComplete(p)
         \/ Crash(p) \/ Inspect(p) \/ Reconcile(p)
    \/ \E r \in Readers : ReadArchive(r) \/ ReadActive(r)
    \/ \E from \in Starts : EnsureCursor(from)
    \/ ClaimProjection \/ CommitProjection

Spec == Init /\ [][Next]_vars

-----------------------------------------------------------------------------
(* The combined journal keeps the promise of a complete log while events   *)
(* move from the database to the archive: what is archived or still a row  *)
(* is all that was ever committed, and a reader whose page is read in two  *)
(* halves around an archive and a prune misses nothing.                    *)
Readable == rows \union UNION {Span(s) : s \in {t \in Anchored : ArchiveFiles(t) \subseteq files}}
Log == INSTANCE CompleteLog WITH history <- Readable, seen <- got
ImplementsCompleteLog == Log!Spec

(* The record of an operation tells what happened to it, through failures, *)
(* crashes at any point and reconciliations that were cut short            *)
(* themselves: completed means that its effect is there, failed that it    *)
(* never had one and left nothing behind.                                  *)
Effect(o) ==
    CASE o.kind = "archive" -> <<o.from, o.through>> \in Anchored
      [] o.kind = "maintenance" -> FileOf(o, "backup") \in files
      [] OTHER -> retained >= o.through \/ \A e \in rows : e > o.through
Residue(o) ==
    \/ \E part \in Parts(o) : TempOf(o, part) \in temps
    \/ o.kind = "maintenance" /\ FileOf(o, "backup") \in files
    \/ o.kind = "archive" /\ <<o.from, o.through>> \notin Anchored
       /\ FileOf(op, "segment") # FileOf(o, "segment")
       /\ ArchiveFiles(<<o.from, o.through>>) \intersect files # {}
AuditIsTrue == \A o \in past :
    IF o.state = "completed" THEN Effect(o) ELSE ~o.applied /\ ~Residue(o)

(* An operation whose process is gone can be inspected, and its            *)
(* reconciliation settles it, wherever it was cut short, unless it was     *)
(* between the link of a file and the removal of its temporary name, or a  *)
(* prune has set the retained boundary back over events that are deleted.  *)
InterruptedIsSettled ==
    Abandoned /\ (\A t \in temps : ~Linked(t)) /\ (retained + 1)..head \subseteq rows =>
        CanInspect /\ (Proven(Class) \/ Discarded(Class))

(* Events are deleted only when they are in the archive, its files on disk, *)
(* and no projection is below them or in the middle of a claim, however    *)
(* long the prune was authorized before.                                   *)
DeletionIsSafe == [][
    \A e \in rows \ rows' :
        /\ \E s \in Anchored : e \in Span(s) /\ ArchiveFiles(s) \subseteq files
        /\ cursor.exists => cursor.at >= e /\ cursor.claim = 0]_vars
=============================================================================
