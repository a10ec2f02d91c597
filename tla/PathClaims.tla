----------------------------- MODULE PathClaims -----------------------------
(***************************************************************************)
(* Writers that change a repository side by side: the path claims of a     *)
(* project (workspaces/path-claims.ts), the writer that works under one    *)
(* (orchestration/writer-worktree-capsule.ts) and the applier of its patch *)
(* (workspaces/trusted-patch-applier.ts).                                  *)
(*                                                                         *)
(* All claims of a project are one event stream. Every call projects it,   *)
(* checks, and appends at the version it has read; a process that holds on *)
(* to such a version over an await is fresh while nobody has appended. An  *)
(* event that the projection refuses makes the stream unreadable for good. *)
(* A process can end, an operation can fail and a lease can lapse between  *)
(* any two steps. A claim stands for its task: one owner, one revision, one *)
(* worktree. Clocks do not go back.                                        *)
(***************************************************************************)
EXTENDS Naturals, FiniteSets, SequencesExt

CONSTANTS
    Procs,         \* processes that run writers, recoveries and reconciliations
    Claims,        \* claim identities
    Scopes,        \* the scopes of a claim: a path, and whether all below it is meant
    Tree,          \* the paths of the files of the repository
    Files,         \* the number of files a patch changes
    MaxDispatches, \* dispatches (bound)
    MaxRenewals,   \* renewals happen while no more tokens were given out (bound)
    MaxTroubles    \* processes that end, operations that fail (bound)

ASSUME ClaimAssumption ==
    /\ Claims # {}
    /\ \A c \in Claims : \A s \in Scopes[c] : s.path \in Seq(STRING) /\ s.all \in BOOLEAN
    /\ Tree \subseteq Seq(STRING)
    /\ Files \in Nat \ {0} /\ MaxDispatches \in Nat
    /\ MaxRenewals \in Nat /\ MaxTroubles \in Nat

VARIABLES
    readable,  \* the projection of the stream does not throw
    claim,     \* the projected claims
    tree,      \* the worktree of a claim
    job,       \* what a process is doing
    troubles   \* bound

vars == <<readable, claim, tree, job, troubles>>

Unclaimed == [state |-> "free", lapsed |-> FALSE, token |-> 0,
              unsettled |-> FALSE, authorized |-> FALSE, dispatch |-> 0, bound |-> 0,
              receipt |-> "none", proposal |-> FALSE, pending |-> FALSE, started |-> FALSE,
              recorded |-> 0, complete |-> FALSE, checkpoint |-> FALSE]
Clean == [files |-> 0, stray |-> "none"]
NoJob == [at |-> "idle", how |-> "none", claim |-> CHOOSE c \in Claims : TRUE, token |-> 0,
          patch |-> 0, dispatch |-> 0, fresh |-> FALSE, clash |-> FALSE, done |-> 0, seen |-> Clean]

Init ==
    /\ readable = TRUE
    /\ claim = [c \in Claims |-> Unclaimed]
    /\ tree = [c \in Claims |-> Clean]
    /\ job = [p \in Procs |-> NoJob]
    /\ troubles = 0

-----------------------------------------------------------------------------
(* pathSetsOverlap(), on the canonical paths, which drop the scope; and    *)
(* what a scope stands for, pathClaimContains().                           *)
Overlap(c, d) == \E s \in Scopes[c], t \in Scopes[d] :
                    IsPrefix(s.path, t.path) \/ IsPrefix(t.path, s.path)
Covers(s, file) == IF s.all THEN IsPrefix(s.path, file) ELSE s.path = file

(* inspect() leaves out a claim whose lease has lapsed.                    *)
Active(c) == claim[c].state = "active" /\ ~claim[c].lapsed
Conflicts(c) == {d \in Claims \ {c} : Active(d) /\ Overlap(c, d)}

Mine(p) == claim[job[p].claim]
(* assertActiveIdentity(): of the token that the claim was acquired with,  *)
(* or, for the applier, of the one that it had when the patch was prepared. *)
Bound(p, token) == readable /\ Active(job[p].claim) /\ Mine(p).token = token
Holds(p) == Bound(p, job[p].token)
Patching(p) == Bound(p, job[p].patch)

(* An append of events that the projection accepts, or refuses.            *)
Others(p) == {q \in Procs \ {p} : job[q].fresh}
Then(p, next) == job' = [q \in Procs |-> IF q = p THEN next
                                         ELSE IF q \in Others(p) THEN [job[q] EXCEPT !.fresh = FALSE]
                                         ELSE job[q]]
Appends(p, accepted, projected, next) ==
    /\ readable' = accepted
    /\ claim' = IF accepted THEN [claim EXCEPT ![job[p].claim] = projected] ELSE claim
    /\ Then(p, next)
Total(field) == MapThenSumSet(LAMBDA c : claim[c][field], Claims)
At(p, place) == [job[p] EXCEPT !.at = place]
Leaves(p) == job' = [job EXCEPT ![p] = NoJob]
Quiet == UNCHANGED <<readable, claim, tree, troubles>>
SameTree == UNCHANGED <<tree, troubles>>

(* recordUncertain(), with which every failure under a claim ends; called   *)
(* by the applier, too, once it has started.                               *)
Doubtful(k) == [k EXCEPT !.unsettled = TRUE, !.authorized = FALSE]
Uncertain(p) == IF Holds(p) \/ (job[p].at \in {"rename", "record"} /\ Patching(p)) THEN Appends(p, TRUE, Doubtful(Mine(p)), NoJob)
                ELSE Leaves(p) /\ UNCHANGED <<readable, claim>>
Fail(p) == Uncertain(p) /\ SameTree

-----------------------------------------------------------------------------
(* acquire(): projects and appends until nobody came in between. A claim   *)
(* that is there already is returned to whoever asks for it again.         *)
AcquireRead(p, c) ==
    /\ job[p] = NoJob /\ readable
    /\ IF Active(c)
       THEN /\ tree[c].stray # "outside"
            /\ job' = [job EXCEPT ![p] = [NoJob EXCEPT !.at = "claimed", !.how = "writer",
                           !.claim = c, !.token = claim[c].token, !.seen = tree[c]]]
       ELSE /\ claim[c].state = "free"
            /\ job' = [job EXCEPT ![p] = [NoJob EXCEPT !.at = "acquire", !.how = "writer",
                           !.claim = c, !.fresh = TRUE, !.clash = Conflicts(c) # {}]]
    /\ Quiet

Acquired(k) == [k EXCEPT !.state = "active", !.token = 1, !.authorized = TRUE]
AcquireAppend_Anyway(p) ==
    /\ job[p].at = "acquire"
    /\ IF job[p].clash
       THEN Appends(p, readable, Mine(p), NoJob)
       ELSE Appends(p, Mine(p).state = "free" /\ Conflicts(job[p].claim) = {}, Acquired(Mine(p)),
                    [At(p, "claimed") EXCEPT !.token = 1, !.fresh = FALSE])
    /\ SameTree
AcquireAppend(p) ==
    /\ job[p].at = "acquire"
    /\ IF ~job[p].fresh
       THEN Leaves(p) /\ UNCHANGED <<readable, claim>>
       ELSE IF job[p].clash
       THEN Appends(p, TRUE, Mine(p), NoJob)
       ELSE Appends(p, Mine(p).state = "free" /\ Conflicts(job[p].claim) = {}, Acquired(Mine(p)),
                    [At(p, "claimed") EXCEPT !.token = 1, !.fresh = FALSE])
    /\ SameTree

(* beginDispatch(): the writer is bound to the token it was started under. *)
BeginDispatch(p) ==
    LET k == Mine(p) IN
    /\ job[p].at = "claimed"
    /\ IF Holds(p) /\ ~k.unsettled /\ k.authorized
       THEN /\ Total("dispatch") < MaxDispatches
            /\ Appends(p, TRUE, [Doubtful(k) EXCEPT !.dispatch = @ + 1, !.bound = k.token,
                                                    !.receipt = "none"],
                       [At(p, "running") EXCEPT !.dispatch = k.dispatch + 1])
            /\ SameTree
       ELSE Fail(p)

(* The writer may change its worktree, though it should only propose: a    *)
(* file inside its claim that is not of its patch, or one outside.         *)
WriterStrays(p, where) ==
    /\ job[p].at = "running" /\ tree[job[p].claim].stray = "none"
    /\ tree' = [tree EXCEPT ![job[p].claim].stray = where]
    /\ UNCHANGED <<readable, claim, job, troubles>>

WriterReturns(p, report) ==
    LET k == Mine(p) IN
    /\ job[p].at = "running"
    /\ IF /\ Holds(p) /\ k.dispatch = job[p].dispatch /\ k.bound = k.token
          /\ k.unsettled /\ k.receipt = "none"
       THEN Appends(p, TRUE, [k EXCEPT !.receipt = report], At(p, "inspect")) /\ SameTree
       ELSE Fail(p)

(* The worktree is as it was before the writer ran, or nothing is applied. *)
(* prepare() records the proposal and the intent to apply it, with the     *)
(* token that the claim has by now.                                        *)
Prepare(p) ==
    LET k == Mine(p)  t == tree[job[p].claim] IN
    /\ job[p].at = "inspect"
    /\ IF t = job[p].seen /\ t.files = 0 /\ readable /\ Active(job[p].claim) /\ k.receipt = "patch"
       THEN /\ Appends(p, ~k.proposal /\ ~k.pending,
                       [k EXCEPT !.proposal = TRUE, !.pending = TRUE],
                       [At(p, "prepared") EXCEPT !.patch = k.token, !.fresh = TRUE, !.seen = Clean])
            /\ SameTree
       ELSE Fail(p)

(* recover(), of an intent whose process is gone.                          *)
Recover(p, c) ==
    LET k == claim[c] IN
    /\ job[p] = NoJob /\ readable /\ Active(c)
    /\ k.proposal /\ k.pending /\ ~k.started /\ k.recorded = 0 /\ ~k.complete
    /\ tree[c].files = 0
    /\ job' = [job EXCEPT ![p] = [NoJob EXCEPT !.at = "prepared", !.how = "recovery", !.claim = c,
                                               !.token = k.token, !.patch = k.token, !.fresh = TRUE]]
    /\ Quiet

-----------------------------------------------------------------------------
(* applyPrepared(): the start is appended at the version of the intent, so *)
(* that of all who have read the intent one can start. A recovery that has *)
(* lost says nothing.                                                      *)
ApplyStart_Unfenced(p) ==
    LET k == Mine(p) IN
    /\ job[p].at = "prepared"
    /\ IF Patching(p) /\ k.pending
       THEN Appends(p, TRUE, [k EXCEPT !.started = TRUE],
                    [At(p, "rename") EXCEPT !.fresh = FALSE]) /\ SameTree
       ELSE Leaves(p) /\ Quiet
ApplyStart(p) ==
    LET k == Mine(p) IN
    /\ job[p].at = "prepared"
    /\ IF Patching(p) /\ job[p].fresh /\ k.pending /\ ~k.started
       THEN Appends(p, ~k.started, [k EXCEPT !.started = TRUE],
                    [At(p, "rename") EXCEPT !.fresh = FALSE]) /\ SameTree
       ELSE IF job[p].how = "writer" THEN Fail(p) ELSE Leaves(p) /\ Quiet

Rename(p) ==
    LET c == job[p].claim IN
    /\ job[p].at = "rename" /\ job[p].done < Files
    /\ IF tree[c].files = job[p].done
       THEN /\ tree' = [tree EXCEPT ![c].files = @ + 1]
            /\ job' = [job EXCEPT ![p].at = "record"]
            /\ UNCHANGED <<readable, claim, troubles>>
       ELSE Fail(p)

RecordFile(p) ==
    LET k == Mine(p) IN
    /\ job[p].at = "record"
    /\ IF Patching(p)
       THEN Appends(p, k.pending /\ k.started /\ k.recorded = job[p].done,
                    [k EXCEPT !.recorded = @ + 1],
                    [At(p, "rename") EXCEPT !.done = @ + 1]) /\ SameTree
       ELSE Fail(p)

ApplyCompleted(p) ==
    LET k == Mine(p) IN
    /\ job[p].at = "rename" /\ job[p].done = Files
    /\ IF Patching(p)
       THEN Appends(p, k.pending /\ k.started /\ k.recorded = job[p].done,
                    [k EXCEPT !.pending = FALSE, !.complete = TRUE],
                    IF job[p].how = "writer" THEN At(p, "review") ELSE NoJob) /\ SameTree
       ELSE Fail(p)

(* The result is inspected, recorded, and the claim released or retained.  *)
Settled(k) == [k EXCEPT !.unsettled = FALSE, !.authorized = FALSE, !.checkpoint = TRUE]
Checkpoint(p) ==
    LET k == Mine(p) IN
    /\ job[p].at = "review"
    /\ IF tree[job[p].claim].stray # "outside" /\ Holds(p) /\ k.receipt # "none"
       THEN Appends(p, TRUE, Settled(k), At(p, "release")) /\ SameTree
       ELSE Fail(p)

Release(p) ==
    /\ job[p].at = "release"
    /\ IF Holds(p) THEN Appends(p, TRUE, [Mine(p) EXCEPT !.state = "released"], NoJob) /\ SameTree
       ELSE Fail(p)
Retain(p) == job[p].at = "release" /\ Leaves(p) /\ Quiet

-----------------------------------------------------------------------------
(* reconcileWorkspace(): the worktree is inspected over awaits, and what   *)
(* it means is appended at the version read before.                        *)
ReconcileRead(p, c) ==
    /\ job[p] = NoJob /\ readable /\ Active(c)
    /\ job' = [job EXCEPT ![p] = [NoJob EXCEPT !.at = "reconcile", !.how = "reconciliation",
                           !.claim = c, !.token = claim[c].token, !.fresh = TRUE]]
    /\ Quiet
ReconcileInspect(p) ==
    /\ job[p].at = "reconcile"
    /\ job' = [job EXCEPT ![p].at = "observed", ![p].seen = tree[job[p].claim]]
    /\ Quiet

Unproven(k, t) == \/ t.stray = "outside"
                  \/ k.receipt # "none" /\ ~k.pending /\ ~k.complete
                  \/ k.pending
Reconciled_ByTree(k, t) ==
    IF t = Clean
    THEN [k EXCEPT !.unsettled = FALSE, !.authorized = TRUE]
    ELSE IF Unproven(k, t) \/ k.receipt = "none" THEN Doubtful(k)
    ELSE [Settled(k) EXCEPT !.state = "released"]
Reconciled(k, t) ==
    IF Unproven(k, t) THEN Doubtful(k)
    ELSE IF k.receipt = "none" /\ t = Clean
    THEN [k EXCEPT !.unsettled = FALSE, !.authorized = TRUE]
    ELSE IF k.receipt = "none" THEN Doubtful(k)
    ELSE [Settled(k) EXCEPT !.state = "released"]

ReconcileAppend(p) ==
    /\ job[p].at = "observed"
    /\ IF job[p].fresh
       THEN Appends(p, TRUE, Reconciled(Mine(p), job[p].seen), NoJob) /\ SameTree
       ELSE Fail(p)

-----------------------------------------------------------------------------
(* renew(), and proposeCorrection(), which only adds to the stream.        *)
Renew(p, c) ==
    /\ job[p] = NoJob /\ readable /\ Active(c)
    /\ Total("token") <= MaxRenewals
    /\ claim' = [claim EXCEPT ![c].token = @ + 1]
    /\ Then(p, NoJob)
    /\ UNCHANGED <<readable, tree, troubles>>
ProposeCorrection(p, c) ==
    /\ job[p] = NoJob /\ readable /\ claim[c].state # "free"
    /\ Then(p, NoJob)
    /\ UNCHANGED <<readable, claim, tree, troubles>>

Lapse(c) ==
    /\ Active(c)
    /\ claim' = [claim EXCEPT ![c].lapsed = TRUE]
    /\ UNCHANGED <<readable, tree, job, troubles>>

(* A statement throws, a version conflict with another process included.   *)
Trouble == troubles < MaxTroubles /\ troubles' = troubles + 1
Fails(p) ==
    /\ job[p].at \notin {"idle", "acquire"}
    /\ job[p].how = "recovery" => job[p].at # "prepared"
    /\ Uncertain(p)
    /\ Trouble
    /\ UNCHANGED tree
Crash(p) ==
    /\ job[p] # NoJob
    /\ Leaves(p)
    /\ Trouble
    /\ UNCHANGED <<readable, claim, tree>>

Next ==
    \/ \E p \in Procs, c \in Claims :
         \/ AcquireRead(p, c) \/ Recover(p, c) \/ ReconcileRead(p, c)
         \/ Renew(p, c) \/ ProposeCorrection(p, c)
    \/ \E p \in Procs :
         \/ AcquireAppend(p) \/ BeginDispatch(p)
         \/ \E where \in {"inside", "outside"} : WriterStrays(p, where)
         \/ \E report \in {"patch", "empty"} : WriterReturns(p, report)
         \/ Prepare(p) \/ ApplyStart(p) \/ Rename(p) \/ RecordFile(p) \/ ApplyCompleted(p)
         \/ Checkpoint(p) \/ Release(p) \/ Retain(p)
         \/ ReconcileInspect(p) \/ ReconcileAppend(p)
         \/ Fails(p) \/ Crash(p)
    \/ \E c \in Claims : Lapse(c)

Spec == Init /\ [][Next]_vars

-----------------------------------------------------------------------------
(* Nothing that the calls append, in any interleaving and after any crash, *)
(* is refused by the projection, which would end all claims of the project. *)
StreamReadable == readable

(* No file of the repository is in two claims at once, whichever processes *)
(* acquired them and however their scopes lie in each other, and no claim  *)
(* makes the stream unreadable.                                            *)
ClaimsDisjoint ==
    /\ StreamReadable
    /\ \A c, d \in Claims : c # d /\ Active(c) /\ Active(d) =>
           \A file \in Tree : ~ \E s \in Scopes[c], t \in Scopes[d] :
               Covers(s, file) /\ Covers(t, file)

(* A worktree into which the applier has written, recorded or not, is never *)
(* given to another dispatch of its claim.                                 *)
NoDispatchOverEffect ==
    \A c \in Claims : tree[c].files > 0 /\ Active(c) => claim[c].unsettled \/ ~claim[c].authorized

(* However writers, recoveries and reconciliations race, a patch is written *)
(* at most once, is not resumed when it was cut short, and a checkpoint is *)
(* of a patch that is there as a whole.                                    *)
Applies(p, c) == job[p].claim = c /\ job[p].at \in {"rename", "record"}
Phase(c) == IF claim[c].complete THEN "whole"
            ELSE IF ~claim[c].started THEN "none"
            ELSE IF \E p \in Procs : Applies(p, c) THEN "writing" ELSE "cut"
Patch == INSTANCE PatchOnce WITH phase <- [c \in Claims |-> Phase(c)],
                                 written <- [c \in Claims |-> tree[c].files],
                                 accepted <- {c \in Claims : claim[c].checkpoint}
ImplementsPatchOnce == Patch!Spec
=============================================================================
