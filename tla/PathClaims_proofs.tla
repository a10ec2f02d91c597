------------------------- MODULE PathClaims_proofs --------------------------
(***************************************************************************)
(* Path claims, their writers and the applier of patches, for any          *)
(* processes, claims and scopes. What holds the argument together: of all  *)
(* that ever work under a claim one gets a report accepted, because a      *)
(* claim with a report is authorized no more; so one proposal is prepared, *)
(* and of those who know its intent one starts, because the start is       *)
(* refused once the claim is started. What is in the worktree is then what *)
(* that one has written.                                                   *)
(***************************************************************************)
EXTENDS PathClaims, SequenceTheorems, TLAPS

Trees == [files : Nat, stray : {"none", "inside", "outside"}]
ClaimViews == [state : {"free", "active", "released"}, lapsed : BOOLEAN, token : Nat,
               unsettled : BOOLEAN, authorized : BOOLEAN, dispatch : Nat, bound : Nat,
               receipt : {"none", "patch", "empty"}, proposal : BOOLEAN, pending : BOOLEAN,
               started : BOOLEAN, recorded : Nat, complete : BOOLEAN, checkpoint : BOOLEAN]
Places == {"idle", "acquire", "claimed", "running", "inspect", "prepared", "rename", "record",
           "review", "release", "reconcile", "observed"}
Jobs == [at : Places, how : {"none", "writer", "recovery", "reconciliation"},
         claim : Claims, token : Nat, patch : Nat, dispatch : Nat, fresh : BOOLEAN,
         clash : BOOLEAN, done : Nat, seen : Trees]
TypeOK ==
    /\ readable = TRUE
    /\ claim \in [Claims -> ClaimViews]
    /\ tree \in [Claims -> Trees]
    /\ job \in [Procs -> Jobs]

(* What a claim shows follows the order in which its patch comes about.    *)
ClaimFits(k, t) ==
    /\ k.authorized => ~k.unsettled /\ k.receipt = "none"
    /\ k.state = "free" => ~k.unsettled /\ k.receipt = "none"
    /\ k.proposal => k.receipt # "none"
    /\ k.pending \/ k.started => k.proposal
    /\ k.complete => k.started /\ ~k.pending /\ t.files = Files
    /\ k.started /\ ~k.complete => k.pending
    /\ ~k.started => t.files = 0 /\ k.recorded = 0
    /\ k.checkpoint => k.complete

(* What a job under way knows of its claim: a report was accepted from one *)
(* writer, and one process applies what it proposed.                       *)
Applying(j) == j.at \in {"rename", "record"}
Reported(j) == j.how = "writer" /\ j.at \in {"inspect", "prepared", "rename", "record", "review", "release"}
JobFits(j, k, t) ==
    /\ j.at = "inspect" => j.how = "writer" /\ ~k.proposal
    /\ j.at # "acquire" => k.state # "free"
    /\ j.at \in {"acquire", "claimed", "running"} => j.how = "writer"
    /\ Reported(j) => k.receipt # "none"
    /\ j.at \in {"claimed", "running", "acquire", "reconcile", "observed", "inspect", "prepared"} => j.done = 0
    /\ Applying(j) => /\ k.started /\ ~k.complete /\ j.done <= Files
                      /\ k.recorded = j.done
                      /\ t.files = IF j.at = "rename" THEN j.done ELSE j.done + 1
                      /\ j.at = "record" => j.done < Files
    /\ j.at \in {"review", "release"} => j.how = "writer" /\ k.complete

NoOverlap == \A c, d \in Claims : c # d /\ Active(c) /\ Active(d) => ~Overlap(c, d)
ClaimsFit == \A c \in Claims : ClaimFits(claim[c], tree[c])
JobsFit == \A p \in Procs : job[p].at # "idle" => JobFits(job[p], Mine(p), tree[job[p].claim])
OneReporter ==
    \A p, q \in Procs :
        job[p].claim = job[q].claim /\ Reported(job[p]) /\ Reported(job[q]) => p = q
OneApplier ==
    \A p, q \in Procs :
        job[p].claim = job[q].claim /\ Applying(job[p]) /\ Applying(job[q]) => p = q
FreshAcquire ==
    \A p \in Procs, c \in Claims :
        job[p].at = "acquire" /\ job[p].fresh /\ job[p].claim = c =>
            claim[c].state = "free" /\ (~job[p].clash => Conflicts(c) = {})
IInv == /\ TypeOK /\ NoOverlap /\ ClaimsFit /\ JobsFit
        /\ OneReporter /\ OneApplier /\ FreshAcquire

-----------------------------------------------------------------------------
(* A step of one process: what it makes of one claim, of its worktree and  *)
(* of its own job, and which others it makes stale.                        *)
Steps(p, c, k, t, j) ==
    /\ readable' = TRUE
    /\ claim' = [claim EXCEPT ![c] = k]
    /\ tree' = [tree EXCEPT ![c] = t]
    /\ \E F \in SUBSET Procs :
          job' = [q \in Procs |-> IF q = p THEN j
                                  ELSE IF q \in F THEN [job[q] EXCEPT !.fresh = FALSE] ELSE job[q]]
(* ... all others, when it appends.                                        *)
Told(p) == \A q \in Procs \ {p} : ~job'[q].fresh
NoNews(c, k) == k.state = claim[c].state /\ k.lapsed = claim[c].lapsed
Fits(p, c, k, t, j) ==
    /\ ClaimFits(k, t)
    /\ j.at # "idle" => j.claim = c /\ JobFits(j, k, t)
    /\ \A q \in Procs \ {p} :
         job[q].at # "idle" /\ job[q].claim = c =>
            /\ JobFits(job[q], k, t)
            /\ Reported(j) => ~Reported(job[q])
            /\ Applying(j) => ~Applying(job[q])
    /\ j.at = "acquire" => j.fresh /\ k = claim[c] /\ k.state = "free" /\ (~j.clash => Conflicts(c) = {})

LEMMA ActiveStays ==
    ASSUME TypeOK, NEW c \in Claims, NEW k \in ClaimViews, claim' = [claim EXCEPT ![c] = k],
           NoNews(c, k)
    PROVE  \A d \in Claims : (Active(d)' <=> Active(d)) /\ claim'[d].state = claim[d].state
BY DEF TypeOK, NoNews, Active

LEMMA OthersSame ==
    ASSUME TypeOK, NEW p \in Procs, NEW c, NEW k, NEW t, NEW j \in Jobs, Steps(p, c, k, t, j)
    PROVE  /\ job' \in [Procs -> Jobs] /\ job'[p] = j
           /\ \A q \in Procs \ {p} :
                /\ job'[q].at = job[q].at /\ job'[q].how = job[q].how /\ job'[q].claim = job[q].claim
                /\ job'[q].clash = job[q].clash /\ job'[q].done = job[q].done
                /\ job'[q].fresh => job[q].fresh
<1>1. PICK F \in SUBSET Procs :
          job' = [q \in Procs |-> IF q = p THEN j
                                  ELSE IF q \in F THEN [job[q] EXCEPT !.fresh = FALSE] ELSE job[q]]
  BY DEF Steps
<1>2. \A q \in Procs : job[q] \in Jobs
  BY DEF TypeOK
<1>3. \A q \in Procs : [job[q] EXCEPT !.fresh = FALSE] \in Jobs
  BY <1>2 DEF Jobs
<1>4. \A q \in Procs : LET i == [job[q] EXCEPT !.fresh = FALSE]
                       IN i.at = job[q].at /\ i.how = job[q].how /\ i.claim = job[q].claim
                          /\ i.clash = job[q].clash /\ i.done = job[q].done /\ i.fresh = FALSE
  BY <1>2 DEF Jobs
<1> QED BY <1>1, <1>2, <1>3, <1>4

LEMMA JobFitsOf ==
    ASSUME NEW i, NEW j, NEW k, NEW t, JobFits(i, k, t),
           j.at = i.at /\ j.how = i.how /\ j.done = i.done
    PROVE  JobFits(j, k, t)
BY DEF JobFits, Reported, Applying

LEMMA StepKeeps ==
    ASSUME IInv, NEW p \in Procs, NEW c \in Claims, NEW k \in ClaimViews, NEW t \in Trees,
           NEW j \in Jobs, Steps(p, c, k, t, j), Fits(p, c, k, t, j),
           \/ NoNews(c, k)
           \/ Told(p) /\ (k.state = "active" /\ ~k.lapsed => Active(c) \/ Conflicts(c) = {})
    PROVE  IInv'
<1> USE DEF IInv
<1>1. /\ job' \in [Procs -> Jobs] /\ job'[p] = j
      /\ \A q \in Procs \ {p} :
           /\ job'[q].at = job[q].at /\ job'[q].how = job[q].how /\ job'[q].claim = job[q].claim
           /\ job'[q].clash = job[q].clash /\ job'[q].done = job[q].done
           /\ job'[q].fresh => job[q].fresh
  BY OthersSame
<1>2. /\ readable' = TRUE /\ claim' \in [Claims -> ClaimViews] /\ tree' \in [Claims -> Trees]
      /\ claim'[c] = k /\ tree'[c] = t
      /\ \A d \in Claims \ {c} : claim'[d] = claim[d] /\ tree'[d] = tree[d]
  BY DEF Steps, TypeOK
<1>3. TypeOK'
  BY <1>1, <1>2 DEF TypeOK, Fits
<1>4. ClaimsFit'
  BY <1>1, <1>2 DEF ClaimsFit, Fits
<1>5. JobsFit'
  <2> SUFFICES ASSUME NEW q \in Procs, job'[q].at # "idle"
               PROVE  JobFits(job'[q], claim'[job'[q].claim], tree'[job'[q].claim])
    BY DEF JobsFit, Mine
  <2>1. CASE q = p
    BY <1>1, <1>2, <2>1 DEF Fits
  <2>2. CASE q # p /\ job[q].claim = c
    BY <1>1, <1>2, <2>2, JobFitsOf DEF Fits
  <2>3. CASE q # p /\ job[q].claim # c
    <3>1. job[q].claim \in Claims \ {c} /\ job[q].at # "idle"
      BY <1>1, <2>3 DEF TypeOK, Jobs
    <3>2. JobFits(job[q], claim[job[q].claim], tree[job[q].claim])
      BY <3>1 DEF JobsFit, Mine
    <3> QED BY <1>1, <1>2, <2>3, <3>1, <3>2, JobFitsOf
  <2> QED BY <2>1, <2>2, <2>3
<1>6. OneReporter'
  <2>1. \A q \in Procs \ {p} : Reported(job'[q]) <=> Reported(job[q])
    BY <1>1 DEF Reported
  <2>2. \A q \in Procs : Reported(job'[q]) => job'[q].at # "idle"
    BY DEF Reported
  <2>3. \A q \in Procs \ {p} : job'[p].claim = job'[q].claim => ~(Reported(job'[p]) /\ Reported(job'[q]))
    BY <1>1, <2>1, <2>2 DEF Fits
  <2> QED BY <1>1, <2>1, <2>3 DEF OneReporter
<1>7. OneApplier'
  <2>1. \A q \in Procs \ {p} : Applying(job'[q]) <=> Applying(job[q])
    BY <1>1 DEF Applying
  <2>2. \A q \in Procs : Applying(job'[q]) => job'[q].at # "idle"
    BY DEF Applying
  <2>3. \A q \in Procs \ {p} : job'[p].claim = job'[q].claim => ~(Applying(job'[p]) /\ Applying(job'[q]))
    BY <1>1, <2>1, <2>2 DEF Fits
  <2> QED BY <1>1, <2>1, <2>3 DEF OneApplier
<1>8. CASE NoNews(c, k)
  <2>1. \A d \in Claims : (Active(d)' <=> Active(d)) /\ claim'[d].state = claim[d].state
    BY <1>8, ActiveStays DEF Steps
  <2>2. \A d \in Claims : Conflicts(d)' = Conflicts(d)
    BY <2>1 DEF Conflicts
  <2>3. NoOverlap'
    BY <2>1 DEF NoOverlap
  <2>4. FreshAcquire'
    <3> SUFFICES ASSUME NEW q \in Procs, NEW d \in Claims,
                        job'[q].at = "acquire", job'[q].fresh, job'[q].claim = d
                 PROVE  claim'[d].state = "free" /\ (~job'[q].clash => Conflicts(d)' = {})
      BY DEF FreshAcquire
    <3>1. CASE q = p
      BY <1>1, <1>2, <2>2, <3>1 DEF Fits
    <3>2. CASE q # p
      BY <1>1, <2>1, <2>2, <3>2 DEF FreshAcquire
    <3> QED BY <3>1, <3>2
  <2> QED BY <1>3, <1>4, <1>5, <1>6, <1>7, <2>3, <2>4
<1>9. CASE Told(p) /\ (k.state = "active" /\ ~k.lapsed => Active(c) \/ Conflicts(c) = {})
  <2>1. \A d \in Claims \ {c} : Active(d)' <=> Active(d)
    BY <1>2 DEF Active
  <2>2. Active(c)' => Active(c) \/ Conflicts(c) = {}
    BY <1>2, <1>9 DEF Active
  <2>3. \A d, e \in Claims : Overlap(d, e) <=> Overlap(e, d)
    BY DEF Overlap
  <2>4. Conflicts(c) = {} => \A d \in Claims \ {c} : Active(d) => ~Overlap(c, d)
    BY DEF Conflicts
  <2>5. NoOverlap'
    <3> SUFFICES ASSUME NEW d \in Claims, NEW e \in Claims, d # e, Active(d)', Active(e)'
                 PROVE  ~Overlap(d, e)
      BY DEF NoOverlap
    <3>1. CASE d # c /\ e # c
      BY <2>1, <3>1 DEF NoOverlap
    <3>2. CASE d = c
      BY <2>1, <2>2, <2>4, <3>2 DEF NoOverlap
    <3>3. CASE e = c
      BY <2>1, <2>2, <2>3, <2>4, <3>3 DEF NoOverlap
    <3> QED BY <3>1, <3>2, <3>3
  <2>6. FreshAcquire'
    <3> SUFFICES ASSUME NEW q \in Procs, NEW d \in Claims,
                        job'[q].at = "acquire", job'[q].fresh, job'[q].claim = d
                 PROVE  claim'[d].state = "free" /\ (~job'[q].clash => Conflicts(d)' = {})
      BY DEF FreshAcquire
    <3>1. q = p /\ job'[q] = j
      BY <1>1, <1>9 DEF Told
    <3>2. NoNews(c, k) /\ d = c /\ claim[c].state = "free" /\ (~j.clash => Conflicts(c) = {})
      BY <3>1 DEF Fits, NoNews
    <3>3. \A e \in Claims : (Active(e)' <=> Active(e)) /\ claim'[e].state = claim[e].state
      BY <3>2, ActiveStays DEF Steps
    <3>4. Conflicts(d)' = Conflicts(d)
      BY <3>3 DEF Conflicts
    <3> QED BY <3>1, <3>2, <3>3, <3>4
  <2> QED BY <1>3, <1>4, <1>5, <1>6, <1>7, <2>5, <2>6
<1> QED BY <1>8, <1>9

-----------------------------------------------------------------------------
(* What a step makes of the patch of its claim: nothing but an acceptance  *)
(* or the end of who was writing, a beginning, a file, or its completion.  *)
SamePatch(c, k, t) == /\ k.started = claim[c].started /\ k.complete = claim[c].complete
                      /\ t.files = tree[c].files
Begins(p, c, k, t, j) ==
    /\ ~claim[c].started /\ k.started /\ ~k.complete /\ ~claim[c].complete
    /\ t.files = tree[c].files /\ k.checkpoint = claim[c].checkpoint /\ Applying(j)
Writes(p, c, k, t, j) ==
    /\ k = claim[c] /\ k.started /\ ~k.complete
    /\ Applying(job[p]) /\ Applying(j)
    /\ tree[c].files < Files /\ t.files = tree[c].files + 1
Finishes(p, c, k, t, j) ==
    /\ claim[c].started /\ ~claim[c].complete /\ k.complete
    /\ Applying(job[p])
    /\ t.files = tree[c].files /\ t.files = Files /\ k.checkpoint = claim[c].checkpoint
Advances(p, c, k, t, j) ==
    /\ Applying(job[p]) => job[p].claim = c
    /\ claim[c].checkpoint => k.checkpoint
    /\ \/ SamePatch(c, k, t) /\ (Applying(j) => Applying(job[p]))
       \/ Begins(p, c, k, t, j) \/ Writes(p, c, k, t, j) \/ Finishes(p, c, k, t, j)

PatchStep == [Patch!Next]_Patch!vars
Phases == [c \in Claims |-> Phase(c)]
Written == [c \in Claims |-> tree[c].files]
Accepted == {c \in Claims : claim[c].checkpoint}

LEMMA StepPhases ==
    ASSUME IInv, NEW p \in Procs, NEW c \in Claims, NEW k \in ClaimViews, NEW t \in Trees,
           NEW j \in Jobs, Steps(p, c, k, t, j), Fits(p, c, k, t, j), Advances(p, c, k, t, j)
    PROVE  /\ Phases' = [Phases EXCEPT ![c] = Phase(c)']
           /\ Written' = [Written EXCEPT ![c] = t.files]
           /\ Accepted' = IF k.checkpoint THEN Accepted \union {c} ELSE Accepted
           /\ k.complete => Phase(c)' = "whole"
           /\ ~k.complete /\ ~k.started => Phase(c)' = "none"
           /\ ~k.complete /\ k.started /\ Applying(j) => Phase(c)' = "writing"
           /\ ~k.complete /\ k.started /\ Applying(job[p]) /\ ~Applying(j) => Phase(c)' = "cut"
           /\ SamePatch(c, k, t) /\ (Applying(j) <=> Applying(job[p])) => Phase(c)' = Phase(c)
           /\ Applying(job[p]) /\ claim[c].started /\ ~claim[c].complete => Phase(c) = "writing"
<1> USE DEF IInv
<1>1. /\ job' \in [Procs -> Jobs] /\ job'[p] = j
      /\ \A q \in Procs \ {p} : job'[q].at = job[q].at /\ job'[q].claim = job[q].claim
  BY OthersSame
<1>2. /\ claim' \in [Claims -> ClaimViews] /\ tree' \in [Claims -> Trees]
      /\ claim'[c] = k /\ tree'[c] = t
      /\ \A d \in Claims \ {c} : claim'[d] = claim[d] /\ tree'[d] = tree[d]
  BY DEF Steps, TypeOK
<1>3. Applying(j) => j.claim = c
  BY DEF Fits, Applying
<1>4. \A q \in Procs, d \in Claims : Applies(q, d) <=> job[q].claim = d /\ Applying(job[q])
  BY DEF Applies, Applying
<1>5. \A q \in Procs \ {p}, d \in Claims : Applies(q, d)' <=> Applies(q, d)
  BY <1>1 DEF Applies
<1>6. \A d \in Claims : Applies(p, d)' <=> d = c /\ Applying(j)
  BY <1>1, <1>3 DEF Applies, Applying
<1>7. \A d \in Claims : Applies(p, d) <=> d = c /\ Applying(job[p])
  BY <1>4 DEF Advances
<1>8. \A d \in Claims \ {c} : Phase(d)' = Phase(d)
  <2> SUFFICES ASSUME NEW d \in Claims \ {c} PROVE Phase(d)' = Phase(d)
    OBVIOUS
  <2>1. (\E q \in Procs : Applies(q, d)') <=> (\E q \in Procs : Applies(q, d))
    BY <1>5, <1>6, <1>7
  <2> QED BY <1>2, <2>1 DEF Phase
<1>9. Phases' = [Phases EXCEPT ![c] = Phase(c)']
  BY <1>8 DEF Phases
<1>10. Written' = [Written EXCEPT ![c] = t.files]
  BY <1>2 DEF Written
<1>11. Accepted' = IF k.checkpoint THEN Accepted \union {c} ELSE Accepted
  BY <1>2 DEF Accepted, Advances
<1>12. (\E q \in Procs : Applies(q, c)') <=> Applying(j) \/ \E q \in Procs \ {p} : Applies(q, c)
  BY <1>5, <1>6
<1>13. (\E q \in Procs : Applies(q, c)) <=> Applying(job[p]) \/ \E q \in Procs \ {p} : Applies(q, c)
  BY <1>7
<1>14. Applying(job[p]) => ~ \E q \in Procs \ {p} : Applies(q, c)
  BY <1>4 DEF OneApplier, Advances
<1>15. Phase(c)' = IF k.complete THEN "whole" ELSE IF ~k.started THEN "none"
                   ELSE IF \E q \in Procs : Applies(q, c)' THEN "writing" ELSE "cut"
  BY <1>2 DEF Phase
<1>16. Phase(c) = IF claim[c].complete THEN "whole" ELSE IF ~claim[c].started THEN "none"
                  ELSE IF \E q \in Procs : Applies(q, c) THEN "writing" ELSE "cut"
  BY DEF Phase
<1>17. SamePatch(c, k, t) /\ (Applying(j) <=> Applying(job[p])) => Phase(c)' = Phase(c)
  BY <1>12, <1>13, <1>15, <1>16 DEF SamePatch
<1> QED BY <1>9, <1>10, <1>11, <1>12, <1>13, <1>14, <1>15, <1>16, <1>17

LEMMA StepRefines ==
    ASSUME IInv, NEW p \in Procs, NEW c \in Claims, NEW k \in ClaimViews, NEW t \in Trees,
           NEW j \in Jobs, Steps(p, c, k, t, j), Fits(p, c, k, t, j), Advances(p, c, k, t, j)
    PROVE  PatchStep
<1>0. /\ Phases' = [Phases EXCEPT ![c] = Phase(c)']
      /\ Written' = [Written EXCEPT ![c] = t.files]
      /\ Accepted' = IF k.checkpoint THEN Accepted \union {c} ELSE Accepted
  BY StepPhases
<1>1. /\ Phases = [d \in Claims |-> Phase(d)] /\ Phases[c] = Phase(c)
      /\ Written = [d \in Claims |-> tree[d].files] /\ Written[c] = tree[c].files
      /\ claim[c].checkpoint => c \in Accepted
  BY DEF Phases, Written, Accepted
<1>2. Patch!vars = <<Phases, Written, Accepted>> /\ Patch!vars' = <<Phases', Written', Accepted'>>
  BY DEF Patch!vars, Phases, Written, Accepted
<1>3. ClaimFits(claim[c], tree[c]) /\ ClaimFits(k, t)
  BY DEF IInv, ClaimsFit, Fits
<1>4. Phases' = [Phases EXCEPT ![c] = Phase(c)] => Phases' = Phases
  BY <1>1
<1>5. Written' = [Written EXCEPT ![c] = tree[c].files] => Written' = Written
  BY <1>1
<1>6. CASE SamePatch(c, k, t) /\ (Applying(j) => Applying(job[p]))
  <2>1. Written' = Written
    BY <1>0, <1>5, <1>6 DEF SamePatch
  <2>2. CASE Applying(j) <=> Applying(job[p])
    <3>1. Phase(c)' = Phase(c)
      BY <1>6, <2>2, StepPhases
    <3>2. Phases' = Phases
      BY <1>0, <1>4, <3>1
    <3>3. CASE k.checkpoint /\ k.complete
      <4>1. claim[c].complete
        BY <1>6, <3>3 DEF SamePatch
      <4>2. Phase(c) = "whole"
        BY <4>1 DEF Phase
      <4>3. Patch!Accept(c)
        BY <1>0, <1>1, <2>1, <3>2, <3>3, <4>2 DEF Patch!Accept, Phases, Written, Accepted
      <4> QED BY <4>3 DEF PatchStep, Patch!Next
    <3>4. CASE ~k.checkpoint
      BY <1>0, <1>2, <2>1, <3>2, <3>4 DEF PatchStep
    <3> QED BY <1>3, <3>3, <3>4 DEF ClaimFits
  <2>3. CASE Applying(job[p]) /\ ~Applying(j)
    <3>1. JobFits(job[p], claim[c], tree[c])
      BY <2>3 DEF IInv, JobsFit, Mine, Advances, Applying
    <3>2. claim[c].started /\ ~claim[c].complete /\ k.started /\ ~k.complete /\ ~k.checkpoint
      BY <1>3, <1>6, <2>3, <3>1 DEF JobFits, SamePatch, ClaimFits
    <3>3. Phase(c) = "writing" /\ Phase(c)' = "cut"
      BY <2>3, <3>2, StepPhases
    <3>4. Patch!Cut(c)
      BY <1>0, <1>1, <2>1, <3>2, <3>3 DEF Patch!Cut, Patch!Moves, Phases, Written, Accepted
    <3> QED BY <3>4 DEF PatchStep, Patch!Next
  <2> QED BY <1>6, <2>2, <2>3
<1>7. CASE Begins(p, c, k, t, j)
  <2>1. Written' = Written
    BY <1>0, <1>5, <1>7 DEF Begins
  <2>2. ~k.checkpoint /\ Accepted' = Accepted
    BY <1>0, <1>3, <1>7 DEF Begins, ClaimFits
  <2>3. Phase(c) = "none"
    BY <1>7 DEF Phase, Begins
  <2>4. Phase(c)' = "writing"
    BY <1>7, StepPhases DEF Begins
  <2>5. Patch!Begin(c)
    BY <1>0, <1>1, <2>1, <2>2, <2>3, <2>4 DEF Patch!Begin, Patch!Moves, Phases, Written, Accepted
  <2> QED BY <2>5 DEF PatchStep, Patch!Next
<1>8. CASE Writes(p, c, k, t, j)
  <2>1. Phase(c) = "writing" /\ Phase(c)' = "writing"
    BY <1>8, StepPhases DEF Writes
  <2>2. Phases' = Phases
    BY <1>0, <1>4, <2>1
  <2>3. ~k.checkpoint /\ Accepted' = Accepted
    BY <1>0, <1>3, <1>8 DEF Writes, ClaimFits
  <2>4. Written[c] < Files /\ Written' = [Written EXCEPT ![c] = @ + 1]
    BY <1>0, <1>1, <1>8 DEF Writes
  <2>5. Patch!Write(c)
    BY <1>1, <2>1, <2>2, <2>3, <2>4 DEF Patch!Write, Phases, Written, Accepted
  <2> QED BY <2>5 DEF PatchStep, Patch!Next
<1>9. CASE Finishes(p, c, k, t, j)
  <2>1. Written' = Written /\ Written[c] = Files
    BY <1>0, <1>1, <1>5, <1>9 DEF Finishes
  <2>2. ~k.checkpoint /\ Accepted' = Accepted
    BY <1>0, <1>3, <1>9 DEF Finishes, ClaimFits
  <2>3. Phase(c) = "writing" /\ Phase(c)' = "whole"
    BY <1>9, StepPhases DEF Finishes
  <2>4. Patch!Finish(c)
    BY <1>0, <1>1, <2>1, <2>2, <2>3 DEF Patch!Finish, Patch!Moves, Phases, Written, Accepted
  <2> QED BY <2>4 DEF PatchStep, Patch!Next
<1> QED BY <1>6, <1>7, <1>8, <1>9 DEF Advances

(* A step keeps the invariant and is a step of PatchOnce.                  *)
Goes == IInv' /\ PatchStep
LEMMA StepGoes ==
    ASSUME IInv, NEW p \in Procs, NEW c \in Claims, NEW k \in ClaimViews, NEW t \in Trees,
           NEW j \in Jobs, Steps(p, c, k, t, j), Fits(p, c, k, t, j), Advances(p, c, k, t, j),
           \/ NoNews(c, k)
           \/ Told(p) /\ (k.state = "active" /\ ~k.lapsed => Active(c) \/ Conflicts(c) = {})
    PROVE  Goes
BY StepKeeps, StepRefines DEF Goes

-----------------------------------------------------------------------------
(* What a step of a process does when it appends, and when it does not.    *)
LEMMA SomeClaim == NoJob \in Jobs /\ NoJob.at = "idle" /\ NoJob.how = "none" /\ NoJob.done = 0 /\ NoJob.fresh = FALSE
<1>1. (CHOOSE c \in Claims : TRUE) \in Claims
  BY ClaimAssumption
<1> QED BY <1>1 DEF NoJob, Jobs, Places, Trees, Clean

LEMMA ThenSteps ==
    ASSUME TypeOK, NEW p \in Procs, NEW c \in Claims, NEW k \in ClaimViews, NEW j \in Jobs, NEW t,
           Then(p, j), readable' = TRUE, claim' = [claim EXCEPT ![c] = k],
           tree' = [tree EXCEPT ![c] = t]
    PROVE  Steps(p, c, k, t, j) /\ Told(p)
<1>1. job' = [q \in Procs |-> IF q = p THEN j
                              ELSE IF q \in Others(p) THEN [job[q] EXCEPT !.fresh = FALSE] ELSE job[q]]
  BY DEF Then
<1>2. Others(p) \in SUBSET Procs
  BY DEF Others
<1>3. Steps(p, c, k, t, j)
  BY <1>1, <1>2 DEF Steps
<1>4. \A q \in Procs : job[q] \in Jobs
  BY DEF TypeOK
<1>5. Told(p)
  BY <1>1, <1>4 DEF Told, Others, Jobs
<1> QED BY <1>3, <1>5

LEMMA AppendsSteps ==
    ASSUME TypeOK, NEW p \in Procs, NEW k \in ClaimViews, NEW j \in Jobs, NEW t,
           Appends(p, TRUE, k, j), tree' = [tree EXCEPT ![job[p].claim] = t]
    PROVE  Steps(p, job[p].claim, k, t, j) /\ Told(p)
<1>1. job[p].claim \in Claims
  BY DEF TypeOK, Jobs
<1> QED BY <1>1, ThenSteps DEF Appends

LEMMA QuietSteps ==
    ASSUME TypeOK, NEW p \in Procs, NEW c \in Claims, NEW j, job' = [job EXCEPT ![p] = j],
           UNCHANGED <<readable, claim>>, NEW t, tree' = [tree EXCEPT ![c] = t]
    PROVE  Steps(p, c, claim[c], t, j) /\ NoNews(c, claim[c])
<1>1. job' = [q \in Procs |-> IF q = p THEN j
                              ELSE IF q \in {} THEN [job[q] EXCEPT !.fresh = FALSE] ELSE job[q]]
  BY DEF TypeOK
<1>2. claim' = [claim EXCEPT ![c] = claim[c]] /\ readable' = TRUE
  BY DEF TypeOK
<1>3. \E F \in SUBSET Procs :
         job' = [q \in Procs |-> IF q = p THEN j
                                 ELSE IF q \in F THEN [job[q] EXCEPT !.fresh = FALSE] ELSE job[q]]
  <2> WITNESS {} \in SUBSET Procs
  <2> QED BY <1>1
<1> QED BY <1>2, <1>3 DEF Steps, NoNews

LEMMA SameTreeIs ==
    ASSUME TypeOK, NEW c \in Claims, tree' = tree
    PROVE  tree' = [tree EXCEPT ![c] = tree[c]] /\ tree[c] \in Trees
BY DEF TypeOK

(* A step that leaves the patch of a claim as it is.                       *)
Keeps(c, k, t) ==
    /\ k.receipt = claim[c].receipt /\ k.proposal = claim[c].proposal /\ k.pending = claim[c].pending
    /\ k.started = claim[c].started /\ k.recorded = claim[c].recorded
    /\ k.complete = claim[c].complete /\ t.files = tree[c].files
    /\ claim[c].state # "free" => k.state # "free"
    /\ claim[c].checkpoint => k.checkpoint
GoesOn(p, c, k, t, j) ==
    \/ j.at = "idle"
    \/ /\ j.claim = c /\ JobFits(j, k, t)
       /\ Reported(j) => job[p].claim = c /\ Reported(job[p])
       /\ Applying(j) => job[p].claim = c /\ Applying(job[p])
       /\ j.at = "acquire" => /\ j.fresh /\ k = claim[c] /\ k.state = "free"
                              /\ ~j.clash => Conflicts(c) = {}

LEMMA CalmFits ==
    ASSUME IInv, NEW p \in Procs, NEW c \in Claims, NEW k \in ClaimViews, NEW t \in Trees,
           NEW j \in Jobs, Keeps(c, k, t), ClaimFits(k, t), GoesOn(p, c, k, t, j)
    PROVE  Fits(p, c, k, t, j)
<1>2. \A q \in Procs : job[q].at # "idle" /\ job[q].claim = c => JobFits(job[q], k, t)
  <2>1. \A q \in Procs : job[q].at # "idle" /\ job[q].claim = c => JobFits(job[q], claim[c], tree[c])
    BY DEF IInv, JobsFit, Mine
  <2> QED BY <2>1 DEF JobFits, Keeps
<1>3. \A q \in Procs \ {p} :
         job[q].claim = c =>
            /\ Reported(j) => ~Reported(job[q])
            /\ Applying(j) => ~Applying(job[q])
  BY DEF IInv, OneReporter, OneApplier, GoesOn, Reported, Applying
<1>4. j.at # "idle" => j.claim = c /\ JobFits(j, k, t)
  BY DEF GoesOn
<1>5. j.at = "acquire" => j.fresh /\ k = claim[c] /\ k.state = "free" /\ (~j.clash => Conflicts(c) = {})
  BY DEF GoesOn
<1>6. \A q \in Procs \ {p} :
         job[q].at # "idle" /\ job[q].claim = c =>
            /\ JobFits(job[q], k, t)
            /\ Reported(j) => ~Reported(job[q])
            /\ Applying(j) => ~Applying(job[q])
  BY <1>2, <1>3
<1> QED BY <1>4, <1>5, <1>6 DEF Fits

LEMMA CalmAdvances ==
    ASSUME NEW p, NEW c, NEW k, NEW t, NEW j, Keeps(c, k, t), GoesOn(p, c, k, t, j),
           job[p].claim = c \/ job[p].at = "idle"
    PROVE  Advances(p, c, k, t, j)
BY DEF Keeps, GoesOn, Advances, SamePatch, Applying

\* A step that appends nothing and touches no worktree.
LEMMA QuietKeeps ==
    ASSUME IInv, NEW p \in Procs, NEW c \in Claims, NEW j \in Jobs, job' = [job EXCEPT ![p] = j],
           UNCHANGED <<readable, claim, tree>>, GoesOn(p, c, claim[c], tree[c], j),
           job[p].claim = c \/ job[p].at = "idle"
    PROVE  Goes
<1>1. TypeOK /\ claim[c] \in ClaimViews
  BY DEF IInv, TypeOK
<1>2. tree' = [tree EXCEPT ![c] = tree[c]] /\ tree[c] \in Trees
  BY <1>1, SameTreeIs
<1>3. Steps(p, c, claim[c], tree[c], j) /\ NoNews(c, claim[c])
  BY <1>1, <1>2, QuietSteps
<1>4. ClaimFits(claim[c], tree[c])
  BY DEF IInv, ClaimsFit
<1>5. Fits(p, c, claim[c], tree[c], j)
  BY <1>1, <1>2, <1>4, CalmFits DEF Keeps
<1>6. Advances(p, c, claim[c], tree[c], j)
  BY CalmAdvances DEF Keeps
<1> QED BY <1>1, <1>2, <1>3, <1>5, <1>6, StepGoes

LEMMA LeavesKeeps ==
    ASSUME IInv, NEW p \in Procs, Leaves(p), UNCHANGED <<readable, claim, tree>>
    PROVE  Goes
<1>1. job[p].claim \in Claims
  BY DEF IInv, TypeOK, Jobs
<1> QED BY <1>1, SomeClaim, QuietKeeps DEF Leaves, GoesOn

\* An append that leaves the patch as it is, and renews or ends the activity of its claim.
LEMMA AppendKeeps ==
    ASSUME IInv, NEW p \in Procs, NEW k \in ClaimViews, NEW j \in Jobs,
           Appends(p, TRUE, k, j), tree' = tree,
           Keeps(job[p].claim, k, tree[job[p].claim]),
           ClaimFits(k, tree[job[p].claim]),
           GoesOn(p, job[p].claim, k, tree[job[p].claim], j),
           k.state = "active" /\ ~k.lapsed => Active(job[p].claim) \/ Conflicts(job[p].claim) = {}
    PROVE  Goes
<1>1. TypeOK /\ job[p].claim \in Claims
  BY DEF IInv, TypeOK, Jobs
<1> DEFINE c == job[p].claim
<1>2. tree' = [tree EXCEPT ![c] = tree[c]] /\ tree[c] \in Trees
  BY <1>1, SameTreeIs
<1>3. Steps(p, c, k, tree[c], j) /\ Told(p)
  BY <1>1, <1>2, AppendsSteps
<1>4. Fits(p, c, k, tree[c], j)
  BY <1>1, <1>2, CalmFits
<1>5. Advances(p, c, k, tree[c], j)
  BY CalmAdvances
<1> QED BY <1>1, <1>2, <1>3, <1>4, <1>5, StepGoes

LEMMA DoubtfulIs ==
    ASSUME NEW k \in ClaimViews
    PROVE  /\ Doubtful(k) \in ClaimViews
           /\ Doubtful(k).state = k.state /\ Doubtful(k).lapsed = k.lapsed /\ Doubtful(k).authorized = FALSE
           /\ Doubtful(k).receipt = k.receipt /\ Doubtful(k).proposal = k.proposal
           /\ Doubtful(k).pending = k.pending /\ Doubtful(k).started = k.started
           /\ Doubtful(k).recorded = k.recorded /\ Doubtful(k).complete = k.complete
           /\ Doubtful(k).checkpoint = k.checkpoint /\ Doubtful(k).token = k.token
BY DEF Doubtful, ClaimViews

LEMMA MineIs ==
    ASSUME IInv, NEW p \in Procs
    PROVE  /\ job[p] \in Jobs /\ job[p].claim \in Claims /\ Mine(p) = claim[job[p].claim]
           /\ Mine(p) \in ClaimViews /\ tree[job[p].claim] \in Trees
           /\ ClaimFits(Mine(p), tree[job[p].claim])
           /\ job[p].at # "idle" => JobFits(job[p], Mine(p), tree[job[p].claim])
           /\ Holds(p) \/ Patching(p) => Active(job[p].claim)
BY DEF IInv, TypeOK, Jobs, ClaimsFit, JobsFit, Mine, Holds, Patching, Bound

\* Every failure under a claim ends in doubt, or says nothing.
LEMMA UncertainKeeps ==
    ASSUME IInv, NEW p \in Procs, Uncertain(p), tree' = tree PROVE Goes
<1> DEFINE says == Holds(p) \/ (job[p].at \in {"rename", "record"} /\ Patching(p))
<1>1. CASE says
  <2>1. Appends(p, TRUE, Doubtful(Mine(p)), NoJob)
    BY <1>1 DEF Uncertain
  <2>2. Keeps(job[p].claim, Doubtful(Mine(p)), tree[job[p].claim])
    <3>1. Mine(p) \in ClaimViews
      BY MineIs
    <3> QED BY <3>1, DoubtfulIs DEF Keeps, Mine
  <2>3. GoesOn(p, job[p].claim, Doubtful(Mine(p)), tree[job[p].claim], NoJob)
    BY SomeClaim DEF GoesOn
  <2>4. ClaimFits(Doubtful(Mine(p)), tree[job[p].claim])
    <3>1. Mine(p) \in ClaimViews /\ ClaimFits(Mine(p), tree[job[p].claim]) /\ Mine(p).state # "free"
      BY <1>1, MineIs DEF Active
    <3> DEFINE i == Mine(p)
               k == Doubtful(i)
    <3>2. /\ k.state = i.state /\ k.authorized = FALSE /\ k.receipt = i.receipt
          /\ k.proposal = i.proposal /\ k.pending = i.pending /\ k.started = i.started
          /\ k.recorded = i.recorded /\ k.complete = i.complete /\ k.checkpoint = i.checkpoint
      BY <3>1, DoubtfulIs
    <3> HIDE DEF k
    <3>3. ClaimFits(k, tree[job[p].claim])
      BY <3>1, <3>2 DEF ClaimFits
    <3> QED BY <3>3 DEF k
  <2> QED BY <1>1, <2>1, <2>2, <2>3, <2>4, MineIs, DoubtfulIs, SomeClaim, AppendKeeps
<1>2. CASE ~says
  BY <1>2, LeavesKeeps DEF Uncertain
<1> QED BY <1>1, <1>2

LEMMA FailKeeps == ASSUME IInv, NEW p \in Procs, Fail(p) PROVE Goes
BY UncertainKeeps DEF Fail, SameTree

-----------------------------------------------------------------------------
LEMMA AcquireReadKeeps ==
    ASSUME IInv, NEW p \in Procs, NEW c \in Claims, AcquireRead(p, c) PROVE Goes
<1>0. claim[c] \in ClaimViews /\ tree[c] \in Trees /\ UNCHANGED <<readable, claim, tree>>
  BY DEF IInv, TypeOK, AcquireRead, Quiet
<1>3. job[p].at = "idle"
  BY SomeClaim DEF AcquireRead
<1>1. CASE Active(c)
  <2> DEFINE j == [NoJob EXCEPT !.at = "claimed", !.how = "writer", !.claim = c,
                                !.token = claim[c].token, !.seen = tree[c]]
  <2>1. job' = [job EXCEPT ![p] = j]
    BY <1>1 DEF AcquireRead
  <2>2. j \in Jobs /\ j.at = "claimed" /\ j.how = "writer" /\ j.claim = c /\ j.done = 0
    BY <1>0, SomeClaim DEF Jobs, Places, ClaimViews
  <2>3. GoesOn(p, c, claim[c], tree[c], j)
    BY <1>1, <2>2 DEF GoesOn, JobFits, Reported, Applying, Active
  <2> QED BY <1>0, <2>1, <2>2, <2>3, <1>3, QuietKeeps
<1>2. CASE ~Active(c)
  <2> DEFINE j == [NoJob EXCEPT !.at = "acquire", !.how = "writer", !.claim = c,
                                !.fresh = TRUE, !.clash = Conflicts(c) # {}]
  <2>1. job' = [job EXCEPT ![p] = j] /\ claim[c].state = "free"
    BY <1>2 DEF AcquireRead
  <2>2. j \in Jobs /\ j.at = "acquire" /\ j.how = "writer" /\ j.claim = c /\ j.done = 0
        /\ j.fresh = TRUE /\ j.clash = (Conflicts(c) # {})
    BY SomeClaim DEF Jobs, Places
  <2>3. GoesOn(p, c, claim[c], tree[c], j)
    BY <2>1, <2>2 DEF GoesOn, JobFits, Reported, Applying
  <2> QED BY <1>0, <2>1, <2>2, <2>3, <1>3, QuietKeeps
<1> QED BY <1>1, <1>2

LEMMA AcquiredIs ==
    ASSUME NEW k \in ClaimViews
    PROVE  /\ Acquired(k) \in ClaimViews /\ Acquired(k).state = "active" /\ Acquired(k).authorized = TRUE
           /\ Acquired(k).unsettled = k.unsettled
           /\ Acquired(k).receipt = k.receipt /\ Acquired(k).proposal = k.proposal
           /\ Acquired(k).pending = k.pending /\ Acquired(k).started = k.started
           /\ Acquired(k).recorded = k.recorded /\ Acquired(k).complete = k.complete
           /\ Acquired(k).checkpoint = k.checkpoint
BY DEF Acquired, ClaimViews

LEMMA AcquireAppendKeeps ==
    ASSUME IInv, NEW p \in Procs, AcquireAppend(p) PROVE Goes
<1> DEFINE c == job[p].claim
<1>0. /\ job[p].at = "acquire" /\ tree' = tree
      /\ job[p] \in Jobs /\ c \in Claims /\ Mine(p) = claim[c] /\ Mine(p) \in ClaimViews
      /\ ClaimFits(Mine(p), tree[c]) /\ JobFits(job[p], Mine(p), tree[c])
  BY MineIs DEF AcquireAppend, SameTree
<1>1. CASE ~job[p].fresh
  BY <1>0, <1>1, LeavesKeeps DEF AcquireAppend
<1>2. CASE job[p].fresh /\ job[p].clash
  <2>1. Appends(p, TRUE, Mine(p), NoJob)
    BY <1>0, <1>2 DEF AcquireAppend
  <2>2. Keeps(c, Mine(p), tree[c]) /\ GoesOn(p, c, Mine(p), tree[c], NoJob)
    BY <1>0, SomeClaim DEF Keeps, GoesOn
  <2>5. Mine(p).state = "active" /\ ~Mine(p).lapsed => Active(c) \/ Conflicts(c) = {}
    BY <1>0 DEF Active
  <2> QED BY <1>0, <2>1, <2>2, <2>5, SomeClaim, AppendKeeps
<1>3. CASE job[p].fresh /\ ~job[p].clash
  <2> DEFINE j == [At(p, "claimed") EXCEPT !.token = 1, !.fresh = FALSE]
  <2>1. claim[c].state = "free" /\ Conflicts(c) = {}
    BY <1>0, <1>3 DEF IInv, FreshAcquire
  <2>2. Appends(p, TRUE, Acquired(Mine(p)), j)
    BY <1>0, <1>3, <2>1 DEF AcquireAppend
  <2>3. j \in Jobs /\ j.at = "claimed" /\ j.claim = c /\ j.done = job[p].done /\ j.how = job[p].how
    BY <1>0 DEF Jobs, Places, At
  <2>4. Keeps(c, Acquired(Mine(p)), tree[c])
    BY ZenonT(60), <1>0, AcquiredIs DEF Keeps
  <2>6. GoesOn(p, c, Acquired(Mine(p)), tree[c], j)
    BY <1>0, <2>3, AcquiredIs DEF GoesOn, JobFits, Reported, Applying
  <2>7. ClaimFits(Acquired(Mine(p)), tree[c])
    BY <1>0, <2>1, AcquiredIs DEF ClaimFits
  <2> HIDE DEF j
  <2> QED BY <1>0, <2>1, <2>2, <2>3, <2>4, <2>6, <2>7, AcquiredIs, AppendKeeps
<1> QED BY <1>1, <1>2, <1>3

LEMMA BeginDispatchKeeps ==
    ASSUME IInv, NEW p \in Procs, BeginDispatch(p) PROVE Goes
<1> DEFINE c == job[p].claim
           k == [Doubtful(Mine(p)) EXCEPT !.dispatch = @ + 1, !.bound = Mine(p).token, !.receipt = "none"]
           j == [At(p, "running") EXCEPT !.dispatch = Mine(p).dispatch + 1]
<1>0. /\ job[p].at = "claimed"
      /\ job[p] \in Jobs /\ c \in Claims /\ Mine(p) = claim[c] /\ Mine(p) \in ClaimViews
      /\ ClaimFits(Mine(p), tree[c]) /\ JobFits(job[p], Mine(p), tree[c])
  BY MineIs DEF BeginDispatch
<1>1. CASE Holds(p) /\ ~Mine(p).unsettled /\ Mine(p).authorized
  <2>1. Appends(p, TRUE, k, j) /\ tree' = tree
    BY <1>0, <1>1 DEF BeginDispatch, SameTree
  <2>0. Mine(p).dispatch \in Nat /\ Mine(p).token \in Nat
    BY <1>0 DEF ClaimViews
  <2>2. j \in Jobs /\ j.at = "running" /\ j.claim = c /\ j.done = job[p].done /\ j.how = job[p].how
    <3>1. At(p, "running") \in Jobs /\ At(p, "running").at = "running"
          /\ At(p, "running").claim = c /\ At(p, "running").done = job[p].done /\ At(p, "running").how = job[p].how
      BY <1>0 DEF Jobs, Places, At
    <3> QED BY <2>0, <3>1 DEF Jobs
  <2>3. Mine(p).receipt = "none"
    BY <1>0, <1>1 DEF ClaimFits
  <2>4. /\ k \in ClaimViews /\ k.receipt = "none" /\ k.authorized = FALSE
        /\ k.state = Mine(p).state /\ k.lapsed = Mine(p).lapsed
        /\ k.proposal = Mine(p).proposal /\ k.pending = Mine(p).pending
        /\ k.started = Mine(p).started /\ k.recorded = Mine(p).recorded
        /\ k.complete = Mine(p).complete /\ k.checkpoint = Mine(p).checkpoint
    <3> DEFINE i == Doubtful(Mine(p))
    <3>1. /\ i \in ClaimViews /\ i.authorized = FALSE
          /\ i.state = Mine(p).state /\ i.lapsed = Mine(p).lapsed
          /\ i.proposal = Mine(p).proposal /\ i.pending = Mine(p).pending
          /\ i.started = Mine(p).started /\ i.recorded = Mine(p).recorded
          /\ i.complete = Mine(p).complete /\ i.checkpoint = Mine(p).checkpoint
      BY <1>0, DoubtfulIs
    <3>2. k = [i EXCEPT !.dispatch = i.dispatch + 1, !.bound = Mine(p).token, !.receipt = "none"]
      OBVIOUS
    <3> HIDE DEF i, k
    <3>5. PICK d \in Nat : d = i.dispatch + 1
      BY <3>1 DEF ClaimViews
    <3>6. PICK b \in Nat : b = Mine(p).token
      BY <2>0
    <3>7. k = [i EXCEPT !.dispatch = d, !.bound = b, !.receipt = "none"]
      BY <3>2, <3>5, <3>6
    <3>3. k \in ClaimViews /\ k.receipt = "none"
      BY <3>1, <3>7 DEF ClaimViews
    <3>4. /\ k.authorized = i.authorized /\ k.state = i.state /\ k.lapsed = i.lapsed
          /\ k.proposal = i.proposal /\ k.pending = i.pending
          /\ k.started = i.started /\ k.recorded = i.recorded
          /\ k.complete = i.complete /\ k.checkpoint = i.checkpoint
      BY <3>1, <3>2 DEF ClaimViews
    <3> QED BY <3>1, <3>3, <3>4
  <2> HIDE DEF k, j
  <2>5. Keeps(c, k, tree[c])
    BY <1>0, <2>3, <2>4 DEF Keeps
  <2>6. GoesOn(p, c, k, tree[c], j)
    BY <1>0, <2>2, <2>4 DEF GoesOn, JobFits, Reported, Applying
  <2>7. k.state = "active" /\ ~k.lapsed => Active(c)
    BY <1>0, <2>4 DEF Active
  <2>8. ClaimFits(k, tree[c])
    BY <1>0, <1>1, <2>4, MineIs DEF ClaimFits, Active
  <2> QED BY <1>0, <2>1, <2>2, <2>4, <2>5, <2>6, <2>7, <2>8, AppendKeeps
<1>2. CASE ~(Holds(p) /\ ~Mine(p).unsettled /\ Mine(p).authorized)
  BY <1>0, <1>2, FailKeeps DEF BeginDispatch
<1> QED BY <1>1, <1>2

LEMMA WriterStraysKeeps ==
    ASSUME IInv, NEW p \in Procs, NEW where \in {"inside", "outside"}, WriterStrays(p, where)
    PROVE  Goes
<1> DEFINE c == job[p].claim
           t == [tree[c] EXCEPT !.stray = where]
<1>0. /\ job[p].at = "running" /\ TypeOK
      /\ job[p] \in Jobs /\ c \in Claims /\ claim[c] \in ClaimViews
      /\ ClaimFits(claim[c], tree[c]) /\ JobFits(job[p], claim[c], tree[c])
  BY MineIs DEF WriterStrays, IInv
<1>1. t \in Trees /\ t.files = tree[c].files
  BY <1>0 DEF TypeOK, Trees
<1>2. tree' = [tree EXCEPT ![c] = t] /\ job' = [job EXCEPT ![p] = job[p]] /\ UNCHANGED <<readable, claim>>
  BY <1>0 DEF WriterStrays, TypeOK
<1> HIDE DEF t
<1>3. Steps(p, c, claim[c], t, job[p]) /\ NoNews(c, claim[c])
  BY <1>0, <1>2, QuietSteps
<1>4. JobFits(job[p], claim[c], t)
  BY <1>0, <1>1 DEF JobFits
<1>5. GoesOn(p, c, claim[c], t, job[p])
  BY <1>0, <1>4 DEF GoesOn, Reported, Applying
<1>6. Keeps(c, claim[c], t) /\ ClaimFits(claim[c], t)
  BY <1>0, <1>1 DEF Keeps, ClaimFits
<1>7. Fits(p, c, claim[c], t, job[p])
  BY <1>0, <1>1, <1>5, <1>6, CalmFits
<1>8. Advances(p, c, claim[c], t, job[p])
  BY <1>5, <1>6, CalmAdvances
<1> QED BY <1>0, <1>1, <1>3, <1>7, <1>8, StepGoes

\* A step with which the patch of a claim goes on.
LEMMA PatchKeeps ==
    ASSUME IInv, NEW p \in Procs, NEW k \in ClaimViews, NEW j \in Jobs,
           Appends(p, TRUE, k, j), tree' = tree, Fits(p, job[p].claim, k, tree[job[p].claim], j),
           Advances(p, job[p].claim, k, tree[job[p].claim], j),
           k.state = "active" /\ ~k.lapsed => Active(job[p].claim)
    PROVE  Goes
<1> DEFINE c == job[p].claim
<1>1. TypeOK /\ c \in Claims
  BY MineIs DEF IInv
<1>2. tree' = [tree EXCEPT ![c] = tree[c]] /\ tree[c] \in Trees
  BY <1>1, SameTreeIs
<1>3. Steps(p, c, k, tree[c], j) /\ Told(p)
  BY <1>1, <1>2, AppendsSteps
<1> QED BY <1>1, <1>2, <1>3, StepGoes

\* What the others under a claim know of it, and that none of them has reported or applies.
LEMMA OthersFit ==
    ASSUME IInv, NEW p \in Procs
    PROVE  \A q \in Procs \ {p} :
             job[q].at # "idle" /\ job[q].claim = job[p].claim =>
                /\ JobFits(job[q], Mine(p), tree[job[p].claim])
                /\ Reported(job[p]) => ~Reported(job[q])
                /\ Applying(job[p]) => ~Applying(job[q])
<1>1. \A q \in Procs : job[q].at # "idle" => JobFits(job[q], claim[job[q].claim], tree[job[q].claim])
  BY DEF IInv, JobsFit, Mine
<1>2. \A q \in Procs \ {p} : job[q].claim = job[p].claim =>
         ~(Reported(job[p]) /\ Reported(job[q])) /\ ~(Applying(job[p]) /\ Applying(job[q]))
  BY DEF IInv, OneReporter, OneApplier
<1> QED BY <1>1, <1>2 DEF Mine

LEMMA WriterReturnsKeeps ==
    ASSUME IInv, NEW p \in Procs, NEW report \in {"patch", "empty"}, WriterReturns(p, report)
    PROVE  Goes
<1> DEFINE c == job[p].claim
           i == Mine(p)
           k == [i EXCEPT !.receipt = report]
           j == At(p, "inspect")
<1>0. /\ job[p].at = "running"
      /\ job[p] \in Jobs /\ c \in Claims /\ i = claim[c] /\ i \in ClaimViews
      /\ ClaimFits(i, tree[c]) /\ JobFits(job[p], i, tree[c])
  BY MineIs DEF WriterReturns
<1>1. CASE Holds(p) /\ i.dispatch = job[p].dispatch /\ i.bound = i.token /\ i.unsettled /\ i.receipt = "none"
  <2>1. Appends(p, TRUE, k, j) /\ tree' = tree
    BY <1>0, <1>1 DEF WriterReturns, SameTree
  <2>2. j \in Jobs /\ j.at = "inspect" /\ j.claim = c /\ j.done = job[p].done /\ j.how = job[p].how
    BY <1>0 DEF Jobs, Places, At
  <2>3. Active(c)
    BY <1>1, MineIs
  <2>4. /\ k \in ClaimViews /\ k.receipt = report
        /\ k.state = i.state /\ k.lapsed = i.lapsed /\ k.authorized = i.authorized
        /\ k.unsettled = i.unsettled /\ k.checkpoint = i.checkpoint
        /\ k.proposal = i.proposal /\ k.pending = i.pending
        /\ k.started = i.started /\ k.recorded = i.recorded /\ k.complete = i.complete
    BY <1>0 DEF ClaimViews
  <2> HIDE DEF k, j
  <2>5. ClaimFits(k, tree[c])
    BY <1>0, <1>1, <2>3, <2>4 DEF ClaimFits, Active
  <2>6. JobFits(j, k, tree[c])
    BY <1>0, <1>1, <2>2, <2>4 DEF JobFits, ClaimFits, Reported, Applying
  <2>7. \A q \in Procs \ {p} :
          job[q].at # "idle" /\ job[q].claim = c =>
             JobFits(job[q], i, tree[c]) /\ ~Reported(job[q])
    BY <1>1, OthersFit DEF JobFits
  <2>8. \A q \in Procs \ {p} :
          job[q].at # "idle" /\ job[q].claim = c => JobFits(job[q], k, tree[c])
    BY <2>4, <2>7 DEF JobFits
  <2>9. Fits(p, c, k, tree[c], j)
    BY <2>2, <2>5, <2>6, <2>7, <2>8 DEF Fits, Applying
  <2>10. Advances(p, c, k, tree[c], j)
    BY <1>0, <2>2, <2>4 DEF Advances, SamePatch, Applying
  <2> QED BY <2>1, <2>2, <2>3, <2>4, <2>9, <2>10, PatchKeeps
<1>2. CASE ~(Holds(p) /\ i.dispatch = job[p].dispatch /\ i.bound = i.token /\ i.unsettled /\ i.receipt = "none")
  BY <1>0, <1>2, FailKeeps DEF WriterReturns
<1> QED BY <1>1, <1>2

LEMMA PrepareKeeps == ASSUME IInv, NEW p \in Procs, Prepare(p) PROVE Goes
<1> DEFINE c == job[p].claim
           i == Mine(p)
           k == [i EXCEPT !.proposal = TRUE, !.pending = TRUE]
           j == [At(p, "prepared") EXCEPT !.patch = i.token, !.fresh = TRUE, !.seen = Clean]
<1>0. /\ job[p].at = "inspect"
      /\ job[p] \in Jobs /\ c \in Claims /\ i = claim[c] /\ i \in ClaimViews
      /\ ClaimFits(i, tree[c]) /\ JobFits(job[p], i, tree[c])
  BY MineIs DEF Prepare
<1>1. CASE tree[c] = job[p].seen /\ tree[c].files = 0 /\ readable /\ Active(c) /\ i.receipt = "patch"
  <2>1. job[p].how = "writer" /\ ~i.proposal /\ ~i.pending /\ ~i.started /\ ~i.complete
    BY <1>0 DEF JobFits, ClaimFits
  <2>2. Appends(p, TRUE, k, j) /\ tree' = tree
    BY <1>0, <1>1, <2>1 DEF Prepare, SameTree
  <2>3. j \in Jobs /\ j.at = "prepared" /\ j.claim = c /\ j.done = job[p].done /\ j.how = "writer"
    BY <1>0, <2>1 DEF Jobs, Places, At, Trees, Clean, ClaimViews
  <2>4. Active(c)
    BY <1>1
  <2>5. /\ k \in ClaimViews /\ k.proposal = TRUE /\ k.pending = TRUE
        /\ k.state = i.state /\ k.lapsed = i.lapsed /\ k.authorized = i.authorized
        /\ k.unsettled = i.unsettled /\ k.checkpoint = i.checkpoint /\ k.receipt = i.receipt
        /\ k.started = i.started /\ k.recorded = i.recorded /\ k.complete = i.complete
    BY <1>0 DEF ClaimViews
  <2> HIDE DEF k, j
  <2>6. ClaimFits(k, tree[c])
    BY <1>0, <1>1, <2>1, <2>5 DEF ClaimFits
  <2>7. JobFits(j, k, tree[c])
    BY <1>0, <1>1, <2>3, <2>5 DEF JobFits, Reported, Applying
  <2>8. \A q \in Procs \ {p} :
          job[q].at # "idle" /\ job[q].claim = c =>
             JobFits(job[q], i, tree[c]) /\ ~Reported(job[q])
    BY <1>0, <2>1, OthersFit DEF Reported
  <2>9. \A q \in Procs \ {p} :
          job[q].at # "idle" /\ job[q].claim = c => JobFits(job[q], k, tree[c])
    BY <2>5, <2>8 DEF JobFits, Reported
  <2>10. Fits(p, c, k, tree[c], j)
    BY <2>3, <2>6, <2>7, <2>8, <2>9 DEF Fits, Applying
  <2>11. Advances(p, c, k, tree[c], j)
    BY <1>0, <2>1, <2>3, <2>5 DEF Advances, SamePatch, Begins, Finishes, Applying
  <2> QED BY <2>2, <2>3, <2>4, <2>5, <2>10, <2>11, PatchKeeps
<1>2. CASE ~(tree[c] = job[p].seen /\ tree[c].files = 0 /\ readable /\ Active(c) /\ i.receipt = "patch")
  BY <1>0, <1>2, FailKeeps DEF Prepare
<1> QED BY <1>1, <1>2

LEMMA RecoverKeeps ==
    ASSUME IInv, NEW p \in Procs, NEW c \in Claims, Recover(p, c) PROVE Goes
<1> DEFINE j == [NoJob EXCEPT !.at = "prepared", !.how = "recovery", !.claim = c,
                              !.token = claim[c].token, !.patch = claim[c].token, !.fresh = TRUE]
<1>1. claim[c] \in ClaimViews
  BY DEF IInv, TypeOK
<1>2. j \in Jobs /\ j.at = "prepared" /\ j.how = "recovery" /\ j.claim = c /\ j.done = 0
  BY <1>1, SomeClaim DEF Jobs, Places, ClaimViews
<1>3. job' = [job EXCEPT ![p] = j] /\ UNCHANGED <<readable, claim, tree>>
  BY DEF Recover, Quiet
<1>5. job[p].at = "idle"
  BY SomeClaim DEF Recover
<1>4. GoesOn(p, c, claim[c], tree[c], j)
  BY <1>2 DEF GoesOn, JobFits, Reported, Applying, Recover, Active
<1> QED BY <1>2, <1>3, <1>4, <1>5, QuietKeeps

LEMMA ApplyStartKeeps == ASSUME IInv, NEW p \in Procs, ApplyStart(p) PROVE Goes
<1> DEFINE c == job[p].claim
           i == Mine(p)
           k == [i EXCEPT !.started = TRUE]
           j == [At(p, "rename") EXCEPT !.fresh = FALSE]
<1>0. /\ job[p].at = "prepared"
      /\ job[p] \in Jobs /\ c \in Claims /\ i = claim[c] /\ i \in ClaimViews
      /\ ClaimFits(i, tree[c]) /\ JobFits(job[p], i, tree[c])
  BY MineIs DEF ApplyStart
<1>1. CASE Patching(p) /\ job[p].fresh /\ i.pending /\ ~i.started
  <2>1. ~i.complete /\ i.proposal /\ i.recorded = 0 /\ tree[c].files = 0 /\ job[p].done = 0
    BY <1>0, <1>1 DEF JobFits, ClaimFits
  <2>2. Appends(p, TRUE, k, j) /\ tree' = tree
    BY <1>0, <1>1 DEF ApplyStart, SameTree
  <2>3. j \in Jobs /\ j.at = "rename" /\ j.claim = c /\ j.done = 0 /\ j.how = job[p].how
    BY <1>0, <2>1 DEF Jobs, Places, At
  <2>4. Active(c)
    BY <1>1, MineIs
  <2>5. /\ k \in ClaimViews /\ k.started = TRUE
        /\ k.state = i.state /\ k.lapsed = i.lapsed /\ k.authorized = i.authorized
        /\ k.unsettled = i.unsettled /\ k.checkpoint = i.checkpoint /\ k.receipt = i.receipt
        /\ k.proposal = i.proposal /\ k.pending = i.pending
        /\ k.recorded = i.recorded /\ k.complete = i.complete
    BY <1>0 DEF ClaimViews
  <2> HIDE DEF k, j
  <2>6. ClaimFits(k, tree[c])
    BY <1>0, <1>1, <2>1, <2>5 DEF ClaimFits
  <2>7. JobFits(j, k, tree[c])
    BY <1>0, <2>1, <2>3, <2>5, ClaimAssumption DEF JobFits, Reported, Applying
  <2>8. \A q \in Procs \ {p} :
          job[q].at # "idle" /\ job[q].claim = c =>
             /\ JobFits(job[q], i, tree[c]) /\ ~Applying(job[q])
             /\ Reported(j) => ~Reported(job[q])
    BY <1>0, <1>1, <2>3, OthersFit DEF JobFits, Reported
  <2>9. \A q \in Procs \ {p} :
          job[q].at # "idle" /\ job[q].claim = c => JobFits(job[q], k, tree[c])
    BY <2>5, <2>8 DEF JobFits
  <2>10. Fits(p, c, k, tree[c], j)
    BY <2>3, <2>6, <2>7, <2>8, <2>9 DEF Fits
  <2>11. Advances(p, c, k, tree[c], j)
    BY <1>0, <1>1, <2>1, <2>3, <2>5 DEF Advances, SamePatch, Begins, Finishes, Applying
  <2> QED BY <2>2, <2>3, <2>4, <2>5, <2>10, <2>11, PatchKeeps
<1>2. CASE ~(Patching(p) /\ job[p].fresh /\ i.pending /\ ~i.started)
  BY <1>0, <1>2, FailKeeps, LeavesKeeps DEF ApplyStart, Quiet
<1> QED BY <1>1, <1>2

LEMMA RenameKeeps == ASSUME IInv, NEW p \in Procs, Rename(p) PROVE Goes
<1> DEFINE c == job[p].claim
           i == Mine(p)
           t == [tree[c] EXCEPT !.files = @ + 1]
           j == At(p, "record")
<1>0. /\ job[p].at = "rename" /\ job[p].done < Files /\ TypeOK
      /\ job[p] \in Jobs /\ c \in Claims /\ i = claim[c] /\ i \in ClaimViews /\ tree[c] \in Trees
      /\ ClaimFits(i, tree[c]) /\ JobFits(job[p], i, tree[c])
  BY MineIs DEF Rename, IInv
<1>1. CASE tree[c].files = job[p].done
  <2>1. tree' = [tree EXCEPT ![c] = t] /\ job' = [job EXCEPT ![p] = j] /\ UNCHANGED <<readable, claim>>
    BY <1>0, <1>1 DEF Rename, At, TypeOK
  <2>2. j \in Jobs /\ j.at = "record" /\ j.claim = c /\ j.done = job[p].done /\ j.how = job[p].how
    BY <1>0 DEF Jobs, Places, At
  <2>3. t \in Trees /\ t.files = job[p].done + 1
    BY <1>0, <1>1 DEF Trees
  <2> HIDE DEF j, t
  <2>4. i.started /\ ~i.complete /\ i.recorded = job[p].done
    BY <1>0 DEF JobFits, Applying
  <2>5. ClaimFits(i, t)
    BY <1>0, <2>4 DEF ClaimFits
  <2>6. JobFits(j, i, t)
    BY <1>0, <2>2, <2>3, <2>4 DEF JobFits, Reported, Applying
  <2>7. \A q \in Procs \ {p} :
          job[q].at # "idle" /\ job[q].claim = c =>
             /\ JobFits(job[q], i, tree[c]) /\ ~Applying(job[q])
             /\ Reported(j) => ~Reported(job[q])
    BY <1>0, <2>2, OthersFit DEF Reported, Applying
  <2>8. \A q \in Procs \ {p} :
          job[q].at # "idle" /\ job[q].claim = c => JobFits(job[q], i, t)
    BY <2>7 DEF JobFits
  <2>9. Fits(p, c, claim[c], t, j)
    BY <1>0, <2>2, <2>5, <2>6, <2>7, <2>8 DEF Fits
  <2>10. Steps(p, c, claim[c], t, j) /\ NoNews(c, claim[c])
    BY <1>0, <2>1, QuietSteps
  <2>11. Advances(p, c, claim[c], t, j)
    BY <1>0, <1>1, <2>2, <2>3, <2>4 DEF Advances, Writes, Applying
  <2> QED BY <1>0, <2>2, <2>3, <2>9, <2>10, <2>11, StepGoes
<1>2. CASE tree[c].files # job[p].done
  BY <1>0, <1>2, FailKeeps DEF Rename
<1> QED BY <1>1, <1>2

LEMMA RecordFileKeeps == ASSUME IInv, NEW p \in Procs, RecordFile(p) PROVE Goes
<1> DEFINE c == job[p].claim
           i == Mine(p)
           k == [i EXCEPT !.recorded = @ + 1]
           j == [At(p, "rename") EXCEPT !.done = @ + 1]
<1>0. /\ job[p].at = "record"
      /\ job[p] \in Jobs /\ c \in Claims /\ i = claim[c] /\ i \in ClaimViews /\ tree[c] \in Trees
      /\ ClaimFits(i, tree[c]) /\ JobFits(job[p], i, tree[c])
  BY MineIs DEF RecordFile, IInv
<1>1. CASE Patching(p)
  <2>1. /\ i.started /\ ~i.complete /\ i.pending /\ i.recorded = job[p].done
        /\ job[p].done < Files /\ tree[c].files = job[p].done + 1
    BY <1>0 DEF JobFits, Applying, ClaimFits
  <2>2. Appends(p, TRUE, k, j) /\ tree' = tree
    BY <1>0, <1>1, <2>1 DEF RecordFile, SameTree
  <2>3. PICK d \in Nat : d = job[p].done + 1
    BY <1>0 DEF Jobs
  <2>4. k = [i EXCEPT !.recorded = d] /\ j = [At(p, "rename") EXCEPT !.done = d]
    <3>1. At(p, "rename").done = job[p].done
      BY <1>0 DEF At, Jobs
    <3> QED BY <2>1, <2>3, <3>1
  <2>5. j \in Jobs /\ j.at = "rename" /\ j.claim = c /\ j.done = d /\ j.how = job[p].how
    <3> HIDE DEF j
    <3> QED BY <1>0, <2>4 DEF Jobs, Places, At
  <2>6. Active(c)
    BY <1>1, MineIs
  <2> HIDE DEF k, j
  <2>7. /\ k \in ClaimViews /\ k.recorded = d
        /\ k.state = i.state /\ k.lapsed = i.lapsed /\ k.authorized = i.authorized
        /\ k.unsettled = i.unsettled /\ k.checkpoint = i.checkpoint /\ k.receipt = i.receipt
        /\ k.proposal = i.proposal /\ k.pending = i.pending
        /\ k.started = i.started /\ k.complete = i.complete
    BY <1>0, <2>4 DEF ClaimViews
  <2>8. ClaimFits(k, tree[c])
    BY <1>0, <2>1, <2>7 DEF ClaimFits
  <2>9. d <= Files /\ tree[c].files = d
    BY <1>0, <2>1, <2>3, ClaimAssumption DEF Jobs
  <2>10. JobFits(j, k, tree[c])
    BY <1>0, <2>1, <2>5, <2>7, <2>9 DEF JobFits, Reported, Applying
  <2>11. \A q \in Procs \ {p} :
          job[q].at # "idle" /\ job[q].claim = c =>
             /\ JobFits(job[q], i, tree[c]) /\ ~Applying(job[q])
             /\ Reported(j) => ~Reported(job[q])
    BY <1>0, <2>5, OthersFit DEF Reported, Applying
  <2>12. \A q \in Procs \ {p} :
          job[q].at # "idle" /\ job[q].claim = c => JobFits(job[q], k, tree[c])
    BY <2>7, <2>11 DEF JobFits
  <2>13. Fits(p, c, k, tree[c], j)
    BY <2>5, <2>8, <2>10, <2>11, <2>12 DEF Fits
  <2>14. Advances(p, c, k, tree[c], j)
    BY <1>0, <2>1, <2>5, <2>7 DEF Advances, SamePatch, Applying
  <2> QED BY <2>2, <2>5, <2>6, <2>7, <2>13, <2>14, PatchKeeps
<1>2. CASE ~Patching(p)
  BY <1>0, <1>2, FailKeeps DEF RecordFile
<1> QED BY <1>1, <1>2

LEMMA ApplyCompletedKeeps == ASSUME IInv, NEW p \in Procs, ApplyCompleted(p) PROVE Goes
<1> DEFINE c == job[p].claim
           i == Mine(p)
           k == [i EXCEPT !.pending = FALSE, !.complete = TRUE]
           j == IF job[p].how = "writer" THEN At(p, "review") ELSE NoJob
<1>0. /\ job[p].at = "rename" /\ job[p].done = Files
      /\ job[p] \in Jobs /\ c \in Claims /\ i = claim[c] /\ i \in ClaimViews /\ tree[c] \in Trees
      /\ ClaimFits(i, tree[c]) /\ JobFits(job[p], i, tree[c])
  BY MineIs DEF ApplyCompleted, IInv
<1>1. CASE Patching(p)
  <2>1. i.started /\ ~i.complete /\ i.pending /\ i.recorded = job[p].done /\ tree[c].files = Files
    BY <1>0 DEF JobFits, Applying, ClaimFits
  <2>2. Appends(p, TRUE, k, j) /\ tree' = tree
    BY <1>0, <1>1, <2>1 DEF ApplyCompleted, SameTree
  <2>3. /\ j \in Jobs /\ j.at \in {"review", "idle"}
        /\ j.at = "review" => j.claim = c /\ j.how = "writer" /\ job[p].how = "writer"
    BY <1>0, SomeClaim DEF Jobs, Places, At
  <2>4. Active(c)
    BY <1>1, MineIs
  <2>5. /\ k \in ClaimViews /\ k.pending = FALSE /\ k.complete = TRUE
        /\ k.state = i.state /\ k.lapsed = i.lapsed /\ k.authorized = i.authorized
        /\ k.unsettled = i.unsettled /\ k.checkpoint = i.checkpoint /\ k.receipt = i.receipt
        /\ k.proposal = i.proposal /\ k.started = i.started /\ k.recorded = i.recorded
    BY <1>0 DEF ClaimViews
  <2> HIDE DEF k, j
  <2>6. ClaimFits(k, tree[c])
    BY <1>0, <2>1, <2>5 DEF ClaimFits
  <2>7. j.at # "idle" => JobFits(j, k, tree[c])
    BY <1>0, <2>3, <2>5 DEF JobFits, Reported, Applying
  <2>8. \A q \in Procs \ {p} :
          job[q].at # "idle" /\ job[q].claim = c =>
             /\ JobFits(job[q], i, tree[c]) /\ ~Applying(job[q])
             /\ Reported(j) => ~Reported(job[q])
    BY <1>0, <2>3, OthersFit DEF Reported, Applying
  <2>9. \A q \in Procs \ {p} :
          job[q].at # "idle" /\ job[q].claim = c => JobFits(job[q], k, tree[c])
    BY <2>5, <2>8 DEF JobFits
  <2>10. Fits(p, c, k, tree[c], j)
    BY <2>3, <2>6, <2>7, <2>8, <2>9 DEF Fits
  <2>11. Advances(p, c, k, tree[c], j)
    BY <1>0, <2>1, <2>3, <2>5 DEF Advances, SamePatch, Begins, Finishes, Applying
  <2> QED BY <2>2, <2>3, <2>4, <2>5, <2>10, <2>11, PatchKeeps
<1>2. CASE ~Patching(p)
  BY <1>0, <1>2, FailKeeps DEF ApplyCompleted
<1> QED BY <1>1, <1>2

LEMMA SettledIs ==
    ASSUME NEW k \in ClaimViews
    PROVE  /\ Settled(k) \in ClaimViews /\ Settled(k).checkpoint = TRUE
           /\ Settled(k).unsettled = FALSE /\ Settled(k).authorized = FALSE
           /\ Settled(k).state = k.state /\ Settled(k).lapsed = k.lapsed
           /\ Settled(k).receipt = k.receipt /\ Settled(k).proposal = k.proposal
           /\ Settled(k).pending = k.pending /\ Settled(k).started = k.started
           /\ Settled(k).recorded = k.recorded /\ Settled(k).complete = k.complete
BY DEF Settled, ClaimViews

LEMMA CheckpointKeeps == ASSUME IInv, NEW p \in Procs, Checkpoint(p) PROVE Goes
<1> DEFINE c == job[p].claim
           i == Mine(p)
           k == Settled(i)
           j == At(p, "release")
<1>0. /\ job[p].at = "review"
      /\ job[p] \in Jobs /\ c \in Claims /\ i = claim[c] /\ i \in ClaimViews
      /\ ClaimFits(i, tree[c]) /\ JobFits(job[p], i, tree[c])
  BY MineIs DEF Checkpoint
<1>1. CASE tree[c].stray # "outside" /\ Holds(p) /\ i.receipt # "none"
  <2>1. Appends(p, TRUE, k, j) /\ tree' = tree /\ Active(c)
    BY <1>0, <1>1, MineIs DEF Checkpoint, SameTree
  <2>2. j \in Jobs /\ j.at = "release" /\ j.claim = c /\ j.done = job[p].done /\ j.how = job[p].how
    BY <1>0 DEF Jobs, Places, At
  <2>3. /\ k \in ClaimViews /\ k.checkpoint = TRUE
        /\ k.unsettled = FALSE /\ k.authorized = FALSE
        /\ k.state = i.state /\ k.lapsed = i.lapsed
        /\ k.receipt = i.receipt /\ k.proposal = i.proposal
        /\ k.pending = i.pending /\ k.started = i.started
        /\ k.recorded = i.recorded /\ k.complete = i.complete
    BY <1>0, SettledIs
  <2> HIDE DEF k, j
  <2>4. ClaimFits(k, tree[c])
    BY <1>0, <2>1, <2>3 DEF ClaimFits, JobFits, Active
  <2>5. Keeps(c, k, tree[c])
    BY <1>0, <2>3 DEF Keeps
  <2>6. GoesOn(p, c, k, tree[c], j)
    BY <1>0, <2>2, <2>3 DEF GoesOn, JobFits, Reported, Applying
  <2> QED BY <2>1, <2>2, <2>3, <2>4, <2>5, <2>6, AppendKeeps
<1>2. CASE ~(tree[c].stray # "outside" /\ Holds(p) /\ i.receipt # "none")
  BY <1>0, <1>2, FailKeeps DEF Checkpoint
<1> QED BY <1>1, <1>2

LEMMA ReleaseKeeps == ASSUME IInv, NEW p \in Procs, Release(p) PROVE Goes
<1> DEFINE c == job[p].claim
           i == Mine(p)
           k == [i EXCEPT !.state = "released"]
<1>0. /\ job[p].at = "release"
      /\ c \in Claims /\ i = claim[c] /\ i \in ClaimViews /\ ClaimFits(i, tree[c])
  BY MineIs DEF Release
<1>1. CASE Holds(p)
  <2>1. Appends(p, TRUE, k, NoJob) /\ tree' = tree
    BY <1>0, <1>1 DEF Release, SameTree
  <2>2. /\ k \in ClaimViews /\ k.state = "released" /\ k.checkpoint = i.checkpoint
        /\ k.unsettled = i.unsettled /\ k.authorized = i.authorized
        /\ k.receipt = i.receipt /\ k.proposal = i.proposal
        /\ k.pending = i.pending /\ k.started = i.started
        /\ k.recorded = i.recorded /\ k.complete = i.complete
    BY <1>0 DEF ClaimViews
  <2> HIDE DEF k
  <2>3. ClaimFits(k, tree[c]) /\ Keeps(c, k, tree[c]) /\ GoesOn(p, c, k, tree[c], NoJob)
    BY <1>0, <2>2, SomeClaim DEF ClaimFits, Keeps, GoesOn
  <2> QED BY <2>1, <2>2, <2>3, SomeClaim, AppendKeeps
<1>2. CASE ~Holds(p)
  BY <1>0, <1>2, FailKeeps DEF Release
<1> QED BY <1>1, <1>2

LEMMA ReconcileReadKeeps ==
    ASSUME IInv, NEW p \in Procs, NEW c \in Claims, ReconcileRead(p, c) PROVE Goes
<1> DEFINE j == [NoJob EXCEPT !.at = "reconcile", !.how = "reconciliation",
                              !.claim = c, !.token = claim[c].token, !.fresh = TRUE]
<1>1. claim[c] \in ClaimViews
  BY DEF IInv, TypeOK
<1>2. j \in Jobs /\ j.at = "reconcile" /\ j.how = "reconciliation" /\ j.claim = c /\ j.done = 0
  BY <1>1, SomeClaim DEF Jobs, Places, ClaimViews
<1>3. job' = [job EXCEPT ![p] = j] /\ UNCHANGED <<readable, claim, tree>> /\ claim[c].state # "free"
  BY DEF ReconcileRead, Quiet, Active
<1>5. job[p].at = "idle"
  BY SomeClaim DEF ReconcileRead
<1>4. GoesOn(p, c, claim[c], tree[c], j)
  BY <1>2, <1>3 DEF GoesOn, JobFits, Reported, Applying
<1> QED BY <1>2, <1>3, <1>4, <1>5, QuietKeeps

LEMMA ReconcileInspectKeeps ==
    ASSUME IInv, NEW p \in Procs, ReconcileInspect(p) PROVE Goes
<1> DEFINE c == job[p].claim
           j == [job[p] EXCEPT !.at = "observed", !.seen = tree[c]]
<1>0. /\ job[p].at = "reconcile" /\ TypeOK /\ tree[c] \in Trees
      /\ job[p] \in Jobs /\ c \in Claims /\ Mine(p) = claim[c] /\ JobFits(job[p], Mine(p), tree[c])
  BY MineIs DEF ReconcileInspect, IInv
<1>1. job' = [job EXCEPT ![p] = j] /\ UNCHANGED <<readable, claim, tree>>
  BY <1>0 DEF ReconcileInspect, Quiet, TypeOK
<1>2. j \in Jobs /\ j.at = "observed" /\ j.claim = c /\ j.done = job[p].done
  BY <1>0 DEF Jobs, Places
<1>3. GoesOn(p, c, claim[c], tree[c], j)
  BY <1>0, <1>2 DEF GoesOn, JobFits, Reported, Applying
<1> HIDE DEF j
<1> QED BY <1>0, <1>1, <1>2, <1>3, QuietKeeps

\* Whatever a reconciliation makes of what it has seen, the patch stays as it is.
LEMMA ReconciledIs ==
    ASSUME NEW i \in ClaimViews, NEW t \in Trees, NEW u, ClaimFits(i, u), i.state # "free"
    PROVE  LET k == Reconciled(i, t) IN
           /\ k \in ClaimViews /\ ClaimFits(k, u) /\ k.state # "free"
           /\ k.state = "active" => i.state = "active" /\ k.lapsed = i.lapsed
           /\ i.checkpoint => k.checkpoint
           /\ k.receipt = i.receipt /\ k.proposal = i.proposal
           /\ k.pending = i.pending /\ k.started = i.started
           /\ k.recorded = i.recorded /\ k.complete = i.complete
<1> DEFINE k == Reconciled(i, t)
<1>1. CASE k = Doubtful(i)
  <2> DEFINE d == Doubtful(i)
  <2>1. /\ d \in ClaimViews /\ d.authorized = FALSE /\ d.checkpoint = i.checkpoint
        /\ d.state = i.state /\ d.lapsed = i.lapsed
        /\ d.receipt = i.receipt /\ d.proposal = i.proposal
        /\ d.pending = i.pending /\ d.started = i.started
        /\ d.recorded = i.recorded /\ d.complete = i.complete
    BY DoubtfulIs
  <2>2. k = d
    BY <1>1
  <2> HIDE DEF d, k
  <2>3. ClaimFits(d, u)
    BY <2>1 DEF ClaimFits
  <2> QED BY <2>1, <2>2, <2>3 DEF k
<1>2. CASE i.receipt = "none" /\ k = [i EXCEPT !.unsettled = FALSE, !.authorized = TRUE]
  <2>1. /\ k \in ClaimViews /\ k.unsettled = FALSE /\ k.authorized = TRUE
        /\ k.state = i.state /\ k.lapsed = i.lapsed /\ k.checkpoint = i.checkpoint
        /\ k.receipt = i.receipt /\ k.proposal = i.proposal
        /\ k.pending = i.pending /\ k.started = i.started
        /\ k.recorded = i.recorded /\ k.complete = i.complete
    BY <1>2 DEF ClaimViews
  <2> HIDE DEF k
  <2>2. ClaimFits(k, u)
    BY <1>2, <2>1 DEF ClaimFits
  <2> QED BY <2>1, <2>2 DEF k
<1>3. CASE /\ i.receipt # "none" /\ ~Unproven(i, t)
           /\ k = [Settled(i) EXCEPT !.state = "released"]
  <2>1. i.complete
    BY <1>3 DEF Unproven
  <2>2. /\ k \in ClaimViews /\ k.checkpoint = TRUE
        /\ k.unsettled = FALSE /\ k.authorized = FALSE /\ k.state = "released"
        /\ k.receipt = i.receipt /\ k.proposal = i.proposal
        /\ k.pending = i.pending /\ k.started = i.started
        /\ k.recorded = i.recorded /\ k.complete = i.complete
    <3> DEFINE s == Settled(i)
    <3>1. /\ s \in ClaimViews /\ s.checkpoint = TRUE
          /\ s.unsettled = FALSE /\ s.authorized = FALSE
          /\ s.receipt = i.receipt /\ s.proposal = i.proposal
          /\ s.pending = i.pending /\ s.started = i.started
          /\ s.recorded = i.recorded /\ s.complete = i.complete
      BY SettledIs
    <3>2. k = [s EXCEPT !.state = "released"]
      BY <1>3
    <3> HIDE DEF s, k
    <3> QED BY <3>1, <3>2 DEF ClaimViews
  <2> HIDE DEF k
  <2>3. ClaimFits(k, u)
    BY <2>1, <2>2 DEF ClaimFits
  <2> QED BY <2>2, <2>3 DEF k
<1> QED BY <1>1, <1>2, <1>3 DEF Reconciled

LEMMA ReconcileAppendKeeps ==
    ASSUME IInv, NEW p \in Procs, ReconcileAppend(p) PROVE Goes
<1> DEFINE c == job[p].claim
           i == Mine(p)
           k == Reconciled(i, job[p].seen)
<1>0. /\ job[p].at = "observed" /\ job[p].seen \in Trees
      /\ c \in Claims /\ i = claim[c] /\ i \in ClaimViews /\ ClaimFits(i, tree[c])
      /\ i.state # "free"
  BY MineIs DEF ReconcileAppend, JobFits, Jobs
<1>1. CASE job[p].fresh
  <2>1. Appends(p, TRUE, k, NoJob) /\ tree' = tree
    BY <1>0, <1>1 DEF ReconcileAppend, SameTree
  <2>2. /\ k \in ClaimViews /\ ClaimFits(k, tree[c]) /\ k.state # "free"
        /\ k.state = "active" => i.state = "active" /\ k.lapsed = i.lapsed
        /\ i.checkpoint => k.checkpoint
        /\ k.receipt = i.receipt /\ k.proposal = i.proposal
        /\ k.pending = i.pending /\ k.started = i.started
        /\ k.recorded = i.recorded /\ k.complete = i.complete
    BY <1>0, ReconciledIs
  <2> HIDE DEF k
  <2>3. Keeps(c, k, tree[c]) /\ GoesOn(p, c, k, tree[c], NoJob)
    BY <1>0, <2>2, SomeClaim DEF Keeps, GoesOn
  <2>4. k.state = "active" /\ ~k.lapsed => Active(c)
    BY <1>0, <2>2 DEF Active
  <2> QED BY <2>1, <2>2, <2>3, <2>4, SomeClaim, AppendKeeps
<1>2. CASE ~job[p].fresh
  BY <1>0, <1>2, FailKeeps DEF ReconcileAppend
<1> QED BY <1>1, <1>2

LEMMA RenewKeeps ==
    ASSUME IInv, NEW p \in Procs, NEW c \in Claims, Renew(p, c) \/ ProposeCorrection(p, c)
    PROVE  Goes
<1>0. /\ TypeOK /\ claim[c] \in ClaimViews /\ tree[c] \in Trees
      /\ ClaimFits(claim[c], tree[c]) /\ Then(p, NoJob) /\ readable' = TRUE /\ tree' = tree
  BY DEF IInv, TypeOK, ClaimsFit, Renew, ProposeCorrection
<1>1. PICK n \in Nat : claim' = [claim EXCEPT ![c] = [claim[c] EXCEPT !.token = n]]
  <2>1. claim[c].token \in Nat
    BY <1>0 DEF ClaimViews
  <2>2. CASE Renew(p, c)
    <3>1. PICK n \in Nat : n = claim[c].token + 1
      BY <2>1
    <3>2. claim' = [claim EXCEPT ![c] = [claim[c] EXCEPT !.token = n]]
      BY <1>0, <2>2, <3>1 DEF Renew, TypeOK
    <3> QED BY <3>2
  <2>3. CASE ProposeCorrection(p, c)
    <3>1. claim[c] = [claim[c] EXCEPT !.token = claim[c].token]
      BY <1>0 DEF ClaimViews
    <3>2. claim' = [claim EXCEPT ![c] = claim[c]]
      BY <1>0, <2>3 DEF ProposeCorrection, TypeOK
    <3> QED BY <2>1, <3>1, <3>2
  <2> QED BY <2>2, <2>3
<1> DEFINE k == [claim[c] EXCEPT !.token = n]
<1>2. /\ k \in ClaimViews /\ k.checkpoint = claim[c].checkpoint
      /\ k.unsettled = claim[c].unsettled /\ k.authorized = claim[c].authorized
      /\ k.state = claim[c].state /\ k.lapsed = claim[c].lapsed
      /\ k.receipt = claim[c].receipt /\ k.proposal = claim[c].proposal
      /\ k.pending = claim[c].pending /\ k.started = claim[c].started
      /\ k.recorded = claim[c].recorded /\ k.complete = claim[c].complete
  BY <1>0 DEF ClaimViews
<1>3. tree' = [tree EXCEPT ![c] = tree[c]]
  BY <1>0, SameTreeIs
<1>4. claim' = [claim EXCEPT ![c] = k]
  BY <1>1
<1> HIDE DEF k
<1>5. Steps(p, c, k, tree[c], NoJob) /\ Told(p)
  BY <1>0, <1>2, <1>3, <1>4, SomeClaim, ThenSteps
<1>6. ClaimFits(k, tree[c]) /\ Keeps(c, k, tree[c]) /\ GoesOn(p, c, k, tree[c], NoJob) /\ NoNews(c, k)
  BY <1>0, <1>2, SomeClaim DEF ClaimFits, Keeps, GoesOn, NoNews
<1>7. Fits(p, c, k, tree[c], NoJob)
  BY <1>0, <1>2, <1>6, SomeClaim, CalmFits
<1>8. job[p].at = "idle"
  BY SomeClaim DEF Renew, ProposeCorrection
<1>9. Advances(p, c, k, tree[c], NoJob)
  BY <1>6, <1>8, CalmAdvances
<1> QED BY <1>0, <1>2, <1>5, <1>6, <1>7, <1>9, SomeClaim, StepGoes

\* A step that leaves the jobs and what PatchOnce knows of the claims as they are.
LEMMA PhaseStays ==
    ASSUME job' = job, tree' = tree,
           \A c \in Claims : /\ claim'[c].started = claim[c].started
                             /\ claim'[c].complete = claim[c].complete
                             /\ claim'[c].checkpoint = claim[c].checkpoint
    PROVE  UNCHANGED Patch!vars
<1>1. \A c \in Claims : Phase(c)' = Phase(c)
  BY DEF Phase, Applies
<1>2. Phases' = Phases /\ Written' = Written /\ Accepted' = Accepted
  BY <1>1 DEF Phases, Written, Accepted
<1> QED BY <1>2 DEF Patch!vars, Phases, Written, Accepted

LEMMA LapseKeeps == ASSUME IInv, NEW c \in Claims, Lapse(c) PROVE Goes
<1> USE DEF IInv
<1> DEFINE k == [claim[c] EXCEPT !.lapsed = TRUE]
<1>1. /\ claim' = [claim EXCEPT ![c] = k] /\ claim[c] \in ClaimViews
      /\ UNCHANGED <<readable, tree, job>>
  BY DEF Lapse, TypeOK
<1>2. /\ k \in ClaimViews /\ k.lapsed = TRUE /\ k.checkpoint = claim[c].checkpoint
      /\ k.unsettled = claim[c].unsettled /\ k.authorized = claim[c].authorized
      /\ k.state = claim[c].state
      /\ k.receipt = claim[c].receipt /\ k.proposal = claim[c].proposal
      /\ k.pending = claim[c].pending /\ k.started = claim[c].started
      /\ k.recorded = claim[c].recorded /\ k.complete = claim[c].complete
  BY <1>1 DEF ClaimViews
<1> HIDE DEF k
<1>3. /\ claim' \in [Claims -> ClaimViews] /\ claim'[c] = k
      /\ \A d \in Claims \ {c} : claim'[d] = claim[d]
  BY <1>1, <1>2 DEF TypeOK
<1>4. TypeOK'
  BY <1>1, <1>3 DEF TypeOK
<1>5. \A d \in Claims : (Active(d)' => Active(d)) /\ claim'[d].state = claim[d].state
  BY <1>2, <1>3 DEF Active
<1>6. NoOverlap'
  BY <1>5 DEF NoOverlap
<1>7. ClaimsFit'
  BY <1>1, <1>2, <1>3 DEF ClaimsFit, ClaimFits
<1>8. JobsFit'
  <2> SUFFICES ASSUME NEW p \in Procs, job[p].at # "idle"
               PROVE  JobFits(job[p], claim'[job[p].claim], tree[job[p].claim])
    BY <1>1 DEF JobsFit, Mine
  <2>1. JobFits(job[p], claim[job[p].claim], tree[job[p].claim]) /\ job[p].claim \in Claims
    BY DEF JobsFit, Mine, TypeOK, Jobs
  <2> QED BY <1>2, <1>3, <2>1 DEF JobFits
<1>9. OneReporter' /\ OneApplier'
  BY <1>1 DEF OneReporter, OneApplier, Reported, Applying
<1>10. FreshAcquire'
  <2>1. \A d \in Claims : Conflicts(d) = {} => Conflicts(d)' = {}
    BY <1>5 DEF Conflicts
  <2> QED BY <1>1, <1>5, <2>1 DEF FreshAcquire
<1>11. IInv'
  BY <1>4, <1>6, <1>7, <1>8, <1>9, <1>10
<1>12. UNCHANGED Patch!vars
  BY <1>1, <1>2, <1>3, PhaseStays
<1> QED BY <1>11, <1>12 DEF Goes, PatchStep

LEMMA InitIInv == Init => IInv
<1> SUFFICES ASSUME Init PROVE IInv
  OBVIOUS
<1>1. /\ readable = TRUE /\ \A c \in Claims : claim[c] = Unclaimed /\ tree[c] = Clean
      /\ \A p \in Procs : job[p] = NoJob
  BY DEF Init
<1>2. Unclaimed \in ClaimViews /\ Clean \in Trees
  BY DEF Unclaimed, ClaimViews, Clean, Trees
<1>3. TypeOK
  BY <1>2, SomeClaim DEF Init, TypeOK
<1>4. ClaimsFit
  BY <1>1 DEF ClaimsFit, ClaimFits, Unclaimed, Clean
<1>5. NoOverlap
  BY <1>1 DEF NoOverlap, Active, Unclaimed
<1>6. JobsFit /\ OneReporter /\ OneApplier /\ FreshAcquire
  BY <1>1, SomeClaim DEF JobsFit, OneReporter, OneApplier, FreshAcquire, Reported, Applying
<1> QED BY <1>3, <1>4, <1>5, <1>6 DEF IInv

LEMMA NextGoes == IInv /\ [Next]_vars => Goes
<1> SUFFICES ASSUME IInv, [Next]_vars PROVE Goes
  OBVIOUS
<1>1. ASSUME NEW p \in Procs, NEW c \in Claims,
             \/ AcquireRead(p, c) \/ Recover(p, c) \/ ReconcileRead(p, c)
             \/ Renew(p, c) \/ ProposeCorrection(p, c)
      PROVE  Goes
  BY <1>1, AcquireReadKeeps, RecoverKeeps, ReconcileReadKeeps, RenewKeeps
<1>2. ASSUME NEW p \in Procs,
             \/ AcquireAppend(p) \/ BeginDispatch(p)
             \/ \E where \in {"inside", "outside"} : WriterStrays(p, where)
             \/ \E report \in {"patch", "empty"} : WriterReturns(p, report)
      PROVE  Goes
  BY <1>2, AcquireAppendKeeps, BeginDispatchKeeps, WriterStraysKeeps, WriterReturnsKeeps
<1>3. ASSUME NEW p \in Procs,
             Prepare(p) \/ ApplyStart(p) \/ Rename(p) \/ RecordFile(p) \/ ApplyCompleted(p)
      PROVE  Goes
  BY <1>3, PrepareKeeps, ApplyStartKeeps, RenameKeeps, RecordFileKeeps, ApplyCompletedKeeps
<1>4. ASSUME NEW p \in Procs, Checkpoint(p) \/ Release(p) \/ ReconcileInspect(p) \/ ReconcileAppend(p)
      PROVE  Goes
  BY <1>4, CheckpointKeeps, ReleaseKeeps, ReconcileInspectKeeps, ReconcileAppendKeeps
<1>5. ASSUME NEW p \in Procs, Retain(p) \/ Fails(p) \/ Crash(p) PROVE Goes
  BY <1>5, LeavesKeeps, UncertainKeeps DEF Retain, Quiet, Fails, Crash
<1>6. ASSUME NEW c \in Claims, Lapse(c) PROVE Goes
  BY <1>6, LapseKeeps
<1>7. CASE UNCHANGED vars
  <2>1. /\ readable' = readable /\ claim' = claim /\ tree' = tree /\ job' = job
    BY <1>7 DEF vars
  <2>2. \A d \in Claims : (Active(d)' <=> Active(d)) /\ Conflicts(d)' = Conflicts(d)
    BY <2>1 DEF Active, Conflicts
  <2>3. IInv'
    BY <2>1, <2>2 DEF IInv, TypeOK, NoOverlap, ClaimsFit, JobsFit, Mine, OneReporter,
                      OneApplier, FreshAcquire
  <2>4. UNCHANGED Patch!vars
    BY <2>1, PhaseStays
  <2> QED BY <2>3, <2>4 DEF Goes, PatchStep
<1> QED BY <1>1, <1>2, <1>3, <1>4, <1>5, <1>6, <1>7 DEF Next

LEMMA NextIInv == IInv /\ [Next]_vars => IInv'
BY NextGoes DEF Goes

\* The inductive invariant of the claims of a project, for any processes, claims and scopes.
THEOREM ClaimsInvariance == Spec => []IInv
BY InitIInv, NextIInv, PTL DEF Spec

-----------------------------------------------------------------------------
\* Of two paths that lead to one file one is a prefix of the other.
LEMMA PrefixesCompare ==
    ASSUME NEW s \in Seq(STRING), NEW t \in Seq(STRING), NEW u \in Seq(STRING),
           IsPrefix(s, u), IsPrefix(t, u)
    PROVE  IsPrefix(s, t) \/ IsPrefix(t, s)
<1>1. ASSUME NEW a \in Seq(STRING), NEW b \in Seq(STRING), IsPrefix(a, b)
      PROVE  Len(a) <= Len(b) /\ \A n \in 1..Len(a) : a[n] = b[n]
  <2>1. Len(a) \in Nat /\ Len(b) \in Nat /\ Len(a) <= Len(b)
    BY <1>1, LenProperties DEF IsPrefix
  <2>2. SubSeq(a, 1, Len(a)) = SubSeq(b, 1, Len(a))
    BY <1>1 DEF IsPrefix
  <2>3. ASSUME NEW n \in 1..Len(a) PROVE a[n] = b[n]
    <3>1. SubSeq(a, 1, Len(a))[n] = a[n] /\ SubSeq(b, 1, Len(a))[n] = b[n]
      BY <2>1, <2>3
    <3> QED BY <2>2, <3>1
  <2> QED BY <2>1, <2>3
<1>2. ASSUME NEW a \in Seq(STRING), NEW b \in Seq(STRING), Len(a) <= Len(b),
             \A n \in 1..Len(a) : a[n] = b[n]
      PROVE  IsPrefix(a, b)
  <2>1. Len(a) \in Nat /\ Len(b) \in Nat
    BY LenProperties
  <2>2. SubSeq(a, 1, Len(a)) = [n \in 1..Len(a) |-> a[n]]
    BY <2>1
  <2>3. SubSeq(b, 1, Len(a)) = [n \in 1..Len(a) |-> b[n]]
    BY <1>2, <2>1
  <2>4. [n \in 1..Len(a) |-> a[n]] = [n \in 1..Len(a) |-> b[n]]
    BY <1>2
  <2> QED BY <1>2, <2>2, <2>3, <2>4 DEF IsPrefix
<1>3. Len(s) \in Nat /\ Len(t) \in Nat /\ Len(u) \in Nat
  BY LenProperties
<1>4. /\ Len(s) <= Len(u) /\ \A n \in 1..Len(s) : s[n] = u[n]
      /\ Len(t) <= Len(u) /\ \A n \in 1..Len(t) : t[n] = u[n]
  BY <1>1
<1>5. CASE Len(s) <= Len(t)
  <2>1. \A n \in 1..Len(s) : s[n] = t[n]
    BY <1>3, <1>4, <1>5
  <2> QED BY <1>2, <1>5, <2>1
<1>6. CASE Len(t) <= Len(s)
  <2>1. \A n \in 1..Len(t) : t[n] = s[n]
    BY <1>3, <1>4, <1>6
  <2> QED BY <1>2, <1>6, <2>1
<1> QED BY <1>3, <1>5, <1>6

\* A scope that covers a file has a path that leads to it.
LEMMA CoversPrefix ==
    ASSUME NEW c \in Claims, NEW s \in Scopes[c], NEW file \in Tree, Covers(s, file)
    PROVE  s.path \in Seq(STRING) /\ file \in Seq(STRING) /\ IsPrefix(s.path, file)
<1>1. s.path \in Seq(STRING) /\ file \in Seq(STRING)
  BY ClaimAssumption
<1>2. IsPrefix(file, file)
  BY <1>1, LenProperties DEF IsPrefix
<1> QED BY <1>1, <1>2 DEF Covers

\* No file is in two active claims and the stream stays readable, for any number of
\* processes and any scopes, however they lie in each other.
THEOREM ClaimsAreDisjoint == Spec => []ClaimsDisjoint
<1>1. IInv => ClaimsDisjoint
  <2> SUFFICES ASSUME IInv PROVE ClaimsDisjoint
    OBVIOUS
  <2>1. StreamReadable
    BY DEF IInv, TypeOK, StreamReadable
  <2>2. ASSUME NEW c \in Claims, NEW d \in Claims, c # d, Active(c), Active(d), NEW file \in Tree,
               NEW s \in Scopes[c], NEW t \in Scopes[d], Covers(s, file), Covers(t, file)
        PROVE  FALSE
    <3>1. IsPrefix(s.path, t.path) \/ IsPrefix(t.path, s.path)
      BY <2>2, CoversPrefix, PrefixesCompare
    <3>2. Overlap(c, d)
      BY <3>1 DEF Overlap
    <3> QED BY <2>2, <3>2 DEF IInv, NoOverlap
  <2> QED BY <2>1, <2>2 DEF ClaimsDisjoint
<1> QED BY <1>1, ClaimsInvariance, PTL

\* A worktree that an applier has written into is never given to another dispatch, for
\* any number of writers, recoveries and reconciliations and after any failures.
THEOREM EffectsAreNotDispatchedOver == Spec => []NoDispatchOverEffect
<1>1. IInv => NoDispatchOverEffect
  BY DEF IInv, ClaimsFit, ClaimFits, NoDispatchOverEffect
<1> QED BY <1>1, ClaimsInvariance, PTL

\* However writers, recoveries and reconciliations race, the claims implement PatchOnce: a
\* patch is written at most once, is not resumed when cut short, and is accepted whole.
THEOREM ClaimsImplementPatchOnce == Spec => ImplementsPatchOnce
<1>1. Init => Patch!Init
  <2> SUFFICES ASSUME Init PROVE Patch!Init
    OBVIOUS
  <2>1. \A c \in Claims : claim[c] = Unclaimed /\ tree[c] = Clean
    BY DEF Init
  <2>2. \A c \in Claims : Phase(c) = "none" /\ tree[c].files = 0 /\ ~claim[c].checkpoint
    BY <2>1 DEF Phase, Unclaimed, Clean
  <2> QED BY <2>2 DEF Patch!Init
<1>2. IInv /\ [Next]_vars => [Patch!Next]_Patch!vars
  BY NextGoes DEF Goes, PatchStep
<1> QED BY <1>1, <1>2, ClaimsInvariance, PTL DEF Spec, ImplementsPatchOnce, Patch!Spec
=============================================================================
