------------------------- MODULE IntegrationBranch -------------------------
(***************************************************************************)
(* What the integration of a repository promises: the integration branch   *)
(* grows by one new change at a time, nothing it holds is ever replaced,   *)
(* reordered or applied again, and a commit is recorded as integrated only *)
(* when it is part of the branch.  RepositoryIntegration.tla implements    *)
(* this specification, whatever leases, processes and calls are lost.      *)
(***************************************************************************)
EXTENDS Naturals, SequencesExt

CONSTANT Changes

VARIABLES branch,            \* the changes on the branch, oldest first
          integratedCommits  \* the commits the journal calls integrated

vars == <<branch, integratedCommits>>

Init == branch = <<>> /\ integratedCommits = {}

Land ==
    /\ \E c \in Changes : c \notin Range(branch) /\ branch' = Append(branch, c)
    /\ UNCHANGED integratedCommits

Record ==
    /\ \E commit \in Prefixes(branch) : integratedCommits' = integratedCommits \cup {commit}
    /\ UNCHANGED branch

Next == Land \/ Record

Spec == Init /\ [][Next]_vars
=============================================================================
