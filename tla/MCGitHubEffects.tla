-------------------------- MODULE MCGitHubEffects ---------------------------
(***************************************************************************)
(* A push that makes a branch, and a pull request for it.                  *)
(***************************************************************************)
EXTENDS GitHubEffects

CONSTANTS c1, c2, push, pull, A

MCCommit == push :> A @@ pull :> A
MCOld == push :> Zero
MCNeedsPush == pull :> push
Symmetry == Permutations(Calls)
=============================================================================
