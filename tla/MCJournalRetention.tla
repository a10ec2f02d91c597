------------------------- MODULE MCJournalRetention -------------------------
(***************************************************************************)
(* Two processes archive, prune, back up and reconcile one journal that a  *)
(* reader pages through.                                                   *)
(***************************************************************************)
EXTENDS JournalRetention, TLC

Symmetry == Permutations(Procs)
=============================================================================
