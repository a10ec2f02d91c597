------------------------ MODULE MCProjectingJournal ------------------------
(* ProjectingJournal for TLC: the processes are interchangeable.           *)
EXTENDS ProjectingJournal, TLC

ProcSymmetry == Permutations(Procs)
=============================================================================
