------------------------------- MODULE MCWal -------------------------------
(* Wal for TLC: which run of the program does what is open, so the runs are   *)
(* interchangeable.                                                           *)
EXTENDS Wal, TLC

Symmetry == Permutations(Procs)

=============================================================================
