------------------------------- MODULE MCWal -------------------------------
(* Instances of Wal for TLC. *)
EXTENDS Wal, TLC

Symmetry == Permutations(Appenders) \cup Permutations(Records)
=============================================================================
