------------------------------ MODULE MCRWLock ------------------------------
(* The lock with a handful of interchangeable threads. *)
EXTENDS RWLock, TLC

Symmetry == Permutations(Threads)
=============================================================================
