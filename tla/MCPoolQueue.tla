---------------------------- MODULE MCPoolQueue -----------------------------
(***************************************************************************)
(* A small instance of PoolQueue for TLC: interchangeable threads.         *)
(***************************************************************************)
EXTENDS PoolQueue, TLC

ThreadSymmetry == Permutations(Threads)
=============================================================================
