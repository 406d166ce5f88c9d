----------------------------- MODULE MCRecMutex -----------------------------
(* The recursive mutex on a few threads. *)
EXTENDS RecMutex, TLC

Symmetry == Permutations(Threads)
=============================================================================
