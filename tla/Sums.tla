-------------------------------- MODULE Sums --------------------------------
(***************************************************************************)
(* The sum of what a function has for the elements of a finite set: what   *)
(* the library keeps in its totals of sizes.                               *)
(***************************************************************************)
EXTENDS FiniteSetsExt

SumOf(f, S) == MapThenSumSet(LAMBDA x : f[x], S)
=============================================================================
