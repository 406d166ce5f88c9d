------------------------------- MODULE MCInfo -------------------------------
(* Instances of Info.tla that TLC can explore. *)
EXTENDS Info, TLC

BlockSymmetry == Permutations(Addresses)
SiteSymmetry == BlockSymmetry \cup Permutations(SITES)
=============================================================================
