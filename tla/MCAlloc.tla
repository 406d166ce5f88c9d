------------------------------ MODULE MCAlloc ------------------------------
(* The allocation manager on small heaps.  In the larger two the last page  *)
(* lies apart, so that memory from the system comes in stretches that       *)
(* border and in stretches that do not, in any order of addresses.          *)
EXTENDS Alloc

FourPagesOf8 == {8, 16, 24, 40}
EightPagesOf4 == {4, 8, 12, 16, 20, 24, 28, 36}
=============================================================================
