--------------------------- MODULE MCPageAllocator ---------------------------
(* PageAllocator on small maps.  Page 2 is a hole that boot left unusable,  *)
(* so runs are broken by the map as well as by other blocks; MaxPages is    *)
(* smaller than NumPages by the pages of that hole.                         *)
EXTENDS PageAllocator

SmallFree == (0 .. NumPages - 1) \ {2}
OneToThreePages == {3, 4, 5, 12}
KpallocSizes == {1, 2}
=============================================================================
