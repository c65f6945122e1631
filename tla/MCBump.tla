------------------------------- MODULE MCBump -------------------------------
(* Bump with pages of 4 bytes and a multi-page request that leaves one byte *)
(* of its last page.  Eight pages are enough for three calls, wherever      *)
(* kpalloc places them.                                                     *)
EXTENDS Bump

LittleLeft == {1, 3, 7}
=============================================================================
