------------------------------- MODULE MCSlob -------------------------------
(* Slob on a map that both slob_inits leave room on, little enough for the  *)
(* heap to run full, on one with room for the first of them only, and on    *)
(* one with room for neither.                                               *)
EXTENDS Slob

TightMap == <<[base |-> 4, length |-> 10], [base |-> 16, length |-> 4]>>
TinyMap == <<[base |-> 4, length |-> 3]>>
RoomyMap == <<[base |-> 4, length |-> 22], [base |-> 32, length |-> 14]>>
AllMaps == {RoomyMap, TightMap, TinyMap}
OneMap == {RoomyMap}
SmallSizes == {1, 3, 4}
=============================================================================
