---------------------------- MODULE MCKeyboardPath ----------------------------
(* KeyboardPath on small instances.  The queue must fill, overflow and wrap  *)
(* within MaxKeys presses.                                                   *)
EXTENDS KeyboardPath

CONSTANTS a, b

MCKeys == {a, b}
MCMapped == {a}
CleanLock == {0}
AnyLock == {0, 1}
=============================================================================
