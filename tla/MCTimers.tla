------------------------------- MODULE MCTimers -------------------------------
(* Timers with a second of two milliseconds, half of it for the calibration, *)
(* and of five HPET ticks and two thirds, so that both divisions lose time.  *)
(* IRQ 0 has an override to input 2; a count of 5 bits holds the second of a *)
(* quick calibration and wraps with that of a slow one.                      *)
EXTENDS Timers

MCSleeps == {1, 3}
MCFirmware == {[legacy |-> FALSE, route |-> 0], [legacy |-> FALSE, route |-> 2],
               [legacy |-> TRUE, route |-> 0]}
=============================================================================
