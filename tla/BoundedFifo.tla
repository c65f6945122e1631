---------------------------- MODULE BoundedFifo ----------------------------
(***************************************************************************)
(* What the kernel's circular queue promises its two users, without saying *)
(* how: values come out in the order they went in, each exactly once; at   *)
(* most Capacity of them wait; a value is turned away only when Capacity   *)
(* values are waiting.  KeyboardPath is shown to implement it.             *)
(***************************************************************************)
EXTENDS Naturals, Sequences

CONSTANTS
    Values,     \* what may be queued
    Capacity    \* how many values can wait at a time

VARIABLES
    chan,       \* the values waiting, oldest first
    delivered,  \* every value taken out so far, in order
    lost        \* how many values were turned away

fifoVars == <<chan, delivered, lost>>

FifoInit ==
    /\ chan = << >>
    /\ delivered = << >>
    /\ lost = 0

Put(v) ==
    /\ Len(chan) < Capacity
    /\ chan' = Append(chan, v)
    /\ UNCHANGED <<delivered, lost>>

Lose ==
    /\ Len(chan) = Capacity
    /\ lost' = lost + 1
    /\ UNCHANGED <<chan, delivered>>

Get ==
    /\ chan # << >>
    /\ delivered' = Append(delivered, Head(chan))
    /\ chan' = Tail(chan)
    /\ UNCHANGED lost

FifoNext ==
    \/ \E v \in Values : Put(v)
    \/ Lose
    \/ Get

FifoSpec == FifoInit /\ [][FifoNext]_fifoVars
=============================================================================
