------------------------------ MODULE PagePool ------------------------------
(***************************************************************************)
(* What the physical memory manager promises: it hands out runs of pages   *)
(* that nobody holds, and takes them back whole.  PageAllocator is shown   *)
(* to implement it.                                                        *)
(***************************************************************************)
EXTENDS Integers

CONSTANTS
    Usable,     \* the pages that may be handed out, a set of numbers
    MaxBlock    \* the longest run that can be asked for

VARIABLE blocks  \* blocks[s] = n > 0: the n pages from s on are handed out

PagesOf(s, n) == {q \in Usable : s <= q /\ q < s + n}

Held == UNION {PagesOf(s, blocks[s]) : s \in DOMAIN blocks}

PoolInit == \A s \in DOMAIN blocks : blocks[s] = 0

Grant(s, n) ==
    /\ s .. s + n - 1 \subseteq Usable \ Held
    /\ blocks' = [blocks EXCEPT ![s] = n]

Release(s) ==
    blocks' = [blocks EXCEPT ![s] = 0]

PoolNext ==
    \E s \in DOMAIN blocks : Release(s) \/ \E n \in 1 .. MaxBlock : Grant(s, n)

PoolSpec == PoolInit /\ [][PoolNext]_blocks
=============================================================================
