------------------------------ MODULE MemoryOps ------------------------------
(***************************************************************************)
(* mem.c: memcpy, memset, memmove and memcmp, byte by byte.  `mem` is a    *)
(* function from addresses; dest and src may overlap.                      *)
(***************************************************************************)
EXTENDS Integers, Sequences, SequencesExt

CONSTANT Bytes          \* 256 in the code: (uint8_t)c is c % Bytes

Up(n) == [k \in 1 .. n |-> k - 1]
Down(n) == [k \in 1 .. n |-> n - k]

Copy(mem, dest, src, order) ==
    FoldLeft(LAMBDA m, i : [m EXCEPT ![dest + i] = m[src + i]], mem, order)

memcpy(mem, dest, src, n) == Copy(mem, dest, src, Up(n))

memset(mem, s, c, n) == FoldLeft(LAMBDA m, i : [m EXCEPT ![s + i] = c % Bytes], mem, Up(n))

(* Mutant of memmove: the direction is taken the wrong way round. *)
MemmoveWrongWay(mem, dest, src, n) ==
    CASE src > dest -> Copy(mem, dest, src, Down(n))
      [] src < dest -> Copy(mem, dest, src, Up(n))
      [] OTHER -> mem

memmove(mem, dest, src, n) ==
    CASE src > dest -> Copy(mem, dest, src, Up(n))
      [] src < dest -> Copy(mem, dest, src, Down(n))
      [] OTHER -> mem

memcmp(mem, s1, s2, n) ==
    LET i == SelectInSeq(Up(n), LAMBDA k : mem[s1 + k] # mem[s2 + k]) - 1
    IN  IF i < 0 THEN 0 ELSE IF mem[s1 + i] < mem[s2 + i] THEN -1 ELSE 1

-----------------------------------------------------------------------------
(* What they should compute: the block at dest holds what the one at src   *)
(* held before, the block at s holds c, and the first difference decides.  *)

Moved(mem, dest, src, n) ==
    [a \in DOMAIN mem |-> IF a - dest \in 0 .. n - 1 THEN mem[src + (a - dest)] ELSE mem[a]]
Filled(mem, s, c, n) ==
    [a \in DOMAIN mem |-> IF a - s \in 0 .. n - 1 THEN c ELSE mem[a]]
Before(mem, s1, s2, n) ==
    \E i \in 0 .. n - 1 : /\ mem[s1 + i] < mem[s2 + i]
                         /\ \A j \in 0 .. i - 1 : mem[s1 + j] = mem[s2 + j]
Compared(mem, s1, s2, n) ==
    IF Before(mem, s1, s2, n) THEN -1 ELSE IF Before(mem, s2, s1, n) THEN 1 ELSE 0
=============================================================================
