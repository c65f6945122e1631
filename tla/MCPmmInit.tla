------------------------------ MODULE MCPmmInit ------------------------------
(* PmmInit on every map of three entries of bounded length, the middle one  *)
(* usable or not, with or without a gap before the last.                    *)
EXTENDS PmmInit

MapOf(a, b, c, gap, mid) ==
    <<[base |-> 1, length |-> a, usable |-> TRUE],
      [base |-> 1 + a, length |-> b, usable |-> mid],
      [base |-> 1 + a + b + gap, length |-> c, usable |-> TRUE]>>

AllMaps == {MapOf(a, b, c, gap, mid) :
                a \in 1 .. 8, b \in 1 .. 3, c \in 1 .. 8, gap \in {0, 2}, mid \in BOOLEAN}

MapPages(m) == m[3].base + m[3].length - m[1].base

(* Maps whose page count does not fall just past a multiple of what a page  *)
(* of bitmap holds.  On the others num_pages_in_map / 8 rounds down to whole *)
(* pages and the last pages of the map have no bit.                         *)
CoveredMaps == {m \in AllMaps : MapPages(m) % (PAGE_SIZE * BYTE_BITS) \notin 1 .. BYTE_BITS - 1}
=============================================================================
