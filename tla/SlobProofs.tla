----------------------------- MODULE SlobProofs -----------------------------
(***************************************************************************)
(* Proofs about the Slob heap for every boot map, page and header size and *)
(* every sequence of mallocs and frees: each usable address has one owner, *)
(* and the headers of held blocks survive.                                 *)
(***************************************************************************)
EXTENDS Slob, Induction, FiniteSetTheorems

Regions == [base : Nat, length : Nat]

(* FirstFit finds a region that is long enough, and 0 only if there is     *)
(* none.                                                                   *)
LEMMA FirstFitFits ==
    ASSUME NEW seq \in Seq(Regions), NEW n \in Nat
    PROVE  LET i == FirstFit(seq, n)
           IN  i # 0 => i \in 1 .. Len(seq) /\ n <= seq[i].length
<1> DEFINE I == {i \in 1 .. Len(seq) : n <= seq[i].length}
<1>1. FirstFit(seq, n) = IF I # {} THEN Min(I) ELSE 0
  BY DEF FirstFit, SelectInSeq
<1>2. CASE I = {}
  BY <1>1, <1>2
<1>3. CASE I # {}
  <2>1. I \in SUBSET Nat
    OBVIOUS
  <2>2. \E x \in I : \A y \in I : x <= y
    BY <1>3, <2>1, LeastNat
  <2>3. Min(I) \in I
    BY <2>2 DEF Min
  <2> QED
    BY <1>1, <1>3, <2>3
<1> QED
  BY <1>2, <1>3

(* The regions of seq that hold address a, by their index.                 *)
At(seq, a) == {j \in 1 .. Len(seq) : Inside(a, seq[j])}

(* The blocks of a set that hold it.                                       *)
Held(blocks, a) == {c \in blocks : Inside(a, Block(c))}
Among(regions, a) == {c \in regions : Inside(a, c)}

(* Address a belongs to exactly one free region, held block, list node or  *)
(* carved page; to none.                                                   *)
Once(seq, blocks, nodes, pages, a) ==
    \/ /\ Held(blocks, a) = {} /\ Among(nodes, a) = {} /\ Among(pages, a) = {}
       /\ \E x : At(seq, a) = {x}
    \/ /\ At(seq, a) = {} /\ Among(nodes, a) = {} /\ Among(pages, a) = {}
       /\ \E x : Held(blocks, a) = {x}
    \/ /\ At(seq, a) = {} /\ Held(blocks, a) = {} /\ Among(pages, a) = {}
       /\ \E x : Among(nodes, a) = {x}
    \/ /\ At(seq, a) = {} /\ Held(blocks, a) = {} /\ Among(nodes, a) = {}
       /\ \E x : Among(pages, a) = {x}
Never(seq, blocks, nodes, pages, a) ==
    At(seq, a) = {} /\ Held(blocks, a) = {} /\ Among(nodes, a) = {} /\ Among(pages, a) = {}

(* Owned once if usable, and never otherwise: nothing reaches beyond the   *)
(* memory that kmem_init left.                                             *)
Owned(seq, blocks, nodes, pages, usable) ==
    \A a \in Nat : IF a \in usable THEN Once(seq, blocks, nodes, pages, a)
                                  ELSE Never(seq, blocks, nodes, pages, a)

Blocks == [base : Nat, size : Nat]

(* Types.                                                                  *)
SlobTypes ==
    /\ memmap \in Seq(Regions) /\ list \in Seq(Regions) /\ boot_map \in Seq(Regions)
    /\ _init \in {0, 1}
    /\ header \in [Addresses -> Nat]
    /\ live \subseteq Blocks
    /\ node_blocks \subseteq Regions /\ carved \subseteq Regions
    /\ status \in {"boot", "run", "fault", "halt"}

(* Until the first malloc the memory map alone says what is free, and the  *)
(* second slob_init may rebuild the list from it.                          *)
MapFresh ==
    /\ status = "boot" => _init = 0 /\ list = << >>
    /\ _init = 0 => live = {} /\ node_blocks = {} /\ Owned(memmap, live, node_blocks, carved, Addresses)
    /\ status = "run" => list # << >>

ListOwned ==
    status # "boot" /\ list # << >> => Owned(list, live, node_blocks, carved, Addresses)

SlobInv == SlobTypes /\ MapFresh /\ ListOwned /\ HeaderIntact

-----------------------------------------------------------------------------
(* Lemmas about regions.                                                   *)

LEMMA RegionFields ==
    /\ \A r \in Regions : r.base \in Nat /\ r.length \in Nat
    /\ \A b, l \in Nat : /\ Region(b, l) \in Regions
                         /\ Region(b, l).base = b /\ Region(b, l).length = l
  BY DEF Regions, Region

(* A cut moves the addresses of the piece out of the region, and no other. *)
LEMMA CutAt ==
    ASSUME NEW seq \in Seq(Regions), NEW i \in 1 .. Len(seq), NEW n \in Nat,
           n <= seq[i].length
    PROVE  /\ CutFrom(seq, i, n) \in Seq(Regions)
           /\ Len(CutFrom(seq, i, n)) = Len(seq)
           /\ \A a \in Nat :
                IF Inside(a, Region(seq[i].base, n))
                  THEN /\ i \in At(seq, a)
                       /\ At(CutFrom(seq, i, n), a) = At(seq, a) \ {i}
                  ELSE At(CutFrom(seq, i, n), a) = At(seq, a)
<1> DEFINE cut == CutFrom(seq, i, n)
<1>1. seq[i].base \in Nat /\ seq[i].length \in Nat
  <2>1. seq[i] \in Regions
    OBVIOUS
  <2> QED
    BY <2>1, RegionFields
<1> DEFINE rest == Region(seq[i].base + n, seq[i].length - n)
<1>2. rest \in Regions /\ rest.base = seq[i].base + n /\ rest.length = seq[i].length - n
  BY <1>1, RegionFields, Z3T(40)
<1>3. cut \in Seq(Regions) /\ Len(cut) = Len(seq)
  BY <1>2 DEF CutFrom
<1>4. \A j \in 1 .. Len(seq) : cut[j] = IF j = i THEN rest ELSE seq[j]
  BY DEF CutFrom
<1>5. ASSUME NEW a \in Nat
      PROVE  /\ Inside(a, cut[i]) <=> Inside(a, seq[i]) /\ ~Inside(a, Region(seq[i].base, n))
             /\ Inside(a, Region(seq[i].base, n)) => Inside(a, seq[i])
  <2>1. cut[i] = rest
    BY <1>4
  <2>2. Region(seq[i].base, n).base = seq[i].base /\ Region(seq[i].base, n).length = n
    BY <1>1, RegionFields
  <2> HIDE DEF cut, rest
  <2> QED
    BY <1>1, <1>2, <2>1, <2>2 DEF Inside
<1> HIDE DEF cut
<1>6. ASSUME NEW a \in Nat
      PROVE  IF Inside(a, Region(seq[i].base, n))
               THEN i \in At(seq, a) /\ At(cut, a) = At(seq, a) \ {i}
               ELSE At(cut, a) = At(seq, a)
  BY <1>3, <1>4, <1>5 DEF At
<1> QED
  BY <1>3, <1>6 DEF cut

(* A region put in front moves the others up by one.                       *)
LEMMA ConsAt ==
    ASSUME NEW seq \in Seq(Regions), NEW r \in Regions
    PROVE  /\ <<r>> \o seq \in Seq(Regions)
           /\ <<r>> \o seq # << >>
           /\ \A a \in Nat :
                At(<<r>> \o seq, a) = {j + 1 : j \in At(seq, a)} \union (IF Inside(a, r) THEN {1} ELSE {})
<1> DEFINE new == <<r>> \o seq
<1>1. /\ new \in Seq(Regions) /\ Len(new) = Len(seq) + 1 /\ new[1] = r
      /\ \A j \in 1 .. Len(seq) : new[j + 1] = seq[j]
  OBVIOUS
<1>2. \A k \in 1 .. Len(new) : k = 1 \/ (k - 1 \in 1 .. Len(seq) /\ new[k] = seq[k - 1])
  BY <1>1
<1> HIDE DEF new
<1>3. ASSUME NEW a \in Nat
      PROVE  At(new, a) = {j + 1 : j \in At(seq, a)} \union (IF Inside(a, r) THEN {1} ELSE {})
  <2>1. ASSUME NEW k \in At(new, a)
        PROVE  k \in {j + 1 : j \in At(seq, a)} \/ (k = 1 /\ Inside(a, r))
    <3>1. CASE k = 1
      BY <1>1, <2>1, <3>1 DEF At
    <3>2. CASE k # 1
      <4>1. k - 1 \in At(seq, a)
        BY <1>1, <1>2, <2>1, <3>2 DEF At
      <4>2. k = (k - 1) + 1
        BY <2>1 DEF At
      <4> QED
        BY <4>1, <4>2
    <3> QED
      BY <3>1, <3>2
  <2>2. \A j \in At(seq, a) : j + 1 \in At(new, a)
    BY <1>1 DEF At
  <2>3. Inside(a, r) => 1 \in At(new, a)
    BY <1>1 DEF At
  <2> QED
    BY <2>1, <2>2, <2>3
<1> QED
  BY <1>1, <1>3 DEF new

(* The entries of a memory map are disjoint, since they are sorted.        *)
LEMMA MapOnce ==
    ASSUME NEW m \in Maps, NEW a \in Nat, NEW x \in At(m, a), NEW y \in At(m, a)
    PROVE  x = y
<1>1. /\ m \in Seq(Regions)
      /\ \A i, j \in 1 .. Len(m) : i < j => m[i].base + m[i].length <= m[j].base
  BY MapAssumption DEF Regions
<1>2. x \in 1 .. Len(m) /\ y \in 1 .. Len(m) /\ Inside(a, m[x]) /\ Inside(a, m[y])
  BY DEF At
<1>3. m[x].base \in Nat /\ m[x].length \in Nat /\ m[y].base \in Nat /\ m[y].length \in Nat
  <2>1. m[x] \in Regions /\ m[y] \in Regions
    BY <1>1, <1>2
  <2> QED
    BY <2>1, RegionFields
<1> QED
  BY <1>1, <1>2, <1>3, SMTT(40) DEF Inside

(* The usable addresses are the ones some region of the boot map holds.    *)
LEMMA AddressesAre ==
    ASSUME boot_map \in Seq(Regions)
    PROVE  /\ Addresses \subseteq Nat
           /\ \A a \in Nat : a \in Addresses <=> At(boot_map, a) # {}
<1>1. \A i \in 1 .. Len(boot_map) : boot_map[i].base \in Nat /\ boot_map[i].length \in Nat
  <2>1. \A i \in 1 .. Len(boot_map) : boot_map[i] \in Regions
    OBVIOUS
  <2> QED
    BY <2>1, RegionFields
<1>2. \A a : a \in Addresses <=>
         \E i \in 1 .. Len(boot_map) : a \in boot_map[i].base .. boot_map[i].base + boot_map[i].length - 1
  BY DEF Addresses
<1>3. Addresses \subseteq Nat
  BY <1>1, <1>2
<1>4. ASSUME NEW a \in Nat PROVE a \in Addresses <=> At(boot_map, a) # {}
  BY <1>1, <1>2, SMTT(40) DEF At, Inside
<1> QED
  BY <1>3, <1>4

-----------------------------------------------------------------------------
(* What a call moves from one owner to another.                            *)

(* The first n units of a free region become another owner's.              *)
LEMMA PieceWasFree ==
    ASSUME NEW seq \in Seq(Regions), NEW i \in 1 .. Len(seq), NEW n \in Nat,
           n <= seq[i].length, NEW blocks, NEW nodes, NEW pages, NEW usable, NEW a \in Nat,
           Owned(seq, blocks, nodes, pages, usable),
           Inside(a, Region(seq[i].base, n))
    PROVE  /\ a \in usable
           /\ At(CutFrom(seq, i, n), a) = {}
           /\ Held(blocks, a) = {} /\ Among(nodes, a) = {} /\ Among(pages, a) = {}
<1>1. i \in At(seq, a) /\ At(CutFrom(seq, i, n), a) = At(seq, a) \ {i}
  BY CutAt
<1>2. a \in usable /\ Once(seq, blocks, nodes, pages, a)
  BY <1>1 DEF Owned, Never
<1> QED
  BY <1>1, <1>2 DEF Once

(* slob_init: pages carved out of the memory map.                          *)
LEMMA CutToPages ==
    ASSUME NEW seq \in Seq(Regions), NEW i \in 1 .. Len(seq), NEW n \in Nat,
           n <= seq[i].length, NEW blocks, NEW nodes, NEW pages, NEW usable,
           Owned(seq, blocks, nodes, pages, usable)
    PROVE  Owned(CutFrom(seq, i, n), blocks, nodes,
                 pages \union {Region(seq[i].base, n)}, usable)
<1> DEFINE piece == Region(seq[i].base, n)
           cut == CutFrom(seq, i, n)
<1> SUFFICES ASSUME NEW a \in Nat
             PROVE  IF a \in usable THEN Once(cut, blocks, nodes, pages \union {piece}, a)
                                    ELSE Never(cut, blocks, nodes, pages \union {piece}, a)
  BY DEF Owned
<1>1. CASE Inside(a, piece)
  <2>1. /\ a \in usable /\ At(cut, a) = {}
        /\ Held(blocks, a) = {} /\ Among(nodes, a) = {} /\ Among(pages, a) = {}
    BY <1>1, PieceWasFree
  <2>2. Among(pages \union {piece}, a) = {piece}
    BY <1>1, <2>1 DEF Among
  <2> QED
    BY <2>1, <2>2 DEF Once
<1>2. CASE ~Inside(a, piece)
  <2>1. At(cut, a) = At(seq, a)
    BY <1>2, CutAt
  <2>2. Among(pages \union {piece}, a) = Among(pages, a)
    BY <1>2 DEF Among
  <2> QED
    BY <2>1, <2>2 DEF Owned, Once, Never
<1> QED
  BY <1>1, <1>2

(* slob_free's own node.                                                   *)
LEMMA CutToNode ==
    ASSUME NEW seq \in Seq(Regions), NEW i \in 1 .. Len(seq), NEW n \in Nat,
           n <= seq[i].length, NEW blocks, NEW nodes, NEW pages, NEW usable,
           Owned(seq, blocks, nodes, pages, usable)
    PROVE  Owned(CutFrom(seq, i, n), blocks, nodes \union {Region(seq[i].base, n)},
                 pages, usable)
<1> DEFINE piece == Region(seq[i].base, n)
           cut == CutFrom(seq, i, n)
<1> SUFFICES ASSUME NEW a \in Nat
             PROVE  IF a \in usable THEN Once(cut, blocks, nodes \union {piece}, pages, a)
                                    ELSE Never(cut, blocks, nodes \union {piece}, pages, a)
  BY DEF Owned
<1>1. CASE Inside(a, piece)
  <2>1. /\ a \in usable /\ At(cut, a) = {}
        /\ Held(blocks, a) = {} /\ Among(nodes, a) = {} /\ Among(pages, a) = {}
    BY <1>1, PieceWasFree
  <2>2. Among(nodes \union {piece}, a) = {piece}
    BY <1>1, <2>1 DEF Among
  <2> QED
    BY <2>1, <2>2 DEF Once
<1>2. CASE ~Inside(a, piece)
  <2>1. At(cut, a) = At(seq, a)
    BY <1>2, CutAt
  <2>2. Among(nodes \union {piece}, a) = Among(nodes, a)
    BY <1>2 DEF Among
  <2> QED
    BY <2>1, <2>2 DEF Owned, Once, Never
<1> QED
  BY <1>1, <1>2

(* slob_malloc: a block, its header in front.                              *)
LEMMA CutToBlock ==
    ASSUME NEW seq \in Seq(Regions), NEW i \in 1 .. Len(seq), NEW size \in Nat,
           HEADER + size <= seq[i].length, NEW blocks, NEW nodes, NEW pages, NEW usable,
           Owned(seq, blocks, nodes, pages, usable)
    PROVE  Owned(CutFrom(seq, i, HEADER + size),
                 blocks \union {[base |-> seq[i].base, size |-> size]}, nodes, pages, usable)
<1> DEFINE n == HEADER + size
           block == [base |-> seq[i].base, size |-> size]
           cut == CutFrom(seq, i, n)
<1>1. n \in Nat /\ n <= seq[i].length /\ Block(block) = Region(seq[i].base, n)
  BY DEF HEADER, Block
<1> HIDE DEF n, block
<1> SUFFICES ASSUME NEW a \in Nat
             PROVE  IF a \in usable THEN Once(cut, blocks \union {block}, nodes, pages, a)
                                    ELSE Never(cut, blocks \union {block}, nodes, pages, a)
  BY DEF Owned, n, block
<1>2. CASE Inside(a, Region(seq[i].base, n))
  <2>1. /\ a \in usable /\ At(cut, a) = {}
        /\ Held(blocks, a) = {} /\ Among(nodes, a) = {} /\ Among(pages, a) = {}
    BY <1>1, <1>2, PieceWasFree, ZenonT(40)
  <2>2. Held(blocks \union {block}, a) = {block}
    BY <1>1, <1>2, <2>1 DEF Held
  <2> QED
    BY <2>1, <2>2 DEF Once
<1>3. CASE ~Inside(a, Region(seq[i].base, n))
  <2>1. At(cut, a) = At(seq, a)
    BY <1>1, <1>3, CutAt
  <2>2. Held(blocks \union {block}, a) = Held(blocks, a)
    BY <1>1, <1>3 DEF Held
  <2> QED
    BY <2>1, <2>2 DEF Owned, Once, Never
<1> QED
  BY <1>2, <1>3

(* slob_free: a held block goes back to the list's front.                  *)
LEMMA BlockToList ==
    ASSUME NEW seq \in Seq(Regions), NEW b, Block(b) \in Regions, NEW blocks, b \in blocks,
           NEW nodes, NEW pages, NEW usable, Owned(seq, blocks, nodes, pages, usable)
    PROVE  Owned(<<Block(b)>> \o seq, blocks \ {b}, nodes, pages, usable)
<1> DEFINE new == <<Block(b)>> \o seq
<1> SUFFICES ASSUME NEW a \in Nat
             PROVE  IF a \in usable THEN Once(new, blocks \ {b}, nodes, pages, a)
                                    ELSE Never(new, blocks \ {b}, nodes, pages, a)
  BY DEF Owned
<1>1. At(new, a) = {j + 1 : j \in At(seq, a)} \union (IF Inside(a, Block(b)) THEN {1} ELSE {})
  BY ConsAt
<1>2. Held(blocks \ {b}, a) = Held(blocks, a) \ {b}
  BY DEF Held
<1> HIDE DEF new
<1>3. CASE Inside(a, Block(b))
  <2>1. b \in Held(blocks, a)
    BY <1>3 DEF Held
  <2>2. a \in usable /\ Once(seq, blocks, nodes, pages, a)
    BY <2>1 DEF Owned, Never
  <2>3. At(seq, a) = {} /\ Held(blocks, a) = {b} /\ Among(nodes, a) = {} /\ Among(pages, a) = {}
    BY <2>1, <2>2 DEF Once
  <2>4. At(new, a) = {1} /\ Held(blocks \ {b}, a) = {}
    BY <1>1, <1>2, <1>3, <2>3
  <2> QED
    BY <2>2, <2>3, <2>4 DEF Once
<1>4. CASE ~Inside(a, Block(b))
  <2>1. Held(blocks \ {b}, a) = Held(blocks, a)
    BY <1>2, <1>4 DEF Held
  <2>2. At(new, a) = {j + 1 : j \in At(seq, a)}
    BY <1>1, <1>4
  <2>3. At(seq, a) = {} => At(new, a) = {}
    BY <2>2
  <2>4. (\E x : At(seq, a) = {x}) => \E x : At(new, a) = {x}
    <3> SUFFICES ASSUME NEW x, At(seq, a) = {x} PROVE At(new, a) = {x + 1}
      OBVIOUS
    <3> QED
      BY <2>2
  <2> QED
    BY <2>1, <2>3, <2>4 DEF Owned, Once, Never
<1> QED
  BY <1>3, <1>4

-----------------------------------------------------------------------------
(* The invariant.                                                          *)

LEMMA InitHolds == Init => SlobInv
<1> SUFFICES ASSUME Init PROVE SlobInv
  OBVIOUS
<1>1. boot_map \in Maps /\ memmap = boot_map /\ boot_map \in Seq(Regions)
  BY MapAssumption DEF Init, Regions
<1>2. SlobTypes
  BY <1>1 DEF Init, SlobTypes
<1>3. Owned(memmap, live, node_blocks, carved, Addresses)
  <2> SUFFICES ASSUME NEW a \in Nat
               PROVE  IF a \in Addresses THEN Once(memmap, live, node_blocks, carved, a)
                                         ELSE Never(memmap, live, node_blocks, carved, a)
    BY DEF Owned
  <2>1. Held(live, a) = {} /\ Among(node_blocks, a) = {} /\ Among(carved, a) = {}
    BY DEF Init, Held, Among
  <2>2. a \in Addresses <=> At(memmap, a) # {}
    BY <1>1, AddressesAre
  <2>3. \A x, y \in At(memmap, a) : x = y
    BY <1>1, MapOnce
  <2>4. At(memmap, a) # {} => \E x : At(memmap, a) = {x}
    BY <2>3
  <2> QED
    BY <2>1, <2>2, <2>4 DEF Once, Never
<1> QED
  BY <1>2, <1>3 DEF Init, SlobInv, MapFresh, ListOwned, HeaderIntact

(* slob_init leaves a memory map from which the list can be built.         *)
LEMMA CarveHolds ==
    ASSUME SlobTypes, CarveAt # 0, slob_init, _init = 0,
           Owned(memmap, live, node_blocks, carved, Addresses)
    PROVE  /\ memmap' \in Seq(Regions) /\ memmap' # << >>
           /\ carved' \subseteq Regions
           /\ Owned(memmap', live, node_blocks, carved', Addresses)
<1>1. NodePages \in Nat
  <2>1. Len(memmap) \in Nat /\ PAGE_UNITS \in Nat \ {0}
    BY SizesAssumption DEF SlobTypes
  <2>2. ENTRY * Len(memmap) + PAGE_UNITS - 1 \in Nat
    BY <2>1 DEF ENTRY
  <2>3. (ENTRY * Len(memmap) + PAGE_UNITS - 1) \div PAGE_UNITS \in Nat
    BY <2>1, <2>2
  <2> QED
    BY <2>1, <2>3 DEF NodePages
<1>2. memmap \in Seq(Regions)
  BY DEF SlobTypes
<1>3. CarveAt \in 1 .. Len(memmap) /\ NodePages <= memmap[CarveAt].length
  BY <1>1, <1>2, FirstFitFits DEF CarveAt
<1>4. /\ memmap' = CutFrom(memmap, CarveAt, NodePages)
      /\ carved' = carved \union {Region(memmap[CarveAt].base, NodePages)}
  BY DEF slob_init
<1>5. memmap[CarveAt] \in Regions
  BY <1>2, <1>3
<1>6. carved' \subseteq Regions
  BY <1>1, <1>4, <1>5, RegionFields DEF SlobTypes
<1>7. memmap' \in Seq(Regions) /\ Len(memmap') = Len(memmap)
  BY <1>1, <1>2, <1>3, <1>4, CutAt
<1>8. memmap' # << >>
  BY <1>3, <1>7
<1>9. Owned(memmap', live, node_blocks, carved', Addresses)
  BY <1>1, <1>2, <1>3, <1>4, CutToPages
<1> QED
  BY <1>6, <1>7, <1>8, <1>9

(* A free region that serves a request begins at a usable address which no *)
(* held block's header occupies.                                           *)
LEMMA FitIsFresh ==
    ASSUME SlobTypes, NEW seq \in Seq(Regions), NEW i \in 1 .. Len(seq), seq[i].length > 0,
           NEW pages, Owned(seq, live, node_blocks, pages, Addresses)
    PROVE  /\ seq[i].base \in Addresses /\ seq[i].base \in Nat
           /\ \A b \in live : b.base # seq[i].base
<1>1. seq[i].base \in Nat /\ seq[i].length \in Nat
  <2>1. seq[i] \in Regions
    OBVIOUS
  <2> QED
    BY <2>1, RegionFields
<1> DEFINE a == seq[i].base
<1>2. i \in At(seq, a)
  BY <1>1 DEF At, Inside
<1>3. a \in Addresses /\ Held(live, a) = {}
  BY <1>1, <1>2 DEF Owned, Never, Once
<1>4. ASSUME NEW b \in live, b.base = a PROVE FALSE
  <2>1. b.base \in Nat /\ b.size \in Nat
    BY DEF SlobTypes, Blocks
  <2>2. Inside(a, Block(b))
    BY <1>4, <2>1 DEF Inside, Block, Region, HEADER
  <2> QED
    BY <1>3, <2>2 DEF Held
<1> QED
  BY <1>1, <1>3, <1>4

(* kernel_main's slob_init carves its nodes off the map and leaves         *)
(* everything else owned as before.                                        *)
LEMMA KernelInitHolds == SlobInv /\ KernelInit => SlobInv'
<1> SUFFICES ASSUME SlobInv, KernelInit PROVE SlobInv'
  OBVIOUS
<1> USE DEF SlobInv
<1>1. /\ SlobTypes /\ _init = 0 /\ live = {} /\ node_blocks = {}
      /\ Owned(memmap, live, node_blocks, carved, Addresses)
      /\ CarveAt # 0 /\ slob_init
  BY DEF MapFresh, KernelInit
<1>2. /\ memmap' \in Seq(Regions) /\ memmap' # << >> /\ carved' \subseteq Regions
      /\ Owned(memmap', live, node_blocks, carved', Addresses)
  BY <1>1, CarveHolds
<1>3. /\ list' = memmap' /\ status' = "run" /\ Addresses' = Addresses
      /\ UNCHANGED <<_init, header, boot_map, live, node_blocks>>
  BY DEF KernelInit, Addresses
<1>4. SlobTypes'
  BY <1>2, <1>3 DEF SlobTypes
<1>5. MapFresh' /\ ListOwned' /\ HeaderIntact'
  BY <1>1, <1>2, <1>3 DEF MapFresh, ListOwned, HeaderIntact
<1> QED
  BY <1>4, <1>5

(* malloc, with or without the second slob_init before it, moves a piece   *)
(* from the free list to its caller, header included, and changes nothing  *)
(* else's owner.                                                           *)
LEMMA MallocHolds ==
    ASSUME SlobInv, NEW size \in Sizes, slob_malloc(size)
    PROVE  SlobInv'
<1> USE DEF SlobInv
<1> DEFINE free == IF _init = 1 THEN list ELSE memmap'
           total == TotalSize(size)
           i == FirstFit(free, total)
<1>1. size \in Nat /\ total \in Nat /\ total > 0 /\ total = HEADER + size
  BY SizesAssumption DEF TotalSize, HEADER
<1>2. /\ free \in Seq(Regions) /\ free # << >>
      /\ memmap' \in Seq(Regions) /\ carved' \subseteq Regions
      /\ Owned(free, live, node_blocks, carved', Addresses)
  <2>1. CASE _init = 1
    BY <2>1 DEF slob_malloc, EnsureInit, SlobTypes, MapFresh, ListOwned
  <2>2. CASE _init = 0
    <3>1. CarveAt # 0 /\ slob_init
      BY <2>2 DEF slob_malloc, EnsureInit
    <3> QED
      BY <2>2, <3>1, CarveHolds DEF MapFresh
  <2> QED
    BY <2>1, <2>2 DEF SlobTypes
<1>3. /\ status = "run" /\ _init' = 1 /\ Addresses' = Addresses
      /\ UNCHANGED <<boot_map, node_blocks, status>>
  BY DEF slob_malloc, Addresses
<1>4. CASE i = 0
  <2>1. list' = free /\ UNCHANGED <<header, live>>
    BY <1>4 DEF slob_malloc
  <2> HIDE DEF free, i
  <2> QED
    BY <1>2, <1>3, <2>1 DEF SlobTypes, MapFresh, ListOwned, HeaderIntact
<1>5. CASE i # 0
  <2> DEFINE block == [base |-> free[i].base, size |-> size]
  <2>1. /\ list' = CutFrom(free, i, total)
        /\ header' = [header EXCEPT ![free[i].base] = total]
        /\ live' = live \union {block}
    BY <1>5 DEF slob_malloc
  <2>2. i \in 1 .. Len(free) /\ total <= free[i].length
    BY <1>1, <1>2, <1>5, FirstFitFits
  <2>3. free[i].length > 0
    <3>1. free[i] \in Regions
      BY <1>2, <2>2
    <3> QED
      BY <1>1, <2>2, <3>1, RegionFields
  <2>4. /\ free[i].base \in Addresses /\ free[i].base \in Nat
        /\ \A b \in live : b.base # free[i].base
    BY <1>2, <2>2, <2>3, FitIsFresh
  <2> HIDE DEF free, i, total
  <2>5. list' \in Seq(Regions) /\ list' # << >>
    BY <1>1, <1>2, <2>1, <2>2, CutAt
  <2>6. Owned(list', live', node_blocks, carved', Addresses)
    BY <1>1, <1>2, <2>1, <2>2, CutToBlock
  <2>7. block \in Blocks
    BY <1>1, <2>4 DEF Blocks
  <2>8. SlobTypes'
    BY <1>1, <1>2, <1>3, <2>1, <2>4, <2>5, <2>7 DEF SlobTypes
  <2>9. MapFresh' /\ ListOwned'
    BY <1>3, <2>5, <2>6 DEF MapFresh, ListOwned
  <2>10. HeaderIntact'
    <3>1. block.base = free[i].base /\ block.size = size
      OBVIOUS
    <3>2. header'[block.base] = HEADER + block.size
      BY <1>1, <2>1, <2>4, <3>1 DEF SlobTypes
    <3>3. \A b \in live : header'[b.base] = header[b.base]
      BY <2>1, <2>4 DEF SlobTypes
    <3> HIDE DEF block
    <3> QED
      BY <2>1, <3>2, <3>3 DEF HeaderIntact
  <2> QED
    BY <2>8, <2>9, <2>10
<1> QED
  BY <1>4, <1>5

(* free takes a list node from the free list first and then returns the    *)
(* block: the two steps together keep every address owned once, and on a   *)
(* full heap the fault changes no owner.                                   *)
LEMMA FreeHolds ==
    ASSUME SlobInv, NEW b \in live, slob_free(b)
    PROVE  SlobInv'
<1> USE DEF SlobInv
<1> DEFINE n == HEADER + ENTRY
           i == FirstFit(list, n)
           cut == CutFrom(list, i, n)
           node == Region(list[i].base, n)
<1>1. n \in Nat /\ n > 0
  BY DEF HEADER, ENTRY
<1>2. /\ status = "run" /\ list # << >> /\ list \in Seq(Regions)
      /\ Owned(list, live, node_blocks, carved, Addresses)
      /\ _init = 1 /\ i # 0
  BY DEF slob_free, SlobTypes, MapFresh, ListOwned
<1>3. i \in 1 .. Len(list) /\ n <= list[i].length
  BY <1>1, <1>2, FirstFitFits
<1>4. list[i].length > 0 /\ list[i].base \in Nat
  <2>1. list[i] \in Regions
    BY <1>2, <1>3
  <2> QED
    BY <1>1, <1>3, <2>1, RegionFields
<1>5. list[i].base \in Addresses /\ \A c \in live : c.base # list[i].base
  BY <1>2, <1>3, <1>4, FitIsFresh
<1>6. /\ header' = [header EXCEPT ![list[i].base] = n]
      /\ list' = <<Region(b.base, header'[b.base])>> \o cut
      /\ node_blocks' = node_blocks \union {node}
      /\ live' = live \ {b}
      /\ UNCHANGED <<memmap, _init, boot_map, carved, status>> /\ Addresses' = Addresses
  BY DEF slob_free, Addresses
<1> HIDE DEF n, i
<1>7. \A c \in live : header'[c.base] = HEADER + c.size
  BY <1>5, <1>6 DEF HeaderIntact, SlobTypes
<1>8. Region(b.base, header'[b.base]) = Block(b) /\ Block(b) \in Regions
  <2>1. b.base \in Nat /\ HEADER + b.size \in Nat
    BY DEF SlobTypes, Blocks, HEADER
  <2> QED
    BY <1>7, <2>1, RegionFields DEF Block
<1>9. cut \in Seq(Regions) /\ Owned(cut, live, node_blocks', carved, Addresses)
  BY <1>1, <1>2, <1>3, <1>6, CutAt, CutToNode
<1> HIDE DEF cut
<1>10. list' \in Seq(Regions) /\ list' # << >>
  BY <1>6, <1>8, <1>9, ConsAt
<1>11. Owned(list', live', node_blocks', carved, Addresses)
  BY <1>6, <1>8, <1>9, BlockToList
<1>12. node \in Regions
  BY <1>1, <1>4, RegionFields
<1>13. SlobTypes'
  BY <1>1, <1>6, <1>10, <1>12 DEF SlobTypes
<1>14. MapFresh' /\ ListOwned'
  BY <1>2, <1>6, <1>10, <1>11 DEF MapFresh, ListOwned
<1>15. HeaderIntact'
  BY <1>6, <1>7 DEF HeaderIntact
<1> QED
  BY <1>13, <1>14, <1>15

(* Every step of the heap preserves the invariant.                         *)
LEMMA NextHolds == SlobInv /\ [Next]_vars => SlobInv'
<1> SUFFICES ASSUME SlobInv, [Next]_vars PROVE SlobInv'
  OBVIOUS
<1>1. CASE KernelInit
  BY <1>1, KernelInitHolds
<1>2. CASE \E n \in Sizes : slob_malloc(n)
  BY <1>2, MallocHolds
<1>3. CASE \E b \in live : slob_free(b)
  BY <1>3, FreeHolds
<1>4. CASE /\ UNCHANGED <<memmap, _init, list, header, histVars>>
           /\ status' \in {"halt", "fault"}
  <2>1. UNCHANGED <<memmap, _init, list, header, boot_map, live, node_blocks, carved>>
    BY <1>4 DEF histVars
  <2>2. Addresses' = Addresses
    BY <2>1 DEF Addresses
  <2>3. status = "boot" => list = << >>
    BY DEF SlobInv, MapFresh
  <2> QED
    BY <1>4, <2>1, <2>2, <2>3 DEF SlobInv, SlobTypes, MapFresh, ListOwned, HeaderIntact
<1>5. CASE UNCHANGED vars
  <2>1. UNCHANGED <<memmap, _init, list, header, status, boot_map, live, node_blocks, carved>>
    BY <1>5 DEF vars, histVars
  <2>2. Addresses' = Addresses
    BY <2>1 DEF Addresses
  <2> QED
    BY <2>1, <2>2 DEF SlobInv, SlobTypes, MapFresh, ListOwned, HeaderIntact
<1>6. InitFatal \/ (\E b \in live : FreeFault(b)) =>
          /\ UNCHANGED <<memmap, _init, list, header, histVars>>
          /\ status' \in {"halt", "fault"}
  BY DEF InitFatal, FreeFault
<1> QED
  BY <1>1, <1>2, <1>3, <1>4, <1>5, <1>6 DEF Next, Stopped

(* The inductive invariant of the heap: types, the state of the memory map *)
(* until the first malloc, single ownership of every address, and headers  *)
(* that still hold what malloc wrote.                                      *)
THEOREM SlobInvariant == Spec => []SlobInv
  BY InitHolds, NextHolds, PTL DEF Spec

(* For every memory map, page size and sequence of mallocs and frees of    *)
(* any size, the heap never gives an address to two owners, and never      *)
(* loses one: free regions, held blocks, the list's own nodes and the      *)
(* pages that both calls of slob_init took divide the usable memory.       *)
THEOREM HeapPartition == Spec => []Partition
<1>1. SlobInv => Partition
  <2> SUFFICES ASSUME SlobInv, status # "boot" /\ list # << >>, NEW a \in Addresses
               PROVE  Cardinality(Owners(a)) = 1
    BY DEF Partition
  <2>1. a \in Nat
    BY AddressesAre DEF SlobInv, SlobTypes
  <2>2. Once(list, live, node_blocks, carved, a)
    BY <2>1 DEF SlobInv, ListOwned, Owned
  <2>3. Owners(a) = {<<"free", i>> : i \in At(list, a)}
                    \union {<<"live", b>> : b \in Held(live, a)}
                    \union {<<"node", r>> : r \in Among(node_blocks, a)}
                    \union {<<"page", r>> : r \in Among(carved, a)}
    BY DEF Owners, At, Held, Among
  <2>4. \E o : Owners(a) = {o}
    <3>1. CASE \E x : At(list, a) = {x} /\ Held(live, a) = {} /\ Among(node_blocks, a) = {}
                                      /\ Among(carved, a) = {}
      <4> PICK x : At(list, a) = {x} /\ Held(live, a) = {} /\ Among(node_blocks, a) = {}
                                     /\ Among(carved, a) = {}
        BY <3>1
      <4>1. Owners(a) = {<<"free", x>>}
        BY <2>3
      <4> QED
        BY <4>1
    <3>2. CASE \E x : At(list, a) = {} /\ Held(live, a) = {x} /\ Among(node_blocks, a) = {}
                                      /\ Among(carved, a) = {}
      <4> PICK x : At(list, a) = {} /\ Held(live, a) = {x} /\ Among(node_blocks, a) = {}
                                     /\ Among(carved, a) = {}
        BY <3>2
      <4>1. Owners(a) = {<<"live", x>>}
        BY <2>3
      <4> QED
        BY <4>1
    <3>3. CASE \E x : At(list, a) = {} /\ Held(live, a) = {} /\ Among(node_blocks, a) = {x}
                                      /\ Among(carved, a) = {}
      <4> PICK x : At(list, a) = {} /\ Held(live, a) = {} /\ Among(node_blocks, a) = {x}
                                     /\ Among(carved, a) = {}
        BY <3>3
      <4>1. Owners(a) = {<<"node", x>>}
        BY <2>3
      <4> QED
        BY <4>1
    <3>4. CASE \E x : At(list, a) = {} /\ Held(live, a) = {} /\ Among(node_blocks, a) = {}
                                      /\ Among(carved, a) = {x}
      <4> PICK x : At(list, a) = {} /\ Held(live, a) = {} /\ Among(node_blocks, a) = {}
                                     /\ Among(carved, a) = {x}
        BY <3>4
      <4>1. Owners(a) = {<<"page", x>>}
        BY <2>3
      <4> QED
        BY <4>1
    <3> QED
      BY <2>2, <3>1, <3>2, <3>3, <3>4 DEF Once
  <2> QED
    BY <2>4, FS_Singleton
<1> QED
  BY <1>1, SlobInvariant, PTL

(* The header in front of a held block keeps the block's length until the  *)
(* block is freed: no block, list node or header is ever written over it.  *)
THEOREM HeadersSurvive == Spec => []HeaderIntact
<1>1. SlobInv => HeaderIntact
  BY DEF SlobInv
<1> QED
  BY <1>1, SlobInvariant, PTL
=============================================================================
