------------------------------- MODULE PmmInit -------------------------------
(***************************************************************************)
(* How the physical memory manager comes up: kmem_init over the boot       *)
(* loader's memory map, then the two calls of slob_init that carve more    *)
(* out of the same map.  Addresses and lengths are in pages (the boot      *)
(* loader aligns usable entries to pages, and none of them begins at 0);   *)
(* the sizes of the two tables are computed in bytes, as the code does.    *)
(* Each function is a step: nothing runs beside it.                        *)
(***************************************************************************)
EXTENDS Integers, Sequences, FiniteSets, SequencesExt, FiniteSetsExt

CONSTANTS
    Maps,           \* memory maps: sequences of [base, length, usable]
    PAGE_SIZE,      \* bytes in a page, scaled down
    BYTE_BITS,      \* bits in a byte (8), scaled down
    PAGE_ENTRY,     \* sizeof(struct PageEntry)
    SLOB_ENTRY      \* sizeof(struct SlobEntry)

ASSUME ScaleAssumption ==
    {PAGE_SIZE, BYTE_BITS, PAGE_ENTRY, SLOB_ENTRY} \subseteq Nat \ {0}
ASSUME MapsAssumption ==
    \A m \in Maps :
        /\ m \in Seq([base : Nat, length : Nat, usable : BOOLEAN])
        /\ \A i \in 1 .. Len(m) : m[i].base > 0
        /\ \A i, j \in 1 .. Len(m) : i < j => m[i].base + m[i].length <= m[j].base
        /\ \E i \in 1 .. Len(m) : m[i].usable

NULL == [base |-> 0, length |-> 0]

VARIABLES
    memmap,                 \* the map; entries shrink as memory is carved out
    lowest_address, highest_address,
    num_pages_in_map, max_pages_available, num_pages_available,
    page_bitmap,            \* where the bitmap lies: a region, or NULL
    bits,                   \* what it holds: bits[p], TRUE for taken
    carved,                 \* history: regions memmap_alloc handed out
    boot_map,               \* history: the map as the boot loader made it
    pc                      \* the function to run next, or "halt"

statVars == <<lowest_address, highest_address, num_pages_in_map>>
vars == <<memmap, statVars, max_pages_available, num_pages_available,
          page_bitmap, bits, carved, boot_map, pc>>

Init ==
    /\ memmap \in Maps
    /\ boot_map = memmap
    /\ lowest_address = 0 /\ highest_address = 0 /\ num_pages_in_map = 0
    /\ max_pages_available = 0 /\ num_pages_available = 0
    /\ page_bitmap = NULL
    /\ bits = << >>
    /\ carved = {}
    /\ pc = "_init_stats"

UsableIn(m) == {i \in 1 .. Len(m) : m[i].usable}
End(r) == r.base + r.length
AllPages(r) == r.base .. End(r) - 1

-----------------------------------------------------------------------------
(* The loop's lowest_address is 0 until the first usable entry, and no     *)
(* entry begins at 0.                                                      *)
_init_stats ==
    /\ pc = "_init_stats"
    /\ max_pages_available' = MapThenSumSet(LAMBDA i : memmap[i].length, UsableIn(memmap))
    /\ highest_address' = Max({0} \union {End(memmap[i]) : i \in UsableIn(memmap)})
    /\ lowest_address' = Min({memmap[i].base : i \in UsableIn(memmap)})
    /\ num_pages_in_map' = highest_address' - lowest_address'
    /\ pc' = "_create_page_bitmap"
    /\ UNCHANGED <<memmap, num_pages_available, page_bitmap, bits, carved, boot_map>>

(* ALIGN_UP(bytes, PAGE_SIZE), in pages.                                   *)
PagesFor(bytes) == (bytes + PAGE_SIZE - 1) \div PAGE_SIZE

(* The first usable entry of at least n pages; 0 if there is none.         *)
FirstFit(n) == SelectInSeq(memmap, LAMBDA e : e.usable /\ e.length >= n)

(* Mutant of Shrunk: the entry's base is not moved up. *)
ShrunkFromTop(i, n) == [memmap EXCEPT ![i].length = @ - n]

Shrunk(i, n) == [memmap EXCEPT ![i].base = @ + n, ![i].length = @ - n]

BitmapPages == PagesFor(num_pages_in_map \div BYTE_BITS)

(* Bits past the bitmap's end lie in memory nobody initialised.  If no     *)
(* entry is large enough page_bitmap stays NULL and nothing is said.       *)
_create_page_bitmap ==
    /\ pc = "_create_page_bitmap"
    /\ LET i == FirstFit(BitmapPages)
       IN  IF i = 0
             THEN UNCHANGED <<memmap, page_bitmap, max_pages_available>>
             ELSE /\ page_bitmap' = [base |-> memmap[i].base, length |-> BitmapPages]
                  /\ memmap' = Shrunk(i, BitmapPages)
                  /\ max_pages_available' = max_pages_available - BitmapPages
    /\ \E junk \in BOOLEAN :
           bits' = [p \in 0 .. num_pages_in_map - 1 |->
                        p < BitmapPages * PAGE_SIZE * BYTE_BITS \/ junk]
    /\ pc' = "entry_map"
    /\ UNCHANGED <<statVars, num_pages_available, carved, boot_map>>

(* Mutant of memmap_alloc: max_pages_available is not lowered. *)
AllocKeepsMax(n, next) ==
    LET i == FirstFit(n)
    IN  IF i = 0
          THEN /\ pc' = "halt"
               /\ UNCHANGED <<memmap, carved, max_pages_available>>
          ELSE /\ carved' = carved \union {[base |-> memmap[i].base, length |-> n]}
               /\ memmap' = Shrunk(i, n)
               /\ pc' = next
               /\ UNCHANGED max_pages_available

memmap_alloc(n, next) ==
    LET i == FirstFit(n)
    IN  IF i = 0
          THEN /\ pc' = "halt"
               /\ UNCHANGED <<memmap, carved, max_pages_available>>
          ELSE /\ carved' = carved \union {[base |-> memmap[i].base, length |-> n]}
               /\ memmap' = Shrunk(i, n)
               /\ max_pages_available' = max_pages_available - n
               /\ pc' = next

CreateEntryMap ==
    /\ pc = "entry_map"
    /\ memmap_alloc(PagesFor(PAGE_ENTRY * num_pages_in_map), "_get_free_pages")
    /\ UNCHANGED <<statVars, num_pages_available, page_bitmap, bits, boot_map>>

(* Bit of a page that a usable entry of m still covers. *)
InUsable(m, p) ==
    \E i \in UsableIn(m) : p \in m[i].base - lowest_address .. End(m[i]) - lowest_address - 1

(* Mutant of _get_free_pages: offsets are not taken from lowest_address. *)
FreeFromZero ==
    /\ pc = "_get_free_pages"
    /\ bits' = [p \in DOMAIN bits |->
                   bits[p] /\ \A i \in UsableIn(memmap) : p \notin AllPages(memmap[i])]
    /\ num_pages_available' =
           num_pages_available + MapThenSumSet(LAMBDA i : memmap[i].length, UsableIn(memmap))
    /\ pc' = "slob_init"
    /\ UNCHANGED <<memmap, statVars, max_pages_available, page_bitmap, carved, boot_map>>

_get_free_pages ==
    /\ pc = "_get_free_pages"
    /\ bits' = [p \in DOMAIN bits |-> bits[p] /\ ~InUsable(memmap, p)]
    /\ num_pages_available' =
           num_pages_available + MapThenSumSet(LAMBDA i : memmap[i].length, UsableIn(memmap))
    /\ pc' = "slob_init"
    /\ UNCHANGED <<memmap, statVars, max_pages_available, page_bitmap, carved, boot_map>>

(* kernel_main's slob_init, and the one the first malloc makes again.      *)
slob_init ==
    /\ pc \in {"slob_init", "first_malloc"}
    /\ memmap_alloc(PagesFor(SLOB_ENTRY * Cardinality(UsableIn(memmap))),
                    IF pc = "slob_init" THEN "first_malloc" ELSE "run")
    /\ UNCHANGED <<statVars, num_pages_available, page_bitmap, bits, boot_map>>

Done == pc \in {"halt", "run"} /\ UNCHANGED vars

Next ==
    \/ _init_stats
    \/ _create_page_bitmap
    \/ CreateEntryMap
    \/ _get_free_pages
    \/ slob_init
    \/ Done

Spec == Init /\ [][Next]_vars

-----------------------------------------------------------------------------
(* Properties.                                                             *)

KmemReady == pc \in {"slob_init", "first_malloc", "run"}
FreeBits == {p \in DOMAIN bits : ~bits[p]}

(* After kmem_init a page is free in the bitmap exactly if a usable entry  *)
(* covers it and neither table was put there; and the bitmap exists:       *)
(* _create_page_bitmap may silently leave page_bitmap NULL, but then the   *)
(* entry map cannot be placed either and the machine halts before its use. *)
BitmapMatchesMap ==
    /\ pc = "_get_free_pages" \/ KmemReady => page_bitmap # NULL
    /\ pc = "slob_init" => \A p \in DOMAIN bits : bits[p] <=> ~InUsable(memmap, p)

(* From kmem_init on, also after slob_init has carved its nodes, the number *)
(* of available pages that is reported is the number of free bits, which    *)
(* memmap_alloc leaves as stale as it; the bound that kalloc searches up to *)
(* is the number of pages the map still offers, and never exceeds the       *)
(* bitmap's length, as PageAllocator assumes.                               *)
Offered == {p \in DOMAIN bits : InUsable(memmap, p)}
CountsAgree ==
    KmemReady => /\ num_pages_available = Cardinality(FreeBits)
                 /\ max_pages_available = Cardinality(Offered)
                 /\ max_pages_available <= num_pages_in_map

(* The bitmap, the entry map and the heap's first nodes lie in usable      *)
(* memory, apart from each other and from what the map still offers.       *)
TablesDisjoint ==
    LET tables == carved \union (IF page_bitmap = NULL THEN {} ELSE {page_bitmap})
    IN  /\ \A r \in tables : \E i \in UsableIn(boot_map) : AllPages(r) \subseteq AllPages(boot_map[i])
        /\ \A r, s \in tables : r # s => AllPages(r) \cap AllPages(s) = {}
        /\ \A r \in tables, i \in UsableIn(memmap) : AllPages(r) \cap AllPages(memmap[i]) = {}

=============================================================================
