-------------------------------- MODULE Slob --------------------------------
(***************************************************************************)
(* The kernel's heap, alloc/slob.c: a list of free regions, first fit from *)
(* the list's head, the request cut off the region's low end; a free puts  *)
(* a new node in front, and the node itself is allocated from the heap.    *)
(*                                                                         *)
(* Lengths are in units of 8 bytes, so the header is 1 and a list node 3.  *)
(* The heap has one caller (handlers do not allocate), so a call is one    *)
(* step.  Nodes never leave the list and no node moves, so the list is the *)
(* sequence of the nodes' regions; node_blocks is the memory they lie in.  *)
(***************************************************************************)
EXTENDS Integers, Sequences, SequencesExt

CONSTANTS
    Maps,           \* memory maps: the usable entries after kmem_init, as regions
    PAGE_UNITS,     \* a page, in units
    Sizes           \* sizes asked of malloc, in units

HEADER == 1         \* sizeof(struct SlobHeader)
ENTRY  == 3         \* sizeof(struct SlobEntry)

(* Limine sorts the entries by base, and usable ones overlap no others.    *)
ASSUME MapAssumption ==
    \A m \in Maps :
        /\ m \in Seq([base : Nat, length : Nat])
        /\ \A i, j \in 1 .. Len(m) : i < j => m[i].base + m[i].length <= m[j].base
ASSUME SizesAssumption == Sizes \subseteq Nat /\ PAGE_UNITS \in Nat \ {0}

VARIABLES
    memmap,         \* the usable entries, as memmap_alloc shrinks them
    _init,          \* the static flag of slob.c
    list,           \* free regions from pHead on
    boot_map,       \* history: memmap as kmem_init left it
    header,         \* header[a]: the length stored in the header at address a
    live,           \* history: blocks the callers hold, with the size asked for
    node_blocks,    \* history: blocks that hold list nodes
    carved,         \* history: pages memmap_alloc handed to slob_init
    status          \* "boot", "run", "fault" (write through NULL), "halt" (hcf)

histVars == <<boot_map, live, node_blocks, carved>>
vars == <<memmap, _init, list, header, status, histVars>>

Region(b, l) == [base |-> b, length |-> l]

Addresses == UNION {boot_map[i].base .. boot_map[i].base + boot_map[i].length - 1 :
                        i \in 1 .. Len(boot_map)}

Init ==
    /\ memmap \in Maps
    /\ boot_map = memmap
    /\ _init = 0
    /\ list = << >>
    /\ header = [a \in Addresses |-> 0]
    /\ live = {} /\ node_blocks = {} /\ carved = {}
    /\ status = "boot"

(* The first region of seq with n units; 0 if there is none.               *)
FirstFit(seq, n) == SelectInSeq(seq, LAMBDA r : n <= r.length)

(* Mutant of CutFrom: the region's base stays where it was. *)
CutLengthOnly(seq, i, n) == [seq EXCEPT ![i] = Region(@.base, @.length - n)]

(* seq with n units cut off the low end of its i-th region.                *)
CutFrom(seq, i, n) == [seq EXCEPT ![i] = Region(@.base + n, @.length - n)]

-----------------------------------------------------------------------------
(* slob_init: memmap_alloc takes whole pages for one node per usable entry *)
(* (it halts if no entry has them), and the list becomes the entries that  *)
(* memmap_alloc has just shrunk.                                           *)

NodePages == ((ENTRY * Len(memmap) + PAGE_UNITS - 1) \div PAGE_UNITS) * PAGE_UNITS
CarveAt   == FirstFit(memmap, NodePages)

slob_init ==
    /\ memmap' = CutFrom(memmap, CarveAt, NodePages)
    /\ carved' = carved \union {Region(memmap[CarveAt].base, NodePages)}

(* kernel_main calls slob_init itself; _init stays 0.                      *)
KernelInit ==
    /\ status = "boot"
    /\ CarveAt # 0
    /\ slob_init
    /\ list' = memmap'
    /\ status' = "run"
    /\ UNCHANGED <<_init, header, boot_map, live, node_blocks>>

InitFatal ==
    /\ status = "boot" \/ (status = "run" /\ _init = 0)
    /\ CarveAt = 0
    /\ status' = "halt"
    /\ UNCHANGED <<memmap, _init, list, header, histVars>>

(* The first malloc finds _init = 0 and starts over: it calls slob_init    *)
(* once more before it searches.                                           *)
EnsureInit ==
    \/ /\ _init = 1
       /\ UNCHANGED <<memmap, carved>>
    \/ /\ _init = 0
       /\ CarveAt # 0
       /\ slob_init

(* Mutant of TotalSize: no room is made for the header. *)
TotalWithoutHeader(size) == size

TotalSize(size) == HEADER + size

slob_malloc(size) ==
    /\ status = "run"
    /\ EnsureInit
    /\ _init' = 1
    /\ LET free == IF _init = 1 THEN list ELSE memmap'
           total == TotalSize(size)
           i == FirstFit(free, total)
       IN  IF i = 0
             THEN /\ list' = free
                  /\ UNCHANGED <<header, live>>
             ELSE /\ list' = CutFrom(free, i, total)
                  /\ header' = [header EXCEPT ![free[i].base] = total]
                  /\ live' = live \union {[base |-> free[i].base, size |-> size]}
    /\ UNCHANGED <<boot_map, node_blocks, status>>

(* Free takes its own node from the heap, then puts it in front.           *)
slob_free(b) ==
    LET i == FirstFit(list, HEADER + ENTRY)
    IN  /\ status = "run"
        /\ i # 0
        /\ header' = [header EXCEPT ![list[i].base] = HEADER + ENTRY]
        /\ list' = <<Region(b.base, header'[b.base])>> \o CutFrom(list, i, HEADER + ENTRY)
        /\ node_blocks' = node_blocks \union {Region(list[i].base, HEADER + ENTRY)}
        /\ live' = live \ {b}
        /\ UNCHANGED <<memmap, _init, boot_map, carved, status>>

(* The result of the inner slob_malloc is not tested: with no room for the *)
(* node, free writes through a null pointer.                               *)
FreeFault(b) ==
    /\ status = "run"
    /\ FirstFit(list, HEADER + ENTRY) = 0
    /\ status' = "fault"
    /\ UNCHANGED <<memmap, _init, list, header, histVars>>

Stopped == status \in {"fault", "halt"} /\ UNCHANGED vars

Next ==
    \/ KernelInit
    \/ InitFatal
    \/ \E n \in Sizes : slob_malloc(n)
    \/ \E b \in live : slob_free(b)
    \/ \E b \in live : FreeFault(b)
    \/ Stopped

Spec == Init /\ [][Next]_vars

-----------------------------------------------------------------------------
(* Properties.                                                             *)

Inside(a, r) == r.base <= a /\ a < r.base + r.length
Block(b) == Region(b.base, HEADER + b.size)

(* How many owners address a has: free regions, held blocks, list nodes,   *)
(* pages carved for slob_init.                                             *)
Owners(a) ==
    {<<"free", i>> : i \in {j \in 1 .. Len(list) : Inside(a, list[j])}}
    \union {<<"live", b>> : b \in {c \in live : Inside(a, Block(c))}}
    \union {<<"node", r>> : r \in {c \in node_blocks : Inside(a, c)}}
    \union {<<"page", r>> : r \in {c \in carved : Inside(a, c)}}

(* Every usable address has exactly one owner, at every moment after boot: *)
(* no two blocks overlap, no block is still on the free list, the list's   *)
(* own nodes are not handed out, and no memory is lost, whatever the order *)
(* of mallocs and frees and in spite of the second slob_init.              *)
Partition == status # "boot" /\ list # << >> => \A a \in Addresses : Cardinality(Owners(a)) = 1

(* The header in front of a held block still says how long the block is,   *)
(* so that free returns exactly what malloc took.                          *)
HeaderIntact == \A b \in live : header[b.base] = HEADER + b.size

(* "Free takes the allocated entry and makes it available": a free of a    *)
(* held block never fails.                                                 *)
FreeMakesAvailable == status # "fault"
=============================================================================
