---------------------------- MODULE PageAllocator ----------------------------
(***************************************************************************)
(* The physical memory manager of mem.c after kmem_init: kalloc, kpalloc   *)
(* and kfree over the page bitmap and the entry map.  A step of kalloc is  *)
(* one turn of its search loop.  Pages are counted from lowest_address, so *)
(* _get_addr_from_page and _get_page_from_addr are each other's inverse    *)
(* and a pointer is represented by its page number.                        *)
(*                                                                         *)
(* The spinlock is held over each function's whole body and there is one   *)
(* caller: interrupt handlers never allocate and one CPU runs.  So it is   *)
(* not contended, and pc = "idle" is when it is free.                      *)
(***************************************************************************)
EXTENDS Integers, FiniteSets

CONSTANTS
    NumPages,       \* num_pages_in_map: pages between the lowest and highest address
    MaxPages,       \* max_pages_available: the bound of the search and of kfree
    BootFree,       \* pages _get_free_pages marked free
    PAGE_SIZE,
    SIZE_WORD,      \* 2^width of size_t, scaled down
    COUNT_WORD,     \* 2^width of num_pages_available, scaled down
    Requests,       \* sizes in bytes asked of kalloc
    PageRequests    \* numbers of pages asked of kpalloc

Pages == 0 .. NumPages - 1

ASSUME PagesAssumption ==
    /\ NumPages \in Nat \ {0}
    /\ MaxPages \in 1 .. NumPages
    /\ BootFree \subseteq Pages
ASSUME SizeAssumption ==
    /\ PAGE_SIZE \in Nat \ {0} /\ SIZE_WORD \in Nat /\ SIZE_WORD > PAGE_SIZE
    /\ COUNT_WORD \in Nat /\ COUNT_WORD > NumPages
    /\ Requests \subseteq 0 .. SIZE_WORD - 1
    /\ PageRequests \subseteq Nat

VARIABLES
    page_bitmap,            \* TRUE: taken
    entry_map,              \* pages_allocated of each entry
    allocation_cursor,
    num_pages_available,
    pc,                     \* "idle", "scan", "null" (failed, not yet returned), "halt"
    pages_to_alloc, start_alloc_page, allocated_pages, looped, allocating,
    granted                 \* history: granted[s] = n > 0 if the caller holds n pages at s

mapVars  == <<page_bitmap, entry_map, num_pages_available, granted>>
scanVars == <<pages_to_alloc, start_alloc_page, allocated_pages, looped, allocating>>
vars == <<mapVars, scanVars, allocation_cursor, pc>>

DIV_ROUNDUP(val, div) == ((val + div - 1) % SIZE_WORD) \div div

Init ==
    /\ page_bitmap = [p \in Pages |-> p \notin BootFree]
    /\ entry_map = [p \in Pages |-> 0]
    /\ allocation_cursor = 0
    /\ num_pages_available = Cardinality(BootFree)
    /\ pc = "idle"
    /\ pages_to_alloc = 0 /\ start_alloc_page = 0 /\ allocated_pages = 0
    /\ looped = FALSE /\ allocating = FALSE
    /\ granted = [p \in Pages |-> 0]

-----------------------------------------------------------------------------
(* kalloc.                                                                 *)

KallocEnter(numBytes) ==
    /\ pc = "idle"
    /\ pc' = "scan"
    /\ pages_to_alloc' = DIV_ROUNDUP(numBytes, PAGE_SIZE)
    /\ start_alloc_page' = 0
    /\ allocated_pages' = 0
    /\ looped' = FALSE
    /\ allocating' = FALSE
    /\ UNCHANGED <<mapVars, allocation_cursor>>

kpalloc(numPages) == KallocEnter((PAGE_SIZE * numPages) % SIZE_WORD)

page_state == page_bitmap[allocation_cursor]

(* The run under way after looking at the page under the cursor: a free    *)
(* page starts a run or extends it; a taken one ends it, and leaves        *)
(* allocated_pages as it is.                                               *)
RunStart  == IF ~allocating /\ ~page_state THEN allocation_cursor ELSE start_alloc_page
RunLength ==
    CASE page_state  -> allocated_pages
      [] ~page_state /\ allocating  -> allocated_pages + 1
      [] ~page_state /\ ~allocating -> 1

AtLastPage == allocation_cursor + 1 = MaxPages
(* Mutant of CursorNext: the cursor is not brought back to 0. *)
CursorNextUnwrapped == allocation_cursor + 1

CursorNext == IF AtLastPage THEN 0 ELSE allocation_cursor + 1

(* uint64_t subtraction. *)
Minus(count, n) == IF count >= n THEN count - n ELSE count + COUNT_WORD - n

(* Mutant of _reserve_pages: the last page of the block stays free. *)
ReserveOneShort(startPage, pages) ==
    page_bitmap' = [p \in Pages |->
        page_bitmap[p] \/ (startPage <= p /\ p < startPage + pages - 1)]

_reserve_pages(startPage, pages) ==
    page_bitmap' = [p \in Pages |-> page_bitmap[p] \/ (startPage <= p /\ p < startPage + pages)]

KallocSuccess ==
    /\ pc = "scan"
    /\ RunLength = pages_to_alloc
    /\ allocation_cursor' = CursorNext
    /\ _reserve_pages(RunStart, RunLength)
    /\ entry_map' = [entry_map EXCEPT ![RunStart] = RunLength]
    /\ num_pages_available' = Minus(num_pages_available, RunLength)
    /\ granted' = IF RunLength > 0 THEN [granted EXCEPT ![RunStart] = RunLength] ELSE granted
    /\ pc' = "idle"
    /\ UNCHANGED scanVars

(* Forward the cursor: on to the next page, ...                            *)
ScanOn ==
    /\ pc = "scan"
    /\ RunLength # pages_to_alloc
    /\ ~AtLastPage
    /\ allocation_cursor' = allocation_cursor + 1
    /\ start_alloc_page' = RunStart
    /\ allocated_pages' = RunLength
    /\ allocating' = ~page_state
    /\ UNCHANGED <<mapVars, pages_to_alloc, looped, pc>>

(* Mutants of ScanWrap: the run goes on across the end of memory, or the   *)
(* search forgets that it has been round.                                  *)
ScanWrapKeepsRun ==
    /\ pc = "scan"
    /\ RunLength # pages_to_alloc
    /\ AtLastPage
    /\ ~looped
    /\ allocation_cursor' = 0
    /\ start_alloc_page' = RunStart
    /\ allocated_pages' = RunLength
    /\ looped' = TRUE
    /\ allocating' = ~page_state
    /\ UNCHANGED <<mapVars, pages_to_alloc, pc>>
ScanWrapForgets ==
    /\ pc = "scan"
    /\ RunLength # pages_to_alloc
    /\ AtLastPage
    /\ ~looped
    /\ allocation_cursor' = 0
    /\ start_alloc_page' = RunStart
    /\ allocated_pages' = RunLength
    /\ allocating' = FALSE
    /\ UNCHANGED <<mapVars, pages_to_alloc, looped, pc>>

(* ... or, past the last page, back to the first with the run broken off,  *)
(* ...                                                                     *)
ScanWrap ==
    /\ pc = "scan"
    /\ RunLength # pages_to_alloc
    /\ AtLastPage
    /\ ~looped
    /\ allocation_cursor' = 0
    /\ start_alloc_page' = RunStart
    /\ allocated_pages' = RunLength
    /\ looped' = TRUE
    /\ allocating' = FALSE
    /\ UNCHANGED <<mapVars, pages_to_alloc, pc>>

(* Mutant of ScanFail: gives up the first time the end is reached. *)
ScanFailEarly ==
    /\ pc = "scan"
    /\ RunLength # pages_to_alloc
    /\ AtLastPage
    /\ allocation_cursor' = 0
    /\ pc' = "null"
    /\ UNCHANGED <<mapVars, scanVars>>

(* ... or give up, the second time round.                                  *)
ScanFail ==
    /\ pc = "scan"
    /\ RunLength # pages_to_alloc
    /\ AtLastPage
    /\ looped
    /\ allocation_cursor' = 0
    /\ pc' = "null"
    /\ UNCHANGED <<mapVars, scanVars>>

ReturnNull ==
    /\ pc = "null"
    /\ pc' = "idle"
    /\ UNCHANGED <<mapVars, scanVars, allocation_cursor>>

-----------------------------------------------------------------------------
(* kfree, of any page: a block's first page, or of none (a second free, an *)
(* address inside a block).  Beyond the bound it halts the machine with    *)
(* the lock held.                                                          *)

(* Mutants of kfree: the entry is cleared before it is used, or not at all. *)
KfreeClearsFirst(page_index) ==
    /\ pc = "idle"
    /\ page_index < MaxPages
    /\ entry_map' = [entry_map EXCEPT ![page_index] = 0]
    /\ page_bitmap' = [p \in Pages |->
            page_bitmap[p] /\ ~(page_index <= p /\ p < page_index + entry_map'[page_index])]
    /\ granted' = [granted EXCEPT ![page_index] = 0]
    /\ UNCHANGED <<num_pages_available, scanVars, allocation_cursor, pc>>
KfreeKeepsEntry(page_index) ==
    /\ pc = "idle"
    /\ page_index < MaxPages
    /\ page_bitmap' = [p \in Pages |->
            page_bitmap[p] /\ ~(page_index <= p /\ p < page_index + entry_map[page_index])]
    /\ granted' = [granted EXCEPT ![page_index] = 0]
    /\ UNCHANGED <<entry_map, num_pages_available, scanVars, allocation_cursor, pc>>

kfree(page_index) ==
    /\ pc = "idle"
    /\ page_index < MaxPages
    /\ page_bitmap' = [p \in Pages |->
            page_bitmap[p] /\ ~(page_index <= p /\ p < page_index + entry_map[page_index])]
    /\ entry_map' = [entry_map EXCEPT ![page_index] = 0]
    /\ granted' = [granted EXCEPT ![page_index] = 0]
    /\ UNCHANGED <<num_pages_available, scanVars, allocation_cursor, pc>>

KfreeFatal(page_index) ==
    /\ pc = "idle"
    /\ page_index >= MaxPages
    /\ pc' = "halt"
    /\ UNCHANGED <<mapVars, scanVars, allocation_cursor>>

hcf == pc = "halt" /\ UNCHANGED vars

-----------------------------------------------------------------------------
KallocStep == KallocSuccess \/ ScanOn \/ ScanWrap \/ ScanFail \/ ReturnNull

Next ==
    \/ \E n \in Requests : KallocEnter(n)
    \/ \E k \in PageRequests : kpalloc(k)
    \/ KallocStep
    \/ \E p \in Pages : kfree(p)
    \/ \E p \in Pages : KfreeFatal(p)
    \/ hcf

Spec == Init /\ [][Next]_vars

(* kalloc runs on once called: nothing it waits for is outside its loop.   *)
FairSpec == Spec /\ WF_vars(KallocStep)

-----------------------------------------------------------------------------
(* Properties.                                                             *)

(* Types.                                                                  *)
TypeOK ==
    /\ page_bitmap \in [Pages -> BOOLEAN]
    /\ entry_map \in [Pages -> 0 .. MaxPages]
    /\ granted \in [Pages -> 0 .. MaxPages]
    /\ allocation_cursor \in 0 .. MaxPages - 1
    /\ num_pages_available \in 0 .. COUNT_WORD - 1
    /\ pc \in {"idle", "scan", "null", "halt"}
    /\ pages_to_alloc \in Nat
    /\ start_alloc_page \in 0 .. MaxPages - 1
    /\ allocated_pages \in 0 .. MaxPages
    /\ looped \in BOOLEAN
    /\ allocating \in BOOLEAN

InBlock(p, s) == s <= p /\ p < s + granted[s]

(* A page is marked taken exactly when boot left it unusable or a caller   *)
(* holds a block with it: nothing leaks and nothing held is marked free.   *)
BitmapExact ==
    \A p \in Pages : page_bitmap[p] <=> (p \notin BootFree \/ \E s \in Pages : InBlock(p, s))

(* entry_map says for every page how long the block starting there is, so  *)
(* kfree gives back exactly what kalloc handed out.                        *)
EntryMapExact == \A p \in Pages : entry_map[p] = granted[p]

(* Blocks are disjoint, usable, and inside the bound that kfree accepts.   *)
BlocksSound ==
    \A s \in Pages : granted[s] > 0 =>
        /\ s + granted[s] <= MaxPages
        /\ \A p \in Pages : InBlock(p, s) => p \in BootFree
        /\ \A t \in Pages : t > s /\ granted[t] > 0 => s + granted[s] <= t

FreeRun(s, n) == \A q \in s .. s + n - 1 : ~page_bitmap[q]

(* kalloc fails only if no run of free pages of that length exists below   *)
(* max_pages_available, wherever the cursor was when the search began.     *)
NullOnlyIfNoRun ==
    pc = "null" => ~\E s \in 0 .. MaxPages - pages_to_alloc : FreeRun(s, pages_to_alloc)

(* The allocator behaves as a pool that grants only unheld usable pages.   *)
Pool == INSTANCE PagePool WITH Usable <- BootFree, MaxBlock <- MaxPages, blocks <- granted
ImplementsPool == Pool!PoolSpec

(* kalloc always returns, with memory or with NULL.                        *)
KallocReturns == pc = "scan" ~> pc = "idle"
=============================================================================
