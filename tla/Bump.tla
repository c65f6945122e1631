-------------------------------- MODULE Bump --------------------------------
(***************************************************************************)
(* The alternative heap, alloc/bump.c (built with ALLOC_USEBUMP): requests *)
(* are cut off the front of the current page, and a request of more than a *)
(* page gets pages of its own, of which the last becomes the current one.  *)
(* An address is page * PAGE_SIZE + byte; NULL is 0 and page 0 belongs to  *)
(* nobody.                                                                 *)
(***************************************************************************)
EXTENDS Integers, FiniteSets

CONSTANTS
    PAGE_SIZE,
    NumPages,   \* the physical memory manager has pages 1 .. NumPages
    Sizes,      \* sizes asked of malloc, in bytes
    MaxCalls    \* bound: calls in a behaviour

VARIABLES
    _cursor,    \* next free byte of the current page
    _offset,    \* meant to be how far into its page _cursor is
    granted,    \* pages the physical memory manager handed out
    blocks,     \* history: the blocks returned to callers
    calls

vars == <<_cursor, _offset, granted, blocks, calls>>

DIV_ROUNDUP(val, div) == (val + div - 1) \div div

Init ==
    /\ _cursor = 0
    /\ _offset = 0
    /\ granted = {}
    /\ blocks = {}
    /\ calls = 0

(* What kpalloc may return: any run of n pages that nobody holds, and NULL *)
(* only if there is none.                                                  *)
RunsOf(n) == {s \in 1 .. NumPages - n + 1 : s .. s + n - 1 \cap granted = {}}
kpalloc(n) == IF RunsOf(n) = {} THEN {0} ELSE {s * PAGE_SIZE : s \in RunsOf(n)}

PagesAt(addr, n) ==
    IF addr = 0 THEN {} ELSE addr \div PAGE_SIZE .. addr \div PAGE_SIZE + n - 1

Return(startAddr, size) ==
    /\ calls < MaxCalls
    /\ calls' = calls + 1
    /\ blocks' = blocks \union {[start |-> startAddr, size |-> size]}

(* More than a page: the result of kpalloc is used unchecked, and _offset  *)
(* is set to the bytes left in the last page.                              *)
bump_malloc_pages(size) ==
    LET numPages == DIV_ROUNDUP(size, PAGE_SIZE)
    IN  /\ numPages > 1
        /\ \E startAddr \in kpalloc(numPages) :
              /\ granted' = granted \union PagesAt(startAddr, numPages)
              /\ _offset' = numPages * PAGE_SIZE - size
              /\ _cursor' = startAddr + size
              /\ Return(startAddr, size)

(* Up to a page, in the current page ...                                   *)
bump_malloc_current(size) ==
    /\ DIV_ROUNDUP(size, PAGE_SIZE) <= 1
    /\ _cursor # 0
    /\ size <= PAGE_SIZE - _offset
    /\ _cursor' = _cursor + size
    /\ _offset' = _offset + size
    /\ Return(_cursor, size)
    /\ UNCHANGED granted

(* ... or in a new one.                                                    *)
bump_malloc_new(size) ==
    /\ DIV_ROUNDUP(size, PAGE_SIZE) <= 1
    /\ _cursor = 0 \/ size > PAGE_SIZE - _offset
    /\ \E page \in kpalloc(1) :
          /\ granted' = granted \union PagesAt(page, 1)
          /\ _cursor' = page + size
          /\ _offset' = size
          /\ Return(page, size)

Next ==
    \E size \in Sizes :
        bump_malloc_pages(size) \/ bump_malloc_current(size) \/ bump_malloc_new(size)

Spec == Init /\ [][Next]_vars

-----------------------------------------------------------------------------
(* Properties.                                                             *)

Bytes(b) == b.start .. b.start + b.size - 1

(* Every byte of a block returned to a caller lies in a page that the      *)
(* physical memory manager handed out to the heap.                         *)
InsideGrant ==
    \A b \in blocks : b.start # 0 => \A a \in Bytes(b) : a \div PAGE_SIZE \in granted
=============================================================================
