------------------------ MODULE PageAllocatorProofs ------------------------
(***************************************************************************)
(* Proofs about PageAllocator for every map: any number of pages, any set  *)
(* of them free at boot, any bound max_pages_available, any requests of at *)
(* least one page.  (A request of no page breaks EntryMapExact: mem.c:402  *)
(* would then succeed on a page that is taken.)                            *)
(***************************************************************************)
EXTENDS PageAllocator, FiniteSetTheorems, TLAPS

(* Every caller asks for at least one page.                                *)
PositiveRequests ==
    /\ \A n \in Requests : DIV_ROUNDUP(n, PAGE_SIZE) \in Nat \ {0}
    /\ \A k \in PageRequests : DIV_ROUNDUP((PAGE_SIZE * k) % SIZE_WORD, PAGE_SIZE) \in Nat \ {0}

(* The run under way: shorter than wanted, ending at the cursor, free.     *)
RunInv ==
    pc = "scan" =>
        /\ allocated_pages < pages_to_alloc
        /\ allocating => /\ allocated_pages > 0
                         /\ start_alloc_page + allocated_pages = allocation_cursor
                         /\ \A q \in start_alloc_page .. allocation_cursor - 1 : ~page_bitmap[q]

(* No run of the wanted length lies wholly below page c.                   *)
NoRunBelow(c) ==
    \A s \in 0 .. c - pages_to_alloc : \E q \in s .. s + pages_to_alloc - 1 : page_bitmap[q]

(* On the second time round everything below the cursor has been searched, *)
(* and the run under way could not have begun any earlier.                 *)
PassInv ==
    pc = "scan" /\ looped =>
        /\ NoRunBelow(allocation_cursor)
        /\ allocating => start_alloc_page = 0 \/ page_bitmap[start_alloc_page - 1]
        /\ ~allocating => allocation_cursor = 0 \/ page_bitmap[allocation_cursor - 1]

Wanted == pc \in {"scan", "null"} => pages_to_alloc > 0

MapInv == BitmapExact /\ EntryMapExact /\ BlocksSound

IInv == TypeOK /\ Wanted /\ RunInv /\ PassInv /\ MapInv /\ NullOnlyIfNoRun

-----------------------------------------------------------------------------
(* The initial state satisfies the invariant.                              *)
LEMMA InitIInv == Init => IInv
<1>1. SUFFICES ASSUME Init PROVE IInv
  OBVIOUS
<1>2. Cardinality(BootFree) \in 0 .. NumPages
  <2>1. IsFiniteSet(Pages) /\ Cardinality(Pages) = NumPages
    BY PagesAssumption, FS_Interval DEF Pages
  <2>2. IsFiniteSet(BootFree) /\ Cardinality(BootFree) <= Cardinality(Pages)
    BY <2>1, PagesAssumption, FS_Subset
  <2>3. QED
    BY <2>1, <2>2, FS_CardinalityType
<1>3. TypeOK
  <2>1. page_bitmap \in [Pages -> BOOLEAN] /\ looped \in BOOLEAN /\ allocating \in BOOLEAN
    BY <1>1 DEF Init
  <2>2. num_pages_available \in 0 .. COUNT_WORD - 1
    BY <1>1, <1>2, PagesAssumption, SizeAssumption DEF Init
  <2>3. QED
    BY <1>1, <2>1, <2>2, PagesAssumption DEF Init, TypeOK
<1>4. Wanted /\ RunInv /\ PassInv /\ NullOnlyIfNoRun
  BY <1>1 DEF Init, Wanted, RunInv, PassInv, NullOnlyIfNoRun
<1>5. MapInv
  <2>1. \A p, s \in Pages : granted[s] = 0 /\ ~InBlock(p, s)
    BY <1>1, PagesAssumption DEF Init, InBlock, Pages
  <2>2. BitmapExact
    BY <1>1, <2>1 DEF Init, BitmapExact
  <2>3. EntryMapExact
    BY <1>1 DEF Init, EntryMapExact
  <2>4. BlocksSound
    BY <2>1 DEF BlocksSound
  <2>5. QED
    BY <2>2, <2>3, <2>4 DEF MapInv
<1>6. QED
  BY <1>3, <1>4, <1>5 DEF IInv

(* What one turn of the loop knows about the run it ends up with.          *)
LEMMA RunFacts ==
    ASSUME IInv, pc = "scan"
    PROVE  /\ RunStart \in 0 .. MaxPages - 1
           /\ RunLength \in 0 .. MaxPages
           /\ RunLength <= pages_to_alloc
           /\ page_state => RunLength < pages_to_alloc
           /\ ~page_state => /\ RunLength > 0
                             /\ RunStart + RunLength = allocation_cursor + 1
                             /\ \A q \in RunStart .. allocation_cursor : ~page_bitmap[q]
<1> USE PagesAssumption DEF IInv, TypeOK, RunInv, Wanted
<1>1. CASE page_state
  BY <1>1 DEF RunStart, RunLength
<1>2. CASE ~page_state /\ allocating
  BY <1>2 DEF RunStart, RunLength, page_state
<1>3. CASE ~page_state /\ ~allocating
  BY <1>3 DEF RunStart, RunLength, page_state
<1>4. QED
  BY <1>1, <1>2, <1>3

(* A turn that does not succeed carries the search one page further.       *)
LEMMA SearchFacts ==
    ASSUME IInv, pc = "scan", looped, RunLength # pages_to_alloc
    PROVE  /\ NoRunBelow(allocation_cursor + 1)
           /\ ~page_state => RunStart = 0 \/ page_bitmap[RunStart - 1]
<1> USE PagesAssumption DEF IInv, TypeOK
<1>1. /\ ~page_state => /\ RunLength > 0 /\ RunLength < pages_to_alloc
                        /\ RunStart + RunLength = allocation_cursor + 1
      /\ RunStart \in 0 .. MaxPages - 1 /\ RunLength \in 0 .. MaxPages
  BY RunFacts
<1>2. ~page_state => RunStart = 0 \/ page_bitmap[RunStart - 1]
  BY DEF PassInv, RunStart, RunInv
<1>3. ASSUME NEW s \in 0 .. allocation_cursor + 1 - pages_to_alloc
      PROVE  \E q \in s .. s + pages_to_alloc - 1 : page_bitmap[q]
  <2>1. CASE s <= allocation_cursor - pages_to_alloc
    <3>1. s \in 0 .. allocation_cursor - pages_to_alloc
      BY <2>1, <1>3
    <3>2. NoRunBelow(allocation_cursor)
      BY DEF PassInv
    <3>3. QED
      BY <3>1, <3>2 DEF NoRunBelow
  <2>2. CASE s + pages_to_alloc = allocation_cursor + 1 /\ page_state
    <3>1. allocation_cursor \in s .. s + pages_to_alloc - 1
      BY <2>2, <1>3 DEF Wanted
    <3>2. QED
      BY <2>2, <3>1 DEF page_state
  <2>3. CASE s + pages_to_alloc = allocation_cursor + 1 /\ ~page_state
    <3>1. s < RunStart /\ s \in Nat
      BY <1>1, <1>3, <2>3
    <3>2. RunStart - 1 \in s .. s + pages_to_alloc - 1 /\ RunStart # 0
      BY <1>1, <1>3, <2>3, <3>1
    <3>3. QED
      BY <1>2, <2>3, <3>2
  <2>4. QED
    BY <1>3, <2>1, <2>2, <2>3
<1>4. QED
  BY <1>2, <1>3 DEF NoRunBelow

-----------------------------------------------------------------------------
(* The run kalloc settles on: within bounds, usable, held by nobody.       *)
LEMMA SuccessFacts ==
    ASSUME IInv, KallocSuccess
    PROVE  /\ pc = "scan" /\ RunLength \in 1 .. MaxPages /\ RunStart \in 0 .. MaxPages - 1
           /\ RunStart + RunLength = allocation_cursor + 1
           /\ allocation_cursor \in 0 .. MaxPages - 1
           /\ \A p \in RunStart .. RunStart + RunLength - 1 :
                   p \in Pages /\ p \in BootFree /\ \A s \in Pages : ~InBlock(p, s)
<1>1. allocation_cursor \in 0 .. MaxPages - 1 /\ pages_to_alloc \in Nat
  BY DEF IInv, TypeOK
<1>2. pc = "scan" /\ RunLength = pages_to_alloc
  BY DEF KallocSuccess
<1>3. /\ RunLength \in 1 .. MaxPages /\ RunStart \in 0 .. MaxPages - 1
      /\ RunStart + RunLength = allocation_cursor + 1
      /\ \A q \in RunStart .. allocation_cursor : ~page_bitmap[q]
  BY <1>1, <1>2, RunFacts, PagesAssumption
<1>4. \A p \in RunStart .. RunStart + RunLength - 1 : p \in Pages /\ ~page_bitmap[p]
  BY <1>1, <1>3, PagesAssumption DEF Pages
<1>5. QED
  BY <1>1, <1>2, <1>3, <1>4 DEF IInv, MapInv, BitmapExact

(* kalloc's success hands out pages nobody holds and records them.         *)
LEMMA SuccessStep == ASSUME IInv, KallocSuccess PROVE IInv'
<1> DEFINE S == RunStart
           N == RunLength
<1>1. /\ N \in 1 .. MaxPages /\ S \in 0 .. MaxPages - 1 /\ S + N = allocation_cursor + 1
      /\ allocation_cursor \in 0 .. MaxPages - 1
      /\ MaxPages \in Nat \ {0} /\ NumPages \in Nat /\ MaxPages <= NumPages
  BY SuccessFacts, PagesAssumption
<1>1a. \A p \in Pages : S <= p /\ p < S + N =>
          p \in BootFree /\ \A s \in Pages : ~InBlock(p, s)
  BY <1>1, SuccessFacts DEF Pages
<1> HIDE DEF S, N
<1>2. /\ page_bitmap' = [p \in Pages |-> page_bitmap[p] \/ (S <= p /\ p < S + N)]
      /\ entry_map' = [entry_map EXCEPT ![S] = N]
      /\ granted' = [granted EXCEPT ![S] = N]
      /\ num_pages_available' = Minus(num_pages_available, N)
      /\ allocation_cursor' = CursorNext
      /\ pc' = "idle"
      /\ UNCHANGED scanVars
  BY <1>1 DEF KallocSuccess, _reserve_pages, S, N
<1>3. S \in Pages /\ \A q \in S .. S + N - 1 : q \in Pages
  BY <1>1 DEF Pages
<1>4. /\ page_bitmap \in [Pages -> BOOLEAN]
      /\ entry_map \in [Pages -> 0 .. MaxPages]
      /\ granted \in [Pages -> 0 .. MaxPages]
      /\ num_pages_available \in 0 .. COUNT_WORD - 1
  BY DEF IInv, TypeOK
<1>5. TypeOK'
  <2>1. num_pages_available' \in 0 .. COUNT_WORD - 1
    BY <1>1, <1>2, <1>4, SizeAssumption DEF Minus
  <2>2. allocation_cursor' \in 0 .. MaxPages - 1
    BY <1>1, <1>2 DEF CursorNext, AtLastPage
  <2>3. page_bitmap' \in [Pages -> BOOLEAN]
    BY <1>2, <1>4
  <2>4. entry_map' \in [Pages -> 0 .. MaxPages] /\ granted' \in [Pages -> 0 .. MaxPages]
    BY <1>1, <1>2, <1>3, <1>4
  <2>5. QED
    BY <1>2, <2>1, <2>2, <2>3, <2>4 DEF IInv, TypeOK, scanVars
<1>7. granted[S] = 0
  BY <1>1, <1>3, <1>4, <1>1a DEF InBlock
<1>8. \A p, s \in Pages : InBlock(p, s)' <=> IF s = S THEN S <= p /\ p < S + N ELSE InBlock(p, s)
  BY <1>2, <1>3, <1>4 DEF InBlock
<1>9. BitmapExact'
  <2>1. \A p \in Pages : (\E s \in Pages : InBlock(p, s)')
                            <=> (S <= p /\ p < S + N) \/ (\E s \in Pages : InBlock(p, s))
    BY <1>1, <1>3, <1>7, <1>8 DEF InBlock, Pages
  <2>2. \A p \in Pages : page_bitmap'[p] <=> page_bitmap[p] \/ (S <= p /\ p < S + N)
    BY <1>2
  <2>3. QED
    BY <2>1, <2>2 DEF IInv, MapInv, BitmapExact
<1>10. EntryMapExact'
  BY <1>2, <1>3, <1>4 DEF IInv, MapInv, EntryMapExact
<1>11. BlocksSound'
  <2>1. SUFFICES ASSUME NEW s \in Pages, granted'[s] > 0
        PROVE  /\ s + granted'[s] <= MaxPages
               /\ \A p \in Pages : InBlock(p, s)' => p \in BootFree
               /\ \A t \in Pages : t > s /\ granted'[t] > 0 => s + granted'[s] <= t
    BY DEF BlocksSound
  <2>2. CASE s = S
    <3>1. granted'[s] = N
      BY <1>2, <1>3, <1>4, <2>2
    <3>2. \A p \in Pages : InBlock(p, s)' => p \in BootFree
      BY <1>1a, <1>8, <2>2
    <3>3. ASSUME NEW t \in Pages, t > s, granted'[t] > 0 PROVE S + N <= t
      <4>1. granted[t] > 0 /\ InBlock(t, t)
        BY <1>1, <1>2, <1>3, <1>4, <2>2, <3>3 DEF InBlock, Pages
      <4>2. ~(S <= t /\ t < S + N)
        BY <1>1a, <4>1
      <4>3. QED
        BY <1>1, <2>2, <3>3, <4>2 DEF Pages
    <3>4. QED
      BY <1>1, <2>2, <3>1, <3>2, <3>3
  <2>3. CASE s # S
    <3>1. granted'[s] = granted[s] /\ granted[s] > 0
      BY <1>2, <1>4, <2>1, <2>3
    <3>2. /\ s + granted[s] <= MaxPages
          /\ \A p \in Pages : InBlock(p, s) => p \in BootFree
          /\ \A t \in Pages : t > s /\ granted[t] > 0 => s + granted[s] <= t
      BY <3>1 DEF IInv, MapInv, BlocksSound
    <3>3. S > s => s + granted[s] <= S
      <4>1. ~InBlock(S, s)
        BY <1>1, <1>3, <1>1a
      <4>2. QED
        BY <1>1, <1>4, <4>1 DEF InBlock, Pages
    <3>4. \A t \in Pages : t > s /\ granted'[t] > 0 => s + granted[s] <= t
      BY <1>2, <1>4, <3>2, <3>3
    <3>5. \A p \in Pages : InBlock(p, s)' => p \in BootFree
      BY <1>8, <2>3, <3>2
    <3>6. QED
      BY <3>1, <3>2, <3>4, <3>5
  <2>4. QED
    BY <2>2, <2>3
<1>12. Wanted' /\ RunInv' /\ PassInv' /\ NullOnlyIfNoRun'
  BY <1>2 DEF Wanted, RunInv, PassInv, NullOnlyIfNoRun
<1>13. QED
  BY <1>5, <1>9, <1>10, <1>11, <1>12 DEF IInv, MapInv
-----------------------------------------------------------------------------
(* Starting a search.                                                      *)
LEMMA EnterStep ==
    ASSUME IInv, NEW n, KallocEnter(n), DIV_ROUNDUP(n, PAGE_SIZE) \in Nat \ {0}
    PROVE  IInv'
<1>1. TypeOK'
  <2>1. looped' \in BOOLEAN /\ allocating' \in BOOLEAN
    BY DEF KallocEnter
  <2>2. UNCHANGED <<page_bitmap, entry_map, granted, num_pages_available, allocation_cursor>>
    BY DEF KallocEnter, mapVars
  <2>3. /\ pc' = "scan" /\ pages_to_alloc' \in Nat
        /\ start_alloc_page' \in 0 .. MaxPages - 1 /\ allocated_pages' \in 0 .. MaxPages
    BY PagesAssumption DEF KallocEnter
  <2>4. QED
    BY <2>1, <2>2, <2>3 DEF IInv, TypeOK
<1>2. Wanted' /\ RunInv' /\ PassInv' /\ NullOnlyIfNoRun'
  BY DEF KallocEnter, Wanted, RunInv, PassInv, NullOnlyIfNoRun
<1>3. MapInv'
  BY DEF IInv, KallocEnter, mapVars, MapInv, BitmapExact, EntryMapExact, BlocksSound, InBlock
<1>4. QED
  BY <1>1, <1>2, <1>3 DEF IInv

(* Forwarding the cursor within a pass.                                    *)
LEMMA OnStep == ASSUME IInv, ScanOn PROVE IInv'
<1>1. /\ pc = "scan" /\ pc' = "scan" /\ RunLength # pages_to_alloc
      /\ allocation_cursor' = allocation_cursor + 1 /\ allocation_cursor + 1 # MaxPages
      /\ start_alloc_page' = RunStart /\ allocated_pages' = RunLength
      /\ allocating' = ~page_state
      /\ UNCHANGED <<mapVars, pages_to_alloc, looped>>
  BY DEF ScanOn, AtLastPage
<1>2. /\ RunStart \in 0 .. MaxPages - 1 /\ RunLength \in 0 .. MaxPages
      /\ RunLength <= pages_to_alloc
      /\ ~page_state => /\ RunLength > 0
                        /\ RunStart + RunLength = allocation_cursor + 1
                        /\ \A q \in RunStart .. allocation_cursor : ~page_bitmap[q]
  BY <1>1, RunFacts
<1>3. allocation_cursor \in 0 .. MaxPages - 1 /\ pages_to_alloc \in Nat /\ MaxPages \in Nat \ {0}
  BY PagesAssumption DEF IInv, TypeOK
<1>4. TypeOK'
  <2>1. allocating' \in BOOLEAN
    BY <1>1
  <2>2. QED
    BY <1>1, <1>2, <1>3, <2>1 DEF IInv, TypeOK, mapVars
<1>5. RunInv' /\ Wanted'
  <2>1. Wanted'
    BY <1>1 DEF IInv, Wanted
  <2>2. allocated_pages' < pages_to_alloc'
    BY <1>1, <1>2, <1>3
  <2>3. ASSUME allocating'
        PROVE  /\ allocated_pages' > 0
               /\ start_alloc_page' + allocated_pages' = allocation_cursor'
               /\ \A q \in start_alloc_page' .. allocation_cursor' - 1 : ~page_bitmap'[q]
    <3>1. ~page_state
      BY <1>1, <2>3
    <3>2. allocation_cursor' - 1 = allocation_cursor /\ page_bitmap' = page_bitmap
      BY <1>1, <1>3 DEF mapVars
    <3>3. QED
      BY <1>1, <1>2, <3>1, <3>2
  <2>4. QED
    BY <2>1, <2>2, <2>3 DEF RunInv
<1>6. PassInv'
  <2>1. SUFFICES ASSUME looped PROVE PassInv'
    BY <1>1 DEF PassInv
  <2>2. /\ NoRunBelow(allocation_cursor + 1)
        /\ ~page_state => RunStart = 0 \/ page_bitmap[RunStart - 1]
    BY <1>1, <2>1, SearchFacts
  <2>3. NoRunBelow(allocation_cursor)'
    BY <1>1, <2>2 DEF NoRunBelow, mapVars
  <2>4. allocating' => start_alloc_page' = 0 \/ page_bitmap'[start_alloc_page' - 1]
    BY <1>1, <2>2 DEF mapVars
  <2>5. ~allocating' => page_bitmap'[allocation_cursor' - 1]
    <3>1. allocation_cursor' - 1 = allocation_cursor /\ page_bitmap' = page_bitmap
      BY <1>1, <1>3 DEF mapVars
    <3>2. ~allocating' => page_state
      BY <1>1
    <3>3. QED
      BY <3>1, <3>2 DEF page_state
  <2>6. QED
    BY <2>3, <2>4, <2>5 DEF PassInv
<1>7. MapInv' /\ NullOnlyIfNoRun'
  <2>1. MapInv'
    BY <1>1 DEF IInv, mapVars, MapInv, BitmapExact, EntryMapExact, BlocksSound, InBlock
  <2>2. NullOnlyIfNoRun'
    BY <1>1 DEF NullOnlyIfNoRun
  <2>3. QED
    BY <2>1, <2>2
<1>8. QED
  BY <1>4, <1>5, <1>6, <1>7 DEF IInv

(* Going back to the first page: nothing lies below it.                    *)
LEMMA WrapStep == ASSUME IInv, ScanWrap PROVE IInv'
<1>1. /\ pc = "scan" /\ pc' = "scan" /\ RunLength # pages_to_alloc
      /\ allocation_cursor' = 0 /\ start_alloc_page' = RunStart
      /\ allocated_pages' = RunLength /\ looped' = TRUE /\ allocating' = FALSE
      /\ UNCHANGED <<mapVars, pages_to_alloc>>
  BY DEF ScanWrap
<1>2. /\ RunStart \in 0 .. MaxPages - 1 /\ RunLength \in 0 .. MaxPages
      /\ RunLength <= pages_to_alloc
  BY <1>1, RunFacts
<1>3. pages_to_alloc \in Nat \ {0} /\ MaxPages \in Nat \ {0}
  BY <1>1, PagesAssumption DEF IInv, TypeOK, Wanted
<1>4. TypeOK'
  <2>1. looped' \in BOOLEAN /\ allocating' \in BOOLEAN
    BY <1>1
  <2>2. allocation_cursor' \in 0 .. MaxPages - 1
    BY <1>1, <1>3
  <2>3. QED
    BY <1>1, <1>2, <2>1, <2>2 DEF IInv, TypeOK, mapVars
<1>5. RunInv' /\ Wanted'
  BY <1>1, <1>2, <1>3 DEF Wanted, RunInv
<1>6. PassInv'
  BY <1>1, <1>3 DEF PassInv, NoRunBelow
<1>7. MapInv'
  BY <1>1 DEF IInv, mapVars, MapInv, BitmapExact, EntryMapExact, BlocksSound, InBlock
<1>8. QED
  BY <1>1, <1>4, <1>5, <1>6, <1>7 DEF IInv, NullOnlyIfNoRun

(* Giving up: by then the whole of 0 .. MaxPages - 1 has been searched.    *)
LEMMA FailStep == ASSUME IInv, ScanFail PROVE IInv'
<1>1. /\ pc = "scan" /\ pc' = "null" /\ RunLength # pages_to_alloc /\ looped
      /\ allocation_cursor + 1 = MaxPages /\ allocation_cursor' = 0
      /\ UNCHANGED <<mapVars, scanVars>>
  BY DEF ScanFail, AtLastPage
<1>2. NoRunBelow(MaxPages)
  BY <1>1, SearchFacts
<1>3. NullOnlyIfNoRun'
  <2>1. ASSUME NEW s \in 0 .. MaxPages - pages_to_alloc PROVE ~FreeRun(s, pages_to_alloc)
    BY <1>2 DEF NoRunBelow, FreeRun
  <2>2. QED
    BY <1>1, <2>1 DEF NullOnlyIfNoRun, FreeRun, mapVars, scanVars
<1>4. TypeOK'
  BY <1>1, PagesAssumption DEF IInv, TypeOK, mapVars, scanVars
<1>5. MapInv'
  BY <1>1 DEF IInv, mapVars, MapInv, BitmapExact, EntryMapExact, BlocksSound, InBlock
<1>6. Wanted' /\ RunInv' /\ PassInv'
  BY <1>1 DEF IInv, Wanted, RunInv, PassInv, scanVars
<1>7. QED
  BY <1>3, <1>4, <1>5, <1>6 DEF IInv

(* Steps that only move pc to "idle" or "halt".                            *)
LEMMA ControlStep ==
    ASSUME IInv, pc' \in {"idle", "halt"}, UNCHANGED <<mapVars, scanVars, allocation_cursor>>
    PROVE  IInv'
<1>1. TypeOK'
  BY DEF IInv, TypeOK, mapVars, scanVars
<1>2. MapInv'
  BY DEF IInv, mapVars, MapInv, BitmapExact, EntryMapExact, BlocksSound, InBlock
<1>3. Wanted' /\ RunInv' /\ PassInv' /\ NullOnlyIfNoRun'
  BY DEF Wanted, RunInv, PassInv, NullOnlyIfNoRun
<1>4. QED
  BY <1>1, <1>2, <1>3 DEF IInv

(* kfree gives back exactly the block starting at its page, or nothing.    *)
LEMMA FreeStep == ASSUME IInv, NEW p \in Pages, kfree(p) PROVE IInv'
<1>1. /\ pc = "idle" /\ pc' = "idle"
      /\ entry_map' = [entry_map EXCEPT ![p] = 0]
      /\ granted' = [granted EXCEPT ![p] = 0]
      /\ page_bitmap' = [q \in Pages |->
                page_bitmap[q] /\ ~(p <= q /\ q < p + entry_map[p])]
      /\ UNCHANGED <<num_pages_available, scanVars, allocation_cursor>>
  BY DEF kfree
<1>2. /\ page_bitmap \in [Pages -> BOOLEAN]
      /\ entry_map \in [Pages -> 0 .. MaxPages]
      /\ granted \in [Pages -> 0 .. MaxPages]
      /\ entry_map[p] = granted[p] /\ MaxPages \in Nat
  BY PagesAssumption DEF IInv, TypeOK, MapInv, EntryMapExact
<1>3. TypeOK'
  <2>1. page_bitmap' \in [Pages -> BOOLEAN]
    BY <1>1, <1>2
  <2>2. entry_map' \in [Pages -> 0 .. MaxPages] /\ granted' \in [Pages -> 0 .. MaxPages]
    BY <1>1, <1>2
  <2>3. QED
    BY <1>1, <2>1, <2>2 DEF IInv, TypeOK, scanVars
<1>4. \A q, s \in Pages : InBlock(q, s)' <=> s # p /\ InBlock(q, s)
  BY <1>1, <1>2 DEF InBlock, Pages
<1>5. \A q, s \in Pages : InBlock(q, p) /\ InBlock(q, s) => s = p
  BY <1>2 DEF IInv, MapInv, BlocksSound, InBlock, Pages
<1>6. \A q \in Pages : InBlock(q, p) => q \in BootFree
  BY <1>2 DEF IInv, MapInv, BlocksSound, InBlock, Pages
<1>7. BitmapExact'
  <2>1. ASSUME NEW q \in Pages
        PROVE  page_bitmap'[q] <=> q \notin BootFree \/ \E s \in Pages : InBlock(q, s)'
    <3>1. page_bitmap'[q] <=> page_bitmap[q] /\ ~InBlock(q, p)
      BY <1>1, <1>2 DEF InBlock
    <3>2. page_bitmap[q] <=> q \notin BootFree \/ \E s \in Pages : InBlock(q, s)
      BY DEF IInv, MapInv, BitmapExact
    <3>3. QED
      BY <1>4, <1>5, <1>6, <3>1, <3>2
  <2>2. QED
    BY <2>1 DEF BitmapExact
<1>8. EntryMapExact'
  BY <1>1, <1>2 DEF IInv, MapInv, EntryMapExact
<1>9. BlocksSound'
  <2>1. \A s \in Pages : granted'[s] > 0 => granted'[s] = granted[s]
    BY <1>1, <1>2
  <2>2. QED
    BY <1>4, <2>1 DEF IInv, MapInv, BlocksSound
<1>10. Wanted' /\ RunInv' /\ PassInv' /\ NullOnlyIfNoRun'
  BY <1>1 DEF Wanted, RunInv, PassInv, NullOnlyIfNoRun
<1>11. QED
  BY <1>3, <1>7, <1>8, <1>9, <1>10 DEF IInv, MapInv

-----------------------------------------------------------------------------
(* Every step keeps the invariant.                                         *)
LEMMA NextStep == ASSUME PositiveRequests, IInv, [Next]_vars PROVE IInv'
<1>1. CASE UNCHANGED vars
  <2>1. /\ TypeOK' /\ Wanted' /\ RunInv' /\ NullOnlyIfNoRun'
    BY <1>1 DEF vars, mapVars, scanVars, IInv, TypeOK, Wanted, RunInv, NullOnlyIfNoRun, FreeRun
  <2>2. PassInv'
    BY <1>1 DEF vars, mapVars, scanVars, IInv, PassInv, NoRunBelow
  <2>3. MapInv'
    BY <1>1 DEF vars, mapVars, IInv, MapInv, BitmapExact, EntryMapExact, BlocksSound, InBlock
  <2>4. QED
    BY <2>1, <2>2, <2>3 DEF IInv
<1>2. ASSUME NEW n \in Requests, KallocEnter(n) PROVE IInv'
  BY <1>2, EnterStep DEF PositiveRequests
<1>3. ASSUME NEW k \in PageRequests, kpalloc(k) PROVE IInv'
  BY <1>3, EnterStep DEF PositiveRequests, kpalloc
<1>4. CASE KallocStep
  BY <1>4, SuccessStep, OnStep, WrapStep, FailStep, ControlStep DEF KallocStep, ReturnNull
<1>5. ASSUME NEW p \in Pages, kfree(p) PROVE IInv'
  BY <1>5, FreeStep
<1>6. ASSUME NEW p \in Pages, KfreeFatal(p) PROVE IInv'
  BY <1>6, ControlStep DEF KfreeFatal
<1>7. QED
  BY <1>1, <1>2, <1>3, <1>4, <1>5, <1>6 DEF Next, hcf

(* The inductive invariant holds in every reachable state.                 *)
THEOREM Invariance == ASSUME PositiveRequests PROVE Spec => []IInv
<1>1. IInv /\ [Next]_vars => IInv'
  BY NextStep
<1>2. QED
  BY InitIInv, <1>1, PTL DEF Spec

(* Type correctness: in particular the cursor stays below                  *)
(* max_pages_available and a block's length fits its entry.                *)
THEOREM TypeCorrect == ASSUME PositiveRequests PROVE Spec => []TypeOK
<1>1. IInv => TypeOK
  BY DEF IInv
<1>2. QED
  BY Invariance, <1>1, PTL

(* The bitmap marks exactly the unusable and the held pages.               *)
THEOREM BitmapCorrect == ASSUME PositiveRequests PROVE Spec => []BitmapExact
<1>1. IInv => BitmapExact
  BY DEF IInv, MapInv
<1>2. QED
  BY Invariance, <1>1, PTL

(* The entry map records exactly the blocks handed out.                    *)
THEOREM EntryMapCorrect == ASSUME PositiveRequests PROVE Spec => []EntryMapExact
<1>1. IInv => EntryMapExact
  BY DEF IInv, MapInv
<1>2. QED
  BY Invariance, <1>1, PTL

(* Blocks are disjoint and usable, and kfree accepts each of them.         *)
THEOREM BlocksCorrect == ASSUME PositiveRequests PROVE Spec => []BlocksSound
<1>1. IInv => BlocksSound
  BY DEF IInv, MapInv
<1>2. QED
  BY Invariance, <1>1, PTL

(* The search is complete up to max_pages_available: NULL means that no    *)
(* run of that many free pages exists there.                               *)
THEOREM SearchComplete == ASSUME PositiveRequests PROVE Spec => []NullOnlyIfNoRun
<1>1. IInv => NullOnlyIfNoRun
  BY DEF IInv
<1>2. QED
  BY Invariance, <1>1, PTL
-----------------------------------------------------------------------------
(* Every step grants unheld pages, releases a block, or leaves the pool.   *)
LEMMA PoolStep ==
    ASSUME IInv, [Next]_vars
    PROVE  [Pool!PoolNext]_granted
<1>1. granted \in [Pages -> 0 .. MaxPages] /\ DOMAIN granted = Pages
  BY DEF IInv, TypeOK
<1>2. CASE KallocSuccess
  <2>1. /\ RunStart \in Pages /\ RunLength \in 1 .. MaxPages
        /\ granted' = [granted EXCEPT ![RunStart] = RunLength]
    BY <1>2, SuccessFacts, PagesAssumption DEF KallocSuccess, Pages
  <2>2. \A p \in RunStart .. RunStart + RunLength - 1 :
            p \in BootFree /\ \A s \in Pages : ~InBlock(p, s)
    BY <1>2, SuccessFacts
  <2>3. RunStart .. RunStart + RunLength - 1 \subseteq BootFree \ Pool!Held
    BY <1>1, <2>2 DEF Pool!Held, Pool!PagesOf, InBlock
  <2>4. Pool!Grant(RunStart, RunLength)
    BY <2>1, <2>3 DEF Pool!Grant
  <2>5. QED
    BY <1>1, <2>1, <2>4 DEF Pool!PoolNext
<1>3. ASSUME NEW p \in Pages, kfree(p) PROVE Pool!PoolNext
  BY <1>1, <1>3 DEF kfree, Pool!PoolNext, Pool!Release
<1>4. ASSUME UNCHANGED mapVars PROVE UNCHANGED granted
  BY <1>4 DEF mapVars
<1>5. QED
  BY <1>2, <1>3, <1>4
     DEF Next, KallocStep, KallocEnter, kpalloc, ScanOn, ScanWrap, ScanFail, ReturnNull,
         KfreeFatal, hcf, vars

(* kalloc and kfree implement a page pool: a page is never handed out to a *)
(* second caller before the first gave it back.                            *)
THEOREM PoolRefinement == ASSUME PositiveRequests PROVE Spec => ImplementsPool
<1>1. Init => Pool!PoolInit
  BY DEF Init, Pool!PoolInit
<1>2. IInv /\ [Next]_vars => [Pool!PoolNext]_granted
  BY PoolStep
<1>3. QED
  BY Invariance, <1>1, <1>2, PTL DEF Spec, ImplementsPool, Pool!PoolSpec
=============================================================================
