---------------------------- MODULE PmmInitProofs ----------------------------
(***************************************************************************)
(* Proofs about the memory manager's start-up for every memory map that    *)
(* the boot loader may hand over: any number of entries, sorted and apart, *)
(* one of them usable.                                                     *)
(***************************************************************************)
EXTENDS PmmInit, Induction, FiniteSetTheorems

Entries == [base : Nat, length : Nat, usable : BOOLEAN]

(* Entry e as memmap_alloc may have shrunk it from b: the same end.        *)
ShrunkFrom(e, b) ==
    /\ e.usable = b.usable
    /\ b.base <= e.base /\ End(e) = End(b)

MapInv ==
    /\ boot_map \in Maps
    /\ memmap \in Seq(Entries) /\ Len(memmap) = Len(boot_map)
    /\ \A i \in 1 .. Len(memmap) : ShrunkFrom(memmap[i], boot_map[i])

(* Region r lies in what was carved off an entry's low end.                *)
CarvedOff(r) ==
    \E i \in UsableIn(boot_map) : boot_map[i].base <= r.base /\ End(r) <= memmap[i].base

Regions == [base : Nat, length : Nat]
Tables == carved \union (IF page_bitmap = NULL THEN {} ELSE {page_bitmap})

TablesInv ==
    /\ Tables \subseteq Regions
    /\ \A r \in Tables : CarvedOff(r)
    /\ \A r, s \in Tables : r # s => AllPages(r) \cap AllPages(s) = {}

(* The first usable page, and the pages from it to the last.               *)
Lowest(m) == Min({m[i].base : i \in UsableIn(m)})
SpanOf(m) == Max({0} \union {End(m[i]) : i \in UsableIn(m)}) - Lowest(m)

StatsInv ==
    /\ pc = "_init_stats" => memmap = boot_map
    /\ pc # "_init_stats" => num_pages_in_map = SpanOf(boot_map)

(* No bitmap before its step; none after it only if no usable entry had    *)
(* room for it, and then none has room for the entry map either.           *)
BitmapInv ==
    /\ pc \in {"_init_stats", "_create_page_bitmap"} => page_bitmap = NULL
    /\ pc = "entry_map" /\ page_bitmap = NULL =>
           \A i \in UsableIn(memmap) : memmap[i].length < BitmapPages
    /\ pc = "_get_free_pages" \/ KmemReady => page_bitmap # NULL

StartInv == MapInv /\ TablesInv /\ StatsInv /\ BitmapInv

-----------------------------------------------------------------------------
(* The fields of an entry of the memory map.                               *)
LEMMA EntryFields ==
    \A e \in Entries : e.base \in Nat /\ e.length \in Nat /\ e.usable \in BOOLEAN
  BY DEF Entries

(* What the boot loader's map promises, entry by entry: the entries are    *)
(* sorted and apart, and one of them is usable.                            *)
LEMMA MapEntries ==
    ASSUME NEW m \in Maps
    PROVE  /\ m \in Seq(Entries)
           /\ \A i \in 1 .. Len(m) : m[i] \in Entries /\ m[i].base > 0
           /\ \A i, j \in 1 .. Len(m) : i < j => End(m[i]) <= m[j].base
           /\ UsableIn(m) # {}
<1>1. m \in Seq(Entries)
  BY MapsAssumption DEF Entries
<1>2. \A i \in 1 .. Len(m) : m[i] \in Entries
  BY <1>1
<1> QED
  BY <1>1, <1>2, MapsAssumption DEF End, UsableIn

(* Rounding up to pages gives a number of pages.                           *)
LEMMA PagesForNat ==
    ASSUME NEW bytes \in Nat
    PROVE  PagesFor(bytes) \in Nat
<1>1. PAGE_SIZE \in Nat \ {0}
  BY ScaleAssumption
<1>2. bytes + PAGE_SIZE - 1 \in Nat
  BY <1>1
<1> QED
  BY <1>1, <1>2 DEF PagesFor

(* FirstFit returns a usable entry with room, if it returns one at all,    *)
(* and returns one if there is one.                                        *)
LEMMA FirstFitFits ==
    ASSUME memmap \in Seq(Entries), NEW n \in Nat
    PROVE  /\ FirstFit(n) # 0 => /\ FirstFit(n) \in UsableIn(memmap)
                                 /\ n <= memmap[FirstFit(n)].length
           /\ FirstFit(n) = 0 => \A i \in UsableIn(memmap) : memmap[i].length < n
<1> DEFINE I == {i \in 1 .. Len(memmap) : memmap[i].usable /\ memmap[i].length >= n}
<1>1. FirstFit(n) = IF I # {} THEN Min(I) ELSE 0
  BY DEF FirstFit, SelectInSeq
<1>2. \A i \in 1 .. Len(memmap) : memmap[i] \in Entries
  OBVIOUS
<1>3. CASE I = {}
  BY <1>1, <1>2, <1>3, EntryFields DEF UsableIn
<1>4. CASE I # {}
  <2>1. I \in SUBSET Nat
    OBVIOUS
  <2>2. \E x \in I : \A y \in I : x <= y
    BY <1>4, <2>1, LeastNat
  <2>3. Min(I) \in I
    BY <2>2 DEF Min
  <2>4. Min(I) # 0
    BY <2>3
  <2> HIDE DEF I
  <2>5. FirstFit(n) \in I /\ FirstFit(n) # 0
    BY <1>1, <1>4, <2>3, <2>4
  <2> QED
    BY <1>2, <2>5, EntryFields DEF I, UsableIn
<1> QED
  BY <1>3, <1>4

(* The map's span is a number of pages and holds every usable entry: Min   *)
(* and Max find what they seek.                                            *)
LEMMA SpanNat ==
    ASSUME NEW m \in Maps
    PROVE  /\ SpanOf(m) \in Nat /\ Lowest(m) \in Nat
           /\ \A i \in UsableIn(m) :
                  Lowest(m) <= m[i].base /\ End(m[i]) <= Lowest(m) + SpanOf(m)
<1> DEFINE U == UsableIn(m)
           B == {m[i].base : i \in U}
           E == {0} \union {End(m[i]) : i \in U}
<1>1. /\ \A i \in 1 .. Len(m) : m[i] \in Entries
      /\ \A i, j \in 1 .. Len(m) : i < j => End(m[i]) <= m[j].base
      /\ U # {} /\ U \subseteq 1 .. Len(m) /\ Len(m) \in Nat
  BY MapEntries DEF UsableIn
<1>2. \A i \in U : m[i].base \in Nat /\ End(m[i]) \in Nat /\ m[i].base <= End(m[i])
  BY <1>1, EntryFields DEF End
<1> HIDE DEF U
<1>3. Min(B) \in Nat /\ \A i \in U : Min(B) <= m[i].base
  <2>1. B \in SUBSET Nat /\ B # {}
    BY <1>1, <1>2
  <2>2. \E x \in B : \A y \in B : x <= y
    BY <2>1, LeastNat
  <2>3. Min(B) \in B /\ \A y \in B : Min(B) <= y
    BY <2>2 DEF Min
  <2>4. \A i \in U : m[i].base \in B
    OBVIOUS
  <2> HIDE DEF B
  <2> QED
    BY <2>1, <2>3, <2>4
<1>4. PICK k \in U : \A i \in U : i <= k
  <2> DEFINE T == {Len(m) - i : i \in U}
  <2>1. T \in SUBSET Nat /\ T # {}
    <3>1. \A i \in U : Len(m) - i \in Nat
      BY <1>1
    <3> QED
      BY <1>1, <3>1
  <2>2. PICK t \in T : \A u \in T : t <= u
    BY <2>1, LeastNat
  <2>3. PICK k \in U : t = Len(m) - k
    BY <2>2
  <2>4. \A i \in U : Len(m) - k <= Len(m) - i
    BY <2>2, <2>3
  <2>5. \A i \in U : i <= k
    BY <1>1, <2>4
  <2> QED
    BY <2>5
<1>5. \A i \in U : End(m[i]) <= End(m[k])
  <2> SUFFICES ASSUME NEW i \in U PROVE End(m[i]) <= End(m[k])
    OBVIOUS
  <2>1. i = k \/ i < k
    BY <1>1, <1>4
  <2>2. i < k => End(m[i]) <= m[k].base
    BY <1>1
  <2> QED
    BY <1>2, <2>1, <2>2
<1>6. Max(E) \in Nat /\ Max(E) >= End(m[k])
  <2>1. E \subseteq Nat /\ End(m[k]) \in E
    BY <1>2
  <2>2. \A y \in E : End(m[k]) >= y
    BY <1>2, <1>5
  <2>3. \E x \in E : \A y \in E : x >= y
    BY <2>1, <2>2
  <2>4. Max(E) \in E /\ \A y \in E : Max(E) >= y
    BY <2>3 DEF Max
  <2> HIDE DEF E
  <2> QED
    BY <2>1, <2>4
<1>7. Min(B) <= m[k].base /\ m[k].base <= End(m[k])
  BY <1>2, <1>3
<1>8. SpanOf(m) = Max(E) - Min(B) /\ Lowest(m) = Min(B)
  BY DEF SpanOf, Lowest, U
<1> HIDE DEF B, E
<1>9. SpanOf(m) \in Nat /\ Max(E) = Lowest(m) + SpanOf(m)
  BY <1>2, <1>3, <1>6, <1>7, <1>8
<1>10. \A i \in U : End(m[i]) <= Max(E)
  BY <1>2, <1>5, <1>6
<1> QED
  BY <1>3, <1>8, <1>9, <1>10 DEF U

(* memmap_alloc's change to an entry: the base moves up, the end stays.    *)
LEMMA ShrunkEntry ==
    ASSUME NEW x \in Entries, NEW n \in Nat, n <= x.length
    PROVE  LET e == [x EXCEPT !.base = x.base + n, !.length = x.length - n]
           IN  /\ e \in Entries /\ e.usable = x.usable
               /\ e.base = x.base + n /\ e.length = x.length - n
               /\ End(e) = End(x)
<1> DEFINE e == [x EXCEPT !.base = x.base + n, !.length = x.length - n]
<1>1. x.base \in Nat /\ x.length \in Nat /\ x.usable \in BOOLEAN
  BY EntryFields
<1>2. x.base + n \in Nat /\ x.length - n \in Nat
  BY <1>1
<1>3. e.base = x.base + n /\ e.length = x.length - n /\ e.usable = x.usable
  BY DEF Entries
<1>4. e \in Entries
  BY <1>2 DEF Entries
<1> HIDE DEF e
<1>5. End(e) = End(x)
  BY <1>1, <1>3 DEF End
<1> QED
  BY <1>3, <1>4, <1>5 DEF e

(* Regions that lie one behind the other share no page.                    *)
LEMMA ApartPages ==
    ASSUME NEW r, NEW s, End(r) \in Nat, s.base \in Nat, End(r) <= s.base
    PROVE  AllPages(r) \cap AllPages(s) = {}
<1> SUFFICES ASSUME NEW p \in AllPages(r), p \in AllPages(s) PROVE FALSE
  OBVIOUS
<1> QED
  BY DEF AllPages

(* Taking n pages off an entry's low end keeps the map's shape, and puts   *)
(* the piece apart from the tables there are.                              *)
LEMMA CarveHolds ==
    ASSUME MapInv, TablesInv, NEW n \in Nat, NEW i \in UsableIn(memmap),
           n <= memmap[i].length, memmap' = Shrunk(i, n), boot_map' = boot_map,
           Tables' = Tables \union {[base |-> memmap[i].base, length |-> n]}
    PROVE  MapInv' /\ TablesInv' /\ memmap[i].base > 0
<1> DEFINE r == [base |-> memmap[i].base, length |-> n]
<1>1. /\ memmap \in Seq(Entries) /\ i \in 1 .. Len(memmap)
      /\ memmap[i] \in Entries
  BY DEF MapInv, UsableIn
<1>2. memmap[i].base \in Nat /\ memmap[i].length \in Nat
  BY <1>1, EntryFields
<1> DEFINE e == [memmap[i] EXCEPT !.base = @ + n, !.length = @ - n]
<1>3. /\ e \in Entries /\ e.usable = memmap[i].usable
      /\ e.base = memmap[i].base + n /\ e.length = memmap[i].length - n
      /\ End(e) = End(memmap[i])
  BY <1>1, ShrunkEntry
<1>4. memmap' = [memmap EXCEPT ![i] = e]
  BY <1>1, <1>2 DEF Shrunk
<1> HIDE DEF e
<1>5. /\ memmap' \in Seq(Entries) /\ Len(memmap') = Len(memmap)
      /\ \A j \in 1 .. Len(memmap) : memmap'[j] = IF j = i THEN e ELSE memmap[j]
  BY <1>1, <1>3, <1>4
<1>6. MapInv'
  <2> SUFFICES ASSUME NEW j \in 1 .. Len(memmap)
               PROVE  ShrunkFrom(memmap'[j], boot_map[j])
    BY <1>5 DEF MapInv
  <2>1. ShrunkFrom(memmap[j], boot_map[j])
    BY DEF MapInv
  <2>2. boot_map[j] \in Entries
    BY MapEntries DEF MapInv
  <2>3. boot_map[j].base \in Nat
    BY <2>2, EntryFields
  <2>4. CASE j = i
    <3>1. memmap'[j] = e
      BY <1>5, <2>4
    <3> QED
      BY <1>2, <1>3, <2>1, <2>3, <2>4, <3>1 DEF ShrunkFrom
  <2>5. CASE j # i
    BY <1>5, <2>1, <2>5
  <2> QED
    BY <2>4, <2>5
<1>7. UsableIn(boot_map) = UsableIn(memmap)
  BY DEF MapInv, UsableIn, ShrunkFrom
<1>8. \A j \in 1 .. Len(memmap) :
         /\ boot_map[j].base \in Nat /\ boot_map[j].length \in Nat /\ boot_map[j].base > 0
         /\ memmap[j].base \in Nat /\ memmap[j].length \in Nat
         /\ boot_map[j].base <= memmap[j].base
         /\ End(memmap[j]) = End(boot_map[j])
  <2> SUFFICES ASSUME NEW j \in 1 .. Len(memmap)
               PROVE  /\ boot_map[j].base \in Nat /\ boot_map[j].length \in Nat /\ boot_map[j].base > 0
                      /\ memmap[j].base \in Nat /\ memmap[j].length \in Nat
                      /\ boot_map[j].base <= memmap[j].base
                      /\ End(memmap[j]) = End(boot_map[j])
    OBVIOUS
  <2>1. ShrunkFrom(memmap[j], boot_map[j]) /\ memmap[j] \in Entries
    BY DEF MapInv
  <2>2. boot_map[j] \in Entries /\ boot_map[j].base > 0
    BY MapEntries DEF MapInv
  <2> QED
    BY <2>1, <2>2, EntryFields DEF ShrunkFrom
<1>9. \A j \in 1 .. Len(memmap) : memmap[j].base <= memmap'[j].base /\ memmap'[j].base \in Nat
  BY <1>2, <1>3, <1>5, <1>8
<1>10. r \in Regions /\ r.base = memmap[i].base /\ r.length = n
  BY <1>2 DEF Regions
<1>11. ASSUME NEW s \in Tables PROVE s.base \in Nat /\ s.length \in Nat
  BY DEF TablesInv, Regions
<1>12. ASSUME NEW s \in Tables PROVE AllPages(r) \cap AllPages(s) = {}
  <2>1. PICK j \in UsableIn(boot_map) : boot_map[j].base <= s.base /\ End(s) <= memmap[j].base
    BY <1>12 DEF TablesInv, CarvedOff
  <2>2. j \in 1 .. Len(memmap)
    BY <1>7, <2>1 DEF UsableIn
  <2>3. End(r) = memmap[i].base + n /\ End(r) \in Nat /\ End(s) \in Nat
    BY <1>2, <1>10, <1>11 DEF End
  <2> HIDE DEF r
  <2>4. CASE j <= i
    <3>1. j = i \/ End(boot_map[j]) <= boot_map[i].base
      BY <1>1, <2>2, <2>4, MapEntries DEF MapInv
    <3>2. memmap[j].base <= End(memmap[j])
      BY <1>8, <2>2 DEF End
    <3>3. End(boot_map[j]) \in Nat
      BY <1>8, <2>2 DEF End
    <3>4. End(s) <= r.base
      BY <1>1, <1>8, <1>10, <2>1, <2>2, <2>3, <3>1, <3>2, <3>3, SMTT(40)
    <3> QED
      BY <1>2, <1>10, <2>3, <3>4, ApartPages
  <2>5. CASE i < j
    <3>1. End(boot_map[i]) <= boot_map[j].base
      BY <1>1, <2>2, <2>5, MapEntries DEF MapInv
    <3>2. End(r) <= End(memmap[i])
      BY <1>2, <2>3 DEF End
    <3>3. End(boot_map[i]) \in Nat
      BY <1>1, <1>8 DEF End
    <3>4. End(r) <= s.base
      BY <1>1, <1>8, <1>11, <2>1, <2>2, <2>3, <3>1, <3>2, <3>3, Z3T(40)
    <3> QED
      BY <1>11, <2>3, <3>4, ApartPages
  <2> QED
    BY <1>1, <2>2, <2>4, <2>5
<1>13. \A s \in Tables' : CarvedOff(s)'
  <2> SUFFICES ASSUME NEW s \in Tables'
               PROVE  \E j \in UsableIn(boot_map) : boot_map[j].base <= s.base /\ End(s) <= memmap'[j].base
    BY <1>6 DEF CarvedOff
  <2>1. CASE s = r
    <3>1. i \in UsableIn(boot_map)
      BY <1>7
    <3>2. End(s) <= memmap'[i].base
      BY <1>1, <1>2, <1>3, <1>5, <1>10, <2>1 DEF End
    <3>3. boot_map[i].base <= s.base
      BY <1>1, <1>8, <1>10, <2>1
    <3> QED
      BY <3>1, <3>2, <3>3
  <2>2. CASE s \in Tables
    <3>1. PICK j \in UsableIn(boot_map) : boot_map[j].base <= s.base /\ End(s) <= memmap[j].base
      BY <2>2 DEF TablesInv, CarvedOff
    <3>2. j \in 1 .. Len(memmap)
      BY <1>7, <3>1 DEF UsableIn
    <3>3. End(s) \in Nat
      BY <1>11, <2>2 DEF End
    <3>4. End(s) <= memmap'[j].base
      BY <1>8, <1>9, <3>1, <3>2, <3>3
    <3> QED
      BY <3>1, <3>4
  <2> QED
    BY <2>1, <2>2
<1>14. TablesInv'
  <2>1. Tables' \subseteq Regions
    BY <1>10 DEF TablesInv
  <2>2. \A s, t \in Tables' : s # t => AllPages(s) \cap AllPages(t) = {}
    BY <1>12 DEF TablesInv
  <2> QED
    BY <1>13, <2>1, <2>2 DEF TablesInv
<1>15. memmap[i].base > 0
  BY <1>1, <1>8
<1> QED
  BY <1>6, <1>14, <1>15

-----------------------------------------------------------------------------
(* The invariant.                                                          *)

LEMMA InitHolds == Init => StartInv
<1> SUFFICES ASSUME Init PROVE StartInv
  OBVIOUS
<1>1. boot_map \in Maps /\ memmap = boot_map /\ memmap \in Seq(Entries)
  BY MapEntries DEF Init
<1>2. Tables = {}
  BY DEF Init, Tables
<1>3. \A i \in 1 .. Len(memmap) : memmap[i].base \in Nat
  BY <1>1, MapEntries, EntryFields
<1> QED
  BY <1>1, <1>2, <1>3 DEF Init, StartInv, MapInv, ShrunkFrom, TablesInv, StatsInv, BitmapInv, KmemReady

(* A call of memmap_alloc for n pages.                                     *)
LEMMA AllocHolds ==
    ASSUME MapInv, TablesInv, NEW n \in Nat, NEW next, memmap_alloc(n, next),
           UNCHANGED <<page_bitmap, boot_map>>
    PROVE  /\ MapInv' /\ TablesInv'
           /\ pc' \in {"halt", next}
           /\ FirstFit(n) = 0 => pc' = "halt"
<1>1. CASE FirstFit(n) = 0
  <2>1. UNCHANGED <<memmap, carved>> /\ pc' = "halt"
    BY <1>1 DEF memmap_alloc
  <2>2. Tables' = Tables
    BY <2>1 DEF Tables
  <2> QED
    BY <2>1, <2>2 DEF MapInv, TablesInv, CarvedOff
<1>2. CASE FirstFit(n) # 0
  <2> DEFINE i == FirstFit(n)
  <2>1. i \in UsableIn(memmap) /\ n <= memmap[i].length
    BY <1>2, FirstFitFits DEF MapInv
  <2>2. /\ carved' = carved \union {[base |-> memmap[i].base, length |-> n]}
        /\ memmap' = Shrunk(i, n) /\ pc' = next
    BY <1>2 DEF memmap_alloc
  <2> HIDE DEF i
  <2>3. Tables' = Tables \union {[base |-> memmap[i].base, length |-> n]}
    BY <2>2 DEF Tables
  <2>4. MapInv' /\ TablesInv'
    BY <2>1, <2>2, <2>3, CarveHolds
  <2> QED
    BY <1>2, <2>2, <2>4
<1> QED
  BY <1>1, <1>2

(* _init_stats counts the pages from the lowest entry to the highest end.  *)
LEMMA StatsHolds == StartInv /\ _init_stats => StartInv'
<1> SUFFICES ASSUME StartInv, _init_stats PROVE StartInv'
  OBVIOUS
<1>1. /\ pc = "_init_stats" /\ pc' = "_create_page_bitmap"
      /\ UNCHANGED <<memmap, page_bitmap, carved, boot_map>>
  BY DEF _init_stats
<1>2. num_pages_in_map' = SpanOf(boot_map)
  BY DEF _init_stats, SpanOf, Lowest, StartInv, StatsInv
<1>3. Tables' = Tables /\ MapInv' /\ TablesInv'
  BY <1>1 DEF StartInv, Tables, MapInv, TablesInv, CarvedOff
<1> QED
  BY <1>1, <1>2, <1>3 DEF StartInv, StatsInv, BitmapInv, KmemReady

(* The bitmap takes a whole number of pages.                               *)
LEMMA BitmapPagesNat == ASSUME num_pages_in_map \in Nat PROVE BitmapPages \in Nat
<1>1. BYTE_BITS \in Nat \ {0}
  BY ScaleAssumption
<1>2. num_pages_in_map \div BYTE_BITS \in Nat
  BY <1>1
<1> QED
  BY <1>2, PagesForNat DEF BitmapPages

(* _create_page_bitmap carves the bitmap off a usable entry, or leaves it  *)
(* NULL.                                                                   *)
LEMMA CreateBitmapHolds == StartInv /\ _create_page_bitmap => StartInv'
<1> SUFFICES ASSUME StartInv, _create_page_bitmap PROVE StartInv'
  OBVIOUS
<1>1. /\ pc = "_create_page_bitmap" /\ pc' = "entry_map" /\ page_bitmap = NULL
      /\ num_pages_in_map' = num_pages_in_map
      /\ UNCHANGED <<carved, boot_map>>
      /\ MapInv /\ TablesInv /\ num_pages_in_map = SpanOf(boot_map)
  BY DEF _create_page_bitmap, statVars, StartInv, StatsInv, BitmapInv
<1>2. BitmapPages \in Nat /\ BitmapPages' = BitmapPages
  BY <1>1, SpanNat, BitmapPagesNat DEF MapInv, BitmapPages, PagesFor
<1> DEFINE i == FirstFit(BitmapPages)
<1>3. CASE i = 0
  <2>1. UNCHANGED <<memmap, page_bitmap>>
    BY <1>3 DEF _create_page_bitmap
  <2>2. Tables' = Tables /\ MapInv' /\ TablesInv'
    BY <1>1, <2>1 DEF Tables, MapInv, TablesInv, CarvedOff
  <2>3. \A j \in UsableIn(memmap) : memmap[j].length < BitmapPages
    BY <1>1, <1>2, <1>3, FirstFitFits DEF MapInv
  <2> QED
    BY <1>1, <1>2, <2>1, <2>2, <2>3 DEF StartInv, StatsInv, BitmapInv, KmemReady
<1>4. CASE i # 0
  <2>1. /\ page_bitmap' = [base |-> memmap[i].base, length |-> BitmapPages]
        /\ memmap' = Shrunk(i, BitmapPages)
    BY <1>4 DEF _create_page_bitmap
  <2>2. i \in UsableIn(memmap) /\ BitmapPages <= memmap[i].length
    BY <1>1, <1>2, <1>4, FirstFitFits DEF MapInv
  <2> HIDE DEF i
  <2>3. memmap[i].base > 0 /\ memmap[i].base \in Nat
    <3>1. i \in 1 .. Len(memmap) /\ memmap[i] \in Entries /\ boot_map[i] \in Entries
          /\ boot_map[i].base > 0 /\ boot_map[i].base <= memmap[i].base
      BY <1>1, <2>2, MapEntries DEF MapInv, UsableIn, ShrunkFrom
    <3> QED
      BY <3>1, EntryFields
  <2>4. page_bitmap' # NULL
    BY <2>1, <2>3 DEF NULL
  <2>5. Tables' = Tables \union {[base |-> memmap[i].base, length |-> BitmapPages]}
    BY <1>1, <2>1, <2>4 DEF Tables
  <2>6. MapInv' /\ TablesInv'
    BY <1>1, <1>2, <2>1, <2>2, <2>5, CarveHolds
  <2> QED
    BY <1>1, <2>4, <2>6 DEF StartInv, StatsInv, BitmapInv, KmemReady
<1> QED
  BY <1>3, <1>4

(* What the entry map asks for is never less than what the bitmap did.     *)
LEMMA EntryMapLarger ==
    ASSUME num_pages_in_map \in Nat
    PROVE  BitmapPages <= PagesFor(PAGE_ENTRY * num_pages_in_map)
<1> DEFINE n == num_pages_in_map
           a == n \div BYTE_BITS
           b == PAGE_ENTRY * n
<1>1. PAGE_SIZE \in Nat \ {0} /\ BYTE_BITS \in Nat \ {0} /\ PAGE_ENTRY \in Nat \ {0}
  BY ScaleAssumption
<1>2. a \in Nat /\ a <= n
  BY <1>1
<1>3. b \in Nat /\ n <= b
  BY <1>1
<1> HIDE DEF a, b
<1>4. a <= b
  BY <1>2, <1>3
<1>5. (a + PAGE_SIZE - 1) \div PAGE_SIZE <= (b + PAGE_SIZE - 1) \div PAGE_SIZE
  BY <1>1, <1>2, <1>3, <1>4
<1> QED
  BY <1>5 DEF BitmapPages, PagesFor, a, b

(* The entry map is carved off behind or apart from the bitmap.            *)
LEMMA EntryMapHolds == StartInv /\ CreateEntryMap => StartInv'
<1> SUFFICES ASSUME StartInv, CreateEntryMap PROVE StartInv'
  OBVIOUS
<1> DEFINE n == PagesFor(PAGE_ENTRY * num_pages_in_map)
<1>1. /\ pc = "entry_map" /\ memmap_alloc(n, "_get_free_pages")
      /\ UNCHANGED <<page_bitmap, boot_map>> /\ num_pages_in_map' = num_pages_in_map
      /\ MapInv /\ TablesInv /\ num_pages_in_map = SpanOf(boot_map)
  BY DEF CreateEntryMap, statVars, StartInv, StatsInv
<1>2. num_pages_in_map \in Nat /\ BitmapPages \in Nat
  BY <1>1, SpanNat, BitmapPagesNat DEF MapInv
<1>3. n \in Nat
  <2>1. PAGE_ENTRY * num_pages_in_map \in Nat
    BY <1>2, ScaleAssumption
  <2> QED
    BY <2>1, PagesForNat
<1>4. BitmapPages <= n
  BY <1>2, EntryMapLarger
<1> HIDE DEF n
<1>5. /\ MapInv' /\ TablesInv' /\ pc' \in {"halt", "_get_free_pages"}
      /\ FirstFit(n) = 0 => pc' = "halt"
  BY <1>1, <1>3, AllocHolds
<1>6. page_bitmap = NULL => pc' = "halt"
  <2> SUFFICES ASSUME page_bitmap = NULL, FirstFit(n) # 0 PROVE FALSE
    BY <1>5
  <2>1. FirstFit(n) \in UsableIn(memmap) /\ n <= memmap[FirstFit(n)].length
    BY <1>1, <1>3, FirstFitFits DEF MapInv
  <2>2. memmap[FirstFit(n)].length < BitmapPages
    BY <1>1, <2>1 DEF StartInv, BitmapInv
  <2>3. memmap[FirstFit(n)] \in Entries
    BY <1>1, <2>1 DEF MapInv, UsableIn
  <2> QED
    BY <1>2, <1>3, <1>4, <2>1, <2>2, <2>3, EntryFields
<1> QED
  BY <1>1, <1>5, <1>6 DEF StartInv, StatsInv, BitmapInv, KmemReady

(* _get_free_pages moves no table.                                         *)
LEMMA FreePagesHolds == StartInv /\ _get_free_pages => StartInv'
<1> SUFFICES ASSUME StartInv, _get_free_pages PROVE StartInv'
  OBVIOUS
<1>1. /\ pc = "_get_free_pages" /\ pc' = "slob_init"
      /\ UNCHANGED <<memmap, page_bitmap, carved, boot_map>> /\ num_pages_in_map' = num_pages_in_map
  BY DEF _get_free_pages, statVars
<1>2. Tables' = Tables /\ MapInv' /\ TablesInv'
  BY <1>1 DEF StartInv, Tables, MapInv, TablesInv, CarvedOff
<1> QED
  BY <1>1, <1>2 DEF StartInv, StatsInv, BitmapInv, KmemReady

(* Both calls of slob_init carve off nodes apart from all earlier tables.  *)
LEMMA SlobInitHolds == StartInv /\ slob_init => StartInv'
<1> SUFFICES ASSUME StartInv, slob_init PROVE StartInv'
  OBVIOUS
<1> DEFINE n == PagesFor(SLOB_ENTRY * Cardinality(UsableIn(memmap)))
           next == IF pc = "slob_init" THEN "first_malloc" ELSE "run"
<1>1. /\ pc \in {"slob_init", "first_malloc"} /\ memmap_alloc(n, next)
      /\ UNCHANGED <<page_bitmap, boot_map>> /\ num_pages_in_map' = num_pages_in_map
      /\ MapInv /\ TablesInv
  BY DEF slob_init, statVars, StartInv
<1>2. n \in Nat
  <2>1. Len(memmap) \in Nat /\ UsableIn(memmap) \subseteq 1 .. Len(memmap)
    BY <1>1 DEF MapInv, UsableIn
  <2>2. IsFiniteSet(1 .. Len(memmap))
    BY <2>1, FS_Interval
  <2>3. Cardinality(UsableIn(memmap)) \in Nat
    BY <2>1, <2>2, FS_Subset, FS_CardinalityType
  <2>4. SLOB_ENTRY * Cardinality(UsableIn(memmap)) \in Nat
    BY <2>3, ScaleAssumption
  <2> QED
    BY <2>4, PagesForNat
<1> HIDE DEF n
<1>3. MapInv' /\ TablesInv' /\ pc' \in {"halt", next}
  BY <1>1, <1>2, AllocHolds
<1> QED
  BY <1>1, <1>3 DEF StartInv, StatsInv, BitmapInv, KmemReady

(* Every step of the start-up keeps the invariant.                         *)
LEMMA NextHolds == StartInv /\ [Next]_vars => StartInv'
<1> SUFFICES ASSUME StartInv, [Next]_vars PROVE StartInv'
  OBVIOUS
<1>1. CASE UNCHANGED vars
  <2>1. UNCHANGED <<memmap, num_pages_in_map, page_bitmap, carved, boot_map, pc>>
    BY <1>1 DEF vars, statVars
  <2>2. Tables' = Tables /\ BitmapPages' = BitmapPages
    BY <2>1 DEF Tables, BitmapPages, PagesFor
  <2> QED
    BY <2>1, <2>2 DEF StartInv, MapInv, TablesInv, CarvedOff, StatsInv, BitmapInv, KmemReady
<1> QED
  BY <1>1, StatsHolds, CreateBitmapHolds, EntryMapHolds, FreePagesHolds, SlobInitHolds
     DEF Next, Done

(* The inductive invariant of the start-up: the memory map is the boot     *)
(* loader's with pieces carved off low ends, and every table lies in one   *)
(* of those pieces, apart from the others.                                 *)
THEOREM StartInvariant == Spec => []StartInv
  BY InitHolds, NextHolds, PTL DEF Spec

(* On every map the bitmap, the entry map and the heap's nodes lie in      *)
(* usable memory, apart from each other, and nothing the map still offers  *)
(* covers them: no page is given away twice during the start-up.           *)
THEOREM TablesApart == Spec => []TablesDisjoint
<1>1. StartInv => TablesDisjoint
  <2> SUFFICES ASSUME MapInv, TablesInv PROVE TablesDisjoint
    BY DEF StartInv
  <2>1. ASSUME NEW j \in UsableIn(boot_map)
        PROVE  /\ j \in 1 .. Len(memmap) /\ j \in UsableIn(memmap)
               /\ memmap[j].base \in Nat /\ memmap[j].length \in Nat
               /\ boot_map[j].base \in Nat /\ boot_map[j].length \in Nat
               /\ boot_map[j].base <= memmap[j].base /\ End(memmap[j]) = End(boot_map[j])
    <3>1. /\ j \in 1 .. Len(memmap) /\ ShrunkFrom(memmap[j], boot_map[j])
          /\ memmap[j] \in Entries /\ boot_map[j] \in Entries /\ j \in UsableIn(memmap)
      BY MapEntries DEF MapInv, UsableIn, ShrunkFrom
    <3> QED
      BY <3>1, EntryFields DEF ShrunkFrom
  <2>2. ASSUME NEW r \in Tables PROVE r.base \in Nat /\ r.length \in Nat /\ End(r) \in Nat
    BY DEF TablesInv, Regions, End
  <2>3. ASSUME NEW r \in Tables
        PROVE  \E i \in UsableIn(boot_map) : AllPages(r) \subseteq AllPages(boot_map[i])
    <3>1. PICK j \in UsableIn(boot_map) : boot_map[j].base <= r.base /\ End(r) <= memmap[j].base
      BY <2>3 DEF TablesInv, CarvedOff
    <3>2. memmap[j].base <= End(boot_map[j]) /\ End(boot_map[j]) \in Nat
      BY <2>1 DEF End
    <3>3. End(r) <= End(boot_map[j])
      BY <2>1, <2>2, <3>1, <3>2
    <3>4. ASSUME NEW p \in AllPages(r) PROVE p \in AllPages(boot_map[j])
      BY <2>1, <2>2, <3>1, <3>2, <3>3 DEF AllPages
    <3> QED
      BY <3>4
  <2>4. ASSUME NEW r \in Tables, NEW i \in UsableIn(memmap)
        PROVE  AllPages(r) \cap AllPages(memmap[i]) = {}
    <3>1. PICK j \in UsableIn(boot_map) : boot_map[j].base <= r.base /\ End(r) <= memmap[j].base
      BY <2>4 DEF TablesInv, CarvedOff
    <3>2. i \in UsableIn(boot_map) /\ i \in 1 .. Len(boot_map) /\ j \in 1 .. Len(boot_map)
      BY <3>1 DEF MapInv, UsableIn, ShrunkFrom
    <3>3. /\ End(memmap[i]) \in Nat /\ memmap[i].base \in Nat /\ boot_map[i].base <= memmap[i].base
          /\ End(memmap[i]) = End(boot_map[i]) /\ boot_map[i].base \in Nat
          /\ memmap[j].base <= End(boot_map[j]) /\ End(boot_map[j]) \in Nat
          /\ memmap[j].base \in Nat /\ boot_map[j].base \in Nat
      <4>1. /\ memmap[i].base \in Nat /\ memmap[i].length \in Nat
            /\ boot_map[i].base \in Nat /\ boot_map[i].base <= memmap[i].base
            /\ End(memmap[i]) = End(boot_map[i])
        BY <2>1, <3>2
      <4>2. /\ memmap[j].base \in Nat /\ memmap[j].length \in Nat
            /\ boot_map[j].base \in Nat /\ End(memmap[j]) = End(boot_map[j])
        BY <2>1, <3>1
      <4>3. End(memmap[i]) \in Nat
        BY <4>1 DEF End
      <4>4. memmap[j].base <= End(memmap[j]) /\ End(memmap[j]) \in Nat
        BY <4>2 DEF End
      <4> QED
        BY <4>1, <4>2, <4>3, <4>4
    <3>4. CASE j = i
      <4>1. End(r) <= memmap[i].base
        BY <3>1, <3>4
      <4> QED
        BY <2>2, <3>3, <4>1, ApartPages
    <3>5. CASE j < i
      <4>1. End(boot_map[j]) <= boot_map[i].base
        BY <3>2, <3>5, MapEntries DEF MapInv
      <4>2. End(r) <= memmap[i].base
        BY <2>2, <3>1, <3>3, <4>1
      <4> QED
        BY <2>2, <3>3, <4>2, ApartPages
    <3>6. CASE i < j
      <4>1. End(boot_map[i]) <= boot_map[j].base
        BY <3>2, <3>6, MapEntries DEF MapInv
      <4>2. End(memmap[i]) <= r.base
        BY <2>2, <3>1, <3>3, <4>1
      <4>3. AllPages(memmap[i]) \cap AllPages(r) = {}
        BY <2>2, <3>3, <4>2, ApartPages
      <4> QED
        BY <4>3
    <3> QED
      BY <3>2, <3>4, <3>5, <3>6
  <2> QED
    BY <2>3, <2>4 DEF TablesDisjoint, Tables, TablesInv
<1> QED
  BY <1>1, StartInvariant, PTL

-----------------------------------------------------------------------------
(* The bitmap.  num_pages_in_map / 8 loses up to seven pages; rounding the *)
(* quotient up to whole pages makes up for it unless the number of pages   *)
(* falls just past a multiple of what a page of bitmap describes.          *)

Covered == \A m \in Maps : SpanOf(m) % (PAGE_SIZE * BYTE_BITS) \notin 1 .. BYTE_BITS - 1

BitsInv ==
    /\ pc \in {"entry_map", "_get_free_pages"} => \A p \in DOMAIN bits : bits[p] = TRUE
    /\ pc = "slob_init" => \A p \in DOMAIN bits : bits[p] <=> ~InUsable(memmap, p)

(* Multiplication keeps order.                                             *)
LEMMA ProductMonotone ==
    ASSUME NEW k \in Nat, NEW x \in Nat, NEW y \in Nat, x <= y
    PROVE  k * x <= k * y
  OBVIOUS

(* Quotient and remainder.                                                 *)
LEMMA QuotientBounds ==
    ASSUME NEW x \in Nat, NEW k \in Nat, k > 0
    PROVE  /\ x \div k \in Nat /\ x % k \in 0 .. k - 1
           /\ x = k * (x \div k) + (x % k)
<1>1. x % k \in 0 .. k - 1
  OBVIOUS
<1>2. x \div k \in Nat
  OBVIOUS
<1>3. x = k * (x \div k) + (x % k)
  OBVIOUS
<1> QED
  BY <1>1, <1>2, <1>3

(* Then the bitmap has a bit for every page.                               *)
LEMMA BitForEveryPage ==
    ASSUME NEW n \in Nat, n % (PAGE_SIZE * BYTE_BITS) \notin 1 .. BYTE_BITS - 1
    PROVE  n <= PagesFor(n \div BYTE_BITS) * PAGE_SIZE * BYTE_BITS
<1> DEFINE P == PAGE_SIZE
           B == BYTE_BITS
           M == P * B
           d == n \div B
           g == (d + P - 1) \div P
           q == n \div M
           r == n % M
<1>1. P \in Nat /\ P > 0 /\ B \in Nat /\ B > 0
  BY ScaleAssumption
<1>2. M \in Nat /\ M > 0 /\ B <= M
  BY <1>1
<1>3. d \in Nat /\ n < B * d + B
  BY <1>1, QuotientBounds
<1>4. g \in Nat /\ d <= P * g
  <2>1. d + P - 1 \in Nat
    BY <1>1, <1>3
  <2> HIDE DEF d
  <2>2. d + P - 1 = P * g + ((d + P - 1) % P) /\ (d + P - 1) % P \in 0 .. P - 1 /\ g \in Nat
    BY <1>1, <2>1, QuotientBounds
  <2> HIDE DEF g, P
  <2> QED
    BY <1>1, <1>3, <2>2
<1>5. q \in Nat /\ r \in 0 .. M - 1 /\ n = M * q + r
  BY <1>2, QuotientBounds
<1>6. r = 0 \/ r >= B
  BY <1>1, <1>2, <1>5
<1>7. g * P * B = M * g
  BY <1>1, <1>4
<1>8. B * d <= M * g
  <2>1. B * d <= B * (P * g)
    BY <1>1, <1>3, <1>4, ProductMonotone
  <2> HIDE DEF d, g
  <2> QED
    BY <1>1, <1>3, <1>4, <2>1
<1> HIDE DEF M, d, g, q, r, P, B
<1>9. n < M * g + B
  <2>1. B * d \in Nat /\ M * g \in Nat
    BY <1>1, <1>2, <1>3, <1>4
  <2> QED
    BY <1>1, <1>3, <1>8, <2>1
<1>10. n <= M * g
  <2>1. M * q \in Nat /\ M * g \in Nat
    BY <1>2, <1>4, <1>5
  <2>2. CASE g >= q + 1
    <3>1. M * (q + 1) <= M * g
      BY <1>2, <1>4, <1>5, <2>2, ProductMonotone
    <3>2. M * (q + 1) = M * q + M
      BY <1>2, <1>5
    <3> QED
      BY <1>2, <1>5, <2>1, <3>1, <3>2
  <2>3. CASE g = q
    BY <1>1, <1>2, <1>5, <1>6, <1>9, <2>1, <2>3
  <2>4. CASE g + 1 <= q
    <3>1. M * (g + 1) <= M * q
      BY <1>2, <1>4, <1>5, <2>4, ProductMonotone
    <3>2. M * (g + 1) = M * g + M
      BY <1>2, <1>4
    <3> QED
      BY <1>1, <1>2, <1>5, <1>9, <2>1, <3>1, <3>2
  <2> QED
    BY <1>4, <1>5, <2>2, <2>3, <2>4
<1>11. PagesFor(n \div BYTE_BITS) * PAGE_SIZE * BYTE_BITS = M * g
  BY <1>7 DEF PagesFor, P, B, d, g
<1> QED
  BY <1>10, <1>11

(* Every step keeps the bitmap in agreement with the boot map and what has *)
(* been carved off it.                                                     *)
LEMMA BitsStep ==
    ASSUME Covered, StartInv, BitsInv, [Next]_vars
    PROVE  BitsInv'
<1>1. CASE _init_stats
  BY <1>1 DEF _init_stats, BitsInv
<1>2. CASE _create_page_bitmap
  <2>1. num_pages_in_map = SpanOf(boot_map) /\ boot_map \in Maps
    BY <1>2 DEF _create_page_bitmap, StartInv, StatsInv, MapInv
  <2>2. num_pages_in_map \in Nat
    BY <2>1, SpanNat
  <2>3. num_pages_in_map <= BitmapPages * PAGE_SIZE * BYTE_BITS
    BY <2>1, <2>2, BitForEveryPage DEF Covered, BitmapPages
  <2>4. BitmapPages * PAGE_SIZE * BYTE_BITS \in Nat
    BY <2>2, BitmapPagesNat, ScaleAssumption
  <2>5. PICK junk \in BOOLEAN :
          bits' = [p \in 0 .. num_pages_in_map - 1 |->
                       p < BitmapPages * PAGE_SIZE * BYTE_BITS \/ junk]
    BY <1>2 DEF _create_page_bitmap
  <2>6. \A p \in 0 .. num_pages_in_map - 1 : p < BitmapPages * PAGE_SIZE * BYTE_BITS
    BY <2>2, <2>3, <2>4
  <2>7. \A p \in DOMAIN bits' : bits'[p] = TRUE
    BY <2>5, <2>6
  <2> QED
    BY <1>2, <2>7 DEF _create_page_bitmap, BitsInv
<1>3. CASE CreateEntryMap
  <2>1. pc = "entry_map" /\ bits' = bits /\ pc' \in {"halt", "_get_free_pages"}
    BY <1>3 DEF CreateEntryMap, memmap_alloc
  <2> QED
    BY <2>1 DEF BitsInv
<1>4. CASE _get_free_pages
  <2>1. /\ pc = "_get_free_pages" /\ pc' = "slob_init"
        /\ bits' = [p \in DOMAIN bits |-> bits[p] /\ ~InUsable(memmap, p)]
        /\ memmap' = memmap /\ lowest_address' = lowest_address
    BY <1>4 DEF _get_free_pages, statVars
  <2>2. \A p : InUsable(memmap, p)' <=> InUsable(memmap, p)
    BY <2>1 DEF InUsable
  <2>3. \A p \in DOMAIN bits : bits[p] = TRUE
    BY <2>1 DEF BitsInv
  <2> QED
    BY <2>1, <2>2, <2>3 DEF BitsInv
<1>5. CASE slob_init
  <2>1. pc' \in {"halt", "first_malloc", "run"}
    BY <1>5 DEF slob_init, memmap_alloc
  <2> QED
    BY <2>1 DEF BitsInv
<1>6. CASE UNCHANGED vars
  <2>1. UNCHANGED <<pc, bits, memmap, lowest_address>>
    BY <1>6 DEF vars, statVars
  <2>2. \A p : InUsable(memmap, p)' <=> InUsable(memmap, p)
    BY <2>1 DEF InUsable
  <2> QED
    BY <2>1, <2>2 DEF BitsInv
<1> QED
  BY <1>1, <1>2, <1>3, <1>4, <1>5, <1>6 DEF Next, Done

(* On every such map the bitmap says free of exactly the pages that are    *)
(* usable and hold no table, and kernel code that uses the bitmap runs     *)
(* only if there is one.                                                   *)
THEOREM BitmapRight == ASSUME Covered PROVE Spec => []BitmapMatchesMap
<1>1. Init => BitsInv
  BY DEF Init, BitsInv
<1>2. StartInv /\ BitsInv /\ [Next]_vars => BitsInv'
  BY BitsStep
<1>3. StartInv /\ BitsInv => BitmapMatchesMap
  BY DEF StartInv, BitmapInv, BitsInv, BitmapMatchesMap
<1> QED
  BY <1>1, <1>2, <1>3, StartInvariant, PTL DEF Spec

-----------------------------------------------------------------------------
(* Counting pages.                                                         *)

(* The pages of the entries that s names.                                  *)
PagesOf(m, s) == UNION {AllPages(m[i]) : i \in s}

(* No two entries that s names share a page.                               *)
Apart(m, s) ==
    \A i \in s : /\ m[i].base \in Nat /\ m[i].length \in Nat
                 /\ \A j \in s : i # j => AllPages(m[i]) \cap AllPages(m[j]) = {}

(* An entry has as many pages as its length says.                          *)
LEMMA EntryPages ==
    ASSUME NEW r, r.base \in Nat, r.length \in Nat
    PROVE  /\ IsFiniteSet(AllPages(r)) /\ Cardinality(AllPages(r)) = r.length
           /\ AllPages(r) \subseteq Nat
<1>1. r.base \in Int /\ End(r) - 1 \in Int
  BY DEF End
<1>2. IsFiniteSet(AllPages(r))
  BY <1>1, FS_Interval DEF AllPages
<1>3. Cardinality(AllPages(r)) = IF r.base > End(r) - 1 THEN 0 ELSE End(r) - 1 - r.base + 1
  BY <1>1, FS_Interval DEF AllPages
<1>4. AllPages(r) \subseteq Nat
  BY <1>1 DEF AllPages, End
<1> QED
  BY <1>2, <1>3, <1>4 DEF End

(* One more entry adds its length.                                         *)
LEMMA PagesAdd ==
    ASSUME NEW m, NEW s, NEW x \in s, Apart(m, s), IsFiniteSet(PagesOf(m, s \ {x}))
    PROVE  /\ IsFiniteSet(PagesOf(m, s))
           /\ Cardinality(PagesOf(m, s)) = m[x].length + Cardinality(PagesOf(m, s \ {x}))
<1> DEFINE A == AllPages(m[x])
           R == PagesOf(m, s \ {x})
<1>1. IsFiniteSet(A) /\ Cardinality(A) = m[x].length
  BY EntryPages DEF Apart
<1>2. PagesOf(m, s) = A \union R
  BY DEF PagesOf
<1>3. A \cap R = {}
  BY DEF PagesOf, Apart
<1>4. Cardinality(A) \in Nat /\ Cardinality(R) \in Nat /\ Cardinality(A \cap R) = 0
  BY <1>1, <1>3, FS_CardinalityType, FS_EmptySet
<1>5. IsFiniteSet(R)
  OBVIOUS
<1> HIDE DEF A, R
<1>6. IsFiniteSet(A \union R)
      /\ Cardinality(A \union R) = Cardinality(A) + Cardinality(R) - Cardinality(A \cap R)
  BY <1>1, <1>5, FS_Union
<1>7. Cardinality(A \union R) = m[x].length + Cardinality(R)
  BY <1>1, <1>4, <1>6
<1> QED
  BY <1>2, <1>6, <1>7 DEF R

(* Finitely many entries have finitely many pages.                         *)
LEMMA PagesFinite ==
    ASSUME NEW m, NEW s, IsFiniteSet(s), Apart(m, s)
    PROVE  IsFiniteSet(PagesOf(m, s))
<1> DEFINE T == {n \in Nat : \E t \in SUBSET s : Cardinality(t) = n /\ ~IsFiniteSet(PagesOf(m, t))}
<1>1. \A t \in SUBSET s : IsFiniteSet(t) /\ Cardinality(t) \in Nat /\ Apart(m, t)
  BY FS_Subset, FS_CardinalityType DEF Apart
<1> SUFFICES ASSUME T # {} PROVE FALSE
  <2>1. s \in SUBSET s
    OBVIOUS
  <2> QED
    BY <1>1, <2>1
<1>2. PICK n \in T : \A k \in T : n <= k
  BY LeastNat
<1>3. PICK t \in SUBSET s : Cardinality(t) = n /\ ~IsFiniteSet(PagesOf(m, t))
  BY <1>2
<1>4. t # {}
  <2> SUFFICES ASSUME t = {} PROVE FALSE
    OBVIOUS
  <2>1. PagesOf(m, t) = {}
    BY DEF PagesOf
  <2> QED
    BY <1>3, <2>1, FS_EmptySet
<1>5. PICK x \in t : TRUE
  BY <1>4
<1>6. t \ {x} \in SUBSET s /\ Cardinality(t \ {x}) = n - 1 /\ n - 1 \in Nat
  BY <1>1, <1>3, <1>5, FS_RemoveElement, SMTT(40)
<1>7. n - 1 \notin T
  BY <1>2, <1>6
<1>8. IsFiniteSet(PagesOf(m, t \ {x}))
  BY <1>6, <1>7
<1> HIDE DEF T
<1> QED
  BY <1>1, <1>3, <1>5, <1>8, PagesAdd

(* The sum of the lengths, as the loops of _init_stats and _get_free_pages *)
(* add them up, is the number of pages: the library's fold is a CHOOSE of  *)
(* a function that recurs over subsets; g solves its equation, and by the  *)
(* least number every solution equals g.                                   *)
LEMMA SumIsCount ==
    ASSUME NEW m, NEW U, IsFiniteSet(U), Apart(m, U)
    PROVE  MapThenSumSet(LAMBDA i : m[i].length, U) = Cardinality(PagesOf(m, U))
<1> DEFINE Pick(s) == CHOOSE x \in s : TRUE
           Sums(f) == [s \in SUBSET U |-> IF s = {} THEN 0 ELSE m[Pick(s)].length + f[s \ {Pick(s)}]]
           iter == CHOOSE f : f = Sums(f)
           g == [s \in SUBSET U |-> Cardinality(PagesOf(m, s))]
<1>1. MapThenSumSet(LAMBDA i : m[i].length, U) = iter[U]
  BY DEF MapThenSumSet, MapThenFoldSet
<1>2. \A s \in SUBSET U : /\ IsFiniteSet(s) /\ Cardinality(s) \in Nat /\ Apart(m, s)
                          /\ s # {} => Pick(s) \in s
  BY FS_Subset, FS_CardinalityType DEF Apart
<1> HIDE DEF Pick
<1>3. \A s \in SUBSET U : s # {} =>
         Cardinality(PagesOf(m, s)) = m[Pick(s)].length + Cardinality(PagesOf(m, s \ {Pick(s)}))
  <2> SUFFICES ASSUME NEW s \in SUBSET U, s # {}
               PROVE  Cardinality(PagesOf(m, s)) = m[Pick(s)].length + Cardinality(PagesOf(m, s \ {Pick(s)}))
    OBVIOUS
  <2>1. s \ {Pick(s)} \in SUBSET U
    OBVIOUS
  <2>2. IsFiniteSet(PagesOf(m, s \ {Pick(s)}))
    BY <1>2, <2>1, PagesFinite
  <2>3. Pick(s) \in s /\ Apart(m, s)
    BY <1>2
  <2> QED
    BY <2>2, <2>3, PagesAdd
<1>4. PagesOf(m, {}) = {} /\ Cardinality(PagesOf(m, {})) = 0
  BY FS_EmptySet DEF PagesOf
<1>5. g = Sums(g)
  <2>1. \A s \in SUBSET U : s \ {Pick(s)} \in SUBSET U
    OBVIOUS
  <2>2. \A s \in SUBSET U : g[s] = IF s = {} THEN 0 ELSE m[Pick(s)].length + g[s \ {Pick(s)}]
    BY <1>3, <1>4, <2>1
  <2> QED
    BY <2>2
<1>6. iter = Sums(iter)
  BY <1>5
<1>7. \A s \in SUBSET U : iter[s] = IF s = {} THEN 0 ELSE m[Pick(s)].length + iter[s \ {Pick(s)}]
  BY <1>6
<1> HIDE DEF iter, Sums, g
<1> DEFINE T == {n \in Nat : \E s \in SUBSET U : Cardinality(s) = n /\ iter[s] # Cardinality(PagesOf(m, s))}
<1> SUFFICES ASSUME T # {} PROVE FALSE
  BY <1>1, <1>2
<1>8. PICK n \in T : \A k \in T : n <= k
  BY LeastNat
<1>9. PICK s \in SUBSET U : Cardinality(s) = n /\ iter[s] # Cardinality(PagesOf(m, s))
  BY <1>8
<1>10. s # {}
  BY <1>4, <1>7, <1>9
<1>11. s \ {Pick(s)} \in SUBSET U /\ Cardinality(s \ {Pick(s)}) = n - 1 /\ n - 1 \in Nat
  <2>1. Pick(s) \in s /\ IsFiniteSet(s)
    BY <1>2, <1>10
  <2>2. IsFiniteSet(s \ {Pick(s)}) /\ Cardinality(s \ {Pick(s)}) = Cardinality(s) - 1
    BY <2>1, FS_RemoveElement
  <2>3. s \ {Pick(s)} \in SUBSET U
    OBVIOUS
  <2>4. Cardinality(s \ {Pick(s)}) \in Nat
    BY <1>2, <2>3
  <2> QED
    BY <1>9, <2>2, <2>3, <2>4
<1>12. n - 1 \notin T
  BY <1>8, <1>11
<1>13. iter[s \ {Pick(s)}] = Cardinality(PagesOf(m, s \ {Pick(s)}))
  BY <1>11, <1>12
<1> HIDE DEF T
<1> QED
  BY <1>3, <1>7, <1>9, <1>10, <1>13

FreePages == PagesOf(memmap, UsableIn(memmap))

(* max_pages_available counts the usable pages still in the map at every   *)
(* step; num_pages_available is 0 until _get_free_pages.                   *)
CountsInv ==
    /\ pc # "_init_stats" => /\ lowest_address = Lowest(boot_map)
                             /\ max_pages_available = Cardinality(FreePages)
    /\ pc \in {"_init_stats", "_create_page_bitmap", "entry_map", "_get_free_pages"} =>
           num_pages_available = 0
    /\ pc \in {"entry_map", "_get_free_pages"} \/ KmemReady =>
           DOMAIN bits = 0 .. num_pages_in_map - 1
    /\ pc = "slob_init" => num_pages_available = max_pages_available

(* The map's entries stay apart and within the span.                       *)
LEMMA MapApart ==
    ASSUME MapInv
    PROVE  /\ IsFiniteSet(UsableIn(memmap)) /\ Apart(memmap, UsableIn(memmap))
           /\ FreePages \subseteq Lowest(boot_map) .. Lowest(boot_map) + SpanOf(boot_map) - 1
           /\ Lowest(boot_map) \in Nat /\ SpanOf(boot_map) \in Nat
<1>1. /\ UsableIn(memmap) = UsableIn(boot_map) /\ UsableIn(memmap) \subseteq 1 .. Len(memmap)
      /\ Len(memmap) \in Nat /\ Len(memmap) = Len(boot_map) /\ boot_map \in Maps
  BY DEF MapInv, UsableIn, ShrunkFrom
<1>2. IsFiniteSet(UsableIn(memmap))
  <2>1. IsFiniteSet(1 .. Len(memmap))
    BY <1>1, FS_Interval
  <2> QED
    BY <1>1, <2>1, FS_Subset
<1>3. ASSUME NEW i \in 1 .. Len(memmap)
      PROVE  /\ memmap[i].base \in Nat /\ memmap[i].length \in Nat /\ End(memmap[i]) \in Nat
             /\ boot_map[i].base \in Nat
             /\ boot_map[i].base <= memmap[i].base /\ End(memmap[i]) = End(boot_map[i])
  <2>1. memmap[i] \in Entries /\ boot_map[i] \in Entries /\ ShrunkFrom(memmap[i], boot_map[i])
    BY <1>1, MapEntries DEF MapInv
  <2>2. /\ memmap[i].base \in Nat /\ memmap[i].length \in Nat /\ boot_map[i].base \in Nat
        /\ boot_map[i].base <= memmap[i].base /\ End(memmap[i]) = End(boot_map[i])
    BY <2>1, EntryFields DEF ShrunkFrom
  <2>3. End(memmap[i]) \in Nat
    BY <2>2 DEF End
  <2> QED
    BY <2>2, <2>3
<1>4. ASSUME NEW i \in 1 .. Len(memmap), NEW j \in 1 .. Len(memmap), i < j
      PROVE  AllPages(memmap[i]) \cap AllPages(memmap[j]) = {}
  <2>1. End(boot_map[i]) <= boot_map[j].base
    BY <1>1, <1>4, MapEntries
  <2>2. End(memmap[i]) <= memmap[j].base
    BY <1>3, <2>1
  <2> QED
    BY <1>3, <2>2, ApartPages
<1>5. Apart(memmap, UsableIn(memmap))
  <2> SUFFICES ASSUME NEW i \in UsableIn(memmap), NEW j \in UsableIn(memmap), i # j
               PROVE  AllPages(memmap[i]) \cap AllPages(memmap[j]) = {}
    BY <1>1, <1>3 DEF Apart
  <2>1. i \in 1 .. Len(memmap) /\ j \in 1 .. Len(memmap) /\ (i < j \/ j < i)
    BY <1>1
  <2>2. AllPages(memmap[i]) \cap AllPages(memmap[j]) = AllPages(memmap[j]) \cap AllPages(memmap[i])
    OBVIOUS
  <2> QED
    BY <1>4, <2>1, <2>2
<1>6. /\ Lowest(boot_map) \in Nat /\ SpanOf(boot_map) \in Nat
      /\ \A i \in UsableIn(boot_map) :
             /\ Lowest(boot_map) <= boot_map[i].base
             /\ End(boot_map[i]) <= Lowest(boot_map) + SpanOf(boot_map)
  BY <1>1, SpanNat
<1>7. ASSUME NEW p \in FreePages
      PROVE  p \in Lowest(boot_map) .. Lowest(boot_map) + SpanOf(boot_map) - 1
  <2>1. PICK i \in UsableIn(memmap) : p \in AllPages(memmap[i])
    BY DEF FreePages, PagesOf
  <2>2. /\ memmap[i].base \in Nat /\ End(memmap[i]) \in Nat
        /\ Lowest(boot_map) <= memmap[i].base
        /\ End(memmap[i]) <= Lowest(boot_map) + SpanOf(boot_map)
    BY <1>1, <1>3, <1>6, <2>1
  <2>3. p \in Int /\ memmap[i].base <= p /\ p <= End(memmap[i]) - 1
    BY <2>1, <2>2 DEF AllPages
  <2> QED
    BY <1>6, <2>2, <2>3
<1> QED
  BY <1>2, <1>5, <1>6, <1>7

(* The sum of the usable entries' lengths is the number of free pages.     *)
LEMMA FreePagesSum ==
    ASSUME MapInv
    PROVE  /\ IsFiniteSet(FreePages) /\ Cardinality(FreePages) \in Nat
           /\ MapThenSumSet(LAMBDA i : memmap[i].length, UsableIn(memmap)) = Cardinality(FreePages)
  BY MapApart, PagesFinite, SumIsCount, FS_CardinalityType DEF FreePages

(* Carving n pages off an entry takes n pages from the map.                *)
LEMMA CarveCounts ==
    ASSUME MapInv, NEW n \in Nat, NEW i \in UsableIn(memmap),
           n <= memmap[i].length, memmap' = Shrunk(i, n)
    PROVE  Cardinality(FreePages') = Cardinality(FreePages) - n
<1> DEFINE U == UsableIn(memmap)
           R == PagesOf(memmap, U \ {i})
<1>1. memmap \in Seq(Entries) /\ i \in 1 .. Len(memmap) /\ memmap[i] \in Entries
  BY DEF MapInv, UsableIn
<1>2. memmap[i].base \in Nat /\ memmap[i].length \in Nat
  BY <1>1, EntryFields
<1> DEFINE e == [memmap[i] EXCEPT !.base = @ + n, !.length = @ - n]
<1>3. /\ e \in Entries /\ e.usable = memmap[i].usable
      /\ e.base = memmap[i].base + n /\ e.length = memmap[i].length - n
      /\ End(e) = End(memmap[i])
  BY <1>1, ShrunkEntry
<1>4. memmap' = [memmap EXCEPT ![i] = e]
  BY <1>1, <1>2 DEF Shrunk
<1> HIDE DEF e
<1>5. /\ Len(memmap') = Len(memmap)
      /\ \A j \in 1 .. Len(memmap) : memmap'[j] = IF j = i THEN e ELSE memmap[j]
  BY <1>1, <1>3, <1>4
<1>6. UsableIn(memmap') = U
  BY <1>1, <1>3, <1>5 DEF UsableIn
<1>7. \A j \in U \ {i} : memmap'[j] = memmap[j]
  BY <1>5 DEF UsableIn
<1>8. PagesOf(memmap', U \ {i}) = R
  BY <1>7 DEF PagesOf
<1>9. /\ Apart(memmap, U) /\ IsFiniteSet(U) /\ Apart(memmap', U)
  <2>1. Apart(memmap, U) /\ IsFiniteSet(U)
    BY MapApart
  <2>2. \A p : p \in AllPages(e) => p \in AllPages(memmap[i])
    <3>1. e.base \in Nat /\ memmap[i].base <= e.base /\ End(e) = End(memmap[i])
      BY <1>2, <1>3
    <3> QED
      BY <1>2, <3>1 DEF AllPages, End
  <2>3. \A j \in U : /\ memmap'[j].base \in Nat /\ memmap'[j].length \in Nat
                     /\ AllPages(memmap'[j]) \subseteq AllPages(memmap[j])
    <3>1. e.base \in Nat /\ e.length \in Nat
      BY <1>3, EntryFields
    <3>2. memmap'[i] = e
      BY <1>1, <1>5
    <3> QED
      BY <1>7, <2>1, <2>2, <3>1, <3>2 DEF Apart
  <2> HIDE DEF U
  <2> QED
    BY <2>1, <2>3 DEF Apart
<1>10. IsFiniteSet(R)
  <2>1. IsFiniteSet(U \ {i}) /\ Apart(memmap, U \ {i})
    BY <1>9, FS_Subset DEF Apart
  <2> QED
    BY <2>1, PagesFinite
<1>11. Cardinality(R) \in Nat
  BY <1>10, FS_CardinalityType
<1> HIDE DEF R, U
<1>12. Cardinality(PagesOf(memmap, U)) = memmap[i].length + Cardinality(R)
  <2>1. i \in U
    BY DEF U
  <2> QED
    BY <1>9, <1>10, <2>1, PagesAdd DEF R
<1>13. Cardinality(PagesOf(memmap', U)) = e.length + Cardinality(R)
  <2>1. i \in U /\ IsFiniteSet(PagesOf(memmap', U \ {i}))
    BY <1>8, <1>10 DEF U
  <2>2. Cardinality(PagesOf(memmap', U)) = memmap'[i].length + Cardinality(PagesOf(memmap', U \ {i}))
    BY <1>9, <2>1, PagesAdd
  <2> QED
    BY <1>1, <1>5, <1>8, <2>2
<1>14. FreePages' = PagesOf(memmap', U) /\ FreePages = PagesOf(memmap, U)
  BY <1>6 DEF FreePages, U
<1> QED
  BY <1>2, <1>3, <1>11, <1>12, <1>13, <1>14

(* memmap_alloc takes from max_pages_available what it takes from the map. *)
LEMMA AllocCounts ==
    ASSUME MapInv, NEW n \in Nat, NEW next, memmap_alloc(n, next),
           max_pages_available = Cardinality(FreePages)
    PROVE  max_pages_available' = Cardinality(FreePages')
<1>1. CASE FirstFit(n) = 0
  BY <1>1 DEF memmap_alloc, FreePages
<1>2. CASE FirstFit(n) # 0
  <2> DEFINE i == FirstFit(n)
  <2>1. i \in UsableIn(memmap) /\ n <= memmap[i].length
    BY <1>2, FirstFitFits DEF MapInv
  <2>2. memmap' = Shrunk(i, n) /\ max_pages_available' = max_pages_available - n
    BY <1>2 DEF memmap_alloc
  <2> HIDE DEF i
  <2> QED
    BY <2>1, <2>2, CarveCounts
<1> QED
  BY <1>1, <1>2

(* Every step keeps the two page counts in agreement with the map.         *)
LEMMA CountsStep ==
    ASSUME StartInv, CountsInv, [Next]_vars
    PROVE  CountsInv'
<1>1. MapInv
  BY DEF StartInv
<1>2. CASE _init_stats
  <2>1. /\ pc = "_init_stats" /\ pc' = "_create_page_bitmap" /\ memmap = boot_map
        /\ UNCHANGED <<memmap, num_pages_available, boot_map>>
        /\ lowest_address' = Lowest(boot_map)
        /\ max_pages_available' = MapThenSumSet(LAMBDA i : memmap[i].length, UsableIn(memmap))
    BY <1>2 DEF _init_stats, StartInv, StatsInv, Lowest
  <2>2. FreePages' = FreePages
    BY <2>1 DEF FreePages
  <2> QED
    BY <1>1, <2>1, <2>2, FreePagesSum DEF CountsInv, KmemReady
<1>3. CASE _create_page_bitmap
  <2>1. /\ pc = "_create_page_bitmap" /\ pc' = "entry_map" /\ boot_map' = boot_map
        /\ UNCHANGED <<lowest_address, num_pages_in_map, num_pages_available>>
    BY <1>3 DEF _create_page_bitmap, statVars
  <2>2. num_pages_in_map \in Nat /\ BitmapPages \in Nat
    BY <1>1, <2>1, SpanNat, BitmapPagesNat DEF StartInv, StatsInv, MapInv
  <2>3. DOMAIN bits' = 0 .. num_pages_in_map - 1
    BY <1>3 DEF _create_page_bitmap
  <2>4. max_pages_available' = Cardinality(FreePages')
    <3> DEFINE i == FirstFit(BitmapPages)
    <3>1. CASE i = 0
      <4>1. UNCHANGED <<memmap, max_pages_available>>
        BY <1>3, <3>1 DEF _create_page_bitmap
      <4> QED
        BY <2>1, <4>1 DEF CountsInv, KmemReady, FreePages
    <3>2. CASE i # 0
      <4>1. i \in UsableIn(memmap) /\ BitmapPages <= memmap[i].length
        BY <1>1, <2>2, <3>2, FirstFitFits DEF MapInv
      <4>2. memmap' = Shrunk(i, BitmapPages) /\ max_pages_available' = max_pages_available - BitmapPages
        BY <1>3, <3>2 DEF _create_page_bitmap
      <4> HIDE DEF i
      <4>3. Cardinality(FreePages') = Cardinality(FreePages) - BitmapPages
        BY <1>1, <2>2, <4>1, <4>2, CarveCounts
      <4> QED
        BY <2>1, <4>2, <4>3 DEF CountsInv, KmemReady
    <3> QED
      BY <3>1, <3>2
  <2> QED
    BY <2>1, <2>3, <2>4 DEF CountsInv, KmemReady
<1>4. CASE CreateEntryMap
  <2> DEFINE n == PagesFor(PAGE_ENTRY * num_pages_in_map)
  <2>1. /\ pc = "entry_map" /\ memmap_alloc(n, "_get_free_pages") /\ boot_map' = boot_map
        /\ UNCHANGED <<lowest_address, num_pages_in_map, num_pages_available, bits>>
    BY <1>4 DEF CreateEntryMap, statVars
  <2>2. n \in Nat
    <3>1. num_pages_in_map \in Nat
      BY <1>1, <2>1, SpanNat DEF StartInv, StatsInv, MapInv
    <3>2. PAGE_ENTRY * num_pages_in_map \in Nat
      BY <3>1, ScaleAssumption
    <3> QED
      BY <3>2, PagesForNat
  <2> HIDE DEF n
  <2>3. pc' \in {"halt", "_get_free_pages"}
    BY <2>1 DEF memmap_alloc
  <2>4. max_pages_available' = Cardinality(FreePages')
    BY <1>1, <2>1, <2>2, AllocCounts DEF CountsInv, KmemReady
  <2> QED
    BY <2>1, <2>3, <2>4 DEF CountsInv, KmemReady
<1>5. CASE _get_free_pages
  <2>1. /\ pc = "_get_free_pages" /\ pc' = "slob_init" /\ DOMAIN bits' = DOMAIN bits
        /\ UNCHANGED <<memmap, lowest_address, num_pages_in_map, max_pages_available, boot_map>>
        /\ num_pages_available' =
               num_pages_available + MapThenSumSet(LAMBDA i : memmap[i].length, UsableIn(memmap))
    BY <1>5 DEF _get_free_pages, statVars
  <2>2. FreePages' = FreePages
    BY <2>1 DEF FreePages
  <2>3. /\ num_pages_available = 0 /\ max_pages_available = Cardinality(FreePages)
        /\ lowest_address = Lowest(boot_map) /\ DOMAIN bits = 0 .. num_pages_in_map - 1
    BY <2>1 DEF CountsInv, KmemReady
  <2>4. num_pages_available' = 0 + Cardinality(FreePages) /\ Cardinality(FreePages) \in Nat
    BY <1>1, <2>1, <2>3, FreePagesSum
  <2>5. num_pages_available' = Cardinality(FreePages)
    BY <2>4
  <2> QED
    BY <2>1, <2>2, <2>3, <2>5 DEF CountsInv, KmemReady
<1>6. CASE slob_init
  <2> DEFINE n == PagesFor(SLOB_ENTRY * Cardinality(UsableIn(memmap)))
             next == IF pc = "slob_init" THEN "first_malloc" ELSE "run"
  <2>1. /\ pc \in {"slob_init", "first_malloc"} /\ memmap_alloc(n, next) /\ boot_map' = boot_map
        /\ UNCHANGED <<lowest_address, num_pages_in_map, bits>>
    BY <1>6 DEF slob_init, statVars
  <2>2. n \in Nat
    <3>1. Cardinality(UsableIn(memmap)) \in Nat
      BY <1>1, MapApart, FS_CardinalityType
    <3>2. SLOB_ENTRY * Cardinality(UsableIn(memmap)) \in Nat
      BY <3>1, ScaleAssumption
    <3> QED
      BY <3>2, PagesForNat
  <2> HIDE DEF n
  <2>3. pc' \in {"halt", "first_malloc", "run"}
    BY <2>1 DEF memmap_alloc
  <2> HIDE DEF next
  <2>4. max_pages_available' = Cardinality(FreePages')
    BY <1>1, <2>1, <2>2, AllocCounts DEF CountsInv, KmemReady
  <2> QED
    BY <2>1, <2>3, <2>4 DEF CountsInv, KmemReady
<1>7. CASE UNCHANGED vars
  <2>1. UNCHANGED <<memmap, lowest_address, num_pages_in_map, max_pages_available,
                    num_pages_available, bits, boot_map, pc>>
    BY <1>7 DEF vars, statVars
  <2>2. FreePages' = FreePages
    BY <2>1 DEF FreePages
  <2> QED
    BY <2>1, <2>2 DEF CountsInv, KmemReady
<1> QED
  BY <1>2, <1>3, <1>4, <1>5, <1>6, <1>7 DEF Next, Done

(* Bit p stands for page p + lowest_address.                               *)
LEMMA OfferedPages ==
    ASSUME StartInv, CountsInv, KmemReady
    PROVE  Cardinality(Offered) = Cardinality(FreePages)
<1> DEFINE L == Lowest(boot_map)
           N == SpanOf(boot_map)
<1>1. /\ MapInv /\ lowest_address = L /\ DOMAIN bits = 0 .. N - 1
  BY DEF StartInv, StatsInv, CountsInv, KmemReady
<1>2. L \in Nat /\ N \in Nat /\ FreePages \subseteq L .. L + N - 1
  BY <1>1, MapApart
<1>3. ASSUME NEW i \in UsableIn(memmap) PROVE memmap[i].base \in Nat /\ End(memmap[i]) \in Nat
  <2>1. memmap[i].base \in Nat /\ memmap[i].length \in Nat
    BY <1>1, MapApart DEF Apart
  <2> QED
    BY <2>1 DEF End
<1> HIDE DEF L, N
<1>4. ASSUME NEW p \in 0 .. N - 1 PROVE InUsable(memmap, p) <=> p + L \in FreePages
  <2>1. ASSUME NEW i \in UsableIn(memmap)
        PROVE  p \in memmap[i].base - L .. End(memmap[i]) - L - 1 <=> p + L \in AllPages(memmap[i])
    <3>1. memmap[i].base \in Nat /\ End(memmap[i]) \in Nat
      BY <1>3
    <3> QED
      BY <1>2, <3>1 DEF AllPages
  <2>2. InUsable(memmap, p) <=>
           \E i \in UsableIn(memmap) : p \in memmap[i].base - L .. End(memmap[i]) - L - 1
    BY <1>1 DEF InUsable
  <2>3. p + L \in FreePages <=> \E i \in UsableIn(memmap) : p + L \in AllPages(memmap[i])
    BY DEF FreePages, PagesOf
  <2> QED
    BY <2>1, <2>2, <2>3
<1>5. Offered = {p \in 0 .. N - 1 : p + L \in FreePages}
  BY <1>1, <1>4 DEF Offered
<1> DEFINE f == [x \in FreePages |-> x - L]
<1>6. f \in Bijection(FreePages, Offered)
  <2>1. \A x \in FreePages : x \in Int /\ x - L \in 0 .. N - 1 /\ (x - L) + L = x
    BY <1>2
  <2>2. f \in [FreePages -> Offered]
    BY <1>5, <2>1
  <2>3. \A x, y \in FreePages : f[x] = f[y] => x = y
    BY <1>2, <2>1
  <2>4. \A p \in Offered : \E x \in FreePages : f[x] = p
    <3> SUFFICES ASSUME NEW p \in Offered PROVE \E x \in FreePages : f[x] = p
      OBVIOUS
    <3>1. p \in 0 .. N - 1 /\ p + L \in FreePages /\ (p + L) - L = p
      BY <1>2, <1>5
    <3> QED
      BY <3>1
  <2> HIDE DEF f
  <2> QED
    BY <2>2, <2>3, <2>4 DEF Bijection, Injection, Surjection, IsInjective
<1> QED
  BY <1>1, <1>6, FreePagesSum, FS_Bijection DEF ExistsBijection

(* When kmem_init returns, the free bits are the pages the map offers.     *)
LEMMA FreeBitsOffered ==
    ASSUME StartInv, BitsInv, CountsInv, pc = "slob_init"
    PROVE  num_pages_available = Cardinality(FreeBits)
<1>1. FreeBits = Offered
  BY DEF BitsInv, FreeBits, Offered
<1> QED
  BY <1>1, OfferedPages DEF CountsInv, KmemReady

(* The reported count and the free bits agree, and only slob_init follows. *)
ReportInv == KmemReady => num_pages_available = Cardinality(FreeBits)

LEMMA ReportStep ==
    ASSUME ReportInv, [Next]_vars,
           pc' = "slob_init" => num_pages_available' = Cardinality(FreeBits')
    PROVE  ReportInv'
<1>1. CASE KmemReady
  <2>1. UNCHANGED <<bits, num_pages_available>>
    BY <1>1 DEF KmemReady, Next, vars, statVars, _init_stats, _create_page_bitmap,
                CreateEntryMap, _get_free_pages, slob_init, Done
  <2>2. FreeBits' = FreeBits
    BY <2>1 DEF FreeBits
  <2> QED
    BY <1>1, <2>1, <2>2 DEF ReportInv
<1>2. CASE ~KmemReady
  <2>1. pc' \notin {"first_malloc", "run"}
    BY <1>2 DEF KmemReady, Next, vars, _init_stats, _create_page_bitmap,
                CreateEntryMap, memmap_alloc, _get_free_pages, slob_init, Done
  <2> QED
    BY <2>1 DEF ReportInv, KmemReady
<1> QED
  BY <1>1, <1>2

(* On every such map the number of available pages that kmem reports is    *)
(* the number of free bits, and the bound that kalloc searches up to is    *)
(* the number of pages the map offers, within the bitmap: when kmem_init   *)
(* returns, and whatever slob_init carves out afterwards.                  *)
THEOREM CountsRight == ASSUME Covered PROVE Spec => []CountsAgree
<1>1. Init => BitsInv /\ CountsInv /\ ReportInv
  BY DEF Init, BitsInv, CountsInv, ReportInv, KmemReady
<1>2. StartInv /\ BitsInv /\ CountsInv /\ [Next]_vars => BitsInv' /\ CountsInv'
  BY BitsStep, CountsStep
<1>3. StartInv /\ BitsInv /\ CountsInv =>
          (pc = "slob_init" => num_pages_available = Cardinality(FreeBits))
  BY FreeBitsOffered
<1>4. /\ ReportInv /\ [Next]_vars
      /\ (pc = "slob_init" => num_pages_available = Cardinality(FreeBits))'
      => ReportInv'
  BY ReportStep
<1>5. StartInv /\ CountsInv /\ ReportInv => CountsAgree
  <2> SUFFICES ASSUME StartInv, CountsInv, ReportInv, KmemReady PROVE CountsAgree
    BY DEF CountsAgree
  <2>1. MapInv /\ num_pages_in_map = SpanOf(boot_map) /\ max_pages_available = Cardinality(FreePages)
    BY DEF StartInv, StatsInv, CountsInv, KmemReady
  <2>2. max_pages_available = Cardinality(Offered)
    BY <2>1, OfferedPages
  <2>3. max_pages_available <= num_pages_in_map
    <3> DEFINE L == Lowest(boot_map)
               N == SpanOf(boot_map)
    <3>1. L \in Nat /\ N \in Nat /\ FreePages \subseteq L .. L + N - 1
      BY <2>1, MapApart
    <3> HIDE DEF L, N
    <3>2. /\ IsFiniteSet(L .. L + N - 1)
          /\ Cardinality(L .. L + N - 1) = IF L > L + N - 1 THEN 0 ELSE L + N - 1 - L + 1
      BY <3>1, FS_Interval
    <3>3. Cardinality(L .. L + N - 1) = N
      BY <3>1, <3>2
    <3>4. Cardinality(FreePages) <= N
      BY <3>1, <3>2, <3>3, FS_Subset
    <3> QED
      BY <2>1, <3>4 DEF N
  <2> QED
    BY <2>2, <2>3 DEF CountsAgree, ReportInv
<1> QED
  BY <1>1, <1>2, <1>3, <1>4, <1>5, StartInvariant, PTL DEF Spec
=============================================================================
