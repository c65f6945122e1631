----------------------- MODULE InterruptRoutingProofs -----------------------
(***************************************************************************)
(* Proofs about InterruptRouting for every machine that meets the          *)
(* assumptions: any number of tables, I/O APICs and overrides in any       *)
(* order, any length of the two fixed lists, and interrupts at any moment. *)
(***************************************************************************)
EXTENDS InterruptRouting, Induction, FiniteSetTheorems

-----------------------------------------------------------------------------
(* The walk of a MADT.                                                     *)

IsTable(t) ==
    /\ Len(t.items) \in Nat
    /\ \A j \in 1 .. Len(t.items) : t.items[j].length \in 1 .. 127

(* The bytes in front of a structure are the sum of the lengths in front.  *)
LEMMA OffsetIs ==
    ASSUME NEW t, IsTable(t)
    PROVE  /\ Offset(t, 1) = 0
           /\ \A k \in 1 .. Len(t.items) : Offset(t, k + 1) = Offset(t, k) + t.items[k].length
           /\ \A k \in 1 .. Len(t.items) + 1 : Offset(t, k) \in Nat
<1> DEFINE N == Len(t.items)
           D == 1 .. N + 1
           L(j) == Structure(t, j).length
           step == [n \in Nat |-> [v \in Nat |-> IF n + 1 \in 1 .. N THEN v + L(n + 1) ELSE v]]
           IsSum(g) == g = [j \in D |-> IF j = 1 THEN 0 ELSE g[j - 1] + L(j - 1)]
           before == CHOOSE g : IsSum(g)
<1>0. N \in Nat /\ \A j \in 1 .. N : t.items[j].length \in Nat /\ j <= N
  <2>1. N \in Nat /\ \A j \in 1 .. N : t.items[j].length \in 1 .. 127
    BY Zenon DEF IsTable
  <2>2. 1 .. 127 \subseteq Nat
    OBVIOUS
  <2> HIDE DEF N
  <2>3. \A j \in 1 .. N : j <= N
    BY <2>1
  <2> QED
    BY <2>1, <2>2, <2>3, Zenon
<1>1. N \in Nat /\ \A j \in 1 .. N : Structure(t, j) = t.items[j] /\ L(j) \in Nat
  <2>1. \A j \in 1 .. N : Structure(t, j) = t.items[j]
    BY <1>0 DEF Structure
  <2> QED
    BY <1>0, <2>1
<1> HIDE DEF L, N
<1>2. step \in [Nat -> [Nat -> Nat]]
  BY <1>1
<1>3. PICK f \in [Nat -> Nat] : f[0] = 0 /\ \A n \in Nat : f[n + 1] = step[n][f[n]]
  <2> DEFINE b == 0
             V == Nat
  <2>1. b \in V /\ step \in [Nat -> [V -> V]]
    BY <1>2
  <2> HIDE DEF step, b, V
  <2>2. PICK f : Defines(b, step, f, V)
    BY <2>1, Recursion
  <2> QED
    BY <2>2 DEF b, V, Defines
<1>4. \A j \in 1 .. N : f[j] = f[j - 1] + L(j)
  <2> SUFFICES ASSUME NEW j \in 1 .. N PROVE f[j] = f[j - 1] + L(j)
    OBVIOUS
  <2>1. j - 1 \in Nat /\ (j - 1) + 1 = j /\ f[j - 1] \in Nat
    BY <1>1, <1>3
  <2>2. f[(j - 1) + 1] = step[j - 1][f[j - 1]]
    BY <1>3, <2>1
  <2> QED
    BY <2>1, <2>2
<1> DEFINE h == [j \in D |-> f[j - 1]]
<1>5. IsSum(h)
  <2>1. \A j \in D : h[j] = IF j = 1 THEN 0 ELSE h[j - 1] + L(j - 1)
    BY <1>1, <1>3, <1>4, Z3T(40)
  <2> HIDE DEF h
  <2>2. h = [j \in D |-> h[j]]
    BY DEF h
  <2> QED
    BY <2>1, <2>2
<1>6. IsSum(before)
  <2> HIDE DEF IsSum
  <2> QED
    BY <1>5
<1>7. \A k : Offset(t, k) = before[k]
  BY DEF Offset, L, N
<1> HIDE DEF before
<1>8. before[1] = 0 /\ \A k \in 1 .. N : before[k + 1] = before[k] + L(k)
  <2>1. \A j \in D : before[j] = IF j = 1 THEN 0 ELSE before[j - 1] + L(j - 1)
    BY <1>6
  <2>2. 1 \in D /\ \A k \in 1 .. N : k + 1 \in D /\ k + 1 # 1 /\ (k + 1) - 1 = k
    BY <1>1
  <2> QED
    BY <2>1, <2>2
<1>9. \A k \in D : before[k] \in Nat
  <2> DEFINE S == {n \in Nat : n + 1 \in D => before[n + 1] \in Nat}
  <2>1. 0 \in S
    BY <1>8
  <2>2. ASSUME NEW n \in Nat, n \in S PROVE n + 1 \in S
    BY <1>1, <1>8, <2>2
  <2>3. \A n \in Nat : n \in S
    <3> HIDE DEF S
    <3> QED
      BY <2>1, <2>2, SetInduction
  <2> SUFFICES ASSUME NEW k \in D PROVE before[k] \in Nat
    OBVIOUS
  <2>4. k - 1 \in S /\ (k - 1) + 1 = k
    BY <1>1, <2>3
  <2> QED
    BY <2>4
<1> QED
  BY <1>1, <1>7, <1>8, <1>9 DEF L, N

(* Structures lie one behind the other: an offset belongs to one of them.  *)
LEMMA OffsetsGrow ==
    ASSUME NEW t, IsTable(t), NEW k \in 1 .. Len(t.items) + 1, NEW m \in 1 .. Len(t.items) + 1, k < m
    PROVE  Offset(t, k) < Offset(t, m)
<1> DEFINE N == Len(t.items)
           o == [j \in 1 .. N + 1 |-> Offset(t, j)]
           S == {n \in Nat : k + 1 + n <= N + 1 => o[k] < o[k + 1 + n]}
           L(j) == t.items[j].length
<1>1. /\ N \in Nat
      /\ \A j \in 1 .. N : Offset(t, j + 1) = Offset(t, j) + L(j) /\ L(j) \in 1 .. 127
      /\ \A j \in 1 .. N + 1 : Offset(t, j) \in Nat
  BY OffsetIs DEF IsTable
<1> HIDE DEF L
<1>2. /\ \A j \in 1 .. N : o[j] < o[j + 1]
      /\ \A j \in 1 .. N + 1 : o[j] \in Nat /\ o[j] = Offset(t, j)
  <2> HIDE DEF N
  <2>1. \A j \in 1 .. N + 1 : o[j] \in Nat /\ o[j] = Offset(t, j)
    BY <1>1
  <2>2. \A j \in 1 .. N : j \in 1 .. N + 1 /\ j + 1 \in 1 .. N + 1
    BY <1>1
  <2> HIDE DEF o
  <2>3. ASSUME NEW j \in 1 .. N PROVE o[j] < o[j + 1]
    <3>1. o[j] = Offset(t, j) /\ o[j + 1] = Offset(t, j + 1) /\ o[j] \in Nat
      BY <2>1, <2>2
    <3>2. Offset(t, j + 1) = Offset(t, j) + L(j) /\ L(j) \in 1 .. 127
      BY <1>1
    <3>3. o[j + 1] = o[j] + L(j)
      BY <3>1, <3>2
    <3>4. \A x \in Nat, l \in 1 .. 127 : x < x + l
      OBVIOUS
    <3>5. o[j] < o[j] + L(j)
      BY <3>1, <3>2, <3>4
    <3> QED
      BY <3>3, <3>5
  <2> QED
    BY <2>1, <2>3
<1>3. k \in 1 .. N + 1 /\ m \in 1 .. N + 1
  OBVIOUS
<1> HIDE DEF N, o
<1>4. 0 \in S
  BY <1>1, <1>2, <1>3
<1>5. ASSUME NEW n \in Nat, n \in S PROVE n + 1 \in S
  <2> SUFFICES ASSUME k + 1 + (n + 1) <= N + 1 PROVE o[k] < o[k + 1 + (n + 1)]
    OBVIOUS
  <2> DEFINE x == k + 1 + n
  <2>1. x \in 1 .. N /\ x <= N + 1 /\ k + 1 + (n + 1) = x + 1 /\ x \in 1 .. N + 1 /\ x + 1 \in 1 .. N + 1
    BY <1>1, <1>3
  <2>2. o[k] < o[x]
    BY <1>5, <2>1
  <2> HIDE DEF x
  <2>3. o[x] < o[x + 1] /\ o[k] \in Nat /\ o[x] \in Nat /\ o[x + 1] \in Nat
    BY <1>2, <1>3, <2>1
  <2> QED
    BY <2>1, <2>2, <2>3
<1>6. m - k - 1 \in Nat /\ k + 1 + (m - k - 1) = m /\ m <= N + 1
  BY <1>1, <1>3
<1>7. m - k - 1 \in S
  <2> HIDE DEF S
  <2> QED
    BY <1>4, <1>5, <1>6, SetInduction
<1> QED
  BY <1>2, <1>3, <1>6, <1>7

(* The structure the walk is at.                                           *)
LEMMA CurrentIs ==
    ASSUME fw \in Firmware, i \in Madts(fw), NEW k \in 1 .. Len(fw.tables[i].items) + 1,
           off = Offset(fw.tables[i], k)
    PROVE  Current = Structure(fw.tables[i], k)
<1> DEFINE t == fw.tables[i]
           N == Len(t.items)
           P(j) == j \in 1 .. N + 1 /\ Offset(t, j) = off
           c == CHOOSE j : P(j)
<1>1. IsTable(t) /\ N \in Nat
  BY MadtAssumption DEF IsTable
<1>2. \A j \in 1 .. N + 1 : Offset(t, j) = off => j = k
  <2> SUFFICES ASSUME NEW j \in 1 .. N + 1, Offset(t, j) = off, j # k PROVE FALSE
    OBVIOUS
  <2>1. Offset(t, j) = Offset(t, k) /\ Offset(t, j) \in Nat
    BY <1>1, OffsetIs
  <2>2. j < k \/ k < j
    BY <1>1
  <2>3. Offset(t, j) < Offset(t, k) \/ Offset(t, k) < Offset(t, j)
    BY <1>1, <2>2, OffsetsGrow
  <2> QED
    BY <2>1, <2>3
<1>3. Current = Structure(t, CHOOSE j \in 1 .. N + 1 : Offset(t, j) = off)
  BY DEF Current
<1>4. (CHOOSE j \in 1 .. N + 1 : Offset(t, j) = off) = k
  BY <1>2
<1> QED
  BY <1>3, <1>4

-----------------------------------------------------------------------------
(* What the walk has collected when it is at a place.                      *)

SeenTo(f, type, pos) == {p \in Places(f, type) : Before(p, pos)}
RankOf(f, p, type) == Cardinality({q \in Places(f, type) : ~Before(p, q)})
Capped(n, len) == IF n < len THEN n ELSE len
Collected(f, list, len, type, pos) ==
    /\ IsFiniteSet(SeenTo(f, type, pos))
    /\ list \in Seq(Described(f, type))
    /\ Len(list) = Capped(Cardinality(SeenTo(f, type, pos)), len)
    /\ \A p \in SeenTo(f, type, pos) :
           RankOf(f, p, type) <= len => list[RankOf(f, p, type)] = At(f, p)

(* A place is a table's index and a structure's.                           *)
LEMMA PlaceIs ==
    ASSUME NEW f \in Firmware, NEW type
    PROVE  /\ \A k \in Madts(f) : \A j \in 1 .. Len(f.tables[k].items) :
                  f.tables[k].items[j].type = type => <<k, j>> \in Places(f, type)
           /\ \A p \in Places(f, type) :
                  /\ p[1] \in Madts(f) /\ p[2] \in 1 .. Len(f.tables[p[1]].items)
                  /\ f.tables[p[1]].items[p[2]].type = type /\ p = <<p[1], p[2]>>
                  /\ p[1] \in Nat /\ p[2] \in Nat
<1>1. ASSUME NEW p \in Places(f, type)
      PROVE  /\ p[1] \in Madts(f) /\ p[2] \in 1 .. Len(f.tables[p[1]].items)
             /\ f.tables[p[1]].items[p[2]].type = type /\ p = <<p[1], p[2]>>
             /\ p[1] \in Nat /\ p[2] \in Nat
  <2>1. PICK k \in Madts(f) : p \in PlacesIn(f, k, type)
    BY DEF Places
  <2>2. PICK j \in 1 .. Len(f.tables[k].items) : f.tables[k].items[j].type = type /\ p = <<k, j>>
    BY <2>1 DEF PlacesIn
  <2>3. p[1] = k /\ p[2] = j
    BY <2>2
  <2>4. k \in Nat /\ j \in Nat
    BY DEF Madts
  <2> QED
    BY <2>1, <2>2, <2>3, <2>4
<1>2. ASSUME NEW k \in Madts(f), NEW j \in 1 .. Len(f.tables[k].items), f.tables[k].items[j].type = type
      PROVE  <<k, j>> \in Places(f, type)
  <2>1. <<k, j>> \in PlacesIn(f, k, type)
    BY <1>2 DEF PlacesIn
  <2> QED
    BY <2>1 DEF Places
<1> QED
  BY <1>1, <1>2

(* Among the places seen, a place's rank is its number in order.           *)
LEMMA RankBounds ==
    ASSUME NEW f \in Firmware, NEW type, NEW n \in Nat, NEW k \in Nat,
           IsFiniteSet(SeenTo(f, type, <<n, k>>)), NEW p \in SeenTo(f, type, <<n, k>>)
    PROVE  RankOf(f, p, type) \in 1 .. Cardinality(SeenTo(f, type, <<n, k>>))
<1> DEFINE S == SeenTo(f, type, <<n, k>>)
           R == {q \in Places(f, type) : ~Before(p, q)}
<1>1. p \in Places(f, type) /\ Before(p, <<n, k>>)
  BY DEF SeenTo
<1>2. R \subseteq S
  <2> SUFFICES ASSUME NEW q \in Places(f, type), ~Before(p, q) PROVE Before(q, <<n, k>>)
    BY DEF SeenTo
  <2>1. p[1] \in Nat /\ p[2] \in Nat /\ q[1] \in Nat /\ q[2] \in Nat
    BY <1>1, PlaceIs
  <2> QED
    BY <1>1, <2>1 DEF Before
<1>3. p \in R
  <2>1. p[1] \in Nat /\ p[2] \in Nat
    BY <1>1, PlaceIs
  <2> QED
    BY <1>1, <2>1 DEF Before
<1>4. IsFiniteSet(R) /\ Cardinality(R) <= Cardinality(S) /\ Cardinality(R) \in Nat /\ Cardinality(S) \in Nat
  BY <1>2, FS_Subset, FS_CardinalityType
<1>5. Cardinality(R) # 0
  BY <1>3, <1>4, FS_EmptySet
<1> QED
  BY <1>4, <1>5 DEF RankOf

(* add_ioapic and add_iso: the next structure of the type goes behind the  *)
(* ones collected before it, or is dropped if the array is full.           *)
LEMMA CollectNext ==
    ASSUME NEW f \in Firmware, NEW type, NEW n \in Madts(f), NEW k \in 1 .. Len(f.tables[n].items),
           NEW list, NEW len \in Nat, Collected(f, list, len, type, <<n, k>>)
    PROVE  LET s == f.tables[n].items[k]
           IN  Collected(f, IF s.type = type THEN AddTo(list, s, len) ELSE list, len, type, <<n, k + 1>>)
<1> DEFINE s == f.tables[n].items[k]
           p == <<n, k>>
           old == SeenTo(f, type, p)
           new == SeenTo(f, type, <<n, k + 1>>)
<1>1. n \in Nat /\ k \in Nat /\ p[1] = n /\ p[2] = k /\ p \notin old
  BY DEF Madts, SeenTo, Before
<1>2. IsFiniteSet(old) /\ Cardinality(old) \in Nat
  BY FS_CardinalityType DEF Collected
<1>3. CASE s.type # type
  <2>1. new = old
    <3> SUFFICES ASSUME NEW q \in Places(f, type) PROVE Before(q, <<n, k + 1>>) <=> Before(q, p)
      BY DEF SeenTo
    <3>1. /\ q[1] \in Nat /\ q[2] \in Nat /\ q = <<q[1], q[2]>>
          /\ f.tables[q[1]].items[q[2]].type = type
      BY PlaceIs
    <3>2. ~(q[1] = n /\ q[2] = k)
      BY <1>3, <3>1
    <3> QED
      BY <1>1, <3>1, <3>2 DEF Before
  <2> QED
    BY <1>3, <2>1 DEF Collected
<1>4. CASE s.type = type
  <2>1. p \in Places(f, type) /\ s = At(f, p) /\ s \in Described(f, type)
    BY <1>1, <1>4, PlaceIs DEF At, Described
  <2>2. new = old \union {p}
    <3>1. ASSUME NEW q \in Places(f, type) PROVE Before(q, <<n, k + 1>>) <=> Before(q, p) \/ q = p
      <4>1. q[1] \in Nat /\ q[2] \in Nat /\ q = <<q[1], q[2]>>
        BY PlaceIs
      <4>2. q = p <=> q[1] = n /\ q[2] = k
        BY <1>1, <4>1
      <4> QED
        BY <1>1, <4>1, <4>2 DEF Before
    <3> QED
      BY <2>1, <3>1 DEF SeenTo
  <2>3. {q \in Places(f, type) : ~Before(p, q)} = new
    <3>1. ASSUME NEW q \in Places(f, type) PROVE ~Before(p, q) <=> Before(q, <<n, k + 1>>)
      <4>1. q[1] \in Nat /\ q[2] \in Nat
        BY PlaceIs
      <4> QED
        BY <1>1, <4>1 DEF Before
    <3> QED
      BY <3>1 DEF SeenTo
  <2>4. IsFiniteSet(new) /\ Cardinality(new) = Cardinality(old) + 1 /\ RankOf(f, p, type) = Cardinality(old) + 1
    <3>1. RankOf(f, p, type) = Cardinality(new)
      BY <2>3 DEF RankOf
    <3> HIDE DEF old, new, p
    <3> QED
      BY <1>1, <1>2, <2>2, <3>1, FS_AddElement
  <2> DEFINE c == Cardinality(old)
             D == Described(f, type)
             r(q) == RankOf(f, q, type)
             out == AddTo(list, s, len)
  <2>5. /\ list \in Seq(D) /\ Len(list) = Capped(c, len) /\ c \in Nat
        /\ \A q \in old : (r(q) <= len => list[r(q)] = At(f, q)) /\ r(q) \in 1 .. c
    <3>1. \A q \in old : r(q) \in 1 .. c
      BY <1>1, <1>2, RankBounds
    <3> QED
      BY <1>2, <3>1 DEF Collected
  <2>6. s \in D /\ r(p) = c + 1 /\ Cardinality(new) = c + 1
    BY <2>1, <2>4
  <2> HIDE DEF c, D, r, s
  <2>7. /\ out \in Seq(D) /\ Len(out) = Capped(c + 1, len)
        /\ \A m \in 1 .. Len(list) : out[m] = list[m]
        /\ c < len => out[c + 1] = s
    <3>1. CASE c < len
      <4>1. Len(list) = c /\ out = Append(list, s)
        BY <2>5, <3>1 DEF AddTo, Capped
      <4> QED
        BY <2>5, <2>6, <3>1, <4>1 DEF Capped
    <3>2. CASE ~(c < len)
      BY <2>5, <3>2 DEF AddTo, Capped
    <3> QED
      BY <3>1, <3>2
  <2>8. ASSUME NEW q \in new, r(q) <= len PROVE out[r(q)] = At(f, q)
    <3>1. CASE q \in old
      <4>1. r(q) \in 1 .. Len(list) /\ list[r(q)] = At(f, q)
        BY <2>5, <2>8, <3>1 DEF Capped
      <4> QED
        BY <2>7, <4>1
    <3>2. CASE q = p
      BY <2>1, <2>5, <2>6, <2>7, <2>8, <3>2
    <3> QED
      BY <2>2, <2>8, <3>1, <3>2
  <2>9. Collected(f, out, len, type, <<n, k + 1>>)
    BY <2>4, <2>6, <2>7, <2>8 DEF Collected, c, D, r
  <2> QED
    BY <1>4, <2>9 DEF s
<1> QED
  BY <1>3, <1>4

(* Behind a table's last structure, and in front of the next table, the    *)
(* same places have been seen; a table of another kind has none.           *)
LEMMA SeenSame ==
    ASSUME NEW f \in Firmware, NEW type, NEW n \in 1 .. Len(f.tables), NEW k \in Nat,
           \/ n \in Madts(f) /\ k = Len(f.tables[n].items) + 1
           \/ n \notin Madts(f) /\ k = 1
    PROVE  SeenTo(f, type, <<n, k>>) = SeenTo(f, type, <<n + 1, 1>>)
<1> SUFFICES ASSUME NEW q \in Places(f, type)
             PROVE  Before(q, <<n, k>>) <=> Before(q, <<n + 1, 1>>)
  BY DEF SeenTo
<1>1. /\ q[1] \in Madts(f) /\ q[1] \in Nat /\ q[2] \in 1 .. Len(f.tables[q[1]].items)
      /\ n \in Nat /\ q[2] \in Nat /\ q[2] > 0
  BY PlaceIs
<1>2. CASE q[1] = n
  <2>1. Len(f.tables[n].items) \in Nat /\ k = Len(f.tables[n].items) + 1
    BY <1>1, <1>2, MadtAssumption
  <2>2. q[2] < k
    BY <1>1, <1>2, <2>1
  <2> QED
    BY <1>1, <1>2, <2>2 DEF Before
<1>3. CASE q[1] # n
  <2>1. q[1] < n + 1 <=> q[1] < n
    BY <1>1, <1>3
  <2> QED
    BY <1>1, <1>3, <2>1 DEF Before
<1> QED
  BY <1>2, <1>3

-----------------------------------------------------------------------------
(* The invariant of acpi_init.                                             *)

Walking == {"acpi_init", "_parse_madt"}
Redirecting == {"ioapic_redirect_irq", "write_low", "write_high"}
Returns == {"cpu_init", "ps2_enable"}
Positions == Walking \union Redirecting \union Returns \union
             {"hpet_init", "lapic_init", "ps2_init", "ps2_setup", "ps2_last", "up", "halt", "fault"}

CollectedAt(n, k) ==
    /\ Collected(fw, ioapic_list, IOAPIC_LIST_LEN, ICS_ID_IO_APIC, <<n, k>>)
    /\ Collected(fw, iso_list, ISO_LIST_LEN, ICS_ID_ISO, <<n, k>>)

AcpiInv ==
    /\ fw \in Firmware
    /\ pc \in Positions
    /\ i \in 1 .. Len(fw.tables) + 1
    /\ hpet <=> \E k \in 1 .. i - 1 : fw.tables[k].sig = "HPET"
    /\ pc \notin Walking => i = Len(fw.tables) + 1
    /\ pc # "_parse_madt" => CollectedAt(i, 1)
    /\ pc = "_parse_madt" =>
           /\ i \in Madts(fw)
           /\ \E k \in 1 .. Len(fw.tables[i].items) + 1 :
                  off = Offset(fw.tables[i], k) /\ CollectedAt(i, k)

(* A redirection returns to its caller.                                    *)
ReturnInv == pc \in Redirecting => job.return \in Returns

(* Another table than a MADT is passed over.                               *)
LEMMA AcpiTableHolds ==
    ASSUME AcpiInv, AcpiTable
    PROVE  AcpiInv'
<1>1. /\ pc = "acpi_init" /\ i <= Len(fw.tables) /\ fw.tables[i].sig # "APIC"
      /\ hpet' = (hpet \/ fw.tables[i].sig = "HPET") /\ i' = i + 1
      /\ UNCHANGED <<fw, pc, ioapic_list, iso_list>>
  BY DEF AcpiTable
<1>2. i \in 1 .. Len(fw.tables) /\ i \notin Madts(fw) /\ Len(fw.tables) \in Nat /\ fw \in Firmware
  BY <1>1, MadtAssumption, SMTT(40) DEF AcpiInv, Madts
<1>3. i' \in 1 .. Len(fw.tables) + 1
  BY <1>1, <1>2
<1>4. hpet' <=> \E k \in 1 .. i' - 1 : fw.tables[k].sig = "HPET"
  <2>1. 1 .. i' - 1 = (1 .. i - 1) \union {i}
    BY <1>1, <1>2
  <2> QED
    BY <1>1, <2>1 DEF AcpiInv
<1>5. \A type : SeenTo(fw, type, <<i, 1>>) = SeenTo(fw, type, <<i + 1, 1>>)
  BY <1>2, SeenSame
<1>6. CollectedAt(i, 1)
  BY <1>1 DEF AcpiInv
<1>7. CollectedAt(i, 1)'
  BY <1>1, <1>5, <1>6 DEF CollectedAt, Collected
<1> QED
  BY <1>1, <1>2, <1>3, <1>4, <1>7 DEF AcpiInv, Walking

(* _parse_madt starts at the first structure.                              *)
LEMMA AcpiMadtHolds ==
    ASSUME AcpiInv, AcpiMadt
    PROVE  AcpiInv'
<1>1. /\ pc = "acpi_init" /\ i <= Len(fw.tables) /\ fw.tables[i].sig = "APIC"
      /\ pc' = "_parse_madt" /\ off' = 0
      /\ UNCHANGED <<fw, i, ioapic_list, iso_list, hpet>>
  BY DEF AcpiMadt
<1>2. i \in 1 .. Len(fw.tables) /\ i \in Madts(fw) /\ Len(fw.tables) \in Nat /\ fw \in Firmware
  BY <1>1, MadtAssumption, SMTT(40) DEF AcpiInv, Madts
<1>3. IsTable(fw.tables[i]) /\ 1 \in 1 .. Len(fw.tables[i].items) + 1
  <2>1. IsTable(fw.tables[i]) /\ Len(fw.tables[i].items) \in Nat
    BY <1>2, MadtAssumption DEF IsTable
  <2> QED
    BY <2>1
<1>4. off' = Offset(fw.tables[i], 1)
  BY <1>1, <1>3, OffsetIs
<1>5. CollectedAt(i, 1)' /\ i' \in Madts(fw') /\ off' = Offset(fw'.tables[i'], 1)
      /\ 1 \in 1 .. Len(fw'.tables[i'].items) + 1
  BY <1>1, <1>2, <1>3, <1>4 DEF AcpiInv, CollectedAt
<1> QED
  BY <1>1, <1>2, <1>5 DEF AcpiInv, Walking, Positions

(* The walk goes on from each of the table's structures, and ends behind   *)
(* the last.                                                               *)
LEMMA WalkEnds ==
    ASSUME fw \in Firmware, i \in Madts(fw), NEW k \in 1 .. Len(fw.tables[i].items) + 1,
           off = Offset(fw.tables[i], k)
    PROVE  /\ Current = Structure(fw.tables[i], k)
           /\ LastStructure(Current) <=> k = Len(fw.tables[i].items) + 1
           /\ k # Len(fw.tables[i].items) + 1 => off + Current.length = Offset(fw.tables[i], k + 1)
<1> DEFINE t == fw.tables[i]
           N == Len(t.items)
           L == Current.length
<1>1. IsTable(t) /\ N \in Nat
  BY MadtAssumption DEF IsTable
<1>2. Current = Structure(t, k)
  BY CurrentIs
<1>3. LastStructure(Current) <=> L <= 0 \/ off + L >= HEADER + Offset(t, N + 1)
  BY DEF LastStructure, TableLength
<1>4. Offset(t, N + 1) \in Nat /\ off \in Nat /\ HEADER = 44
  BY <1>1, OffsetIs DEF HEADER
<1>5. CASE k = N + 1
  <2>1. Current = t.tail
    BY <1>1, <1>2, <1>5 DEF Structure
  <2>2. L \in (-128 .. 0) \union (HEADER .. 127)
    BY <2>1, MadtAssumption
  <2>3. off = Offset(t, N + 1)
    BY <1>5
  <2> HIDE DEF L, N, t
  <2>4. LastStructure(Current)
    BY <1>3, <1>4, <2>2, <2>3
  <2> QED
    BY <1>2, <1>5, <2>4 DEF N, t
<1>6. CASE k # N + 1
  <2>1. k \in 1 .. N
    BY <1>1, <1>6
  <2>2. Current = t.items[k]
    BY <1>1, <1>2, <2>1 DEF Structure
  <2>3. L \in 1 .. 127
    BY <1>1, <2>1, <2>2 DEF IsTable
  <2>4. Offset(t, k + 1) = off + L
    BY <1>1, <2>1, <2>2, OffsetIs
  <2>5. Offset(t, k + 1) <= Offset(t, N + 1)
    <3>1. k + 1 \in 1 .. N + 1 /\ N + 1 \in 1 .. N + 1
      BY <1>1, <2>1
    <3>2. Offset(t, k + 1) \in Nat
      BY <1>1, <3>1, OffsetIs
    <3>3. CASE k + 1 = N + 1
      BY <1>4, <3>3
    <3>4. CASE k + 1 < N + 1
      <4>1. Offset(t, k + 1) < Offset(t, N + 1)
        BY <1>1, <3>1, <3>4, OffsetsGrow
      <4> QED
        BY <1>4, <3>2, <4>1
    <3> QED
      BY <1>1, <2>1, <3>3, <3>4
  <2> HIDE DEF L, N, t
  <2>6. ~LastStructure(Current)
    BY <1>3, <1>4, <2>3, <2>4, <2>5
  <2> QED
    BY <1>2, <1>6, <2>4, <2>6 DEF N, t, L
<1> QED
  BY <1>5, <1>6

(* A structure of the two kinds goes to its list.                          *)
LEMMA CollectHolds ==
    ASSUME fw \in Firmware, i \in Madts(fw), NEW k \in 1 .. Len(fw.tables[i].items),
           CollectedAt(i, k), Collect(fw.tables[i].items[k]), fw' = fw, i' = i
    PROVE  CollectedAt(i, k + 1)'
<1> DEFINE s == fw.tables[i].items[k]
<1>1. /\ IOAPIC_LIST_LEN \in Nat /\ ISO_LIST_LEN \in Nat
      /\ Collected(fw, ioapic_list, IOAPIC_LIST_LEN, ICS_ID_IO_APIC, <<i, k>>)
      /\ Collected(fw, iso_list, ISO_LIST_LEN, ICS_ID_ISO, <<i, k>>)
  BY ListAssumption DEF CollectedAt
<1>2. /\ ioapic_list' = IF s.type = ICS_ID_IO_APIC
                        THEN AddTo(ioapic_list, s, IOAPIC_LIST_LEN) ELSE ioapic_list
      /\ iso_list' = IF s.type = ICS_ID_ISO THEN AddTo(iso_list, s, ISO_LIST_LEN) ELSE iso_list
  BY DEF Collect
<1>3. Collected(fw, ioapic_list', IOAPIC_LIST_LEN, ICS_ID_IO_APIC, <<i, k + 1>>)
  BY <1>1, <1>2, CollectNext
<1>4. Collected(fw, iso_list', ISO_LIST_LEN, ICS_ID_ISO, <<i, k + 1>>)
  BY <1>1, <1>2, CollectNext
<1> QED
  BY <1>3, <1>4 DEF CollectedAt

(* One round of the walk inside the table.                                 *)
LEMMA MadtMoveHolds ==
    ASSUME AcpiInv, MadtMove
    PROVE  AcpiInv'
<1>1. /\ pc = "_parse_madt" /\ Collect(Current) /\ ~LastStructure(Current)
      /\ off' = off + Current.length /\ UNCHANGED <<fw, pc, i, hpet>>
  BY DEF MadtMove
<1> DEFINE N == Len(fw.tables[i].items)
<1>2. fw \in Firmware /\ i \in Madts(fw) /\ N \in Nat
  BY <1>1, MadtAssumption DEF AcpiInv
<1>3. PICK k \in 1 .. N + 1 : off = Offset(fw.tables[i], k) /\ CollectedAt(i, k)
  BY <1>1 DEF AcpiInv
<1>4. /\ Current = Structure(fw.tables[i], k) /\ k # N + 1
      /\ off + Current.length = Offset(fw.tables[i], k + 1)
  BY <1>1, <1>2, <1>3, WalkEnds
<1>5. k \in 1 .. N /\ k + 1 \in 1 .. N + 1 /\ Current = fw.tables[i].items[k]
  BY <1>2, <1>4 DEF Structure
<1>6. CollectedAt(i, k + 1)'
  BY <1>1, <1>2, <1>3, <1>5, CollectHolds
<1>7. \E j \in 1 .. N + 1 : off' = Offset(fw.tables[i], j) /\ CollectedAt(i, j)'
  BY <1>1, <1>4, <1>5, <1>6
<1> QED
  BY <1>1, <1>2, <1>7 DEF AcpiInv, Walking

(* The walk's last round, on the memory behind the table.                  *)
LEMMA MadtEndHolds ==
    ASSUME AcpiInv, MadtEnd
    PROVE  AcpiInv'
<1>1. /\ pc = "_parse_madt" /\ Collect(Current) /\ LastStructure(Current)
      /\ pc' = "acpi_init" /\ i' = i + 1 /\ UNCHANGED <<fw, hpet>>
  BY DEF MadtEnd
<1> DEFINE N == Len(fw.tables[i].items)
<1>2. fw \in Firmware /\ i \in Madts(fw) /\ N \in Nat
  BY <1>1, MadtAssumption DEF AcpiInv
<1>3. PICK k \in 1 .. N + 1 : off = Offset(fw.tables[i], k) /\ CollectedAt(i, k)
  BY <1>1 DEF AcpiInv
<1>4. Current = Structure(fw.tables[i], k) /\ k = N + 1 /\ k \in Nat
  BY <1>1, <1>2, <1>3, WalkEnds
<1>5. Current = fw.tables[i].tail
  BY <1>2, <1>4 DEF Structure
<1>6. UNCHANGED <<ioapic_list, iso_list>>
  <2>1. Current.type # ICS_ID_IO_APIC /\ Current.type # ICS_ID_ISO
    BY <1>2, <1>5, MadtAssumption
  <2> QED
    BY <1>1, <2>1 DEF Collect
<1>7. i \in 1 .. Len(fw.tables) /\ Len(fw.tables) \in Nat /\ fw.tables[i].sig = "APIC"
  BY <1>2, MadtAssumption DEF Madts
<1>8. \A type : SeenTo(fw, type, <<i, k>>) = SeenTo(fw, type, <<i + 1, 1>>)
  BY <1>2, <1>4, <1>7, SeenSame
<1>9. CollectedAt(i, 1)'
  BY <1>1, <1>3, <1>6, <1>8 DEF CollectedAt, Collected
<1>10. hpet' <=> \E j \in 1 .. i' - 1 : fw.tables[j].sig = "HPET"
  <2>1. 1 .. i' - 1 = (1 .. i - 1) \union {i}
    BY <1>1, <1>7
  <2> QED
    BY <1>1, <1>7, <2>1 DEF AcpiInv
<1>11. i' \in 1 .. Len(fw.tables) + 1
  BY <1>1, <1>7
<1> QED
  BY <1>1, <1>2, <1>9, <1>10, <1>11 DEF AcpiInv, Walking, Positions

(* Every other step leaves the lists alone.                                *)
LEMMA AcpiRests ==
    ASSUME AcpiInv, UNCHANGED <<fw, acpiVars>>, pc' \in Positions, pc # "_parse_madt",
           pc' # "_parse_madt", pc' = pc \/ (pc = "acpi_init" /\ i > Len(fw.tables)) \/ pc \notin Walking,
           pc' \in Walking => pc' = pc
    PROVE  AcpiInv'
<1>1. UNCHANGED <<fw, i, ioapic_list, iso_list, hpet>>
  BY DEF acpiVars
<1>2. CollectedAt(i, 1)'
  BY <1>1 DEF AcpiInv, CollectedAt
<1>3. pc' \notin Walking => i = Len(fw.tables) + 1
  <2>1. Len(fw.tables) \in Nat /\ i \in 1 .. Len(fw.tables) + 1
    BY MadtAssumption DEF AcpiInv
  <2> QED
    BY <2>1 DEF AcpiInv
<1> QED
  BY <1>1, <1>2, <1>3 DEF AcpiInv

(* Every step keeps the invariant of acpi_init.                            *)
LEMMA AcpiStep == AcpiInv /\ ReturnInv /\ [Next]_vars => AcpiInv'
<1> SUFFICES ASSUME AcpiInv, ReturnInv, [Next]_vars PROVE AcpiInv'
  OBVIOUS
<1>1. CASE AcpiTable \/ AcpiMadt \/ MadtMove \/ MadtEnd
  BY <1>1, AcpiTableHolds, AcpiMadtHolds, MadtMoveHolds, MadtEndHolds
<1>2. CASE AcpiEnd
  BY <1>2, AcpiRests DEF AcpiEnd, Positions, Walking
<1>3. CASE hpet_init \/ HpetFault \/ cpu_init \/ lapic_init \/ ps2_init \/ Ps2Route \/ Ps2Enable \/ Up
  BY <1>3, AcpiRests DEF hpet_init, HpetFault, cpu_init, lapic_init, ps2_init, Ps2Route, Ps2Enable, Up,
                         Positions, Walking, Redirecting, Returns
<1>4. CASE ioapic_redirect_irq
  BY <1>4, AcpiRests DEF ioapic_redirect_irq, Positions, Walking, Redirecting
<1>5. CASE WriteLow \/ WriteHigh
  BY <1>5, AcpiRests DEF WriteLow, WriteHigh, ReturnInv, Returns, Positions, Walking, Redirecting
<1>6. CASE Ps2Port \/ TimerFires \/ Controller \/ _handle_keyboard \/ UNCHANGED vars
  <2>1. UNCHANGED <<fw, pc, acpiVars>>
    BY <1>6 DEF Ps2Port, TimerFires, Controller, _handle_keyboard, vars
  <2> QED
    BY <2>1 DEF acpiVars, AcpiInv, CollectedAt
<1> QED
  BY <1>1, <1>2, <1>3, <1>4, <1>5, <1>6 DEF Next, Kernel

-----------------------------------------------------------------------------
(* What ioapic_redirect_irq makes of a line.                               *)

FirstIn(list, line) == SelectInSeq(list, LAMBDA s : s.irq_source = line)
GsiIn(list, line) == IF FirstIn(list, line) = 0 THEN line ELSE list[FirstIn(list, line)].gsi % 256
FlagsIn(list, line) == IF FirstIn(list, line) = 0 THEN 0 ELSE list[FirstIn(list, line)].flags
First(line) == FirstIn(iso_list, line)
Gsi(line) == GsiIn(iso_list, line)
Flags(line) == FlagsIn(iso_list, line)

(* All tables have been read.                                              *)
Read == fw \in Firmware /\ CollectedAt(Len(fw.tables) + 1, 1)

(* Every place has been seen then.                                         *)
LEMMA AllSeen ==
    ASSUME Read, NEW type
    PROVE  SeenTo(fw, type, <<Len(fw.tables) + 1, 1>>) = Places(fw, type)
<1> SUFFICES ASSUME NEW q \in Places(fw, type) PROVE Before(q, <<Len(fw.tables) + 1, 1>>)
  BY DEF SeenTo
<1>1. q[1] \in Madts(fw) /\ fw \in Firmware
  BY PlaceIs DEF Read
<1>2. q[1] \in 1 .. Len(fw.tables) /\ Len(fw.tables) \in Nat
  BY <1>1, MadtAssumption DEF Madts
<1>3. q[1] < Len(fw.tables) + 1
  BY <1>2
<1> QED
  BY <1>3 DEF Before

(* So the lists hold the first structures of their type, in order.         *)
LEMMA ListsAre ==
    ASSUME Read, NEW list, NEW len \in Nat, NEW type,
           Collected(fw, list, len, type, <<Len(fw.tables) + 1, 1>>)
    PROVE  /\ Lists(list, len, type)
           /\ list \in Seq(Described(fw, type))
           /\ Cardinality(Places(fw, type)) <= len =>
                  \A s \in Described(fw, type) : \E r \in 1 .. Len(list) : list[r] = s
<1> DEFINE c == Cardinality(Places(fw, type))
           r(p) == RankOf(fw, p, type)
<1>1. /\ IsFiniteSet(Places(fw, type)) /\ c \in Nat /\ list \in Seq(Described(fw, type))
      /\ Len(list) = Capped(c, len)
      /\ \A p \in Places(fw, type) : r(p) <= len => list[r(p)] = At(fw, p)
  BY AllSeen, FS_CardinalityType DEF Collected
<1>2. \A p \in Places(fw, type) : r(p) \in 1 .. c
  <2>1. Len(fw.tables) + 1 \in Nat /\ 1 \in Nat /\ fw \in Firmware
    BY MadtAssumption, Z3T(40) DEF Read
  <2>2. SeenTo(fw, type, <<Len(fw.tables) + 1, 1>>) = Places(fw, type)
    BY AllSeen
  <2> QED
    BY <1>1, <2>1, <2>2, RankBounds
<1>3. Lists(list, len, type)
  BY <1>1 DEF Lists, Capped, Rank, RankOf
<1>4. ASSUME c <= len, NEW s \in Described(fw, type) PROVE \E n \in 1 .. Len(list) : list[n] = s
  <2>1. PICK p \in Places(fw, type) : s = At(fw, p)
    BY DEF Described
  <2>2. r(p) \in 1 .. c /\ Len(list) = c
    BY <1>1, <1>2, <1>4 DEF Capped
  <2>3. r(p) <= len
    BY <1>1, <1>4, <2>2
  <2>4. list[r(p)] = s
    BY <1>1, <2>1, <2>3
  <2> QED
    BY <2>2, <2>4
<1> QED
  BY <1>1, <1>3, <1>4

(* SelectInSeq finds an element, or there is none.                         *)
LEMMA FirstIs ==
    ASSUME NEW D, iso_list \in Seq(D), NEW line
    PROVE  /\ First(line) # 0 => First(line) \in 1 .. Len(iso_list) /\ iso_list[First(line)].irq_source = line
           /\ First(line) = 0 => \A r \in 1 .. Len(iso_list) : iso_list[r].irq_source # line
<1> DEFINE I == {r \in 1 .. Len(iso_list) : iso_list[r].irq_source = line}
<1>1. First(line) = IF I # {} THEN Min(I) ELSE 0
  BY DEF First, FirstIn, SelectInSeq
<1>2. CASE I = {}
  BY <1>1, <1>2
<1>3. CASE I # {}
  <2>1. I \in SUBSET Nat
    OBVIOUS
  <2>2. \E x \in I : \A y \in I : x <= y
    BY <1>3, <2>1, LeastNat
  <2>3. Min(I) \in I
    BY <2>2 DEF Min
  <2> QED
    BY <1>1, <1>3, <2>3
<1> QED
  BY <1>2, <1>3

(* The code routes a line to its wired input, or, if its override was      *)
(* dropped, to the input of its own number.                                *)
LEMMA GsiIs ==
    ASSUME Read, NEW line \in Lines
    PROVE  /\ Gsi(line) \in 0 .. MaxGsi /\ Flags(line) \in Nat
           /\ Gsi(line) \in {line, Wired(fw, line)}
           /\ Fits => Gsi(line) = Wired(fw, line) /\ Flags(line) = WiredFlags(fw, line)
<1> DEFINE D == Described(fw, ICS_ID_ISO)
<1>1. /\ iso_list \in Seq(D) /\ line \in {0, 1} /\ ISO_LIST_LEN \in Nat
      /\ Fits => \A s \in D : \E r \in 1 .. Len(iso_list) : iso_list[r] = s
  <2>1. ISO_LIST_LEN \in Nat /\ Collected(fw, iso_list, ISO_LIST_LEN, ICS_ID_ISO, <<Len(fw.tables) + 1, 1>>)
    BY ListAssumption DEF Read, CollectedAt
  <2> QED
    BY <2>1, ListsAre DEF Fits, Lines
<1>2. fw \in Firmware /\ MaxGsi \in Nat /\ MaxGsi > 0
  BY WiringAssumption DEF Read
<1> HIDE DEF D
<1>3. CASE First(line) = 0
  <2>1. Gsi(line) = line /\ Flags(line) = 0
    BY <1>3 DEF Gsi, Flags, GsiIn, FlagsIn, First
  <2>2. Fits => Overrides(fw, line) = {}
    BY <1>1, <1>3, FirstIs, Z3T(40) DEF Overrides, D
  <2>3. Fits => Wired(fw, line) = line /\ WiredFlags(fw, line) = 0
    BY <2>2 DEF Wired, WiredFlags
  <2> QED
    BY <1>1, <1>2, <2>1, <2>3
<1>4. CASE First(line) # 0
  <2> DEFINE s == iso_list[First(line)]
  <2>1. s \in D /\ s.irq_source = line
    BY <1>1, <1>4, FirstIs
  <2>2. /\ s.gsi \in 0 .. MaxGsi /\ s.gsi < 256 /\ s.flags \in Nat
        /\ \A u \in D : u.irq_source = s.irq_source => u = s
    BY <1>2, <2>1, WiringAssumption DEF D
  <2>3. Overrides(fw, line) # {} /\ \A u \in Overrides(fw, line) : u = s
    BY <2>1, <2>2 DEF Overrides, D
  <2>4. Override(fw, line) = s
    BY <2>3 DEF Override
  <2>5. Wired(fw, line) = s.gsi /\ WiredFlags(fw, line) = s.flags
    BY <2>3, <2>4 DEF Wired, WiredFlags
  <2>6. s.gsi % 256 = s.gsi
    <3>1. \A x \in 0 .. MaxGsi : x < 256 => x % 256 = x
      BY <1>2
    <3> QED
      BY <2>2, <3>1
  <2>7. Gsi(line) = s.gsi /\ Flags(line) = s.flags
    BY <1>4, <2>6 DEF Gsi, Flags, GsiIn, FlagsIn, First
  <2> QED
    BY <2>2, <2>5, <2>7
<1> QED
  BY <1>3, <1>4

(* The timer is never routed to the keyboard's input.                      *)
LEMMA InputsApart ==
    ASSUME Read
    PROVE  /\ Gsi(0) # Wired(fw, 1)
           /\ Wired(fw, 0) # Wired(fw, 1)
<1>1. Gsi(0) \in {0, Wired(fw, 0)}
  BY GsiIs DEF Lines
<1>2. Wired(fw, 1) \notin {0, Wired(fw, 0)}
  BY WiringAssumption DEF Read
<1> QED
  BY <1>1, <1>2

-----------------------------------------------------------------------------
(* ps2_init's port accesses.                                               *)

Accesses == {"AD", "A7", "flush", "20", "read", "60", "data", "AE", "A8"}

(* All but the first n accesses of the script are left.                    *)
Left(rest, script, n) ==
    /\ rest \in Seq(Accesses) /\ n \in 0 .. Len(script) /\ Len(rest) = Len(script) - n
    /\ \A j \in 1 .. Len(script) - n : rest[j] = script[n + j]

(* u is s followed by t.                                                   *)
Joins(u, s, t) ==
    s \in Seq(Accesses) /\ t \in Seq(Accesses) =>
        /\ u \in Seq(Accesses) /\ Len(u) = Len(s) + Len(t)
        /\ \A k \in 1 .. Len(s) + Len(t) : u[k] = IF k <= Len(s) THEN s[k] ELSE t[k - Len(s)]

(* Concatenation, as the next proof uses it.                               *)
LEMMA JoinIs == ASSUME NEW s, NEW t PROVE Joins(s \o t, s, t)
  BY DEF Joins

(* The accesses of ps2_init before the routing, one by one.                *)
LEMMA SetUpIs ==
    /\ SetUp \in Seq(Accesses) /\ Len(SetUp) = 7
    /\ SetUp[1] = "AD" /\ SetUp[2] = "A7" /\ SetUp[3] = "flush" /\ SetUp[4] = "20"
    /\ SetUp[5] = "read" /\ SetUp[6] = "60" /\ SetUp[7] = "data"
<1> DEFINE a == <<"AD", "A7", "flush">>
           b == <<"20", "read">>
           c == <<"60", "data">>
           d == a \o b
<1>1. /\ a \in Seq(Accesses) /\ b \in Seq(Accesses) /\ c \in Seq(Accesses)
      /\ Len(a) = 3 /\ Len(b) = 2 /\ Len(c) = 2
      /\ a[1] = "AD" /\ a[2] = "A7" /\ a[3] = "flush"
      /\ b[1] = "20" /\ b[2] = "read" /\ c[1] = "60" /\ c[2] = "data"
  BY DEF Accesses
<1>2. Joins(d, a, b) /\ Joins(SetUp, d, c)
  BY JoinIs DEF SetUp, ps2_read_config, ps2_write_config
<1> HIDE DEF a, b, c, d
<1>3. /\ d \in Seq(Accesses) /\ Len(d) = 5
      /\ \A k \in 1 .. 5 : d[k] = IF k <= 3 THEN a[k] ELSE b[k - 3]
  BY <1>1, <1>2 DEF Joins
<1>4. /\ SetUp \in Seq(Accesses) /\ Len(SetUp) = 7
      /\ \A k \in 1 .. 7 : SetUp[k] = IF k <= 5 THEN d[k] ELSE c[k - 5]
  BY <1>1, <1>2, <1>3 DEF Joins
<1> QED
  BY <1>1, <1>3, <1>4

(* The accesses after it.                                                  *)
LEMMA SwitchOnIs ==
    ASSUME NEW mouse
    PROVE  /\ SwitchOn(mouse) \in Seq(Accesses) /\ Len(SwitchOn(mouse)) \in {1, 2}
           /\ SwitchOn(mouse)[1] = "AE" /\ (Len(SwitchOn(mouse)) = 2 => SwitchOn(mouse)[2] = "A8")
<1>1. <<"AE", "A8">> \in Seq(Accesses) /\ <<"AE">> \in Seq(Accesses)
  BY DEF Accesses
<1>2. CASE mouse
  BY <1>1, <1>2 DEF SwitchOn
<1>3. CASE ~mouse
  BY <1>1, <1>3 DEF SwitchOn
<1> QED
  BY <1>2, <1>3

(* Before the first access all are left.                                   *)
LEMMA AllLeft ==
    ASSUME NEW script \in Seq(Accesses)
    PROVE  Left(script, script, 0)
  BY DEF Left

(* The next access is the head of what is left.                            *)
LEMMA NextLeft ==
    ASSUME NEW script \in Seq(Accesses), NEW rest, NEW n, Left(rest, script, n)
    PROVE  /\ rest = << >> <=> n = Len(script)
           /\ rest # << >> => /\ n + 1 \in 1 .. Len(script) /\ Head(rest) = script[n + 1]
                              /\ Left(Tail(rest), script, n + 1)
<1>1. /\ rest \in Seq(Accesses) /\ n \in 0 .. Len(script) /\ Len(rest) = Len(script) - n
      /\ Len(script) \in Nat /\ Len(rest) \in Nat
      /\ \A j \in 1 .. Len(script) - n : rest[j] = script[n + j]
  BY DEF Left
<1>2. rest = << >> <=> n = Len(script)
  <2>1. rest = << >> <=> Len(rest) = 0
    BY <1>1
  <2> QED
    BY <1>1, <2>1
<1>3. ASSUME rest # << >>
      PROVE  /\ n + 1 \in 1 .. Len(script) /\ Head(rest) = script[n + 1]
             /\ Left(Tail(rest), script, n + 1)
  <2>1. n + 1 \in 0 .. Len(script) /\ n + 1 \in 1 .. Len(script) /\ 1 \in 1 .. Len(script) - n
    BY <1>1, <1>2, <1>3
  <2>2. /\ Tail(rest) \in Seq(Accesses) /\ Len(Tail(rest)) = Len(rest) - 1 /\ Head(rest) = rest[1]
        /\ \A j \in 1 .. Len(rest) - 1 : Tail(rest)[j] = rest[j + 1]
    BY <1>1, <1>3
  <2>3. Head(rest) = script[n + 1]
    BY <1>1, <2>1, <2>2
  <2>4. \A j \in 1 .. Len(script) - (n + 1) : Tail(rest)[j] = script[(n + 1) + j]
    <3> SUFFICES ASSUME NEW j \in 1 .. Len(script) - (n + 1) PROVE Tail(rest)[j] = script[(n + 1) + j]
      OBVIOUS
    <3>1. j \in 1 .. Len(rest) - 1 /\ j + 1 \in 1 .. Len(script) - n /\ n + (j + 1) = (n + 1) + j
      BY <1>1
    <3> QED
      BY <1>1, <2>2, <3>1
  <2>5. Len(Tail(rest)) = Len(script) - (n + 1)
    BY <1>1, <2>2
  <2> QED
    BY <2>1, <2>2, <2>3, <2>4, <2>5 DEF Left
<1> QED
  BY <1>2, <1>3

-----------------------------------------------------------------------------
(* The redirection being made.                                             *)

Dests == {0} \union {f.bsp : f \in Firmware}
LowWords == [vector : {TIMER_VECTOR, KEYBOARD_VECTOR}, active_low : BOOLEAN, level : BOOLEAN,
             masked : {FALSE}]
Jobs == [line : Lines, dest : Dests, return : Returns, base : Nat, reg : Int, low : LowWords]

(* The boot processor's ID is known before the keyboard is routed.  A      *)
(* redirection returns to its caller, and addresses the input of its line  *)
(* with the flags of the line's override.                                  *)
JobInv ==
    /\ bsp_lapic_id \in Dests
    /\ pc \in {"lapic_init", "ps2_init", "ps2_setup"} => bsp_lapic_id = fw.bsp
    /\ pc \in Redirecting =>
           /\ job \in Jobs
           /\ job.line = 0 => job.return = "cpu_init"
           /\ job.line = 1 => job.return = "ps2_enable" /\ job.dest = fw.bsp
    /\ pc \in {"write_low", "write_high"} =>
           /\ Target = Gsi(job.line)
           /\ job.low = LowWord(VectorOf(job.line), Flags(job.line))

(* The low word is one of the register's values.                           *)
LEMMA LowWordIs ==
    ASSUME NEW line \in Lines, NEW flags
    PROVE  LowWord(VectorOf(line), flags) \in LowWords
<1>1. VectorOf(line) \in {TIMER_VECTOR, KEYBOARD_VECTOR}
  BY DEF VectorOf
<1>2. Bit(flags, 2) \in BOOLEAN /\ Bit(flags, 8) \in BOOLEAN
  BY DEF Bit
<1> HIDE DEF Bit
<1> QED
  BY <1>1, <1>2 DEF LowWord, LowWords

(* A job that has just been given.                                         *)
LEMMA NewJobIs ==
    ASSUME bsp_lapic_id \in Dests, NEW line \in Lines, NEW return \in Returns
    PROVE  /\ NewJob(line, return) \in Jobs /\ NewJob(line, return).line = line
           /\ NewJob(line, return).return = return /\ NewJob(line, return).dest = bsp_lapic_id
<1>1. LowWord(VectorOf(line), 0) \in LowWords
  BY LowWordIs
<1> QED
  BY <1>1 DEF NewJob, Jobs

(* An I/O APIC that owns the input addresses it by an 8-bit register.      *)
LEMMA RegisterIs ==
    ASSUME NEW base \in Nat, NEW gsi \in Nat, gsi >= base, gsi - base <= 118
    PROVE  base + ((((gsi - base) * 2 + 16) % 256) - 16) \div 2 = gsi
<1>1. PICK d \in 0 .. 118 : d = gsi - base /\ gsi = base + d
  OBVIOUS
<1>2. (d * 2 + 16) % 256 = d * 2 + 16
  OBVIOUS
<1>3. (d * 2 + 16 - 16) \div 2 = d
  OBVIOUS
<1> QED
  BY <1>1, <1>2, <1>3

(* _get_ioapic_from_gsi finds an I/O APIC that owns the input, or there is *)
(* none in the list.                                                       *)
LEMMA OwnerIs ==
    ASSUME NEW D, ioapic_list \in Seq(D), NEW gsi
    PROVE  LET a == _get_ioapic_from_gsi(gsi)
           IN  /\ a # 0 => a \in 1 .. Len(ioapic_list) /\ Owns(ioapic_list[a], gsi)
               /\ a = 0 => \A r \in 1 .. Len(ioapic_list) : ~Owns(ioapic_list[r], gsi)
<1> DEFINE I == {r \in 1 .. Len(ioapic_list) : Owns(ioapic_list[r], gsi)}
           a == _get_ioapic_from_gsi(gsi)
<1>1. a = IF I # {} THEN Min(I) ELSE 0
  BY DEF _get_ioapic_from_gsi, SelectInSeq
<1>2. CASE I = {}
  BY <1>1, <1>2
<1>3. CASE I # {}
  <2>1. I \in SUBSET Nat
    OBVIOUS
  <2>2. \E x \in I : \A y \in I : x <= y
    BY <1>3, <2>1, LeastNat
  <2>3. Min(I) \in I
    BY <2>2 DEF Min
  <2> QED
    BY <1>1, <1>3, <2>3
<1> QED
  BY <1>2, <1>3

(* The first part of ioapic_redirect_irq: without an owner the null        *)
(* pointer is used, with one the register's address and value are right.   *)
LEMMA RedirectIs ==
    ASSUME Read, job \in Jobs, ioapic_redirect_irq
    PROVE  \/ /\ pc' = "fault" /\ job' = job
              /\ \A r \in 1 .. Len(ioapic_list) : ~Owns(ioapic_list[r], Gsi(job.line))
           \/ /\ pc' = "write_low" /\ job' \in Jobs
              /\ job'.line = job.line /\ job'.return = job.return /\ job'.dest = job.dest
              /\ Target' = Gsi(job.line)
              /\ job'.low = LowWord(VectorOf(job.line), Flags(job.line))
<1> DEFINE g == Gsi(job.line)
           a == _get_ioapic_from_gsi(g)
           A == ioapic_list[a]
           D == Described(fw, ICS_ID_IO_APIC)
           low == LowWord(VectorOf(job.line), Flags(job.line))
           reg == ((g - A.gsi_base) * 2 + 16) % 256
<1>1. \/ a = 0 /\ pc' = "fault" /\ job' = job
      \/ /\ a # 0 /\ pc' = "write_low"
         /\ job' = [job EXCEPT !.base = A.gsi_base, !.reg = reg, !.low = low]
  BY DEF ioapic_redirect_irq, Gsi, GsiIn, FirstIn, Flags, FlagsIn
<1>2. job.line \in Lines /\ fw \in Firmware /\ job.line \in Nat
  BY DEF Jobs, Read, Lines
<1>3. ioapic_list \in Seq(D)
  <2>1. IOAPIC_LIST_LEN \in Nat
        /\ Collected(fw, ioapic_list, IOAPIC_LIST_LEN, ICS_ID_IO_APIC, <<Len(fw.tables) + 1, 1>>)
    BY ListAssumption DEF Read, CollectedAt
  <2> QED
    BY <2>1 DEF Collected
<1>4. g \in Nat
  BY <1>2, GsiIs, WiringAssumption
<1>5. low \in LowWords
  BY <1>2, LowWordIs
<1> HIDE DEF g, D, low
<1>6. CASE a = 0
  <2>1. \A r \in 1 .. Len(ioapic_list) : ~Owns(ioapic_list[r], g)
    BY <1>3, <1>6, OwnerIs
  <2> QED
    BY <1>1, <1>6, <2>1 DEF g
<1>7. CASE a # 0
  <2>1. A \in D /\ Owns(A, g)
    BY <1>3, <1>7, OwnerIs
  <2>2. A.gsi_base \in Nat /\ A.pins \in 1 .. 120
    BY <1>2, <2>1, WiringAssumption DEF D
  <2>3. g >= A.gsi_base /\ g < A.gsi_base + (A.pins - 1)
    BY <2>1 DEF Owns, ioapic_max_gsi
  <2> DEFINE b == A.gsi_base
             p == A.pins
  <2>4. b \in Nat /\ p \in 1 .. 120 /\ g >= b /\ g < b + (p - 1)
    BY <2>2, <2>3
  <2>5. job' = [job EXCEPT !.base = b, !.reg = reg, !.low = low] /\ pc' = "write_low"
    BY <1>1, <1>7
  <2>6. reg = ((g - b) * 2 + 16) % 256
    OBVIOUS
  <2> HIDE DEF b, p, A, a, reg
  <2>7. g - b <= 118 /\ reg \in Int
    BY <1>4, <2>4, <2>6
  <2>8. b + (reg - 16) \div 2 = g
    BY <1>4, <2>4, <2>6, <2>7, RegisterIs
  <2>9. /\ job' \in Jobs /\ job'.line = job.line /\ job'.return = job.return /\ job'.dest = job.dest
        /\ job'.base = b /\ job'.reg = reg /\ job'.low = low
    BY <1>5, <2>4, <2>5, <2>7 DEF Jobs
  <2>10. Target' = g
    BY <2>8, <2>9 DEF Target
  <2> QED
    BY <2>5, <2>9, <2>10 DEF g, low
<1> QED
  BY <1>6, <1>7

(* The job stays as it is told until the entry is written.                 *)
LEMMA JobStep ==
    ASSUME AcpiInv, JobInv, [Next]_vars
    PROVE  JobInv'
<1>1. CASE AcpiTable \/ AcpiMadt \/ MadtMove \/ MadtEnd \/ AcpiEnd
  <2>1. /\ pc' \notin Redirecting \union {"lapic_init", "ps2_init", "ps2_setup"}
        /\ UNCHANGED bsp_lapic_id
    BY <1>1 DEF AcpiTable, AcpiMadt, MadtMove, MadtEnd, AcpiEnd, Redirecting
  <2> QED
    BY <2>1 DEF JobInv, Redirecting
<1>2. CASE hpet_init
  <2>1. job' = NewJob(0, "cpu_init") /\ pc' = "ioapic_redirect_irq" /\ UNCHANGED bsp_lapic_id
    BY <1>2 DEF hpet_init
  <2>2. /\ NewJob(0, "cpu_init") \in Jobs /\ NewJob(0, "cpu_init").line = 0
        /\ NewJob(0, "cpu_init").return = "cpu_init"
    BY NewJobIs DEF JobInv, Lines, Returns
  <2> QED
    BY <2>1, <2>2 DEF JobInv, Redirecting
<1>3. CASE Ps2Route
  <2>1. /\ job' = NewJob(1, "ps2_enable") /\ pc' = "ioapic_redirect_irq"
        /\ UNCHANGED <<fw, bsp_lapic_id>> /\ bsp_lapic_id = fw.bsp
    BY <1>3 DEF Ps2Route, JobInv
  <2>2. /\ NewJob(1, "ps2_enable") \in Jobs /\ NewJob(1, "ps2_enable").line = 1
        /\ NewJob(1, "ps2_enable").return = "ps2_enable"
        /\ NewJob(1, "ps2_enable").dest = bsp_lapic_id
    BY NewJobIs DEF JobInv, Lines, Returns
  <2> QED
    BY <2>1, <2>2 DEF JobInv, Redirecting
<1>4. CASE HpetFault \/ lapic_init \/ ps2_init \/ Ps2Enable \/ Up
  BY <1>4 DEF HpetFault, lapic_init, ps2_init, Ps2Enable, Up, JobInv, Redirecting
<1>5. CASE cpu_init
  <2>1. fw.bsp \in Dests
    BY DEF AcpiInv, Dests
  <2> QED
    BY <1>5, <2>1 DEF cpu_init, JobInv, Redirecting
<1>6. CASE ioapic_redirect_irq
  <2>1. pc = "ioapic_redirect_irq" /\ UNCHANGED <<fw, acpiVars, bsp_lapic_id>> /\ Read
    BY <1>6 DEF ioapic_redirect_irq, AcpiInv, Walking, Read
  <2>2. job \in Jobs /\ job.line \in Lines
    BY <2>1 DEF JobInv, Redirecting, Jobs
  <2>3. \/ pc' = "fault"
        \/ /\ pc' = "write_low" /\ job' \in Jobs
           /\ job'.line = job.line /\ job'.return = job.return /\ job'.dest = job.dest
           /\ Target' = Gsi(job.line)
           /\ job'.low = LowWord(VectorOf(job.line), Flags(job.line))
    BY <1>6, <2>1, <2>2, RedirectIs
  <2> QED
    BY <2>1, <2>2, <2>3 DEF JobInv, Redirecting, acpiVars, Gsi, Flags
<1>7. CASE WriteLow
  BY <1>7 DEF WriteLow, JobInv, Redirecting, acpiVars, Gsi, Flags, Target
<1>8. CASE WriteHigh
  <2>1. pc' \in Returns /\ UNCHANGED bsp_lapic_id
    BY <1>8 DEF WriteHigh, JobInv, Redirecting, Jobs
  <2> QED
    BY <2>1 DEF JobInv, Returns, Redirecting
<1>9. CASE Ps2Port \/ TimerFires \/ Controller \/ _handle_keyboard \/ UNCHANGED vars
  BY <1>9 DEF Ps2Port, TimerFires, Controller, _handle_keyboard, vars, JobInv, acpiVars, Gsi, Flags, Target
<1> QED
  BY <1>1, <1>2, <1>3, <1>4, <1>5, <1>6, <1>7, <1>8, <1>9 DEF Next, Kernel

-----------------------------------------------------------------------------
(* The redirection entries.                                                *)

Inputs == 0 .. MaxGsi
Entries == [vector : {0, TIMER_VECTOR, KEYBOARD_VECTOR}, active_low : BOOLEAN, level : BOOLEAN,
            masked : BOOLEAN, dest : Dests]

(* The low word of a line's entry has been written.                        *)
TimerWritten ==
    \/ pc \in {"cpu_init", "lapic_init", "ps2_init", "ps2_setup", "ps2_enable", "ps2_last", "up",
               "write_high"}
    \/ pc \in {"ioapic_redirect_irq", "write_low"} /\ job.line = 1
KeyboardWritten ==
    \/ pc \in {"ps2_enable", "ps2_last", "up"}
    \/ pc = "write_high" /\ job.line = 1

(* An entry holds what the override of the line says.                      *)
Carries(e, line, flags) ==
    /\ e.vector = VectorOf(line)
    /\ e.active_low <=> Bit(flags, 2)
    /\ e.level <=> Bit(flags, 8)

(* An input is unmasked once a line is routed to it, and no earlier.  The  *)
(* keyboard's own input stays masked when the code comes to a fault.       *)
EntryInv ==
    /\ redir \in [Inputs -> Entries]
    /\ pc = "fault" => redir[Wired(fw, 1)].masked
    /\ pc # "fault" =>
           \A g \in Inputs : ~redir[g].masked <=> \/ TimerWritten /\ g = Gsi(0)
                                                  \/ KeyboardWritten /\ g = Gsi(1)
    /\ TimerWritten /\ Gsi(0) # Gsi(1) => Carries(redir[Gsi(0)], 0, Flags(0))
    /\ KeyboardWritten => Carries(redir[Gsi(1)], 1, Flags(1))
    /\ pc \in {"ps2_enable", "ps2_last", "up"} => redir[Gsi(1)].dest = fw.bsp

(* The entries out differ from r in the destination d of input t only.     *)
Readdressed(out, r, t, d) ==
    /\ out \in [Inputs -> Entries]
    /\ \A g \in Inputs : /\ out[g].vector = r[g].vector
                         /\ out[g].active_low <=> r[g].active_low
                         /\ out[g].level <=> r[g].level
                         /\ out[g].masked <=> r[g].masked
                         /\ out[g].dest = IF g = t THEN d ELSE r[g].dest

(* A write to the high word changes the destination only.                  *)
LEMMA HighWritten ==
    ASSUME NEW r \in [Inputs -> Entries], NEW t \in Inputs, NEW d \in Dests
    PROVE  Readdressed([r EXCEPT ![t].dest = d], r, t, d)
<1> DEFINE e == r[t]
           h == [e EXCEPT !.dest = d]
           out == [r EXCEPT ![t] = h]
<1>1. [r EXCEPT ![t].dest = d] = out
  BY Zenon
<1>2. e \in Entries
  OBVIOUS
<1> HIDE DEF e
<1>3. /\ h \in Entries /\ h.vector = e.vector /\ (h.active_low <=> e.active_low)
      /\ (h.level <=> e.level) /\ (h.masked <=> e.masked) /\ h.dest = d
  BY <1>2 DEF Entries
<1> HIDE DEF h
<1>4. out \in [Inputs -> Entries] /\ \A g \in Inputs : out[g] = IF g = t THEN h ELSE r[g]
  BY <1>3
<1> HIDE DEF out
<1>5. r[t] = e
  BY DEF e
<1>6. ASSUME NEW g \in Inputs
      PROVE  /\ out[g].vector = r[g].vector /\ (out[g].active_low <=> r[g].active_low)
             /\ (out[g].level <=> r[g].level) /\ (out[g].masked <=> r[g].masked)
             /\ out[g].dest = IF g = t THEN d ELSE r[g].dest
  BY <1>3, <1>4, <1>5
<1>7. Readdressed(out, r, t, d)
  BY <1>4, <1>6 DEF Readdressed
<1> QED
  BY <1>1, <1>7, Zenon

(* A write to the low word changes all but the destination.                *)
LEMMA LowWritten ==
    ASSUME NEW r \in [Inputs -> Entries], NEW t \in Inputs, NEW w \in LowWords
    PROVE  LET out == [r EXCEPT ![t] = [vector |-> w.vector, active_low |-> w.active_low,
                                        level |-> w.level, masked |-> w.masked, dest |-> @.dest]]
           IN  /\ out \in [Inputs -> Entries]
               /\ \A g \in Inputs \ {t} : out[g] = r[g]
               /\ out[t].vector = w.vector /\ (out[t].active_low <=> w.active_low)
               /\ (out[t].level <=> w.level) /\ ~out[t].masked /\ out[t].dest = r[t].dest
<1> DEFINE e == r[t]
           h == [vector |-> w.vector, active_low |-> w.active_low,
                 level |-> w.level, masked |-> w.masked, dest |-> e.dest]
           out == [r EXCEPT ![t] = h]
<1>1. [r EXCEPT ![t] = [vector |-> w.vector, active_low |-> w.active_low,
                        level |-> w.level, masked |-> w.masked, dest |-> @.dest]] = out
  BY Zenon
<1>2. e \in Entries
  OBVIOUS
<1> HIDE DEF e
<1>3. w.vector \in {TIMER_VECTOR, KEYBOARD_VECTOR} /\ w.active_low \in BOOLEAN /\ w.level \in BOOLEAN
      /\ w.masked = FALSE /\ e.dest \in Dests
  BY <1>2 DEF LowWords, Entries
<1>4. /\ h \in Entries /\ h.vector = w.vector /\ (h.active_low <=> w.active_low)
      /\ (h.level <=> w.level) /\ ~h.masked /\ h.dest = e.dest
  BY <1>3 DEF Entries
<1> HIDE DEF h
<1>5. out \in [Inputs -> Entries] /\ out[t] = h /\ \A g \in Inputs \ {t} : out[g] = r[g]
  BY <1>4
<1> HIDE DEF out
<1> QED
  BY <1>1, <1>4, <1>5 DEF e

(* The input a line is wired to is one of the machine's.                   *)
LEMMA WiredIn ==
    ASSUME NEW f \in Firmware, NEW line \in Lines
    PROVE  Wired(f, line) \in Inputs
<1>1. MaxGsi \in Nat /\ MaxGsi > 0 /\ line \in {0, 1}
  BY WiringAssumption DEF Lines
<1>2. CASE Overrides(f, line) = {}
  BY <1>1, <1>2 DEF Wired, Inputs
<1>3. CASE Overrides(f, line) # {}
  <2>1. Override(f, line) \in Described(f, ICS_ID_ISO)
    BY <1>3 DEF Override, Overrides
  <2>2. Override(f, line).gsi \in Inputs
    BY <2>1, WiringAssumption DEF Inputs
  <2> QED
    BY <1>3, <2>2 DEF Wired
<1> QED
  BY <1>2, <1>3

(* A step that writes no entry.                                            *)
LEMMA EntryRests ==
    ASSUME EntryInv, UNCHANGED <<fw, redir>>, pc # "fault", pc' # "fault",
           TimerWritten' <=> TimerWritten, KeyboardWritten' <=> KeyboardWritten,
           iso_list' = iso_list \/ ~(TimerWritten \/ KeyboardWritten),
           pc' \in {"ps2_enable", "ps2_last", "up"} => pc \in {"ps2_enable", "ps2_last", "up"}
    PROVE  EntryInv'
<1>1. CASE ~(TimerWritten \/ KeyboardWritten)
  <2>1. ~TimerWritten /\ ~KeyboardWritten /\ ~TimerWritten' /\ ~KeyboardWritten'
    BY <1>1
  <2>2. pc' \notin {"ps2_enable", "ps2_last", "up"}
    BY <2>1 DEF KeyboardWritten
  <2> HIDE DEF TimerWritten, KeyboardWritten
  <2> QED
    BY <2>1, <2>2 DEF EntryInv
<1>2. CASE TimerWritten \/ KeyboardWritten
  <2>1. iso_list' = iso_list
    BY <1>2
  <2> QED
    BY <2>1 DEF EntryInv, Gsi, Flags
<1> QED
  BY <1>1, <1>2

(* ioapic_write of the low word.                                           *)
LEMMA EntryLow ==
    ASSUME AcpiInv, JobInv, EntryInv, WriteLow
    PROVE  EntryInv'
<1>1. /\ pc = "write_low" /\ pc' = "write_high" /\ UNCHANGED <<fw, iso_list, job>>
      /\ redir' = [redir EXCEPT ![Target] = [vector |-> job.low.vector,
                                             active_low |-> job.low.active_low,
                                             level |-> job.low.level,
                                             masked |-> job.low.masked,
                                             dest |-> @.dest]]
  BY DEF WriteLow, acpiVars
<1>2. /\ job.line \in Lines /\ Target = Gsi(job.line) /\ job.low \in LowWords
      /\ job.low = LowWord(VectorOf(job.line), Flags(job.line)) /\ Read
  BY <1>1 DEF JobInv, Jobs, Redirecting, AcpiInv, Walking, Read
<1> DEFINE l == job.line
           t == Gsi(l)
           w == job.low
<1>3. t \in Inputs /\ Gsi(0) \in Inputs /\ Gsi(1) \in Inputs
  BY <1>2, GsiIs DEF Inputs, Lines
<1>4. /\ w.vector = VectorOf(l) /\ (w.active_low <=> Bit(Flags(l), 2))
      /\ (w.level <=> Bit(Flags(l), 8))
  BY <1>2 DEF LowWord
<1>5. redir \in [Inputs -> Entries]
  BY DEF EntryInv
<1>6. /\ redir' \in [Inputs -> Entries]
      /\ \A g \in Inputs \ {t} : redir'[g] = redir[g]
      /\ redir'[t].vector = w.vector /\ (redir'[t].active_low <=> w.active_low)
      /\ (redir'[t].level <=> w.level) /\ ~redir'[t].masked
  BY <1>1, <1>2, <1>3, <1>5, LowWritten
<1>7. Carries(redir'[t], l, Flags(l))
  BY <1>4, <1>6 DEF Carries
<1>8. l \in {0, 1} /\ job' = job
  BY <1>1, <1>2 DEF Lines
<1>9. CASE l = 0
  <2>1. /\ ~TimerWritten /\ ~KeyboardWritten /\ TimerWritten' /\ ~KeyboardWritten'
    BY <1>1, <1>9 DEF TimerWritten, KeyboardWritten
  <2>2. \A g \in Inputs : redir[g].masked
    BY <1>1, <2>1 DEF EntryInv
  <2>3. \A g \in Inputs : ~redir'[g].masked <=> g = Gsi(0)
    BY <1>6, <1>9, <2>2
  <2>4. Carries(redir'[Gsi(0)], 0, Flags(0))
    BY <1>7, <1>9
  <2> QED
    BY <1>1, <1>6, <2>1, <2>3, <2>4 DEF EntryInv, Gsi, Flags
<1>10. CASE l = 1
  <2>1. /\ TimerWritten /\ ~KeyboardWritten /\ TimerWritten' /\ KeyboardWritten'
    BY <1>1, <1>10 DEF TimerWritten, KeyboardWritten
  <2>2. \A g \in Inputs : ~redir[g].masked <=> g = Gsi(0)
    BY <1>1, <2>1 DEF EntryInv
  <2>3. \A g \in Inputs : ~redir'[g].masked <=> g = Gsi(0) \/ g = Gsi(1)
    BY <1>6, <1>10, <2>2
  <2>4. Carries(redir'[Gsi(1)], 1, Flags(1))
    BY <1>7, <1>10
  <2>5. Gsi(0) # Gsi(1) => Carries(redir'[Gsi(0)], 0, Flags(0))
    BY <1>3, <1>6, <1>10, <2>1 DEF EntryInv
  <2> QED
    BY <1>1, <1>6, <2>1, <2>3, <2>4, <2>5 DEF EntryInv, Gsi, Flags
<1> QED
  BY <1>8, <1>9, <1>10

(* ioapic_write of the high word.                                          *)
LEMMA EntryHigh ==
    ASSUME AcpiInv, JobInv, EntryInv, WriteHigh
    PROVE  EntryInv'
<1>1. /\ pc = "write_high" /\ pc' = job.return /\ UNCHANGED <<fw, iso_list>>
      /\ redir' = [redir EXCEPT ![Target].dest = job.dest]
  BY DEF WriteHigh, acpiVars
<1>2. /\ job.line \in Lines /\ Target = Gsi(job.line) /\ job.dest \in Dests /\ Read
      /\ job.line = 0 => job.return = "cpu_init"
      /\ job.line = 1 => job.return = "ps2_enable" /\ job.dest = fw.bsp
  BY <1>1 DEF JobInv, Jobs, Redirecting, AcpiInv, Walking, Read
<1> DEFINE l == job.line
           t == Gsi(l)
           d == job.dest
<1>3. t \in Inputs /\ Gsi(0) \in Inputs /\ Gsi(1) \in Inputs
  BY <1>2, GsiIs DEF Inputs, Lines
<1>4. redir \in [Inputs -> Entries]
  BY DEF EntryInv
<1>5. redir' = [redir EXCEPT ![t].dest = d]
  BY <1>1, <1>2, Zenon
<1>6. /\ redir' \in [Inputs -> Entries]
      /\ \A g \in Inputs : /\ redir'[g].vector = redir[g].vector
                           /\ redir'[g].active_low <=> redir[g].active_low
                           /\ redir'[g].level <=> redir[g].level
                           /\ redir'[g].masked <=> redir[g].masked
                           /\ redir'[g].dest = IF g = t THEN d ELSE redir[g].dest
  <2> HIDE DEF t, d
  <2>1. d \in Dests /\ t \in Inputs
    BY <1>2, <1>3 DEF d
  <2>2. Readdressed(redir', redir, t, d)
    BY <1>4, <1>5, <2>1, HighWritten, Zenon
  <2> QED
    BY <2>2 DEF Readdressed
<1>7. \A line, flags : \A g \in Inputs : Carries(redir[g], line, flags) => Carries(redir'[g], line, flags)
  BY <1>6 DEF Carries
<1>8. l \in {0, 1}
  BY <1>2 DEF Lines
<1>9. CASE l = 0
  <2>1. /\ TimerWritten /\ ~KeyboardWritten /\ TimerWritten' /\ ~KeyboardWritten' /\ pc' = "cpu_init"
    BY <1>1, <1>2, <1>9 DEF TimerWritten, KeyboardWritten
  <2>2. \A g \in Inputs : ~redir'[g].masked <=> g = Gsi(0)
    BY <1>1, <1>6, <2>1 DEF EntryInv
  <2>3. Gsi(0) # Gsi(1) => Carries(redir'[Gsi(0)], 0, Flags(0))
    BY <1>3, <1>7, <2>1 DEF EntryInv
  <2> QED
    BY <1>1, <1>6, <2>1, <2>2, <2>3 DEF EntryInv, Gsi, Flags
<1>10. CASE l = 1
  <2>1. /\ TimerWritten /\ KeyboardWritten /\ TimerWritten' /\ KeyboardWritten' /\ pc' = "ps2_enable"
    BY <1>1, <1>2, <1>10 DEF TimerWritten, KeyboardWritten
  <2>2. \A g \in Inputs : ~redir'[g].masked <=> g = Gsi(0) \/ g = Gsi(1)
    BY <1>1, <1>6, <2>1 DEF EntryInv
  <2>3. /\ Gsi(0) # Gsi(1) => Carries(redir'[Gsi(0)], 0, Flags(0))
        /\ Carries(redir'[Gsi(1)], 1, Flags(1))
    BY <1>3, <1>7, <2>1 DEF EntryInv
  <2>4. redir'[Gsi(1)].dest = fw.bsp
    BY <1>2, <1>3, <1>6, <1>10
  <2> QED
    BY <1>1, <1>6, <2>1, <2>2, <2>3, <2>4 DEF EntryInv, Gsi, Flags
<1> QED
  BY <1>8, <1>9, <1>10

(* Every step keeps the entries as the code's position says.               *)
LEMMA EntryStep ==
    ASSUME AcpiInv, JobInv, EntryInv, [Next]_vars
    PROVE  EntryInv'
<1> USE DEF TimerWritten, KeyboardWritten
<1>1. CASE AcpiTable \/ AcpiMadt \/ MadtMove \/ MadtEnd \/ AcpiEnd
  <2>1. pc \in Walking /\ pc' \in Walking \union {"hpet_init", "halt"} /\ UNCHANGED <<fw, redir>>
    BY <1>1 DEF AcpiTable, AcpiMadt, MadtMove, MadtEnd, AcpiEnd, Walking
  <2> QED
    BY <2>1, EntryRests DEF Walking
<1>2. CASE hpet_init
  <2>1. /\ pc = "hpet_init" /\ pc' = "ioapic_redirect_irq" /\ UNCHANGED <<fw, redir>>
        /\ job' = NewJob(0, "cpu_init")
    BY <1>2 DEF hpet_init
  <2>2. job'.line = 0
    BY <2>1 DEF NewJob
  <2> QED
    BY <2>1, <2>2, EntryRests
<1>3. CASE HpetFault
  <2>1. /\ pc = "hpet_init" /\ pc' = "fault" /\ UNCHANGED <<fw, redir>> /\ fw \in Firmware
    BY <1>3 DEF HpetFault, AcpiInv
  <2>2. Wired(fw, 1) \in Inputs
    BY <2>1, WiredIn DEF Lines
  <2>3. redir[Wired(fw, 1)].masked
    BY <2>1, <2>2 DEF EntryInv
  <2> QED
    BY <2>1, <2>3 DEF EntryInv
<1>4. CASE cpu_init \/ lapic_init \/ ps2_init
  BY <1>4, EntryRests DEF cpu_init, lapic_init, ps2_init, acpiVars
<1>5. CASE Ps2Route
  <2>1. /\ pc = "ps2_setup" /\ pc' = "ioapic_redirect_irq" /\ UNCHANGED <<fw, redir, iso_list>>
        /\ job' = NewJob(1, "ps2_enable")
    BY <1>5 DEF Ps2Route, acpiVars
  <2>2. job'.line = 1
    BY <2>1 DEF NewJob
  <2> QED
    BY <2>1, <2>2, EntryRests
<1>6. CASE Ps2Enable \/ Up
  BY <1>6, EntryRests DEF Ps2Enable, Up, acpiVars
<1>7. CASE ioapic_redirect_irq
  <2>1. /\ pc = "ioapic_redirect_irq" /\ UNCHANGED <<fw, redir, iso_list>> /\ Read
        /\ job \in Jobs
    BY <1>7, ZenonT(40) DEF ioapic_redirect_irq, acpiVars, AcpiInv, Walking, Read, JobInv, Redirecting
  <2>2. \/ pc' = "fault"
        \/ pc' = "write_low" /\ job'.line = job.line
    BY <1>7, <2>1, RedirectIs
  <2>3. CASE pc' = "fault"
    <3>1. Wired(fw, 1) \in Inputs /\ Wired(fw, 1) # Gsi(0)
      BY <2>1, WiredIn, InputsApart DEF Read, Lines
    <3>2. redir[Wired(fw, 1)].masked
      BY <2>1, <3>1 DEF EntryInv
    <3> QED
      BY <2>1, <2>3, <3>2 DEF EntryInv
  <2>4. CASE pc' = "write_low" /\ job'.line = job.line
    BY <2>1, <2>4, EntryRests
  <2> QED
    BY <2>2, <2>3, <2>4
<1>8. CASE WriteLow
  BY <1>8, EntryLow
<1>9. CASE WriteHigh
  BY <1>9, EntryHigh
<1>10. CASE Ps2Port \/ TimerFires \/ Controller \/ _handle_keyboard \/ UNCHANGED vars
  <2>1. UNCHANGED <<fw, pc, iso_list, job, redir>>
    BY <1>10 DEF Ps2Port, TimerFires, Controller, _handle_keyboard, vars, acpiVars
  <2> QED
    BY <2>1 DEF EntryInv, Gsi, Flags
<1> QED
  BY <1>1, <1>2, <1>3, <1>4, <1>5, <1>6, <1>7, <1>8, <1>9, <1>10 DEF Next, Kernel

-----------------------------------------------------------------------------
(* ps2_init's dialogue with the controller.                                *)

(* The phases of the code: before ps2_init, and between its two scripts.   *)
Early ==
    \/ pc \in Walking \union {"hpet_init", "halt", "cpu_init", "lapic_init", "ps2_init"}
    \/ pc \in Redirecting /\ job.line = 0
Between ==
    \/ pc = "ps2_enable"
    \/ pc \in Redirecting /\ job.line = 1

(* After n accesses of the first script: the buffers, and what the code    *)
(* took for the configuration.  Accesses wait for the controller to have   *)
(* taken the command before, so that the keyboard is off before the flush. *)
After(n, i_b, o_b, on, raises, byte) ==
    /\ byte = IF n < 5 THEN "none" ELSE "config"
    /\ n = 0 => i_b = "none"
    /\ n = 1 => i_b \in {"none", "AD"} /\ (i_b = "none" => ~on)
    /\ n > 1 => ~on
    /\ n \in {2, 3} => i_b \in {"none", "A7"}
    /\ n = 4 => (i_b = "20" /\ o_b = "none") \/ (i_b = "none" /\ o_b = "config")
    /\ n = 5 => i_b = "none"
    /\ n = 6 => i_b \in {"none", "60"}
    /\ n = 7 => i_b \in {"none", "data"} /\ (i_b = "none" => raises)
    /\ n \in {3, 5, 6, 7} => o_b = "none"

(* What holds in each phase.  The second script is left but for n, and the *)
(* controller raises interrupts once it has been started.                  *)
DialogueInv ==
    /\ irr => pc \in {"ps2_last", "up"}
    /\ Early => todo = << >> /\ After(0, ibuf, obuf, kbd_on, irq_on, config)
    /\ pc = "ps2_setup" =>
           \E n \in 0 .. 7 : Left(todo, SetUp, n) /\ After(n, ibuf, obuf, kbd_on, irq_on, config)
    /\ Between => todo = << >> /\ After(7, ibuf, obuf, kbd_on, irq_on, config)
    /\ pc \in {"ps2_last", "up"} =>
           \E n \in 0 .. 2 :
               /\ Left(todo, SwitchOn(fw.mouse), n)
               /\ n = 0 => After(7, ibuf, obuf, kbd_on, irq_on, config)
               /\ n > 0 => /\ config = "config" /\ irq_on /\ ibuf \in {"none", "AE", "A8"}
                           /\ Fits /\ obuf # "none" => irr
    /\ pc = "up" => todo = << >>
    /\ pc = "fault" => todo = << >> /\ config # "key"

(* The controller's steps, without equality of Booleans.                   *)
LEMMA ObeyIs ==
    ASSUME Obey
    PROVE  /\ ibuf # "none" /\ (ibuf = "20" => obuf = "none") /\ ibuf' = "none"
           /\ obuf' = IF ibuf = "20" THEN "config" ELSE obuf
           /\ (ibuf = "AD" => ~kbd_on') /\ (ibuf = "AE" => kbd_on')
           /\ (ibuf \notin {"AD", "AE"} => kbd_on' = kbd_on)
           /\ irq_on' <=> (irq_on \/ ibuf = "data")
           /\ UNCHANGED <<todo, config>>
<1>1. /\ ibuf # "none" /\ (ibuf = "20" => obuf = "none") /\ ibuf' = "none"
      /\ obuf' = IF ibuf = "20" THEN "config" ELSE obuf
      /\ kbd_on' = CASE ibuf = "AD" -> FALSE [] ibuf = "AE" -> TRUE [] OTHER -> kbd_on
      /\ irq_on' = (irq_on \/ ibuf = "data")
      /\ UNCHANGED <<todo, config>>
  BY DEF Obey
<1>2. ibuf = "AD" => ~kbd_on'
  BY <1>1
<1>3. ibuf = "AE" => kbd_on'
  BY <1>1
<1>4. ibuf \notin {"AD", "AE"} => kbd_on' = kbd_on
  BY <1>1
<1> QED
  BY <1>1, <1>2, <1>3, <1>4

(* Between two accesses of the first script the controller's steps keep    *)
(* what the dialogue relies on; once it is through, nothing comes.         *)
LEMMA AfterObey ==
    ASSUME NEW n \in 0 .. 7, After(n, ibuf, obuf, kbd_on, irq_on, config), Obey \/ KeyByte
    PROVE  /\ After(n, ibuf', obuf', kbd_on', irq_on', config')
           /\ n = 7 => obuf' = obuf
           /\ UNCHANGED <<todo, config>>
<1>1. CASE Obey
  BY <1>1, ObeyIs DEF After
<1>2. CASE KeyByte
  BY <1>2 DEF KeyByte, After
<1> QED
  BY <1>1, <1>2

(* The next access of the first script.                                    *)
LEMMA AfterPort ==
    ASSUME NEW n \in 0 .. 7, Left(todo, SetUp, n), After(n, ibuf, obuf, kbd_on, irq_on, config),
           ps2_write \/ ps2_read_no_wait \/ ps2_read
    PROVE  /\ n + 1 \in 0 .. 7 /\ Left(todo', SetUp, n + 1)
           /\ After(n + 1, ibuf', obuf', kbd_on', irq_on', config')
<1>1. todo # << >> /\ todo' = Tail(todo) /\ UNCHANGED <<kbd_on, irq_on>>
  BY DEF ps2_write, ps2_read_no_wait, ps2_read
<1>2. /\ Left(todo', SetUp, n + 1) /\ Head(todo) = SetUp[n + 1] /\ n + 1 \in 1 .. 7
  BY <1>1, NextLeft, SetUpIs
<1>3. /\ n = 0 => Head(todo) = "AD"
      /\ n = 1 => Head(todo) = "A7"
      /\ n = 2 => Head(todo) = "flush"
      /\ n = 3 => Head(todo) = "20"
      /\ n = 4 => Head(todo) = "read"
      /\ n = 5 => Head(todo) = "60"
      /\ n = 6 => Head(todo) = "data"
  BY <1>2, SetUpIs
<1> DEFINE h == Head(todo)
<1>4. CASE ps2_write
  <2>1. h \notin {"flush", "read"} /\ ibuf = "none" /\ ibuf' = h /\ UNCHANGED <<config, obuf>>
    BY <1>4 DEF ps2_write
  <2> HIDE DEF h
  <2>2. After(n + 1, ibuf', obuf', kbd_on', irq_on', config')
    BY <1>1, <1>2, <1>3, <2>1 DEF After, h
  <2> QED
    BY <1>2, <2>2
<1>5. CASE ps2_read_no_wait
  <2>1. h = "flush" /\ obuf' = "none" /\ UNCHANGED <<config, ibuf>>
    BY <1>5 DEF ps2_read_no_wait
  <2>2. n = 2
    BY <1>2, <1>3, <2>1
  <2> QED
    BY <1>1, <1>2, <2>1, <2>2 DEF After
<1>6. CASE ps2_read
  <2>1. h = "read" /\ obuf # "none" /\ config' = obuf /\ obuf' = "none" /\ UNCHANGED ibuf
    BY <1>6 DEF ps2_read
  <2>2. n = 4
    BY <1>2, <1>3, <2>1
  <2> QED
    BY <1>1, <1>2, <2>1, <2>2 DEF After
<1> QED
  BY <1>4, <1>5, <1>6

(* An interrupt leaves the keyboard's input only when it has been routed,  *)
(* and then with its vector, and to the boot processor.                    *)
LEMMA KeyboardSent ==
    ASSUME AcpiInv, EntryInv, NEW m \in Sent(1)
    PROVE  /\ KeyboardWritten /\ m.vector = KEYBOARD_VECTOR
           /\ pc \in {"ps2_last", "up"} => m.dest = fw.bsp
<1> DEFINE e == redir[Wired(fw, 1)]
<1>1. /\ ~e.masked /\ m.vector = e.vector /\ m.dest = e.dest
  <2>1. Sent(1) = IF e.masked THEN {} ELSE {[line |-> 1, vector |-> e.vector, dest |-> e.dest]}
    BY DEF Sent
  <2> QED
    BY <2>1
<1>2. fw \in Firmware /\ Wired(fw, 1) \in Inputs
  BY WiredIn DEF AcpiInv, Lines
<1>3. \/ TimerWritten /\ Wired(fw, 1) = Gsi(0)
      \/ KeyboardWritten /\ Wired(fw, 1) = Gsi(1)
  BY <1>1, <1>2 DEF EntryInv
<1>4. Read
  BY <1>3 DEF AcpiInv, Walking, Read, TimerWritten, KeyboardWritten
<1>5. KeyboardWritten /\ Wired(fw, 1) = Gsi(1)
  BY <1>3, <1>4, InputsApart
<1>6. e.vector = KEYBOARD_VECTOR
  BY <1>5 DEF EntryInv, Carries, VectorOf
<1>7. pc \in {"ps2_last", "up"} => e.dest = fw.bsp
  BY <1>5 DEF EntryInv
<1> QED
  BY <1>1, <1>5, <1>6, <1>7

(* Once the keyboard's second script runs, an interrupt does leave it.     *)
LEMMA KeyboardAnswers ==
    ASSUME AcpiInv, EntryInv, Fits, pc \in {"ps2_last", "up"}
    PROVE  \E m \in Sent(1) : m.dest = fw.bsp /\ m.vector = KEYBOARD_VECTOR
<1> DEFINE e == redir[Wired(fw, 1)]
           m == [line |-> 1, vector |-> e.vector, dest |-> e.dest]
<1>1. Read /\ fw \in Firmware /\ KeyboardWritten
  BY DEF AcpiInv, Walking, Read, KeyboardWritten
<1>2. Gsi(1) = Wired(fw, 1) /\ Wired(fw, 1) \in Inputs
  BY <1>1, GsiIs, WiredIn DEF Lines
<1>3. ~e.masked /\ e.vector = KEYBOARD_VECTOR /\ e.dest = fw.bsp
  BY <1>1, <1>2 DEF EntryInv, Carries, VectorOf
<1>4. m \in Sent(1)
  BY <1>3 DEF Sent
<1>5. m.dest = fw.bsp /\ m.vector = KEYBOARD_VECTOR
  BY <1>3
<1> QED
  BY <1>4, <1>5

(* Steps of the code in a phase that leave the controller alone.           *)
LEMMA PhaseStays ==
    ASSUME DialogueInv, UNCHANGED <<ps2Vars, irr>>, pc \notin {"ps2_last", "up"},
           \/ Early /\ (Early' \/ pc' = "fault")
           \/ Between /\ (Between' \/ pc' = "fault")
    PROVE  DialogueInv'
<1>1. /\ UNCHANGED <<todo, config, ibuf, obuf, kbd_on, irq_on, irr>> /\ ~irr
      /\ pc' \notin {"ps2_setup", "ps2_last", "up"}
  BY DEF ps2Vars, DialogueInv, Early, Between, Walking, Redirecting
<1>2. ~(Early' /\ Between') /\ ~(Early' /\ pc' = "fault") /\ ~(Between' /\ pc' = "fault")
  BY DEF Early, Between, Walking, Redirecting
<1>3. CASE Early
  <2>1. todo = << >> /\ After(0, ibuf, obuf, kbd_on, irq_on, config)
    BY <1>3 DEF DialogueInv
  <2>2. config # "key"
    BY <2>1 DEF After
  <2>3. Early' \/ pc' = "fault"
    BY <1>3 DEF Early, Between, Walking, Redirecting
  <2> QED
    BY <1>1, <1>2, <2>1, <2>2, <2>3 DEF DialogueInv
<1>4. CASE Between
  <2>1. todo = << >> /\ After(7, ibuf, obuf, kbd_on, irq_on, config)
    BY <1>4 DEF DialogueInv
  <2>2. config # "key"
    BY <2>1 DEF After
  <2>3. Between' \/ pc' = "fault"
    BY <1>4 DEF Early, Between, Walking, Redirecting
  <2> QED
    BY <1>1, <1>2, <2>1, <2>2, <2>3 DEF DialogueInv
<1> QED
  BY <1>3, <1>4

(* The code's own steps but the port accesses.                             *)
LEMMA CodeDialogue ==
    ASSUME AcpiInv, JobInv, DialogueInv,
           \/ AcpiTable \/ AcpiMadt \/ MadtMove \/ MadtEnd \/ AcpiEnd \/ hpet_init \/ HpetFault
           \/ cpu_init \/ lapic_init \/ ioapic_redirect_irq \/ WriteLow \/ WriteHigh
    PROVE  DialogueInv'
<1>1. CASE AcpiTable \/ AcpiMadt \/ MadtMove \/ MadtEnd \/ AcpiEnd
  <2>1. /\ pc \in Walking /\ pc' \in Walking \union {"hpet_init", "halt"} /\ UNCHANGED <<ps2Vars, irr>>
    BY <1>1 DEF AcpiTable, AcpiMadt, MadtMove, MadtEnd, AcpiEnd, Walking
  <2> QED
    BY <2>1, PhaseStays DEF Early, Walking
<1>2. CASE hpet_init
  <2>1. /\ pc = "hpet_init" /\ pc' = "ioapic_redirect_irq" /\ job' = NewJob(0, "cpu_init")
        /\ UNCHANGED <<ps2Vars, irr>>
    BY <1>2 DEF hpet_init
  <2>2. job'.line = 0
    BY <2>1 DEF NewJob
  <2> QED
    BY <2>1, <2>2, PhaseStays DEF Early, Redirecting
<1>3. CASE HpetFault \/ cpu_init \/ lapic_init
  <2>1. /\ pc \in {"hpet_init", "cpu_init", "lapic_init"} /\ pc' \in {"fault", "lapic_init", "ps2_init"}
        /\ UNCHANGED <<ps2Vars, irr>>
    BY <1>3 DEF HpetFault, cpu_init, lapic_init
  <2> QED
    BY <2>1, PhaseStays DEF Early
<1>4. CASE ioapic_redirect_irq
  <2>1. /\ pc = "ioapic_redirect_irq" /\ Read /\ job \in Jobs /\ job.line \in {0, 1}
        /\ UNCHANGED <<ps2Vars, irr>>
    BY <1>4, ZenonT(40) DEF ioapic_redirect_irq, AcpiInv, Walking, Read, JobInv, Redirecting, Jobs, Lines
  <2>2. pc' = "fault" \/ (pc' = "write_low" /\ job'.line = job.line)
    BY <1>4, <2>1, RedirectIs
  <2> QED
    BY <2>1, <2>2, PhaseStays DEF Early, Between, Redirecting
<1>5. CASE WriteLow
  <2>1. /\ pc = "write_low" /\ pc' = "write_high" /\ UNCHANGED <<job, ps2Vars, irr>>
        /\ job.line \in {0, 1}
    BY <1>5 DEF WriteLow, JobInv, Redirecting, Jobs, Lines
  <2> QED
    BY <2>1, PhaseStays DEF Early, Between, Redirecting
<1>6. CASE WriteHigh
  <2>1. /\ pc = "write_high" /\ pc' = job.return /\ UNCHANGED <<ps2Vars, irr>>
    BY <1>6, Zenon DEF WriteHigh
  <2>2. /\ job.line \in {0, 1} /\ (job.line = 0 => job.return = "cpu_init")
        /\ (job.line = 1 => job.return = "ps2_enable")
    BY <2>1 DEF JobInv, Redirecting, Jobs, Lines
  <2> QED
    BY <2>1, <2>2, PhaseStays DEF Early, Between, Redirecting
<1> QED
  BY <1>1, <1>2, <1>3, <1>4, <1>5, <1>6

(* ps2_init's steps but the port accesses.                                 *)
LEMMA Ps2Dialogue ==
    ASSUME AcpiInv, JobInv, DialogueInv, ps2_init \/ Ps2Route \/ Ps2Enable \/ Up
    PROVE  DialogueInv'
<1>1. CASE ps2_init
  <2>1. /\ pc = "ps2_init" /\ pc' = "ps2_setup" /\ todo' = SetUp /\ ~irr
        /\ UNCHANGED <<config, ibuf, obuf, kbd_on, irq_on, irr>>
    BY <1>1 DEF ps2_init, DialogueInv
  <2>2. After(0, ibuf, obuf, kbd_on, irq_on, config)
    BY <2>1 DEF DialogueInv, Early
  <2>3. Left(SetUp, SetUp, 0)
    BY SetUpIs, AllLeft
  <2>4. 0 \in 0 .. 7 /\ Left(todo', SetUp, 0) /\ After(0, ibuf', obuf', kbd_on', irq_on', config')
    BY <2>1, <2>2, <2>3
  <2>5. ~Early' /\ ~Between'
    BY <2>1 DEF Early, Between, Walking, Redirecting
  <2> HIDE DEF Early, Between, After, Left
  <2> QED
    BY <2>1, <2>4, <2>5 DEF DialogueInv
<1>2. CASE Ps2Route
  <2>1. /\ pc = "ps2_setup" /\ todo = << >> /\ pc' = "ioapic_redirect_irq" /\ ~irr
        /\ job' = NewJob(1, "ps2_enable")
        /\ UNCHANGED <<todo, config, ibuf, obuf, kbd_on, irq_on, irr>>
    BY <1>2 DEF Ps2Route, ps2Vars, DialogueInv
  <2>2. PICK n \in 0 .. 7 : Left(todo, SetUp, n) /\ After(n, ibuf, obuf, kbd_on, irq_on, config)
    BY <2>1 DEF DialogueInv
  <2>3. n = 7
    BY <2>1, <2>2, NextLeft, SetUpIs
  <2>4. job'.line = 1
    BY <2>1 DEF NewJob
  <2>5. ~Early' /\ Between'
    BY <2>1, <2>4 DEF Early, Between, Walking, Redirecting
  <2> QED
    BY <2>1, <2>2, <2>3, <2>5 DEF DialogueInv
<1>3. CASE Ps2Enable
  <2>1. /\ pc = "ps2_enable" /\ pc' = "ps2_last" /\ todo' = SwitchOn(fw.mouse)
        /\ UNCHANGED <<fw, config, ibuf, obuf, kbd_on, irq_on, irr>>
    BY <1>3 DEF Ps2Enable
  <2>2. After(7, ibuf, obuf, kbd_on, irq_on, config)
    BY <2>1 DEF DialogueInv, Between
  <2>3. Left(SwitchOn(fw.mouse), SwitchOn(fw.mouse), 0)
    BY SwitchOnIs, AllLeft
  <2>4. 0 \in 0 .. 2 /\ Left(todo', SwitchOn(fw'.mouse), 0) /\ ~(0 > 0)
        /\ After(7, ibuf', obuf', kbd_on', irq_on', config')
    BY <2>1, <2>2, <2>3
  <2>5. ~Early' /\ ~Between'
    BY <2>1 DEF Early, Between, Walking, Redirecting
  <2> HIDE DEF Early, Between, After, Left
  <2> QED
    BY <2>1, <2>4, <2>5 DEF DialogueInv
<1>4. CASE Up
  <2>1. /\ pc = "ps2_last" /\ todo = << >> /\ pc' = "up"
        /\ UNCHANGED <<fw, todo, config, ibuf, obuf, kbd_on, irq_on, irr>>
    BY <1>4 DEF Up, ps2Vars
  <2>2. ~Early' /\ ~Between'
    BY <2>1 DEF Early, Between, Walking, Redirecting
  <2> QED
    BY <2>1, <2>2 DEF DialogueInv, Fits
<1> QED
  BY <1>1, <1>2, <1>3, <1>4

(* What holds after n accesses of the second script.                       *)
Switched(n, rest, i_b, o_b, on, raises, byte, pending) ==
    /\ Left(rest, SwitchOn(fw.mouse), n)
    /\ n = 0 => After(7, i_b, o_b, on, raises, byte)
    /\ n > 0 => /\ byte = "config" /\ raises /\ i_b \in {"none", "AE", "A8"}
                /\ Fits /\ o_b # "none" => pending

(* The next access of the second script.                                   *)
LEMMA SwitchedPort ==
    ASSUME NEW n \in 0 .. 2, Switched(n, todo, ibuf, obuf, kbd_on, irq_on, config, irr),
           ps2_write \/ ps2_read_no_wait \/ ps2_read
    PROVE  /\ n + 1 \in 0 .. 2
           /\ Switched(n + 1, todo', ibuf', obuf', kbd_on', irq_on', config', irr)
<1> DEFINE s == SwitchOn(fw.mouse)
           h == Head(todo)
<1>1. todo # << >> /\ todo' = Tail(todo) /\ UNCHANGED irq_on
  BY DEF ps2_write, ps2_read_no_wait, ps2_read
<1>2. s \in Seq(Accesses) /\ Len(s) \in {1, 2} /\ s[1] = "AE" /\ (Len(s) = 2 => s[2] = "A8")
  BY SwitchOnIs
<1>3. Left(todo, s, n)
  BY DEF Switched
<1> HIDE DEF s
<1>4. Left(todo', s, n + 1) /\ h = s[n + 1] /\ n + 1 \in 1 .. Len(s)
  BY <1>1, <1>2, <1>3, NextLeft
<1>5. h \in {"AE", "A8"} /\ n + 1 \in 0 .. 2
  BY <1>2, <1>4
<1> HIDE DEF h
<1>6. ps2_write /\ ibuf = "none" /\ ibuf' = h /\ UNCHANGED <<config, obuf>>
  BY <1>5 DEF ps2_write, ps2_read_no_wait, ps2_read, h
<1>7. config = "config" /\ irq_on /\ (Fits /\ obuf # "none" => irr)
  <2>1. CASE n = 0
    BY <1>6, <2>1 DEF Switched, After
  <2>2. CASE n > 0
    BY <2>2 DEF Switched
  <2> QED
    BY <2>1, <2>2
<1>8. /\ n + 1 # 0 /\ config' = "config" /\ irq_on' /\ ibuf' \in {"none", "AE", "A8"}
      /\ Fits /\ obuf' # "none" => irr
  BY <1>1, <1>5, <1>6, <1>7
<1>9. Left(todo', SwitchOn(fw.mouse), n + 1)
  BY <1>4 DEF s
<1>10. Switched(n + 1, todo', ibuf', obuf', kbd_on', irq_on', config', irr)
  BY <1>8, <1>9, Zenon DEF Switched
<1> QED
  BY <1>5, <1>10

(* The port accesses.                                                      *)
LEMMA PortDialogue ==
    ASSUME AcpiInv, JobInv, DialogueInv, Ps2Port
    PROVE  DialogueInv'
<1>1. /\ ps2_write \/ ps2_read_no_wait \/ ps2_read
      /\ todo # << >> /\ UNCHANGED <<fw, pc, job, irr>>
  BY DEF Ps2Port, ps2_write, ps2_read_no_wait, ps2_read
<1>2. pc \in {"ps2_setup", "ps2_last"}
  <2>1. pc \in Positions /\ (pc \in Redirecting => job.line \in {0, 1})
    BY DEF AcpiInv, JobInv, Jobs, Lines
  <2> QED
    BY <1>1, <2>1 DEF DialogueInv, Early, Between, Positions, Walking, Redirecting, Returns
<1>3. ~Early' /\ ~Between'
  BY <1>1, <1>2 DEF Early, Between, Walking, Redirecting
<1>4. CASE pc = "ps2_setup"
  <2>1. PICK n \in 0 .. 7 : Left(todo, SetUp, n) /\ After(n, ibuf, obuf, kbd_on, irq_on, config)
    BY <1>4 DEF DialogueInv
  <2>2. /\ n + 1 \in 0 .. 7 /\ Left(todo', SetUp, n + 1)
        /\ After(n + 1, ibuf', obuf', kbd_on', irq_on', config')
    BY <1>1, <2>1, AfterPort
  <2> QED
    BY <1>1, <1>3, <1>4, <2>2 DEF DialogueInv
<1>5. CASE pc = "ps2_last"
  <2>1. PICK n \in 0 .. 2 : Switched(n, todo, ibuf, obuf, kbd_on, irq_on, config, irr)
    BY <1>5 DEF DialogueInv, Switched
  <2>2. /\ n + 1 \in 0 .. 2
        /\ Switched(n + 1, todo', ibuf', obuf', kbd_on', irq_on', config', irr)
    BY <1>1, <2>1, SwitchedPort
  <2> QED
    BY <1>1, <1>3, <1>5, <2>2 DEF DialogueInv, Switched, Fits
<1> QED
  BY <1>2, <1>4, <1>5

(* A byte that raises an interrupt comes in the second script only.        *)
LEMMA ControllerIs ==
    ASSUME AcpiInv, EntryInv, DialogueInv, Controller
    PROVE  /\ Obey \/ KeyByte
           /\ UNCHANGED <<fw, pc, job, todo, config>>
           /\ irr => irr'
           /\ (irr' /\ ~irr) => pc \in {"ps2_last", "up"}
           /\ \A m \in sent' \ sent : /\ pc \in {"ps2_last", "up"}
                                      /\ m.vector = KEYBOARD_VECTOR /\ m.dest = fw.bsp
           /\ pc \in {"ps2_last", "up"} /\ Fits /\ obuf' # obuf /\ irq_on => irr'
<1> DEFINE new == IF obuf' # obuf /\ irq_on THEN Sent(1) ELSE {}
           Hit == \E m \in new : m.dest = fw.bsp /\ m.vector = KEYBOARD_VECTOR
<1>1. /\ Obey \/ KeyByte
      /\ UNCHANGED <<fw, pc, job>> /\ sent' = sent \union new /\ irr' = (irr \/ Hit)
  BY DEF Controller
<1>2. UNCHANGED <<todo, config>>
  BY <1>1 DEF Obey, KeyByte
<1>3. ASSUME NEW m \in new PROVE pc \in {"ps2_last", "up"} /\ m.vector = KEYBOARD_VECTOR /\ m.dest = fw.bsp
  <2>1. m \in Sent(1) /\ obuf' # obuf
    OBVIOUS
  <2>2. KeyboardWritten /\ m.vector = KEYBOARD_VECTOR /\ (pc \in {"ps2_last", "up"} => m.dest = fw.bsp)
    BY <2>1, KeyboardSent
  <2>3. ~Between
    <3> SUFFICES ASSUME Between PROVE FALSE
      OBVIOUS
    <3>1. After(7, ibuf, obuf, kbd_on, irq_on, config)
      BY DEF DialogueInv
    <3> QED
      BY <1>1, <2>1, <3>1, AfterObey
  <2>4. pc \in {"ps2_last", "up"}
    BY <2>2, <2>3 DEF KeyboardWritten, Between, Redirecting
  <2> QED
    BY <2>2, <2>4
<1>4. irr' <=> irr \/ Hit
  BY <1>1
<1>5. pc \in {"ps2_last", "up"} /\ Fits /\ obuf' # obuf /\ irq_on => Hit
  BY KeyboardAnswers
<1> HIDE DEF new
<1> QED
  BY <1>1, <1>2, <1>3, <1>4, <1>5

(* The controller's steps, in every phase.                                 *)
LEMMA ControllerDialogue ==
    ASSUME AcpiInv, EntryInv, DialogueInv, Controller
    PROVE  DialogueInv'
<1>1. /\ Obey \/ KeyByte
      /\ UNCHANGED <<fw, pc, job, todo, config>>
      /\ irr => irr'
      /\ (irr' /\ ~irr) => pc \in {"ps2_last", "up"}
      /\ pc \in {"ps2_last", "up"} /\ Fits /\ obuf' # obuf /\ irq_on => irr'
  BY ControllerIs
<1>2. irr' => pc' \in {"ps2_last", "up"}
  BY <1>1 DEF DialogueInv
<1>3. ASSUME NEW n \in 0 .. 7, After(n, ibuf, obuf, kbd_on, irq_on, config)
      PROVE  After(n, ibuf', obuf', kbd_on', irq_on', config')
  BY <1>1, <1>3, AfterObey
<1>4. (Early' <=> Early) /\ (Between' <=> Between)
  BY <1>1 DEF Early, Between
<1>5. Early' => todo' = << >> /\ After(0, ibuf', obuf', kbd_on', irq_on', config')
  BY <1>1, <1>3, <1>4 DEF DialogueInv
<1>6. Between' => todo' = << >> /\ After(7, ibuf', obuf', kbd_on', irq_on', config')
  BY <1>1, <1>3, <1>4 DEF DialogueInv
<1>7. pc' = "ps2_setup" =>
          \E n \in 0 .. 7 : Left(todo', SetUp, n) /\ After(n, ibuf', obuf', kbd_on', irq_on', config')
  BY <1>1, <1>3 DEF DialogueInv
<1>8. ASSUME pc' \in {"ps2_last", "up"}
      PROVE  \E n \in 0 .. 2 : Switched(n, todo', ibuf', obuf', kbd_on', irq_on', config', irr')
  <2>1. PICK n \in 0 .. 2 : Switched(n, todo, ibuf, obuf, kbd_on, irq_on, config, irr)
    BY <1>1, <1>8 DEF DialogueInv, Switched
  <2>2. CASE n = 0
    <3>1. After(7, ibuf', obuf', kbd_on', irq_on', config')
      BY <1>3, <2>1, <2>2 DEF Switched
    <3> QED
      BY <1>1, <2>1, <2>2, <3>1 DEF Switched
  <2>3. CASE n > 0
    <3>1. /\ config = "config" /\ irq_on /\ ibuf \in {"none", "AE", "A8"}
          /\ Fits /\ obuf # "none" => irr
      BY <2>1, <2>3 DEF Switched
    <3>2. irq_on' /\ ibuf' \in {"none", "AE", "A8"}
      <4>1. CASE Obey
        BY <3>1, <4>1, ObeyIs
      <4>2. CASE KeyByte
        BY <3>1, <4>2 DEF KeyByte
      <4> QED
        BY <1>1, <4>1, <4>2
    <3>3. Fits /\ obuf' # "none" => irr'
      BY <1>1, <1>8, <3>1
    <3>4. n # 0 /\ config' = "config" /\ Left(todo', SwitchOn(fw.mouse), n)
      BY <1>1, <2>1, <2>3, <3>1 DEF Switched
    <3> QED
      BY <3>2, <3>3, <3>4, Zenon DEF Switched
  <2> QED
    BY <2>2, <2>3
<1>9. (pc' = "up" => todo' = << >>) /\ (pc' = "fault" => todo' = << >> /\ config' # "key")
  BY <1>1 DEF DialogueInv
<1> QED
  BY <1>1, <1>2, <1>5, <1>6, <1>7, <1>8, <1>9 DEF DialogueInv, Switched, Fits

(* The handler's read of the port.                                         *)
LEMMA HandlerDialogue ==
    ASSUME DialogueInv, _handle_keyboard
    PROVE  DialogueInv'
<1>1. /\ irr /\ ~irr' /\ obuf' = "none" /\ UNCHANGED <<fw, pc, job, todo, config, ibuf, kbd_on, irq_on>>
  BY DEF _handle_keyboard, TakeByte
<1>2. pc \in {"ps2_last", "up"}
  BY <1>1 DEF DialogueInv
<1>3. ~Early' /\ ~Between'
  BY <1>1, <1>2 DEF Early, Between, Walking, Redirecting
<1>4. PICK n \in 0 .. 2 : Switched(n, todo, ibuf, obuf, kbd_on, irq_on, config, irr)
  BY <1>2 DEF DialogueInv, Switched
<1>5. Switched(n, todo', ibuf', obuf', kbd_on', irq_on', config', irr')
  BY <1>1, <1>4 DEF Switched, After
<1> QED
  BY <1>1, <1>2, <1>3, <1>5 DEF DialogueInv, Switched, Fits

(* Every step keeps the dialogue's invariant.                              *)
LEMMA DialogueStep ==
    ASSUME AcpiInv, JobInv, EntryInv, DialogueInv, [Next]_vars
    PROVE  DialogueInv'
<1>1. CASE \/ AcpiTable \/ AcpiMadt \/ MadtMove \/ MadtEnd \/ AcpiEnd \/ hpet_init \/ HpetFault
           \/ cpu_init \/ lapic_init \/ ioapic_redirect_irq \/ WriteLow \/ WriteHigh
  BY <1>1, CodeDialogue
<1>2. CASE ps2_init \/ Ps2Route \/ Ps2Enable \/ Up
  BY <1>2, Ps2Dialogue
<1>3. CASE Ps2Port
  BY <1>3, PortDialogue
<1>4. CASE Controller
  BY <1>4, ControllerDialogue
<1>5. CASE _handle_keyboard
  BY <1>5, HandlerDialogue
<1>6. CASE TimerFires \/ UNCHANGED vars
  <2>1. UNCHANGED <<fw, pc, job, todo, config, ibuf, obuf, kbd_on, irq_on, irr>>
    BY <1>6 DEF TimerFires, vars, ps2Vars
  <2> QED
    BY <2>1 DEF DialogueInv, Early, Between, Fits
<1> QED
  BY <1>1, <1>2, <1>3, <1>4, <1>5, <1>6 DEF Next, Kernel

-----------------------------------------------------------------------------
(* Where interrupts went, and why the code faulted.                        *)

(* Every step keeps the interrupts that left where they belong.            *)
LEMMA SentStep ==
    ASSUME AcpiInv, EntryInv, DialogueInv, KeyboardToBsp, [Next]_vars
    PROVE  KeyboardToBsp'
<1>1. CASE Controller
  <2>1. fw' = fw /\ \A m \in sent' \ sent : m.vector = KEYBOARD_VECTOR /\ m.dest = fw.bsp
    BY <1>1, ControllerIs
  <2> QED
    BY <2>1 DEF KeyboardToBsp
<1>2. CASE TimerFires
  <2>1. fw' = fw /\ sent' = sent \union Sent(0)
    BY <1>2 DEF TimerFires
  <2>2. \A m \in Sent(0) : m.line = 0
    BY DEF Sent
  <2> QED
    BY <2>1, <2>2 DEF KeyboardToBsp
<1>3. CASE Kernel \/ _handle_keyboard \/ UNCHANGED vars
  <2>1. UNCHANGED <<fw, sent>>
    BY <1>3 DEF Kernel, AcpiTable, AcpiMadt, MadtMove, MadtEnd, AcpiEnd, hpet_init, HpetFault, cpu_init,
                lapic_init, ps2_init, Ps2Port, Ps2Route, Ps2Enable, Up, ioapic_redirect_irq, WriteLow,
                WriteHigh, _handle_keyboard, vars
  <2> QED
    BY <2>1 DEF KeyboardToBsp
<1> QED
  BY <1>1, <1>2, <1>3 DEF Next

(* The code stops with a null pointer for want of an HPET table, or of an  *)
(* I/O APIC in its list that owns the input it looks for.                  *)
FaultInv ==
    pc = "fault" =>
        \/ ~\E k \in 1 .. Len(fw.tables) : fw.tables[k].sig = "HPET"
        \/ \E line \in Lines : \A r \in 1 .. Len(ioapic_list) : ~Owns(ioapic_list[r], Gsi(line))

(* Every step keeps the reason.                                            *)
LEMMA FaultStep ==
    ASSUME AcpiInv, JobInv, FaultInv, [Next]_vars
    PROVE  FaultInv'
<1> SUFFICES ASSUME pc' = "fault" PROVE FaultInv'
  BY DEF FaultInv
<1>1. CASE HpetFault
  <2>1. pc = "hpet_init" /\ ~hpet /\ UNCHANGED fw
    BY <1>1 DEF HpetFault
  <2>2. i = Len(fw.tables) + 1 /\ Len(fw.tables) \in Nat
    BY <2>1, MadtAssumption DEF AcpiInv, Walking
  <2>3. 1 .. i - 1 = 1 .. Len(fw.tables)
    BY <2>2
  <2> QED
    BY <2>1, <2>3 DEF AcpiInv, FaultInv
<1>2. CASE ioapic_redirect_irq
  <2>1. /\ pc = "ioapic_redirect_irq" /\ Read /\ job \in Jobs /\ job.line \in Lines
        /\ UNCHANGED <<fw, ioapic_list, iso_list>>
    BY <1>2 DEF ioapic_redirect_irq, AcpiInv, Walking, Read, JobInv, Redirecting, Jobs, acpiVars
  <2>2. \A r \in 1 .. Len(ioapic_list) : ~Owns(ioapic_list[r], Gsi(job.line))
    BY <1>2, <2>1, RedirectIs
  <2> QED
    BY <2>1, <2>2 DEF FaultInv, Gsi
<1>3. CASE pc = "fault"
  <2>1. UNCHANGED <<fw, ioapic_list, iso_list>>
    BY <1>3 DEF Next, Kernel, AcpiTable, AcpiMadt, MadtMove, MadtEnd, AcpiEnd, hpet_init, HpetFault,
                cpu_init, lapic_init, ps2_init, Ps2Port, Ps2Route, Ps2Enable, Up, ioapic_redirect_irq,
                WriteLow, WriteHigh, TimerFires, Controller, _handle_keyboard, vars, acpiVars
  <2> QED
    BY <1>3, <2>1 DEF FaultInv, Gsi
<1>4. CASE pc # "fault" /\ ~HpetFault /\ ~ioapic_redirect_irq
  <2>1. pc' # "fault"
    BY <1>4 DEF Next, Kernel, AcpiTable, AcpiMadt, MadtMove, MadtEnd, AcpiEnd, hpet_init,
                cpu_init, lapic_init, ps2_init, Ps2Port, Ps2Route, Ps2Enable, Up,
                WriteLow, WriteHigh, TimerFires, Controller, _handle_keyboard, vars,
                JobInv, Redirecting, Jobs, Returns
  <2> QED
    BY <2>1
<1> QED
  BY <1>1, <1>2, <1>3, <1>4

-----------------------------------------------------------------------------
(* The invariant, and what follows.                                        *)

RoutingInv == AcpiInv /\ JobInv /\ EntryInv /\ DialogueInv /\ KeyboardToBsp /\ FaultInv

(* The boot starts with nothing collected and every entry masked.          *)
LEMMA InitHolds == Init => RoutingInv
<1> SUFFICES ASSUME Init PROVE RoutingInv
  OBVIOUS
<1>1. /\ fw \in Firmware /\ pc = "acpi_init" /\ i = 1 /\ ioapic_list = << >> /\ iso_list = << >>
      /\ ~hpet /\ bsp_lapic_id = 0 /\ redir = [g \in 0 .. MaxGsi |-> ResetEntry]
      /\ todo = << >> /\ config = "none" /\ ibuf = "none" /\ ~irr /\ sent = {}
  BY DEF Init
<1>2. AcpiInv
  <2>1. Len(fw.tables) \in Nat /\ IOAPIC_LIST_LEN \in Nat /\ ISO_LIST_LEN \in Nat
        /\ IOAPIC_LIST_LEN > 0 /\ ISO_LIST_LEN > 0
    BY <1>1, MadtAssumption, ListAssumption, SMTT(40)
  <2>2. ASSUME NEW type, NEW len \in Nat, len > 0 PROVE Collected(fw, << >>, len, type, <<1, 1>>)
    <3>1. SeenTo(fw, type, <<1, 1>>) = {}
      <4> SUFFICES ASSUME NEW q \in Places(fw, type), Before(q, <<1, 1>>) PROVE FALSE
        BY DEF SeenTo
      <4>1. q[1] \in Madts(fw) /\ q[2] \in 1 .. Len(fw.tables[q[1]].items) /\ q[1] \in Nat /\ q[2] \in Nat
        BY <1>1, PlaceIs
      <4>2. q[1] >= 1 /\ q[2] >= 1
        BY <4>1 DEF Madts
      <4> QED
        BY <4>1, <4>2 DEF Before
    <3>2. IsFiniteSet({}) /\ Cardinality({}) = 0
      BY FS_EmptySet
    <3>3. Len(<< >>) = 0 /\ Capped(0, len) = 0 /\ << >> \in Seq(Described(fw, type))
      BY <2>2 DEF Capped
    <3> QED
      BY <3>1, <3>2, <3>3 DEF Collected
  <2>3. CollectedAt(1, 1)
    BY <1>1, <2>1, <2>2 DEF CollectedAt
  <2>4. 1 .. i - 1 = {} /\ i \in 1 .. Len(fw.tables) + 1
    BY <1>1, <2>1
  <2> QED
    BY <1>1, <2>3, <2>4 DEF AcpiInv, Positions, Walking
<1>3. JobInv
  BY <1>1 DEF JobInv, Dests, Redirecting
<1>4. EntryInv
  <2>1. ResetEntry \in Entries /\ ResetEntry.masked
    BY DEF ResetEntry, Entries, Dests
  <2>2. ~TimerWritten /\ ~KeyboardWritten
    BY <1>1 DEF TimerWritten, KeyboardWritten
  <2>3. redir \in [Inputs -> Entries] /\ \A g \in Inputs : redir[g].masked
    BY <1>1, <2>1 DEF Inputs
  <2> HIDE DEF TimerWritten, KeyboardWritten
  <2> QED
    BY <1>1, <2>2, <2>3 DEF EntryInv
<1>5. DialogueInv
  BY <1>1 DEF DialogueInv, Early, Between, Walking, Redirecting, After
<1>6. KeyboardToBsp /\ FaultInv
  BY <1>1 DEF KeyboardToBsp, FaultInv
<1> QED
  BY <1>2, <1>3, <1>4, <1>5, <1>6 DEF RoutingInv

(* Every step keeps the invariant.                                         *)
LEMMA StepHolds == RoutingInv /\ [Next]_vars => RoutingInv'
<1> SUFFICES ASSUME RoutingInv, [Next]_vars PROVE RoutingInv'
  OBVIOUS
<1>1. AcpiInv /\ JobInv /\ EntryInv /\ DialogueInv /\ KeyboardToBsp /\ FaultInv
  BY DEF RoutingInv
<1>2. ReturnInv
  BY <1>1 DEF JobInv, ReturnInv, Jobs
<1>3. AcpiInv'
  BY <1>1, <1>2, AcpiStep
<1>4. JobInv' /\ EntryInv' /\ DialogueInv' /\ KeyboardToBsp' /\ FaultInv'
  BY <1>1, JobStep, EntryStep, DialogueStep, SentStep, FaultStep
<1> QED
  BY <1>3, <1>4 DEF RoutingInv

(* The boot code keeps its invariant on every machine, whatever the        *)
(* devices do meanwhile.                                                   *)
THEOREM RoutingInvariant == Spec => []RoutingInv
<1>1. Init => RoutingInv
  BY InitHolds
<1>2. RoutingInv /\ [Next]_vars => RoutingInv'
  BY StepHolds
<1> QED
  BY <1>1, <1>2, PTL DEF Spec

(* ListsExact: acpi_init's lists hold the firmware's structures, in order. *)
THEOREM ListsRight == Spec => []ListsExact
<1>1. RoutingInv => ListsExact
  <2> SUFFICES ASSUME RoutingInv, pc \notin {"acpi_init", "_parse_madt"}
               PROVE  /\ Lists(ioapic_list, IOAPIC_LIST_LEN, ICS_ID_IO_APIC)
                      /\ Lists(iso_list, ISO_LIST_LEN, ICS_ID_ISO)
    BY DEF ListsExact
  <2>1. Read /\ IOAPIC_LIST_LEN \in Nat /\ ISO_LIST_LEN \in Nat
    BY ListAssumption DEF RoutingInv, AcpiInv, Walking, Read
  <2>2. /\ Collected(fw, ioapic_list, IOAPIC_LIST_LEN, ICS_ID_IO_APIC, <<Len(fw.tables) + 1, 1>>)
        /\ Collected(fw, iso_list, ISO_LIST_LEN, ICS_ID_ISO, <<Len(fw.tables) + 1, 1>>)
    BY <2>1 DEF Read, CollectedAt
  <2> QED
    BY <2>1, <2>2, ListsAre
<1> QED
  BY <1>1, RoutingInvariant, PTL

(* KeyboardToBsp: no keyboard interrupt goes astray, whatever the tables.  *)
THEOREM KeyboardInterruptsToBsp == Spec => []KeyboardToBsp
<1>1. RoutingInv => KeyboardToBsp
  BY DEF RoutingInv
<1> QED
  BY <1>1, RoutingInvariant, PTL

(* The bits the code takes from the flags of an override are the ones that *)
(* tell ACPI's two values of each field apart.                             *)
LEMMA FlagBits ==
    ASSUME NEW x \in Nat, x % 4 # 2, (x \div 4) % 4 # 2
    PROVE  (Bit(x, 2) <=> x % 4 = 3) /\ (Bit(x, 8) <=> (x \div 4) % 4 = 3)
<1>1. (x \div 2) % 2 = 1 <=> x % 4 \in {2, 3}
  OBVIOUS
<1>2. (x \div 8) % 2 = 1 <=> (x \div 4) % 4 \in {2, 3}
  OBVIOUS
<1> QED
  BY <1>1, <1>2 DEF Bit

(* RoutedAsWired: the boot ends with both inputs programmed as the         *)
(* firmware describes them, and every other input masked.                  *)
THEOREM RoutingRight == Spec => []RoutedAsWired
<1>1. RoutingInv => RoutedAsWired
  <2> SUFFICES ASSUME RoutingInv, pc = "up", Fits
               PROVE  /\ \A line \in Lines :
                             LET e == redir[Wired(fw, line)]
                             IN  /\ e.vector = VectorOf(line)
                                 /\ ~e.masked
                                 /\ e.active_low <=> WiredFlags(fw, line) % 4 = 3
                                 /\ e.level <=> (WiredFlags(fw, line) \div 4) % 4 = 3
                      /\ \A g \in 0 .. MaxGsi :
                             redir[g].masked <=> g \notin {Wired(fw, line) : line \in Lines}
    BY DEF RoutedAsWired
  <2>1. Read /\ fw \in Firmware /\ TimerWritten /\ KeyboardWritten /\ Lines = {0, 1}
    BY DEF RoutingInv, AcpiInv, Walking, Read, TimerWritten, KeyboardWritten, Lines
  <2>2. \A line \in Lines : /\ Gsi(line) = Wired(fw, line) /\ Flags(line) = WiredFlags(fw, line)
                            /\ Wired(fw, line) \in Inputs
    BY <2>1, GsiIs, WiredIn
  <2>3. Gsi(0) # Gsi(1)
    BY <2>1, <2>2, InputsApart
  <2>4. /\ \A line \in Lines : Carries(redir[Wired(fw, line)], line, WiredFlags(fw, line))
        /\ \A g \in Inputs : ~redir[g].masked <=> g = Wired(fw, 0) \/ g = Wired(fw, 1)
    BY <2>1, <2>2, <2>3 DEF RoutingInv, EntryInv
  <2>5. ASSUME NEW line \in Lines
        PROVE  /\ Bit(WiredFlags(fw, line), 2) <=> WiredFlags(fw, line) % 4 = 3
               /\ Bit(WiredFlags(fw, line), 8) <=> (WiredFlags(fw, line) \div 4) % 4 = 3
    <3> DEFINE x == WiredFlags(fw, line)
    <3>1. x \in Nat /\ x % 4 # 2 /\ (x \div 4) % 4 # 2
      <4>1. CASE Overrides(fw, line) = {}
        <5>1. x = 0
          BY <4>1 DEF WiredFlags
        <5> HIDE DEF x
        <5> QED
          BY <5>1
      <4>2. CASE Overrides(fw, line) # {}
        <5>1. Override(fw, line) \in Described(fw, ICS_ID_ISO)
          BY <4>2 DEF Override, Overrides
        <5>2. x = Override(fw, line).flags
          BY <4>2 DEF WiredFlags
        <5> HIDE DEF x
        <5> QED
          BY <2>1, <5>1, <5>2, WiringAssumption
      <4> QED
        BY <4>1, <4>2
    <3> HIDE DEF x
    <3>2. (Bit(x, 2) <=> x % 4 = 3) /\ (Bit(x, 8) <=> (x \div 4) % 4 = 3)
      BY <3>1, FlagBits
    <3> QED
      BY <3>2 DEF x
  <2>6. ASSUME NEW line \in Lines
        PROVE  LET e == redir[Wired(fw, line)]
               IN  /\ e.vector = VectorOf(line)
                   /\ ~e.masked
                   /\ e.active_low <=> WiredFlags(fw, line) % 4 = 3
                   /\ e.level <=> (WiredFlags(fw, line) \div 4) % 4 = 3
    <3>1. ~redir[Wired(fw, line)].masked
      BY <2>1, <2>2, <2>4
    <3> QED
      BY <2>4, <2>5, <3>1 DEF Carries
  <2>7. ASSUME NEW g \in 0 .. MaxGsi
        PROVE  redir[g].masked <=> g \notin {Wired(fw, line) : line \in Lines}
    BY <2>1, <2>4 DEF Inputs
  <2> QED
    BY <2>6, <2>7
<1> QED
  BY <1>1, RoutingInvariant, PTL

(* DialogueSound: the configuration byte is one, and a booted machine's    *)
(* keyboard never waits with a byte that no interrupt announces.           *)
THEOREM DialogueRight == Spec => []DialogueSound
<1>1. RoutingInv => DialogueSound
  <2> SUFFICES ASSUME RoutingInv PROVE DialogueSound
    OBVIOUS
  <2>1. /\ AcpiInv /\ JobInv /\ DialogueInv /\ pc \in Positions
        /\ pc \in Redirecting => job.line \in {0, 1}
    BY DEF RoutingInv, AcpiInv, JobInv, Jobs, Lines
  <2>2. \A n \in 0 .. 7 : After(n, ibuf, obuf, kbd_on, irq_on, config) => config # "key"
    BY DEF After
  <2>3. CASE Early
    <3>1. config # "key"
      BY <2>1, <2>2, <2>3 DEF DialogueInv
    <3>2. pc # "up"
      BY <2>3 DEF Early, Walking, Redirecting
    <3> QED
      BY <3>1, <3>2 DEF DialogueSound
  <2>4. CASE Between
    <3>1. config # "key"
      BY <2>1, <2>2, <2>4 DEF DialogueInv
    <3>2. pc # "up"
      BY <2>4 DEF Between, Redirecting
    <3> QED
      BY <3>1, <3>2 DEF DialogueSound
  <2>5. CASE pc = "ps2_setup"
    <3>1. config # "key"
      BY <2>1, <2>2, <2>5 DEF DialogueInv
    <3> QED
      BY <2>5, <3>1 DEF DialogueSound
  <2>6. CASE pc \in {"ps2_last", "up"}
    <3>1. PICK n \in 0 .. 2 : Switched(n, todo, ibuf, obuf, kbd_on, irq_on, config, irr)
      BY <2>1, <2>6 DEF DialogueInv, Switched
    <3>2. config # "key"
      BY <2>2, <3>1 DEF Switched
    <3>3. pc = "up" => n > 0
      <4>1. /\ SwitchOn(fw.mouse) \in Seq(Accesses) /\ Len(SwitchOn(fw.mouse)) \in {1, 2}
            /\ Left(todo, SwitchOn(fw.mouse), n)
        BY <3>1, SwitchOnIs DEF Switched
      <4>2. todo = << >> => n = Len(SwitchOn(fw.mouse))
        BY <4>1, NextLeft
      <4> QED
        BY <2>1, <4>1, <4>2, SMTT(40) DEF DialogueInv
    <3> QED
      BY <3>1, <3>2, <3>3 DEF Switched, DialogueSound
  <2>7. CASE pc = "fault"
    BY <2>1, <2>7 DEF DialogueInv, DialogueSound
  <2> QED
    BY <2>1, <2>3, <2>4, <2>5, <2>6, <2>7 DEF Positions, Walking, Redirecting, Returns, Early, Between
<1> QED
  BY <1>1, RoutingInvariant, PTL

(* FaultExplained: the code stops only for want of a table, of room in its *)
(* lists, or of an I/O APIC that has a line's input and not as its last.   *)
THEOREM FaultsExplained == Spec => []FaultExplained
<1>1. RoutingInv => FaultExplained
  <2> SUFFICES ASSUME RoutingInv, pc = "fault", \E k \in 1 .. Len(fw.tables) : fw.tables[k].sig = "HPET",
                      Fits, ~(Cardinality(Places(fw, ICS_ID_IO_APIC)) > IOAPIC_LIST_LEN)
               PROVE  \E line \in Lines : \A a \in Described(fw, ICS_ID_IO_APIC) :
                          Wired(fw, line) \notin FoundInputs(a)
    BY DEF FaultExplained
  <2>1. Read /\ fw \in Firmware /\ IOAPIC_LIST_LEN \in Nat
    BY ListAssumption DEF RoutingInv, AcpiInv, Walking, Read
  <2>2. PICK line \in Lines : \A r \in 1 .. Len(ioapic_list) : ~Owns(ioapic_list[r], Gsi(line))
    BY DEF RoutingInv, FaultInv
  <2>3. Collected(fw, ioapic_list, IOAPIC_LIST_LEN, ICS_ID_IO_APIC, <<Len(fw.tables) + 1, 1>>)
    BY <2>1 DEF Read, CollectedAt
  <2>4. Cardinality(Places(fw, ICS_ID_IO_APIC)) <= IOAPIC_LIST_LEN
    <3>1. IsFiniteSet(Places(fw, ICS_ID_IO_APIC))
      BY <2>1, <2>3, AllSeen DEF Collected
    <3>2. Cardinality(Places(fw, ICS_ID_IO_APIC)) \in Nat
      BY <3>1, FS_CardinalityType
    <3> QED
      BY <2>1, <3>2
  <2>5. \A a \in Described(fw, ICS_ID_IO_APIC) : \E r \in 1 .. Len(ioapic_list) : ioapic_list[r] = a
    BY <2>1, <2>3, <2>4, ListsAre
  <2>6. Gsi(line) = Wired(fw, line)
    BY <2>1, GsiIs
  <2> SUFFICES ASSUME NEW a \in Described(fw, ICS_ID_IO_APIC)
               PROVE  Wired(fw, line) \notin FoundInputs(a)
    OBVIOUS
  <2> DEFINE w == Wired(fw, line)
             b == a.gsi_base
             p == a.pins
  <2>7. b \in Nat /\ p \in 1 .. 120
    BY <2>1, WiringAssumption
  <2>8. ~(w >= b /\ w < b + (p - 1))
    BY <2>2, <2>5, <2>6 DEF Owns, ioapic_max_gsi
  <2> HIDE DEF w, b, p
  <2>9. w \notin b .. b + p - 2
    BY <2>7, <2>8
  <2> QED
    BY <2>9 DEF w, b, p, FoundInputs
<1> QED
  BY <1>1, RoutingInvariant, PTL
=============================================================================
