--------------------------- MODULE TerminalProofs ---------------------------
(***************************************************************************)
(* Proofs about Terminal, for every size of screen, glyph and input line:  *)
(* the screen shows the newest lines of output and the input line below    *)
(* them.  tprintf is followed character by character: it and the reference *)
(* that breaks text into lines are both folds over the text, and the proof *)
(* relates them step by step.  The same lemmas about folds show that the   *)
(* block operations of mem.c, with which the terminal moves and blanks     *)
(* pixel rows, do what the C standard says.                                *)
(***************************************************************************)
EXTENDS Terminal, MemoryOps, Induction, SequenceTheorems, TLAPS

-----------------------------------------------------------------------------
(* Folds.  FoldLeft is a CHOOSE of a function that recurs over the subsets *)
(* of the sequence's domain, taking the greatest element first.            *)

(* A non-empty set of positions has a greatest element.                    *)
LEMMA MaxIs ==
    ASSUME NEW n \in Nat, NEW s \in SUBSET (1 .. n), s # {}
    PROVE  Max(s) \in s /\ \A y \in s : y <= Max(s)
<1> DEFINE T == {k \in Nat : n - k \in s}
<1>0. \A x \in s : n - x \in Nat /\ n - (n - x) = x
  OBVIOUS
<1>1. T \in SUBSET Nat /\ T # {}
  BY <1>0
<1>2. PICK m \in T : \A k \in T : m <= k
  BY <1>1, LeastNat
<1>3. n - m \in s /\ \A y \in s : m <= n - y
  BY <1>0, <1>2
<1>4. \A y \in s : n - m >= y
  BY <1>2, <1>3
<1>5. Max(s) \in s /\ \A y \in s : Max(s) >= y
  BY <1>3, <1>4, Zenon DEF Max
<1> QED
  BY <1>5

(* g folds step over the positions up to n, from b.                        *)
Folds(g, n, b, step) ==
    \A s \in SUBSET (1 .. n) :
        g[s] = IF s = {} THEN b ELSE step[Max(s)][g[s \ {Max(s)}]]

(* There is a function that does: by recursion over the greatest position. *)
LEMMA FoldExists ==
    ASSUME NEW n \in Nat, NEW V, NEW b \in V, NEW step \in [1 .. n -> [V -> V]]
    PROVE  \E g \in [SUBSET (1 .. n) -> V] : Folds(g, n, b, step)
<1> DEFINE P == SUBSET (1 .. n)
           W == [P -> V]
           Body(f) == [s \in P |-> IF s = {} THEN b ELSE step[Max(s)][f[s \ {Max(s)}]]]
           first == [s \in P |-> b]
           next == [k \in Nat |-> [f \in W |-> Body(f)]]
<1>1. \A s \in P : s # {} => Max(s) \in 1 .. n /\ s \ {Max(s)} \in P
  BY MaxIs
<1>2. first \in W
  OBVIOUS
<1>3. \A f \in W : Body(f) \in W
  <2> SUFFICES ASSUME NEW f \in W PROVE Body(f) \in W
    OBVIOUS
  <2>1. \A s \in P : s # {} => step[Max(s)][f[s \ {Max(s)}]] \in V
    BY <1>1
  <2> QED
    BY <2>1
<1>4. next \in [Nat -> [W -> W]]
  BY <1>3
<1>5. PICK F : Defines(first, next, F, W)
  <2> HIDE DEF first, next, W
  <2> QED
    BY <1>2, <1>4, Recursion
<1>6. F \in [Nat -> W] /\ F[0] = first /\ \A k \in Nat : F[k + 1] = Body(F[k])
  BY <1>5 DEF Defines
<1> HIDE DEF next
<1>7. ASSUME NEW k \in Nat, NEW s \in P
      PROVE  F[k + 1][s] = IF s = {} THEN b ELSE step[Max(s)][F[k][s \ {Max(s)}]]
  <2>1. F[k + 1] = Body(F[k])
    BY <1>6
  <2> QED
    BY <2>1
<1> HIDE DEF Body
(* The k-th approximation is right for the subsets of 1 .. k.              *)
<1> DEFINE T == {k \in Nat : \A s \in P : s \subseteq 1 .. k => F[k][s] = F[k + 1][s]}
<1>8. 0 \in T
  <2>1. \A s \in P : s \subseteq 1 .. 0 => s = {}
    OBVIOUS
  <2>2. {} \in P /\ 0 \in Nat
    OBVIOUS
  <2>3. F[0][{}] = b /\ F[0 + 1][{}] = b
    BY <1>6, <1>7, <2>2
  <2> QED
    BY <2>1, <2>2, <2>3
<1>9. ASSUME NEW k \in Nat, k \in T PROVE k + 1 \in T
  <2> DEFINE m == k + 1
  <2>1. m \in Nat
    OBVIOUS
  <2>2. \A s \in P : s \subseteq 1 .. k => F[k][s] = F[m][s]
    BY <1>9
  <2>3. ASSUME NEW s \in P, s \subseteq 1 .. m PROVE F[m][s] = F[m + 1][s]
    <3>1. CASE s = {}
      <4>1. F[m][s] = b /\ F[m + 1][s] = b
        BY <1>7, <2>1, <3>1
      <4> QED
        BY <4>1
    <3>2. CASE s # {}
      <4>1. Max(s) \in s /\ \A y \in s : y <= Max(s)
        BY <3>2, MaxIs
      <4>2. s \ {Max(s)} \in P /\ s \ {Max(s)} \subseteq 1 .. k
        <5>1. \A y \in s : y \in 1 .. k + 1
          BY <2>3
        <5>2. ASSUME NEW y \in s, y # Max(s) PROVE y \in 1 .. k
          <6>1. y \in 1 .. k + 1 /\ Max(s) \in 1 .. k + 1 /\ y <= Max(s)
            BY <4>1, <5>1
          <6> QED
            BY <5>2, <6>1
        <5> QED
          BY <5>2
      <4>3. F[k][s \ {Max(s)}] = F[m][s \ {Max(s)}]
        BY <2>2, <4>2
      <4>4. F[m][s] = step[Max(s)][F[k][s \ {Max(s)}]]
        BY <1>7, <3>2
      <4>5. F[m + 1][s] = step[Max(s)][F[m][s \ {Max(s)}]]
        <5> HIDE DEF m
        <5> QED
          BY <1>7, <2>1, <3>2
      <4> QED
        BY <4>3, <4>4, <4>5
    <3> QED
      BY <3>1, <3>2
  <2> HIDE DEF m, P
  <2>4. m \in T
    BY <2>1, <2>3
  <2> QED
    BY <2>4 DEF m
<1>10. n \in T
  <2> HIDE DEF T
  <2> QED
    BY <1>8, <1>9, SetInduction
<1>11. \A s \in P : F[n][s] = F[n + 1][s]
  BY <1>10
<1>12. \A s \in P : F[n][s] = IF s = {} THEN b ELSE step[Max(s)][F[n][s \ {Max(s)}]]
  BY <1>7, <1>11
<1>13. F[n] \in W
  BY <1>6
<1> QED
  BY <1>12, <1>13 DEF Folds

(* h is a run of step over the positions 1 to n, from b.                   *)
Run(h, n, b, step, V) ==
    /\ h \in [0 .. n -> V]
    /\ h[0] = b
    /\ \A k \in 1 .. n : h[k] = step[k][h[k - 1]]

(* g folds step as long as its values are in V.                            *)
FoldsIn(g, n, b, step, V) ==
    /\ g[{}] = b
    /\ \A s \in SUBSET (1 .. n) :
           s # {} /\ g[s \ {Max(s)}] \in V => g[s] = step[Max(s)][g[s \ {Max(s)}]]

StepsIn(step, n, V) == step \in [1 .. n -> [V -> V]]
RunEnds(g, n, b, step, V) == \E h : Run(h, n, b, step, V) /\ h[n] = g[1 .. n]

(* What a fold gives is the end of a run.                                  *)
LEMMA FoldRuns ==
    ASSUME NEW n, NEW V, NEW b, NEW step, NEW g,
           n \in Nat, b \in V, StepsIn(step, n, V), FoldsIn(g, n, b, step, V)
    PROVE  RunEnds(g, n, b, step, V)
<1>0. step \in [1 .. n -> [V -> V]]
  BY DEF StepsIn
<1> DEFINE h == [k \in 0 .. n |-> g[1 .. k]]
<1>1. h[0] = b
  <2>1. 1 .. 0 = {} /\ 0 \in 0 .. n
    OBVIOUS
  <2> QED
    BY <2>1 DEF FoldsIn
<1>2. ASSUME NEW k \in 1 .. n, h[k - 1] \in V PROVE h[k] = step[k][h[k - 1]]
  <2> DEFINE s == 1 .. k
  <2>1. s \in SUBSET (1 .. n) /\ s # {} /\ k \in s
    <3> HIDE DEF h
    <3>1. k \in s
      OBVIOUS
    <3>2. \A i \in s : i \in 1 .. n
      OBVIOUS
    <3> QED
      BY <3>1, <3>2
  <2>2. Max(s) = k
    <3>1. Max(s) \in s /\ k <= Max(s)
      BY <2>1, MaxIs
    <3> QED
      BY <3>1
  <2>3. s \ {k} = 1 .. k - 1
    BY SMT
  <2>4. k - 1 \in 0 .. n /\ k \in 0 .. n
    OBVIOUS
  <2>5. g[1 .. k - 1] \in V
    BY <1>2, <2>4
  <2>6. g[s] = step[k][g[1 .. k - 1]]
    <3> HIDE DEF s, h
    <3> QED
      BY <2>1, <2>2, <2>3, <2>5 DEF FoldsIn
  <2> QED
    BY <2>4, <2>6
<1> DEFINE T == {k \in Nat : k <= n => h[k] \in V}
<1>3. 0 \in T
  BY <1>1
<1>4. ASSUME NEW k \in Nat, k \in T PROVE k + 1 \in T
  <2> SUFFICES ASSUME k + 1 <= n PROVE h[k + 1] \in V
    OBVIOUS
  <2> HIDE DEF h
  <2>1. h[k] \in V /\ k + 1 \in 1 .. n /\ (k + 1) - 1 = k
    BY <1>4
  <2>2. h[k + 1] = step[k + 1][h[k]]
    BY <1>2, <2>1
  <2> QED
    BY <1>0, <2>1, <2>2
<1>5. \A k \in Nat : k \in T
  <2> HIDE DEF T
  <2> QED
    BY <1>3, <1>4, SetInduction
<1>6. h \in [0 .. n -> V] /\ h[n] = g[1 .. n] /\ \A k \in 0 .. n : h[k] \in V
  <2>1. \A k \in 0 .. n : k \in Nat /\ k <= n
    OBVIOUS
  <2>2. \A k \in 0 .. n : h[k] \in V
    <3> HIDE DEF h
    <3> QED
      BY <1>5, <2>1
  <2>3. n \in 0 .. n
    OBVIOUS
  <2> QED
    BY <2>2, <2>3
<1>7. \A k \in 1 .. n : k - 1 \in 0 .. n
  OBVIOUS
<1> HIDE DEF h
<1> QED
  BY <1>1, <1>2, <1>6, <1>7 DEF Run, RunEnds

(* Two runs from one value agree.                                          *)
LEMMA RunUnique ==
    ASSUME NEW n \in Nat, NEW V, NEW b, NEW step, NEW h, NEW j,
           Run(h, n, b, step, V), Run(j, n, b, step, V)
    PROVE  h[n] = j[n]
<1> DEFINE T == {k \in Nat : k <= n => h[k] = j[k]}
<1>1. 0 \in T
  BY DEF Run
<1>2. ASSUME NEW k \in Nat, k \in T PROVE k + 1 \in T
  <2> SUFFICES ASSUME k + 1 <= n PROVE h[k + 1] = j[k + 1]
    OBVIOUS
  <2>1. h[k] = j[k] /\ k + 1 \in 1 .. n /\ (k + 1) - 1 = k
    BY <1>2
  <2> QED
    BY <2>1 DEF Run
<1>3. n \in T
  <2> HIDE DEF T
  <2> QED
    BY <1>1, <1>2, SetInduction
<1> QED
  BY <1>3

-----------------------------------------------------------------------------
(* mem.c's block operations, with which the terminal moves and blanks its  *)
(* frame buffer.  `mem` has addresses A and bytes B.                       *)

(* The offsets of a block of n bytes at `at` are addresses.                *)
Within(at, n, A) == \A i \in 0 .. n - 1 : at + i \in A

CopyAt(m, dest, src, i) == [m EXCEPT ![dest + i] = m[src + i]]
FillAt(m, s, c, i) == [m EXCEPT ![s + i] = c % Bytes]

(* h holds the memory after each step of Copy.                             *)
Copies(h, mem, dest, src, order) ==
    /\ h[0] = mem /\ h[Len(order)] = Copy(mem, dest, src, order)
    /\ \A k \in 1 .. Len(order) : h[k] = CopyAt(h[k - 1], dest, src, order[k])

(* Copy is a run over the offsets in the order given.                      *)
LEMMA CopyRuns ==
    ASSUME NEW A, NEW B, NEW mem \in [A -> B], NEW n \in Nat, NEW dest, NEW src,
           Within(src, n, A), NEW order \in Seq(0 .. n - 1)
    PROVE  \E h : Copies(h, mem, dest, src, order)
<1> DEFINE N == Len(order)
           V == [A -> B]
           P == SUBSET (1 .. N)
           Body(f) == [s \in P |-> IF s = {} THEN mem
                                   ELSE CopyAt(f[s \ {Max(s)}], dest, src, order[Max(s)])]
           iter == CHOOSE f : f = Body(f)
           step == [k \in 1 .. N |-> [m \in V |-> CopyAt(m, dest, src, order[k])]]
<1>1. N \in Nat /\ DOMAIN order = 1 .. N /\ \A i \in 1 .. N : order[i] \in 0 .. n - 1
  BY LenProperties, ElementOfSeq
<1>2. Copy(mem, dest, src, order) = iter[1 .. N]
  BY <1>1 DEF Copy, CopyAt, FoldLeft, MapThenFoldSet
<1>3. \A i \in 1 .. N, m \in V : CopyAt(m, dest, src, order[i]) \in V
  BY <1>1 DEF CopyAt, Within
<1>4. step \in [1 .. N -> [V -> V]]
  <2> HIDE DEF V
  <2> QED
    BY <1>3
<1>5. \A i \in 1 .. N, m \in V : step[i][m] = CopyAt(m, dest, src, order[i])
  OBVIOUS
<1> HIDE DEF step, N, V
<1>6. PICK g \in [P -> V] : Folds(g, N, mem, step)
  BY <1>1, <1>4, FoldExists DEF V
<1>7. \A s \in P : s # {} => Max(s) \in 1 .. N /\ s \ {Max(s)} \in P
  BY <1>1, MaxIs
<1>8. g = Body(g)
  <2>1. \A s \in P : g[s] = IF s = {} THEN mem
                            ELSE CopyAt(g[s \ {Max(s)}], dest, src, order[Max(s)])
    BY <1>5, <1>6, <1>7 DEF Folds
  <2> QED
    BY <2>1
<1>9. iter = Body(iter)
  BY <1>8
<1> HIDE DEF iter
<1>10. \A s \in P : iter[s] = IF s = {} THEN mem
                              ELSE CopyAt(iter[s \ {Max(s)}], dest, src, order[Max(s)])
  BY <1>9
<1>11. FoldsIn(iter, N, mem, step, V)
  <2>1. iter[{}] = mem
    <3>1. {} \in P
      OBVIOUS
    <3> QED
      BY <1>10, <3>1
  <2>2. ASSUME NEW s \in P, s # {}, iter[s \ {Max(s)}] \in V
        PROVE  iter[s] = step[Max(s)][iter[s \ {Max(s)}]]
    <3>1. iter[s] = CopyAt(iter[s \ {Max(s)}], dest, src, order[Max(s)])
      BY <1>10, <2>2
    <3> QED
      BY <1>5, <1>7, <2>2, <3>1
  <2> QED
    BY <2>1, <2>2 DEF FoldsIn
<1>12. mem \in V
  BY DEF V
<1>13. RunEnds(iter, N, mem, step, V)
  <2>1. N \in Nat /\ StepsIn(step, N, V)
    BY <1>1, <1>4 DEF StepsIn
  <2> QED
    BY <1>11, <1>12, <2>1, FoldRuns
<1>14. PICK h : Run(h, N, mem, step, V) /\ h[N] = iter[1 .. N]
  BY <1>13 DEF RunEnds
<1>15. \A k \in 1 .. N : k - 1 \in 0 .. N
  BY <1>1
<1>16. \A k \in 1 .. N : h[k] = CopyAt(h[k - 1], dest, src, order[k])
  BY <1>5, <1>14, <1>15 DEF Run
<1>17. Copies(h, mem, dest, src, order)
  BY <1>2, <1>14, <1>16 DEF Run, Copies, N
<1> QED
  BY <1>17

Fills(h, mem, t, c, n) ==
    /\ h[0] = mem /\ h[n] = memset(mem, t, c, n)
    /\ \A k \in 1 .. n : h[k] = FillAt(h[k - 1], t, c, k - 1)

(* So is memset.                                                           *)
LEMMA FillRuns ==
    ASSUME NEW A, NEW B, NEW mem \in [A -> B], NEW n \in Nat, NEW t, NEW c, c % Bytes \in B
    PROVE  \E h : Fills(h, mem, t, c, n)
<1> DEFINE order == Up(n)
           V == [A -> B]
           P == SUBSET (1 .. n)
           Body(f) == [s \in P |-> IF s = {} THEN mem
                                   ELSE FillAt(f[s \ {Max(s)}], t, c, order[Max(s)])]
           iter == CHOOSE f : f = Body(f)
           step == [k \in 1 .. n |-> [m \in V |-> FillAt(m, t, c, k - 1)]]
<1>1. DOMAIN order = 1 .. n /\ \A i \in 1 .. n : order[i] = i - 1
  BY DEF Up
<1>2. memset(mem, t, c, n) = iter[1 .. n]
  BY <1>1 DEF memset, FillAt, FoldLeft, MapThenFoldSet
<1>3. \A i \in 1 .. n, m \in V : FillAt(m, t, c, i - 1) \in V
  BY DEF FillAt
<1>4. step \in [1 .. n -> [V -> V]]
  <2> HIDE DEF V
  <2> QED
    BY <1>3
<1>5. \A i \in 1 .. n, m \in V : step[i][m] = FillAt(m, t, c, order[i])
  BY <1>1
<1> HIDE DEF step, V, order
<1>6. PICK g \in [P -> V] : Folds(g, n, mem, step)
  BY <1>4, FoldExists DEF V
<1>7. \A s \in P : s # {} => Max(s) \in 1 .. n /\ s \ {Max(s)} \in P
  BY MaxIs
<1>8. g = Body(g)
  <2>1. \A s \in P : g[s] = IF s = {} THEN mem
                            ELSE FillAt(g[s \ {Max(s)}], t, c, order[Max(s)])
    BY <1>5, <1>6, <1>7 DEF Folds
  <2> QED
    BY <2>1
<1>9. iter = Body(iter)
  BY <1>8
<1> HIDE DEF iter
<1>10. \A s \in P : iter[s] = IF s = {} THEN mem
                              ELSE FillAt(iter[s \ {Max(s)}], t, c, order[Max(s)])
  BY <1>9
<1>11. FoldsIn(iter, n, mem, step, V)
  <2>1. iter[{}] = mem
    <3>1. {} \in P
      OBVIOUS
    <3> QED
      BY <1>10, <3>1
  <2>2. ASSUME NEW s \in P, s # {}, iter[s \ {Max(s)}] \in V
        PROVE  iter[s] = step[Max(s)][iter[s \ {Max(s)}]]
    <3>1. iter[s] = FillAt(iter[s \ {Max(s)}], t, c, order[Max(s)])
      BY <1>10, <2>2
    <3> QED
      BY <1>5, <1>7, <2>2, <3>1
  <2> QED
    BY <2>1, <2>2 DEF FoldsIn
<1>12. mem \in V
  BY DEF V
<1>13. RunEnds(iter, n, mem, step, V)
  <2>1. StepsIn(step, n, V)
    BY <1>4 DEF StepsIn
  <2> QED
    BY <1>11, <1>12, <2>1, FoldRuns
<1>14. PICK h : Run(h, n, mem, step, V) /\ h[n] = iter[1 .. n]
  BY <1>13 DEF RunEnds
<1>15. \A k \in 1 .. n : k - 1 \in 0 .. n /\ order[k] = k - 1
  BY <1>1
<1>16. Fills(h, mem, t, c, n)
  BY <1>2, <1>5, <1>14, <1>15 DEF Run, Fills
<1> QED
  BY <1>16

(* The bytes at offsets i to j - 1 of the block have been copied.          *)
MovedPart(mem, dest, src, i, j) ==
    [a \in DOMAIN mem |-> IF a - dest \in i .. j - 1 THEN mem[src + (a - dest)] ELSE mem[a]]

(* One more byte, behind the part copied or before it, if it is read from  *)
(* where nothing was written yet.                                          *)
LEMMA CopyOne ==
    ASSUME NEW A \in SUBSET Int, NEW B, NEW mem \in [A -> B], NEW n \in Nat,
           NEW dest \in Int, NEW src \in Int, Within(src, n, A), Within(dest, n, A),
           NEW i \in 0 .. n, NEW j \in i .. n, NEW k \in 0 .. n - 1,
           ~(src + k - dest \in i .. j - 1)
    PROVE  /\ k = j => CopyAt(MovedPart(mem, dest, src, i, j), dest, src, k)
                         = MovedPart(mem, dest, src, i, j + 1)
           /\ k = i - 1 => CopyAt(MovedPart(mem, dest, src, i, j), dest, src, k)
                             = MovedPart(mem, dest, src, k, j)
<1> DEFINE m == MovedPart(mem, dest, src, i, j)
           p == src + k
           q == dest + k
<1>1. DOMAIN mem = A /\ p \in A /\ q \in A /\ p \in Int /\ q \in Int /\ q - dest = k /\ src + (q - dest) = p
  BY DEF Within
<1>2. \A a \in A : a \in Int
  OBVIOUS
<1>3. DOMAIN m = A /\ m[p] = mem[p]
  BY <1>1 DEF MovedPart
<1>4. ASSUME NEW x \in Int, NEW y \in Int,
             \A a \in A : a # q => (a - dest \in x .. y - 1 <=> a - dest \in i .. j - 1),
             k \in x .. y - 1
      PROVE  CopyAt(m, dest, src, k) = MovedPart(mem, dest, src, x, y)
  <2> DEFINE r == CopyAt(m, dest, src, k)
             w == MovedPart(mem, dest, src, x, y)
  <2>1. r = [m EXCEPT ![q] = m[p]]
    BY DEF CopyAt
  <2>2. w = [a \in A |-> IF a - dest \in x .. y - 1 THEN mem[src + (a - dest)] ELSE mem[a]]
    BY <1>1 DEF MovedPart
  <2>3. m = [a \in A |-> IF a - dest \in i .. j - 1 THEN mem[src + (a - dest)] ELSE mem[a]]
    BY <1>1 DEF MovedPart
  <2> HIDE DEF m, p, q, w, r
  <2>4. DOMAIN r = A /\ DOMAIN w = A
    BY <1>3, <2>1, <2>2
  <2>5. r[q] = mem[p] /\ w[q] = mem[p]
    BY <1>1, <1>3, <1>4, <2>1, <2>2
  <2>6. ASSUME NEW a \in A, a # q PROVE r[a] = w[a]
    <3>1. r[a] = m[a]
      BY <1>3, <2>1, <2>6
    <3> QED
      BY <1>4, <2>2, <2>3, <2>6, <3>1
  <2>7. \A a \in A : r[a] = w[a]
    BY <2>5, <2>6
  <2>8. r = [a \in A |-> r[a]] /\ w = [a \in A |-> w[a]]
    BY <1>3, <2>1, <2>2
  <2>9. r = w
    BY <2>7, <2>8
  <2> QED
    BY <2>9 DEF r, w, m
<1>5. ASSUME k = j PROVE CopyAt(m, dest, src, k) = MovedPart(mem, dest, src, i, j + 1)
  <2>1. i \in Int /\ j + 1 \in Int /\ k \in i .. (j + 1) - 1
    BY <1>5
  <2>2. ASSUME NEW a \in A, a # q
        PROVE  a - dest \in i .. (j + 1) - 1 <=> a - dest \in i .. j - 1
    BY <1>2, <1>5, <2>2
  <2> HIDE DEF m
  <2> QED
    BY <1>4, <2>1, <2>2
<1>6. ASSUME k = i - 1 PROVE CopyAt(m, dest, src, k) = MovedPart(mem, dest, src, k, j)
  <2>1. k \in Int /\ j \in Int /\ k \in k .. j - 1
    BY <1>6
  <2>2. ASSUME NEW a \in A, a # q
        PROVE  a - dest \in k .. j - 1 <=> a - dest \in i .. j - 1
    BY <1>2, <1>6, <2>2
  <2> HIDE DEF m
  <2> QED
    BY <1>4, <2>1, <2>2
<1> QED
  BY <1>5, <1>6

(* Upwards is right unless the source begins below the destination and     *)
(* reaches into it.                                                        *)
LEMMA CopyUp ==
    ASSUME NEW A \in SUBSET Int, NEW B, NEW mem \in [A -> B], NEW n \in Nat,
           NEW dest \in Int, NEW src \in Int, Within(src, n, A), Within(dest, n, A),
           src >= dest \/ src + n <= dest
    PROVE  Copy(mem, dest, src, Up(n)) = Moved(mem, dest, src, n)
<1> DEFINE order == Up(n)
<1>1. order \in Seq(0 .. n - 1) /\ Len(order) = n /\ \A k \in 1 .. n : order[k] = k - 1
  BY DEF Up
<1> HIDE DEF order
<1>2. PICK h : Copies(h, mem, dest, src, order)
  BY <1>1, CopyRuns
<1>3. \A k \in 1 .. n : h[k] = CopyAt(h[k - 1], dest, src, k - 1)
  BY <1>1, <1>2 DEF Copies
<1> DEFINE T == {k \in Nat : k <= n => h[k] = MovedPart(mem, dest, src, 0, k)}
<1>4. 0 \in T
  <2>1. MovedPart(mem, dest, src, 0, 0) = mem
    <3>1. \A a \in A : ~(a - dest \in 0 .. 0 - 1)
      OBVIOUS
    <3> QED
      BY <3>1 DEF MovedPart
  <2> QED
    BY <1>2, <2>1 DEF Copies
<1>5. ASSUME NEW k \in Nat, k \in T PROVE k + 1 \in T
  <2> SUFFICES ASSUME k + 1 <= n PROVE h[k + 1] = MovedPart(mem, dest, src, 0, k + 1)
    OBVIOUS
  <2>1. /\ h[k] = MovedPart(mem, dest, src, 0, k)
        /\ k + 1 \in 1 .. n /\ (k + 1) - 1 = k
    BY <1>5
  <2>2. h[k + 1] = CopyAt(h[k], dest, src, k)
    BY <1>3, <2>1
  <2>3. 0 \in 0 .. n /\ k \in 0 .. n /\ k \in 0 .. n - 1 /\ ~(src + k - dest \in 0 .. k - 1)
    OBVIOUS
  <2> QED
    BY <2>1, <2>2, <2>3, CopyOne
<1>6. n \in T
  <2> HIDE DEF T
  <2> QED
    BY <1>4, <1>5, SetInduction
<1>7. MovedPart(mem, dest, src, 0, n) = Moved(mem, dest, src, n)
  BY DEF MovedPart, Moved
<1> QED
  BY <1>1, <1>2, <1>6, <1>7 DEF Copies, order

(* Downwards is right when the source begins below the destination.        *)
LEMMA CopyDown ==
    ASSUME NEW A \in SUBSET Int, NEW B, NEW mem \in [A -> B], NEW n \in Nat,
           NEW dest \in Int, NEW src \in Int, Within(src, n, A), Within(dest, n, A),
           src < dest
    PROVE  Copy(mem, dest, src, Down(n)) = Moved(mem, dest, src, n)
<1> DEFINE order == Down(n)
<1>1. order \in Seq(0 .. n - 1) /\ Len(order) = n /\ \A k \in 1 .. n : order[k] = n - k
  BY DEF Down
<1> HIDE DEF order
<1>2. PICK h : Copies(h, mem, dest, src, order)
  BY <1>1, CopyRuns
<1>3. \A k \in 1 .. n : h[k] = CopyAt(h[k - 1], dest, src, n - k)
  BY <1>1, <1>2 DEF Copies
<1> DEFINE T == {k \in Nat : k <= n => h[k] = MovedPart(mem, dest, src, n - k, n)}
<1>4. 0 \in T
  <2>1. MovedPart(mem, dest, src, n - 0, n) = mem
    <3>1. \A a \in A : ~(a - dest \in n - 0 .. n - 1)
      OBVIOUS
    <3> QED
      BY <3>1 DEF MovedPart
  <2> QED
    BY <1>2, <2>1 DEF Copies
<1>5. ASSUME NEW k \in Nat, k \in T PROVE k + 1 \in T
  <2> SUFFICES ASSUME k + 1 <= n PROVE h[k + 1] = MovedPart(mem, dest, src, n - (k + 1), n)
    OBVIOUS
  <2> DEFINE i == n - k
             o == n - (k + 1)
  <2>1. /\ h[k] = MovedPart(mem, dest, src, i, n)
        /\ k + 1 \in 1 .. n /\ (k + 1) - 1 = k
    BY <1>5
  <2>2. h[k + 1] = CopyAt(h[k], dest, src, o)
    BY <1>3, <2>1
  <2>3. i \in 0 .. n /\ n \in i .. n /\ o \in 0 .. n - 1 /\ o = i - 1 /\ ~(src + o - dest \in i .. n - 1)
    OBVIOUS
  <2> HIDE DEF i, o
  <2>4. h[k + 1] = MovedPart(mem, dest, src, o, n)
    BY <2>1, <2>2, <2>3, CopyOne
  <2> QED
    BY <2>4 DEF o
<1>6. n \in T
  <2> HIDE DEF T
  <2> QED
    BY <1>4, <1>5, SetInduction
<1>7. MovedPart(mem, dest, src, n - n, n) = Moved(mem, dest, src, n)
  <2>1. n - n = 0
    OBVIOUS
  <2> QED
    BY <2>1 DEF MovedPart, Moved
<1> QED
  BY <1>1, <1>2, <1>6, <1>7 DEF Copies, order

(* memmove leaves at dest what the block at src held before the call, and  *)
(* every other byte alone, whatever the blocks' places, overlap and length *)
(* (mem.c:121); _shift_screen_up scrolls an overlapping frame buffer with  *)
(* it.  memcpy does the same for blocks that do not overlap (mem.c:96).    *)
THEOREM MoveRight ==
    ASSUME NEW A \in SUBSET Int, NEW B, NEW mem \in [A -> B], NEW n \in Nat,
           NEW dest \in Int, NEW src \in Int, Within(src, n, A), Within(dest, n, A)
    PROVE  /\ memmove(mem, dest, src, n) = Moved(mem, dest, src, n)
           /\ src + n <= dest \/ dest + n <= src =>
                  memcpy(mem, dest, src, n) = Moved(mem, dest, src, n)
<1>1. CASE src > dest
  <2>1. memmove(mem, dest, src, n) = Copy(mem, dest, src, Up(n))
    BY <1>1 DEF memmove
  <2> QED
    BY <1>1, <2>1, CopyUp DEF memcpy
<1>2. CASE src < dest
  <2>1. memmove(mem, dest, src, n) = Copy(mem, dest, src, Down(n))
    BY <1>2 DEF memmove
  <2>2. memmove(mem, dest, src, n) = Moved(mem, dest, src, n)
    BY <1>2, <2>1, CopyDown
  <2>3. ASSUME src + n <= dest \/ dest + n <= src
        PROVE  memcpy(mem, dest, src, n) = Moved(mem, dest, src, n)
    <3>1. src + n <= dest
      BY <1>2, <2>3
    <3> QED
      BY <3>1, CopyUp DEF memcpy
  <2> QED
    BY <2>2, <2>3
<1>3. CASE src = dest
  <2>1. memmove(mem, dest, src, n) = mem
    BY <1>3 DEF memmove
  <2>2. Moved(mem, dest, src, n) = mem
    <3>1. \A a \in A : src + (a - dest) = a
      BY <1>3
    <3> QED
      BY <3>1 DEF Moved
  <2>3. memcpy(mem, dest, src, n) = Moved(mem, dest, src, n)
    BY <1>3, CopyUp DEF memcpy
  <2> QED
    BY <2>1, <2>2, <2>3
<1> QED
  BY <1>1, <1>2, <1>3

(* memset leaves (uint8_t)c in every byte of the block and nothing else    *)
(* changes (mem.c:109): the blanking of rows in terminal.c and the zeroed  *)
(* allocations of mem.c rest on it.                                        *)
THEOREM FillRight ==
    ASSUME NEW A \in SUBSET Int, NEW B, NEW mem \in [A -> B], NEW n \in Nat,
           NEW s \in Int, NEW c, c % Bytes \in B, Within(s, n, A)
    PROVE  memset(mem, s, c, n) = Filled(mem, s, c % Bytes, n)
<1>0. PICK h : Fills(h, mem, s, c, n)
  BY FillRuns
<1>1. /\ h[0] = mem /\ h[n] = memset(mem, s, c, n)
      /\ \A k \in 1 .. n : h[k] = FillAt(h[k - 1], s, c, k - 1)
  BY <1>0 DEF Fills
<1> DEFINE d == c % Bytes
           T == {k \in Nat : k <= n => h[k] = Filled(mem, s, d, k)}
<1> HIDE DEF d
<1>2. 0 \in T
  <2>1. \A a \in A : ~(a - s \in 0 .. 0 - 1)
    OBVIOUS
  <2> QED
    BY <1>1, <2>1 DEF Filled
<1>3. ASSUME NEW k \in Nat, k \in T PROVE k + 1 \in T
  <2> SUFFICES ASSUME k + 1 <= n PROVE h[k + 1] = Filled(mem, s, d, k + 1)
    OBVIOUS
  <2> DEFINE m == Filled(mem, s, d, k)
             w == Filled(mem, s, d, k + 1)
             q == s + k
             r == [m EXCEPT ![q] = d]
  <2>1. h[k] = m /\ k + 1 \in 1 .. n /\ (k + 1) - 1 = k
    BY <1>3
  <2>2. h[k + 1] = FillAt(h[k], s, c, k)
    BY <1>1, <2>1
  <2>3. h[k + 1] = r
    BY <2>1, <2>2 DEF FillAt, d
  <2>4. q \in A /\ q \in Int /\ q - s = k /\ k \in 0 .. (k + 1) - 1
    BY DEF Within
  <2>5. /\ m = [a \in A |-> IF a - s \in 0 .. k - 1 THEN d ELSE mem[a]]
        /\ w = [a \in A |-> IF a - s \in 0 .. (k + 1) - 1 THEN d ELSE mem[a]]
    BY DEF Filled
  <2> HIDE DEF m, w, q
  <2>6. ASSUME NEW a \in A PROVE r[a] = w[a]
    <3>1. CASE a = q
      BY <2>4, <2>5, <3>1
    <3>2. CASE a # q
      <4>1. r[a] = m[a]
        BY <2>5, <3>2
      <4>2. a - s \in 0 .. (k + 1) - 1 <=> a - s \in 0 .. k - 1
        BY <3>2 DEF q
      <4> QED
        BY <2>5, <4>1, <4>2
    <3> QED
      BY <3>1, <3>2
  <2>7. r = [a \in A |-> r[a]] /\ w = [a \in A |-> w[a]]
    BY <2>5
  <2>8. r = w
    BY <2>6, <2>7
  <2> QED
    BY <2>3, <2>8 DEF w
<1>4. n \in T
  <2> HIDE DEF T
  <2> QED
    BY <1>2, <1>3, SetInduction
<1> QED
  BY <1>1, <1>4 DEF d

(* memcmp orders blocks of bytes by the first difference and finds equal   *)
(* blocks equal (mem.c:144).                                               *)
THEOREM CompareRight ==
    ASSUME NEW A, NEW mem \in [A -> Nat], NEW n \in Nat, NEW s1 \in Int, NEW s2 \in Int,
           Within(s1, n, A), Within(s2, n, A)
    PROVE  memcmp(mem, s1, s2, n) = Compared(mem, s1, s2, n)
<1> DEFINE order == Up(n)
           x(k) == mem[s1 + k]
           y(k) == mem[s2 + k]
           I == {k \in 1 .. Len(order) : x(order[k]) # y(order[k])}
<1>1. Len(order) = n /\ \A k \in 1 .. n : order[k] = k - 1
  BY DEF Up
<1>2. memcmp(mem, s1, s2, n) =
          LET i == (IF I # {} THEN Min(I) ELSE 0) - 1
          IN  IF i < 0 THEN 0 ELSE IF x(i) < y(i) THEN -1 ELSE 1
  BY DEF memcmp, SelectInSeq
<1>3. \A k \in 0 .. n - 1 : x(k) \in Nat /\ y(k) \in Nat
  BY DEF Within
<1>4. I = {k \in 1 .. n : x(k - 1) # y(k - 1)}
  BY <1>1
<1>5. Compared(mem, s1, s2, n) =
          IF \E k \in 0 .. n - 1 : x(k) < y(k) /\ \A j \in 0 .. k - 1 : x(j) = y(j) THEN -1
          ELSE IF \E k \in 0 .. n - 1 : y(k) < x(k) /\ \A j \in 0 .. k - 1 : y(j) = x(j) THEN 1 ELSE 0
  BY DEF Compared, Before
<1> HIDE DEF x, y, I
<1>6. CASE I = {}
  <2>1. \A k \in 0 .. n - 1 : k + 1 \in 1 .. n /\ (k + 1) - 1 = k
    OBVIOUS
  <2>2. \A k \in 0 .. n - 1 : x(k) = y(k)
    BY <1>4, <1>6, <2>1
  <2>3. \A k \in 0 .. n - 1 : ~(x(k) < y(k)) /\ ~(y(k) < x(k))
    BY <1>3, <2>2
  <2>4. memcmp(mem, s1, s2, n) = 0
    BY <1>2, <1>6
  <2> QED
    BY <1>5, <2>3, <2>4
<1>7. CASE I # {}
  <2>1. I \in SUBSET Nat /\ I \in SUBSET (1 .. n)
    BY <1>4
  <2>2. \E a \in I : \A b \in I : a <= b
    BY <1>7, <2>1, LeastNat
  <2>3. Min(I) \in I /\ \A b \in I : Min(I) <= b
    BY <2>2 DEF Min
  <2> DEFINE i == Min(I) - 1
  <2>4. i \in 0 .. n - 1 /\ x(i) # y(i) /\ ~(i < 0)
    BY <1>4, <2>1, <2>3
  <2>5. ASSUME NEW k \in 0 .. n - 1, k < i PROVE x(k) = y(k)
    <3>0. Min(I) \in Nat
      BY <2>1, <2>3
    <3>1. k + 1 \in 1 .. n /\ (k + 1) - 1 = k /\ ~(Min(I) <= k + 1)
      BY <2>5, <3>0
    <3> QED
      BY <1>4, <2>3, <3>1
  <2>6. memcmp(mem, s1, s2, n) = IF x(i) < y(i) THEN -1 ELSE 1
    BY <1>2, <1>7, <2>4
  <2> HIDE DEF i
  <2>7. \A j \in 0 .. i - 1 : j \in 0 .. n - 1 /\ j < i
    BY <2>4
  <2>8. \A j \in 0 .. i - 1 : x(j) = y(j)
    BY <2>5, <2>7
  <2>9. ASSUME NEW k \in 0 .. n - 1, x(k) # y(k), \A j \in 0 .. k - 1 : x(j) = y(j) PROVE k = i
    <3>1. ~(k < i)
      BY <2>5, <2>9
    <3>2. ~(i \in 0 .. k - 1)
      BY <2>4, <2>9
    <3> QED
      BY <2>4, <3>1, <3>2
  <2>10. CASE x(i) < y(i)
    BY <1>5, <2>4, <2>6, <2>8, <2>10
  <2>11. CASE y(i) < x(i)
    <3>1. ~(x(i) < y(i))
      BY <1>3, <2>4, <2>11
    <3>2. ~(\E k \in 0 .. n - 1 : x(k) < y(k) /\ \A j \in 0 .. k - 1 : x(j) = y(j))
      <4> SUFFICES ASSUME NEW k \in 0 .. n - 1, x(k) < y(k), \A j \in 0 .. k - 1 : x(j) = y(j)
                   PROVE  FALSE
        OBVIOUS
      <4>1. x(k) # y(k)
        BY <1>3
      <4>2. k = i
        BY <2>9, <4>1
      <4> QED
        BY <3>1, <4>2
    <3> QED
      BY <1>5, <2>4, <2>6, <2>8, <2>11, <3>1, <3>2
  <2> QED
    BY <1>3, <2>4, <2>10, <2>11
<1> QED
  BY <1>6, <1>7

-----------------------------------------------------------------------------
(* The lines of the screen.                                                *)

(* The first pixel row of line i, counted from 0.                          *)
Top(i) == i * GlyphHeight

(* Lines follow each other without a gap, and one more than Visible fits:  *)
(* the line at the output position.                                        *)
LEMMA TopFacts ==
    /\ Visible \in Nat /\ Visible >= 1
    /\ \A i \in Nat : /\ Top(i) \in Nat /\ Top(i + 1) = Top(i) + GlyphHeight
                      /\ Top(i) % GlyphHeight = 0
    /\ \A i, j \in Nat : i < j => Top(i) + GlyphHeight <= Top(j)
    /\ \A n \in 0 .. Visible : /\ Top(n) + GlyphHeight <= Height
                               /\ n < Visible <=> Top(n) + 2 * GlyphHeight <= Height
<1> DEFINE G == GlyphHeight
           H == Height
           Q == H \div G
<1>1. G \in Nat /\ G >= 2 /\ H \in Nat /\ H >= 2 * G
  BY ScreenAssumption
<1>2. Q \in Nat /\ Q * G <= H /\ H < Q * G + G
  BY <1>1
<1>3. Q >= 2
  <2> SUFFICES ASSUME Q <= 1 PROVE FALSE
    BY <1>2
  <2>1. Q = 0 \/ Q = 1
    BY <1>2
  <2>2. Q * G <= G
    BY <1>1, <2>1
  <2> QED
    BY <1>1, <1>2, <2>2
<1>4. Visible = Q - 1 /\ Visible \in Nat /\ Visible >= 1
  BY <1>2, <1>3 DEF Visible
<1>5. ASSUME NEW i \in Nat
      PROVE  Top(i) \in Nat /\ Top(i + 1) = Top(i) + G /\ Top(i) % G = 0
  BY <1>1 DEF Top
<1>6. ASSUME NEW i \in Nat, NEW j \in Nat, i <= j PROVE Top(i) <= Top(j)
  <2>1. j - i \in Nat /\ (j - i) * G \in Nat
    BY <1>1, <1>6
  <2>2. j * G = i * G + (j - i) * G
    BY <1>1
  <2>3. i * G \in Nat /\ j * G \in Nat
    BY <1>1
  <2> HIDE DEF G
  <2>4. i * G <= j * G
    BY <2>1, <2>2, <2>3
  <2> QED
    BY <2>4 DEF Top, G
<1>7. ASSUME NEW i \in Nat, NEW j \in Nat, i < j PROVE Top(i) + G <= Top(j)
  <2>1. i + 1 \in Nat /\ i + 1 <= j
    BY <1>7
  <2> QED
    BY <1>5, <1>6, <2>1
<1>8. Top(Q) <= H /\ H < Top(Q) + G
  BY <1>2 DEF Top
<1>9. ASSUME NEW n \in 0 .. Visible
      PROVE  Top(n) + G <= H /\ (n < Visible <=> Top(n) + 2 * G <= H)
  <2>1. n \in Nat /\ n < Q /\ (n < Visible <=> n + 1 < Q)
    BY <1>2, <1>4
  <2>2. Top(n) + G <= Top(Q)
    BY <1>2, <1>7, <2>1
  <2>3. Top(n) \in Nat /\ Top(Q) \in Nat /\ Top(n + 1) = Top(n) + G
    BY <1>2, <1>5, <2>1
  <2> HIDE DEF Q
  <2>4. Top(n) + G <= H
    BY <1>1, <1>8, <2>2, <2>3
  <2>5. ASSUME n < Visible PROVE Top(n) + 2 * G <= H
    <3>1. n + 1 \in Nat /\ n + 1 < Q
      BY <2>1, <2>5
    <3>2. Top(n + 1) + G <= Top(Q)
      BY <1>2, <1>7, <3>1
    <3> QED
      BY <1>1, <1>8, <2>3, <3>2
  <2>6. ASSUME ~(n < Visible) PROVE ~(Top(n) + 2 * G <= H)
    <3>1. Q = n + 1
      BY <1>2, <2>1, <2>6
    <3> QED
      BY <1>1, <1>8, <2>3, <3>1
  <2> QED
    BY <2>4, <2>5, <2>6
<1> QED
  BY <1>4, <1>5, <1>7, <1>9

(* Everything a pixel row can show.                                        *)
Glyphs ==
    Keys \union {SPACE, "?", "#", NL, NUL, "World!", "Kerner", "Time:", "ms", "s", "Unknown", "command."}
         \union UNION {Range(text) : text \in Messages \union Leftovers}

Screens == [Ys -> [Xs -> Glyphs]]
Terminals ==
    [screen : Screens, overrun : BOOLEAN, render_x : Int, render_y : Int,
     input_render_x : Int, input_render_y : Int]

(* A text line that begins at pixel row y shows `line`.                    *)
Shows(t, y, line) ==
    \A r \in y .. y + GlyphHeight - 2, x \in Xs :
        t.screen[r][x] = IF x < Len(line) THEN line[x + 1] ELSE SPACE

(* t differs from s in the screen and in overrun only.                     *)
SamePlace(t, s) ==
    /\ t.render_x = s.render_x /\ t.render_y = s.render_y
    /\ t.input_render_x = s.input_render_x /\ t.input_render_y = s.input_render_y

(* Blanking clears the rows from `from` to `to` and moves nothing else.    *)
LEMMA BlankRowsIs ==
    ASSUME NEW t \in Terminals, NEW from \in Int, NEW to \in Int
    PROVE  LET b == BlankRows(t, from, to)
           IN  /\ b \in Terminals /\ SamePlace(b, t)
               /\ \A r \in Ys, x \in Xs :
                      b.screen[r][x] = IF from <= r /\ r <= to THEN SPACE ELSE t.screen[r][x]
<1> DEFINE b == BlankRows(t, from, to)
           new == [y \in Ys |-> IF from <= y /\ y <= to THEN EmptyRow ELSE t.screen[y]]
           over == t.overrun \/ to >= Height
<1>1. b = [t EXCEPT !.screen = new, !.overrun = over]
  BY DEF BlankRows
<1>2. t.screen \in Screens /\ SPACE \in Glyphs /\ EmptyRow \in [Xs -> Glyphs] /\ over \in BOOLEAN
  BY DEF Terminals, Glyphs, EmptyRow
<1>3. new \in Screens
  BY <1>2 DEF Screens
<1> HIDE DEF new, over
<1>4. b \in Terminals /\ SamePlace(b, t) /\ b.screen = new
  BY <1>1, <1>2, <1>3 DEF Terminals, SamePlace
<1> HIDE DEF b
<1>5. \A r \in Ys, x \in Xs : new[r][x] = IF from <= r /\ r <= to THEN SPACE ELSE t.screen[r][x]
  BY DEF new, EmptyRow
<1> QED
  BY <1>4, <1>5 DEF b

(* A glyph covers one column of a line, but for the padding row.           *)
LEMMA RenderGlyphIs ==
    ASSUME NEW t \in Terminals, NEW ch \in Glyphs, NEW x \in Int, NEW y \in Int
    PROVE  LET g == _render_glyph(t, ch, x, y)
           IN  /\ g \in Terminals /\ SamePlace(g, t)
               /\ \A r \in Ys, c \in Xs :
                      g.screen[r][c] = IF y <= r /\ r < y + GlyphHeight - 1 /\ c = x
                                         THEN ch ELSE t.screen[r][c]
<1> DEFINE g == _render_glyph(t, ch, x, y)
           new == [r \in Ys |-> IF y <= r /\ r < y + GlyphHeight - 1
                                  THEN [t.screen[r] EXCEPT ![x] = ch] ELSE t.screen[r]]
<1>1. g = [t EXCEPT !.screen = new]
  BY DEF _render_glyph
<1>2. t.screen \in Screens
  BY DEF Terminals
<1>3. new \in Screens
  BY <1>2 DEF Screens
<1>4. \A r \in Ys, c \in Xs : new[r][c] = IF y <= r /\ r < y + GlyphHeight - 1 /\ c = x
                                            THEN ch ELSE t.screen[r][c]
  BY <1>2 DEF Screens
<1> HIDE DEF new
<1>5. g \in Terminals /\ SamePlace(g, t) /\ g.screen = new
  BY <1>1, <1>3 DEF Terminals, SamePlace
<1> HIDE DEF g
<1> QED
  BY <1>4, <1>5 DEF g

(* Scrolling moves every row up by a line and blanks the last line.        *)
LEMMA ShiftIs ==
    ASSUME NEW t \in Terminals
    PROVE  LET u == _shift_screen_up(t)
           IN  /\ u \in Terminals /\ SamePlace(u, t)
               /\ \A r \in Ys, x \in Xs :
                      u.screen[r][x] = IF r >= Height - GlyphHeight THEN SPACE
                                       ELSE t.screen[r + GlyphHeight][x]
<1> DEFINE new == [y \in Ys |-> IF y + GlyphHeight < Height
                                  THEN t.screen[y + GlyphHeight] ELSE t.screen[y]]
           moved == [t EXCEPT !.screen = new]
           u == BlankRows(moved, Height - GlyphHeight, Height)
<1>1. _shift_screen_up(t) = u
  BY DEF _shift_screen_up
<1>2. t.screen \in Screens /\ Height \in Nat /\ GlyphHeight \in Nat
  BY ScreenAssumption DEF Terminals
<1>3. \A y \in Ys : y + GlyphHeight < Height => y + GlyphHeight \in Ys
  BY <1>2 DEF Ys
<1>4. new \in Screens
  BY <1>2, <1>3 DEF Screens
<1>5. \A r \in Ys : r < Height - GlyphHeight => new[r] = t.screen[r + GlyphHeight]
  BY <1>2 DEF Ys
<1> HIDE DEF new
<1>6. moved \in Terminals /\ SamePlace(moved, t) /\ moved.screen = new
  BY <1>4 DEF Terminals, SamePlace
<1> HIDE DEF moved
<1>7. Height - GlyphHeight \in Int /\ Height \in Int
  BY <1>2
<1>8. /\ u \in Terminals /\ SamePlace(u, moved)
      /\ \A r \in Ys, x \in Xs :
             u.screen[r][x] = IF Height - GlyphHeight <= r /\ r <= Height THEN SPACE ELSE moved.screen[r][x]
  BY <1>6, <1>7, BlankRowsIs
<1> HIDE DEF u
<1>9. ASSUME NEW r \in Ys, NEW x \in Xs
      PROVE  u.screen[r][x] = IF r >= Height - GlyphHeight THEN SPACE ELSE t.screen[r + GlyphHeight][x]
  <2>1. r \in Nat /\ r < Height
    BY <1>2 DEF Ys
  <2>2. u.screen[r][x] = IF Height - GlyphHeight <= r /\ r <= Height THEN SPACE ELSE new[r][x]
    BY <1>6, <1>8
  <2>3. CASE r >= Height - GlyphHeight
    BY <1>2, <2>1, <2>2, <2>3
  <2>4. CASE r < Height - GlyphHeight
    <3>1. ~(Height - GlyphHeight <= r)
      BY <1>2, <2>1, <2>4
    <3>2. new[r] = t.screen[r + GlyphHeight]
      BY <1>5, <2>4
    <3>3. u.screen[r][x] = new[r][x]
      BY <2>2, <3>1
    <3> QED
      BY <1>2, <2>1, <3>1, <3>2, <3>3
  <2> QED
    BY <1>2, <2>1, <2>3, <2>4
<1>10. SamePlace(u, t)
  BY <1>6, <1>8 DEF SamePlace
<1> QED
  BY <1>1, <1>8, <1>9, <1>10

(* Moving the output and the input position leaves the rest alone.         *)
OutputTo(t, x, y) == [t EXCEPT !.render_x = x, !.render_y = y]
RowTo(t, y) == [t EXCEPT !.render_y = y]
InputTo(t, x, y) == [t EXCEPT !.input_render_x = x, !.input_render_y = y]

(* A new output position.                                                  *)
LEMMA OutputMoved ==
    ASSUME NEW t \in Terminals, NEW x \in Int, NEW y \in Int
    PROVE  LET u == OutputTo(t, x, y)
           IN  /\ u \in Terminals /\ u.screen = t.screen /\ u.render_x = x /\ u.render_y = y
               /\ u.input_render_x = t.input_render_x /\ u.input_render_y = t.input_render_y
  BY DEF Terminals, OutputTo

(* A new row of the output position.                                       *)
LEMMA RowMoved ==
    ASSUME NEW t \in Terminals, NEW y \in Int
    PROVE  LET u == RowTo(t, y)
           IN  u \in Terminals /\ u.screen = t.screen /\ u.render_x = t.render_x /\ u.render_y = y
  BY DEF Terminals, RowTo

(* A new input position.                                                   *)
LEMMA InputMoved ==
    ASSUME NEW t \in Terminals, NEW x \in Int, NEW y \in Int
    PROVE  LET u == InputTo(t, x, y)
           IN  /\ u \in Terminals /\ u.screen = t.screen
               /\ u.render_x = t.render_x /\ u.render_y = t.render_y
               /\ u.input_render_x = x /\ u.input_render_y = y
  BY DEF Terminals, InputTo

(* The prompt is drawn at the output position, or below if a line has been *)
(* begun there.                                                            *)
LEMMA RenderInputLineIs ==
    ASSUME NEW t \in Terminals,
           NEW y, y = IF t.render_x > 0 THEN t.render_y + GlyphHeight ELSE t.render_y
    PROVE  LET u == _render_input_line(t)
           IN  /\ u \in Terminals /\ u.render_x = t.render_x /\ u.render_y = t.render_y
               /\ u.input_render_x = 2 /\ u.input_render_y = y
               /\ \A r \in Ys, x \in Xs :
                      u.screen[r][x] = IF y <= r /\ r < y + GlyphHeight - 1 /\ x \in {0, 1}
                                         THEN IF x = 0 THEN "#" ELSE SPACE ELSE t.screen[r][x]
<1> DEFINE a == _render_glyph(t, "#", 0, y)
           b == _render_glyph(a, SPACE, 1, y)
           u == InputTo(b, 2, y)
<1>1. _render_input_line(t) = u
  BY DEF _render_input_line, InputTo
<1>2. y \in Int /\ GlyphHeight \in Nat /\ "#" \in Glyphs /\ SPACE \in Glyphs
  BY ScreenAssumption DEF Terminals, Glyphs
<1>3. /\ a \in Terminals /\ SamePlace(a, t)
      /\ \A r \in Ys, x \in Xs :
             a.screen[r][x] = IF y <= r /\ r < y + GlyphHeight - 1 /\ x = 0 THEN "#" ELSE t.screen[r][x]
  BY <1>2, RenderGlyphIs
<1> HIDE DEF a
<1>4. /\ b \in Terminals /\ SamePlace(b, a)
      /\ \A r \in Ys, x \in Xs :
             b.screen[r][x] = IF y <= r /\ r < y + GlyphHeight - 1 /\ x = 1 THEN SPACE ELSE a.screen[r][x]
  BY <1>2, <1>3, RenderGlyphIs
<1> HIDE DEF b
<1>5. /\ u \in Terminals /\ u.render_x = b.render_x /\ u.render_y = b.render_y
      /\ u.input_render_x = 2 /\ u.input_render_y = y /\ u.screen = b.screen
  BY <1>2, <1>4, InputMoved
<1> HIDE DEF u
<1>6. u.render_x = t.render_x /\ u.render_y = t.render_y
  BY <1>3, <1>4, <1>5 DEF SamePlace
<1>7. ASSUME NEW r \in Ys, NEW x \in Xs
      PROVE  u.screen[r][x] = IF y <= r /\ r < y + GlyphHeight - 1 /\ x \in {0, 1}
                                THEN IF x = 0 THEN "#" ELSE SPACE ELSE t.screen[r][x]
  <2>1. u.screen[r][x] = IF y <= r /\ r < y + GlyphHeight - 1 /\ x = 1 THEN SPACE ELSE a.screen[r][x]
    BY <1>4, <1>5
  <2>2. a.screen[r][x] = IF y <= r /\ r < y + GlyphHeight - 1 /\ x = 0 THEN "#" ELSE t.screen[r][x]
    BY <1>3
  <2> QED
    BY <2>1, <2>2
<1> QED
  BY <1>1, <1>5, <1>6, <1>7

-----------------------------------------------------------------------------
(* _move_to_next_line in its parts.                                        *)

Cleared(t) == IF t.render_x = 0 THEN BlankRows(t, t.render_y, t.render_y + GlyphHeight) ELSE t
Below(t) == [t EXCEPT !.render_x = 0, !.render_y = @ + GlyphHeight]
Fitted(t) ==
    IF AtBottom(t.render_y)
      THEN [_shift_screen_up(t) EXCEPT !.render_y = @ - GlyphHeight] ELSE t
InputBelow(t) == _render_input_line(BlankRows(t, t.render_y, t.render_y + GlyphHeight))

(* _move_to_next_line blanks a line left empty, goes one line down,        *)
(* scrolls if that is none, and draws the input line.                      *)
LEMMA NextLineParts ==
    ASSUME NEW t
    PROVE  _move_to_next_line(t) = InputBelow(Fitted(Below(Cleared(t))))
  BY DEF _move_to_next_line, InputBelow, Fitted, Below, Cleared

(* A line that begins at y is on the screen.                               *)
LineRoom(y) == y \in Nat /\ y + GlyphHeight <= Height

(* The pixel rows of a line on the screen.                                 *)
LEMMA RowsOfLine ==
    ASSUME NEW y, LineRoom(y)
    PROVE  /\ \A r \in y .. y + GlyphHeight - 2 :
                  r \in Ys /\ r \in Nat /\ y <= r /\ r <= y + GlyphHeight /\ r < y + GlyphHeight - 1
           /\ y \in Int /\ y + GlyphHeight \in Int
           /\ \A r \in Ys : r < y => ~(y <= r)
  BY ScreenAssumption DEF LineRoom, Ys

(* What is drawn at the output position does not touch the lines above.    *)
SameAbove(u, t, y) == \A r \in Ys, x \in Xs : r < y => u.screen[r][x] = t.screen[r][x]

(* A line that nothing was drawn on is blanked; those above stay.          *)
LEMMA ClearedIs ==
    ASSUME NEW t \in Terminals, LineRoom(t.render_y)
    PROVE  LET u == Cleared(t)
           IN  /\ u \in Terminals /\ SamePlace(u, t) /\ SameAbove(u, t, t.render_y)
               /\ t.render_x = 0 => Shows(u, t.render_y, << >>)
               /\ t.render_x # 0 => u = t
<1>1. CASE t.render_x = 0
  <2> DEFINE y == t.render_y
             u == BlankRows(t, y, y + GlyphHeight)
  <2>1. Cleared(t) = u
    BY <1>1 DEF Cleared
  <2>2. /\ u \in Terminals /\ SamePlace(u, t)
        /\ \A r \in Ys, x \in Xs :
               u.screen[r][x] = IF y <= r /\ r <= y + GlyphHeight THEN SPACE ELSE t.screen[r][x]
    BY RowsOfLine, BlankRowsIs
  <2> HIDE DEF u, y
  <2>3. Shows(u, y, << >>)
    <3>1. \A r \in y .. y + GlyphHeight - 2 : r \in Ys /\ y <= r /\ r <= y + GlyphHeight
      BY RowsOfLine DEF y
    <3>2. \A r \in y .. y + GlyphHeight - 2, x \in Xs : u.screen[r][x] = SPACE
      BY <2>2, <3>1
    <3>3. Len(<< >>) = 0 /\ \A x \in Xs : ~(x < 0)
      BY ScreenAssumption DEF Xs
    <3> QED
      BY <3>2, <3>3 DEF Shows
  <2>4. SameAbove(u, t, y)
    <3>1. \A r \in Ys : r < y => ~(y <= r)
      BY RowsOfLine DEF y
    <3> QED
      BY <2>2, <3>1 DEF SameAbove
  <2> QED
    BY <1>1, <2>1, <2>2, <2>3, <2>4 DEF y
<1>2. CASE t.render_x # 0
  BY <1>2 DEF Cleared, SamePlace, SameAbove
<1> QED
  BY <1>1, <1>2

(* The next line; if there is none, all lines move up by one instead.      *)
LEMMA FittedIs ==
    ASSUME NEW t \in Terminals, NEW d, LineRoom(t.render_y),
           d = IF t.render_y + 2 * GlyphHeight <= Height THEN 0 ELSE GlyphHeight
    PROVE  LET u == Fitted(Below(t))
               z == t.render_y + GlyphHeight - d
           IN  /\ u \in Terminals /\ u.render_x = 0 /\ u.render_y = z /\ LineRoom(z)
               /\ \A r \in Ys, x \in Xs : r < z => u.screen[r][x] = t.screen[r + d][x]
<1> DEFINE y == t.render_y
           down == Below(t)
<1>0. y \in Nat /\ GlyphHeight \in Nat /\ Height \in Nat /\ y + GlyphHeight <= Height
      /\ y + GlyphHeight \in Int
  BY ScreenAssumption DEF LineRoom
<1>1. /\ down \in Terminals /\ down.screen = t.screen /\ down.render_x = 0
      /\ down.render_y = y + GlyphHeight
  <2>1. down = OutputTo(t, 0, y + GlyphHeight)
    BY DEF Below, OutputTo
  <2> QED
    BY <1>0, <2>1, OutputMoved
<1> HIDE DEF down
<1>2. CASE d = 0
  <2>1. y + 2 * GlyphHeight <= Height
    BY <1>2, ScreenAssumption
  <2> HIDE DEF y
  <2>2. ~AtBottom(y + GlyphHeight)
    BY <1>0, <2>1 DEF AtBottom
  <2>3. Fitted(down) = down
    BY <1>1, <2>2 DEF Fitted
  <2>4. y + GlyphHeight - d = y + GlyphHeight /\ LineRoom(y + GlyphHeight)
    BY <1>0, <1>2, <2>1 DEF LineRoom
  <2>5. \A r \in Ys : r + d = r
    BY <1>2 DEF Ys
  <2> QED
    BY <1>1, <2>3, <2>4, <2>5 DEF y, down
<1>3. CASE d = GlyphHeight /\ ~(y + 2 * GlyphHeight <= Height)
  <2> DEFINE up == _shift_screen_up(down)
             u == RowTo(up, y)
  <2>1. /\ up \in Terminals /\ SamePlace(up, down)
        /\ \A r \in Ys, x \in Xs :
               up.screen[r][x] = IF r >= Height - GlyphHeight THEN SPACE
                                 ELSE down.screen[r + GlyphHeight][x]
    BY <1>1, ShiftIs
  <2> HIDE DEF up, y
  <2>2. up.render_x = 0 /\ up.render_y = y + GlyphHeight /\ (y + GlyphHeight) - GlyphHeight = y
    BY <1>0, <1>1, <2>1 DEF SamePlace
  <2>3. AtBottom(y + GlyphHeight)
    BY <1>0, <1>3 DEF AtBottom
  <2>4. Fitted(down) = u
    BY <1>1, <2>2, <2>3 DEF Fitted, up, RowTo
  <2>5. u \in Terminals /\ u.screen = up.screen /\ u.render_x = 0 /\ u.render_y = y
    <3>1. up \in Terminals /\ y \in Int
      BY <1>0, <2>1
    <3>2. u \in Terminals /\ u.screen = up.screen /\ u.render_x = up.render_x /\ u.render_y = y
      BY <3>1, RowMoved
    <3> QED
      BY <2>2, <3>2
  <2> HIDE DEF u
  <2>6. y + GlyphHeight - d = y /\ LineRoom(y)
    BY <1>0, <1>3 DEF LineRoom
  <2>7. ASSUME NEW r \in Ys, NEW x \in Xs, r < y
        PROVE  u.screen[r][x] = t.screen[r + d][x]
    <3>1. ~(r >= Height - GlyphHeight)
      BY <1>0, <2>7 DEF Ys
    <3> QED
      BY <1>1, <1>3, <2>1, <2>5, <3>1
  <2> QED
    BY <2>4, <2>5, <2>6, <2>7 DEF y, down
<1> QED
  BY <1>2, <1>3

(* The input line is drawn at the output position: nothing but the prompt. *)
PromptShown(t) ==
    /\ t.render_x = 0 /\ t.input_render_y = t.render_y /\ t.input_render_x = 2
    /\ Shows(t, t.render_y, Prompt)

(* On a blank line _render_input_line leaves the prompt alone.             *)
LEMMA PromptIs ==
    ASSUME NEW t \in Terminals, t.render_x = 0, LineRoom(t.render_y),
           Shows(t, t.render_y, << >>)
    PROVE  LET u == _render_input_line(t)
           IN  /\ u \in Terminals /\ u.render_y = t.render_y
               /\ SameAbove(u, t, t.render_y) /\ PromptShown(u)
<1> DEFINE y == t.render_y
           u == _render_input_line(t)
<1>1. y = IF t.render_x > 0 THEN t.render_y + GlyphHeight ELSE t.render_y
  OBVIOUS
<1> HIDE DEF y
<1>2. /\ u \in Terminals /\ u.render_x = t.render_x /\ u.render_y = t.render_y
      /\ u.input_render_x = 2 /\ u.input_render_y = y
      /\ \A r \in Ys, x \in Xs :
             u.screen[r][x] = IF y <= r /\ r < y + GlyphHeight - 1 /\ x \in {0, 1}
                                THEN IF x = 0 THEN "#" ELSE SPACE ELSE t.screen[r][x]
  BY <1>1, RenderInputLineIs
<1> HIDE DEF u
<1>3. SameAbove(u, t, y)
  <2>1. \A r \in Ys : r < y => ~(y <= r)
    BY RowsOfLine DEF y
  <2> QED
    BY <1>2, <2>1 DEF SameAbove
<1>4. ASSUME NEW r \in y .. y + GlyphHeight - 2, NEW x \in Xs
      PROVE  u.screen[r][x] = IF x < Len(Prompt) THEN Prompt[x + 1] ELSE SPACE
  <2>1. r \in Ys /\ y <= r /\ r < y + GlyphHeight - 1
    BY RowsOfLine DEF y
  <2>2. Len(<< >>) = 0 /\ x \in Nat /\ ~(x < 0)
    BY ScreenAssumption DEF Xs
  <2>3. t.screen[r][x] = SPACE
    BY <2>2 DEF Shows, y
  <2>4. u.screen[r][x] = IF x = 0 THEN "#" ELSE SPACE
    BY <1>2, <2>1, <2>3
  <2>5. Len(Prompt) = 2 /\ Prompt[1] = "#" /\ Prompt[2] = SPACE
    BY DEF Prompt
  <2> QED
    BY <2>2, <2>4, <2>5
<1>5. Shows(u, y, Prompt)
  BY <1>4 DEF Shows
<1> QED
  BY <1>2, <1>3, <1>5 DEF PromptShown, y, u

(* Whatever the line showed, it shows the prompt afterwards.               *)
LEMMA InputBelowIs ==
    ASSUME NEW t \in Terminals, t.render_x = 0, LineRoom(t.render_y)
    PROVE  LET u == InputBelow(t)
           IN  /\ u \in Terminals /\ u.render_y = t.render_y
               /\ SameAbove(u, t, t.render_y) /\ PromptShown(u)
<1> DEFINE b == Cleared(t)
           u == _render_input_line(b)
<1>1. InputBelow(t) = u
  BY DEF InputBelow, Cleared
<1>2. b \in Terminals /\ SamePlace(b, t) /\ SameAbove(b, t, t.render_y) /\ Shows(b, t.render_y, << >>)
  BY ClearedIs
<1> HIDE DEF b
<1>3. b.render_x = 0 /\ b.render_y = t.render_y
  BY <1>2 DEF SamePlace
<1>4. u \in Terminals /\ u.render_y = b.render_y /\ SameAbove(u, b, b.render_y) /\ PromptShown(u)
  BY <1>2, <1>3, PromptIs
<1> HIDE DEF u
<1>5. SameAbove(u, t, t.render_y)
  BY <1>2, <1>3, <1>4 DEF SameAbove
<1> QED
  BY <1>1, <1>3, <1>4, <1>5

-----------------------------------------------------------------------------
(* The lines above the output position.                                    *)

(* How many of n lines are on the screen.                                  *)
Kept(n) == IF n > Visible THEN Visible ELSE n

(* They are the last ones of `done`.                                       *)
LinesShown(t, done) ==
    \A i \in 1 .. Kept(Len(done)) : Shows(t, Top(i - 1), done[Len(done) - Kept(Len(done)) + i])

(* The lines kept fit above the output position; a further one fits, or    *)
(* the screen is full and stays so.                                        *)
LEMMA KeptFacts ==
    ASSUME NEW len \in Nat
    PROVE  /\ Kept(len) \in 0 .. Visible /\ Kept(len) \in Nat /\ Kept(len) <= len
           /\ Kept(len) < Visible => Kept(len) = len /\ Kept(len + 1) = len + 1
           /\ Kept(len) = Visible => Kept(len + 1) = Visible
           /\ Top(Kept(len)) \in Nat /\ LineRoom(Top(Kept(len)))
           /\ Kept(len) < Visible <=> Top(Kept(len)) + 2 * GlyphHeight <= Height
<1>1. Visible \in Nat
  BY TopFacts
<1>2. /\ Kept(len) \in 0 .. Visible /\ Kept(len) \in Nat /\ Kept(len) <= len
      /\ Kept(len) < Visible => Kept(len) = len /\ Kept(len + 1) = len + 1
      /\ Kept(len) = Visible => Kept(len + 1) = Visible
  BY <1>1 DEF Kept
<1> QED
  BY <1>2, TopFacts DEF LineRoom

(* Lines above stay if no row above the output position changes.           *)
LEMMA LinesStay ==
    ASSUME NEW t, NEW u, NEW done, Len(done) \in Nat,
           SameAbove(u, t, Top(Kept(Len(done)))), LinesShown(t, done)
    PROVE  LinesShown(u, done)
<1> DEFINE n == Kept(Len(done))
<1> SUFFICES ASSUME NEW i \in 1 .. n
             PROVE  Shows(u, Top(i - 1), done[Len(done) - n + i])
  BY DEF LinesShown
<1>1. n \in Nat /\ LineRoom(Top(n))
  BY KeptFacts
<1>2. Shows(t, Top(i - 1), done[Len(done) - n + i])
  BY DEF LinesShown
<1> HIDE DEF n
<1>3. i - 1 \in Nat /\ i - 1 < n /\ Top(i - 1) \in Nat /\ Top(i - 1) + GlyphHeight <= Top(n)
  <2>1. i - 1 \in Nat /\ i - 1 < n
    BY <1>1
  <2> QED
    BY <1>1, <2>1, TopFacts
<1>4. \A r \in Top(i - 1) .. Top(i - 1) + GlyphHeight - 2 : r \in Ys /\ r < Top(n)
  BY <1>1, <1>3, ScreenAssumption DEF LineRoom, Ys
<1> QED
  BY <1>2, <1>4 DEF Shows, SameAbove, n

(* _move_to_next_line ends the line `cur`: from then on it is the last of  *)
(* the lines above, those above it have moved up if it was the lowest, and *)
(* the line below is the input line.                                       *)
LEMMA NextLineIs ==
    ASSUME NEW t \in Terminals, NEW done \in Seq(Seq(Glyphs)), NEW cur \in Seq(Glyphs),
           t.render_y = Top(Kept(Len(done))), LinesShown(t, done),
           t.render_x # 0 => Shows(t, t.render_y, cur),
           t.render_x = 0 => cur = << >>
    PROVE  LET u == _move_to_next_line(t)
           IN  /\ u \in Terminals /\ u.render_y = Top(Kept(Len(done) + 1))
               /\ LinesShown(u, Append(done, cur)) /\ PromptShown(u)
<1> DEFINE G == GlyphHeight
           all == Append(done, cur)
           n == Kept(Len(done))
           m == Kept(Len(done) + 1)
           y == t.render_y
           d == IF y + 2 * G <= Height THEN 0 ELSE G
           left == Cleared(t)
           fit == Fitted(Below(left))
           u == InputBelow(fit)
<1>1. /\ Len(done) \in Nat /\ Len(all) = Len(done) + 1
      /\ all[Len(all)] = cur /\ \A i \in 1 .. Len(done) : all[i] = done[i]
  OBVIOUS
<1>2. G \in Nat /\ G >= 2 /\ Height \in Nat
  BY ScreenAssumption
<1>3. /\ n \in Nat /\ n <= Len(done) /\ m \in Nat /\ y = Top(n) /\ LineRoom(y) /\ y \in Nat
      /\ LineRoom(Top(m)) /\ Top(m) \in Nat
      /\ \/ d = 0 /\ m = n + 1 /\ n = Len(done)
         \/ d = G /\ m = n
  <2>1. Len(done) + 1 \in Nat /\ Visible \in Nat
    BY <1>1, TopFacts
  <2>2. /\ n \in 0 .. Visible /\ n \in Nat /\ n <= Len(done)
        /\ n < Visible => n = Len(done) /\ m = Len(done) + 1
        /\ n = Visible => m = Visible
        /\ LineRoom(Top(n)) /\ Top(n) \in Nat
        /\ n < Visible <=> Top(n) + 2 * GlyphHeight <= Height
    BY <1>1, KeptFacts
  <2>3. m \in Nat /\ LineRoom(Top(m)) /\ Top(m) \in Nat
    BY <2>1, KeptFacts
  <2>4. y = Top(n)
    OBVIOUS
  <2> HIDE DEF n, m, y
  <2>5. CASE n < Visible
    BY <2>2, <2>3, <2>4, <2>5
  <2>6. CASE n = Visible
    <3>1. ~(y + 2 * G <= Height)
      BY <2>1, <2>2, <2>4, <2>6
    <3> QED
      BY <2>2, <2>3, <2>4, <2>6, <3>1
  <2> QED
    BY <2>1, <2>2, <2>5, <2>6
<1> HIDE DEF n, m
<1>4. Top(n + 1) = y + G /\ Top(m) = y + G - d /\ d \in Nat
  <2>1. Top(n + 1) = y + G
    BY <1>3, TopFacts
  <2> HIDE DEF y, d
  <2> QED
    BY <1>2, <1>3, <2>1
<1>5. /\ left \in Terminals /\ left.render_y = y /\ SameAbove(left, t, y) /\ Shows(left, y, cur)
  <2>1. /\ left \in Terminals /\ SamePlace(left, t) /\ SameAbove(left, t, y)
        /\ t.render_x = 0 => Shows(left, y, << >>)
        /\ t.render_x # 0 => left = t
    BY <1>3, ClearedIs
  <2> HIDE DEF left
  <2> QED
    BY <2>1 DEF SamePlace
<1> HIDE DEF left
<1>6. LinesShown(left, done)
  BY <1>1, <1>5, LinesStay
<1>7. /\ fit \in Terminals /\ fit.render_x = 0 /\ fit.render_y = Top(m)
      /\ \A r \in Ys, x \in Xs : r < Top(m) => fit.screen[r][x] = left.screen[r + d][x]
  <2>1. d = IF left.render_y + 2 * GlyphHeight <= Height THEN 0 ELSE GlyphHeight
    BY <1>5
  <2>2. left \in Terminals /\ LineRoom(left.render_y) /\ left.render_y + GlyphHeight - d = Top(m)
    BY <1>3, <1>4, <1>5
  <2> HIDE DEF d
  <2> QED
    BY <2>1, <2>2, FittedIs
<1> HIDE DEF fit
<1>8. u \in Terminals /\ u.render_y = Top(m) /\ SameAbove(u, fit, Top(m)) /\ PromptShown(u)
  BY <1>3, <1>7, InputBelowIs
<1> HIDE DEF u
<1>9. \A r \in Ys, x \in Xs : r < Top(m) => u.screen[r][x] = left.screen[r + d][x]
  BY <1>7, <1>8 DEF SameAbove
<1> HIDE DEF d, y
<1>10. LinesShown(u, all)
  <2> SUFFICES ASSUME NEW i \in 1 .. m
               PROVE  Shows(u, Top(i - 1), all[Len(all) - m + i])
    BY <1>1 DEF LinesShown, m
  <2> DEFINE e == IF d = 0 THEN i ELSE i + 1
             line == all[Len(all) - m + i]
  <2>0. /\ Len(done) \in Nat /\ Len(all) = Len(done) + 1
        /\ n \in Nat /\ n <= Len(done) /\ m \in Nat
        /\ \/ d = 0 /\ m = n + 1 /\ n = Len(done)
           \/ d = G /\ m = n
    BY <1>1, <1>3
  <2>1. /\ e \in Nat /\ e - 1 \in Nat /\ e - 1 <= n /\ i - 1 \in Nat /\ i - 1 < m
        /\ Len(all) - m + i = Len(done) - n + e
    <3>1. i \in Nat /\ 1 <= i /\ i <= m
      BY <1>3
    <3>2. CASE d = 0 /\ m = n + 1
      BY <1>1, <1>3, <3>1, <3>2
    <3>3. CASE d = G /\ m = n
      <4>1. d # 0 /\ e = i + 1
        BY <1>2, <3>3
      <4> HIDE DEF e, n, m, d
      <4> QED
        BY <2>0, <3>1, <3>3, <4>1
    <3> QED
      BY <1>3, <3>2, <3>3
  <2>2. Top(i - 1) \in Nat /\ Top(i - 1) + G <= Top(m) /\ Top(e - 1) = Top(i - 1) + d /\ Top(e - 1) \in Nat
    <3>1. Top(i - 1) \in Nat /\ Top(i - 1) + G <= Top(m) /\ Top((i - 1) + 1) = Top(i - 1) + G
      BY <1>3, <2>1, TopFacts
    <3>2. \/ d = 0 /\ e - 1 = i - 1
          \/ d = G /\ e - 1 = (i - 1) + 1
      BY <1>2, <1>3
    <3> HIDE DEF e
    <3> QED
      BY <1>2, <3>1, <3>2
  <2> HIDE DEF e
  <2>3. Shows(left, Top(e - 1), line)
    <3>1. CASE e - 1 = n
      <4>1. Len(all) - m + i = Len(all)
        <5> HIDE DEF n, m, d, all, line
        <5>1. n \in Nat /\ Len(done) \in Nat /\ e \in Nat
          BY <2>0, <2>1
        <5>2. Len(done) - n + e = Len(done) + 1
          BY <3>1, <5>1
        <5> QED
          BY <2>0, <2>1, <5>2
      <4> QED
        BY <1>1, <1>3, <1>5, <3>1, <4>1
    <3>2. CASE e - 1 < n
      <4>1. e \in 1 .. n /\ Len(done) - n + e \in 1 .. Len(done)
        BY <1>1, <1>3, <2>1, <3>2
      <4>2. line = done[Len(done) - n + e]
        BY <1>1, <2>1, <4>1
      <4> HIDE DEF line
      <4> QED
        BY <1>6, <4>1, <4>2 DEF LinesShown, n
    <3>3. e - 1 = n \/ e - 1 < n
      <4> HIDE DEF n, m, d
      <4> QED
        BY <2>0, <2>1
    <3> QED
      BY <3>1, <3>2, <3>3
  <2> HIDE DEF line
  <2>4. ASSUME NEW r \in Top(i - 1) .. Top(i - 1) + GlyphHeight - 2, NEW x \in Xs
        PROVE  u.screen[r][x] = IF x < Len(line) THEN line[x + 1] ELSE SPACE
    <3>1. r \in Ys /\ r < Top(m) /\ r + d \in Top(e - 1) .. Top(e - 1) + GlyphHeight - 2
      <4>1. r \in Nat /\ Top(i - 1) <= r /\ r <= Top(i - 1) + G - 2
        BY <1>2, <2>2
      <4>2. r < Top(m)
        BY <1>2, <1>3, <2>2, <4>1
      <4>3. r \in Ys
        <5>1. Top(m) \in Nat /\ Top(m) + G <= Height
          BY <1>3 DEF LineRoom
        <5>2. r < Height
          BY <1>2, <4>1, <4>2, <5>1
        <5> QED
          BY <1>2, <4>1, <5>2 DEF Ys
      <4>4. r + d \in Top(e - 1) .. Top(e - 1) + G - 2
        BY <1>2, <1>4, <2>2, <4>1
      <4> QED
        BY <4>2, <4>3, <4>4
    <3>2. u.screen[r][x] = left.screen[r + d][x]
      BY <1>9, <3>1
    <3> QED
      BY <2>3, <3>1, <3>2 DEF Shows
  <2> QED
    BY <2>4 DEF Shows, line
<1>11. _move_to_next_line(t) = u
  BY NextLineParts DEF u, fit, left
<1> QED
  BY <1>8, <1>10, <1>11 DEF m

-----------------------------------------------------------------------------
(* tprintf simulates the reference: character by character, the terminal   *)
(* shows the lines that AddChar collects.                                  *)

Texts == [done : Seq(Seq(Glyphs)), cur : Seq(Glyphs)]

(* The screen shows the lines that are done and the one that was begun,    *)
(* and the output position is behind it.                                   *)
ShowsText(t, l) ==
    /\ t \in Terminals /\ l \in Texts
    /\ Len(l.cur) < Cols /\ t.render_x = Len(l.cur)
    /\ t.render_y = Top(Kept(Len(l.done))) /\ LinesShown(t, l.done)
    /\ l.cur # << >> => Shows(t, t.render_y, l.cur)

(* Also the rest of the line is blank, but for its first glyph.            *)
Ready(t, l) ==
    /\ ShowsText(t, l)
    /\ \A r \in t.render_y .. t.render_y + GlyphHeight - 2, x \in Xs :
           1 <= x /\ Len(l.cur) <= x => t.screen[r][x] = SPACE

(* The columns.                                                            *)
LEMMA XsFacts ==
    /\ Cols \in Nat /\ Cols >= 2
    /\ \A x \in Xs : x \in Nat /\ x < Cols
    /\ \A x \in Nat : x < Cols => x \in Xs
  BY ScreenAssumption DEF Xs

(* In terms of the reference: the line begun is done, and a new one        *)
(* begins, with the prompt in its place.                                   *)
LEMMA NextLineReady ==
    ASSUME NEW t \in Terminals, NEW done \in Seq(Seq(Glyphs)), NEW cur \in Seq(Glyphs),
           t.render_y = Top(Kept(Len(done))), LinesShown(t, done),
           t.render_x # 0 => Shows(t, t.render_y, cur),
           t.render_x = 0 => cur = << >>
    PROVE  LET u == _move_to_next_line(t)
           IN  /\ Ready(u, [done |-> Append(done, cur), cur |-> << >>])
               /\ PromptShown(u)
<1> DEFINE u == _move_to_next_line(t)
           all == Append(done, cur)
           l == [done |-> all, cur |-> << >>]
<1>1. /\ u \in Terminals /\ u.render_y = Top(Kept(Len(done) + 1))
      /\ LinesShown(u, all) /\ PromptShown(u)
  BY NextLineIs
<1> HIDE DEF u
<1>2. all \in Seq(Seq(Glyphs)) /\ Len(all) = Len(done) + 1 /\ << >> \in Seq(Glyphs) /\ Len(<< >>) = 0
  OBVIOUS
<1> HIDE DEF all
<1>3. l \in Texts /\ l.done = all /\ l.cur = << >>
  BY <1>2 DEF Texts
<1>4. u.render_x = 0 /\ Shows(u, u.render_y, Prompt)
  BY <1>1 DEF PromptShown
<1>5. ASSUME NEW r \in u.render_y .. u.render_y + GlyphHeight - 2, NEW x \in Xs, 1 <= x
      PROVE  u.screen[r][x] = SPACE
  <2>1. u.screen[r][x] = IF x < Len(Prompt) THEN Prompt[x + 1] ELSE SPACE
    BY <1>4 DEF Shows
  <2>2. Len(Prompt) = 2 /\ Prompt[2] = SPACE /\ x \in Nat
    BY XsFacts DEF Prompt
  <2>3. x < 2 => x + 1 = 2
    BY <1>5, <2>2
  <2> QED
    BY <2>1, <2>2, <2>3
<1> HIDE DEF l
<1>6. Ready(u, l)
  BY <1>1, <1>2, <1>3, <1>4, <1>5, XsFacts DEF Ready, ShowsText
<1> QED
  BY <1>1, <1>6 DEF l, all, u

(* A glyph drawn behind the line `cur`.                                    *)
GlyphDrawn(t, ch) == [_render_glyph(t, ch, t.render_x, t.render_y) EXCEPT !.render_x = @ + 1]

(* It extends the line, and the lines above stay.                          *)
LEMMA GlyphDrawnIs ==
    ASSUME NEW t, NEW l, Ready(t, l), NEW ch \in Glyphs
    PROVE  LET u == GlyphDrawn(t, ch)
           IN  /\ u \in Terminals /\ u.render_x = Len(l.cur) + 1 /\ u.render_y = t.render_y
               /\ SameAbove(u, t, t.render_y) /\ Shows(u, t.render_y, Append(l.cur, ch))
<1> DEFINE c == t.render_x
           y == t.render_y
           g == _render_glyph(t, ch, c, y)
           u == GlyphDrawn(t, ch)
           cur == l.cur
<1>1. /\ t \in Terminals /\ cur \in Seq(Glyphs) /\ Len(cur) \in Nat /\ Len(cur) < Cols /\ c = Len(cur)
      /\ l.done \in Seq(Seq(Glyphs)) /\ y = Top(Kept(Len(l.done)))
  BY DEF Ready, ShowsText, Texts
<1>2. LineRoom(y) /\ c \in Int /\ y \in Int
  BY <1>1, KeptFacts DEF LineRoom
<1>3. /\ g \in Terminals /\ SamePlace(g, t)
      /\ \A r \in Ys, x \in Xs :
             g.screen[r][x] = IF y <= r /\ r < y + GlyphHeight - 1 /\ x = c THEN ch ELSE t.screen[r][x]
  BY <1>1, <1>2, RenderGlyphIs
<1>4. u = OutputTo(g, c + 1, y)
  <2>1. u = [g EXCEPT !.render_x = g.render_x + 1]
    BY DEF GlyphDrawn
  <2> HIDE DEF u, g
  <2>2. g \in Terminals /\ g.render_x = c /\ g.render_y = y
    BY <1>3 DEF SamePlace
  <2>3. [g EXCEPT !.render_x = c + 1] = [g EXCEPT !.render_x = c + 1, !.render_y = g.render_y]
    <3> DEFINE k == c + 1
    <3> HIDE DEF k
    <3> QED
      BY <2>2 DEF Terminals
  <2> QED
    BY <2>1, <2>2, <2>3 DEF OutputTo
<1> HIDE DEF u, g, y, c
<1>5. u \in Terminals /\ u.screen = g.screen /\ u.render_x = Len(cur) + 1 /\ u.render_y = y
  <2>1. c + 1 \in Int /\ c + 1 = Len(cur) + 1
    BY <1>1
  <2> QED
    BY <1>2, <1>3, <1>4, <2>1, OutputMoved
<1>6. SameAbove(u, t, y)
  <2>1. \A r \in Ys : r < y => ~(y <= r)
    BY <1>2, RowsOfLine
  <2> QED
    BY <1>3, <1>5, <2>1 DEF SameAbove
<1>7. ASSUME NEW r \in y .. y + GlyphHeight - 2, NEW x \in Xs
      PROVE  u.screen[r][x] = IF x < Len(Append(cur, ch)) THEN Append(cur, ch)[x + 1] ELSE SPACE
  <2>1. r \in Ys /\ y <= r /\ r < y + GlyphHeight - 1
    BY <1>2, RowsOfLine
  <2>2. u.screen[r][x] = IF x = c THEN ch ELSE t.screen[r][x]
    BY <1>3, <1>5, <2>1
  <2>3. /\ Len(Append(cur, ch)) = Len(cur) + 1 /\ Append(cur, ch)[Len(cur) + 1] = ch
        /\ \A k \in 1 .. Len(cur) : Append(cur, ch)[k] = cur[k]
    BY <1>1
  <2>4. x \in Nat
    BY XsFacts
  <2>5. CASE x = c
    BY <1>1, <2>2, <2>3, <2>5
  <2>6. CASE x < c
    <3>1. Shows(t, y, cur)
      <4>1. Len(cur) # 0
        BY <1>1, <2>4, <2>6
      <4>2. cur # << >>
        BY <4>1
      <4> QED
        BY <4>2 DEF Ready, ShowsText, y
    <3>2. t.screen[r][x] = cur[x + 1]
      BY <1>1, <2>6, <3>1 DEF Shows
    <3>3. x + 1 \in 1 .. Len(cur) /\ x < Len(cur) + 1 /\ x # c
      BY <1>1, <2>4, <2>6
    <3> QED
      BY <2>2, <2>3, <3>2, <3>3
  <2>7. CASE x > c
    <3>1. 1 <= x /\ Len(cur) <= x /\ ~(x < Len(cur) + 1) /\ x # c
      BY <1>1, <2>4, <2>7
    <3>2. t.screen[r][x] = SPACE
      BY <3>1 DEF Ready, y
    <3> QED
      BY <2>2, <2>3, <3>1, <3>2
  <2>8. x = c \/ x < c \/ x > c
    BY <1>2, <2>4
  <2> QED
    BY <2>5, <2>6, <2>7, <2>8
<1>8. Shows(u, y, Append(cur, ch))
  BY <1>7 DEF Shows
<1> QED
  BY <1>5, <1>6, <1>8 DEF u, y

(* One character: the terminal and the reference stay in step, and after a *)
(* newline the prompt is there.                                            *)
LEMMA PutCharIs ==
    ASSUME NEW t, NEW l, Ready(t, l), NEW ch \in Glyphs
    PROVE  /\ Ready(PutChar(t, ch), AddChar(l, ch))
           /\ ch = NL => PromptShown(PutChar(t, ch))
<1>1. /\ t \in Terminals /\ l.cur \in Seq(Glyphs) /\ Len(l.cur) \in Nat /\ Len(l.cur) < Cols
      /\ t.render_x = Len(l.cur) /\ l.done \in Seq(Seq(Glyphs)) /\ Len(l.done) \in Nat
      /\ t.render_y = Top(Kept(Len(l.done))) /\ LinesShown(t, l.done)
      /\ l.cur # << >> => Shows(t, t.render_y, l.cur)
      /\ l = [done |-> l.done, cur |-> l.cur]
  BY DEF Ready, ShowsText, Texts
<1>2. CASE ch = NL
  <2>1. PutChar(t, ch) = _move_to_next_line(t)
    BY <1>2 DEF PutChar
  <2>2. AddChar(l, ch) = [done |-> Append(l.done, l.cur), cur |-> << >>]
    BY <1>2 DEF AddChar
  <2>3. t.render_x = 0 => l.cur = << >>
    BY <1>1, EmptySeq
  <2>4. t.render_x # 0 => Shows(t, t.render_y, l.cur)
    BY <1>1
  <2> QED
    BY <1>1, <2>1, <2>2, <2>3, <2>4, NextLineReady
<1>3. CASE ch # NL
  <2> DEFINE u == GlyphDrawn(t, ch)
             cur == Append(l.cur, ch)
  <2>1. /\ u \in Terminals /\ u.render_x = Len(l.cur) + 1 /\ u.render_y = t.render_y
        /\ SameAbove(u, t, t.render_y) /\ Shows(u, t.render_y, cur)
    BY GlyphDrawnIs
  <2>2. cur \in Seq(Glyphs) /\ Len(cur) = Len(l.cur) + 1 /\ cur # << >>
    BY <1>1, AppendProperties
  <2>3. PutChar(t, ch) = IF u.render_x = Cols THEN _move_to_next_line(u) ELSE u
    BY <1>3 DEF PutChar, GlyphDrawn
  <2>4. AddChar(l, ch) = IF Len(cur) = Cols THEN [done |-> Append(l.done, cur), cur |-> << >>]
                         ELSE [l EXCEPT !.cur = cur]
    BY <1>3 DEF AddChar
  <2> HIDE DEF u, cur
  <2>5. LinesShown(u, l.done)
    BY <1>1, <2>1, LinesStay
  <2>6. CASE Len(cur) = Cols
    <3>1. u.render_x = Cols /\ u.render_x # 0
      BY <1>1, <2>1, <2>2, <2>6, XsFacts
    <3>2. Ready(_move_to_next_line(u), [done |-> Append(l.done, cur), cur |-> << >>])
      BY <1>1, <2>1, <2>2, <2>5, <3>1, NextLineReady
    <3> QED
      BY <1>3, <2>3, <2>4, <2>6, <3>1, <3>2
  <2>7. CASE Len(cur) # Cols
    <3> DEFINE k == [l EXCEPT !.cur = cur]
    <3>1. PutChar(t, ch) = u /\ AddChar(l, ch) = k
      BY <2>1, <2>2, <2>3, <2>4, <2>7
    <3>2. l \in Texts
      BY DEF Ready, ShowsText
    <3>3. k \in Texts /\ k.done = l.done /\ k.cur = cur
      BY <2>2, <3>2 DEF Texts
    <3> HIDE DEF k
    <3>4. Len(cur) < Cols
      BY <1>1, <2>2, <2>7, XsFacts
    <3>5. ShowsText(u, k)
      BY <1>1, <2>1, <2>2, <2>5, <3>3, <3>4 DEF ShowsText
    <3>6. ASSUME NEW r \in u.render_y .. u.render_y + GlyphHeight - 2, NEW x \in Xs, Len(cur) <= x
          PROVE  u.screen[r][x] = SPACE
      <4>1. ~(x < Len(cur))
        BY <1>1, <2>2, <3>6, XsFacts
      <4> QED
        BY <2>1, <4>1 DEF Shows
    <3>7. Ready(u, k)
      BY <3>3, <3>5, <3>6 DEF Ready
    <3> QED
      BY <1>3, <3>1, <3>7
  <2> QED
    BY <2>6, <2>7
<1> QED
  BY <1>2, <1>3

(* PutChar takes a terminal to a terminal.                                 *)
LEMMA PutCharType ==
    ASSUME NEW t \in Terminals, NEW ch \in Glyphs
    PROVE  PutChar(t, ch) \in Terminals
<1>0. GlyphHeight \in Nat
  BY ScreenAssumption
<1>1. ASSUME NEW u \in Terminals
      PROVE  u.render_x \in Int /\ u.render_y \in Int /\ u.render_y + GlyphHeight \in Int
  BY <1>0 DEF Terminals
<1>2. ASSUME NEW u \in Terminals PROVE _move_to_next_line(u) \in Terminals
  <2>1. Cleared(u) \in Terminals
    BY <1>1, BlankRowsIs DEF Cleared
  <2>2. ASSUME NEW v \in Terminals PROVE Below(v) \in Terminals
    <3>1. Below(v) = OutputTo(v, 0, v.render_y + GlyphHeight)
      BY DEF Below, OutputTo
    <3> QED
      BY <1>1, <3>1, OutputMoved
  <2>3. ASSUME NEW v \in Terminals PROVE Fitted(v) \in Terminals
    <3> DEFINE w == _shift_screen_up(v)
    <3>1. w \in Terminals
      BY ShiftIs
    <3> HIDE DEF w
    <3>2. w.render_y - GlyphHeight \in Int
      BY <1>0, <1>1, <3>1
    <3>3. RowTo(w, w.render_y - GlyphHeight) \in Terminals
      BY <3>1, <3>2, RowMoved
    <3>4. Fitted(v) = IF AtBottom(v.render_y) THEN RowTo(w, w.render_y - GlyphHeight) ELSE v
      BY DEF Fitted, RowTo, w
    <3> QED
      BY <3>3, <3>4
  <2>4. ASSUME NEW v \in Terminals PROVE InputBelow(v) \in Terminals
    <3> DEFINE b == BlankRows(v, v.render_y, v.render_y + GlyphHeight)
    <3>1. b \in Terminals
      BY <1>1, BlankRowsIs
    <3> HIDE DEF b
    <3>2. _render_input_line(b) \in Terminals
      BY <3>1, RenderInputLineIs
    <3> QED
      BY <3>2 DEF InputBelow, b
  <2> QED
    BY <2>1, <2>2, <2>3, <2>4, NextLineParts
<1>3. GlyphDrawn(t, ch) \in Terminals
  <2> DEFINE g == _render_glyph(t, ch, t.render_x, t.render_y)
  <2>1. g \in Terminals
    BY <1>1, RenderGlyphIs
  <2> HIDE DEF g
  <2>2. g.render_x + 1 \in Int
    BY <1>1, <2>1
  <2>3. \A k \in Int : [g EXCEPT !.render_x = k] \in Terminals
    BY <2>1 DEF Terminals
  <2> QED
    BY <2>2, <2>3 DEF GlyphDrawn, g
<1>4. \/ PutChar(t, ch) = _move_to_next_line(t)
      \/ PutChar(t, ch) = _move_to_next_line(GlyphDrawn(t, ch))
      \/ PutChar(t, ch) = GlyphDrawn(t, ch)
  BY DEF PutChar, GlyphDrawn
<1> QED
  BY <1>2, <1>3, <1>4

(* AddChar takes a text to a text.                                         *)
LEMMA AddCharType ==
    ASSUME NEW l \in Texts, NEW ch \in Glyphs
    PROVE  AddChar(l, ch) \in Texts
<1>1. l.done \in Seq(Seq(Glyphs)) /\ l.cur \in Seq(Glyphs)
  BY DEF Texts
<1> DEFINE cur == IF ch = NL THEN l.cur ELSE Append(l.cur, ch)
<1>2. cur \in Seq(Glyphs) /\ << >> \in Seq(Glyphs)
  BY <1>1, AppendProperties, EmptySeq
<1>3. AddChar(l, ch) = IF ch = NL \/ Len(cur) = Cols
                         THEN [done |-> Append(l.done, cur), cur |-> << >>] ELSE [l EXCEPT !.cur = cur]
  BY DEF AddChar
<1> HIDE DEF cur
<1>4. Append(l.done, cur) \in Seq(Seq(Glyphs))
  BY <1>1, <1>2, AppendProperties
<1>5. [l EXCEPT !.cur = cur] \in Texts
  BY <1>2 DEF Texts
<1>6. [done |-> Append(l.done, cur), cur |-> << >>] \in Texts
  BY <1>2, <1>4 DEF Texts
<1> QED
  BY <1>3, <1>5, <1>6

(* Drawing a text, and collecting its lines, is a run over its characters. *)
DrawStep(str) == [i \in 1 .. Len(str) |-> [t \in Terminals |-> PutChar(t, str[i])]]
LineStep(str) == [i \in 1 .. Len(str) |-> [l \in Texts |-> AddChar(l, str[i])]]
LinesOf(l, str) == FoldLeft(AddChar, l, str)

(* tprintf's loop.                                                         *)
LEMMA DrawRuns ==
    ASSUME NEW t \in Terminals, NEW str \in Seq(Glyphs)
    PROVE  \E h : /\ Run(h, Len(str), t, DrawStep(str), Terminals)
                  /\ h[Len(str)] = FoldLeft(PutChar, t, str)
<1> DEFINE n == Len(str)
           P == SUBSET (1 .. n)
           Body(f) == [s \in P |-> IF s = {} THEN t ELSE PutChar(f[s \ {Max(s)}], str[Max(s)])]
           iter == CHOOSE f : f = Body(f)
           step == DrawStep(str)
<1>1. n \in Nat /\ DOMAIN str = 1 .. n /\ \A i \in 1 .. n : str[i] \in Glyphs
  BY LenProperties, ElementOfSeq
<1>2. FoldLeft(PutChar, t, str) = iter[1 .. n]
  BY <1>1 DEF FoldLeft, MapThenFoldSet
<1>3. step \in [1 .. n -> [Terminals -> Terminals]]
  BY <1>1, PutCharType DEF DrawStep
<1>4. \A i \in 1 .. n, v \in Terminals : step[i][v] = PutChar(v, str[i])
  BY DEF DrawStep
<1> HIDE DEF step, n
<1>5. PICK g \in [P -> Terminals] : Folds(g, n, t, step)
  BY <1>1, <1>3, FoldExists
<1>6. \A s \in P : s # {} => Max(s) \in 1 .. n /\ s \ {Max(s)} \in P
  BY <1>1, MaxIs
<1>7. g = Body(g)
  <2>1. \A s \in P : g[s] = IF s = {} THEN t ELSE PutChar(g[s \ {Max(s)}], str[Max(s)])
    BY <1>4, <1>5, <1>6 DEF Folds
  <2> QED
    BY <2>1
<1>8. iter = Body(iter)
  BY <1>7
<1> HIDE DEF iter
<1>9. \A s \in P : iter[s] = IF s = {} THEN t ELSE PutChar(iter[s \ {Max(s)}], str[Max(s)])
  BY <1>8
<1>10. FoldsIn(iter, n, t, step, Terminals)
  <2>1. iter[{}] = t
    <3>1. {} \in P
      OBVIOUS
    <3> QED
      BY <1>9, <3>1
  <2>2. ASSUME NEW s \in P, s # {}, iter[s \ {Max(s)}] \in Terminals
        PROVE  iter[s] = step[Max(s)][iter[s \ {Max(s)}]]
    <3>1. iter[s] = PutChar(iter[s \ {Max(s)}], str[Max(s)])
      BY <1>9, <2>2
    <3> QED
      BY <1>4, <1>6, <2>2, <3>1
  <2> QED
    BY <2>1, <2>2 DEF FoldsIn
<1>11. StepsIn(step, n, Terminals)
  BY <1>3 DEF StepsIn
<1>12. RunEnds(iter, n, t, step, Terminals)
  BY <1>1, <1>10, <1>11, FoldRuns
<1> QED
  BY <1>2, <1>12 DEF RunEnds, n, step

(* The reference.                                                          *)
LEMMA LineRuns ==
    ASSUME NEW l \in Texts, NEW str \in Seq(Glyphs)
    PROVE  \E h : /\ Run(h, Len(str), l, LineStep(str), Texts)
                  /\ h[Len(str)] = LinesOf(l, str)
<1> DEFINE n == Len(str)
           P == SUBSET (1 .. n)
           Body(f) == [s \in P |-> IF s = {} THEN l ELSE AddChar(f[s \ {Max(s)}], str[Max(s)])]
           iter == CHOOSE f : f = Body(f)
           step == LineStep(str)
<1>1. n \in Nat /\ DOMAIN str = 1 .. n /\ \A i \in 1 .. n : str[i] \in Glyphs
  BY LenProperties, ElementOfSeq
<1>2. LinesOf(l, str) = iter[1 .. n]
  BY <1>1 DEF LinesOf, FoldLeft, MapThenFoldSet
<1>3. step \in [1 .. n -> [Texts -> Texts]]
  BY <1>1, AddCharType DEF LineStep
<1>4. \A i \in 1 .. n, v \in Texts : step[i][v] = AddChar(v, str[i])
  BY DEF LineStep
<1> HIDE DEF step, n
<1>5. PICK g \in [P -> Texts] : Folds(g, n, l, step)
  BY <1>1, <1>3, FoldExists
<1>6. \A s \in P : s # {} => Max(s) \in 1 .. n /\ s \ {Max(s)} \in P
  BY <1>1, MaxIs
<1>7. g = Body(g)
  <2>1. \A s \in P : g[s] = IF s = {} THEN l ELSE AddChar(g[s \ {Max(s)}], str[Max(s)])
    BY <1>4, <1>5, <1>6 DEF Folds
  <2> QED
    BY <2>1
<1>8. iter = Body(iter)
  BY <1>7
<1> HIDE DEF iter
<1>9. \A s \in P : iter[s] = IF s = {} THEN l ELSE AddChar(iter[s \ {Max(s)}], str[Max(s)])
  BY <1>8
<1>10. FoldsIn(iter, n, l, step, Texts)
  <2>1. iter[{}] = l
    <3>1. {} \in P
      OBVIOUS
    <3> QED
      BY <1>9, <3>1
  <2>2. ASSUME NEW s \in P, s # {}, iter[s \ {Max(s)}] \in Texts
        PROVE  iter[s] = step[Max(s)][iter[s \ {Max(s)}]]
    <3>1. iter[s] = AddChar(iter[s \ {Max(s)}], str[Max(s)])
      BY <1>9, <2>2
    <3> QED
      BY <1>4, <1>6, <2>2, <3>1
  <2> QED
    BY <2>1, <2>2 DEF FoldsIn
<1>11. StepsIn(step, n, Texts)
  BY <1>3 DEF StepsIn
<1>12. RunEnds(iter, n, l, step, Texts)
  BY <1>1, <1>10, <1>11, FoldRuns
<1> QED
  BY <1>2, <1>12 DEF RunEnds, n, step


(* A step of tprintf's loop draws one character.                           *)
LEMMA DrawStepIs ==
    ASSUME NEW t, NEW str \in Seq(Glyphs), NEW h, Run(h, Len(str), t, DrawStep(str), Terminals)
    PROVE  \A k \in 1 .. Len(str) : str[k] \in Glyphs /\ h[k] = PutChar(h[k - 1], str[k])
<1> SUFFICES ASSUME NEW k \in 1 .. Len(str)
             PROVE  str[k] \in Glyphs /\ h[k] = PutChar(h[k - 1], str[k])
  OBVIOUS
<1>1. str[k] \in Glyphs
  BY ElementOfSeq
<1>2. k - 1 \in 0 .. Len(str)
  BY LenProperties
<1>3. h[k - 1] \in Terminals /\ h[k] = DrawStep(str)[k][h[k - 1]]
  BY <1>2 DEF Run
<1> QED
  BY <1>1, <1>3 DEF DrawStep

(* A step of the reference adds one character.                             *)
LEMMA LineStepIs ==
    ASSUME NEW l, NEW str \in Seq(Glyphs), NEW h, Run(h, Len(str), l, LineStep(str), Texts)
    PROVE  \A k \in 1 .. Len(str) : str[k] \in Glyphs /\ h[k] = AddChar(h[k - 1], str[k])
<1> SUFFICES ASSUME NEW k \in 1 .. Len(str)
             PROVE  str[k] \in Glyphs /\ h[k] = AddChar(h[k - 1], str[k])
  OBVIOUS
<1>1. str[k] \in Glyphs
  BY ElementOfSeq
<1>2. k - 1 \in 0 .. Len(str)
  BY LenProperties
<1>3. h[k - 1] \in Texts /\ h[k] = LineStep(str)[k][h[k - 1]]
  BY <1>2 DEF Run
<1> QED
  BY <1>1, <1>3 DEF LineStep

(* tprintf begins with a blank line, unless it continues one.              *)
LEMMA ClearedReady ==
    ASSUME NEW t, NEW l, ShowsText(t, l)
    PROVE  Ready(Cleared(t), l)
<1> DEFINE u == Cleared(t)
           y == t.render_y
<1>1. /\ t \in Terminals /\ l \in Texts /\ l.cur \in Seq(Glyphs) /\ Len(l.cur) \in Nat
      /\ t.render_x = Len(l.cur) /\ Len(l.done) \in Nat
      /\ y = Top(Kept(Len(l.done))) /\ LinesShown(t, l.done)
  BY DEF ShowsText, Texts
<1>2. LineRoom(y)
  BY <1>1, KeptFacts
<1>3. /\ u \in Terminals /\ SamePlace(u, t) /\ SameAbove(u, t, y)
      /\ t.render_x = 0 => Shows(u, y, << >>)
      /\ t.render_x # 0 => u = t
  BY <1>1, <1>2, ClearedIs
<1> HIDE DEF u
<1>4. u.render_x = t.render_x /\ u.render_y = y
  BY <1>3 DEF SamePlace
<1>5. LinesShown(u, l.done)
  BY <1>1, <1>3, LinesStay
<1>6. Shows(u, y, l.cur)
  <2>1. CASE t.render_x = 0
    <3>1. l.cur = << >>
      BY <1>1, <2>1, EmptySeq
    <3> QED
      BY <1>3, <2>1, <3>1
  <2>2. CASE t.render_x # 0
    <3>1. l.cur # << >>
      BY <1>1, <2>2, EmptySeq
    <3> QED
      BY <1>3, <2>2, <3>1 DEF ShowsText
  <2> QED
    BY <2>1, <2>2
<1>7. ShowsText(u, l)
  BY <1>1, <1>3, <1>4, <1>5, <1>6 DEF ShowsText
<1>8. ASSUME NEW r \in y .. y + GlyphHeight - 2, NEW x \in Xs, Len(l.cur) <= x
      PROVE  u.screen[r][x] = SPACE
  <2>1. ~(x < Len(l.cur))
    BY <1>1, <1>8, XsFacts
  <2> QED
    BY <1>6, <2>1 DEF Shows
<1> QED
  BY <1>4, <1>7, <1>8 DEF Ready, u

(* After tprintf the screen shows its text behind what it showed before,   *)
(* and, if the text ended in a newline, the input line below.              *)
LEMMA TprintfIs ==
    ASSUME NEW t, NEW l, ShowsText(t, l), NEW str \in Seq(Glyphs)
    PROVE  /\ Ready(tprintf(t, str), LinesOf(l, str))
           /\ str # << >> /\ Last(str) = NL => PromptShown(tprintf(t, str))
<1> DEFINE n == Len(str)
           u == Cleared(t)
<1>1. Ready(u, l)
  BY ClearedReady
<1>2. u \in Terminals /\ l \in Texts /\ n \in Nat
  BY <1>1, LenProperties DEF Ready, ShowsText
<1>3. tprintf(t, str) = FoldLeft(PutChar, u, str)
  BY DEF tprintf, Cleared
<1> HIDE DEF u
<1>4. PICK h : Run(h, n, u, DrawStep(str), Terminals) /\ h[n] = FoldLeft(PutChar, u, str)
  BY <1>2, DrawRuns
<1>5. PICK j : Run(j, n, l, LineStep(str), Texts) /\ j[n] = LinesOf(l, str)
  BY <1>2, LineRuns
<1>6. \A k \in 1 .. n : /\ str[k] \in Glyphs
                        /\ h[k] = PutChar(h[k - 1], str[k]) /\ j[k] = AddChar(j[k - 1], str[k])
  <2>1. \A k \in 1 .. n : str[k] \in Glyphs /\ h[k] = PutChar(h[k - 1], str[k])
    BY <1>4, DrawStepIs
  <2>2. \A k \in 1 .. n : j[k] = AddChar(j[k - 1], str[k])
    BY <1>5, LineStepIs
  <2> QED
    BY <2>1, <2>2
<1> HIDE DEF n
<1> DEFINE T == {k \in Nat : k <= n => Ready(h[k], j[k])}
<1>7. 0 \in T
  BY <1>1, <1>4, <1>5 DEF Run
<1>8. ASSUME NEW k \in Nat, k \in T PROVE k + 1 \in T
  <2> SUFFICES ASSUME k + 1 <= n PROVE Ready(h[k + 1], j[k + 1])
    OBVIOUS
  <2>1. Ready(h[k], j[k]) /\ k + 1 \in 1 .. n /\ (k + 1) - 1 = k
    BY <1>2, <1>8
  <2> QED
    BY <1>6, <2>1, PutCharIs
<1>9. \A k \in Nat : k \in T
  <2> HIDE DEF T
  <2> QED
    BY <1>7, <1>8, SetInduction
<1>10. \A k \in 0 .. n : Ready(h[k], j[k])
  BY <1>2, <1>9
<1>11. ASSUME str # << >>, Last(str) = NL PROVE PromptShown(h[n])
  <2>1. n \in 1 .. n /\ n - 1 \in 0 .. n
    BY <1>2, <1>11, EmptySeq DEF n
  <2>2. str[n] = NL
    BY <1>11 DEF Last, n
  <2> QED
    BY <1>6, <1>10, <2>1, <2>2, PutCharIs
<1>12. n \in 0 .. n
  BY <1>2
<1> QED
  BY <1>3, <1>4, <1>5, <1>10, <1>11, <1>12

(* Collecting lines takes a text to a text.                                *)
LEMMA LinesOfType ==
    ASSUME NEW l \in Texts, NEW str \in Seq(Glyphs)
    PROVE  LinesOf(l, str) \in Texts
<1>1. PICK h : Run(h, Len(str), l, LineStep(str), Texts) /\ h[Len(str)] = LinesOf(l, str)
  BY LineRuns
<1>2. Len(str) \in 0 .. Len(str)
  BY LenProperties
<1> QED
  BY <1>1, <1>2 DEF Run

(* Lines are collected one text after the other.                           *)
LEMMA LinesConcat ==
    ASSUME NEW l \in Texts, NEW s \in Seq(Glyphs), NEW u \in Seq(Glyphs)
    PROVE  LinesOf(l, s \o u) = LinesOf(LinesOf(l, s), u)
<1> DEFINE n == Len(s)
           m == Len(u)
           su == s \o u
<1>1. /\ n \in Nat /\ m \in Nat /\ su \in Seq(Glyphs) /\ Len(su) = n + m
      /\ \A k \in 1 .. n : su[k] = s[k]
      /\ \A k \in 1 .. m : su[n + k] = u[k]
  <2>1. n \in Nat /\ m \in Nat /\ su \in Seq(Glyphs) /\ Len(su) = n + m
    BY LenProperties, ConcatProperties
  <2>2. \A k \in 1 .. Len(s) + Len(u) : su[k] = IF k <= Len(s) THEN s[k] ELSE u[k - Len(s)]
    BY ConcatProperties
  <2> HIDE DEF su
  <2>3. ASSUME NEW k \in 1 .. m PROVE su[n + k] = u[k]
    <3>1. n + k \in 1 .. Len(s) + Len(u) /\ ~(n + k <= Len(s)) /\ (n + k) - Len(s) = k
      BY <2>1
    <3> QED
      BY <2>2, <3>1
  <2>4. ASSUME NEW k \in 1 .. n PROVE su[k] = s[k]
    <3>1. k \in 1 .. Len(s) + Len(u) /\ k <= Len(s)
      BY <2>1
    <3> QED
      BY <2>2, <3>1
  <2> QED
    BY <2>1, <2>3, <2>4
<1> HIDE DEF su
<1>2. PICK h : Run(h, Len(su), l, LineStep(su), Texts) /\ h[Len(su)] = LinesOf(l, su)
  BY <1>1, LineRuns
<1>3. PICK j : Run(j, n, l, LineStep(s), Texts) /\ j[n] = LinesOf(l, s)
  BY LineRuns
<1>4. LinesOf(l, s) \in Texts
  BY LinesOfType
<1>5. PICK i : Run(i, m, LinesOf(l, s), LineStep(u), Texts) /\ i[m] = LinesOf(LinesOf(l, s), u)
  BY <1>4, LineRuns
<1>6. \A k \in 1 .. n + m : h[k] = AddChar(h[k - 1], su[k])
  <2>0. su \in Seq(Glyphs)
    BY <1>1
  <2>1. \A k \in 1 .. Len(su) : h[k] = AddChar(h[k - 1], su[k])
    BY <1>2, <2>0, LineStepIs
  <2> HIDE DEF n, m
  <2> QED
    BY <1>1, <2>1
<1>7. \A k \in 1 .. n : j[k] = AddChar(j[k - 1], s[k])
  BY <1>3, LineStepIs
<1>8. \A k \in 1 .. m : i[k] = AddChar(i[k - 1], u[k])
  BY <1>5, LineStepIs
<1>9. h[0] = l /\ j[0] = l /\ i[0] = j[n]
  BY <1>2, <1>3, <1>5 DEF Run
<1> HIDE DEF n, m
<1> DEFINE T == {k \in Nat : k <= n => h[k] = j[k]}
<1>10. h[n] = j[n]
  <2>1. 0 \in T
    BY <1>9
  <2>2. ASSUME NEW k \in Nat, k \in T PROVE k + 1 \in T
    <3> SUFFICES ASSUME k + 1 <= n PROVE h[k + 1] = j[k + 1]
      OBVIOUS
    <3>1. h[k] = j[k] /\ k + 1 \in 1 .. n /\ k + 1 \in 1 .. n + m /\ (k + 1) - 1 = k
      BY <1>1, <2>2
    <3> QED
      BY <1>1, <1>6, <1>7, <3>1
  <2>3. n \in T
    <3> HIDE DEF T
    <3> QED
      BY <1>1, <2>1, <2>2, SetInduction
  <2> QED
    BY <2>3
<1> DEFINE S == {k \in Nat : k <= m => h[n + k] = i[k]}
<1>11. h[n + m] = i[m]
  <2>1. 0 \in S
    <3>1. n + 0 = n
      BY <1>1
    <3> QED
      BY <1>9, <1>10, <3>1
  <2>2. ASSUME NEW k \in Nat, k \in S PROVE k + 1 \in S
    <3> SUFFICES ASSUME k + 1 <= m PROVE h[n + (k + 1)] = i[k + 1]
      OBVIOUS
    <3>1. /\ h[n + k] = i[k] /\ k + 1 \in 1 .. m /\ (k + 1) - 1 = k
          /\ n + (k + 1) \in 1 .. n + m /\ (n + (k + 1)) - 1 = n + k
      BY <1>1, <2>2
    <3>2. h[n + (k + 1)] = AddChar(h[n + k], su[n + (k + 1)])
      BY <1>6, <3>1
    <3>3. i[k + 1] = AddChar(i[k], u[k + 1])
      BY <1>8, <3>1
    <3> QED
      BY <1>1, <3>1, <3>2, <3>3
  <2>3. m \in S
    <3> HIDE DEF S
    <3> QED
      BY <1>1, <2>1, <2>2, SetInduction
  <2> QED
    BY <2>3
<1> QED
  BY <1>1, <1>2, <1>5, <1>11 DEF su

-----------------------------------------------------------------------------
(* What is printed.                                                        *)

(* Messages, and what tprintf may find behind an empty string, are texts   *)
(* of glyphs.                                                              *)
LEMMA MessageIs ==
    ASSUME NEW text \in Messages \union Leftovers
    PROVE  text \in Seq(Glyphs)
<1>1. text \in Seq(Range(text))
  BY TextAssumption
<1>2. Range(text) \subseteq Glyphs
  BY DEF Glyphs
<1> QED
  BY <1>1, <1>2, SeqMonotonic

(* Chosen is the number of a command, or 0.                                *)
LEMMA ChosenIs ==
    ASSUME NEW str
    PROVE  Chosen(str) \in 0 .. 4
<1> DEFINE cmds == <<Hello, Cls, Time, Stime>>
           I == {i \in 1 .. Len(cmds) : strcmp(str, cmds[i])}
<1>1. Chosen(str) = IF I # {} THEN Min(I) ELSE 0
  BY DEF Chosen, SelectInSeq
<1>2. Len(cmds) = 4
  OBVIOUS
<1>3. I \in SUBSET (1 .. 4)
  BY <1>2
<1> HIDE DEF I
<1>4. CASE I = {}
  BY <1>1, <1>4
<1>5. CASE I # {}
  <2>1. I \in SUBSET Nat
    BY <1>3
  <2>2. \E x \in I : \A y \in I : x <= y
    BY <1>5, <2>1, LeastNat
  <2>3. Min(I) \in I
    BY <2>2 DEF Min
  <2>4. Min(I) \in 1 .. 4 /\ Chosen(str) = Min(I)
    BY <1>1, <1>3, <1>5, <2>3, Zenon
  <2>5. \A m \in 1 .. 4 : m \in 0 .. 4
    OBVIOUS
  <2> QED
    BY <2>4, <2>5
<1> QED
  BY <1>4, <1>5

(* A command's output is text, and unless it is cls ends in a newline.     *)
LEMMA OutputIs ==
    ASSUME NEW str
    PROVE  /\ Output(str) \in Seq(Glyphs)
           /\ Chosen(str) # 2 => Output(str) # << >> /\ Last(Output(str)) = NL
<1> DEFINE o == Output(str)
<1>0. {SPACE, "World!", "Kerner", "Time:", "ms", "s", "Unknown", "command.", NL} \subseteq Glyphs
  BY DEF Glyphs
<1>1. CASE Chosen(str) = 1
  <2>1. o = <<"World!", NL>>
    BY <1>1 DEF Output
  <2> QED
    BY <1>0, <2>1 DEF Last
<1>2. CASE Chosen(str) = 2
  <2>1. o = << >>
    BY <1>2 DEF Output
  <2> QED
    BY <1>2, <2>1, EmptySeq
<1>3. CASE Chosen(str) = 3
  <2>1. o = <<"Kerner", SPACE, "Time:", SPACE, "ms", NL>>
    BY <1>3 DEF Output
  <2> QED
    BY <1>0, <2>1 DEF Last
<1>4. CASE Chosen(str) = 4
  <2>1. o = <<"Kerner", SPACE, "Time:", SPACE, "s", NL>>
    BY <1>4 DEF Output
  <2> QED
    BY <1>0, <2>1 DEF Last
<1>5. CASE Chosen(str) = 0
  <2>1. o = <<"Unknown", SPACE, "command.", NL>>
    BY <1>5 DEF Output
  <2> QED
    BY <1>0, <2>1 DEF Last
<1>6. Chosen(str) \in 0 .. 4
  BY ChosenIs
<1>7. Chosen(str) = 0 \/ Chosen(str) = 1 \/ Chosen(str) = 2 \/ Chosen(str) = 3 \/ Chosen(str) = 4
  BY <1>6
<1> QED
  BY <1>1, <1>2, <1>3, <1>4, <1>5, <1>7

(* So is the echo of the input line, with what lies behind an empty one.   *)
LEMMA DrawnIs ==
    ASSUME NEW str \in Seq(Keys), NEW left \in Leftovers
    PROVE  Drawn(str, left) \in Seq(Glyphs)
<1>1. left \in Seq(Glyphs)
  BY MessageIs
<1>2. <<NUL>> \in Seq(Glyphs)
  BY DEF Glyphs
<1>3. str \in Seq(Glyphs)
  BY SeqMonotonic DEF Glyphs
<1> QED
  BY <1>1, <1>2, <1>3, ConcatProperties DEF Drawn

(* The input line: the prompt and what was typed.                          *)
LEMMA PromptLine ==
    ASSUME NEW str \in Seq(Keys)
    PROVE  LET line == Prompt \o str
           IN  /\ Len(str) \in Nat /\ Len(line) = Len(str) + 2
               /\ line[1] = "#" /\ line[2] = SPACE
               /\ \A k \in 1 .. Len(str) : line[k + 2] = str[k]
<1>1. str \in Seq(Glyphs) /\ Prompt \in Seq(Glyphs) /\ Len(Prompt) = 2 /\ Len(str) \in Nat
  BY SeqMonotonic DEF Glyphs, Prompt
<1>2. /\ Len(Prompt \o str) = Len(Prompt) + Len(str)
      /\ \A i \in 1 .. Len(Prompt) + Len(str) :
             (Prompt \o str)[i] = IF i <= Len(Prompt) THEN Prompt[i] ELSE str[i - Len(Prompt)]
  BY <1>1, ConcatProperties
<1>3. Prompt[1] = "#" /\ Prompt[2] = SPACE
  BY DEF Prompt
<1> DEFINE line == Prompt \o str
<1> HIDE DEF line
<1>4. /\ Len(line) = Len(str) + 2
      /\ \A i \in 1 .. Len(str) + 2 : line[i] = IF i <= 2 THEN Prompt[i] ELSE str[i - 2]
  BY <1>1, <1>2 DEF line
<1>5. line[1] = "#" /\ line[2] = SPACE
  <2>1. 1 \in 1 .. Len(str) + 2 /\ 2 \in 1 .. Len(str) + 2
    BY <1>1
  <2> QED
    BY <1>3, <1>4, <2>1
<1>6. ASSUME NEW k \in 1 .. Len(str) PROVE line[k + 2] = str[k]
  <2>1. k + 2 \in 1 .. Len(str) + 2 /\ ~(k + 2 <= 2) /\ (k + 2) - 2 = k
    BY <1>1
  <2> QED
    BY <1>4, <2>1
<1> QED
  BY <1>1, <1>4, <1>5, <1>6 DEF line

(* Of all lines the log keeps those that are on the screen.                *)
Newest(all) == SubSeq(all, IF Len(all) > Visible THEN Len(all) - Visible + 1 ELSE 1, Len(all))

(* Forgetting the lines that scrolled away does not change what is shown.  *)
LEMMA NewestShown ==
    ASSUME NEW t, NEW all, ShowsText(t, [done |-> all, cur |-> << >>])
    PROVE  /\ Newest(all) \in Seq(Seq(Glyphs)) /\ Len(Newest(all)) <= Visible
           /\ ShowsText(t, [done |-> Newest(all), cur |-> << >>])
<1> DEFINE l == [done |-> all, cur |-> << >>]
           m == Kept(Len(all))
           new == Newest(all)
           k == [done |-> new, cur |-> << >>]
<1>1. /\ t \in Terminals /\ all \in Seq(Seq(Glyphs)) /\ Len(all) \in Nat
      /\ t.render_x = 0 /\ t.render_y = Top(m) /\ LinesShown(t, all)
  <2>1. l.done = all /\ l.cur = << >> /\ Len(<< >>) = 0
    OBVIOUS
  <2>2. ShowsText(t, l)
    OBVIOUS
  <2> HIDE DEF l
  <2>3. l \in Texts
    BY <2>2 DEF ShowsText
  <2>4. all \in Seq(Seq(Glyphs))
    BY <2>1, <2>3 DEF Texts
  <2> QED
    BY <2>1, <2>2, <2>4, LenProperties DEF ShowsText
<1>2. Visible \in Nat /\ m \in Nat /\ m <= Len(all) /\ m <= Visible
  BY <1>1, KeptFacts, TopFacts
<1>3. m = IF Len(all) > Visible THEN Visible ELSE Len(all)
  BY DEF Kept
<1> HIDE DEF m
<1>4. new = SubSeq(all, Len(all) - m + 1, Len(all))
  <2>1. (IF Len(all) > Visible THEN Len(all) - Visible + 1 ELSE 1) = Len(all) - m + 1
    BY <1>1, <1>2, <1>3
  <2> QED
    BY <2>1 DEF Newest
<1>5. /\ new \in Seq(Seq(Glyphs)) /\ Len(new) = m
      /\ \A i \in 1 .. m : new[i] = all[Len(all) - m + i]
  <2> DEFINE a == Len(all) - m + 1
             b == Len(all)
  <2>1. a \in Int /\ b \in Int /\ b - a + 1 = m /\ (a <= b <=> m > 0) /\ a >= 1
    BY <1>1, <1>2
  <2>2. \A i \in a .. b : i \in 1 .. Len(all)
    BY <1>1, <2>1
  <2>3. \A i \in a .. b : all[i] \in Seq(Glyphs)
    BY <1>1, <2>2, ElementOfSeq
  <2>4. new = SubSeq(all, a, b)
    BY <1>4
  <2> HIDE DEF a, b, new
  <2>5. /\ new \in Seq(Seq(Glyphs)) /\ Len(new) = (IF a <= b THEN b - a + 1 ELSE 0)
        /\ \A i \in 1 .. b - a + 1 : new[i] = all[a + i - 1]
    BY <2>1, <2>3, <2>4, SubSeqProperties
  <2>6. Len(new) = m
    BY <1>2, <2>1, <2>5
  <2>7. \A i \in 1 .. m : a + i - 1 = Len(all) - m + i
    BY <1>1, <1>2 DEF a
  <2> QED
    BY <2>1, <2>5, <2>6, <2>7
<1> HIDE DEF new
<1>6. Kept(Len(new)) = m
  BY <1>2, <1>5 DEF Kept
<1>7. LinesShown(t, new)
  <2> SUFFICES ASSUME NEW i \in 1 .. m PROVE Shows(t, Top(i - 1), new[Len(new) - m + i])
    BY <1>6 DEF LinesShown
  <2>1. Len(new) - m + i = i
    BY <1>2, <1>5
  <2>2. Shows(t, Top(i - 1), all[Len(all) - m + i])
    BY <1>1 DEF LinesShown, m
  <2> QED
    BY <1>5, <2>1, <2>2
<1>8. k \in Texts /\ k.done = new /\ k.cur = << >> /\ Len(<< >>) = 0
  BY <1>5, EmptySeq DEF Texts
<1> HIDE DEF k
<1>9. ShowsText(t, k)
  BY <1>1, <1>6, <1>7, <1>8, XsFacts DEF ShowsText
<1> QED
  BY <1>2, <1>5, <1>9 DEF new, k

-----------------------------------------------------------------------------
(* The inductive invariant.                                                *)

(* The input line shows the prompt and what was typed, and the next glyph  *)
(* is drawn behind it.                                                     *)
InputShown(t, str) ==
    /\ t.render_x = 0 /\ t.input_render_y = t.render_y
    /\ t.input_render_x = Len(str) + 2
    /\ Shows(t, t.render_y, Prompt \o str)

(* The lines of the log, none of them open.                                *)
Lines(done) == [done |-> done, cur |-> << >>]

TypeOK ==
    /\ term \in Terminals /\ looping \in BOOLEAN
    /\ input_str \in Seq(Keys) /\ Len(input_str) <= MaxInput
    /\ log \in Seq(Seq(Glyphs)) /\ Len(log) <= Visible

Inv ==
    /\ TypeOK
    /\ ShowsText(term, Lines(log))
    /\ looping => InputShown(term, input_str)
    /\ ~looping => input_str = << >>

(* A log without an open line is a text.                                   *)
LEMMA LinesIs ==
    ASSUME NEW done \in Seq(Seq(Glyphs))
    PROVE  Lines(done) \in Texts /\ Lines(done).done = done /\ Lines(done).cur = << >>
  BY EmptySeq DEF Lines, Texts

(* An empty log is shown at the top of the screen.                         *)
LEMMA EmptyLogShown ==
    ASSUME NEW t \in Terminals, t.render_x = 0, t.render_y = 0
    PROVE  ShowsText(t, Lines(<< >>))
<1> DEFINE l == Lines(<< >>)
<1>1. l \in Texts /\ l.done = << >> /\ l.cur = << >> /\ Len(<< >>) = 0
  BY EmptySeq, LinesIs
<1> HIDE DEF l
<1>2. Kept(0) = 0 /\ Top(0) = 0
  BY TopFacts, ScreenAssumption DEF Kept, Top
<1>3. LinesShown(t, << >>)
  BY <1>1, <1>2 DEF LinesShown
<1> QED
  BY <1>1, <1>2, <1>3, XsFacts DEF ShowsText, l

(* The prompt alone is the input line before anything was typed.           *)
LEMMA PromptInput ==
    ASSUME NEW t, PromptShown(t)
    PROVE  InputShown(t, << >>)
<1>1. Prompt \in Seq(Glyphs)
  BY DEF Prompt, Glyphs
<1>2. Prompt \o << >> = Prompt /\ Len(<< >>) + 2 = 2
  BY <1>1, ConcatEmptySeq
<1> QED
  BY <1>2 DEF PromptShown, InputShown

(* Once a newline has been printed, the log holds what the screen shows.   *)
LEMMA LogIs ==
    ASSUME NEW u, NEW k, Ready(u, k), PromptShown(u)
    PROVE  /\ u \in Terminals
           /\ Newest(k.done) \in Seq(Seq(Glyphs)) /\ Len(Newest(k.done)) <= Visible
           /\ ShowsText(u, Lines(Newest(k.done))) /\ InputShown(u, << >>)
<1>1. /\ u \in Terminals /\ ShowsText(u, k) /\ k \in Texts
      /\ k.cur \in Seq(Glyphs) /\ Len(k.cur) = 0
  BY DEF Ready, ShowsText, Texts, PromptShown
<1>2. k.cur = << >>
  BY <1>1, EmptySeq
<1>3. k = [done |-> k.done, cur |-> << >>]
  BY <1>1, <1>2 DEF Texts
<1> DEFINE all == k.done
<1>4. ShowsText(u, [done |-> all, cur |-> << >>])
  BY <1>1, <1>3
<1> HIDE DEF all
<1>5. /\ Newest(all) \in Seq(Seq(Glyphs)) /\ Len(Newest(all)) <= Visible
      /\ ShowsText(u, [done |-> Newest(all), cur |-> << >>])
  BY <1>4, NewestShown
<1> QED
  BY <1>1, <1>5, PromptInput DEF Lines, all

(* The log's next value, in terms of the reference.                        *)
LEMMA LogWithIs ==
    ASSUME NEW text
    PROVE  LogWith(text) = Newest(LinesOf(Lines(log), text).done)
  BY DEF LogWith, Newest, LinesOf, Lines

(* term_init: the prompt is drawn over whatever the screen shows.          *)
LEMMA InitInv == Init => Inv
<1> SUFFICES ASSUME Init PROVE Inv
  OBVIOUS
<1>1. PICK ch \in {SPACE, "?"} :
          term = _render_input_line(
                     [screen |-> [y \in Ys |-> [x \in Xs |-> ch]], overrun |-> FALSE,
                      render_x |-> 0, render_y |-> 0,
                      input_render_x |-> 0, input_render_y |-> 0])
  BY DEF Init
<1> DEFINE scr == [y \in Ys |-> [x \in Xs |-> ch]]
           t == [screen |-> scr, overrun |-> FALSE, render_x |-> 0, render_y |-> 0,
                 input_render_x |-> 0, input_render_y |-> 0]
<1>2. scr \in Screens
  BY DEF Screens, Glyphs
<1> HIDE DEF scr
<1>3. t \in Terminals /\ t.render_x = 0 /\ t.render_y = 0
  BY <1>2 DEF Terminals
<1>4. term = _render_input_line(t)
  BY <1>1 DEF scr
<1> HIDE DEF t
<1>5. term \in Terminals /\ term.render_x = 0 /\ term.render_y = 0
  <2> DEFINE y == IF t.render_x > 0 THEN t.render_y + GlyphHeight ELSE t.render_y
  <2>1. /\ _render_input_line(t) \in Terminals
        /\ _render_input_line(t).render_x = t.render_x /\ _render_input_line(t).render_y = t.render_y
    BY <1>3, RenderInputLineIs
  <2> QED
    BY <1>3, <1>4, <2>1
<1>6. input_str = << >> /\ looping = FALSE /\ log = << >>
  BY DEF Init
<1>7. TypeOK
  <2>1. << >> \in Seq(Keys) /\ << >> \in Seq(Seq(Glyphs)) /\ Len(<< >>) = 0
    BY EmptySeq
  <2>2. 0 <= MaxInput /\ 0 <= Visible
    BY TopFacts, ScreenAssumption
  <2> QED
    BY <1>5, <1>6, <2>1, <2>2 DEF TypeOK
<1>8. ShowsText(term, Lines(log))
  BY <1>5, <1>6, EmptyLogShown
<1> QED
  BY <1>6, <1>7, <1>8 DEF Inv

(* A boot message.                                                         *)
LEMMA KprintfInv ==
    ASSUME Inv, NEW msg \in Messages, NEW last \in BOOLEAN, kprintf(msg, last)
    PROVE  Inv'
<1> DEFINE k == LinesOf(Lines(log), msg)
           u == tprintf(term, msg)
<1>1. msg \in Seq(Glyphs) /\ msg # << >> /\ Last(msg) = NL
  BY MessageIs, TextAssumption
<1>2. Ready(u, k) /\ PromptShown(u)
  BY <1>1, TprintfIs DEF Inv
<1>3. term' = u /\ looping' = last /\ input_str' = << >> /\ log' = Newest(k.done)
  BY LogWithIs DEF kprintf, Inv
<1> HIDE DEF u, k
<1>4. /\ u \in Terminals
      /\ log' \in Seq(Seq(Glyphs)) /\ Len(log') <= Visible
      /\ ShowsText(u, Lines(log')) /\ InputShown(u, << >>)
  BY <1>2, <1>3, LogIs
<1>5. TypeOK'
  BY <1>3, <1>4, EmptySeq, ScreenAssumption DEF TypeOK
<1> QED
  BY <1>3, <1>4, <1>5 DEF Inv

(* A key: its glyph is drawn behind the input line, which has room for it. *)
LEMMA KeyCharInv ==
    ASSUME Inv, NEW ch \in Keys, KeyChar(ch)
    PROVE  Inv'
<1> DEFINE str == input_str
           c == term.input_render_x
           y == term.render_y
           g == _render_glyph(term, ch, c, y)
           new == Append(str, ch)
<1>1. /\ TypeOK /\ looping /\ InputShown(term, str) /\ ShowsText(term, Lines(log))
      /\ Len(str) < MaxInput /\ looping' = looping /\ log' = log /\ input_str' = new
  BY DEF Inv, KeyChar
<1>2. /\ term \in Terminals /\ str \in Seq(Keys) /\ Len(str) \in Nat /\ log \in Seq(Seq(Glyphs))
      /\ term.render_x = 0 /\ term.input_render_y = y /\ c = Len(str) + 2
      /\ Shows(term, y, Prompt \o str)
  BY <1>1, LenProperties DEF TypeOK, InputShown
<1>3. y = Top(Kept(Len(log))) /\ LinesShown(term, log) /\ Len(log) \in Nat
  BY <1>1, <1>2, LinesIs, LenProperties DEF ShowsText
<1>4. LineRoom(y)
  BY <1>3, KeptFacts
<1>5. ch \in Glyphs /\ c \in Int /\ y \in Int
  BY <1>2, <1>4 DEF Glyphs, LineRoom
<1>6. /\ g \in Terminals /\ SamePlace(g, term)
      /\ \A r \in Ys, x \in Xs :
             g.screen[r][x] = IF y <= r /\ r < y + GlyphHeight - 1 /\ x = c THEN ch ELSE term.screen[r][x]
  BY <1>2, <1>5, RenderGlyphIs
<1>7. term' = [g EXCEPT !.input_render_x = g.input_render_x + 1]
  BY <1>2 DEF KeyChar
<1> HIDE DEF g, y, c
<1>8. g.input_render_x = c /\ g.input_render_y = y /\ g.render_x = 0 /\ g.render_y = y
  BY <1>2, <1>6 DEF SamePlace, c, y
<1>9. term' = InputTo(g, c + 1, y)
  <2> DEFINE d == c + 1
  <2>1. term' = [g EXCEPT !.input_render_x = d]
    BY <1>7, <1>8
  <2> HIDE DEF d
  <2>2. [g EXCEPT !.input_render_x = d] = [g EXCEPT !.input_render_x = d, !.input_render_y = g.input_render_y]
    BY <1>6 DEF Terminals
  <2>3. term' = InputTo(g, d, y)
    BY <1>8, <2>1, <2>2 DEF InputTo
  <2> QED
    BY <2>3 DEF d
<1>10. /\ term' \in Terminals /\ term'.screen = g.screen
       /\ term'.render_x = 0 /\ term'.render_y = y
       /\ term'.input_render_x = c + 1 /\ term'.input_render_y = y
  <2>1. c + 1 \in Int
    BY <1>5
  <2> QED
    BY <1>5, <1>6, <1>8, <1>9, <2>1, InputMoved
<1>11. new \in Seq(Keys) /\ Len(new) = Len(str) + 1 /\ new[Len(str) + 1] = ch
       /\ \A i \in 1 .. Len(str) : new[i] = str[i]
  BY <1>2, AppendProperties
<1>12. TypeOK'
  <2>1. Len(new) <= MaxInput
    BY <1>1, <1>2, <1>11, ScreenAssumption
  <2> QED
    BY <1>1, <1>10, <1>11, <2>1 DEF TypeOK
<1> HIDE DEF new, str
<1>13. ShowsText(term', Lines(log'))
  <2>1. SameAbove(term', term, y)
    <3>1. \A r \in Ys : r < y => ~(y <= r)
      BY <1>4, RowsOfLine
    <3> QED
      BY <1>6, <1>10, <3>1 DEF SameAbove
  <2>2. LinesShown(term', log)
    BY <1>3, <2>1, LinesStay
  <2>3. Lines(log) \in Texts /\ Lines(log).done = log /\ Lines(log).cur = << >> /\ Len(<< >>) = 0
    BY <1>2, LinesIs, EmptySeq
  <2> QED
    BY <1>1, <1>3, <1>10, <2>2, <2>3, XsFacts DEF ShowsText
<1>14. Shows(term', y, Prompt \o new)
  <2> DEFINE old == Prompt \o str
             line == Prompt \o new
  <2>1. /\ Len(old) = Len(str) + 2 /\ old[1] = "#" /\ old[2] = SPACE
        /\ \A i \in 1 .. Len(str) : old[i + 2] = str[i]
    BY <1>2, PromptLine
  <2>2. /\ Len(line) = Len(new) + 2 /\ line[1] = "#" /\ line[2] = SPACE
        /\ \A i \in 1 .. Len(new) : line[i + 2] = new[i]
    BY <1>11, PromptLine
  <2> HIDE DEF old, line
  <2>3. \A i \in 1 .. Len(str) + 2 : line[i] = old[i]
    <3> SUFFICES ASSUME NEW i \in 1 .. Len(str) + 2 PROVE line[i] = old[i]
      OBVIOUS
    <3>1. CASE i = 1
      BY <2>1, <2>2, <3>1
    <3>2. CASE i = 2
      BY <2>1, <2>2, <3>2
    <3>3. CASE i > 2
      <4> DEFINE k == i - 2
      <4>1. k \in 1 .. Len(str) /\ k \in 1 .. Len(new) /\ k + 2 = i
        BY <1>2, <1>11, <3>3
      <4> HIDE DEF k
      <4> QED
        BY <1>11, <2>1, <2>2, <4>1
    <3> QED
      BY <1>2, <3>1, <3>2, <3>3
  <2>4. line[Len(str) + 3] = ch
    <3>1. Len(str) + 1 \in 1 .. Len(new) /\ (Len(str) + 1) + 2 = Len(str) + 3
      BY <1>2, <1>11
    <3> QED
      BY <1>11, <2>2, <3>1
  <2>5. ASSUME NEW r \in y .. y + GlyphHeight - 2, NEW x \in Xs
        PROVE  term'.screen[r][x] = IF x < Len(line) THEN line[x + 1] ELSE SPACE
    <3>1. r \in Ys /\ y <= r /\ r < y + GlyphHeight - 1
      BY <1>4, RowsOfLine
    <3>2. term'.screen[r][x] = IF x = c THEN ch ELSE term.screen[r][x]
      BY <1>6, <1>10, <3>1
    <3>3. term.screen[r][x] = IF x < Len(old) THEN old[x + 1] ELSE SPACE
      BY <1>2 DEF Shows, old
    <3>4. x \in Nat /\ Len(line) = Len(str) + 3
      BY <1>2, <1>11, <2>2, XsFacts
    <3>5. CASE x = c
      <4>1. x + 1 = Len(str) + 3 /\ x < Len(line)
        BY <1>2, <3>4, <3>5
      <4> QED
        BY <2>4, <3>2, <3>5, <4>1
    <3>6. CASE x < c
      <4>1. x + 1 \in 1 .. Len(str) + 2 /\ x < Len(line) /\ x < Len(old) /\ x # c
        BY <1>2, <2>1, <3>4, <3>6
      <4> QED
        BY <2>3, <3>2, <3>3, <4>1
    <3>7. CASE x > c
      <4>1. ~(x < Len(line)) /\ ~(x < Len(old)) /\ x # c
        BY <1>2, <2>1, <3>4, <3>7
      <4> QED
        BY <3>2, <3>3, <4>1
    <3> QED
      BY <1>5, <3>4, <3>5, <3>6, <3>7
  <2> QED
    BY <2>5 DEF Shows, line
<1>15. InputShown(term', input_str')
  <2>1. c + 1 = Len(new) + 2
    BY <1>2, <1>11
  <2> QED
    BY <1>1, <1>10, <1>14, <2>1 DEF InputShown, new, str
<1> QED
  BY <1>1, <1>12, <1>13, <1>15 DEF Inv

(* Backspace: the last glyph of the input line is blanked.                 *)
LEMMA KeyBackspaceInv ==
    ASSUME Inv, KeyBackspace
    PROVE  Inv'
<1> DEFINE str == input_str
           c == term.input_render_x - 1
           y == term.render_y
           new == Front(str)
           scr == [r \in Ys |-> IF y <= r /\ r < y + GlyphHeight
                                  THEN [term.screen[r] EXCEPT ![c] = SPACE] ELSE term.screen[r]]
           g == [term EXCEPT !.screen = scr]
<1>1. /\ TypeOK /\ looping /\ InputShown(term, str) /\ ShowsText(term, Lines(log))
      /\ str # << >> /\ looping' = looping /\ log' = log /\ input_str' = new
  BY DEF Inv, KeyBackspace
<1>2. /\ term \in Terminals /\ str \in Seq(Keys) /\ Len(str) \in Nat /\ Len(str) >= 1
      /\ log \in Seq(Seq(Glyphs))
      /\ term.render_x = 0 /\ term.input_render_y = y /\ term.input_render_x = Len(str) + 2
      /\ Shows(term, y, Prompt \o str)
  BY <1>1, LenProperties, EmptySeq DEF TypeOK, InputShown
<1>3. y = Top(Kept(Len(log))) /\ LinesShown(term, log) /\ Len(log) \in Nat
  BY <1>1, <1>2, LinesIs, LenProperties DEF ShowsText
<1>4. LineRoom(y)
  BY <1>3, KeptFacts
<1>5. c = Len(str) + 1 /\ c \in Int /\ y \in Int /\ SPACE \in Glyphs
  BY <1>2, <1>4 DEF Glyphs, LineRoom
<1>6. term' = [term EXCEPT !.screen = scr, !.input_render_x = c]
  BY <1>2 DEF KeyBackspace
<1>7. term.screen \in Screens
  BY <1>2 DEF Terminals
<1> HIDE DEF c, y
<1>8. scr \in Screens
  BY <1>5, <1>7 DEF Screens
<1>9. \A r \in Ys, x \in Xs :
          scr[r][x] = IF y <= r /\ r < y + GlyphHeight /\ x = c THEN SPACE ELSE term.screen[r][x]
  BY <1>7 DEF Screens
<1> HIDE DEF scr
<1>10. /\ term' \in Terminals /\ term'.screen = scr
       /\ term'.render_x = 0 /\ term'.render_y = y
       /\ term'.input_render_x = c /\ term'.input_render_y = y
  <2>1. g \in Terminals /\ g.screen = scr /\ SamePlace(g, term)
    BY <1>2, <1>8 DEF Terminals, SamePlace
  <2>2. [term EXCEPT !.screen = scr, !.input_render_x = c]
            = [g EXCEPT !.input_render_x = c, !.input_render_y = term.input_render_y]
    BY <1>2 DEF Terminals
  <2> HIDE DEF g
  <2>3. term' = InputTo(g, c, y)
    BY <1>2, <1>6, <2>2 DEF InputTo
  <2>4. /\ term' \in Terminals /\ term'.screen = g.screen
        /\ term'.render_x = g.render_x /\ term'.render_y = g.render_y
        /\ term'.input_render_x = c /\ term'.input_render_y = y
    BY <1>5, <2>1, <2>3, InputMoved
  <2> QED
    BY <1>2, <2>1, <2>4 DEF SamePlace, y
<1>11. new \in Seq(Keys) /\ Len(new) = Len(str) - 1
       /\ \A i \in 1 .. Len(str) - 1 : new[i] = str[i]
  <2> DEFINE b == Len(str) - 1
  <2>1. b \in Nat /\ b \in Int /\ 1 \in Int /\ \A i \in 1 .. b : i \in 1 .. Len(str) /\ 1 + i - 1 = i
    BY <1>2
  <2>2. \A i \in 1 .. b : str[i] \in Keys
    BY <1>2, <2>1, ElementOfSeq
  <2>3. new = SubSeq(str, 1, b)
    BY DEF Front
  <2> HIDE DEF b, new, str
  <2>4. b - 1 + 1 = b /\ (IF 1 <= b THEN b - 1 + 1 ELSE 0) = b
    BY <2>1
  <2>5. /\ new \in Seq(Keys) /\ Len(new) = (IF 1 <= b THEN b - 1 + 1 ELSE 0)
        /\ \A i \in 1 .. b - 1 + 1 : new[i] = str[1 + i - 1]
    BY <2>1, <2>2, <2>3, SubSeqProperties
  <2>6. new \in Seq(Keys) /\ Len(new) = b /\ \A i \in 1 .. b : new[i] = str[i]
    BY <2>1, <2>4, <2>5
  <2> QED
    BY <2>6 DEF b
<1> HIDE DEF new
<1>12. TypeOK'
  <2>1. Len(new) <= MaxInput
    BY <1>1, <1>2, <1>11, ScreenAssumption DEF TypeOK
  <2> QED
    BY <1>1, <1>10, <1>11, <2>1 DEF TypeOK
<1> HIDE DEF str
<1>13. ShowsText(term', Lines(log'))
  <2>1. SameAbove(term', term, y)
    <3>1. \A r \in Ys : r < y => ~(y <= r)
      BY <1>4, RowsOfLine
    <3> QED
      BY <1>9, <1>10, <3>1 DEF SameAbove
  <2>2. LinesShown(term', log)
    BY <1>3, <2>1, LinesStay
  <2>3. Lines(log) \in Texts /\ Lines(log).done = log /\ Lines(log).cur = << >> /\ Len(<< >>) = 0
    BY <1>2, LinesIs, EmptySeq
  <2> QED
    BY <1>1, <1>3, <1>10, <2>2, <2>3, XsFacts DEF ShowsText
<1>14. Shows(term', y, Prompt \o new)
  <2> DEFINE old == Prompt \o str
             line == Prompt \o new
  <2>1. /\ Len(old) = Len(str) + 2 /\ old[1] = "#" /\ old[2] = SPACE
        /\ \A i \in 1 .. Len(str) : old[i + 2] = str[i]
    BY <1>2, PromptLine
  <2>2. /\ Len(line) = Len(new) + 2 /\ line[1] = "#" /\ line[2] = SPACE
        /\ \A i \in 1 .. Len(new) : line[i + 2] = new[i]
    BY <1>11, PromptLine
  <2> HIDE DEF old, line
  <2>3. \A i \in 1 .. Len(str) + 1 : line[i] = old[i]
    <3> SUFFICES ASSUME NEW i \in 1 .. Len(str) + 1 PROVE line[i] = old[i]
      OBVIOUS
    <3>1. CASE i = 1
      BY <2>1, <2>2, <3>1
    <3>2. CASE i = 2
      BY <2>1, <2>2, <3>2
    <3>3. CASE i > 2
      <4> DEFINE k == i - 2
      <4>1. k \in 1 .. Len(str) /\ k \in 1 .. Len(new) /\ k \in 1 .. Len(str) - 1 /\ k + 2 = i
        BY <1>2, <1>11, <3>3
      <4> HIDE DEF k
      <4> QED
        BY <1>11, <2>1, <2>2, <4>1
    <3> QED
      BY <1>2, <3>1, <3>2, <3>3
  <2>4. ASSUME NEW r \in y .. y + GlyphHeight - 2, NEW x \in Xs
        PROVE  term'.screen[r][x] = IF x < Len(line) THEN line[x + 1] ELSE SPACE
    <3>1. r \in Ys /\ y <= r /\ r < y + GlyphHeight
      <4>1. r \in Ys /\ r \in Nat /\ y <= r /\ r < y + GlyphHeight - 1 /\ y + GlyphHeight \in Int
        BY <1>4, RowsOfLine
      <4> QED
        BY <1>5, <4>1, ScreenAssumption
    <3>2. term'.screen[r][x] = IF x = c THEN SPACE ELSE term.screen[r][x]
      BY <1>9, <1>10, <3>1
    <3>3. term.screen[r][x] = IF x < Len(old) THEN old[x + 1] ELSE SPACE
      BY <1>2 DEF Shows, old
    <3>4. x \in Nat /\ Len(line) = Len(str) + 1
      BY <1>2, <1>11, <2>2, XsFacts
    <3>5. CASE x = c
      <4>1. ~(x < Len(line))
        BY <1>2, <1>5, <3>4, <3>5
      <4> QED
        BY <3>2, <3>5, <4>1
    <3>6. CASE x < c
      <4>1. x + 1 \in 1 .. Len(str) + 1 /\ x < Len(line) /\ x < Len(old) /\ x # c
        BY <1>2, <1>5, <2>1, <3>4, <3>6
      <4> QED
        BY <2>3, <3>2, <3>3, <4>1
    <3>7. CASE x > c
      <4>1. ~(x < Len(line)) /\ ~(x < Len(old)) /\ x # c
        BY <1>2, <1>5, <2>1, <3>4, <3>7
      <4> QED
        BY <3>2, <3>3, <4>1
    <3> QED
      BY <1>5, <3>4, <3>5, <3>6, <3>7
  <2> QED
    BY <2>4 DEF Shows, line
<1>15. InputShown(term', input_str')
  <2>1. c = Len(new) + 2
    BY <1>2, <1>5, <1>11
  <2> QED
    BY <1>1, <1>10, <1>14, <2>1 DEF InputShown
<1> QED
  BY <1>1, <1>12, <1>13, <1>15 DEF Inv

(* term_clear: the prompt at the top of an empty screen.                   *)
LEMMA TermClearIs ==
    ASSUME NEW t \in Terminals
    PROVE  LET u == term_clear(t)
           IN  u \in Terminals /\ u.render_y = 0 /\ PromptShown(u)
<1> DEFINE a == _clear_screen(t)
           b == OutputTo(a, 0, 0)
           u == _render_input_line(b)
<1>1. term_clear(t) = u
  BY DEF term_clear, OutputTo
<1>2. Height \in Nat /\ 0 \in Int /\ Height \in Int /\ LineRoom(0)
  BY ScreenAssumption DEF LineRoom
<1>3. /\ a \in Terminals
      /\ \A r \in Ys, x \in Xs :
             a.screen[r][x] = IF 0 <= r /\ r <= Height THEN SPACE ELSE t.screen[r][x]
  BY <1>2, BlankRowsIs DEF _clear_screen
<1> HIDE DEF a
<1>4. b \in Terminals /\ b.screen = a.screen /\ b.render_x = 0 /\ b.render_y = 0
  BY <1>2, <1>3, OutputMoved
<1> HIDE DEF b
<1>5. Shows(b, 0, << >>)
  <2>1. \A r \in Ys : 0 <= r /\ r <= Height
    BY <1>2 DEF Ys
  <2>2. \A r \in 0 .. 0 + GlyphHeight - 2 : r \in Ys
    BY <1>2, RowsOfLine
  <2>3. Len(<< >>) = 0 /\ \A x \in Xs : ~(x < 0)
    BY XsFacts
  <2> QED
    BY <1>3, <1>4, <2>1, <2>2, <2>3 DEF Shows
<1>6. u \in Terminals /\ u.render_y = b.render_y /\ PromptShown(u)
  BY <1>2, <1>4, <1>5, PromptIs
<1> QED
  BY <1>1, <1>4, <1>6

(* Enter: the input line is echoed as a line of the output, and its        *)
(* command's output follows.                                               *)
LEMMA KeyEnterInv ==
    ASSUME Inv, NEW left \in Leftovers, KeyEnter(left)
    PROVE  Inv'
<1> DEFINE command == Drawn(input_str, left)
           l == Lines(log)
           t1 == tprintf(term, Prompt)
           l1 == LinesOf(l, Prompt)
           t2 == tprintf(t1, command)
           l2 == LinesOf(l1, command)
           echoed == tprintf(t2, <<NL>>)
           l3 == LinesOf(l2, <<NL>>)
           out == Output(input_str)
<1>1. /\ TypeOK /\ ShowsText(term, l) /\ input_str \in Seq(Keys) /\ looping
      /\ looping' = looping /\ input_str' = << >>
  BY DEF Inv, TypeOK, KeyEnter
<1>2. /\ term' = _handle_cmd(echoed, input_str)
      /\ log' = IF Chosen(input_str) = 2 THEN << >>
                ELSE LogWith(Prompt \o command \o <<NL>> \o out)
  BY DEF KeyEnter
<1>3. Prompt \in Seq(Glyphs) /\ command \in Seq(Glyphs) /\ <<NL>> \in Seq(Glyphs) /\ out \in Seq(Glyphs)
  <2>1. Prompt \in Seq(Glyphs) /\ <<NL>> \in Seq(Glyphs)
    BY DEF Prompt, Glyphs
  <2> QED
    BY <1>1, <2>1, DrawnIs, OutputIs
<1> HIDE DEF l, command, out
<1>4. ShowsText(t1, l1)
  BY <1>1, <1>3, TprintfIs DEF Ready
<1> HIDE DEF t1
<1>5. ShowsText(t2, l2)
  BY <1>3, <1>4, TprintfIs DEF Ready
<1> HIDE DEF t2
<1>6. ShowsText(echoed, l3)
  BY <1>3, <1>5, TprintfIs DEF Ready
<1> HIDE DEF echoed
<1>7. CASE Chosen(input_str) = 2
  <2>1. term' = term_clear(echoed) /\ log' = << >>
    BY <1>2, <1>7 DEF _handle_cmd
  <2>2. echoed \in Terminals
    BY <1>6 DEF ShowsText
  <2>3. term' \in Terminals /\ term'.render_y = 0 /\ PromptShown(term')
    BY <2>1, <2>2, TermClearIs
  <2>4. ShowsText(term', Lines(log')) /\ InputShown(term', << >>)
    BY <2>1, <2>3, EmptyLogShown, PromptInput DEF PromptShown
  <2>5. TypeOK'
    <3>1. << >> \in Seq(Keys) /\ << >> \in Seq(Seq(Glyphs)) /\ Len(<< >>) = 0
      BY EmptySeq
    <3>2. 0 <= MaxInput /\ 0 <= Visible
      BY TopFacts, ScreenAssumption
    <3> QED
      BY <1>1, <2>1, <2>3, <3>1, <3>2 DEF TypeOK
  <2> QED
    BY <1>1, <2>4, <2>5 DEF Inv
<1>8. CASE Chosen(input_str) # 2
  <2> DEFINE u == tprintf(echoed, out)
             k == LinesOf(l3, out)
             all == Prompt \o command \o <<NL>> \o out
  <2>1. out # << >> /\ Last(out) = NL
    BY <1>8, OutputIs DEF out
  <2>2. Ready(u, k) /\ PromptShown(u)
    BY <1>3, <1>6, <2>1, TprintfIs
  <2>3. term' = u /\ log' = LogWith(all)
    BY <1>2, <1>8 DEF _handle_cmd, out
  <2>4. LinesOf(l, all) = k
    <3> DEFINE a == Prompt \o command
               b == a \o <<NL>>
    <3>1. l \in Texts /\ a \in Seq(Glyphs)
      BY <1>1, <1>3, ConcatProperties DEF ShowsText
    <3>2. LinesOf(l, a) = l2
      BY <1>3, <3>1, LinesConcat
    <3> HIDE DEF a, l2
    <3>3. b \in Seq(Glyphs)
      BY <1>3, <3>1, ConcatProperties
    <3>4. LinesOf(l, b) = l3
      BY <1>3, <3>1, <3>2, LinesConcat
    <3>5. all = b \o out
      BY DEF a
    <3> HIDE DEF b, l3, all
    <3> QED
      BY <1>3, <3>1, <3>3, <3>4, <3>5, LinesConcat
  <2>5. log' = Newest(k.done)
    <3> HIDE DEF all, k
    <3> QED
      BY <2>3, <2>4, LogWithIs DEF l
  <2> HIDE DEF u, k
  <2>6. /\ u \in Terminals
        /\ log' \in Seq(Seq(Glyphs)) /\ Len(log') <= Visible
        /\ ShowsText(u, Lines(log')) /\ InputShown(u, << >>)
    BY <2>2, <2>5, LogIs
  <2>7. TypeOK'
    <3>1. << >> \in Seq(Keys) /\ Len(<< >>) = 0 /\ 0 <= MaxInput
      BY EmptySeq, ScreenAssumption
    <3> QED
      BY <1>1, <2>3, <2>6, <3>1 DEF TypeOK
  <2> QED
    BY <1>1, <2>3, <2>6, <2>7 DEF Inv
<1> QED
  BY <1>7, <1>8

-----------------------------------------------------------------------------
(* Theorems.                                                               *)

(* Every action preserves the invariant.                                   *)
LEMMA NextInv == Inv /\ [Next]_vars => Inv'
<1> SUFFICES ASSUME Inv, [Next]_vars PROVE Inv'
  OBVIOUS
<1>1. CASE \E msg \in Messages, last \in BOOLEAN : kprintf(msg, last)
  BY <1>1, KprintfInv
<1>2. CASE \E k \in Keys : KeyChar(k)
  BY <1>2, KeyCharInv
<1>3. CASE KeyBackspace
  BY <1>3, KeyBackspaceInv
<1>4. CASE \E left \in Leftovers : KeyEnter(left)
  BY <1>4, KeyEnterInv
<1>5. CASE UNCHANGED vars
  BY <1>5 DEF Inv, TypeOK, vars
<1> QED
  BY <1>1, <1>2, <1>3, <1>4, <1>5 DEF Next

(* The terminal's invariant: the lines above the output position are the   *)
(* lines of the log, drawn whole and in order, and once the kernel loop    *)
(* runs the line at it is the prompt and input_str.                        *)
THEOREM TerminalInvariant == Spec => []Inv
<1>1. Init => Inv
  BY InitInv
<1>2. Inv /\ [Next]_vars => Inv'
  BY NextInv
<1> QED
  BY <1>1, <1>2, PTL DEF Spec

(* A line that is shown glyph by glyph is shown row by row.                *)
LEMMA ShowsIsLineAt ==
    ASSUME term \in Terminals, NEW y, LineRoom(y), NEW line, Shows(term, y, line)
    PROVE  LineAt(y, line)
<1> SUFFICES ASSUME NEW r \in y .. y + GlyphHeight - 2 PROVE term.screen[r] = RowOf(line)
  BY DEF LineAt
<1>1. r \in Ys
  BY RowsOfLine
<1>2. term.screen[r] \in [Xs -> Glyphs]
  BY <1>1 DEF Terminals, Screens
<1>3. \A x \in Xs : term.screen[r][x] = IF x < Len(line) THEN line[x + 1] ELSE SPACE
  BY DEF Shows
<1> QED
  BY <1>2, <1>3 DEF RowOf

(* While the user types, the line at the input position shows the prompt   *)
(* and input_str and nothing else, for every screen and input length that  *)
(* a line has room for: term_keyevent and the output routines agree on     *)
(* where the input line is, through every wrap, scroll and clear.          *)
THEOREM InputLine == Spec => []InputLineShown
<1>1. Inv => InputLineShown
  <2> SUFFICES ASSUME Inv, looping
               PROVE  /\ term.render_x = 0 /\ term.input_render_y = term.render_y
                      /\ term.input_render_x = 2 + Len(input_str)
                      /\ LineAt(term.input_render_y, Prompt \o input_str)
    BY DEF InputLineShown
  <2>1. term \in Terminals /\ InputShown(term, input_str) /\ Len(input_str) \in Nat /\ Len(log) \in Nat
    BY LenProperties DEF Inv, TypeOK
  <2>2. term.render_y = Top(Kept(Len(log)))
    BY LinesIs DEF Inv, TypeOK, ShowsText
  <2>3. LineRoom(term.render_y)
    BY <2>1, <2>2, KeptFacts
  <2>4. LineAt(term.render_y, Prompt \o input_str)
    BY <2>1, <2>3, ShowsIsLineAt DEF InputShown
  <2>5. Len(input_str) + 2 = 2 + Len(input_str)
    BY <2>1
  <2> QED
    BY <2>1, <2>4, <2>5 DEF InputShown
<1> QED
  BY <1>1, TerminalInvariant, PTL

(* The screen above shows the newest lines that were printed or echoed, in *)
(* order, each of them whole, and the output position is a line of the     *)
(* screen: PutChar, _move_to_next_line and _shift_screen_up never lose,    *)
(* repeat or tear a line, whatever the size of the screen.                 *)
THEOREM OutputLines == Spec => []OutputShown
<1>1. Inv => OutputShown
  <2> SUFFICES ASSUME Inv PROVE OutputShown
    OBVIOUS
  <2> DEFINE n == Len(log)
  <2>1. term \in Terminals /\ log \in Seq(Seq(Glyphs)) /\ n \in Nat /\ n <= Visible
    BY LenProperties DEF Inv, TypeOK
  <2>2. /\ term.render_x = 0 /\ term.render_y = Top(Kept(n)) /\ LinesShown(term, log)
    BY <2>1, LinesIs, EmptySeq DEF Inv, ShowsText
  <2> HIDE DEF n
  <2>3. Kept(n) = n
    BY <2>1, TopFacts DEF Kept
  <2>4. LineRoom(Top(n)) /\ Top(n) % GlyphHeight = 0
    BY <2>1, <2>3, KeptFacts, TopFacts
  <2>5. term.render_x \in Xs
    BY <2>2, XsFacts
  <2>6. term.render_y \in 0 .. Height - GlyphHeight /\ term.render_y % GlyphHeight = 0
    BY <2>2, <2>3, <2>4, ScreenAssumption DEF LineRoom
  <2>7. ASSUME NEW i \in 1 .. n PROVE LineAt((i - 1) * GlyphHeight, log[i])
    <3>1. n - n + i = i
      BY <2>1
    <3>2. Shows(term, Top(i - 1), log[i])
      BY <2>2, <2>3, <3>1 DEF LinesShown, n
    <3>3. i - 1 \in Nat /\ i - 1 \in 0 .. Visible
      BY <2>1, TopFacts
    <3>4. LineRoom(Top(i - 1))
      BY <3>3, TopFacts DEF LineRoom
    <3>5. LineAt(Top(i - 1), log[i])
      BY <2>1, <3>2, <3>4, ShowsIsLineAt
    <3> QED
      BY <3>5 DEF Top
  <2> QED
    BY <2>2, <2>3, <2>5, <2>6, <2>7 DEF OutputShown, Top, n
<1> QED
  BY <1>1, TerminalInvariant, PTL
=============================================================================
