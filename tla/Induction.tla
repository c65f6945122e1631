----------------------------- MODULE Induction -----------------------------
(***************************************************************************)
(* Induction and recursion for the proofs of this project.  The library    *)
(* states them for operators P(_) and Def(_, _); here they are stated for  *)
(* sets and functions, which the provers can instantiate, and proved from  *)
(* the library's well-foundedness of Nat.                                  *)
(***************************************************************************)
EXTENDS Integers, WellFoundedInduction, TLAPS

(* A non-empty set of natural numbers has a least element.                 *)
LEMMA LeastNat ==
    ASSUME NEW T \in SUBSET Nat, T # {}
    PROVE  \E n \in T : \A m \in T : n <= m
<1> DEFINE Less == OpToRel(<, Nat)
<1>1. IsWellFoundedOn(Less, Nat)
  BY NatLessThanWellFounded
<1>2. \A x, y \in Nat : <<y, x>> \in Less <=> y < x
  BY DEF OpToRel
<1> HIDE DEF Less
<1>3. PICK n \in T : \A m \in T : ~(<<m, n>> \in Less)
  BY <1>1, WFMin
<1>4. \A m \in T : ~(m < n)
  BY <1>2, <1>3
<1>5. \A m \in T : n <= m
  BY <1>4
<1> QED
  BY <1>5

(* Induction: a set that holds 0 and with a number its successor holds     *)
(* every number.                                                           *)
LEMMA SetInduction ==
    ASSUME NEW S, 0 \in S, \A n \in Nat : n \in S => n + 1 \in S
    PROVE  \A n \in Nat : n \in S
<1> DEFINE T == Nat \ S
<1> SUFFICES ASSUME T # {} PROVE FALSE
  OBVIOUS
<1>1. PICK n \in T : \A m \in T : n <= m
  BY LeastNat
<1>2. n - 1 \in Nat /\ n - 1 \notin T
  BY <1>1
<1> QED
  BY <1>1, <1>2

(* f starts with b and continues by step, up to n.                         *)
Starts(f, b, step, n) ==
    f[0] = b /\ \A m \in 0 .. n - 1 : f[m + 1] = step[m][f[m]]

(* f is the function on Nat that b and step define.                        *)
Defines(b, step, f, V) ==
    f \in [Nat -> V] /\ f[0] = b /\ \A n \in Nat : f[n + 1] = step[n][f[n]]

(* Recursion: a first value and a step define a function on Nat.           *)
LEMMA Recursion ==
    ASSUME NEW V, NEW b \in V, NEW step \in [Nat -> [V -> V]]
    PROVE  \E f : Defines(b, step, f, V)
<1> DEFINE Ok(n) == {f \in [Nat -> V] : Starts(f, b, step, n)}
           S == {n \in Nat : Ok(n) # {}}
<1>1. 0 \in S
  <2>1. [m \in Nat |-> b] \in Ok(0)
    BY DEF Starts
  <2> QED
    BY <2>1
<1>2. ASSUME NEW n \in Nat, n \in S PROVE n + 1 \in S
  <2>1. PICK f \in Ok(n) : TRUE
    BY <1>2
  <2> DEFINE g == [f EXCEPT ![n + 1] = step[n][f[n]]]
  <2>2. f \in [Nat -> V] /\ f[0] = b /\ \A m \in 0 .. n - 1 : f[m + 1] = step[m][f[m]]
    BY <2>1 DEF Starts
  <2>3. step[n][f[n]] \in V
    BY <2>2
  <2>4. g \in [Nat -> V] /\ g[0] = b
    BY <2>2, <2>3
  <2>5. \A m \in 0 .. n : g[m] = f[m]
    BY <2>2
  <2>6. g[n + 1] = step[n][g[n]]
    BY <2>2, <2>5
  <2>7. ASSUME NEW m \in 0 .. n PROVE g[m + 1] = step[m][g[m]]
    <3>1. CASE m = n
      BY <2>6, <3>1
    <3>2. CASE m < n
      BY <2>2, <2>5, <3>2
    <3> QED
      BY <3>1, <3>2
  <2>8. g \in Ok(n + 1)
    BY <2>4, <2>7 DEF Starts
  <2> HIDE DEF g, Ok
  <2> QED
    BY <2>8
<1> HIDE DEF S
<1>3. \A n \in Nat : n \in S
  BY <1>1, <1>2, SetInduction
<1>4. \A n \in Nat : Ok(n) # {}
  BY <1>3 DEF S
<1> DEFINE a(n) == CHOOSE f : f \in Ok(n)
<1>5. \A n \in Nat : a(n) \in Ok(n)
  BY <1>4
<1>6. \A n \in Nat : a(n) \in [Nat -> V] /\ a(n)[0] = b /\ \A m \in 0 .. n - 1 : a(n)[m + 1] = step[m][a(n)[m]]
  BY <1>5 DEF Starts
<1> HIDE DEF a, Ok
(* Any two of them agree as far as both go.                                *)
<1>7. ASSUME NEW k \in Nat, NEW n \in Nat, k <= n PROVE a(k)[k] = a(n)[k]
  <2> DEFINE T == {m \in Nat : m <= k => a(k)[m] = a(n)[m]}
  <2>1. 0 \in T
    BY <1>6
  <2>2. ASSUME NEW m \in Nat, m \in T PROVE m + 1 \in T
    <3> SUFFICES ASSUME m + 1 <= k PROVE a(k)[m + 1] = a(n)[m + 1]
      OBVIOUS
    <3>1. a(k)[m] = a(n)[m] /\ m \in 0 .. k - 1 /\ m \in 0 .. n - 1
      BY <1>7, <2>2
    <3> QED
      BY <1>6, <3>1
  <2>3. k \in T
    <3> HIDE DEF T
    <3> QED
      BY <2>1, <2>2, SetInduction
  <2> QED
    BY <2>3
<1> DEFINE f == [n \in Nat |-> a(n)[n]]
<1>8. f \in [Nat -> V] /\ f[0] = b
  BY <1>6
<1>9. ASSUME NEW n \in Nat PROVE f[n + 1] = step[n][f[n]]
  <2>1. a(n + 1)[n + 1] = step[n][a(n + 1)[n]]
    BY <1>6
  <2>2. a(n)[n] = a(n + 1)[n]
    BY <1>7
  <2> QED
    BY <2>1, <2>2
<1>10. Defines(b, step, f, V)
  BY <1>8, <1>9 DEF Defines
<1> HIDE DEF f
<1> QED
  BY <1>10
=============================================================================
