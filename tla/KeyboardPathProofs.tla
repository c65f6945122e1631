------------------------- MODULE KeyboardPathProofs -------------------------
(***************************************************************************)
(* Proofs about KeyboardPath for every queue length, every set of keys and *)
(* every bound on presses and ticks.  None needs FreshLockBytes = {0}: a   *)
(* garbage lock byte can stop the handler for ever (a liveness matter, see *)
(* the run on WriteReturns) but cannot corrupt the queue.                  *)
(***************************************************************************)
EXTENDS KeyboardPath, SequenceTheorems, FiniteSetTheorems, TLAPS

USE DEF HasEntry

(* Who can be running.  Interrupts are on exactly while main is outside    *)
(* its cli/sti window and no handler runs; a handler only ever interrupts  *)
(* main outside that window.                                               *)
Context ==
    /\ iflag => ipc = "none"
    /\ ipc # "none" => mpc \in {"poll", "cli", "dispatch"}
    /\ mpc \in {"lock", "guard", "take", "dec", "unlock", "sti"} => ~iflag

(* Between main's test of num_items and its decrement the queue cannot     *)
(* become empty: only main takes values out.                               *)
ReadReady == mpc \in {"cli", "lock", "guard", "take", "dec"} => num_items > 0

(* A request for the keyboard and its handler's port read exclude each     *)
(* other, because the 8042 raises the next request only once it was read.  *)
OneKeyRequest == ~(KEYBOARD_VECTOR \in irr /\ ipc = "inb")

(* The handler holds a real scan code from the port read to the store.     *)
HandHoldsKey == InHand => key \in Keys

IInv ==
    /\ TypeOK
    /\ Context
    /\ ReadReady
    /\ NeverFatal
    /\ RingInv
    /\ NoStrandedKey
    /\ OneKeyRequest
    /\ HandHoldsKey
    /\ NoKeyVanishes

-----------------------------------------------------------------------------
(* The initial state satisfies the invariant. *)
LEMMA InitIInv == Init => IInv
<1>1. SUFFICES ASSUME Init PROVE IInv
  OBVIOUS
<1>2. TypeOK
  BY <1>1, QLenAssumption, LockByteAssumption, BoundsAssumption, KeysAssumption
     DEF Init, cqueue_create, TypeOK
<1>3. Context /\ ReadReady /\ NeverFatal /\ NoStrandedKey /\ OneKeyRequest /\ HandHoldsKey
  BY <1>1 DEF Init, cqueue_create, Context, ReadReady, NeverFatal, NoStrandedKey,
              OneKeyRequest, HandHoldsKey, InHand
<1>4. RingInv /\ NoKeyVanishes
  BY <1>1, QLenAssumption
     DEF Init, cqueue_create, RingInv, NoKeyVanishes, Span, Stored, InHand
<1>5. QED
  BY <1>2, <1>3, <1>4 DEF IInv

(* The cursor stays in the buffer.                                         *)
LEMMA NextIndexType == \A i \in 0 .. QLen - 1 : NextIndex(i) \in 0 .. QLen - 1
  BY QLenAssumption DEF NextIndex

(* Every step keeps the types.                                             *)
LEMMA TypeStep == IInv /\ [Next]_vars => TypeOK'
<1>1. SUFFICES ASSUME IInv, [Next]_vars PROVE TypeOK'
  OBVIOUS
<1> USE <1>1 DEF IInv
<1> USE DEF queueVars, apicVars, mainVars, isrVars, envVars, MainAt, IsrAt, TypeOK,
            Vectors, KEYBOARD_VECTOR, LAPICTMR_VECTOR
<1>2. ASSUME MainStep PROVE TypeOK'
  <2>1. CASE Poll
    BY <2>1 DEF Poll
  <2>2. CASE Cli
    BY <2>2 DEF Cli
  <2>3. CASE RLock
    BY <2>3 DEF RLock
  <2>4. CASE RGuard
    BY <2>4 DEF RGuard
  <2>5. CASE RTake
    <3>1. buff[read_i] \in Keys \union {NoKey} /\ NextIndex(read_i) \in 0 .. QLen - 1
      BY NextIndexType
    <3>2. delivered' \in Seq(Keys \union {NoKey})
      BY <2>5, <3>1 DEF RTake
    <3>3. QED
      BY <2>5, <3>1, <3>2 DEF RTake
  <2>6. CASE RDec
    BY <2>6, QLenAssumption DEF RDec, ReadReady
  <2>7. CASE RUnlock
    BY <2>7 DEF RUnlock
  <2>8. CASE Sti
    BY <2>8 DEF Sti
  <2>9. CASE Dispatch
    BY <2>9, KeysAssumption DEF Dispatch
  <2>10. QED
    BY <1>2, <2>1, <2>2, <2>3, <2>4, <2>5, <2>6, <2>7, <2>8, <2>9 DEF MainStep
<1>3. ASSUME TakeInterrupt PROVE TypeOK'
  <2>1. PICK v \in irr :
            /\ ipc' \in {"inb", "tick"}
            /\ irr' = irr \ {v} /\ isr' = isr \union {v} /\ iflag' = FALSE
            /\ UNCHANGED <<kernel_timer_secs, key, lost, queueVars, mainVars, envVars>>
    BY <1>3 DEF TakeInterrupt
  <2>2. irr' \subseteq Vectors /\ isr' \subseteq Vectors
    BY <2>1
  <2>3. QED
    BY <2>1, <2>2
<1>4. ASSUME IsrStep PROVE TypeOK'
  <2>1. CASE KbdRead
    BY <2>1 DEF KbdRead
  <2>2. CASE WLock
    BY <2>2 DEF WLock
  <2>3. CASE WFull
    BY <2>3 DEF WFull
  <2>4. CASE WStore
    BY <2>4, NextIndexType DEF WStore
  <2>5. CASE WUnlock
    BY <2>5 DEF WUnlock
  <2>6. CASE WCount
    BY <2>6, QLenAssumption DEF WCount, RingInv, Span, Stored, Context
  <2>7. CASE Tick
    BY <2>7 DEF Tick
  <2>8. CASE Eoi
    BY <2>8 DEF Eoi
  <2>9. CASE Iret
    BY <2>9 DEF Iret
  <2>10. QED
    BY <1>4, <2>1, <2>2, <2>3, <2>4, <2>5, <2>6, <2>7, <2>8, <2>9 DEF IsrStep
<1>5. ASSUME NEW k \in Keys, KeyPress(k) PROVE TypeOK'
  BY <1>5, BoundsAssumption DEF KeyPress
<1>6. ASSUME TimerFire PROVE TypeOK'
  BY <1>6, BoundsAssumption DEF TimerFire
<1>7. CASE UNCHANGED vars
  BY <1>7 DEF vars
<1>8. QED
  BY <1>1, <1>2, <1>3, <1>4, <1>5, <1>6, <1>7 DEF Next

(* Every step keeps who may run and what main's test promised.              *)
LEMMA ControlStep == IInv /\ [Next]_vars => (Context /\ ReadReady /\ NeverFatal)'
<1>1. SUFFICES ASSUME IInv, [Next]_vars PROVE (Context /\ ReadReady /\ NeverFatal)'
  OBVIOUS
<1> USE <1>1 DEF IInv, TypeOK, Context, ReadReady, NeverFatal
<1> USE DEF queueVars, apicVars, mainVars, isrVars, envVars, MainAt, IsrAt,
            Vectors, KEYBOARD_VECTOR, LAPICTMR_VECTOR
<1>2. ASSUME MainStep PROVE (Context /\ ReadReady /\ NeverFatal)'
  <2>1. CASE Poll
    BY <2>1 DEF Poll
  <2>2. CASE Cli
    BY <2>2 DEF Cli
  <2>3. CASE RLock
    BY <2>3 DEF RLock
  <2>4. CASE RGuard
    BY <2>4 DEF RGuard
  <2>5. CASE RTake
    BY <2>5 DEF RTake
  <2>6. CASE RDec
    BY <2>6 DEF RDec
  <2>7. CASE RUnlock
    BY <2>7 DEF RUnlock
  <2>8. CASE Sti
    BY <2>8 DEF Sti
  <2>9. CASE Dispatch
    BY <2>9 DEF Dispatch
  <2>10. QED
    BY <1>2, <2>1, <2>2, <2>3, <2>4, <2>5, <2>6, <2>7, <2>8, <2>9 DEF MainStep
<1>3. ASSUME TakeInterrupt PROVE (Context /\ ReadReady /\ NeverFatal)'
  BY <1>3 DEF TakeInterrupt
<1>4. ASSUME IsrStep PROVE (Context /\ ReadReady /\ NeverFatal)'
  <2>1. CASE KbdRead
    BY <2>1 DEF KbdRead
  <2>2. CASE WLock
    BY <2>2 DEF WLock
  <2>3. CASE WFull
    BY <2>3 DEF WFull
  <2>4. CASE WStore
    BY <2>4 DEF WStore
  <2>5. CASE WUnlock
    BY <2>5 DEF WUnlock
  <2>6. CASE WCount
    BY <2>6 DEF WCount
  <2>7. CASE Tick
    BY <2>7 DEF Tick
  <2>8. CASE Eoi
    BY <2>8 DEF Eoi
  <2>9. CASE Iret
    BY <2>9 DEF Iret
  <2>10. QED
    BY <1>4, <2>1, <2>2, <2>3, <2>4, <2>5, <2>6, <2>7, <2>8, <2>9 DEF IsrStep
<1>5. ASSUME NEW k \in Keys, KeyPress(k) PROVE (Context /\ ReadReady /\ NeverFatal)'
  BY <1>5, KeysAssumption DEF KeyPress
<1>6. ASSUME TimerFire PROVE (Context /\ ReadReady /\ NeverFatal)'
  BY <1>6 DEF TimerFire
<1>7. CASE UNCHANGED vars
  BY <1>7 DEF vars
<1>8. QED
  BY <1>1, <1>2, <1>3, <1>4, <1>5, <1>6, <1>7 DEF Next

(* Every step keeps an unread scan code and its interrupt together.         *)
LEMMA RequestStep == IInv /\ [Next]_vars => (NoStrandedKey /\ OneKeyRequest /\ HandHoldsKey)'
<1>1. SUFFICES ASSUME IInv, [Next]_vars PROVE (NoStrandedKey /\ OneKeyRequest /\ HandHoldsKey)'
  OBVIOUS
<1> USE <1>1 DEF IInv, TypeOK, NoStrandedKey, OneKeyRequest, HandHoldsKey, InHand
<1> USE DEF queueVars, apicVars, mainVars, isrVars, envVars, MainAt, IsrAt,
            Vectors, KEYBOARD_VECTOR, LAPICTMR_VECTOR
<1>2. ASSUME MainStep PROVE (NoStrandedKey /\ OneKeyRequest /\ HandHoldsKey)'
  <2>1. CASE Poll
    BY <2>1 DEF Poll
  <2>2. CASE Cli
    BY <2>2 DEF Cli
  <2>3. CASE RLock
    BY <2>3 DEF RLock
  <2>4. CASE RGuard
    BY <2>4 DEF RGuard
  <2>5. CASE RTake
    BY <2>5 DEF RTake
  <2>6. CASE RDec
    BY <2>6 DEF RDec
  <2>7. CASE RUnlock
    BY <2>7 DEF RUnlock
  <2>8. CASE Sti
    BY <2>8 DEF Sti
  <2>9. CASE Dispatch
    BY <2>9 DEF Dispatch
  <2>10. QED
    BY <1>2, <2>1, <2>2, <2>3, <2>4, <2>5, <2>6, <2>7, <2>8, <2>9 DEF MainStep
<1>3. ASSUME TakeInterrupt PROVE (NoStrandedKey /\ OneKeyRequest /\ HandHoldsKey)'
  BY <1>3 DEF TakeInterrupt
<1>4. ASSUME IsrStep PROVE (NoStrandedKey /\ OneKeyRequest /\ HandHoldsKey)'
  <2>1. CASE KbdRead
    BY <2>1, KeysAssumption DEF KbdRead
  <2>2. CASE WLock
    BY <2>2 DEF WLock
  <2>3. CASE WFull
    BY <2>3 DEF WFull
  <2>4. CASE WStore
    BY <2>4 DEF WStore
  <2>5. CASE WUnlock
    BY <2>5 DEF WUnlock
  <2>6. CASE WCount
    BY <2>6 DEF WCount
  <2>7. CASE Tick
    BY <2>7 DEF Tick
  <2>8. CASE Eoi
    BY <2>8 DEF Eoi
  <2>9. CASE Iret
    BY <2>9 DEF Iret
  <2>10. QED
    BY <1>4, <2>1, <2>2, <2>3, <2>4, <2>5, <2>6, <2>7, <2>8, <2>9 DEF IsrStep
<1>5. ASSUME NEW k \in Keys, KeyPress(k) PROVE (NoStrandedKey /\ OneKeyRequest /\ HandHoldsKey)'
  BY <1>5, KeysAssumption DEF KeyPress
<1>6. ASSUME TimerFire PROVE (NoStrandedKey /\ OneKeyRequest /\ HandHoldsKey)'
  BY <1>6 DEF TimerFire
<1>7. CASE UNCHANGED vars
  BY <1>7 DEF vars
<1>8. QED
  BY <1>1, <1>2, <1>3, <1>4, <1>5, <1>6, <1>7 DEF Next

(* Every step keeps the cursors where the count says.                       *)
LEMMA RingStep == IInv /\ [Next]_vars => RingInv'
<1>1. SUFFICES ASSUME IInv, [Next]_vars PROVE RingInv'
  OBVIOUS
<1> USE <1>1 DEF IInv, TypeOK, RingInv, Span, Stored, NextIndex, Context, ReadReady
<1> USE DEF queueVars, apicVars, mainVars, isrVars, envVars, MainAt, IsrAt,
            Vectors, KEYBOARD_VECTOR, LAPICTMR_VECTOR
<1>2. ASSUME MainStep PROVE RingInv'
  <2>1. CASE Poll
    BY <2>1, QLenAssumption DEF Poll
  <2>2. CASE Cli
    BY <2>2, QLenAssumption DEF Cli
  <2>3. CASE RLock
    BY <2>3, QLenAssumption DEF RLock
  <2>4. CASE RGuard
    BY <2>4, QLenAssumption DEF RGuard
  <2>5. CASE RTake
    BY <2>5, QLenAssumption DEF RTake
  <2>6. CASE RDec
    BY <2>6, QLenAssumption DEF RDec
  <2>7. CASE RUnlock
    BY <2>7, QLenAssumption DEF RUnlock
  <2>8. CASE Sti
    BY <2>8, QLenAssumption DEF Sti
  <2>9. CASE Dispatch
    BY <2>9, QLenAssumption DEF Dispatch
  <2>10. QED
    BY <1>2, <2>1, <2>2, <2>3, <2>4, <2>5, <2>6, <2>7, <2>8, <2>9 DEF MainStep
<1>3. ASSUME TakeInterrupt PROVE RingInv'
  BY <1>3, QLenAssumption DEF TakeInterrupt
<1>4. ASSUME IsrStep PROVE RingInv'
  <2>1. CASE KbdRead
    BY <2>1, QLenAssumption DEF KbdRead
  <2>2. CASE WLock
    BY <2>2, QLenAssumption DEF WLock
  <2>3. CASE WFull
    BY <2>3, QLenAssumption DEF WFull
  <2>4. CASE WStore
    BY <2>4, QLenAssumption DEF WStore
  <2>5. CASE WUnlock
    BY <2>5, QLenAssumption DEF WUnlock
  <2>6. CASE WCount
    BY <2>6, QLenAssumption DEF WCount
  <2>7. CASE Tick
    BY <2>7, QLenAssumption DEF Tick
  <2>8. CASE Eoi
    BY <2>8, QLenAssumption DEF Eoi
  <2>9. CASE Iret
    BY <2>9, QLenAssumption DEF Iret
  <2>10. QED
    BY <1>4, <2>1, <2>2, <2>3, <2>4, <2>5, <2>6, <2>7, <2>8, <2>9 DEF IsrStep
<1>5. ASSUME NEW k \in Keys, KeyPress(k) PROVE RingInv'
  BY <1>5, KeysAssumption, QLenAssumption DEF KeyPress
<1>6. ASSUME TimerFire PROVE RingInv'
  BY <1>6, QLenAssumption DEF TimerFire
<1>7. CASE UNCHANGED vars
  BY <1>7, QLenAssumption DEF vars
<1>8. QED
  BY <1>1, <1>2, <1>3, <1>4, <1>5, <1>6, <1>7 DEF Next

(* The balance of keys is kept when one moves from the handler's hand to    *)
(* the queue (or to the keys lost), whatever the other places hold.         *)
LEMMA KeyMoves ==
  ASSUME NEW o \in Int, NEW n \in Int, NEW d \in Int, NEW l \in Int
  PROVE  /\ o + 1 + n + d + l = o + 0 + n + d + (l + 1)
         /\ o + 1 + n + d + l = o + 0 + (n + 1) + d + l
  OBVIOUS

(* Every step keeps each pressed key in exactly one place.                  *)
LEMMA VanishStep == IInv /\ [Next]_vars => NoKeyVanishes'
<1>1. SUFFICES ASSUME IInv, [Next]_vars PROVE NoKeyVanishes'
  OBVIOUS
<1> USE <1>1 DEF IInv, TypeOK, NoKeyVanishes, Span, Stored, InHand, Context, NoStrandedKey
<1> USE DEF queueVars, apicVars, mainVars, isrVars, envVars, MainAt, IsrAt,
            Vectors, KEYBOARD_VECTOR, LAPICTMR_VECTOR
<1>2. ASSUME MainStep PROVE NoKeyVanishes'
  <2>1. CASE Poll
    BY <2>1 DEF Poll
  <2>2. CASE Cli
    BY <2>2 DEF Cli
  <2>3. CASE RLock
    BY <2>3 DEF RLock
  <2>4. CASE RGuard
    BY <2>4 DEF RGuard
  <2>5. CASE RTake
    BY <2>5 DEF RTake
  <2>6. CASE RDec
    BY <2>6 DEF RDec
  <2>7. CASE RUnlock
    BY <2>7 DEF RUnlock
  <2>8. CASE Sti
    BY <2>8 DEF Sti
  <2>9. CASE Dispatch
    BY <2>9 DEF Dispatch
  <2>10. QED
    BY <1>2, <2>1, <2>2, <2>3, <2>4, <2>5, <2>6, <2>7, <2>8, <2>9 DEF MainStep
<1>3. ASSUME TakeInterrupt PROVE NoKeyVanishes'
  BY <1>3 DEF TakeInterrupt
<1>4. ASSUME IsrStep PROVE NoKeyVanishes'
  <2>1. CASE KbdRead
    BY <2>1, KeysAssumption DEF KbdRead
  <2>2. CASE WLock
    BY <2>2 DEF WLock
  <2>3. CASE WFull
    <3>1. InHand /\ ~InHand'
      BY <2>3 DEF WFull
    <3>2. Span' = Span /\ delivered' = delivered
      BY <2>3 DEF WFull
    <3>3. lost' = lost + 1 /\ UNCHANGED <<obuf, pressed>>
      BY <2>3 DEF WFull
    <3>4. pressed = (IF obuf # NoKey THEN 1 ELSE 0) + 1 + Span + Len(delivered) + lost
      BY <3>1
    <3>5. pressed' = (IF obuf' # NoKey THEN 1 ELSE 0) + 0 + Span' + Len(delivered') + lost'
      <4> DEFINE o == IF obuf # NoKey THEN 1 ELSE 0
      <4>1. Span \in Int /\ lost \in Int /\ Len(delivered) \in Int /\ o \in Int
        BY LenProperties
      <4> HIDE <1>1 DEF Span, InHand, Stored, TypeOK, o
      <4>2. o + 1 + Span + Len(delivered) + lost = o + 0 + Span + Len(delivered) + (lost + 1)
        BY <4>1, KeyMoves
      <4> QED
        BY <3>2, <3>3, <3>4, <4>2, Zenon DEF o
    <3>6. QED
      BY <3>1, <3>5
  <2>4. CASE WStore
    <3>1. InHand /\ ~InHand'
      BY <2>4 DEF WStore
    <3>2. Span' = Span + 1 /\ delivered' = delivered
      BY <2>4 DEF WStore
    <3>3. UNCHANGED <<obuf, pressed, lost>>
      BY <2>4 DEF WStore
    <3>4. pressed = (IF obuf # NoKey THEN 1 ELSE 0) + 1 + Span + Len(delivered) + lost
      BY <3>1
    <3>5. pressed' = (IF obuf' # NoKey THEN 1 ELSE 0) + 0 + Span' + Len(delivered') + lost'
      <4> DEFINE o == IF obuf # NoKey THEN 1 ELSE 0
      <4>1. Span \in Int /\ lost \in Int /\ Len(delivered) \in Int /\ o \in Int
        BY LenProperties
      <4> HIDE <1>1 DEF Span, InHand, Stored, TypeOK, o
      <4>2. o + 1 + Span + Len(delivered) + lost = o + 0 + (Span + 1) + Len(delivered) + lost
        BY <4>1, KeyMoves
      <4> QED
        BY <3>2, <3>3, <3>4, <4>2, Zenon DEF o
    <3>6. QED
      BY <3>1, <3>5
  <2>5. CASE WUnlock
    BY <2>5 DEF WUnlock
  <2>6. CASE WCount
    BY <2>6 DEF WCount
  <2>7. CASE Tick
    BY <2>7 DEF Tick
  <2>8. CASE Eoi
    BY <2>8 DEF Eoi
  <2>9. CASE Iret
    BY <2>9 DEF Iret
  <2>10. QED
    BY <1>4, <2>1, <2>2, <2>3, <2>4, <2>5, <2>6, <2>7, <2>8, <2>9 DEF IsrStep
<1>5. ASSUME NEW k \in Keys, KeyPress(k) PROVE NoKeyVanishes'
  BY <1>5, KeysAssumption DEF KeyPress
<1>6. ASSUME TimerFire PROVE NoKeyVanishes'
  BY <1>6 DEF TimerFire
<1>7. CASE UNCHANGED vars
  BY <1>7 DEF vars
<1>8. QED
  BY <1>1, <1>2, <1>3, <1>4, <1>5, <1>6, <1>7 DEF Next

-----------------------------------------------------------------------------
(* The inductive invariant holds in every reachable state.                 *)
THEOREM Invariance == Spec => []IInv
<1>1. IInv /\ [Next]_vars => IInv'
  BY TypeStep, ControlStep, RequestStep, RingStep, VanishStep DEF IInv
<1>2. QED
  BY InitIInv, <1>1, PTL DEF Spec

(* Type correctness of the keyboard path, for every queue length: cursors  *)
(* stay inside buff and num_items within 0 .. len.                         *)
THEOREM TypeCorrect == Spec => []TypeOK
<1>1. IInv => TypeOK
  BY DEF IInv
<1>2. QED
  BY Invariance, <1>1, PTL

(* The handler never spins on a lock held by the loop it interrupted.      *)
THEOREM DoubleLockFree == Spec => []NoDoubleLock
<1>1. IInv => NoDoubleLock
  BY DEF IInv, Context, NoDoubleLock, MainLocked
<1>2. QED
  BY Invariance, <1>1, PTL

(* cqueue_read never halts the machine on an empty queue.                  *)
THEOREM ReadNeverFatal == Spec => []NeverFatal
<1>1. IInv => NeverFatal
  BY DEF IInv
<1>2. QED
  BY Invariance, <1>1, PTL

(* Count and cursors of the queue always agree.                            *)
THEOREM RingCorrect == Spec => []RingInv
<1>1. IInv => RingInv
  BY DEF IInv
<1>2. QED
  BY Invariance, <1>1, PTL

(* No scan code is ever left in the 8042 without an interrupt coming.      *)
THEOREM KeyNeverStranded == Spec => []NoStrandedKey
<1>1. IInv => NoStrandedKey
  BY DEF IInv
<1>2. QED
  BY Invariance, <1>1, PTL

(* Every pressed key is delivered, waiting, or counted as dropped.         *)
THEOREM KeysAccounted == Spec => []NoKeyVanishes
<1>1. IInv => NoKeyVanishes
  BY DEF IInv
<1>2. QED
  BY Invariance, <1>1, PTL
-----------------------------------------------------------------------------
(* The order of the terminal's events.                                     *)

(* The scan code in main's hand, from cqueue_read to the dispatch, is the  *)
(* last one taken out, and the only one the terminal can still get.        *)
HandFull == mpc \in {"dec", "unlock", "sti", "dispatch"}
OrderInv ==
    /\ HandFull => Len(delivered) > 0 /\ scanCode = delivered[Len(delivered)]
    /\ MappedUpTo(delivered, Len(delivered)) =
           Len(events) + (IF HandFull /\ scanCode \in Mapped THEN 1 ELSE 0)
    /\ KeysInOrder

(* The count of mapped scan codes is a number, and one that has been       *)
(* counted in raises it.                                                   *)
LEMMA MappedCount ==
    ASSUME NEW s, NEW p \in Nat
    PROVE  /\ MappedUpTo(s, p) \in Nat
           /\ MappedUpTo(s, p + 1) = MappedUpTo(s, p) + (IF s[p + 1] \in Mapped THEN 1 ELSE 0)
<1> DEFINE M(n) == {q \in 1 .. n : s[q] \in Mapped}
<1>1. IsFiniteSet(M(p)) /\ Cardinality(M(p)) \in Nat
  <2>1. IsFiniteSet(1 .. p)
    BY FS_Interval
  <2> QED
    BY <2>1, FS_Subset, FS_CardinalityType
<1>2. CASE s[p + 1] \in Mapped
  <2>1. M(p + 1) = M(p) \union {p + 1} /\ p + 1 \notin M(p)
    BY <1>2
  <2> QED
    BY <1>1, <1>2, <2>1, FS_AddElement DEF MappedUpTo
<1>3. CASE s[p + 1] \notin Mapped
  <2>1. M(p + 1) = M(p)
    BY <1>3
  <2> QED
    BY <1>1, <1>3, <2>1 DEF MappedUpTo
<1> QED
  BY <1>2, <1>3

(* The count up to a mapped scan code exceeds the count up to an earlier.  *)
LEMMA MappedGrows ==
    ASSUME NEW s, NEW p \in Nat, NEW q \in Nat, p < q, s[q] \in Mapped
    PROVE  MappedUpTo(s, p) < MappedUpTo(s, q)
<1> DEFINE M(n) == {k \in 1 .. n : s[k] \in Mapped}
<1>1. IsFiniteSet(1 .. p) /\ IsFiniteSet(1 .. q)
  BY FS_Interval
<1>2. IsFiniteSet(M(p)) /\ IsFiniteSet(M(q))
  BY <1>1, FS_Subset
<1>3. M(p) \subseteq M(q) /\ q \in M(q) /\ q \notin M(p)
  OBVIOUS
<1>4. Cardinality(M(p)) <= Cardinality(M(q)) /\ (Cardinality(M(p)) = Cardinality(M(q)) => M(p) = M(q))
  BY <1>2, <1>3, FS_Subset
<1>5. Cardinality(M(p)) \in Nat /\ Cardinality(M(q)) \in Nat
  BY <1>2, FS_CardinalityType
<1> QED
  BY <1>3, <1>4, <1>5 DEF MappedUpTo

(* Appending to a sequence changes no count of what was there.             *)
LEMMA MappedAppend ==
    ASSUME NEW S, NEW s \in Seq(S), NEW x \in S
    PROVE  /\ \A p \in 0 .. Len(s) : MappedUpTo(Append(s, x), p) = MappedUpTo(s, p)
           /\ MappedUpTo(Append(s, x), Len(s) + 1) =
                  MappedUpTo(s, Len(s)) + (IF x \in Mapped THEN 1 ELSE 0)
<1> DEFINE t == Append(s, x)
<1>1. /\ Len(s) \in Nat /\ t[Len(s) + 1] = x
      /\ \A q \in 1 .. Len(s) : t[q] = s[q]
  OBVIOUS
<1> HIDE DEF t
<1>2. \A p \in 0 .. Len(s) : MappedUpTo(t, p) = MappedUpTo(s, p)
  <2> SUFFICES ASSUME NEW p \in 0 .. Len(s) PROVE MappedUpTo(t, p) = MappedUpTo(s, p)
    OBVIOUS
  <2>1. {q \in 1 .. p : t[q] \in Mapped} = {q \in 1 .. p : s[q] \in Mapped}
    BY <1>1
  <2> QED
    BY <2>1 DEF MappedUpTo
<1>3. MappedUpTo(t, Len(s) + 1) = MappedUpTo(t, Len(s)) + (IF t[Len(s) + 1] \in Mapped THEN 1 ELSE 0)
  BY <1>1, MappedCount
<1>4. MappedUpTo(t, Len(s)) = MappedUpTo(s, Len(s))
  BY <1>1, <1>2
<1> QED
  BY <1>1, <1>2, <1>3, <1>4 DEF t

(* cqueue_read takes a scan code out: it is the last, and not an event yet. *)
LEMMA TakeKeepsOrder == IInv /\ OrderInv /\ RTake => OrderInv'
<1> SUFFICES ASSUME IInv, OrderInv, RTake PROVE OrderInv'
  OBVIOUS
<1> DEFINE x == buff[read_i]
           d == Len(delivered)
<1>1. /\ mpc = "take" /\ mpc' = "dec" /\ scanCode' = x /\ delivered' = Append(delivered, x)
      /\ events' = events
  BY DEF RTake, MainAt
<1>2. /\ x \in Keys \union {NoKey} /\ delivered \in Seq(Keys \union {NoKey}) /\ d \in Nat
      /\ Len(events) \in Nat
  BY DEF IInv, TypeOK
<1> HIDE DEF x
<1>3. /\ Len(delivered') = d + 1 /\ delivered'[d + 1] = x
      /\ \A q \in 1 .. d : delivered'[q] = delivered[q]
  BY <1>1, <1>2
<1>4. /\ \A p \in 0 .. d : MappedUpTo(delivered', p) = MappedUpTo(delivered, p)
      /\ MappedUpTo(delivered', d + 1) = MappedUpTo(delivered, d) + (IF x \in Mapped THEN 1 ELSE 0)
  BY <1>1, <1>2, MappedAppend
<1>5. MappedUpTo(delivered, d) = Len(events)
  BY <1>1, <1>2 DEF OrderInv, HandFull
<1> HIDE DEF d
<1>6. KeysInOrder'
  <2>1. Len(events') <= MappedUpTo(delivered', Len(delivered'))
    BY <1>1, <1>2, <1>3, <1>4, <1>5
  <2>2. ASSUME NEW p \in 1 .. d + 1, delivered'[p] \in Mapped, MappedUpTo(delivered', p) <= Len(events)
        PROVE  events[MappedUpTo(delivered', p)] = delivered'[p]
    <3>1. CASE p = d + 1
      BY <1>2, <1>3, <1>4, <1>5, <2>2, <3>1
    <3>2. CASE p \in 1 .. d
      BY <1>2, <1>3, <1>4, <2>2, <3>2 DEF OrderInv, KeysInOrder, d
    <3> QED
      BY <1>2, <3>1, <3>2
  <2> QED
    BY <1>1, <1>3, <2>1, <2>2 DEF KeysInOrder
<1> QED
  BY <1>1, <1>2, <1>3, <1>4, <1>5, <1>6 DEF OrderInv, HandFull

(* The dispatch hands the terminal the next mapped scan code.              *)
LEMMA DispatchKeepsOrder == IInv /\ OrderInv /\ Dispatch => OrderInv'
<1> SUFFICES ASSUME IInv, OrderInv, Dispatch PROVE OrderInv'
  OBVIOUS
<1> DEFINE d == Len(delivered)
           e == Len(events)
<1>1. /\ mpc = "dispatch" /\ mpc' = "poll" /\ delivered' = delivered
      /\ events' = IF scanCode \in Mapped THEN Append(events, scanCode) ELSE events
  BY DEF Dispatch, MainAt
<1>2. /\ d \in Nat /\ e \in Nat /\ d > 0 /\ scanCode = delivered[d]
      /\ MappedUpTo(delivered, d) = e + (IF scanCode \in Mapped THEN 1 ELSE 0)
  BY <1>1 DEF OrderInv, HandFull, IInv, TypeOK
<1>3. CASE scanCode \notin Mapped
  BY <1>1, <1>2, <1>3 DEF OrderInv, HandFull, KeysInOrder
<1>4. CASE scanCode \in Mapped
  <2>1. /\ Len(events') = e + 1 /\ events'[e + 1] = scanCode
        /\ \A n \in 1 .. e : events'[n] = events[n]
    <3>1. events \in Seq(Keys) /\ scanCode \in Keys
      BY <1>4, KeysAssumption DEF IInv, TypeOK
    <3> QED
      BY <1>1, <1>4, <3>1
  <2>2. ASSUME NEW p \in 1 .. d, delivered[p] \in Mapped, MappedUpTo(delivered, p) <= e + 1
        PROVE  events'[MappedUpTo(delivered, p)] = delivered[p]
    <3>1. CASE p = d
      BY <1>2, <1>4, <2>1, <3>1
    <3>2. CASE p # d
      <4>1. MappedUpTo(delivered, p) < MappedUpTo(delivered, d)
        BY <1>2, <1>4, <3>2, MappedGrows
      <4>2. MappedUpTo(delivered, p) \in Nat /\ MappedUpTo(delivered, p) > 0
        <5>1. MappedUpTo(delivered, 0) < MappedUpTo(delivered, p)
          BY <2>2, MappedGrows
        <5>2. MappedUpTo(delivered, 0) \in Nat /\ MappedUpTo(delivered, p) \in Nat
          BY MappedCount
        <5> QED
          BY <5>1, <5>2
      <4>3. MappedUpTo(delivered, p) \in 1 .. e
        BY <1>2, <1>4, <4>1, <4>2
      <4>4. events[MappedUpTo(delivered, p)] = delivered[p]
        BY <2>2, <4>3 DEF OrderInv, KeysInOrder
      <4> QED
        BY <2>1, <4>3, <4>4
    <3> QED
      BY <3>1, <3>2
  <2>3. KeysInOrder'
    <3>1. Len(events') <= MappedUpTo(delivered, d)
      BY <1>2, <1>4, <2>1
    <3>2. \A p \in 1 .. d : delivered[p] \in Mapped /\ MappedUpTo(delivered, p) <= Len(events')
                               => events'[MappedUpTo(delivered, p)] = delivered[p]
      BY <2>1, <2>2
    <3> QED
      BY <1>1, <3>1, <3>2 DEF KeysInOrder
  <2> QED
    BY <1>1, <1>2, <1>4, <2>1, <2>3 DEF OrderInv, HandFull
<1> QED
  BY <1>3, <1>4

(* Every step of the loop and of the handlers keeps the order of the keys. *)
LEMMA OrderStep == IInv /\ OrderInv /\ [Next]_vars => OrderInv'
<1> SUFFICES ASSUME IInv, OrderInv, [Next]_vars PROVE OrderInv'
  OBVIOUS
<1>1. CASE RTake
  BY <1>1, TakeKeepsOrder
<1>2. CASE Dispatch
  BY <1>2, DispatchKeepsOrder
<1>3. CASE ~RTake /\ ~Dispatch
  <2>1. /\ UNCHANGED <<delivered, events, scanCode>>
        /\ HandFull' <=> HandFull
    <3>1. CASE Poll \/ Cli \/ RLock \/ RGuard \/ RDec \/ RUnlock \/ Sti
      BY <3>1 DEF Poll, Cli, RLock, RGuard, RDec, RUnlock, Sti, MainAt, HandFull
    <3>2. CASE TakeInterrupt \/ IsrStep \/ (\E k \in Keys : KeyPress(k)) \/ TimerFire \/ UNCHANGED vars
      <4>1. UNCHANGED mainVars
        BY <3>2 DEF TakeInterrupt, IsrStep, KbdRead, WLock, WFull, WStore, WUnlock, WCount, Tick, Eoi,
                    Iret, KeyPress, TimerFire, vars
      <4> QED
        BY <4>1 DEF mainVars, HandFull
    <3> QED
      BY <1>3, <3>1, <3>2 DEF Next, MainStep
  <2>2. KeysInOrder'
    BY <2>1 DEF OrderInv, KeysInOrder
  <2> QED
    BY <2>1, <2>2 DEF OrderInv
<1> QED
  BY <1>1, <1>2, <1>3

(* What term_keyevent is given, in the order it is given it, are the mapped *)
(* scan codes that cqueue_read has returned.                                *)
THEOREM EventsInOrder == Spec => []KeysInOrder
<1>1. Init => OrderInv
  <2> SUFFICES ASSUME Init PROVE OrderInv
    OBVIOUS
  <2>1. delivered = << >> /\ events = << >> /\ mpc = "poll"
    BY DEF Init
  <2>2. {q \in 1 .. 0 : << >>[q] \in Mapped} = {}
    OBVIOUS
  <2>3. MappedUpTo(<< >>, 0) = 0
    BY <2>2, FS_EmptySet DEF MappedUpTo
  <2> QED
    BY <2>1, <2>3 DEF OrderInv, HandFull, KeysInOrder
<1>2. OrderInv => KeysInOrder
  BY DEF OrderInv
<1> QED
  BY <1>1, <1>2, OrderStep, Invariance, PTL DEF Spec

-----------------------------------------------------------------------------
(* The queue as a bounded FIFO.                                            *)

(* Contents is a sequence of Span values of buff.                          *)
LEMMA ContentsSeq ==
    ASSUME IInv
    PROVE  /\ Contents \in Seq(Keys \union {NoKey})
           /\ Len(Contents) = Span
           /\ \A j \in 1 .. Span : Slot(j) \in 0 .. QLen - 1
<1>1. Span \in 0 .. QLen /\ read_i \in 0 .. QLen - 1 /\ QLen \in Nat \ {0}
  BY QLenAssumption DEF IInv, RingInv, TypeOK
<1>2. \A j \in 1 .. Span : Slot(j) \in 0 .. QLen - 1
  BY <1>1 DEF Slot
<1>3. \A j \in 1 .. Span : buff[Slot(j)] \in Keys \union {NoKey}
  BY <1>2 DEF IInv, TypeOK
<1>4. Contents \in Seq(Keys \union {NoKey}) /\ Len(Contents) = Span
  BY <1>1, <1>3 DEF Contents
<1>5. QED
  BY <1>2, <1>4

(* A step that moves neither cursor, nor the values, nor Span, is no step  *)
(* of the FIFO.                                                            *)
LEMMA FifoStutter ==
    ASSUME UNCHANGED <<read_i, buff, delivered, lost>>, Span' = Span
    PROVE  UNCHANGED <<Contents, delivered, lost>>
  BY DEF Contents, Slot

(* Storing a key appends it: the slot written is the one after the last.   *)
LEMMA FifoPut ==
    ASSUME IInv, IInv', WStore
    PROVE  /\ Len(Contents) < QLen
           /\ Contents' = Append(Contents, key)
           /\ UNCHANGED <<delivered, lost>>
<1>1. /\ Span' = Span + 1 /\ Span \in Nat /\ Span' <= QLen
      /\ read_i' = read_i /\ read_i \in 0 .. QLen - 1 /\ QLen \in Nat
      /\ write_i \in 0 .. QLen - 1
      /\ write_i = read_i + Span \/ write_i + QLen = read_i + Span
  BY QLenAssumption DEF IInv, WStore, IsrAt, Span, Stored, TypeOK, RingInv, Context, mainVars
<1>2. \A j \in 1 .. Span : Slot(j) # write_i
  BY <1>1 DEF Slot
<1>3. Slot(Span + 1) = write_i
  BY <1>1 DEF Slot
<1>4. buff' = [buff EXCEPT ![write_i] = key] /\ buff \in [0 .. QLen - 1 -> Keys \union {NoKey}]
  BY DEF WStore, IInv, TypeOK
<1>5. /\ Contents \in Seq(Keys \union {NoKey}) /\ Len(Contents) = Span
      /\ \A j \in 1 .. Span : Slot(j) \in 0 .. QLen - 1
  BY ContentsSeq
<1>6. \A j \in 1 .. Span : buff'[Slot(j)] = buff[Slot(j)]
  BY <1>2, <1>4, <1>5
<1>7. buff'[Slot(Span + 1)] = key
  BY <1>1, <1>3, <1>4
<1>8. Contents' = [j \in 1 .. Span + 1 |-> buff'[Slot(j)]]
  BY <1>1 DEF Contents, Slot
<1>9. Contents' = Append(Contents, key)
  <2>1. key \in Keys \union {NoKey}
    BY DEF IInv, TypeOK
  <2>2. /\ Append(Contents, key) \in Seq(Keys \union {NoKey})
        /\ Len(Append(Contents, key)) = Span + 1
        /\ \A j \in 1 .. Span : Append(Contents, key)[j] = Contents[j]
        /\ Append(Contents, key)[Span + 1] = key
    BY <1>5, <2>1, AppendProperties
  <2>3. Contents' \in Seq(Keys \union {NoKey}) /\ Len(Contents') = Span + 1
    BY <1>1, <1>4, <1>5, <1>6, <1>7, <1>8, <2>1, ContentsSeq
  <2>4. \A j \in 1 .. Span + 1 : Contents'[j] = Append(Contents, key)[j]
    BY <1>1, <1>6, <1>7, <1>8, <2>2 DEF Contents
  <2>5. QED
    BY <2>2, <2>3, <2>4, SeqEqual
<1>10. QED
  BY <1>1, <1>5, <1>9 DEF WStore, mainVars

(* Taking a value takes the oldest one.                                    *)
LEMMA FifoGet ==
    ASSUME IInv, IInv', RTake
    PROVE  /\ Contents # << >>
           /\ delivered' = Append(delivered, Head(Contents))
           /\ Contents' = Tail(Contents)
           /\ UNCHANGED lost
<1>1. /\ Span \in Nat /\ Span > 0 /\ Span <= QLen /\ Span' = Span - 1 /\ buff' = buff
      /\ read_i' = NextIndex(read_i) /\ read_i \in 0 .. QLen - 1 /\ QLen \in Nat \ {0}
  <2>1. num_items \in 0 .. QLen /\ num_items > 0 /\ QLen \in Nat \ {0} /\ read_i \in 0 .. QLen - 1
    BY QLenAssumption DEF IInv, RTake, MainAt, TypeOK, ReadReady
  <2>2. Span = num_items /\ Span' = num_items - 1
    BY <2>1 DEF RTake, MainAt, Span, Stored, isrVars
  <2>3. QED
    BY <2>1, <2>2 DEF RTake
<1>2. \A j \in 1 .. Span - 1 : Slot(j)' = Slot(j + 1)
  BY <1>1 DEF Slot, NextIndex
<1>3. Contents \in Seq(Keys \union {NoKey}) /\ Len(Contents) = Span
  BY ContentsSeq
<1>4. Slot(1) = read_i /\ Contents # << >>
  BY <1>1, <1>3 DEF Slot
<1>5. Head(Contents) = buff[read_i]
  BY <1>1, <1>3, <1>4 DEF Contents
<1>6. Contents' = [j \in 1 .. Span - 1 |-> buff[Slot(j)']]
  BY <1>1 DEF Contents
<1>7. /\ Tail(Contents) \in Seq(Keys \union {NoKey})
      /\ Len(Tail(Contents)) = Span - 1
      /\ \A j \in 1 .. Span - 1 : Tail(Contents)[j] = Contents[j + 1]
  BY <1>1, <1>3, <1>4, HeadTailProperties
<1>8. Contents' \in Seq(Keys \union {NoKey}) /\ Len(Contents') = Span - 1
  <2>1. \A j \in 1 .. Span - 1 : buff[Slot(j)'] \in Keys \union {NoKey}
    <3>1. \A j \in 1 .. Span : Slot(j) \in 0 .. QLen - 1
      BY ContentsSeq
    <3>2. buff \in [0 .. QLen - 1 -> Keys \union {NoKey}]
      BY DEF IInv, TypeOK
    <3>3. QED
      BY <1>1, <1>2, <3>1, <3>2
  <2>2. QED
    BY <1>1, <1>6, <2>1
<1>9. \A j \in 1 .. Span - 1 : Contents'[j] = Tail(Contents)[j]
  <2>1. \A j \in 1 .. Span - 1 : buff[Slot(j)'] = Contents[j + 1]
    BY <1>1, <1>2 DEF Contents
  <2>2. QED
    BY <1>6, <1>7, <2>1
<1>10. Contents' = Tail(Contents)
  BY <1>7, <1>8, <1>9, SeqEqual
<1>11. QED
  BY <1>4, <1>5, <1>10 DEF RTake, isrVars

(* A dropped key finds the FIFO full.                                      *)
LEMMA FifoLose ==
    ASSUME IInv, WFull
    PROVE  /\ Len(Contents) = QLen
           /\ lost' = lost + 1
           /\ UNCHANGED <<Contents, delivered>>
<1>1. Span = QLen /\ Span' = Span /\ UNCHANGED <<read_i, buff, delivered>>
  BY DEF IInv, WFull, IsrAt, Span, Stored, TypeOK, RingInv, Context, mainVars
<1>2. Len(Contents) = Span
  BY ContentsSeq
<1>3. QED
  BY <1>1, <1>2 DEF WFull, Contents, Slot

(* Every step of the keyboard path is a step of the FIFO or leaves it.     *)
LEMMA FifoStep ==
    ASSUME IInv, IInv', [Next]_vars
    PROVE  [Fifo!FifoNext]_(Fifo!fifoVars)
<1> DEFINE Quiet == UNCHANGED <<read_i, buff, delivered, lost>> /\ Span' = Span
<1> USE DEF queueVars, apicVars, mainVars, isrVars, envVars, MainAt, IsrAt
<1>1. CASE WStore
  BY <1>1, FifoPut DEF Fifo!FifoNext, Fifo!Put, WStore, IInv, HandHoldsKey, InHand
<1>2. CASE WFull
  BY <1>2, FifoLose DEF Fifo!FifoNext, Fifo!Lose
<1>3. CASE RTake
  BY <1>3, FifoGet DEF Fifo!FifoNext, Fifo!Get
<1>4. CASE Poll \/ Cli \/ RLock \/ RGuard \/ RUnlock \/ Sti \/ Dispatch
  <2>1. Quiet
    BY <1>4 DEF Poll, Cli, RLock, RGuard, RUnlock, Sti, Dispatch, Span, Stored, IInv, TypeOK
  <2>2. QED
    BY <2>1, FifoStutter DEF Fifo!fifoVars
<1>5. CASE RDec
  <2>1. Quiet
    BY <1>5 DEF RDec, Span, Stored, IInv, TypeOK
  <2>2. QED
    BY <2>1, FifoStutter DEF Fifo!fifoVars
<1>6. CASE TakeInterrupt
  <2>1. Quiet
    BY <1>6 DEF TakeInterrupt, Span, Stored, IInv, TypeOK
  <2>2. QED
    BY <2>1, FifoStutter DEF Fifo!fifoVars
<1>7. CASE KbdRead \/ WLock \/ WUnlock \/ WCount \/ Tick \/ Eoi \/ Iret
  <2>1. CASE KbdRead \/ WLock \/ Tick \/ Eoi \/ Iret
    <3>1. Quiet
      BY <2>1 DEF KbdRead, WLock, Tick, Eoi, Iret, Span, Stored, IInv, TypeOK
    <3>2. QED
      BY <3>1, FifoStutter DEF Fifo!fifoVars
  <2>2. CASE WUnlock
    <3>1. Quiet
      BY <2>2 DEF WUnlock, Span, Stored
    <3>2. QED
      BY <3>1, FifoStutter DEF Fifo!fifoVars
  <2>3. CASE WCount
    <3>1. Quiet
      BY <2>3 DEF WCount, Span, Stored, IInv, TypeOK
    <3>2. QED
      BY <3>1, FifoStutter DEF Fifo!fifoVars
  <2>4. QED
    BY <1>7, <2>1, <2>2, <2>3
<1>8. CASE TimerFire \/ (\E k \in Keys : KeyPress(k)) \/ UNCHANGED vars
  <2>1. Quiet
    BY <1>8 DEF TimerFire, KeyPress, vars, Span, Stored
  <2>2. QED
    BY <2>1, FifoStutter DEF Fifo!fifoVars
<1>9. QED
  BY <1>1, <1>2, <1>3, <1>4, <1>5, <1>6, <1>7, <1>8 DEF Next, MainStep, IsrStep

(* The kernel's queue, as used by the keyboard handler and the loop, is a  *)
(* bounded FIFO: nothing is reordered, duplicated or invented, and only a  *)
(* full queue drops a key.                                                 *)
THEOREM FifoRefinement == Spec => ImplementsFifo
<1>1. Init => Fifo!FifoInit
  <2>1. SUFFICES ASSUME Init PROVE Span = 0 /\ delivered = << >> /\ lost = 0
    BY DEF Fifo!FifoInit, Contents
  <2>2. QED
    BY <2>1 DEF Init, cqueue_create, Span, Stored
<1>2. IInv /\ IInv' /\ [Next]_vars => [Fifo!FifoNext]_(Fifo!fifoVars)
  BY FifoStep
<1>3. QED
  BY Invariance, <1>1, <1>2, PTL DEF Spec, ImplementsFifo, Fifo!FifoSpec
=============================================================================
