---------------------------- MODULE KeyboardPath ----------------------------
(***************************************************************************)
(* The path of a scan code from the 8042 controller to the terminal:       *)
(* keyboard interrupt, _handle_keyboard, cqueue_write, and on the other    *)
(* side the kernel loop's poll, cqueue_read and dispatch.                  *)
(*                                                                         *)
(* One CPU runs everything.  The kernel loop ("main", program counter mpc) *)
(* is stalled while an interrupt handler (program counter ipc) runs, and a *)
(* handler starts only when the interrupt flag is set and the local APIC   *)
(* has no handler in service.  A step is one access to state that the      *)
(* other side can see.  A spinlock is taken by a step whose guard is that  *)
(* the lock byte is 0: a wait that can never end is a step that is never   *)
(* enabled.                                                                *)
(***************************************************************************)
EXTENDS Integers, Sequences, FiniteSets

CONSTANTS
    Keys,           \* scan codes the keyboard can send
    Mapped,         \* those with an entry in scancode_map
    QLen,           \* length of the queue (200 in kernel_main)
    FreshLockBytes, \* what malloc'd memory may hold where the lock byte lies
    MaxKeys,        \* bound: keys pressed in a behaviour
    MaxTicks,       \* bound: LAPIC timer expirations in a behaviour
    NoKey           \* "no scan code here"

ASSUME KeysAssumption == Mapped \subseteq Keys /\ NoKey \notin Keys
ASSUME QLenAssumption == QLen \in Nat \ {0}
ASSUME LockByteAssumption == FreshLockBytes \subseteq {0, 1}
ASSUME BoundsAssumption == MaxKeys \in Nat /\ MaxTicks \in Nat

VARIABLES
    (* CQueue_t *)
    read_i, write_i, buff, num_items, lock,
    (* CPU and local APIC *)
    iflag,              \* RFLAGS.IF
    irr, isr,           \* vectors requested, vectors in service
    kernel_timer_secs,
    (* 8042 *)
    obuf,               \* output buffer: a scan code, or NoKey
    (* control and the locals that outlive a step *)
    mpc, scanCode, ipc, key,
    (* history and bounds *)
    pressed, fired,     \* keys pressed, timer expirations
    delivered,          \* scan codes cqueue_read has taken out
    lost,               \* keys for which cqueue_write returned false
    events              \* scan codes handed to term_keyevent

queueVars == <<read_i, write_i, buff, num_items, lock>>
apicVars  == <<iflag, irr, isr, kernel_timer_secs>>
mainVars  == <<mpc, scanCode, delivered, events>>
isrVars   == <<ipc, key, lost>>
envVars   == <<obuf, pressed, fired>>
vars      == <<queueVars, apicVars, mainVars, isrVars, envVars>>

KEYBOARD_VECTOR == 33
LAPICTMR_VECTOR == 35
Vectors == {KEYBOARD_VECTOR, LAPICTMR_VECTOR}

-----------------------------------------------------------------------------
(* cqueue_create, with the memory as slob_malloc hands it out: the lock    *)
(* byte is not written, so it is whatever the memory held.                 *)

cqueue_create ==
    /\ read_i = 0 /\ write_i = 0 /\ num_items = 0
    /\ buff = [i \in 0 .. QLen - 1 |-> NoKey]
    /\ lock \in FreshLockBytes

Init ==
    /\ cqueue_create
    /\ iflag = TRUE /\ irr = {} /\ isr = {} /\ kernel_timer_secs = 0
    /\ obuf = NoKey /\ pressed = 0 /\ fired = 0
    /\ mpc = "poll" /\ scanCode = NoKey /\ delivered = << >> /\ events = << >>
    /\ ipc = "none" /\ key = NoKey /\ lost = 0

(* Mutant of NextIndex: the wrap-around is missing. *)
NextIndexUnwrapped(i) == i + 1

(* The cursor after i: the wrap-around both ends of the queue use.         *)
NextIndex(i) == IF i + 1 = QLen THEN 0 ELSE i + 1

-----------------------------------------------------------------------------
(* The kernel loop.                                                        *)

MainAt(here, next) ==
    /\ ipc = "none"
    /\ mpc = here
    /\ mpc' = next

(* Mutant of Poll: the loop reads without testing num_items. *)
PollUnchecked ==
    /\ MainAt("poll", "cli")
    /\ UNCHANGED <<scanCode, delivered, events, queueVars, apicVars, isrVars, envVars>>

Poll ==
    /\ MainAt("poll", IF num_items > 0 THEN "cli" ELSE "poll")
    /\ UNCHANGED <<scanCode, delivered, events, queueVars, apicVars, isrVars, envVars>>

(* Mutant of Cli: interrupts stay enabled around the read. *)
CliMissing ==
    /\ MainAt("cli", "lock")
    /\ UNCHANGED <<scanCode, delivered, events, queueVars, apicVars, isrVars, envVars>>

Cli ==
    /\ MainAt("cli", "lock")
    /\ iflag' = FALSE
    /\ UNCHANGED <<irr, isr, kernel_timer_secs,
                   scanCode, delivered, events, queueVars, isrVars, envVars>>

RLock ==
    /\ MainAt("lock", "guard")
    /\ lock = 0
    /\ lock' = 1
    /\ UNCHANGED <<read_i, write_i, buff, num_items,
                   scanCode, delivered, events, apicVars, isrVars, envVars>>

(* An empty queue here is fatal: hcf() clears the flag and never returns.  *)
RGuard ==
    /\ MainAt("guard", IF num_items = 0 THEN "fatal" ELSE "take")
    /\ iflag' = (IF num_items = 0 THEN FALSE ELSE iflag)
    /\ UNCHANGED <<irr, isr, kernel_timer_secs,
                   scanCode, delivered, events, queueVars, isrVars, envVars>>

(* Mutant of RTake: the cursor is advanced before the value is read. *)
RTakeAfterAdvance ==
    /\ MainAt("take", "dec")
    /\ read_i' = NextIndex(read_i)
    /\ scanCode' = buff[read_i']
    /\ delivered' = Append(delivered, buff[read_i'])
    /\ UNCHANGED <<write_i, buff, num_items, lock, events, apicVars, isrVars, envVars>>

RTake ==
    /\ MainAt("take", "dec")
    /\ scanCode' = buff[read_i]
    /\ read_i' = NextIndex(read_i)
    /\ delivered' = Append(delivered, buff[read_i])
    /\ UNCHANGED <<write_i, buff, num_items, lock, events, apicVars, isrVars, envVars>>

RDec ==
    /\ MainAt("dec", "unlock")
    /\ num_items' = num_items - 1
    /\ UNCHANGED <<read_i, write_i, buff, lock,
                   scanCode, delivered, events, apicVars, isrVars, envVars>>

(* Mutant of RUnlock: cqueue_read returns with the lock held. *)
RUnlockMissing ==
    /\ MainAt("unlock", "sti")
    /\ UNCHANGED <<scanCode, delivered, events, queueVars, apicVars, isrVars, envVars>>

RUnlock ==
    /\ MainAt("unlock", "sti")
    /\ lock' = 0
    /\ UNCHANGED <<read_i, write_i, buff, num_items,
                   scanCode, delivered, events, apicVars, isrVars, envVars>>

Sti ==
    /\ MainAt("sti", "dispatch")
    /\ iflag' = TRUE
    /\ UNCHANGED <<irr, isr, kernel_timer_secs,
                   scanCode, delivered, events, queueVars, isrVars, envVars>>

(* Mutant of Dispatch: the NULL test of the scancode_map entry is missing. *)
DispatchUnmapped ==
    /\ MainAt("dispatch", "poll")
    /\ events' = Append(events, scanCode)
    /\ scanCode' = NoKey
    /\ UNCHANGED <<delivered, queueVars, apicVars, isrVars, envVars>>

(* Scan codes without an entry in scancode_map are ignored.                *)
HasEntry(code) == code \in Mapped
Dispatch ==
    /\ MainAt("dispatch", "poll")
    /\ events' = IF HasEntry(scanCode) THEN Append(events, scanCode) ELSE events
    /\ scanCode' = NoKey
    /\ UNCHANGED <<delivered, queueVars, apicVars, isrVars, envVars>>

MainStep ==
    \/ Poll \/ Cli \/ RLock \/ RGuard \/ RTake \/ RDec \/ RUnlock \/ Sti \/ Dispatch

-----------------------------------------------------------------------------
(* Interrupt delivery and the two handlers.                                *)

IsrAt(here, next) ==
    /\ ipc = here
    /\ ipc' = next

(* Both vectors are of priority class 2, so neither preempts the other;    *)
(* of two requests the higher vector goes first.                           *)
TakeInterrupt ==
    \E v \in irr :
        /\ iflag
        /\ isr = {}
        /\ \A w \in irr : w <= v
        /\ IsrAt("none", IF v = KEYBOARD_VECTOR THEN "inb" ELSE "tick")
        /\ irr' = irr \ {v}
        /\ isr' = isr \union {v}
        /\ iflag' = FALSE
        /\ UNCHANGED <<kernel_timer_secs, key, lost, queueVars, mainVars, envVars>>

(* Mutant of KbdRead: with the queue full the handler leaves port 0x60 alone. *)
KbdReadUnlessFull ==
    /\ IsrAt("inb", IF num_items = QLen THEN "eoi" ELSE "lock")
    /\ key' = IF num_items = QLen THEN key ELSE obuf
    /\ obuf' = IF num_items = QLen THEN obuf ELSE NoKey
    /\ UNCHANGED <<lost, pressed, fired, queueVars, apicVars, mainVars>>

(* ps2_read_no_wait: reading port 0x60 empties the controller's buffer.    *)
KbdRead ==
    /\ IsrAt("inb", "lock")
    /\ key' = obuf
    /\ obuf' = NoKey
    /\ UNCHANGED <<lost, pressed, fired, queueVars, apicVars, mainVars>>

WLock ==
    /\ IsrAt("lock", "check")
    /\ lock = 0
    /\ lock' = 1
    /\ UNCHANGED <<read_i, write_i, buff, num_items, key, lost, apicVars, mainVars, envVars>>

(* Mutant of WFull: the early return keeps the lock. *)
WFullKeepsLock ==
    /\ IsrAt("check", "eoi")
    /\ num_items = QLen
    /\ lost' = lost + 1
    /\ key' = NoKey
    /\ UNCHANGED <<queueVars, apicVars, mainVars, envVars>>

(* cqueue_write returns false; _handle_keyboard ignores the result.        *)
WFull ==
    /\ IsrAt("check", "eoi")
    /\ num_items = QLen
    /\ lock' = 0
    /\ lost' = lost + 1
    /\ key' = NoKey
    /\ UNCHANGED <<read_i, write_i, buff, num_items, apicVars, mainVars, envVars>>

(* Mutant of WStore: a full queue is written all the same. *)
WStoreUnchecked ==
    /\ IsrAt("check", "unlock")
    /\ buff' = [buff EXCEPT ![write_i] = key]
    /\ write_i' = NextIndex(write_i)
    /\ key' = NoKey
    /\ UNCHANGED <<read_i, num_items, lock, lost, apicVars, mainVars, envVars>>

WStore ==
    /\ IsrAt("check", "unlock")
    /\ num_items # QLen
    /\ buff' = [buff EXCEPT ![write_i] = key]
    /\ write_i' = NextIndex(write_i)
    /\ key' = NoKey
    /\ UNCHANGED <<read_i, num_items, lock, lost, apicVars, mainVars, envVars>>

WUnlock ==
    /\ IsrAt("unlock", "count")
    /\ lock' = 0
    /\ UNCHANGED <<read_i, write_i, buff, num_items, key, lost, apicVars, mainVars, envVars>>

(* Mutant of WCount: the value is stored but never counted. *)
WCountMissing ==
    /\ IsrAt("count", "eoi")
    /\ UNCHANGED <<key, lost, queueVars, apicVars, mainVars, envVars>>

(* The count is raised after the lock has been released.                   *)
WCount ==
    /\ IsrAt("count", "eoi")
    /\ num_items' = num_items + 1
    /\ UNCHANGED <<read_i, write_i, buff, lock, key, lost, apicVars, mainVars, envVars>>

Tick ==
    /\ IsrAt("tick", "eoi")
    /\ kernel_timer_secs' = kernel_timer_secs + 1
    /\ UNCHANGED <<iflag, irr, isr, key, lost, queueVars, mainVars, envVars>>

(* Mutant of Eoi: the interrupt is not acknowledged. *)
EoiMissing ==
    /\ IsrAt("eoi", "iret")
    /\ UNCHANGED <<key, lost, queueVars, apicVars, mainVars, envVars>>

(* The end-of-interrupt write retires the highest vector in service.       *)
Eoi ==
    /\ IsrAt("eoi", "iret")
    /\ isr' = {v \in isr : \E w \in isr : w > v}
    /\ UNCHANGED <<iflag, irr, kernel_timer_secs, key, lost, queueVars, mainVars, envVars>>

(* iretq restores the flags of the interrupted code, IF set among them.    *)
Iret ==
    /\ IsrAt("iret", "none")
    /\ iflag' = TRUE
    /\ UNCHANGED <<irr, isr, kernel_timer_secs, key, lost, queueVars, mainVars, envVars>>

IsrStep ==
    \/ KbdRead \/ WLock \/ WFull \/ WStore \/ WUnlock \/ WCount \/ Tick \/ Eoi \/ Iret

-----------------------------------------------------------------------------
(* The devices.  The 8042 holds one scan code; while it is unread the      *)
(* keyboard keeps further ones back.  A request for a vector that is       *)
(* already requested merges with it.                                       *)

KeyPress(k) ==
    /\ pressed < MaxKeys
    /\ obuf = NoKey
    /\ obuf' = k
    /\ pressed' = pressed + 1
    /\ irr' = irr \union {KEYBOARD_VECTOR}
    /\ UNCHANGED <<fired, iflag, isr, kernel_timer_secs, queueVars, mainVars, isrVars>>

TimerFire ==
    /\ fired < MaxTicks
    /\ fired' = fired + 1
    /\ irr' = irr \union {LAPICTMR_VECTOR}
    /\ UNCHANGED <<obuf, pressed, iflag, isr, kernel_timer_secs, queueVars, mainVars, isrVars>>

Next ==
    \/ MainStep
    \/ TakeInterrupt
    \/ IsrStep
    \/ \E k \in Keys : KeyPress(k)
    \/ TimerFire

(* The CPU keeps executing: the loop when no handler runs, the handler     *)
(* otherwise, and a deliverable interrupt is delivered.  Nothing obliges   *)
(* the devices to do anything.                                             *)
Fairness ==
    /\ WF_vars(MainStep)
    /\ SF_vars(TakeInterrupt)
    /\ WF_vars(IsrStep)

Spec == Init /\ [][Next]_vars
FairSpec == Spec /\ Fairness
-----------------------------------------------------------------------------
(* Properties.                                                             *)

MainLocked == mpc \in {"guard", "take", "dec", "unlock", "fatal"}
IsrLocked  == ipc \in {"check", "unlock"}
Stored     == ipc \in {"unlock", "count"}      \* in buff, not yet counted
InHand     == ipc \in {"lock", "check"}        \* read from the port, not yet in buff

(* How many values lie between the two cursors: num_items lags behind them *)
(* while a write is uncounted and while a read is not yet subtracted.      *)
Span == num_items + (IF Stored THEN 1 ELSE 0) - (IF mpc = "dec" THEN 1 ELSE 0)

Slot(j) == IF read_i + j - 1 < QLen THEN read_i + j - 1 ELSE read_i + j - 1 - QLen

(* The queue's content, oldest first.                                      *)
Contents == [j \in 1 .. Span |-> buff[Slot(j)]]

(* Types, and the bounds of the cursors and of num_items.                  *)
TypeOK ==
    /\ read_i \in 0 .. QLen - 1
    /\ write_i \in 0 .. QLen - 1
    /\ buff \in [0 .. QLen - 1 -> Keys \union {NoKey}]
    /\ num_items \in 0 .. QLen
    /\ lock \in {0, 1}
    /\ iflag \in BOOLEAN
    /\ irr \subseteq Vectors
    /\ isr \subseteq Vectors
    /\ kernel_timer_secs \in Nat
    /\ obuf \in Keys \union {NoKey}
    /\ mpc \in {"poll", "cli", "lock", "guard", "take", "dec", "unlock", "sti",
                "dispatch", "fatal"}
    /\ scanCode \in Keys \union {NoKey}
    /\ ipc \in {"none", "inb", "lock", "check", "unlock", "count", "tick", "eoi", "iret"}
    /\ key \in Keys \union {NoKey}
    /\ pressed \in 0 .. MaxKeys
    /\ fired \in 0 .. MaxTicks
    /\ delivered \in Seq(Keys \union {NoKey})
    /\ lost \in Nat
    /\ events \in Seq(Keys)

(* The keyboard handler never spins on a lock that the loop it interrupted *)
(* holds (kernel.c's reason for disabling interrupts around cqueue_read).  *)
NoDoubleLock == ipc = "lock" => ~MainLocked

(* cqueue_read never meets an empty queue: the loop's unlocked test of     *)
(* num_items, made with interrupts on, still holds when the read runs.     *)
NeverFatal == mpc # "fatal"

(* Each end's cursor is where the count says: no value is overwritten      *)
(* before it is read and none is read twice.                               *)
RingInv ==
    /\ Span \in 0 .. QLen
    /\ write_i = read_i + Span \/ write_i + QLen = read_i + Span

(* Every key ever pressed is in exactly one place: the 8042, the handler's *)
(* hand, the queue, already delivered, or dropped by a full queue.         *)
NoKeyVanishes ==
    pressed = (IF obuf # NoKey THEN 1 ELSE 0) + (IF InHand THEN 1 ELSE 0)
              + Span + Len(delivered) + lost

(* An unread scan code always has an interrupt on its way: the keyboard    *)
(* cannot be left stuck with a full buffer and no request.                 *)
NoStrandedKey == obuf # NoKey <=> KEYBOARD_VECTOR \in irr \/ ipc = "inb"

(* The queue is a bounded FIFO for the values that cross it, and drops one *)
(* only when it is full.                                                   *)
Fifo == INSTANCE BoundedFifo
            WITH Values <- Keys, Capacity <- QLen,
                 chan <- Contents, delivered <- delivered, lost <- lost
ImplementsFifo == Fifo!FifoSpec

(* How many of the first p scan codes of s are mapped.                     *)
MappedUpTo(s, p) == Cardinality({q \in 1 .. p : HasEntry(s[q])})

(* The terminal sees the mapped scan codes in the order they were queued:  *)
(* its n-th event is the n-th mapped scan code taken out of the queue.     *)
KeysInOrder ==
    /\ Len(events) <= MappedUpTo(delivered, Len(delivered))
    /\ \A p \in 1 .. Len(delivered) :
           LET n == MappedUpTo(delivered, p)
           IN  HasEntry(delivered[p]) /\ n <= Len(events) => events[n] = delivered[p]

(* Every interrupt request is eventually serviced.                         *)
InterruptServed == \A v \in Vectors : v \in irr ~> v \notin irr

(* Every mapped key that was accepted by the queue reaches the terminal.   *)
KeysReachTerminal ==
    \A n \in 1 .. MaxKeys :
        MappedUpTo(delivered \o Contents, Len(delivered) + Span) >= n ~> Len(events) >= n

(* cqueue_write returns, true or false, every time it is called.           *)
WriteReturns == ipc = "lock" ~> ipc = "eoi"

=============================================================================
