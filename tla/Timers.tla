-------------------------------- MODULE Timers --------------------------------
(***************************************************************************)
(* The HPET and the local APIC's timer: hpet_init and lapic_init in        *)
(* kernel_main's order, then sleeps of both kinds, in any order, while the *)
(* clocks run and the two timer interrupts come.  A C function is the      *)
(* sequence of its accesses to registers and shared variables; a call      *)
(* inside it is concatenation.                                             *)
(*                                                                         *)
(* Time is counted in HPET ticks.  The processor takes at most MaxDelay of *)
(* them for an access and its interrupts, and takes a pending interrupt    *)
(* within the tick and before its next instruction if IF is set.           *)
(***************************************************************************)
EXTENDS Integers, Sequences

CONSTANTS
    FemtosPerSec,       \* FEMTOSECS_PER_SEC,
    TickPeriod,         \* and the femtoseconds of an HPET tick
    MsPerSec,           \* 1000 in the code,
    Tenth,              \* and 10: the calibration takes a tenth of a second
    Sleeps,             \* the arguments of the sleeps, in ms
    LapicRate,          \* counts of the local APIC's timer per HPET tick
    CountBits,          \* the width of its count, 32 in hardware
    MaxDelay,
    BspIsZero,          \* whether the boot processor has ID 0
    Firmware,           \* what the firmware may leave in the two routing fields
    Irq0Input,          \* the I/O APIC's input for IRQ 0, override included
    CounterCap,         \* the main counter is followed up to here,
    SecsCap             \* and kernel_timer_secs up to here

(* An integer division, the first of two.                                  *)
hpet_frequency == FemtosPerSec \div TickPeriod

ASSUME RateAssumption ==
    /\ {TickPeriod, MsPerSec, LapicRate, CountBits, SecsCap} \subseteq Nat \ {0}
    /\ {FemtosPerSec, MaxDelay, CounterCap, Irq0Input} \subseteq Nat
    /\ Sleeps \subseteq Nat
    /\ Firmware \subseteq [legacy : BOOLEAN, route : Nat] /\ BspIsZero \in BOOLEAN
    /\ Tenth \in Nat \ {0, 1} /\ MsPerSec % Tenth = 0
    /\ \A n \in Sleeps \union {MsPerSec \div Tenth} :
           (hpet_frequency \div MsPerSec) * n \in 1 .. CounterCap - 1

VARIABLES
    fn, ms,             \* the sleep called last, and its argument
    todo,               \* the accesses still to be made
    lag,                \* ticks since the last one
    hp,                 \* HPET: enable, main counter, timer 0
    _ticks,
    la,                 \* local APIC timer: LVT entry, initial and current count
    ticksin100ms,
    iflag, istate,         \* the interrupt flag, and lapic_init's copy of it
    irr,                \* pending interrupts
    kernel_timer_secs,
    slept,              \* history: ticks since the sleep was called,
    elapsed             \* and since the local APIC's timer was started (-1: not yet)

timerVars == <<hp, _ticks, la, ticksin100ms>>
intVars == <<iflag, istate, irr, kernel_timer_secs>>
vars == <<fn, ms, todo, lag, timerVars, intVars, slept, elapsed>>

TIMER_VECTOR == 32
LAPICTMR_VECTOR == 35
Least(a, b) == IF a < b THEN a ELSE b

-----------------------------------------------------------------------------
(* The functions, as sequences of accesses.                                *)

hpet_disable == <<"disable">>
hpet_enable == <<"enable">>

hpet_reset == hpet_disable \o <<"clear_ticks">>

(* Mutant of hpet_one_shot: the main counter goes on from where it stopped. *)
OneShotKeepsCounter == hpet_reset \o <<"one_shot", "comparator", "int_on">> \o hpet_enable

hpet_one_shot ==
    hpet_reset \o <<"clear_counter", "one_shot", "comparator", "int_on">> \o hpet_enable

hpet_sleep == hpet_one_shot \o <<"await_tick">> \o hpet_disable

hpet_sleep_counter ==
    hpet_disable \o <<"int_off", "clear_counter">> \o hpet_enable \o <<"await_counter">>
                 \o hpet_disable

lapic_time_stop == <<"stop_count", "mask_lvt">>

(* Mutant of lapic_timer_init: the count is read before the sleep. *)
ReadBeforeSleep ==
    lapic_time_stop \o <<"count_max", "read_count">> \o hpet_sleep_counter
                    \o lapic_time_stop \o <<"set_count", "periodic_lvt">>

lapic_timer_init ==
    lapic_time_stop \o <<"count_max">> \o hpet_sleep_counter \o <<"read_count">>
                    \o lapic_time_stop \o <<"set_count", "periodic_lvt">>

(* Mutant of lapic_init: the interrupt state is not restored. *)
LapicInitNoRestore == <<"cli">> \o lapic_timer_init

lapic_init == <<"cli">> \o lapic_timer_init \o <<"restore">>

hpet_init == <<"select_input", "periodic", "int_on", "redirect", "clear_ticks">>

Body(f) == IF f = "hpet_sleep" THEN hpet_sleep ELSE hpet_sleep_counter

(* (hpet_frequency / 1000) * ms, an integer division.                      *)
Limit(n) == (hpet_frequency \div MsPerSec) * n
CalibrationMs == MsPerSec \div Tenth       \* lapic_timer_init sleeps 100 ms

(* The firmware may have left the HPET running, timer 0 on any input, and  *)
(* legacy replacement on.                                                  *)
Init ==
    /\ fn = "boot" /\ ms = CalibrationMs
    /\ todo = hpet_init \o lapic_init
    /\ lag = 0
    /\ \E on \in BOOLEAN, left \in Firmware :
           hp = [on |-> on, counter |-> 0, comparator |-> 0, periodic |-> FALSE,
                 int_on |-> FALSE, legacy |-> left.legacy, route |-> left.route, routed |-> FALSE]
    /\ _ticks = 0
    /\ la = [lvt |-> "masked", initial |-> 0, count |-> 0]
    /\ ticksin100ms = 0
    /\ iflag = TRUE /\ istate = TRUE /\ irr = {}
    /\ kernel_timer_secs = 0
    /\ slept = 0 /\ elapsed = -1

-----------------------------------------------------------------------------
(* The processor.  An instruction waits for the interrupts before it.      *)

Interrupted == iflag /\ irr # {}

Access(op) ==
    /\ todo # << >> /\ Head(todo) = op
    /\ ~Interrupted
    /\ todo' = Tail(todo)
    /\ lag' = 0
    /\ UNCHANGED <<fn, ms, kernel_timer_secs, irr, slept>>

HpetAccess(op, h) ==
    Access(op) /\ hp' = h /\ UNCHANGED <<_ticks, la, ticksin100ms, iflag, istate, elapsed>>

LapicAccess(op, a) ==
    Access(op) /\ la' = a /\ UNCHANGED <<hp, _ticks, ticksin100ms, iflag, istate, elapsed>>

Disable == HpetAccess("disable", [hp EXCEPT !.on = FALSE])
Enable == HpetAccess("enable", [hp EXCEPT !.on = TRUE])
ClearCounter == HpetAccess("clear_counter", [hp EXCEPT !.counter = 0])
OneShot == HpetAccess("one_shot", [hp EXCEPT !.periodic = FALSE])
Periodic == HpetAccess("periodic", [hp EXCEPT !.periodic = TRUE])
Comparator == HpetAccess("comparator", [hp EXCEPT !.comparator = Limit(ms)])
IntOn == HpetAccess("int_on", [hp EXCEPT !.int_on = TRUE])
IntOff == HpetAccess("int_off", [hp EXCEPT !.int_on = FALSE])

(* selected_ioapic_input, 0, is ORed into the route field, which stays as   *)
(* the firmware left it.  Legacy replacement is read for the log alone.     *)
SelectInput == HpetAccess("select_input", hp)

(* IRQ 0's entry of the redirection table, for bsp_lapic_id: still 0, as   *)
(* cpu_init comes later.                                                   *)
Redirect == HpetAccess("redirect", [hp EXCEPT !.routed = BspIsZero])

(* Timer 0's interrupt comes in on input 2 under legacy replacement, else  *)
(* on the one in its route field; the boot processor sees it if the entry  *)
(* that hpet_init has redirected is that input's.                          *)
LegacyInput == 2
Delivered(h) == h.routed /\ (IF h.legacy THEN LegacyInput ELSE h.route) = Irq0Input

ClearTicks ==
    Access("clear_ticks") /\ _ticks' = 0 /\ UNCHANGED <<hp, la, ticksin100ms, iflag, istate, elapsed>>

(* The two waiting loops, a round at a time.                               *)
Await(op, done) ==
    /\ todo # << >> /\ Head(todo) = op
    /\ ~Interrupted
    /\ todo' = IF done THEN Tail(todo) ELSE todo
    /\ lag' = 0
    /\ UNCHANGED <<fn, ms, timerVars, intVars, slept, elapsed>>

AwaitTick == Await("await_tick", _ticks # 0)
AwaitCounter == Await("await_counter", hp.counter >= Limit(ms))

MaxCount == 2 ^ CountBits - 1
StopCount == LapicAccess("stop_count", [la EXCEPT !.initial = 0, !.count = 0])
MaskLvt == LapicAccess("mask_lvt", [la EXCEPT !.lvt = "masked"])
CountMax == LapicAccess("count_max", [la EXCEPT !.initial = MaxCount, !.count = MaxCount])
PeriodicLvt == LapicAccess("periodic_lvt", [la EXCEPT !.lvt = "periodic"])

ReadCount ==
    /\ Access("read_count")
    /\ ticksin100ms' = MaxCount - la.count
    /\ UNCHANGED <<hp, _ticks, la, iflag, istate, elapsed>>

(* A product of 32-bit words.                                              *)
SetCount ==
    LET n == (ticksin100ms * Tenth) % 2 ^ CountBits
    IN  /\ Access("set_count")
        /\ la' = [la EXCEPT !.initial = n, !.count = n]
        /\ elapsed' = 0
        /\ UNCHANGED <<hp, _ticks, ticksin100ms, iflag, istate>>

Cli ==
    /\ Access("cli")
    /\ istate' = iflag /\ iflag' = FALSE
    /\ UNCHANGED <<timerVars, elapsed>>

Restore ==
    /\ Access("restore")
    /\ iflag' = istate
    /\ UNCHANGED <<timerVars, istate, elapsed>>

Call(f, n) ==
    /\ todo = << >> /\ ~Interrupted
    /\ fn' = f /\ ms' = n
    /\ todo' = Body(f)
    /\ lag' = 0 /\ slept' = 0
    /\ UNCHANGED <<timerVars, intVars, elapsed>>

Running ==
    \/ Disable \/ Enable \/ ClearCounter \/ OneShot \/ Periodic \/ Comparator
    \/ IntOn \/ IntOff \/ SelectInput \/ Redirect \/ ClearTicks \/ AwaitTick \/ AwaitCounter
    \/ StopCount \/ MaskLvt \/ CountMax \/ PeriodicLvt \/ ReadCount \/ SetCount
    \/ Cli \/ Restore

-----------------------------------------------------------------------------
(* The handlers run with interrupts off, to their end.                     *)

(* isr_save to isr_restore: the interrupted program finds its registers    *)
(* and flags as they were, and goes on.                                    *)
Resumed == UNCHANGED <<fn, ms, todo, lag, iflag, istate>>

hpet_isr == _ticks' = Least(_ticks + 1, 2)

(* Timer 0 is edge triggered: writing a 0 to its status bit does nothing.  *)
hpet_ack == UNCHANGED hp

_handle_timer ==
    /\ iflag /\ TIMER_VECTOR \in irr
    /\ irr' = irr \ {TIMER_VECTOR}
    /\ hpet_isr /\ hpet_ack
    /\ Resumed
    /\ UNCHANGED <<la, ticksin100ms, kernel_timer_secs, slept, elapsed>>

_handle_lapic_timer ==
    /\ iflag /\ LAPICTMR_VECTOR \in irr
    /\ irr' = irr \ {LAPICTMR_VECTOR}
    /\ kernel_timer_secs' = Least(kernel_timer_secs + 1, SecsCap)
    /\ Resumed
    /\ UNCHANGED <<timerVars, slept, elapsed>>

-----------------------------------------------------------------------------
(* A tick of the clocks.  Timer 0 fires when the counter meets the         *)
(* comparator; in periodic mode, which only the firmware has programmed,   *)
(* at any time.  The other timer stops at 0 or, if periodic, starts again. *)

Longest(start, steps) == start + steps * MaxDelay
SleepMost == Longest(CounterCap, Len(hpet_sleep) + 1)
CalibrationMost == Longest(Limit(CalibrationMs), Len(hpet_sleep_counter) + 1)
ElapsedCap == SecsCap * Tenth * CalibrationMost + 1

(* Setting the mode of the local APIC's timer takes less than a second.    *)
ASSUME WidthAssumption ==
    /\ 2 ^ CountBits \in Nat \ {0, 1}
    /\ MaxDelay < Tenth * Limit(CalibrationMs)

HpetFires(fires) ==
    /\ fires => hp.on /\ hp.int_on /\ Delivered(hp)
    /\ ~hp.periodic => (fires <=> /\ hp.on /\ hp.int_on /\ Delivered(hp)
                                  /\ hp.counter + 1 = hp.comparator)

LapicFires == la.count \in 1 .. LapicRate /\ la.lvt = "periodic"

Tick ==
    /\ ~Interrupted
    /\ todo = << >> \/ lag < MaxDelay
    /\ \E fires \in BOOLEAN :
           /\ HpetFires(fires)
           /\ irr' = irr \union {v \in {TIMER_VECTOR, LAPICTMR_VECTOR} :
                                    IF v = TIMER_VECTOR THEN fires ELSE LapicFires}
    /\ hp' = [hp EXCEPT !.counter = IF hp.on THEN Least(@ + 1, CounterCap) ELSE @]
    /\ la' = [la EXCEPT !.count = IF LapicFires THEN la.initial
                                 ELSE IF @ <= LapicRate THEN 0 ELSE @ - LapicRate]
    /\ lag' = IF todo = << >> THEN 0 ELSE lag + 1
    /\ slept' = IF todo = << >> THEN slept ELSE Least(slept + 1, SleepMost + 1)
    /\ elapsed' = IF elapsed = -1 THEN -1 ELSE Least(elapsed + 1, ElapsedCap)
    /\ UNCHANGED <<fn, ms, todo, _ticks, ticksin100ms, iflag, istate, kernel_timer_secs>>

Next ==
    \/ Running \/ \E f \in {"hpet_sleep", "hpet_sleep_counter"}, n \in Sleeps : Call(f, n)
    \/ _handle_timer \/ _handle_lapic_timer \/ Tick

Spec ==
    /\ Init /\ [][Next]_vars
    /\ WF_vars(Running) /\ WF_vars(_handle_timer) /\ WF_vars(_handle_lapic_timer) /\ WF_vars(Tick)

-----------------------------------------------------------------------------
(* hpet_sleep(ms) and hpet_sleep_counter(ms) against time itself, the      *)
(* counter's ticks of TickPeriod femtoseconds, both sides times MsPerSec.  *)
(* A sleep is short by less than a tick for every millisecond asked, which *)
(* is what the two integer divisions lose, and long by no more than its    *)
(* accesses take, whatever the sleeps before have left in counter,         *)
(* comparator, mode and _ticks.                                            *)
SleepExact ==
    LET tick == TickPeriod * MsPerSec
    IN  fn # "boot" /\ todo = << >> =>
            /\ FemtosPerSec * ms < (slept + ms) * tick
            /\ slept * tick <= FemtosPerSec * ms + ((Len(Body(fn)) + 1) * MaxDelay) * tick

(* The product that lapic_timer_init multiplies unchecked has fitted the   *)
(* register.                                                               *)
SecondFits == ticksin100ms * Tenth <= MaxCount

(* Then kernel_timer_secs counts seconds, with any sleeps and timer        *)
(* interrupts in between: each is short of a second by no more than the    *)
(* divisions lose, MsPerSec ticks, and long by no more than ten times what *)
(* the calibration's accesses took.                                        *)
SecondsExact ==
    elapsed \in 0 .. ElapsedCap - 1 /\ SecondFits =>
        /\ kernel_timer_secs * (FemtosPerSec - MsPerSec * TickPeriod) <= elapsed * TickPeriod
        /\ iflag /\ ~Interrupted /\ kernel_timer_secs < SecsCap =>
               elapsed * TickPeriod <=
                   (kernel_timer_secs + 1)
                       * (FemtosPerSec
                          + (Tenth * ((Len(hpet_sleep_counter) + 1) * MaxDelay)) * TickPeriod)

(* Boot and hpet_sleep_counter end on every machine, also where the count   *)
(* has wrapped; hpet_sleep, which waits for timer 0's interrupt, ends where *)
(* the firmware left timer 0 on the input that hpet_init redirects.         *)
SleepReturns ==
    todo # << >> /\ (fn = "hpet_sleep" => Delivered(hp)) ~> todo = << >>
=============================================================================
