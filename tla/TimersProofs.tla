---------------------------- MODULE TimersProofs ----------------------------
(***************************************************************************)
(* Proofs about the timers for every tick period, delay and set of sleeps: *)
(* a sleep lasts as long as it says but for what the integer divisions     *)
(* lose, and the calibrated timer of the local APIC counts seconds.        *)
(***************************************************************************)
EXTENDS Timers, TLAPS

(* The accesses there are.                                                 *)
Ops == {"disable", "enable", "clear_counter", "one_shot", "periodic", "comparator",
        "int_on", "int_off", "select_input", "redirect", "clear_ticks", "await_tick", "await_counter",
        "stop_count", "mask_lvt", "count_max", "periodic_lvt", "read_count", "set_count",
        "cli", "restore"}

-----------------------------------------------------------------------------
(* The functions' accesses, one by one.                                    *)

Boot == hpet_init \o lapic_init
Script(f) == IF f = "boot" THEN Boot ELSE Body(f)

(* u is s followed by t.                                                   *)
Joins(u, s, t) ==
    s \in Seq(Ops) /\ t \in Seq(Ops) =>
        /\ u \in Seq(Ops) /\ Len(u) = Len(s) + Len(t)
        /\ Len(s) \in Nat /\ Len(t) \in Nat
        /\ \A i \in 1 .. Len(s) + Len(t) : u[i] = IF i <= Len(s) THEN s[i] ELSE t[i - Len(s)]

(* Concatenation, as the proofs use it.                                    *)
LEMMA JoinIs == ASSUME NEW s, NEW t PROVE Joins(s \o t, s, t)
  BY DEF Joins

(* hpet_sleep's accesses, with those of the functions it calls.            *)
LEMMA SleepScript ==
    /\ hpet_sleep \in Seq(Ops) /\ Len(hpet_sleep) = 9
    /\ hpet_sleep[1] = "disable" /\ hpet_sleep[2] = "clear_ticks"
    /\ hpet_sleep[3] = "clear_counter" /\ hpet_sleep[4] = "one_shot"
    /\ hpet_sleep[5] = "comparator" /\ hpet_sleep[6] = "int_on"
    /\ hpet_sleep[7] = "enable" /\ hpet_sleep[8] = "await_tick" /\ hpet_sleep[9] = "disable"
<1> DEFINE p == <<"clear_counter", "one_shot", "comparator", "int_on">>
           a == hpet_reset \o p
           s == hpet_one_shot \o <<"await_tick">>
<1>1. /\ <<"disable">> \in Seq(Ops) /\ <<"clear_ticks">> \in Seq(Ops)
      /\ p \in Seq(Ops) /\ Len(p) = 4
      /\ <<"enable">> \in Seq(Ops) /\ <<"await_tick">> \in Seq(Ops)
  BY DEF Ops
<1>2. /\ Joins(hpet_reset, <<"disable">>, <<"clear_ticks">>)
      /\ Joins(a, hpet_reset, p) /\ Joins(hpet_one_shot, a, <<"enable">>)
      /\ Joins(s, hpet_one_shot, <<"await_tick">>) /\ Joins(hpet_sleep, s, <<"disable">>)
  BY JoinIs DEF hpet_sleep, hpet_one_shot, hpet_reset, hpet_disable, hpet_enable
<1> HIDE DEF a, s
<1>3. /\ hpet_reset \in Seq(Ops) /\ Len(hpet_reset) = 2
      /\ hpet_reset[1] = "disable" /\ hpet_reset[2] = "clear_ticks"
  BY <1>1, <1>2 DEF Joins
<1>4. /\ a \in Seq(Ops) /\ Len(a) = 6
      /\ \A i \in 1 .. 6 : a[i] = IF i <= 2 THEN hpet_reset[i] ELSE p[i - 2]
  BY <1>1, <1>2, <1>3 DEF Joins
<1>5. /\ hpet_one_shot \in Seq(Ops) /\ Len(hpet_one_shot) = 7
      /\ \A i \in 1 .. 7 : hpet_one_shot[i] = IF i <= 6 THEN a[i] ELSE "enable"
  BY <1>1, <1>2, <1>4 DEF Joins
<1>6. /\ s \in Seq(Ops) /\ Len(s) = 8
      /\ \A i \in 1 .. 8 : s[i] = IF i <= 7 THEN hpet_one_shot[i] ELSE "await_tick"
  BY <1>1, <1>2, <1>5 DEF Joins
<1>7. /\ hpet_sleep \in Seq(Ops) /\ Len(hpet_sleep) = 9
      /\ \A i \in 1 .. 9 : hpet_sleep[i] = IF i <= 8 THEN s[i] ELSE "disable"
  BY <1>1, <1>2, <1>6 DEF Joins
<1> QED
  BY <1>3, <1>4, <1>5, <1>6, <1>7

(* hpet_sleep_counter's accesses.                                          *)
LEMMA CounterScript ==
    /\ hpet_sleep_counter \in Seq(Ops) /\ Len(hpet_sleep_counter) = 6
    /\ hpet_sleep_counter[1] = "disable" /\ hpet_sleep_counter[2] = "int_off"
    /\ hpet_sleep_counter[3] = "clear_counter" /\ hpet_sleep_counter[4] = "enable"
    /\ hpet_sleep_counter[5] = "await_counter" /\ hpet_sleep_counter[6] = "disable"
<1> DEFINE p == <<"int_off", "clear_counter">>
           a == <<"disable">> \o p
           b == a \o <<"enable">>
           c == b \o <<"await_counter">>
<1>1. /\ <<"disable">> \in Seq(Ops) /\ p \in Seq(Ops) /\ Len(p) = 2
      /\ <<"enable">> \in Seq(Ops) /\ <<"await_counter">> \in Seq(Ops)
  BY DEF Ops
<1>2. /\ Joins(a, <<"disable">>, p) /\ Joins(b, a, <<"enable">>)
      /\ Joins(c, b, <<"await_counter">>) /\ Joins(hpet_sleep_counter, c, <<"disable">>)
  BY JoinIs DEF hpet_sleep_counter, hpet_disable, hpet_enable
<1> HIDE DEF a, b, c
<1>3. /\ a \in Seq(Ops) /\ Len(a) = 3
      /\ \A i \in 1 .. 3 : a[i] = IF i <= 1 THEN "disable" ELSE p[i - 1]
  BY <1>1, <1>2 DEF Joins
<1>4. /\ b \in Seq(Ops) /\ Len(b) = 4
      /\ \A i \in 1 .. 4 : b[i] = IF i <= 3 THEN a[i] ELSE "enable"
  BY <1>1, <1>2, <1>3 DEF Joins
<1>5. /\ c \in Seq(Ops) /\ Len(c) = 5
      /\ \A i \in 1 .. 5 : c[i] = IF i <= 4 THEN b[i] ELSE "await_counter"
  BY <1>1, <1>2, <1>4 DEF Joins
<1>6. /\ hpet_sleep_counter \in Seq(Ops) /\ Len(hpet_sleep_counter) = 6
      /\ \A i \in 1 .. 6 : hpet_sleep_counter[i] = IF i <= 5 THEN c[i] ELSE "disable"
  BY <1>1, <1>2, <1>5 DEF Joins
<1> QED
  BY <1>3, <1>4, <1>5, <1>6

(* The boot code's accesses, hpet_init's and lapic_init's with the         *)
(* calibration.                                                            *)
LEMMA BootScript ==
    /\ Boot \in Seq(Ops) /\ Len(Boot) = 21
    /\ Boot[1] = "select_input" /\ Boot[2] = "periodic" /\ Boot[3] = "int_on" /\ Boot[4] = "redirect"
    /\ Boot[5] = "clear_ticks"
    /\ Boot[6] = "cli" /\ Boot[7] = "stop_count" /\ Boot[8] = "mask_lvt" /\ Boot[9] = "count_max"
    /\ Boot[10] = "disable" /\ Boot[11] = "int_off" /\ Boot[12] = "clear_counter"
    /\ Boot[13] = "enable" /\ Boot[14] = "await_counter" /\ Boot[15] = "disable"
    /\ Boot[16] = "read_count" /\ Boot[17] = "stop_count" /\ Boot[18] = "mask_lvt"
    /\ Boot[19] = "set_count" /\ Boot[20] = "periodic_lvt" /\ Boot[21] = "restore"
<1> DEFINE h == hpet_init
           p == lapic_time_stop
           q == <<"set_count", "periodic_lvt">>
           a == p \o <<"count_max">>
           b == a \o hpet_sleep_counter
           c == b \o <<"read_count">>
           d == c \o p
           e == <<"cli">> \o lapic_timer_init
<1>1. /\ h \in Seq(Ops) /\ Len(h) = 5 /\ p \in Seq(Ops) /\ Len(p) = 2
      /\ h[1] = "select_input" /\ h[2] = "periodic" /\ h[3] = "int_on" /\ h[4] = "redirect"
      /\ h[5] = "clear_ticks"
      /\ p[1] = "stop_count" /\ p[2] = "mask_lvt"
  BY DEF Ops, hpet_init, lapic_time_stop
<1>2. /\ <<"count_max">> \in Seq(Ops) /\ <<"read_count">> \in Seq(Ops)
      /\ <<"cli">> \in Seq(Ops) /\ <<"restore">> \in Seq(Ops) /\ q \in Seq(Ops) /\ Len(q) = 2
      /\ q[1] = "set_count" /\ q[2] = "periodic_lvt"
  BY DEF Ops
<1>3. /\ Joins(a, p, <<"count_max">>) /\ Joins(b, a, hpet_sleep_counter)
      /\ Joins(c, b, <<"read_count">>) /\ Joins(d, c, p) /\ Joins(lapic_timer_init, d, q)
      /\ Joins(e, <<"cli">>, lapic_timer_init) /\ Joins(lapic_init, e, <<"restore">>)
      /\ Joins(Boot, h, lapic_init)
  BY JoinIs DEF Boot, lapic_init, lapic_timer_init
<1> HIDE DEF a, b, c, d, e, h, p, q
<1>4. /\ a \in Seq(Ops) /\ Len(a) = 3
      /\ \A i \in 1 .. 3 : a[i] = IF i <= 2 THEN p[i] ELSE "count_max"
  BY <1>1, <1>2, <1>3 DEF Joins
<1>5. /\ b \in Seq(Ops) /\ Len(b) = 9
      /\ \A i \in 1 .. 9 : b[i] = IF i <= 3 THEN a[i] ELSE hpet_sleep_counter[i - 3]
  <2>1. hpet_sleep_counter \in Seq(Ops) /\ Len(hpet_sleep_counter) = 6
    BY CounterScript
  <2> QED
    BY <1>3, <1>4, <2>1 DEF Joins
<1>6. /\ c \in Seq(Ops) /\ Len(c) = 10
      /\ \A i \in 1 .. 10 : c[i] = IF i <= 9 THEN b[i] ELSE "read_count"
  BY <1>2, <1>3, <1>5 DEF Joins
<1>7. /\ d \in Seq(Ops) /\ Len(d) = 12
      /\ \A i \in 1 .. 12 : d[i] = IF i <= 10 THEN c[i] ELSE p[i - 10]
  BY <1>1, <1>3, <1>6 DEF Joins
<1>8. /\ lapic_timer_init \in Seq(Ops) /\ Len(lapic_timer_init) = 14
      /\ \A i \in 1 .. 14 : lapic_timer_init[i] = IF i <= 12 THEN d[i] ELSE q[i - 12]
  BY <1>2, <1>3, <1>7 DEF Joins
<1>9. /\ e \in Seq(Ops) /\ Len(e) = 15
      /\ \A i \in 1 .. 15 : e[i] = IF i <= 1 THEN "cli" ELSE lapic_timer_init[i - 1]
  BY <1>2, <1>3, <1>8 DEF Joins
<1>10. /\ lapic_init \in Seq(Ops) /\ Len(lapic_init) = 16
       /\ \A i \in 1 .. 16 : lapic_init[i] = IF i <= 15 THEN e[i] ELSE "restore"
  BY <1>2, <1>3, <1>9, SMTT(40) DEF Joins
<1>11. /\ Boot \in Seq(Ops) /\ Len(Boot) = 21
       /\ \A i \in 1 .. 21 : Boot[i] = IF i <= 5 THEN h[i] ELSE lapic_init[i - 5]
  BY <1>1, <1>3, <1>10 DEF Joins
<1>12. /\ a[1] = "stop_count" /\ a[2] = "mask_lvt" /\ a[3] = "count_max"
  BY <1>1, <1>4
<1>13. /\ d[1] = "stop_count" /\ d[2] = "mask_lvt" /\ d[3] = "count_max"
       /\ d[4] = "disable" /\ d[5] = "int_off" /\ d[6] = "clear_counter"
       /\ d[7] = "enable" /\ d[8] = "await_counter" /\ d[9] = "disable"
       /\ d[10] = "read_count" /\ d[11] = "stop_count" /\ d[12] = "mask_lvt"
  BY <1>1, <1>5, <1>6, <1>7, <1>12, CounterScript
<1>14. /\ Boot[1] = "select_input" /\ Boot[2] = "periodic" /\ Boot[3] = "int_on" /\ Boot[4] = "redirect"
       /\ Boot[5] = "clear_ticks"
       /\ Boot[6] = "cli" /\ Boot[21] = "restore"
  BY <1>1, <1>9, <1>10, <1>11
<1>15. \A i \in 1 .. 14 : Boot[i + 6] = lapic_timer_init[i]
  <2> SUFFICES ASSUME NEW i \in 1 .. 14 PROVE Boot[i + 6] = lapic_timer_init[i]
    OBVIOUS
  <2>1. i + 6 \in 1 .. 21 /\ ~(i + 6 <= 5) /\ i + 6 - 5 = i + 1 /\ i + 1 \in 1 .. 15 /\ i + 1 - 1 = i
    OBVIOUS
  <2>2. Boot[i + 6] = lapic_init[i + 1]
    BY <1>11, <2>1, SMTT(40)
  <2>3. lapic_init[i + 1] = e[i + 1]
    BY <1>10, <2>1
  <2>4. e[i + 1] = lapic_timer_init[i]
    BY <1>9, <2>1
  <2> QED
    BY <2>2, <2>3, <2>4
<1>16. \A i \in 1 .. 12 : Boot[i + 6] = d[i]
  BY <1>8, <1>15
<1>17. Boot[13 + 6] = "set_count" /\ Boot[14 + 6] = "periodic_lvt"
  BY <1>2, <1>8, <1>15
<1>18. /\ Boot[1 + 6] = "stop_count" /\ Boot[2 + 6] = "mask_lvt" /\ Boot[3 + 6] = "count_max"
       /\ Boot[4 + 6] = "disable" /\ Boot[5 + 6] = "int_off" /\ Boot[6 + 6] = "clear_counter"
       /\ Boot[7 + 6] = "enable" /\ Boot[8 + 6] = "await_counter" /\ Boot[9 + 6] = "disable"
       /\ Boot[10 + 6] = "read_count" /\ Boot[11 + 6] = "stop_count" /\ Boot[12 + 6] = "mask_lvt"
  BY <1>13, <1>16
<1> QED
  BY <1>11, <1>14, <1>17, <1>18

-----------------------------------------------------------------------------
(* The invariant.                                                          *)

(* How many accesses of the function in progress are made.                 *)
Made == Len(Script(fn)) - Len(todo)

PosInv ==
    /\ fn \in {"boot", "hpet_sleep", "hpet_sleep_counter"}
    /\ todo \in Seq(Ops) /\ Len(todo) <= Len(Script(fn))
    /\ \A i \in 1 .. Len(todo) : todo[i] = Script(fn)[Made + i]

Hpets == [on : BOOLEAN, counter : 0 .. CounterCap, comparator : Nat, periodic : BOOLEAN,
          int_on : BOOLEAN, legacy : BOOLEAN, route : Nat, routed : BOOLEAN]

Lapics == [lvt : {"masked", "periodic"}, initial : Int, count : Int]

TypeInv ==
    /\ ms \in Nat /\ Limit(ms) \in 1 .. CounterCap - 1
    /\ fn = "boot" => ms = CalibrationMs
    /\ lag \in 0 .. MaxDelay /\ (todo = << >> => lag = 0)
    /\ hp \in Hpets /\ _ticks \in Nat
    /\ la \in Lapics
    /\ irr \subseteq {TIMER_VECTOR, LAPICTMR_VECTOR}
    /\ kernel_timer_secs \in 0 .. SecsCap
    /\ slept \in 0 .. SleepMost + 1 /\ ticksin100ms \in Int

(* Interrupts are on outside lapic_init, which restores what it found.     *)
FlagInv ==
    /\ fn = "boot" /\ Made \in 6 .. 20 => ~iflag /\ istate
    /\ fn # "boot" \/ Made < 6 \/ Made = 21 => iflag

(* hpet_sleep_counter for L ticks, n accesses made, t ticks after the call *)
(* and g after the last access.  The upper bound grows by MaxDelay for an  *)
(* access, except while the counter runs: it measures that time itself.    *)
CounterWait(h, g, L, n, t) ==
    /\ n \in {1, 2, 3} => ~h.on
    /\ n = 3 => h.counter = 0
    /\ n <= 3 => t <= n * MaxDelay + g
    /\ n = 4 => /\ h.on /\ h.counter <= t
                /\ h.counter < L => t <= n * MaxDelay + h.counter
                /\ h.counter >= L => t <= n * MaxDelay + L + g
    /\ n >= 5 => L <= t /\ t <= n * MaxDelay + L + g

(* The same for hpet_sleep, k the value of _ticks and q whether the timer  *)
(* has an interrupt pending: from the comparator's match on, one of them   *)
(* shows it, and never before.                                             *)
TickWait(h, k, q, g, L, n, t) ==
    /\ n \in 1 .. 6 => ~h.on /\ ~q
    /\ n \in 2 .. 6 => k = 0
    /\ n \in 3 .. 6 => h.counter = 0
    /\ n \in 4 .. 7 => ~h.periodic
    /\ n \in 5 .. 7 => h.comparator = L
    /\ n \in 6 .. 7 => h.int_on
    /\ n <= 6 => t <= n * MaxDelay + g
    /\ n = 7 => /\ h.on /\ h.counter <= t
                /\ h.counter < L => t <= n * MaxDelay + h.counter
                /\ h.counter >= L /\ Delivered(h) => t <= n * MaxDelay + L + g
                /\ q \/ k # 0 <=> h.counter >= L /\ Delivered(h)
    /\ n >= 8 => L <= t /\ t <= n * MaxDelay + L + g

(* The local APIC's timer: masked until lapic_timer_init has calibrated it; *)
(* the count read after the calibration's sleep is the sleep's length,      *)
(* unless it has run out.                                                   *)
Calibrated ==
    \E t \in Limit(CalibrationMs) .. CalibrationMost : ticksin100ms = LapicRate * t

(* What is left of a count of MaxCount after t ticks: it stops at 0.       *)
Left(t) == IF LapicRate * t <= MaxCount THEN MaxCount - LapicRate * t ELSE 0

Pending == IF LAPICTMR_VECTOR \in irr THEN 1 ELSE 0

(* From then on the timer fires every K ticks.  It has done so F times, and *)
(* will the next time in r ticks; every interrupt but a pending one has     *)
(* been counted.  One can be pending while another comes only as long as    *)
(* lapic_init holds interrupts off, and that is shorter than two periods.   *)
Counting(K, r, F) ==
    /\ K \in Limit(MsPerSec) .. Tenth * CalibrationMost /\ MaxDelay < K
    /\ la.initial = LapicRate * K /\ la.count = LapicRate * r /\ r \in 1 .. K
    /\ elapsed \in Nat
    /\ elapsed < ElapsedCap => elapsed = F * K + (K - r)
    /\ kernel_timer_secs + Pending <= F
    /\ kernel_timer_secs < SecsCap => kernel_timer_secs + Pending = F
    /\ fn = "boot" /\ Made = 19 => F = 0 /\ K - r <= lag
    /\ fn = "boot" /\ Made = 20 => F * K + (K - r) <= MaxDelay + lag
    /\ fn # "boot" \/ Made > 19 => la.lvt = "periodic"

LapicInv ==
    /\ fn = "boot" /\ Made <= 19 =>
           la.lvt = "masked" /\ LAPICTMR_VECTOR \notin irr /\ kernel_timer_secs = 0
    /\ fn = "boot" /\ Made <= 18 => elapsed = -1
    /\ fn = "boot" /\ Made \in 9 .. 15 =>
           \E t \in Nat : /\ la.count = Left(t)
                          /\ CounterWait(hp, lag, Limit(ms), Made - 9, t)
    /\ fn = "boot" /\ Made \in 16 .. 18 => (SecondFits => Calibrated)
    /\ (fn # "boot" \/ Made >= 19) /\ SecondFits => \E K, r, F \in Nat : Counting(K, r, F)

SleepInv ==
    /\ fn = "hpet_sleep" => TickWait(hp, _ticks, TIMER_VECTOR \in irr, lag, Limit(ms), Made, slept)
    /\ fn = "hpet_sleep_counter" => CounterWait(hp, lag, Limit(ms), Made, slept)

-----------------------------------------------------------------------------
(* Facts about the two waits.                                              *)

LEMMA Rates ==
    /\ MaxDelay \in Nat /\ CounterCap \in Nat
    /\ MsPerSec \in Nat /\ MsPerSec > 0 /\ Tenth \in Nat /\ Tenth > 1
    /\ TickPeriod \in Nat /\ TickPeriod > 0 /\ FemtosPerSec \in Nat
    /\ LapicRate \in Nat /\ LapicRate > 0 /\ SecsCap \in Nat /\ SecsCap > 0
    /\ hpet_frequency \in Nat /\ BspIsZero \in BOOLEAN
    /\ \A n \in Sleeps : n \in Nat /\ Limit(n) \in 1 .. CounterCap - 1
    /\ CalibrationMs \in Nat /\ Limit(CalibrationMs) \in 1 .. CounterCap - 1
<1>1. /\ MsPerSec \in Nat /\ MsPerSec > 0 /\ Tenth \in Nat /\ Tenth > 1
      /\ LapicRate \in Nat /\ LapicRate > 0 /\ SecsCap \in Nat /\ SecsCap > 0
      /\ MaxDelay \in Nat /\ CounterCap \in Nat /\ hpet_frequency \in Nat /\ BspIsZero \in BOOLEAN
      /\ TickPeriod \in Nat /\ TickPeriod > 0 /\ FemtosPerSec \in Nat
  BY RateAssumption DEF hpet_frequency
<1>2. \A n \in Sleeps : n \in Nat /\ Limit(n) \in 1 .. CounterCap - 1
  BY RateAssumption DEF Limit
<1>3. Limit(CalibrationMs) \in 1 .. CounterCap - 1
  BY RateAssumption DEF Limit, CalibrationMs
<1>4. CalibrationMs \in Nat
  BY <1>1 DEF CalibrationMs
<1> QED
  BY <1>1, <1>2, <1>3, <1>4

(* Products, one factor stepped.                                           *)
LEMMA Times ==
    ASSUME NEW n \in Nat, NEW d \in Nat
    PROVE  n * d \in Nat /\ (n + 1) * d = n * d + d
  OBVIOUS

(* The fields of the HPET.                                                 *)
LEMMA HpetFields ==
    ASSUME NEW h \in Hpets
    PROVE  /\ h.on \in BOOLEAN /\ h.counter \in 0 .. CounterCap /\ h.comparator \in Nat
           /\ h.periodic \in BOOLEAN /\ h.int_on \in BOOLEAN /\ h.legacy \in BOOLEAN
           /\ h.route \in Nat /\ h.routed \in BOOLEAN
  BY DEF Hpets

(* What a tick does to the HPET's main counter.                            *)
Ticked(h) == [h EXCEPT !.counter = IF h.on THEN Least(@ + 1, CounterCap) ELSE @]

(* A tick changes the main counter alone.                                  *)
LEMMA TickedFields ==
    ASSUME NEW h \in Hpets
    PROVE  /\ Ticked(h) \in Hpets
           /\ Ticked(h).on = h.on /\ Ticked(h).comparator = h.comparator
           /\ Ticked(h).periodic = h.periodic /\ Ticked(h).int_on = h.int_on
           /\ Delivered(Ticked(h)) <=> Delivered(h)
           /\ Ticked(h).counter = IF h.on /\ h.counter < CounterCap THEN h.counter + 1 ELSE h.counter
<1> DEFINE c == IF h.on THEN Least(h.counter + 1, CounterCap) ELSE h.counter
<1>1. h.counter \in 0 .. CounterCap /\ CounterCap \in Nat
  BY HpetFields, Rates
<1>2. c \in 0 .. CounterCap /\ c = IF h.on /\ h.counter < CounterCap THEN h.counter + 1 ELSE h.counter
  BY <1>1 DEF Least
<1>3. Ticked(h) = [h EXCEPT !.counter = c]
  BY DEF Ticked, Hpets
<1> HIDE DEF c
<1>4. Ticked(h).routed = h.routed /\ Ticked(h).legacy = h.legacy /\ Ticked(h).route = h.route
  BY <1>3 DEF Hpets
<1>5. Delivered(Ticked(h)) <=> Delivered(h)
  BY <1>4 DEF Delivered
<1> QED
  BY <1>2, <1>3, <1>5 DEF Hpets

(* A tick keeps what is known of a wait on the main counter.               *)
LEMMA CounterTick ==
    ASSUME NEW h \in Hpets, NEW g \in Nat, NEW L \in 1 .. CounterCap - 1,
           NEW n \in 0 .. 6, NEW t \in Nat, NEW u \in {t, t + 1}, u = t => CounterCap <= t,
           CounterWait(h, g, L, n, t)
    PROVE  CounterWait(Ticked(h), g + 1, L, n, u)
<1> DEFINE m == n * MaxDelay
<1>1. m \in Nat
  BY Rates, Times
<1> HIDE DEF m
<1> QED
  BY <1>1, Rates, HpetFields, TickedFields DEF CounterWait, m

(* The accesses of hpet_sleep_counter, each with what it does to the HPET. *)
LEMMA CounterAccess ==
    ASSUME NEW h \in Hpets, NEW k \in Hpets, NEW g \in 0 .. MaxDelay,
           NEW L \in 1 .. CounterCap - 1, NEW n \in 0 .. 5, NEW t \in Nat,
           n \in {0, 5} => ~k.on,
           n \in {1, 2} => k.on = h.on,
           n = 2 => k.counter = 0,
           n = 3 => k.on /\ k.counter = h.counter,
           n = 4 => h.counter >= L,
           CounterWait(h, g, L, n, t)
    PROVE  CounterWait(k, 0, L, n + 1, t)
<1> DEFINE m == n * MaxDelay
           m1 == (n + 1) * MaxDelay
<1>1. m \in Nat /\ m1 = m + MaxDelay
  BY Rates, Times
<1> HIDE DEF m, m1
<1>2. h.counter \in Nat /\ k.counter \in Nat /\ MaxDelay \in Nat
  BY HpetFields, Rates
<1> QED
  BY <1>1, <1>2 DEF CounterWait, m, m1

(* A tick keeps what is known of a wait for the one-shot interrupt, and    *)
(* raises it no sooner than it is due.                                     *)
LEMMA TickTick ==
    ASSUME NEW h \in Hpets, NEW k \in Nat, NEW g \in Nat, NEW L \in 1 .. CounterCap - 1,
           NEW n \in 0 .. 8, NEW t \in Nat, NEW u \in {t, t + 1}, u = t => CounterCap <= t,
           NEW fires \in BOOLEAN, fires => h.on,
           ~h.periodic => (fires <=> h.on /\ h.int_on /\ Delivered(h) /\ h.counter + 1 = h.comparator),
           TickWait(h, k, FALSE, g, L, n, t)
    PROVE  TickWait(Ticked(h), k, fires, g + 1, L, n, u)
<1> DEFINE m == n * MaxDelay
<1>1. m \in Nat
  BY Rates, Times
<1> HIDE DEF m
<1> QED
  BY <1>1, Rates, HpetFields, TickedFields DEF TickWait, m

(* The accesses of hpet_sleep, with interrupts on and none pending.        *)
LEMMA TickAccess ==
    ASSUME NEW h \in Hpets, NEW k \in Hpets, NEW c \in Nat, NEW d \in Nat, NEW g \in 0 .. MaxDelay,
           NEW L \in 1 .. CounterCap - 1, NEW n \in 0 .. 8, NEW t \in Nat,
           n \in {0, 8} => ~k.on,
           n \in 1 .. 5 => k.on = h.on,
           n = 1 => d = 0,
           n # 1 => d = c,
           n = 2 => k.counter = 0,
           n \in 3 .. 6 => k.counter = h.counter,
           n = 3 => ~k.periodic,
           n \in 4 .. 6 => k.periodic = h.periodic,
           n = 4 => k.comparator = L,
           n \in 5 .. 6 => k.comparator = h.comparator,
           n = 5 => k.int_on,
           n = 6 => k.int_on = h.int_on /\ k.on,
           n = 7 => c # 0,
           TickWait(h, c, FALSE, g, L, n, t)
    PROVE  TickWait(k, d, FALSE, 0, L, n + 1, t)
<1> DEFINE m == n * MaxDelay
           m1 == (n + 1) * MaxDelay
<1>1. m \in Nat /\ m1 = m + MaxDelay
  BY Rates, Times
<1> HIDE DEF m, m1
<1>2. h.counter \in Nat /\ k.counter \in Nat /\ MaxDelay \in Nat
  BY HpetFields, Rates
<1> QED
  BY <1>1, <1>2 DEF TickWait, m, m1

-----------------------------------------------------------------------------
(* Where the processor is.                                                 *)

LEMMA ScriptLength ==
    ASSUME NEW f \in {"boot", "hpet_sleep", "hpet_sleep_counter"}
    PROVE  /\ Script(f) \in Seq(Ops)
           /\ Len(Script(f)) = IF f = "boot" THEN 21 ELSE IF f = "hpet_sleep" THEN 9 ELSE 6
<1>1. CASE f = "boot"
  BY <1>1, BootScript DEF Script
<1>2. CASE f = "hpet_sleep"
  BY <1>2, SleepScript DEF Script, Body
<1>3. CASE f = "hpet_sleep_counter"
  BY <1>3, CounterScript DEF Script, Body
<1> QED
  BY <1>1, <1>2, <1>3

(* todo is the rest of the script from access Made + 1 on.                 *)
LEMMA Position ==
    ASSUME PosInv
    PROVE  /\ Made \in 0 .. Len(Script(fn)) /\ Len(Script(fn)) \in Nat
           /\ todo = << >> <=> Made = Len(Script(fn))
           /\ todo # << >> => Head(todo) = Script(fn)[Made + 1]
<1>1. Len(Script(fn)) \in Nat
  BY ScriptLength DEF PosInv
<1>2. Len(todo) \in Nat /\ (todo = << >> <=> Len(todo) = 0) /\ (todo # << >> => Head(todo) = todo[1])
  BY DEF PosInv
<1>3. Made \in 0 .. Len(Script(fn)) /\ (Len(todo) = 0 <=> Made = Len(Script(fn)))
  BY <1>1, <1>2 DEF PosInv, Made
<1> QED
  BY <1>1, <1>2, <1>3 DEF PosInv

(* An access that is done leaves the next one at the head of todo.         *)
LEMMA Moves ==
    ASSUME PosInv, todo # << >>, todo' = Tail(todo), fn' = fn
    PROVE  PosInv' /\ Made' = Made + 1
<1>1. Len(Script(fn)) \in Nat
  BY ScriptLength DEF PosInv
<1>2. /\ Tail(todo) \in Seq(Ops) /\ Len(todo) \in Nat /\ Len(todo) > 0
      /\ Len(Tail(todo)) = Len(todo) - 1
      /\ \A i \in 1 .. Len(todo) - 1 : Tail(todo)[i] = todo[i + 1]
  BY DEF PosInv
<1>3. Made' = Made + 1
  BY <1>1, <1>2 DEF Made
<1>4. \A i \in 1 .. Len(todo') : todo'[i] = Script(fn)[Made' + i]
  <2> SUFFICES ASSUME NEW i \in 1 .. Len(todo) - 1 PROVE todo[i + 1] = Script(fn)[Made' + i]
    BY <1>2
  <2>1. i + 1 \in 1 .. Len(todo) /\ Made' + i = Made + (i + 1)
    BY <1>1, <1>2, <1>3 DEF Made
  <2> QED
    BY <2>1 DEF PosInv
<1> QED
  BY <1>1, <1>2, <1>3, <1>4 DEF PosInv

(* Whatever leaves todo alone leaves the position alone.                   *)
LEMMA Stays ==
    ASSUME PosInv, UNCHANGED <<fn, todo>>
    PROVE  PosInv' /\ Made' = Made
  BY DEF PosInv, Made

(* A call starts at the head of its script.                                *)
LEMMA Starts ==
    ASSUME NEW f \in {"hpet_sleep", "hpet_sleep_counter"}, fn' = f, todo' = Body(f)
    PROVE  PosInv' /\ Made' = 0
<1>1. Script(f) = Body(f) /\ Script(f) \in Seq(Ops) /\ Len(Script(f)) \in Nat
  BY ScriptLength DEF Script
<1>2. Made' = 0
  BY <1>1 DEF Made
<1> QED
  BY <1>1, <1>2 DEF PosInv

(* What the accesses do to the local APIC's timer.                         *)
Loaded(a, n) == [a EXCEPT !.initial = n, !.count = n]
InMode(a, m) == [a EXCEPT !.lvt = m]
Second == (ticksin100ms * Tenth) % 2 ^ CountBits

(* What every access has in common.                                        *)
LEMMA RunningMoves ==
    ASSUME PosInv, Running
    PROVE  /\ todo # << >> /\ ~Interrupted /\ lag' = 0
           /\ UNCHANGED <<fn, ms, kernel_timer_secs, irr, slept>>
           /\ PosInv'
           /\ \/ todo' = Tail(todo) /\ Made' = Made + 1
              \/ UNCHANGED todo /\ Made' = Made
<1>1. /\ todo # << >> /\ ~Interrupted /\ lag' = 0
      /\ UNCHANGED <<fn, ms, kernel_timer_secs, irr, slept>>
      /\ todo' = Tail(todo) \/ todo' = todo
  BY DEF Running, Disable, Enable, ClearCounter, OneShot, Periodic, Comparator, IntOn, IntOff,
         SelectInput, Redirect, HpetAccess, ClearTicks, AwaitTick, AwaitCounter, Await, StopCount, MaskLvt,
         CountMax, PeriodicLvt, LapicAccess, ReadCount, SetCount, Cli, Restore, Access, intVars
<1>2. CASE todo' = Tail(todo)
  <2>1. PosInv' /\ Made' = Made + 1
    BY <1>1, <1>2, Moves
  <2> QED
    BY <1>1, <1>2, <2>1
<1>3. CASE todo' = todo
  <2>1. PosInv' /\ Made' = Made
    BY <1>1, <1>3, Stays
  <2> QED
    BY <1>1, <1>3, <2>1
<1> QED
  BY <1>1, <1>2, <1>3

(* hpet_sleep, access by access.                                           *)
LEMMA SleepRuns ==
    ASSUME PosInv, Running, fn = "hpet_sleep"
    PROVE  /\ UNCHANGED <<la, ticksin100ms, iflag, istate, elapsed>>
           /\ \/ Made = 7 /\ Made' = 7 /\ _ticks = 0 /\ UNCHANGED <<hp, _ticks>>
              \/ /\ Made' = Made + 1 /\ Made \in 0 .. 8
                 /\ Made \in {0, 8} => hp' = [hp EXCEPT !.on = FALSE]
                 /\ Made = 1 => hp' = hp /\ _ticks' = 0
                 /\ Made # 1 => _ticks' = _ticks
                 /\ Made = 2 => hp' = [hp EXCEPT !.counter = 0]
                 /\ Made = 3 => hp' = [hp EXCEPT !.periodic = FALSE]
                 /\ Made = 4 => hp' = [hp EXCEPT !.comparator = Limit(ms)]
                 /\ Made = 5 => hp' = [hp EXCEPT !.int_on = TRUE]
                 /\ Made = 6 => hp' = [hp EXCEPT !.on = TRUE]
                 /\ Made = 7 => hp' = hp /\ _ticks # 0
<1>1. /\ todo # << >> /\ ((todo' = Tail(todo) /\ Made' = Made + 1) \/ (UNCHANGED todo /\ Made' = Made))
      /\ Made \in 0 .. 8 /\ Head(todo) = hpet_sleep[Made + 1] /\ Tail(todo) # todo
  <2>1. todo # << >> /\ ((todo' = Tail(todo) /\ Made' = Made + 1) \/ (UNCHANGED todo /\ Made' = Made))
    BY RunningMoves
  <2>2. Script(fn) = hpet_sleep /\ Len(Script(fn)) = 9
    BY ScriptLength DEF Script, Body
  <2>3. Tail(todo) # todo
    BY <2>1 DEF PosInv
  <2> QED
    BY <2>1, <2>2, <2>3, Position, Z3T(40)
<1>2. \/ Made = 0 /\ Head(todo) = "disable"
      \/ Made = 1 /\ Head(todo) = "clear_ticks"
      \/ Made = 2 /\ Head(todo) = "clear_counter"
      \/ Made = 3 /\ Head(todo) = "one_shot"
      \/ Made = 4 /\ Head(todo) = "comparator"
      \/ Made = 5 /\ Head(todo) = "int_on"
      \/ Made = 6 /\ Head(todo) = "enable"
      \/ Made = 7 /\ Head(todo) = "await_tick"
      \/ Made = 8 /\ Head(todo) = "disable"
  <2>1. \A n \in 0 .. 8 : Made = n => Head(todo) = hpet_sleep[n + 1]
    BY <1>1
  <2>2. /\ Made = 0 => Head(todo) = hpet_sleep[1]
        /\ Made = 1 => Head(todo) = hpet_sleep[2]
        /\ Made = 2 => Head(todo) = hpet_sleep[3]
        /\ Made = 3 => Head(todo) = hpet_sleep[4]
        /\ Made = 4 => Head(todo) = hpet_sleep[5]
        /\ Made = 5 => Head(todo) = hpet_sleep[6]
        /\ Made = 6 => Head(todo) = hpet_sleep[7]
        /\ Made = 7 => Head(todo) = hpet_sleep[8]
        /\ Made = 8 => Head(todo) = hpet_sleep[9]
    BY <2>1
  <2> QED
    BY <1>1, <2>2, SleepScript
<1>3. CASE Made = 7
  <2>1. AwaitTick
    BY <1>2, <1>3
       DEF Running, Disable, Enable, ClearCounter, OneShot, Periodic, Comparator, IntOn, IntOff,
           SelectInput, Redirect, HpetAccess, ClearTicks, AwaitCounter, Await, StopCount, MaskLvt,
           CountMax, PeriodicLvt, LapicAccess, ReadCount, SetCount, Cli, Restore, Access
  <2> QED
    BY <1>1, <1>3, <2>1 DEF AwaitTick, Await, timerVars, intVars
<1>4. CASE Made = 1
  <2>1. ClearTicks
    BY <1>2, <1>4
       DEF Running, Disable, Enable, ClearCounter, OneShot, Periodic, Comparator, IntOn, IntOff,
           SelectInput, Redirect, HpetAccess, AwaitTick, AwaitCounter, Await, StopCount, MaskLvt,
           CountMax, PeriodicLvt, LapicAccess, ReadCount, SetCount, Cli, Restore, Access
  <2> QED
    BY <1>1, <1>4, <2>1 DEF ClearTicks, Access
<1>5. CASE Made \notin {1, 7}
  <2>1. Disable \/ Enable \/ ClearCounter \/ OneShot \/ Comparator \/ IntOn
    BY <1>2, <1>5
       DEF Running, Periodic, IntOff, SelectInput, Redirect, HpetAccess, ClearTicks, AwaitTick, AwaitCounter, Await,
           StopCount, MaskLvt, CountMax, PeriodicLvt, LapicAccess, ReadCount, SetCount, Cli, Restore,
           Access
  <2> QED
    BY <1>1, <1>2, <1>5, <2>1
       DEF Disable, Enable, ClearCounter, OneShot, Comparator, IntOn, HpetAccess, Access
<1> QED
  BY <1>3, <1>4, <1>5

(* hpet_sleep_counter, access by access.                                   *)
LEMMA CounterRuns ==
    ASSUME PosInv, Running, fn = "hpet_sleep_counter"
    PROVE  /\ UNCHANGED <<_ticks, la, ticksin100ms, iflag, istate, elapsed>>
           /\ \/ Made = 4 /\ Made' = 4 /\ ~(hp.counter >= Limit(ms)) /\ hp' = hp
              \/ /\ Made' = Made + 1 /\ Made \in 0 .. 5
                 /\ Made \in {0, 5} => hp' = [hp EXCEPT !.on = FALSE]
                 /\ Made = 1 => hp' = [hp EXCEPT !.int_on = FALSE]
                 /\ Made = 2 => hp' = [hp EXCEPT !.counter = 0]
                 /\ Made = 3 => hp' = [hp EXCEPT !.on = TRUE]
                 /\ Made = 4 => hp' = hp /\ hp.counter >= Limit(ms)
<1>1. /\ todo # << >> /\ ((todo' = Tail(todo) /\ Made' = Made + 1) \/ (UNCHANGED todo /\ Made' = Made))
      /\ Made \in 0 .. 5 /\ Head(todo) = hpet_sleep_counter[Made + 1] /\ Tail(todo) # todo
  <2>1. todo # << >> /\ ((todo' = Tail(todo) /\ Made' = Made + 1) \/ (UNCHANGED todo /\ Made' = Made))
    BY RunningMoves
  <2>2. Script(fn) = hpet_sleep_counter /\ Len(Script(fn)) = 6
    BY ScriptLength DEF Script, Body
  <2>3. Tail(todo) # todo
    BY <2>1 DEF PosInv
  <2> QED
    BY <2>1, <2>2, <2>3, Position
<1>2. \/ Made = 0 /\ Head(todo) = "disable"
      \/ Made = 1 /\ Head(todo) = "int_off"
      \/ Made = 2 /\ Head(todo) = "clear_counter"
      \/ Made = 3 /\ Head(todo) = "enable"
      \/ Made = 4 /\ Head(todo) = "await_counter"
      \/ Made = 5 /\ Head(todo) = "disable"
  <2>1. \A n \in 0 .. 5 : Made = n => Head(todo) = hpet_sleep_counter[n + 1]
    BY <1>1
  <2>2. /\ Made = 0 => Head(todo) = hpet_sleep_counter[1]
        /\ Made = 1 => Head(todo) = hpet_sleep_counter[2]
        /\ Made = 2 => Head(todo) = hpet_sleep_counter[3]
        /\ Made = 3 => Head(todo) = hpet_sleep_counter[4]
        /\ Made = 4 => Head(todo) = hpet_sleep_counter[5]
        /\ Made = 5 => Head(todo) = hpet_sleep_counter[6]
    BY <2>1
  <2> QED
    BY <1>1, <2>2, CounterScript
<1>3. CASE Made = 4
  <2>1. AwaitCounter
    BY <1>2, <1>3
       DEF Running, Disable, Enable, ClearCounter, OneShot, Periodic, Comparator, IntOn, IntOff,
           SelectInput, Redirect, HpetAccess, ClearTicks, AwaitTick, Await, StopCount, MaskLvt,
           CountMax, PeriodicLvt, LapicAccess, ReadCount, SetCount, Cli, Restore, Access
  <2> QED
    BY <1>1, <1>3, <2>1 DEF AwaitCounter, Await, timerVars, intVars
<1>4. CASE Made # 4
  <2>1. Disable \/ Enable \/ ClearCounter \/ IntOff
    BY <1>2, <1>4
       DEF Running, OneShot, Periodic, Comparator, IntOn, SelectInput, Redirect, HpetAccess, ClearTicks, AwaitTick,
           AwaitCounter, Await, StopCount, MaskLvt, CountMax, PeriodicLvt, LapicAccess, ReadCount,
           SetCount, Cli, Restore, Access
  <2> QED
    BY <1>1, <1>2, <1>4, <2>1 DEF Disable, Enable, ClearCounter, IntOff, HpetAccess, Access
<1> QED
  BY <1>3, <1>4

(* The start-up, access by access: hpet_init and the cli, the calibration, *)
(* and the rest.                                                           *)
LEMMA BootOps ==
    ASSUME PosInv, Running, fn = "boot"
    PROVE  /\ Made \in 0 .. 20 /\ Head(todo) = Boot[Made + 1]
           /\ todo' = Tail(todo) => Made' = Made + 1
           /\ todo' = todo => Made' = Made
           /\ Tail(todo) # todo
<1>1. todo # << >> /\ ((todo' = Tail(todo) /\ Made' = Made + 1) \/ (UNCHANGED todo /\ Made' = Made))
  BY RunningMoves
<1>2. Script(fn) = Boot /\ Len(Script(fn)) = 21
  BY ScriptLength DEF Script
<1>3. Tail(todo) # todo
  BY <1>1 DEF PosInv
<1>4. Made \in 0 .. 21 /\ Made # 21 /\ Head(todo) = Boot[Made + 1]
  BY <1>1, <1>2, Position
<1> QED
  BY <1>1, <1>3, <1>4

(* Which access of the boot code is due, by its number.                    *)
LEMMA BootAt ==
    ASSUME PosInv, Running, fn = "boot"
    PROVE  \/ Made = 0 /\ Head(todo) = "select_input"
           \/ Made = 1 /\ Head(todo) = "periodic"
           \/ Made = 2 /\ Head(todo) = "int_on"
           \/ Made = 3 /\ Head(todo) = "redirect"
           \/ Made = 4 /\ Head(todo) = "clear_ticks"
           \/ Made = 5 /\ Head(todo) = "cli"
           \/ Made = 6 /\ Head(todo) = "stop_count"
           \/ Made = 7 /\ Head(todo) = "mask_lvt"
           \/ Made = 8 /\ Head(todo) = "count_max"
           \/ Made = 9 /\ Head(todo) = "disable"
           \/ Made = 10 /\ Head(todo) = "int_off"
           \/ Made = 11 /\ Head(todo) = "clear_counter"
           \/ Made = 12 /\ Head(todo) = "enable"
           \/ Made = 13 /\ Head(todo) = "await_counter"
           \/ Made = 14 /\ Head(todo) = "disable"
           \/ Made = 15 /\ Head(todo) = "read_count"
           \/ Made = 16 /\ Head(todo) = "stop_count"
           \/ Made = 17 /\ Head(todo) = "mask_lvt"
           \/ Made = 18 /\ Head(todo) = "set_count"
           \/ Made = 19 /\ Head(todo) = "periodic_lvt"
           \/ Made = 20 /\ Head(todo) = "restore"
<1>1. Made \in 0 .. 20 /\ Head(todo) = Boot[Made + 1]
  BY BootOps
<1>2. \A n \in 0 .. 20 : Made = n => Head(todo) = Boot[n + 1]
  BY <1>1
<1>3. /\ Made = 0 => Head(todo) = Boot[1]
      /\ Made = 1 => Head(todo) = Boot[2]
      /\ Made = 2 => Head(todo) = Boot[3]
      /\ Made = 3 => Head(todo) = Boot[4]
      /\ Made = 4 => Head(todo) = Boot[5]
      /\ Made = 5 => Head(todo) = Boot[6]
      /\ Made = 6 => Head(todo) = Boot[7]
      /\ Made = 7 => Head(todo) = Boot[8]
      /\ Made = 8 => Head(todo) = Boot[9]
      /\ Made = 9 => Head(todo) = Boot[10]
      /\ Made = 10 => Head(todo) = Boot[11]
      /\ Made = 11 => Head(todo) = Boot[12]
      /\ Made = 12 => Head(todo) = Boot[13]
      /\ Made = 13 => Head(todo) = Boot[14]
      /\ Made = 14 => Head(todo) = Boot[15]
      /\ Made = 15 => Head(todo) = Boot[16]
      /\ Made = 16 => Head(todo) = Boot[17]
      /\ Made = 17 => Head(todo) = Boot[18]
      /\ Made = 18 => Head(todo) = Boot[19]
      /\ Made = 19 => Head(todo) = Boot[20]
      /\ Made = 20 => Head(todo) = Boot[21]
  BY <1>2
<1>4. /\ Made = 0 => Head(todo) = "select_input"
      /\ Made = 1 => Head(todo) = "periodic"
      /\ Made = 2 => Head(todo) = "int_on"
      /\ Made = 3 => Head(todo) = "redirect"
      /\ Made = 4 => Head(todo) = "clear_ticks"
      /\ Made = 5 => Head(todo) = "cli"
      /\ Made = 6 => Head(todo) = "stop_count"
      /\ Made = 7 => Head(todo) = "mask_lvt"
      /\ Made = 8 => Head(todo) = "count_max"
      /\ Made = 9 => Head(todo) = "disable"
      /\ Made = 10 => Head(todo) = "int_off"
      /\ Made = 11 => Head(todo) = "clear_counter"
      /\ Made = 12 => Head(todo) = "enable"
      /\ Made = 13 => Head(todo) = "await_counter"
      /\ Made = 14 => Head(todo) = "disable"
      /\ Made = 15 => Head(todo) = "read_count"
      /\ Made = 16 => Head(todo) = "stop_count"
      /\ Made = 17 => Head(todo) = "mask_lvt"
      /\ Made = 18 => Head(todo) = "set_count"
      /\ Made = 19 => Head(todo) = "periodic_lvt"
      /\ Made = 20 => Head(todo) = "restore"
  BY <1>3, BootScript
<1> QED
  BY <1>1, <1>4

(* What each access of the boot code changes, by its number.               *)
LEMMA BootRuns ==
    ASSUME PosInv, Running, fn = "boot"
    PROVE  \/ /\ Made \in 0 .. 4 /\ Made' = Made + 1
              /\ hp' \in {hp, [hp EXCEPT !.periodic = TRUE], [hp EXCEPT !.int_on = TRUE],
                          [hp EXCEPT !.routed = BspIsZero]}
              /\ _ticks' \in {_ticks, 0} /\ UNCHANGED <<la, ticksin100ms, iflag, istate, elapsed>>
           \/ /\ Made = 5 /\ Made' = Made + 1 /\ istate' = iflag /\ iflag' = FALSE
              /\ UNCHANGED <<hp, _ticks, la, ticksin100ms, elapsed>>
           \/ /\ Made \in {6, 7, 16, 17} /\ Made' = Made + 1
              /\ la' \in {Loaded(la, 0), InMode(la, "masked")}
              /\ UNCHANGED <<hp, _ticks, ticksin100ms, iflag, istate, elapsed>>
           \/ /\ Made = 8 /\ Made' = Made + 1
              /\ la' = Loaded(la, MaxCount)
              /\ UNCHANGED <<hp, _ticks, ticksin100ms, iflag, istate, elapsed>>
           \/ /\ Made \in 9 .. 14 /\ UNCHANGED <<_ticks, la, ticksin100ms, iflag, istate, elapsed>>
              /\ \/ Made = 13 /\ Made' = 13 /\ ~(hp.counter >= Limit(ms)) /\ hp' = hp
                 \/ /\ Made' = Made + 1
                    /\ Made \in {9, 14} => hp' = [hp EXCEPT !.on = FALSE]
                    /\ Made = 10 => hp' = [hp EXCEPT !.int_on = FALSE]
                    /\ Made = 11 => hp' = [hp EXCEPT !.counter = 0]
                    /\ Made = 12 => hp' = [hp EXCEPT !.on = TRUE]
                    /\ Made = 13 => hp' = hp /\ hp.counter >= Limit(ms)
           \/ /\ Made = 15 /\ Made' = Made + 1 /\ ticksin100ms' = MaxCount - la.count
              /\ UNCHANGED <<hp, _ticks, la, iflag, istate, elapsed>>
           \/ /\ Made = 18 /\ Made' = Made + 1 /\ elapsed' = 0
              /\ la' = Loaded(la, Second)
              /\ UNCHANGED <<hp, _ticks, ticksin100ms, iflag, istate>>
           \/ /\ Made = 19 /\ Made' = Made + 1 /\ la' = InMode(la, "periodic")
              /\ UNCHANGED <<hp, _ticks, ticksin100ms, iflag, istate, elapsed>>
           \/ /\ Made = 20 /\ Made' = Made + 1 /\ iflag' = istate
              /\ UNCHANGED <<hp, _ticks, la, ticksin100ms, istate, elapsed>>
<1>1. /\ todo' = Tail(todo) => Made' = Made + 1
      /\ todo' = todo => Made' = Made
      /\ Tail(todo) # todo
  BY BootOps
<1>2. CASE Made \in 0 .. 4
  <2>1. Head(todo) \in {"select_input", "periodic", "int_on", "redirect", "clear_ticks"}
    BY <1>2, BootAt
  <2>2. Periodic \/ IntOn \/ SelectInput \/ Redirect \/ ClearTicks
    BY <2>1
       DEF Running, Disable, Enable, ClearCounter, OneShot, Comparator, IntOff, HpetAccess, AwaitTick,
           AwaitCounter, Await, StopCount, MaskLvt, CountMax, PeriodicLvt, LapicAccess, ReadCount,
           SetCount, Cli, Restore, Access
  <2> QED
    BY <1>1, <1>2, <2>2 DEF Periodic, IntOn, SelectInput, Redirect, ClearTicks, HpetAccess, Access
<1>3. CASE Made \in 9 .. 14
  <2>1. CASE Made = 13
    <3>1. Head(todo) = "await_counter"
      BY <2>1, BootAt
    <3>2. AwaitCounter
      BY <3>1
         DEF Running, Disable, Enable, ClearCounter, OneShot, Periodic, Comparator, IntOn, IntOff,
             SelectInput, Redirect, HpetAccess, ClearTicks, AwaitTick, Await, StopCount, MaskLvt,
             CountMax, PeriodicLvt, LapicAccess, ReadCount, SetCount, Cli, Restore, Access
    <3> QED
      BY <1>1, <2>1, <3>2 DEF AwaitCounter, Await, timerVars, intVars
  <2>2. CASE Made # 13
    <3>1. /\ Head(todo) \in {"disable", "int_off", "clear_counter", "enable"}
          /\ Made \in {9, 14} => Head(todo) = "disable"
          /\ Made = 10 => Head(todo) = "int_off"
          /\ Made = 11 => Head(todo) = "clear_counter"
          /\ Made = 12 => Head(todo) = "enable"
      BY <1>3, <2>2, BootAt
    <3>2. Disable \/ Enable \/ ClearCounter \/ IntOff
      BY <3>1
         DEF Running, OneShot, Periodic, Comparator, IntOn, SelectInput, Redirect, HpetAccess, ClearTicks, AwaitTick,
             AwaitCounter, Await, StopCount, MaskLvt, CountMax, PeriodicLvt, LapicAccess, ReadCount,
             SetCount, Cli, Restore, Access
    <3> QED
      BY <1>1, <1>3, <2>2, <3>1, <3>2 DEF Disable, Enable, ClearCounter, IntOff, HpetAccess, Access
  <2> QED
    BY <2>1, <2>2
<1>4. CASE Made \in {6, 7, 8, 16, 17, 19}
  <2>1. /\ Head(todo) \in {"stop_count", "mask_lvt", "count_max", "periodic_lvt"}
        /\ Made \in {6, 7, 16, 17} => Head(todo) \in {"stop_count", "mask_lvt"}
        /\ Made = 8 => Head(todo) = "count_max"
        /\ Made = 19 => Head(todo) = "periodic_lvt"
    BY <1>4, BootAt
  <2>2. StopCount \/ MaskLvt \/ CountMax \/ PeriodicLvt
    BY <2>1
       DEF Running, Disable, Enable, ClearCounter, OneShot, Periodic, Comparator, IntOn, IntOff,
           SelectInput, Redirect, HpetAccess, ClearTicks, AwaitTick, AwaitCounter, Await, ReadCount, SetCount, Cli,
           Restore, LapicAccess, Access
  <2> QED
    BY <1>1, <1>4, <2>1, <2>2 DEF StopCount, MaskLvt, CountMax, PeriodicLvt, LapicAccess, Access, Loaded, InMode
<1>5. CASE Made \in {5, 15, 18, 20}
  <2>1. /\ Head(todo) \in {"cli", "read_count", "set_count", "restore"}
        /\ Made = 5 => Head(todo) = "cli"
        /\ Made = 15 => Head(todo) = "read_count"
        /\ Made = 18 => Head(todo) = "set_count"
        /\ Made = 20 => Head(todo) = "restore"
    BY <1>5, BootAt
  <2>2. Cli \/ ReadCount \/ SetCount \/ Restore
    BY <2>1
       DEF Running, Disable, Enable, ClearCounter, OneShot, Periodic, Comparator, IntOn, IntOff,
           SelectInput, Redirect, HpetAccess, ClearTicks, AwaitTick, AwaitCounter, Await, StopCount, MaskLvt,
           CountMax, PeriodicLvt, LapicAccess, Access
  <2>3. CASE Made = 5
    <3>1. Cli
      BY <2>1, <2>2, <2>3 DEF ReadCount, SetCount, Restore, Access
    <3> QED
      BY <1>1, <2>3, <3>1 DEF Cli, Access, timerVars
  <2>4. CASE Made = 15
    <3>1. ReadCount
      BY <2>1, <2>2, <2>4 DEF Cli, SetCount, Restore, Access
    <3> QED
      BY <1>1, <2>4, <3>1 DEF ReadCount, Access
  <2>5. CASE Made = 18
    <3>1. SetCount
      BY <2>1, <2>2, <2>5 DEF Cli, ReadCount, Restore, Access
    <3> QED
      BY <1>1, <2>5, <3>1 DEF SetCount, Access, Loaded, Second
  <2>6. CASE Made = 20
    <3>1. Restore
      BY <2>1, <2>2, <2>6 DEF Cli, ReadCount, SetCount, Access
    <3> QED
      BY <1>1, <2>6, <3>1 DEF Restore, Access, timerVars
  <2> QED
    BY <1>5, <2>3, <2>4, <2>5, <2>6
<1>6. Made \in 0 .. 4 \/ Made \in 9 .. 14 \/ Made \in {6, 7, 8, 16, 17, 19} \/ Made \in {5, 15, 18, 20}
  BY BootOps
<1> QED
  BY <1>2, <1>3, <1>4, <1>5, <1>6

-----------------------------------------------------------------------------
(* The invariant holds: positions, types and the interrupt flag.           *)

LEMMA TickEffect ==
    ASSUME Tick
    PROVE  /\ ~Interrupted /\ (todo = << >> \/ lag < MaxDelay)
           /\ hp' = Ticked(hp)
           /\ lag' = (IF todo = << >> THEN 0 ELSE lag + 1)
           /\ slept' = (IF todo = << >> THEN slept ELSE Least(slept + 1, SleepMost + 1))
           /\ UNCHANGED <<fn, ms, todo, _ticks, ticksin100ms, iflag, istate, kernel_timer_secs>>
  BY DEF Tick, Ticked

(* Every step keeps the position in the script.                            *)
LEMMA PosStep == PosInv /\ [Next]_vars => PosInv'
<1> SUFFICES ASSUME PosInv, [Next]_vars PROVE PosInv'
  OBVIOUS
<1>1. CASE Running
  BY <1>1, RunningMoves
<1>2. ASSUME NEW f \in {"hpet_sleep", "hpet_sleep_counter"}, NEW n \in Sleeps, Call(f, n) PROVE PosInv'
  BY <1>2, Starts DEF Call
<1>3. CASE _handle_timer \/ _handle_lapic_timer \/ Tick \/ UNCHANGED vars
  <2>1. UNCHANGED <<fn, todo>>
    BY <1>3 DEF _handle_timer, _handle_lapic_timer, Resumed, Tick, vars
  <2> QED
    BY <2>1, Stays
<1> QED
  BY <1>1, <1>2, <1>3 DEF Next

(* Writes to the HPET's registers keep its type.                           *)
LEMMA HpetWrites ==
    ASSUME NEW h \in Hpets, NEW b \in BOOLEAN, NEW c \in Nat
    PROVE  /\ [h EXCEPT !.on = b] \in Hpets /\ [h EXCEPT !.periodic = b] \in Hpets
           /\ [h EXCEPT !.int_on = b] \in Hpets /\ [h EXCEPT !.routed = b] \in Hpets
           /\ [h EXCEPT !.counter = 0] \in Hpets /\ [h EXCEPT !.comparator = c] \in Hpets
  BY Rates DEF Hpets

(* Writes to the local APIC's timer registers, and the fields they leave.  *)
LEMMA LapicWrites ==
    ASSUME NEW a \in Lapics, NEW n \in Int, NEW m \in {"masked", "periodic"}
    PROVE  /\ Loaded(a, n) \in Lapics /\ Loaded(a, n).lvt = a.lvt
           /\ Loaded(a, n).initial = n /\ Loaded(a, n).count = n
           /\ InMode(a, m) \in Lapics /\ InMode(a, m).lvt = m
           /\ InMode(a, m).initial = a.initial /\ InMode(a, m).count = a.count
  BY DEF Lapics, Loaded, InMode

(* The local APIC's count register holds MaxCount.                         *)
LEMMA CountWidth == 2 ^ CountBits \in Nat /\ 2 ^ CountBits > 1 /\ MaxCount \in Nat /\ MaxCount > 0
<1>1. 2 ^ CountBits \in Nat /\ 2 ^ CountBits > 1
  BY WidthAssumption
<1> QED
  BY <1>1 DEF MaxCount

(* Ten sleeps of the calibration's length make a second's.                 *)
LEMMA TenLimits == Limit(MsPerSec) = Tenth * Limit(CalibrationMs)
<1> DEFINE f == hpet_frequency \div MsPerSec
           c == MsPerSec \div Tenth
           L == Limit(CalibrationMs)
<1>1. /\ Tenth \in Nat /\ Tenth > 0 /\ MsPerSec \in Nat /\ MsPerSec > 0 /\ MsPerSec % Tenth = 0
      /\ f \in Nat /\ c \in Nat
  BY Rates, RateAssumption
<1>2. MsPerSec = Tenth * c
  BY <1>1
<1>3. Limit(MsPerSec) = f * MsPerSec /\ L = f * c
  BY DEF Limit, CalibrationMs
<1> HIDE DEF f, c, L
<1>4. f * (Tenth * c) = Tenth * (f * c)
  BY <1>1
<1> QED
  BY <1>2, <1>3, <1>4 DEF L

(* A calibrated count and the second that follows from it.                 *)
LEMMA SecondIs ==
    ASSUME Calibrated, SecondFits
    PROVE  \E K \in Nat : /\ K \in Limit(MsPerSec) .. Tenth * CalibrationMost /\ MaxDelay < K
                          /\ Second = LapicRate * K
<1> DEFINE L == Limit(CalibrationMs)
           M == CalibrationMost
           R == LapicRate
           B == 2 ^ CountBits
<1>1. /\ L \in Nat /\ Tenth \in Nat /\ Tenth > 0 /\ R \in Nat /\ R > 0 /\ MaxDelay \in Nat
      /\ MsPerSec \in Nat /\ hpet_frequency \in Nat /\ MsPerSec > 0 /\ MsPerSec % Tenth = 0
  BY Rates, RateAssumption
<1>2. Limit(MsPerSec) = Tenth * L
  BY TenLimits
<1>3. PICK t \in L .. M : ticksin100ms = R * t
  BY DEF Calibrated
<1>4. M \in Nat
  BY <1>1, Rates, CounterScript DEF CalibrationMost, Longest
<1>5. t \in Nat /\ L <= t /\ t <= M
  BY <1>1, <1>3, <1>4
<1>6. B \in Nat /\ ticksin100ms * Tenth <= B - 1
  BY CountWidth DEF SecondFits, MaxCount
<1> HIDE DEF L, M, R, B
<1> DEFINE K == Tenth * t
<1>7. K \in Nat /\ Tenth * L <= K /\ K <= Tenth * M
  BY <1>1, <1>4, <1>5
<1>8. (R * t) * Tenth = R * K
  BY <1>1, <1>5
<1> HIDE DEF K
<1>9. R * K \in Nat /\ R * K < B
  <2>1. R * K \in Nat
    BY <1>1, <1>7
  <2> QED
    BY <1>3, <1>6, <1>8, <2>1
<1>10. (ticksin100ms * Tenth) % B = R * K
  <2>1. ticksin100ms * Tenth = R * K
    BY <1>3, <1>8
  <2> HIDE DEF K
  <2> DEFINE x == R * K
  <2>2. x \in Nat /\ x < B /\ B \in Nat
    BY <1>6, <1>9
  <2> HIDE DEF x
  <2>3. x % B = x
    BY <2>2
  <2> QED
    BY <2>1, <2>3 DEF x
<1>11. MaxDelay < K
  <2>1. MaxDelay < Tenth * L
    BY WidthAssumption DEF L
  <2>2. Tenth * L \in Nat
    BY <1>1
  <2> QED
    BY <1>1, <1>7, <2>1, <2>2
<1>12. K \in Limit(MsPerSec) .. Tenth * M
  <2>1. Tenth * L \in Nat /\ Tenth * M \in Nat
    BY <1>1, <1>4
  <2>2. K \in Tenth * L .. Tenth * M
    BY <1>7, <2>1
  <2> QED
    BY <1>2, <2>2
<1> QED
  BY <1>7, <1>10, <1>11, <1>12 DEF R, B, M, Second

(* The longest a sleep may take.                                           *)
LEMMA SleepMostNat == SleepMost \in Nat /\ CounterCap <= SleepMost
<1>1. SleepMost = CounterCap + 10 * MaxDelay
  BY Rates, SleepScript DEF SleepMost, Longest
<1> QED
  BY <1>1, Rates

(* Every access keeps the types.                                           *)
LEMMA TypeRunning ==
    ASSUME PosInv, TypeInv, Running
    PROVE  TypeInv'
<1>1. /\ lag' = 0 /\ UNCHANGED <<fn, ms, kernel_timer_secs, irr, slept>>
      /\ fn \in {"boot", "hpet_sleep", "hpet_sleep_counter"}
  BY RunningMoves DEF PosInv
<1>2. MaxDelay \in Nat /\ TRUE \in BOOLEAN /\ FALSE \in BOOLEAN /\ BspIsZero \in BOOLEAN
  BY Rates
<1>3. hp \in Hpets /\ la \in Lapics /\ Limit(ms) \in Nat /\ ticksin100ms \in Int /\ _ticks \in Nat
  BY DEF TypeInv
<1> SUFFICES hp' \in Hpets /\ _ticks' \in Nat /\ la' \in Lapics /\ ticksin100ms' \in Int
  BY <1>1, <1>2 DEF TypeInv
<1>4. CASE fn = "hpet_sleep"
  <2>1. /\ UNCHANGED <<la, ticksin100ms>> /\ _ticks' \in {_ticks, 0}
        /\ hp' \in {hp, [hp EXCEPT !.on = FALSE], [hp EXCEPT !.on = TRUE], [hp EXCEPT !.counter = 0],
                    [hp EXCEPT !.periodic = FALSE], [hp EXCEPT !.comparator = Limit(ms)],
                    [hp EXCEPT !.int_on = TRUE]}
    BY <1>4, SleepRuns
  <2>2. hp' \in Hpets
    BY <1>3, <2>1, HpetWrites, Zenon
  <2> QED
    BY <1>3, <2>1, <2>2
<1>5. CASE fn = "hpet_sleep_counter"
  <2>1. /\ UNCHANGED <<la, ticksin100ms, _ticks>>
        /\ hp' \in {hp, [hp EXCEPT !.on = FALSE], [hp EXCEPT !.on = TRUE], [hp EXCEPT !.counter = 0],
                    [hp EXCEPT !.int_on = FALSE]}
    BY <1>5, CounterRuns
  <2> QED
    BY <1>2, <1>3, <2>1, HpetWrites
<1>6. CASE fn = "boot"
  <2>1. (ticksin100ms * Tenth) % 2 ^ CountBits \in Int
    <3>1. 2 ^ CountBits \in Nat /\ 2 ^ CountBits > 0
      BY CountWidth
    <3>2. ticksin100ms * Tenth \in Int
      BY <1>3, Rates
    <3> QED
      BY <3>1, <3>2
  <2>2. MaxCount \in Int /\ MaxCount - la.count \in Int
    BY <1>3, CountWidth DEF Lapics
  <2>3. _ticks' \in {_ticks, 0} /\ ticksin100ms' \in {ticksin100ms, MaxCount - la.count}
    BY <1>6, BootRuns
  <2>4. hp' \in Hpets
    <3>1. Made \in 9 .. 14 => (Made \in {9, 14} \/ Made = 10 \/ Made = 11 \/ Made = 12 \/ Made = 13)
      OBVIOUS
    <3>2. hp' \in {hp, [hp EXCEPT !.on = FALSE], [hp EXCEPT !.on = TRUE], [hp EXCEPT !.counter = 0],
                   [hp EXCEPT !.periodic = TRUE], [hp EXCEPT !.int_on = TRUE],
                   [hp EXCEPT !.int_on = FALSE], [hp EXCEPT !.routed = BspIsZero]}
      BY <1>6, <3>1, BootRuns, Zenon
    <3> QED
      BY <1>2, <1>3, <3>2, HpetWrites, Zenon
  <2>5. la' \in Lapics
    <3>1. la' \in {la, Loaded(la, 0), Loaded(la, MaxCount), Loaded(la, Second),
                   InMode(la, "masked"), InMode(la, "periodic")}
      BY <1>6, BootRuns
    <3>2. Second \in Int
      BY <2>1 DEF Second
    <3> QED
      BY <1>3, <2>2, <3>1, <3>2, LapicWrites
  <2> QED
    BY <1>3, <2>2, <2>3, <2>4, <2>5
<1> QED
  BY <1>1, <1>4, <1>5, <1>6

(* Every step keeps the types.                                             *)
LEMMA TypeStep == PosInv /\ TypeInv /\ [Next]_vars => TypeInv'
<1> SUFFICES ASSUME PosInv, TypeInv, [Next]_vars PROVE TypeInv'
  OBVIOUS
<1>1. CASE Running
  BY <1>1, TypeRunning
<1>2. ASSUME NEW f \in {"hpet_sleep", "hpet_sleep_counter"}, NEW n \in Sleeps, Call(f, n) PROVE TypeInv'
  BY <1>2, Rates, SleepMostNat DEF Call, TypeInv, timerVars, intVars
<1>3. CASE _handle_timer
  <2>1. _ticks' \in Nat
    BY <1>3 DEF _handle_timer, hpet_isr, Least, TypeInv
  <2> QED
    BY <1>3, <2>1 DEF _handle_timer, hpet_ack, Resumed, TypeInv
<1>4. CASE _handle_lapic_timer
  <2>1. kernel_timer_secs' \in 0 .. SecsCap
    BY <1>4, Rates DEF _handle_lapic_timer, Least, TypeInv
  <2> QED
    BY <1>4, <2>1 DEF _handle_lapic_timer, Resumed, timerVars, TypeInv
<1>5. CASE Tick
  <2>1. hp' \in Hpets
    BY <1>5, TickEffect, TickedFields DEF TypeInv
  <2>2. irr' \subseteq {TIMER_VECTOR, LAPICTMR_VECTOR}
    BY <1>5 DEF Tick, TypeInv
  <2>3. la' \in Lapics
    <3> DEFINE c == IF LapicFires THEN la.initial
                    ELSE IF la.count <= LapicRate THEN 0 ELSE la.count - LapicRate
    <3>1. la' = [la EXCEPT !.count = c]
      BY <1>5 DEF Tick
    <3>2. la \in Lapics /\ la.initial \in Int /\ la.count \in Int
      BY DEF TypeInv, Lapics
    <3>3. c \in Int
      BY <3>2, Rates
    <3> HIDE DEF c
    <3> QED
      BY <3>1, <3>2, <3>3 DEF Lapics
  <2>4. slept' \in 0 .. SleepMost + 1
    BY <1>5, TickEffect, SleepMostNat DEF Least, TypeInv
  <2>5. lag' \in 0 .. MaxDelay /\ (todo' = << >> => lag' = 0)
    BY <1>5, TickEffect, Rates DEF TypeInv
  <2> QED
    BY <1>5, <2>1, <2>2, <2>3, <2>4, <2>5, TickEffect DEF TypeInv
<1>6. CASE UNCHANGED vars
  BY <1>6 DEF vars, timerVars, intVars, TypeInv
<1> QED
  BY <1>1, <1>2, <1>3, <1>4, <1>5, <1>6 DEF Next

(* Every step keeps the interrupt flag as it should be: off from the boot  *)
(* code's cli to its restore, on afterwards.                               *)
LEMMA FlagStep == PosInv /\ FlagInv /\ [Next]_vars => FlagInv'
<1> SUFFICES ASSUME PosInv, FlagInv, [Next]_vars PROVE FlagInv'
  OBVIOUS
<1>1. CASE Running
  <2>1. fn' = fn /\ fn \in {"boot", "hpet_sleep", "hpet_sleep_counter"}
    BY <1>1, RunningMoves DEF PosInv
  <2>2. CASE fn = "boot"
    <3>1. Made = 5 => istate' = iflag /\ iflag' = FALSE
      BY <1>1, <2>2, BootRuns
    <3>2. Made = 20 => iflag' = istate
      BY <1>1, <2>2, BootRuns
    <3>3. Made \notin {5, 20} => UNCHANGED <<iflag, istate>>
      BY <1>1, <2>2, BootRuns
    <3>a. Made \in 0 .. 20
      BY <1>1, <2>2, BootOps
    <3>4. Made' = Made + 1 \/ (Made = 13 /\ Made' = 13)
      BY <1>1, <2>2, BootRuns
    <3> QED
      BY <2>1, <2>2, <3>1, <3>2, <3>3, <3>a, <3>4 DEF FlagInv
  <2>3. CASE fn # "boot"
    <3>1. UNCHANGED <<iflag, istate>>
      BY <1>1, <2>1, <2>3, SleepRuns, CounterRuns
    <3> QED
      BY <2>1, <2>3, <3>1 DEF FlagInv
  <2> QED
    BY <2>2, <2>3
<1>2. ASSUME NEW f \in {"hpet_sleep", "hpet_sleep_counter"}, NEW n \in Sleeps, Call(f, n) PROVE FlagInv'
  <2>1. fn # "boot" \/ Made = 21
    BY <1>2, Position, ScriptLength DEF Call, PosInv
  <2>2. fn' # "boot" /\ iflag' = iflag
    BY <1>2 DEF Call, intVars
  <2> QED
    BY <2>1, <2>2 DEF FlagInv
<1>3. CASE _handle_timer \/ _handle_lapic_timer \/ Tick \/ UNCHANGED vars
  <2>1. UNCHANGED <<fn, todo, iflag, istate>>
    BY <1>3 DEF _handle_timer, _handle_lapic_timer, Resumed, Tick, vars, intVars
  <2>2. Made' = Made
    BY <2>1, Stays
  <2> QED
    BY <2>1, <2>2 DEF FlagInv
<1> QED
  BY <1>1, <1>2, <1>3 DEF Next

-----------------------------------------------------------------------------
(* The sleeps.                                                             *)

(* A wait's bound needs no lag when the last access is the latest event.   *)
LEMMA SleepRunning ==
    ASSUME PosInv, TypeInv, FlagInv, SleepInv, Running, fn = "hpet_sleep", PosInv', TypeInv'
    PROVE  SleepInv'
<1>1. /\ ~Interrupted /\ lag' = 0 /\ UNCHANGED <<fn, ms, irr, slept>>
  BY RunningMoves
<1>2. irr = {}
  BY <1>1 DEF FlagInv, Interrupted
<1>3. /\ hp \in Hpets /\ hp' \in Hpets /\ _ticks \in Nat /\ _ticks' \in Nat /\ lag \in 0 .. MaxDelay
      /\ Limit(ms) \in 1 .. CounterCap - 1 /\ slept \in 0 .. SleepMost + 1 /\ slept \in Nat /\ Limit(ms) \in Nat
      /\ CounterCap \in Nat
  BY Rates, SleepMostNat DEF TypeInv
<1>4. TickWait(hp, _ticks, FALSE, lag, Limit(ms), Made, slept)
  BY <1>2 DEF SleepInv, TickWait
<1>5. SUFFICES TickWait(hp', _ticks', FALSE, 0, Limit(ms), Made', slept)
  BY <1>1, <1>2 DEF SleepInv, TickWait
<1>6. CASE Made = 7 /\ Made' = 7 /\ _ticks = 0 /\ UNCHANGED <<hp, _ticks>>
  BY <1>3, <1>4, <1>6, HpetFields DEF TickWait
<1>7. CASE ~(Made = 7 /\ Made' = 7 /\ _ticks = 0 /\ UNCHANGED <<hp, _ticks>>)
  <2>1. /\ Made' = Made + 1 /\ Made \in 0 .. 8
        /\ Made \in {0, 8} => hp' = [hp EXCEPT !.on = FALSE]
        /\ Made = 1 => hp' = hp /\ _ticks' = 0
        /\ Made # 1 => _ticks' = _ticks
        /\ Made = 2 => hp' = [hp EXCEPT !.counter = 0]
        /\ Made = 3 => hp' = [hp EXCEPT !.periodic = FALSE]
        /\ Made = 4 => hp' = [hp EXCEPT !.comparator = Limit(ms)]
        /\ Made = 5 => hp' = [hp EXCEPT !.int_on = TRUE]
        /\ Made = 6 => hp' = [hp EXCEPT !.on = TRUE]
        /\ Made = 7 => hp' = hp /\ _ticks # 0
    BY <1>7, SleepRuns
  <2>2. /\ Made \in {0, 8} => ~hp'.on
        /\ Made = 2 => hp'.on = hp.on /\ hp'.counter = 0
        /\ Made = 3 => hp'.on = hp.on /\ hp'.counter = hp.counter /\ ~hp'.periodic
        /\ Made = 4 => /\ hp'.on = hp.on /\ hp'.counter = hp.counter
                       /\ hp'.periodic = hp.periodic /\ hp'.comparator = Limit(ms)
        /\ Made = 5 => /\ hp'.on = hp.on /\ hp'.counter = hp.counter
                       /\ hp'.periodic = hp.periodic /\ hp'.comparator = hp.comparator /\ hp'.int_on
        /\ Made = 6 => /\ hp'.on /\ hp'.counter = hp.counter /\ hp'.int_on = hp.int_on
                       /\ hp'.periodic = hp.periodic /\ hp'.comparator = hp.comparator
    <3>1. hp \in Hpets
      BY <1>3
    <3>2. Made \in {0, 8} => ~hp'.on
      BY <2>1, <3>1 DEF Hpets
    <3>3. Made = 2 => hp'.on = hp.on /\ hp'.counter = 0
      BY <2>1, <3>1 DEF Hpets
    <3>4. Made = 3 => hp'.on = hp.on /\ hp'.counter = hp.counter /\ ~hp'.periodic
      BY <2>1, <3>1 DEF Hpets
    <3>5. Made = 4 => /\ hp'.on = hp.on /\ hp'.counter = hp.counter
                      /\ hp'.periodic = hp.periodic /\ hp'.comparator = Limit(ms)
      BY <2>1, <3>1 DEF Hpets
    <3>6. Made = 5 => /\ hp'.on = hp.on /\ hp'.counter = hp.counter
                      /\ hp'.periodic = hp.periodic /\ hp'.comparator = hp.comparator /\ hp'.int_on
      BY <2>1, <3>1 DEF Hpets
    <3>7. Made = 6 => /\ hp'.on /\ hp'.counter = hp.counter /\ hp'.int_on = hp.int_on
                      /\ hp'.periodic = hp.periodic /\ hp'.comparator = hp.comparator
      BY <2>1, <3>1 DEF Hpets
    <3> QED
      BY <3>2, <3>3, <3>4, <3>5, <3>6, <3>7
  <2>a. /\ Made \in 0 .. 8
        /\ Made \in {0, 8} => ~hp'.on
        /\ Made \in 1 .. 5 => hp'.on = hp.on
        /\ Made = 1 => _ticks' = 0
        /\ Made # 1 => _ticks' = _ticks
        /\ Made = 2 => hp'.counter = 0
        /\ Made \in 3 .. 6 => hp'.counter = hp.counter
        /\ Made = 3 => ~hp'.periodic
        /\ Made \in 4 .. 6 => hp'.periodic = hp.periodic
        /\ Made = 4 => hp'.comparator = Limit(ms)
        /\ Made \in 5 .. 6 => hp'.comparator = hp.comparator
        /\ Made = 5 => hp'.int_on
        /\ Made = 6 => hp'.int_on = hp.int_on /\ hp'.on
        /\ Made = 7 => _ticks # 0
    BY <2>1, <2>2
  <2>3. TickWait(hp', _ticks', FALSE, 0, Limit(ms), Made + 1, slept)
    BY <1>3, <1>4, <2>a, TickAccess, Zenon
  <2> QED
    BY <2>1, <2>3
<1> QED
  BY <1>6, <1>7

(* Every access of hpet_sleep_counter keeps what is known of its wait.     *)
LEMMA CounterRunning ==
    ASSUME PosInv, TypeInv, FlagInv, SleepInv, Running, fn = "hpet_sleep_counter", PosInv', TypeInv'
    PROVE  SleepInv'
<1>1. lag' = 0 /\ UNCHANGED <<fn, ms, irr, slept>>
  BY RunningMoves
<1>3. /\ hp \in Hpets /\ hp' \in Hpets /\ lag \in 0 .. MaxDelay
      /\ Limit(ms) \in 1 .. CounterCap - 1 /\ slept \in 0 .. SleepMost + 1 /\ slept \in Nat /\ Limit(ms) \in Nat
      /\ CounterCap \in Nat
  BY Rates, SleepMostNat DEF TypeInv
<1>4. CounterWait(hp, lag, Limit(ms), Made, slept)
  BY DEF SleepInv
<1>5. SUFFICES CounterWait(hp', 0, Limit(ms), Made', slept)
  BY <1>1 DEF SleepInv
<1>6. CASE Made = 4 /\ Made' = 4 /\ ~(hp.counter >= Limit(ms)) /\ hp' = hp
  BY <1>3, <1>4, <1>6, HpetFields DEF CounterWait
<1>7. CASE ~(Made = 4 /\ Made' = 4 /\ ~(hp.counter >= Limit(ms)) /\ hp' = hp)
  <2>1. /\ Made' = Made + 1 /\ Made \in 0 .. 5
        /\ Made \in {0, 5} => hp' = [hp EXCEPT !.on = FALSE]
        /\ Made = 1 => hp' = [hp EXCEPT !.int_on = FALSE]
        /\ Made = 2 => hp' = [hp EXCEPT !.counter = 0]
        /\ Made = 3 => hp' = [hp EXCEPT !.on = TRUE]
        /\ Made = 4 => hp' = hp /\ hp.counter >= Limit(ms)
    BY <1>7, CounterRuns
  <2>2. /\ Made \in {0, 5} => ~hp'.on
        /\ Made = 1 => hp'.on = hp.on
        /\ Made = 2 => hp'.on = hp.on /\ hp'.counter = 0
        /\ Made = 3 => hp'.on /\ hp'.counter = hp.counter
    <3>1. hp \in Hpets
      BY <1>3
    <3>2. Made \in {0, 5} => ~hp'.on
      BY <2>1, <3>1 DEF Hpets
    <3>3. Made = 1 => hp'.on = hp.on
      BY <2>1, <3>1 DEF Hpets
    <3>4. Made = 2 => hp'.on = hp.on /\ hp'.counter = 0
      BY <2>1, <3>1 DEF Hpets
    <3>5. Made = 3 => hp'.on /\ hp'.counter = hp.counter
      BY <2>1, <3>1 DEF Hpets
    <3> QED
      BY <3>2, <3>3, <3>4, <3>5
  <2>3. CounterWait(hp', 0, Limit(ms), Made + 1, slept)
    BY <1>3, <1>4, <2>1, <2>2, CounterAccess
  <2> QED
    BY <2>1, <2>3
<1> QED
  BY <1>6, <1>7

(* Where nothing is being slept for, the clocks may run on.                *)
LEMMA SleepTick ==
    ASSUME PosInv, TypeInv, FlagInv, SleepInv, Tick
    PROVE  SleepInv'
<1>1. /\ ~Interrupted /\ (todo = << >> \/ lag < MaxDelay)
      /\ hp' = Ticked(hp)
      /\ lag' = (IF todo = << >> THEN 0 ELSE lag + 1)
      /\ slept' = (IF todo = << >> THEN slept ELSE Least(slept + 1, SleepMost + 1))
      /\ UNCHANGED <<fn, ms, todo, _ticks>>
  BY TickEffect
<1>2. Made' = Made /\ fn \in {"boot", "hpet_sleep", "hpet_sleep_counter"}
  BY <1>1, Stays DEF PosInv
<1>3. /\ hp \in Hpets /\ _ticks \in Nat /\ lag \in Nat /\ Limit(ms) \in 1 .. CounterCap - 1
      /\ slept \in 0 .. SleepMost + 1 /\ slept \in Nat /\ Limit(ms) \in Nat /\ CounterCap \in Nat /\ (todo = << >> => lag = 0)
  BY Rates, SleepMostNat DEF TypeInv
<1>4. CASE fn = "hpet_sleep"
  <2>1. iflag /\ irr = {}
    BY <1>1, <1>4 DEF FlagInv, Interrupted
  <2>2. PICK fires \in BOOLEAN :
            HpetFires(fires) /\ (TIMER_VECTOR \in irr' <=> fires)
    BY <2>1 DEF Tick, TIMER_VECTOR, LAPICTMR_VECTOR
  <2>3. TickWait(hp, _ticks, FALSE, lag, Limit(ms), Made, slept)
    BY <1>4, <2>1 DEF SleepInv, TickWait
  <2>4. Made \in 0 .. 9 /\ (todo = << >> <=> Made = 9)
    BY <1>4, Position, ScriptLength
  <2>5. SUFFICES TickWait(hp', _ticks, fires, lag', Limit(ms), Made, slept')
    <3>1. TickWait(hp', _ticks, TIMER_VECTOR \in irr', lag', Limit(ms), Made, slept')
      BY <2>2, <2>5 DEF TickWait
    <3> QED
      BY <1>1, <1>2, <1>4, <3>1 DEF SleepInv
  <2>6. CASE todo = << >>
    BY <1>1, <1>3, <2>3, <2>4, <2>6 DEF TickWait
  <2>7. CASE todo # << >>
    <3>1. slept' \in {slept, slept + 1} /\ (slept' = slept => CounterCap <= slept)
      BY <1>1, <1>3, <2>7, SleepMostNat DEF Least
    <3>2. /\ fires => hp.on
          /\ ~hp.periodic => (fires <=> hp.on /\ hp.int_on /\ Delivered(hp) /\ hp.counter + 1 = hp.comparator)
      BY <2>2 DEF HpetFires
    <3>3. Made \in 0 .. 8 /\ lag' = lag + 1
      BY <1>1, <2>4, <2>7
    <3>4. /\ hp \in Hpets /\ _ticks \in Nat /\ lag \in Nat /\ Limit(ms) \in 1 .. CounterCap - 1
          /\ Made \in 0 .. 8 /\ slept \in Nat /\ fires \in BOOLEAN
      BY <1>3, <3>3
    <3>5. TickWait(Ticked(hp), _ticks, fires, lag + 1, Limit(ms), Made, slept')
      BY <2>3, <3>1, <3>2, <3>4, TickTick, ZenonT(40)
    <3> QED
      BY <1>1, <3>3, <3>5
  <2> QED
    BY <2>6, <2>7
<1>5. CASE fn = "hpet_sleep_counter"
  <2>1. Made \in 0 .. 6 /\ (todo = << >> <=> Made = 6)
    BY <1>5, Position, ScriptLength
  <2>2. CounterWait(hp, lag, Limit(ms), Made, slept)
    BY <1>5 DEF SleepInv
  <2>3. SUFFICES CounterWait(hp', lag', Limit(ms), Made, slept')
    BY <1>1, <1>2, <1>5 DEF SleepInv
  <2>4. CASE todo = << >>
    BY <1>1, <1>3, <2>1, <2>2, <2>4 DEF CounterWait
  <2>5. CASE todo # << >>
    <3>1. slept' \in {slept, slept + 1} /\ (slept' = slept => CounterCap <= slept)
      BY <1>1, <1>3, <2>5, SleepMostNat DEF Least
    <3>2. CounterWait(Ticked(hp), lag + 1, Limit(ms), Made, slept')
      BY <1>3, <2>1, <2>2, <3>1, CounterTick
    <3> QED
      BY <1>1, <2>5, <3>2
  <2> QED
    BY <2>4, <2>5
<1>6. CASE fn = "boot"
  BY <1>1, <1>6 DEF SleepInv
<1> QED
  BY <1>2, <1>4, <1>5, <1>6

(* Every step keeps the invariant of the sleep under way.                  *)
LEMMA SleepStep == PosInv /\ TypeInv /\ FlagInv /\ SleepInv /\ [Next]_vars => SleepInv'
<1> SUFFICES ASSUME PosInv, TypeInv, FlagInv, SleepInv, [Next]_vars PROVE SleepInv'
  OBVIOUS
<1>0. PosInv' /\ TypeInv'
  BY PosStep, TypeStep
<1>1. CASE Running
  <2>1. fn \in {"boot", "hpet_sleep", "hpet_sleep_counter"} /\ fn' = fn
    BY <1>1, RunningMoves DEF PosInv
  <2>2. CASE fn = "boot"
    BY <2>1, <2>2 DEF SleepInv
  <2> QED
    BY <1>0, <1>1, <2>1, <2>2, SleepRunning, CounterRunning
<1>2. ASSUME NEW f \in {"hpet_sleep", "hpet_sleep_counter"}, NEW n \in Sleeps, Call(f, n) PROVE SleepInv'
  <2>1. Made' = 0 /\ slept' = 0 /\ lag' = 0
    BY <1>2, Starts DEF Call
  <2> QED
    BY <2>1, Rates DEF SleepInv, TickWait, CounterWait
<1>3. CASE _handle_timer
  <2>1. /\ UNCHANGED <<fn, ms, todo, lag, hp, slept>> /\ irr' = irr \ {TIMER_VECTOR}
        /\ TIMER_VECTOR \in irr /\ _ticks' = Least(_ticks + 1, 2)
    BY <1>3 DEF _handle_timer, hpet_isr, hpet_ack, Resumed
  <2>2. Made' = Made
    BY <2>1, Stays
  <2>3. _ticks' # 0
    BY <2>1 DEF Least, TypeInv
  <2> QED
    BY <2>1, <2>2, <2>3 DEF SleepInv, TickWait
<1>4. CASE _handle_lapic_timer
  <2>1. /\ UNCHANGED <<fn, ms, todo, lag, hp, _ticks, slept>> /\ (TIMER_VECTOR \in irr' <=> TIMER_VECTOR \in irr)
    BY <1>4 DEF _handle_lapic_timer, Resumed, timerVars, TIMER_VECTOR, LAPICTMR_VECTOR
  <2>2. Made' = Made
    BY <2>1, Stays
  <2> QED
    BY <2>1, <2>2 DEF SleepInv, TickWait
<1>5. CASE Tick
  BY <1>5, SleepTick
<1>6. CASE UNCHANGED vars
  <2>1. UNCHANGED <<fn, ms, todo, lag, hp, _ticks, irr, slept>>
    BY <1>6 DEF vars, timerVars, intVars
  <2>2. Made' = Made
    BY <2>1, Stays
  <2> QED
    BY <2>1, <2>2 DEF SleepInv
<1> QED
  BY <1>1, <1>2, <1>3, <1>4, <1>5, <1>6 DEF Next
-----------------------------------------------------------------------------
(* The local APIC's timer.                                                 *)

LEMMA CalibrationMostIs ==
    /\ CalibrationMost = Limit(CalibrationMs) + 7 * MaxDelay /\ CalibrationMost \in Nat
    /\ ElapsedCap \in Nat
<1>1. CalibrationMost = Limit(CalibrationMs) + 7 * MaxDelay
  BY Rates, CounterScript DEF CalibrationMost, Longest
<1>2. CalibrationMost \in Nat
  BY <1>1, Rates
<1>3. SecsCap * Tenth * CalibrationMost \in Nat
  BY <1>2, Rates
<1> QED
  BY <1>1, <1>2, <1>3 DEF ElapsedCap

(* The fields of the local APIC's timer.                                   *)
LEMMA LapicFields ==
    ASSUME NEW a \in Lapics
    PROVE  a.lvt \in {"masked", "periodic"} /\ a.initial \in Int /\ a.count \in Int
  BY DEF Lapics

(* Where the timer does not count yet, and where it does.                  *)
LEMMA LapicRunsOn ==
    ASSUME PosInv, TypeInv, FlagInv, LapicInv, Running, fn # "boot"
    PROVE  LapicInv'
<1>1. /\ UNCHANGED <<fn, irr, kernel_timer_secs, la, ticksin100ms, elapsed>>
      /\ fn \in {"hpet_sleep", "hpet_sleep_counter"}
  BY RunningMoves, SleepRuns, CounterRuns DEF PosInv
<1>2. ASSUME SecondFits PROVE \E K, r, F \in Nat : Counting(K, r, F)'
  <2>1. PICK K, r, F \in Nat : Counting(K, r, F)
    BY <1>2 DEF LapicInv
  <2>2. Counting(K, r, F)'
    BY <1>1, <2>1 DEF Counting, Pending
  <2> QED
    BY <2>2
<1>3. SecondFits' = SecondFits
  BY <1>1 DEF SecondFits
<1> QED
  BY <1>1, <1>2, <1>3 DEF LapicInv

(* A call of a sleep function leaves the seconds alone.                    *)
LEMMA LapicCalls ==
    ASSUME PosInv, LapicInv, NEW f \in {"hpet_sleep", "hpet_sleep_counter"}, NEW n \in Sleeps, Call(f, n)
    PROVE  LapicInv'
<1>1. /\ UNCHANGED <<irr, kernel_timer_secs, la, ticksin100ms, elapsed>>
      /\ fn' # "boot" /\ (fn # "boot" \/ Made = 21)
  BY Position, ScriptLength DEF Call, timerVars, intVars, PosInv
<1>2. ASSUME SecondFits PROVE \E K, r, F \in Nat : Counting(K, r, F)'
  <2>1. PICK K, r, F \in Nat : Counting(K, r, F)
    BY <1>1, <1>2 DEF LapicInv
  <2>2. Counting(K, r, F)'
    BY <1>1, <2>1 DEF Counting, Pending
  <2> QED
    BY <2>2
<1>3. SecondFits' = SecondFits
  BY <1>1 DEF SecondFits
<1> QED
  BY <1>1, <1>2, <1>3 DEF LapicInv

(* _handle_lapic_timer turns the pending expiration into a counted second. *)
LEMMA LapicHandled ==
    ASSUME PosInv, TypeInv, FlagInv, LapicInv, _handle_lapic_timer
    PROVE  LapicInv'
<1>1. /\ UNCHANGED <<fn, todo, lag, la, ticksin100ms, elapsed>> /\ iflag
      /\ LAPICTMR_VECTOR \in irr /\ LAPICTMR_VECTOR \notin irr'
      /\ kernel_timer_secs' = Least(kernel_timer_secs + 1, SecsCap)
  BY DEF _handle_lapic_timer, Resumed, timerVars
<1>2. Made' = Made
  BY <1>1, Stays
<1>3. fn \in {"boot", "hpet_sleep", "hpet_sleep_counter"} /\ (fn = "boot" => Made \in 0 .. 21)
  BY Position, ScriptLength DEF PosInv
<1>4. fn # "boot" \/ Made = 21
  BY <1>1, <1>3 DEF FlagInv, LapicInv
<1>5. Pending = 1 /\ Pending' = 0
  BY <1>1 DEF Pending
<1>6. ASSUME SecondFits PROVE \E K, r, F \in Nat : Counting(K, r, F)'
  <2>1. PICK K, r, F \in Nat : Counting(K, r, F)
    BY <1>4, <1>6 DEF LapicInv
  <2>2. /\ kernel_timer_secs' + Pending' <= F
        /\ kernel_timer_secs' < SecsCap => kernel_timer_secs' + Pending' = F
    BY <1>1, <1>5, <2>1, Rates DEF Counting, Least, TypeInv
  <2>3. Counting(K, r, F)'
    BY <1>1, <1>2, <1>4, <2>1, <2>2 DEF Counting
  <2> QED
    BY <2>3
<1>7. SecondFits' = SecondFits
  BY <1>1 DEF SecondFits
<1> QED
  BY <1>1, <1>2, <1>4, <1>6, <1>7 DEF LapicInv

(* Steps of the HPET's interrupt leave the seconds alone.                  *)
LEMMA LapicRests ==
    ASSUME PosInv, LapicInv, UNCHANGED <<fn, ms, todo, lag, hp, la, ticksin100ms, elapsed, kernel_timer_secs>>,
           LAPICTMR_VECTOR \in irr' <=> LAPICTMR_VECTOR \in irr
    PROVE  LapicInv'
<1>1. Made' = Made /\ Pending' = Pending /\ SecondFits' = SecondFits
  BY Stays DEF Pending, SecondFits
<1>2. fn = "boot" /\ Made <= 19 =>
          la'.lvt = "masked" /\ LAPICTMR_VECTOR \notin irr' /\ kernel_timer_secs' = 0
  BY DEF LapicInv
<1>3. fn = "boot" /\ Made <= 18 => elapsed' = -1
  BY DEF LapicInv
<1>4. fn = "boot" /\ Made \in 9 .. 15 =>
          \E t \in Nat : /\ la'.count = Left(t)
                         /\ CounterWait(hp', lag', Limit(ms'), Made' - 9, t)
  BY <1>1 DEF LapicInv
<1>5. fn = "boot" /\ Made \in 16 .. 18 => (SecondFits' => Calibrated')
  BY <1>1 DEF LapicInv, Calibrated
<1>6. (fn # "boot" \/ Made >= 19) /\ SecondFits' => \E K, r, F \in Nat : Counting(K, r, F)'
  <2> SUFFICES ASSUME fn # "boot" \/ Made >= 19, SecondFits PROVE \E K, r, F \in Nat : Counting(K, r, F)'
    BY <1>1
  <2>1. PICK K, r, F \in Nat : Counting(K, r, F)
    BY DEF LapicInv
  <2>2. Counting(K, r, F)'
    BY <1>1, <2>1 DEF Counting
  <2> QED
    BY <2>2
<1> QED
  BY <1>1, <1>2, <1>3, <1>4, <1>5, <1>6 DEF LapicInv

(* Counts of a number of ticks.                                            *)
LEMMA RateTimes ==
    ASSUME NEW r \in Nat, r > 0
    PROVE  /\ LapicRate * r \in Nat /\ LapicRate * r > 0
           /\ r > 1 => LapicRate * r > LapicRate /\ LapicRate * r - LapicRate = LapicRate * (r - 1)
           /\ r = 1 => LapicRate * r = LapicRate
<1>1. LapicRate \in Nat /\ LapicRate > 0
  BY Rates
<1>2. LapicRate * r = LapicRate * (r - 1) + LapicRate
  BY <1>1
<1>3. r > 1 => LapicRate * (r - 1) > 0
  BY <1>1
<1>4. LapicRate * (r - 1) \in Nat
  BY <1>1
<1> QED
  BY <1>1, <1>2, <1>3, <1>4

(* What a tick does to the local APIC's timer.                             *)
LEMMA LapicTicked ==
    ASSUME TypeInv, Tick
    PROVE  /\ la'.lvt = la.lvt /\ la'.initial = la.initial
           /\ LapicFires => la'.count = la.initial
           /\ ~LapicFires /\ la.count <= LapicRate => la'.count = 0
           /\ ~LapicFires /\ la.count > LapicRate => la'.count = la.count - LapicRate
           /\ LAPICTMR_VECTOR \in irr' <=> LAPICTMR_VECTOR \in irr \/ LapicFires
           /\ elapsed' = IF elapsed = -1 THEN -1 ELSE Least(elapsed + 1, ElapsedCap)
<1> DEFINE c == IF LapicFires THEN la.initial
                ELSE IF la.count <= LapicRate THEN 0 ELSE la.count - LapicRate
<1>1. la' = [la EXCEPT !.count = c]
  BY DEF Tick
<1>2. la \in Lapics /\ la.count \in Int /\ LapicRate \in Nat
  BY LapicFields, Rates DEF TypeInv
<1>3. /\ LapicFires => c = la.initial
      /\ ~LapicFires /\ la.count <= LapicRate => c = 0
      /\ ~LapicFires /\ la.count > LapicRate => c = la.count - LapicRate
  BY <1>2 DEF LapicFires
<1> HIDE DEF c
<1>4. la'.lvt = la.lvt /\ la'.initial = la.initial /\ la'.count = c
  BY <1>1, <1>2 DEF Lapics
<1>5. LAPICTMR_VECTOR \in irr' <=> LAPICTMR_VECTOR \in irr \/ LapicFires
  BY DEF Tick, TIMER_VECTOR, LAPICTMR_VECTOR
<1>6. elapsed' = IF elapsed = -1 THEN -1 ELSE Least(elapsed + 1, ElapsedCap)
  BY DEF Tick
<1> QED
  BY <1>3, <1>4, <1>5, <1>6

(* A timer that counts goes on counting.                                   *)
LEMMA CountingTick ==
    ASSUME PosInv, TypeInv, FlagInv, LapicInv, Tick, fn # "boot" \/ Made >= 19,
           NEW K \in Nat, NEW r \in Nat, NEW F \in Nat, Counting(K, r, F)
    PROVE  \E s, G \in Nat : Counting(K, s, G)'
<1>1. /\ ~Interrupted /\ (todo = << >> \/ lag < MaxDelay)
      /\ lag' = (IF todo = << >> THEN 0 ELSE lag + 1)
      /\ UNCHANGED <<fn, todo, kernel_timer_secs>>
  BY TickEffect
<1>2. Made' = Made
  BY <1>1, Stays
<1>3. /\ K \in Limit(MsPerSec) .. Tenth * CalibrationMost /\ MaxDelay < K
      /\ la.initial = LapicRate * K /\ la.count = LapicRate * r /\ r \in 1 .. K
      /\ elapsed \in Nat
      /\ elapsed < ElapsedCap => elapsed = F * K + (K - r)
      /\ kernel_timer_secs + Pending <= F
      /\ kernel_timer_secs < SecsCap => kernel_timer_secs + Pending = F
  BY DEF Counting
<1>4. /\ fn = "boot" /\ Made = 19 => F = 0 /\ K - r <= lag
      /\ fn = "boot" /\ Made = 20 => F * K + (K - r) <= MaxDelay + lag
      /\ fn # "boot" \/ Made > 19 => la.lvt = "periodic"
      /\ fn = "boot" /\ Made = 19 => la.lvt = "masked"
  BY DEF Counting, LapicInv
<1>5. /\ MaxDelay \in Nat /\ lag \in 0 .. MaxDelay /\ kernel_timer_secs \in Nat /\ ElapsedCap \in Nat
      /\ LapicRate \in Nat /\ LapicRate > 0 /\ SecsCap \in Nat
  BY Rates, CalibrationMostIs DEF TypeInv
<1>6. /\ fn \in {"boot", "hpet_sleep", "hpet_sleep_counter"}
      /\ fn = "boot" => Made \in 19 .. 21 /\ (todo = << >> <=> Made = 21)
  <2>1. fn \in {"boot", "hpet_sleep", "hpet_sleep_counter"}
    BY DEF PosInv
  <2>2. fn = "boot" => Made \in 0 .. 21 /\ (todo = << >> <=> Made = 21)
    BY Position, ScriptLength
  <2> QED
    BY <2>1, <2>2, SMTT(40)
<1>7. elapsed' = Least(elapsed + 1, ElapsedCap) /\ elapsed' \in Nat
  BY <1>3, <1>5, LapicTicked DEF Least
<1>8. /\ r > 1 => /\ r - 1 \in 1 .. K /\ (elapsed' < ElapsedCap => elapsed' = F * K + (K - (r - 1)))
                  /\ F * K + (K - (r - 1)) = F * K + (K - r) + 1
      /\ r = 1 => /\ K \in 1 .. K /\ (elapsed' < ElapsedCap => elapsed' = (F + 1) * K + (K - K))
                  /\ (F + 1) * K + (K - K) = F * K + (K - r) + 1
  <2>1. /\ r \in 1 .. K /\ elapsed \in Nat /\ elapsed' \in Nat /\ ElapsedCap \in Nat
        /\ elapsed' = Least(elapsed + 1, ElapsedCap)
        /\ elapsed < ElapsedCap => elapsed = F * K + (K - r)
    BY <1>3, <1>5, <1>7
  <2> DEFINE m == F * K
             m1 == (F + 1) * K
  <2>2. m \in Nat /\ m1 = m + K
    BY Times
  <2> HIDE DEF m, m1
  <2> QED
    BY <2>1, <2>2 DEF m, m1, Least
<1>9. /\ la'.lvt = la.lvt /\ la'.initial = la.initial
      /\ LapicFires => la'.count = la.initial
      /\ ~LapicFires /\ la.count > LapicRate => la'.count = la.count - LapicRate
      /\ LAPICTMR_VECTOR \in irr' <=> LAPICTMR_VECTOR \in irr \/ LapicFires
  BY LapicTicked
<1>10. F * K \in Nat
  BY Times
<1>11. CASE r > 1
  <2>1. la.count > LapicRate /\ la.count - LapicRate = LapicRate * (r - 1)
    BY <1>3, <1>11, RateTimes
  <2>2. ~LapicFires
    BY <1>5, <2>1, <1>3, RateTimes DEF LapicFires
  <2>3. la'.count = LapicRate * (r - 1) /\ Pending' = Pending
    BY <1>9, <2>1, <2>2 DEF Pending
  <2>4. fn = "boot" /\ Made = 19 => K - (r - 1) <= lag'
    BY <1>1, <1>3, <1>4, <1>5, <1>6
  <2>5. fn = "boot" /\ Made = 20 => F * K + (K - (r - 1)) <= MaxDelay + lag'
    <3> DEFINE x == F * K + (K - r)
               y == F * K + (K - (r - 1))
    <3>1. y = x + 1 /\ x \in Int
      BY <1>3, <1>8, <1>10, <1>11
    <3> HIDE DEF x, y
    <3>2. fn = "boot" /\ Made = 20 => x <= MaxDelay + lag
      BY <1>4 DEF x
    <3>3. fn = "boot" /\ Made = 20 => lag' = lag + 1
      BY <1>1, <1>6
    <3>4. fn = "boot" /\ Made = 20 => y <= MaxDelay + lag'
      BY <1>5, <3>1, <3>2, <3>3
    <3> QED
      BY <3>4 DEF y
  <2>6. Counting(K, r - 1, F)'
    BY <1>1, <1>2, <1>3, <1>4, <1>7, <1>8, <1>9, <1>11, <2>3, <2>4, <2>5 DEF Counting
  <2>7. r - 1 \in Nat
    BY <1>11
  <2> QED
    BY <2>6, <2>7
<1>12. CASE r = 1
  <2>1. ~(fn = "boot" /\ Made = 19)
    BY <1>1, <1>3, <1>4, <1>5, <1>6, <1>12
  <2>2. la.lvt = "periodic" /\ LapicFires
    <3>1. la.lvt = "periodic"
      BY <1>4, <1>6, <2>1
    <3>2. la.count = LapicRate
      BY <1>3, <1>12, RateTimes
    <3> QED
      BY <1>5, <3>1, <3>2 DEF LapicFires
  <2>3. Pending = 0
    <3>1. CASE iflag
      BY <1>1, <3>1 DEF Interrupted, Pending
    <3>2. CASE ~iflag
      <4>1. fn = "boot" /\ Made = 20 /\ lag < MaxDelay
        BY <1>1, <1>6, <2>1, <3>2 DEF FlagInv
      <4>2. F * K + (K - 1) <= MaxDelay + lag
        BY <1>4, <1>12, <4>1
      <4>3. F >= 1 => F * K >= K
        <5>1. \A G \in Nat : F = G + 1 => F * K = G * K + K /\ G * K \in Nat
          BY Times
        <5>2. F >= 1 => F - 1 \in Nat /\ F = (F - 1) + 1
          OBVIOUS
        <5>3. F >= 1 => F * K = (F - 1) * K + K /\ (F - 1) * K \in Nat
          BY <5>1, <5>2
        <5> QED
          BY <1>10, <5>3
      <4>4. ~(F >= 1)
        BY <1>3, <1>5, <1>10, <4>1, <4>2, <4>3
      <4> QED
        BY <1>3, <1>5, <4>4 DEF Pending
    <3> QED
      BY <3>1, <3>2
  <2>4. Pending' = 1
    BY <1>9, <2>2 DEF Pending
  <2>5. la'.count = LapicRate * K
    BY <1>3, <1>9, <2>2
  <2>6. /\ kernel_timer_secs' + Pending' <= F + 1
        /\ kernel_timer_secs' < SecsCap => kernel_timer_secs' + Pending' = F + 1
    BY <1>1, <1>3, <1>5, <2>3, <2>4
  <2>7. fn = "boot" /\ Made = 20 => (F + 1) * K + (K - K) <= MaxDelay + lag'
    <3> DEFINE x == F * K + (K - r)
               y == (F + 1) * K + (K - K)
    <3>1. y = x + 1 /\ x \in Int
      BY <1>3, <1>8, <1>10, <1>12
    <3> HIDE DEF x, y
    <3>2. fn = "boot" /\ Made = 20 => x <= MaxDelay + lag
      BY <1>4 DEF x
    <3>3. fn = "boot" /\ Made = 20 => lag' = lag + 1
      BY <1>1, <1>6
    <3>4. fn = "boot" /\ Made = 20 => y <= MaxDelay + lag'
      BY <1>5, <3>1, <3>2, <3>3
    <3> QED
      BY <3>4 DEF y
  <2>8. Counting(K, K, F + 1)'
    BY <1>1, <1>2, <1>3, <1>4, <1>7, <1>8, <1>9, <1>12, <2>1, <2>5, <2>6, <2>7 DEF Counting
  <2> QED
    BY <2>8
<1> QED
  BY <1>3, <1>11, <1>12

(* A tick keeps the count in step with the time elapsed.                   *)
LEMMA LapicTick ==
    ASSUME PosInv, TypeInv, FlagInv, LapicInv, Tick
    PROVE  LapicInv'
<1>1. /\ (todo = << >> \/ lag < MaxDelay) /\ hp' = Ticked(hp)
      /\ lag' = (IF todo = << >> THEN 0 ELSE lag + 1)
      /\ UNCHANGED <<fn, ms, todo, ticksin100ms, kernel_timer_secs>>
  BY TickEffect
<1>2. Made' = Made
  BY <1>1, Stays
<1>a. SecondFits' = SecondFits
  BY <1>1 DEF SecondFits
<1>3. CASE fn # "boot" \/ Made >= 19
  <2>1. ASSUME SecondFits PROVE \E K, s, G \in Nat : Counting(K, s, G)'
    <3>1. PICK K, r, F \in Nat : Counting(K, r, F)
      BY <1>3, <2>1 DEF LapicInv
    <3>2. PICK s, G \in Nat : Counting(K, s, G)'
      BY <1>3, <3>1, CountingTick
    <3> QED
      BY <3>2
  <2>2. fn = "boot" /\ Made <= 19 =>
            la'.lvt = "masked" /\ LAPICTMR_VECTOR \notin irr' /\ kernel_timer_secs' = 0
    BY <1>1, LapicTicked DEF LapicInv, LapicFires
  <2>3. fn = "boot" => Made \in Int
    BY Position, ScriptLength
  <2>4. fn = "boot" => ~(Made <= 18) /\ Made \notin 9 .. 15 /\ Made \notin 16 .. 18
    BY <1>3, <2>3
  <2> QED
    BY <1>1, <1>2, <1>a, <2>1, <2>2, <2>4 DEF LapicInv
<1>4. CASE fn = "boot" /\ Made < 19
  <2>1. /\ Made \in 0 .. 18 /\ todo # << >> /\ lag' = lag + 1 /\ lag \in 0 .. MaxDelay - 1
        /\ hp \in Hpets /\ lag \in Nat /\ ms = CalibrationMs
        /\ Limit(ms) \in 1 .. CounterCap - 1
    <3>1. Made \in 0 .. 21 /\ (todo = << >> <=> Made = 21)
      BY <1>4, Position, ScriptLength
    <3>2. Made \in 0 .. 18 /\ todo # << >>
      BY <1>4, <3>1
    <3> QED
      BY <1>1, <1>4, <3>2, Rates DEF TypeInv
  <2>2. la.lvt = "masked" /\ LAPICTMR_VECTOR \notin irr /\ kernel_timer_secs = 0 /\ elapsed = -1
    BY <1>4, <2>1 DEF LapicInv
  <2>3. ~LapicFires
    BY <2>2 DEF LapicFires
  <2>4. la'.lvt = "masked" /\ LAPICTMR_VECTOR \notin irr' /\ elapsed' = -1
    BY <2>2, <2>3, LapicTicked
  <2>5. Made \in 9 .. 15 =>
            \E t \in Nat : /\ la'.count = Left(t)
                           /\ CounterWait(hp', lag', Limit(ms), Made - 9, t)
    <3> SUFFICES ASSUME Made \in 9 .. 15
                 PROVE  \E t \in Nat : /\ la'.count = Left(t)
                                       /\ CounterWait(hp', lag', Limit(ms), Made - 9, t)
      OBVIOUS
    <3>1. PICK t \in Nat : /\ la.count = Left(t)
                           /\ CounterWait(hp, lag, Limit(ms), Made - 9, t)
      BY <1>4 DEF LapicInv
    <3>2. Made - 9 \in 0 .. 6
      OBVIOUS
    <3>3. CounterWait(hp', lag', Limit(ms), Made - 9, t + 1)
      BY <1>1, <2>1, <3>1, <3>2, CounterTick
    <3>4. la'.count = Left(t + 1)
      <4>1. LapicRate * (t + 1) = LapicRate * t + LapicRate /\ LapicRate * t \in Nat
        BY Rates
      <4>2. MaxCount \in Nat /\ LapicRate \in Nat /\ LapicRate > 0
        BY CountWidth, Rates
      <4>3. /\ la.count <= LapicRate => la'.count = 0
            /\ la.count > LapicRate => la'.count = la.count - LapicRate
        BY <2>3, LapicTicked
      <4> DEFINE x == LapicRate * t
                 y == LapicRate * (t + 1)
      <4>4. /\ x \in Nat /\ y = x + LapicRate
            /\ la.count = IF x <= MaxCount THEN MaxCount - x ELSE 0
        BY <3>1, <4>1 DEF Left
      <4> HIDE DEF x, y
      <4>5. la'.count = IF y <= MaxCount THEN MaxCount - y ELSE 0
        BY <4>2, <4>3, <4>4
      <4> QED
        BY <4>5 DEF Left, y
    <3> QED
      BY <3>3, <3>4
  <2>6. Made \in 16 .. 18 => (SecondFits => Calibrated')
    BY <1>1, <1>4 DEF LapicInv, Calibrated
  <2> QED
    BY <1>1, <1>2, <1>a, <1>4, <2>1, <2>2, <2>4, <2>5, <2>6 DEF LapicInv
<1>5. fn = "boot" => Made \in Int
  BY Position, ScriptLength
<1> QED
  BY <1>3, <1>4, <1>5

(* The start-up's accesses: the calibration's measurement, the count read, *)
(* and the timer set going with it.                                        *)
LEMMA CalibrationStep ==
    ASSUME PosInv, TypeInv, LapicInv, Running, fn = "boot", Made' \in 9 .. 15, TypeInv'
    PROVE  \E t \in Nat : /\ la'.count = Left(t)
                          /\ CounterWait(hp', 0, Limit(ms), Made' - 9, t)
<1>1. /\ hp \in Hpets /\ hp' \in Hpets /\ lag \in 0 .. MaxDelay /\ Limit(ms) \in 1 .. CounterCap - 1
      /\ Limit(ms) \in Nat /\ la \in Lapics /\ MaxCount \in Nat /\ LapicRate \in Nat
      /\ MaxDelay \in Nat
  BY Rates, CountWidth, SMTT(40) DEF TypeInv
<1>2. Made \in 0 .. 20
  BY BootOps
<1>3. CASE Made = 8
  <2>1. la' = Loaded(la, MaxCount) /\ Made' = Made + 1
    BY <1>3, BootRuns
  <2>2. la'.count = Left(0) /\ Made' - 9 = 0
    <3>1. la'.count = MaxCount
      BY <1>1, <2>1 DEF Loaded, Lapics
    <3>2. LapicRate * 0 = 0 /\ MaxCount >= 0
      BY <1>1
    <3> QED
      BY <1>1, <1>3, <2>1, <3>1, <3>2 DEF Left
  <2>3. CounterWait(hp', 0, Limit(ms), 0, 0)
    BY <1>1 DEF CounterWait
  <2> QED
    BY <2>2, <2>3
<1>4. CASE Made \in 9 .. 14
  <2>1. /\ la' = la
        /\ \/ Made = 13 /\ Made' = 13 /\ ~(hp.counter >= Limit(ms)) /\ hp' = hp
           \/ /\ Made' = Made + 1
              /\ Made \in {9, 14} => hp' = [hp EXCEPT !.on = FALSE]
              /\ Made = 10 => hp' = [hp EXCEPT !.int_on = FALSE]
              /\ Made = 11 => hp' = [hp EXCEPT !.counter = 0]
              /\ Made = 12 => hp' = [hp EXCEPT !.on = TRUE]
              /\ Made = 13 => hp' = hp /\ hp.counter >= Limit(ms)
    <3>1. /\ Made \notin 0 .. 4 /\ Made \notin {6, 7, 16, 17}
          /\ Made # 5 /\ Made # 8 /\ Made # 15 /\ Made # 18 /\ Made # 19 /\ Made # 20
      BY <1>4
    <3> QED
      BY <3>1, BootRuns, Zenon
  <2>2. PICK t \in Nat : /\ la.count = Left(t)
                         /\ CounterWait(hp, lag, Limit(ms), Made - 9, t)
    BY <1>4 DEF LapicInv
  <2>3. SUFFICES CounterWait(hp', 0, Limit(ms), Made' - 9, t)
    BY <2>1, <2>2
  <2>4. CASE Made = 13 /\ Made' = 13 /\ ~(hp.counter >= Limit(ms)) /\ hp' = hp
    <3>1. Made - 9 = 4 /\ Made' - 9 = 4
      BY <2>4
    <3>2. CounterWait(hp, lag, Limit(ms), 4, t)
      BY <2>2, <3>1
    <3>3. CounterWait(hp', 0, Limit(ms), 4, t)
      BY <1>1, <2>4, <3>2, HpetFields DEF CounterWait
    <3> QED
      BY <3>1, <3>3
  <2>5. CASE /\ Made' = Made + 1
             /\ Made \in {9, 14} => hp' = [hp EXCEPT !.on = FALSE]
             /\ Made = 10 => hp' = [hp EXCEPT !.int_on = FALSE]
             /\ Made = 11 => hp' = [hp EXCEPT !.counter = 0]
             /\ Made = 12 => hp' = [hp EXCEPT !.on = TRUE]
             /\ Made = 13 => hp' = hp /\ hp.counter >= Limit(ms)
    <3> DEFINE n == Made - 9
    <3>1. n \in 0 .. 5 /\ Made' - 9 = n + 1
      BY <1>4, <2>5
    <3>a. hp \in Hpets
      BY <1>1
    <3>2. n \in {0, 5} => ~hp'.on
      <4>1. n \in {0, 5} => Made \in {9, 14}
        BY <1>4
      <4> QED
        BY <2>5, <3>a, <4>1 DEF Hpets
    <3>3. n \in {1, 2} => hp'.on = hp.on
      <4>1. n \in {1, 2} => Made = 10 \/ Made = 11
        BY <1>4
      <4> QED
        BY <2>5, <3>a, <4>1 DEF Hpets
    <3>4. n = 2 => hp'.counter = 0
      <4>1. n = 2 => Made = 11
        BY <1>4
      <4> QED
        BY <2>5, <3>a, <4>1 DEF Hpets
    <3>5. n = 3 => hp'.on /\ hp'.counter = hp.counter
      <4>1. n = 3 => Made = 12
        BY <1>4
      <4> QED
        BY <2>5, <3>a, <4>1 DEF Hpets
    <3>6. n = 4 => hp.counter >= Limit(ms)
      BY <1>4, <2>5
    <3>7. CounterWait(hp, lag, Limit(ms), n, t)
      BY <2>2
    <3> HIDE DEF n
    <3>8. CounterWait(hp', 0, Limit(ms), n + 1, t)
      BY <1>1, <3>1, <3>2, <3>3, <3>4, <3>5, <3>6, <3>7, CounterAccess
    <3> QED
      BY <3>1, <3>8
  <2> QED
    BY <2>1, <2>4, <2>5
<1>5. Made = 8 \/ Made \in 9 .. 14
  <2>1. Made' = Made + 1 \/ (Made = 13 /\ Made' = 13)
    BY BootRuns
  <2> QED
    BY <1>2, <2>1
<1> QED
  BY <1>3, <1>4, <1>5

(* Every access of the boot code keeps what is known of the calibration,   *)
(* and the last ones start the seconds.                                    *)
LEMMA LapicBoots ==
    ASSUME PosInv, TypeInv, FlagInv, LapicInv, Running, fn = "boot", TypeInv'
    PROVE  LapicInv'
<1>1. lag' = 0 /\ UNCHANGED <<fn, ms, irr, kernel_timer_secs>>
  BY RunningMoves
<1>2. Made \in 0 .. 20
  BY BootOps
<1>3. Made' = Made + 1 \/ (Made = 13 /\ Made' = 13)
  BY BootRuns
<1>4. la \in Lapics /\ MaxCount \in Nat /\ MaxCount > 0 /\ LapicRate \in Nat /\ MaxDelay \in Nat /\ lag \in 0 .. MaxDelay
  BY Rates, CountWidth DEF TypeInv
<1>5. Made' <= 19 =>
          la'.lvt = "masked" /\ LAPICTMR_VECTOR \notin irr' /\ kernel_timer_secs' = 0
  <2> SUFFICES ASSUME Made' <= 19 PROVE la'.lvt = "masked" /\ LAPICTMR_VECTOR \notin irr /\ kernel_timer_secs = 0
    BY <1>1
  <2>1. Made \in 0 .. 18
    BY <1>2, <1>3
  <2>2. la.lvt = "masked" /\ LAPICTMR_VECTOR \notin irr /\ kernel_timer_secs = 0
    BY <2>1 DEF LapicInv
  <2>3. la' \in {la, Loaded(la, 0), Loaded(la, MaxCount), Loaded(la, Second), InMode(la, "masked")}
    <3>1. Made # 19
      BY <2>1
    <3> QED
      BY <3>1, BootRuns
  <2>4. \A x : Loaded(la, x).lvt = la.lvt
    BY <1>4 DEF Loaded, Lapics
  <2>5. InMode(la, "masked").lvt = "masked"
    BY <1>4 DEF InMode, Lapics
  <2> QED
    BY <2>2, <2>3, <2>4, <2>5
<1>6. Made' <= 18 => elapsed' = -1
  <2>1. Made' <= 18 => Made \in 0 .. 17
    BY <1>2, <1>3
  <2>2. Made # 18 => elapsed' = elapsed
    BY BootRuns
  <2> QED
    BY <2>1, <2>2 DEF LapicInv
<1>7. Made' \in 9 .. 15 =>
          \E t \in Nat : /\ la'.count = Left(t)
                         /\ CounterWait(hp', lag', Limit(ms'), Made' - 9, t)
  BY <1>1, CalibrationStep
<1>8. Made' \in 16 .. 18 => (SecondFits' => Calibrated')
  <2>1. ASSUME Made = 15, SecondFits' PROVE Calibrated'
    <3>1. ticksin100ms' = MaxCount - la.count
      BY <2>1, BootRuns
    <3>2. PICK t \in Nat : /\ la.count = Left(t)
                           /\ CounterWait(hp, lag, Limit(ms), Made - 9, t)
      BY <2>1 DEF LapicInv
    <3>3. LapicRate * t \in Nat
      BY <1>4
    <3>4. ticksin100ms' = LapicRate * t
      <4> DEFINE x == LapicRate * t
      <4>1. ticksin100ms' = (IF x <= MaxCount THEN x ELSE MaxCount) /\ x \in Nat
        BY <1>4, <3>1, <3>2, <3>3 DEF Left
      <4>2. ticksin100ms' * Tenth <= MaxCount /\ Tenth \in Nat /\ Tenth > 1
        BY <2>1, Rates DEF SecondFits
      <4>3. MaxCount * Tenth > MaxCount
        BY <1>4, <4>2
      <4> HIDE DEF x
      <4>4. ticksin100ms' # MaxCount
        BY <1>4, <4>2, <4>3
      <4> QED
        BY <4>1, <4>4 DEF x
    <3>5. t \in Limit(CalibrationMs) .. CalibrationMost
      <4>1. Made - 9 = 6 /\ ms = CalibrationMs
        BY <2>1 DEF TypeInv
      <4>2. CounterWait(hp, lag, Limit(CalibrationMs), 6, t)
        BY <3>2, <4>1
      <4>3. Limit(CalibrationMs) <= t /\ t <= 6 * MaxDelay + Limit(CalibrationMs) + lag
        BY <4>2 DEF CounterWait
      <4> QED
        BY <1>4, <4>3, Rates, CalibrationMostIs
    <3> QED
      BY <3>4, <3>5 DEF Calibrated
  <2>2. ASSUME Made \in 16 .. 17, SecondFits' PROVE Calibrated'
    <3>a. Made # 15 => ticksin100ms' = ticksin100ms
      BY BootRuns
    <3>1. ticksin100ms' = ticksin100ms
      BY <2>2, <3>a
    <3>2. SecondFits
      BY <2>2, <3>1 DEF SecondFits
    <3> QED
      BY <2>2, <3>1, <3>2 DEF LapicInv, Calibrated
  <2>3. Made' \in 16 .. 18 => Made = 15 \/ Made \in 16 .. 17
    BY <1>2, <1>3
  <2> QED
    BY <2>1, <2>2, <2>3
<1>9. Made' >= 19 /\ SecondFits' => \E K, r, F \in Nat : Counting(K, r, F)'
  <2> SUFFICES ASSUME Made' >= 19, SecondFits' PROVE \E K, r, F \in Nat : Counting(K, r, F)'
    OBVIOUS
  <2>a. Made = 18 \/ Made = 19 \/ Made = 20
    BY <1>2, <1>3
  <2>b. ticksin100ms' = ticksin100ms
    <3>1. Made # 15 => ticksin100ms' = ticksin100ms
      BY BootRuns
    <3> QED
      BY <2>a, <3>1
  <2>c. SecondFits
    BY <2>b DEF SecondFits
  <2>1. CASE Made = 18
    <3>1. PICK K \in Nat : /\ K \in Limit(MsPerSec) .. Tenth * CalibrationMost /\ MaxDelay < K
                           /\ Second = LapicRate * K
      BY <2>1, <2>c, SecondIs DEF LapicInv
    <3>2. la' = Loaded(la, Second) /\ elapsed' = 0 /\ Made' = 19
      BY <2>1, BootRuns
    <3>3. la'.initial = LapicRate * K /\ la'.count = LapicRate * K
      BY <1>4, <3>1, <3>2 DEF Loaded, Lapics
    <3>4. kernel_timer_secs = 0 /\ LAPICTMR_VECTOR \notin irr
      BY <2>1 DEF LapicInv
    <3>5. Pending' = 0
      BY <1>1, <3>4 DEF Pending
    <3>6. K \in 1 .. K /\ 0 * K + (K - K) = 0
      BY <1>4, <3>1
    <3>7. Counting(K, K, 0)'
      BY <1>1, <1>4, <3>1, <3>2, <3>3, <3>4, <3>5, <3>6, CalibrationMostIs DEF Counting
    <3> QED
      BY <3>7
  <2>2. CASE Made = 19
    <3>1. PICK K, r, F \in Nat : Counting(K, r, F)
      BY <2>2, <2>c DEF LapicInv
    <3>2. la' = InMode(la, "periodic") /\ elapsed' = elapsed /\ Made' = 20
      BY <2>2, BootRuns
    <3>3. la'.initial = la.initial /\ la'.count = la.count /\ la'.lvt = "periodic"
      BY <1>4, <3>2 DEF InMode, Lapics
    <3>4. Pending' = Pending
      BY <1>1 DEF Pending
    <3>5. F * K + (K - r) <= MaxDelay + lag'
      <4>1. F = 0 /\ K - r <= lag /\ r \in 1 .. K
        BY <2>2, <3>1 DEF Counting
      <4>2. 0 * K = 0
        OBVIOUS
      <4> QED
        BY <1>1, <1>4, <4>1, <4>2
    <3>6. Counting(K, r, F)'
      BY <1>1, <3>1, <3>2, <3>3, <3>4, <3>5 DEF Counting
    <3> QED
      BY <3>6
  <2>3. CASE Made = 20
    <3>1. PICK K, r, F \in Nat : Counting(K, r, F)
      BY <2>3, <2>c DEF LapicInv
    <3>2. la' = la /\ elapsed' = elapsed /\ Made' = 21
      BY <2>3, BootRuns
    <3>3. Pending' = Pending
      BY <1>1 DEF Pending
    <3>4. Counting(K, r, F)'
      BY <1>1, <2>3, <3>1, <3>2, <3>3 DEF Counting
    <3> QED
      BY <3>4
  <2> QED
    BY <2>a, <2>1, <2>2, <2>3
<1> QED
  BY <1>1, <1>5, <1>6, <1>7, <1>8, <1>9 DEF LapicInv

(* Every step keeps the invariant of the local APIC's timer.               *)
LEMMA LapicStep == PosInv /\ TypeInv /\ FlagInv /\ LapicInv /\ [Next]_vars => LapicInv'
<1> SUFFICES ASSUME PosInv, TypeInv, FlagInv, LapicInv, [Next]_vars PROVE LapicInv'
  OBVIOUS
<1>1. CASE Running
  <2>1. TypeInv'
    BY TypeStep
  <2> QED
    BY <1>1, <2>1, LapicBoots, LapicRunsOn
<1>2. ASSUME NEW f \in {"hpet_sleep", "hpet_sleep_counter"}, NEW n \in Sleeps, Call(f, n) PROVE LapicInv'
  BY <1>2, LapicCalls
<1>3. CASE _handle_timer
  <2>1. /\ UNCHANGED <<fn, ms, todo, lag, hp, la, ticksin100ms, elapsed, kernel_timer_secs>>
        /\ LAPICTMR_VECTOR \in irr' <=> LAPICTMR_VECTOR \in irr
    BY <1>3 DEF _handle_timer, hpet_ack, Resumed, TIMER_VECTOR, LAPICTMR_VECTOR
  <2> QED
    BY <2>1, LapicRests
<1>4. CASE _handle_lapic_timer
  BY <1>4, LapicHandled
<1>5. CASE Tick
  BY <1>5, LapicTick
<1>6. CASE UNCHANGED vars
  <2>1. UNCHANGED <<fn, ms, todo, lag, hp, la, ticksin100ms, elapsed, kernel_timer_secs, irr>>
    BY <1>6 DEF vars, timerVars, intVars
  <2> QED
    BY <2>1, LapicRests
<1> QED
  BY <1>1, <1>2, <1>3, <1>4, <1>5, <1>6 DEF Next

-----------------------------------------------------------------------------
(* The theorems.                                                           *)

TimerInv == PosInv /\ TypeInv /\ FlagInv /\ SleepInv /\ LapicInv

(* The invariant holds when the boot code starts.                          *)
LEMMA InitHolds == Init => TimerInv
<1> SUFFICES ASSUME Init PROVE TimerInv
  OBVIOUS
<1>1. fn = "boot" /\ todo = Boot /\ Script(fn) = Boot
  BY DEF Init, Boot, Script
<1>2. Boot \in Seq(Ops) /\ Len(Boot) = 21 /\ Len(todo) = 21 /\ Made = 0 /\ todo # << >>
  <2>1. Boot \in Seq(Ops) /\ Len(Boot) = 21
    BY BootScript
  <2>2. Made = 0 /\ Len(todo) = 21
    BY <1>1, <2>1 DEF Made
  <2>3. todo # << >>
    <3>1. PosInv
      BY <1>1, <2>1, <2>2, SMTT(40) DEF PosInv
    <3>2. todo = << >> <=> Made = Len(Script(fn))
      BY <3>1, Position
    <3>3. Len(Script(fn)) = 21
      BY <1>1, <2>1
    <3> QED
      BY <2>2, <3>2, <3>3
  <2> QED
    BY <2>1, <2>2, <2>3
<1>3. PosInv
  BY <1>1, <1>2, SMTT(40) DEF PosInv
<1>4. hp \in Hpets /\ la \in Lapics
  <2>1. PICK on \in BOOLEAN, left \in Firmware :
            hp = [on |-> on, counter |-> 0, comparator |-> 0, periodic |-> FALSE,
                  int_on |-> FALSE, legacy |-> left.legacy, route |-> left.route, routed |-> FALSE]
    BY DEF Init
  <2>2. left.legacy \in BOOLEAN /\ left.route \in Nat
    BY RateAssumption
  <2>3. 0 \in 0 .. CounterCap
    BY Rates
  <2> QED
    BY <2>1, <2>2, <2>3 DEF Init, Hpets, Lapics
<1>5. TypeInv
  BY <1>2, <1>4, Rates, SleepMostNat DEF Init, TypeInv
<1>6. FlagInv
  BY <1>2 DEF Init, FlagInv
<1>7. SleepInv
  BY <1>1 DEF SleepInv
<1>8. LapicInv
  BY <1>1, <1>2 DEF Init, LapicInv
<1> QED
  BY <1>3, <1>5, <1>6, <1>7, <1>8 DEF TimerInv

(* The whole invariant: positions, types, the interrupt flag, the two      *)
(* waits and the calibrated timer, in every state of the start-up and of   *)
(* any sleeps after it.                                                    *)
THEOREM TimerInvariant == Spec => []TimerInv
<1>1. TimerInv /\ [Next]_vars => TimerInv'
  BY PosStep, TypeStep, FlagStep, SleepStep, LapicStep DEF TimerInv
<1> QED
  BY <1>1, InitHolds, PTL DEF Spec

(* Multiplication keeps order.                                             *)
LEMMA TimesMono ==
    ASSUME NEW a \in Nat, NEW b \in Nat, NEW c \in Nat, a <= b
    PROVE  a * c <= b * c /\ c * a <= c * b
  OBVIOUS

(* What the two integer divisions lose, F femtoseconds per second, P per   *)
(* tick and M milliseconds per second: a millisecond of F / P / M ticks is *)
(* short by less than a tick.                                              *)
LEMMA DivisionLoss ==
    LET d == hpet_frequency \div MsPerSec
        tick == TickPeriod * MsPerSec
    IN  /\ d \in Nat /\ tick \in Nat
        /\ d * tick <= FemtosPerSec /\ FemtosPerSec < d * tick + tick
<1> DEFINE F == FemtosPerSec
           P == TickPeriod
           M == MsPerSec
           q == hpet_frequency
           d == q \div M
<1>1. F \in Nat /\ P \in Nat /\ P > 0 /\ M \in Nat /\ M > 0 /\ q \in Nat /\ d \in Nat
  BY Rates
<1>2. q * P <= F /\ F < q * P + P
  BY <1>1 DEF hpet_frequency
<1>3. d * M <= q /\ q + 1 <= d * M + M
  BY <1>1
<1> HIDE DEF F, P, M, q, d
<1>4. (d * M) * P <= q * P /\ (q + 1) * P <= (d * M + M) * P
  <2>1. d * M \in Nat /\ d * M + M \in Nat /\ q + 1 \in Nat
    BY <1>1
  <2> QED
    BY <1>1, <1>3, <2>1, TimesMono
<1>5. (q + 1) * P = q * P + P /\ (d * M + M) * P = (d * M) * P + M * P /\ (d * M) * P = d * (P * M) /\ M * P = P * M
  BY <1>1
<1>6. q * P \in Nat /\ (d * M) * P \in Nat /\ M * P \in Nat
  BY <1>1
<1>7. d * (P * M) <= F /\ F < d * (P * M) + P * M /\ P * M \in Nat
  BY <1>1, <1>2, <1>4, <1>5, <1>6
<1> QED
  BY <1>1, <1>7 DEF F, P, M, q, d

(* hpet_sleep and hpet_sleep_counter last as long as they are told to, but *)
(* for what the divisions lose, and at most their accesses' time longer,   *)
(* for every tick period and delay.                                        *)
THEOREM SleepsExact == Spec => []SleepExact
<1>1. TimerInv => SleepExact
  <2> DEFINE d == hpet_frequency \div MsPerSec
             tick == TickPeriod * MsPerSec
             late == (Len(Body(fn)) + 1) * MaxDelay
  <2> SUFFICES ASSUME TimerInv, fn # "boot", todo = << >>
               PROVE  /\ FemtosPerSec * ms < (slept + ms) * tick
                      /\ slept * tick <= FemtosPerSec * ms + late * tick
    BY DEF SleepExact
  <2>1. /\ PosInv /\ lag = 0 /\ Limit(ms) \in Nat /\ slept \in Nat /\ MaxDelay \in Nat /\ SleepInv
        /\ fn \in {"hpet_sleep", "hpet_sleep_counter"} /\ ms \in Nat /\ Limit(ms) >= 1
    BY Rates, SleepMostNat DEF TimerInv, TypeInv, PosInv
  <2>2. Limit(ms) <= slept /\ slept <= Limit(ms) + late /\ late \in Nat
    <3>1. CASE fn = "hpet_sleep"
      <4>1. Made = 9 /\ Len(Body(fn)) = 9
        BY <2>1, <3>1, Position, ScriptLength, SleepScript DEF Body
      <4>2. Limit(ms) <= slept /\ slept <= 9 * MaxDelay + Limit(ms) + 0
        BY <2>1, <3>1, <4>1 DEF SleepInv, TickWait
      <4> QED
        BY <2>1, <4>1, <4>2
    <3>2. CASE fn = "hpet_sleep_counter"
      <4>1. Made = 6 /\ Len(Body(fn)) = 6
        BY <2>1, <3>2, Position, ScriptLength, CounterScript DEF Body
      <4>2. Limit(ms) <= slept /\ slept <= 6 * MaxDelay + Limit(ms) + 0
        BY <2>1, <3>2, <4>1 DEF SleepInv, CounterWait
      <4> QED
        BY <2>1, <4>1, <4>2
    <3> QED
      BY <2>1, <3>1, <3>2
  <2>3. /\ d \in Nat /\ tick \in Nat /\ FemtosPerSec \in Nat
        /\ d * tick <= FemtosPerSec /\ FemtosPerSec < d * tick + tick /\ Limit(ms) = d * ms
    BY DivisionLoss, Rates DEF Limit
  <2> HIDE DEF d, tick, late
  <2>4. ms > 0
    <3>1. d * 0 = 0
      BY <2>3
    <3> QED
      BY <2>1, <2>3, <3>1
  <2>5. (d * ms) * tick = (d * tick) * ms /\ (d * ms) * tick \in Nat
    BY <2>1, <2>3
  <2>6. /\ (d * ms) * tick <= slept * tick
        /\ slept * tick <= (d * ms + late) * tick
    <3>1. d * ms \in Nat /\ d * ms + late \in Nat
      BY <2>1, <2>2, <2>3
    <3> QED
      BY <2>1, <2>2, <2>3, <3>1, TimesMono
  <2>7. (d * ms + late) * tick = (d * ms) * tick + late * tick /\ late * tick \in Nat
    BY <2>1, <2>2, <2>3
  <2>8. (slept + ms) * tick = slept * tick + ms * tick /\ slept * tick \in Nat /\ ms * tick \in Nat
    BY <2>1, <2>3
  <2>9. (d * tick) * ms <= FemtosPerSec * ms
    <3>1. d * tick \in Nat
      BY <2>3
    <3> QED
      BY <2>1, <2>3, <3>1, TimesMono
  <2>10. FemtosPerSec * ms < (d * tick) * ms + ms * tick
    <3> DEFINE x == d * tick
    <3>1. x \in Nat /\ FemtosPerSec + 1 <= x + tick
      BY <2>3
    <3> HIDE DEF x
    <3>2. (FemtosPerSec + 1) * ms <= (x + tick) * ms
      BY <2>1, <2>3, <3>1, TimesMono
    <3>3. (FemtosPerSec + 1) * ms = FemtosPerSec * ms + ms /\ FemtosPerSec * ms \in Nat
      BY <2>1, <2>3
    <3>4. (x + tick) * ms = x * ms + ms * tick /\ x * ms \in Nat /\ ms * tick \in Nat
      BY <2>1, <2>3, <3>1
    <3>5. FemtosPerSec * ms < x * ms + ms * tick
      BY <2>1, <2>4, <3>2, <3>3, <3>4
    <3> QED
      BY <3>5 DEF x
  <2>11. FemtosPerSec * ms \in Nat
    BY <2>1, <2>3
  <2> QED
    BY <2>5, <2>6, <2>7, <2>8, <2>9, <2>10, <2>11
<1> QED
  BY <1>1, TimerInvariant, PTL

(* A second of the local APIC's timer, K ticks, against the real one.      *)
LEMMA SecondIsLong ==
    ASSUME NEW K \in Limit(MsPerSec) .. Tenth * CalibrationMost
    PROVE  /\ FemtosPerSec - MsPerSec * TickPeriod <= K * TickPeriod
           /\ K * TickPeriod <= FemtosPerSec
                 + (Tenth * ((Len(hpet_sleep_counter) + 1) * MaxDelay)) * TickPeriod
<1> DEFINE d == hpet_frequency \div MsPerSec
           P == TickPeriod
           M == MsPerSec
           F == FemtosPerSec
           e == Tenth * (7 * MaxDelay)
<1>1. /\ d \in Nat /\ P \in Nat /\ M \in Nat /\ F \in Nat /\ e \in Nat
      /\ d * (P * M) <= F /\ F < d * (P * M) + P * M
  BY Rates, DivisionLoss
<1>2. Len(hpet_sleep_counter) + 1 = 7
  BY CounterScript
<1>3. Limit(MsPerSec) = d * M /\ Tenth * CalibrationMost = d * M + e
  <2> DEFINE L == Limit(CalibrationMs)
  <2>1. Limit(MsPerSec) = d * M /\ Limit(MsPerSec) = Tenth * L
    BY TenLimits DEF Limit
  <2>2. CalibrationMost = L + 7 * MaxDelay /\ L \in Nat /\ MaxDelay \in Nat /\ Tenth \in Nat
    BY Rates, CalibrationMostIs
  <2> HIDE DEF L, d
  <2>3. Tenth * (L + 7 * MaxDelay) = Tenth * L + Tenth * (7 * MaxDelay)
    BY <2>2
  <2> QED
    BY <2>1, <2>2, <2>3
<1> HIDE DEF d, P, M, F, e
<1>4. K \in Nat /\ d * M <= K /\ K <= d * M + e /\ d * M \in Nat
  BY <1>1, <1>3
<1>5. (d * M) * P <= K * P /\ K * P <= (d * M + e) * P
  BY <1>1, <1>4, TimesMono
<1>6. /\ (d * M) * P = d * (P * M) /\ (d * M + e) * P = (d * M) * P + e * P /\ M * P = P * M
      /\ (d * M) * P \in Nat /\ e * P \in Nat /\ M * P \in Nat /\ K * P \in Nat
  BY <1>1, <1>4
<1>7. F - M * P <= K * P /\ K * P <= F + e * P
  BY <1>1, <1>5, <1>6
<1> QED
  BY <1>2, <1>7 DEF P, M, F, e

(* The timer lapic_timer_init has calibrated, where its product fits the   *)
(* register, counts seconds that are short by no more than the divisions   *)
(* lose, and long by no more than the calibration's delays.                *)
THEOREM SecondsCounted == Spec => []SecondsExact
<1>1. TimerInv => SecondsExact
  <2> DEFINE s == kernel_timer_secs
             lo == FemtosPerSec - MsPerSec * TickPeriod
             hi == FemtosPerSec + (Tenth * ((Len(hpet_sleep_counter) + 1) * MaxDelay)) * TickPeriod
  <2> SUFFICES ASSUME TimerInv, elapsed \in 0 .. ElapsedCap - 1, SecondFits
               PROVE  /\ s * lo <= elapsed * TickPeriod
                      /\ iflag /\ ~Interrupted /\ s < SecsCap =>
                             elapsed * TickPeriod <= (s + 1) * hi
    BY DEF SecondsExact
  <2>1. PosInv /\ TypeInv /\ LapicInv
    BY DEF TimerInv
  <2>2. fn = "boot" => Made \in 0 .. 21
    BY <2>1, Position, ScriptLength
  <2>3. fn # "boot" \/ Made >= 19
    <3>1. elapsed # -1
      BY CalibrationMostIs
    <3> QED
      BY <2>1, <2>2, <3>1 DEF LapicInv
  <2>4. PICK K, r, F \in Nat : Counting(K, r, F)
    BY <2>1, <2>3 DEF LapicInv
  <2>5. s \in Nat /\ SecsCap \in Nat /\ ElapsedCap \in Nat
    BY <2>1, Rates, CalibrationMostIs DEF TypeInv
  <2>6. /\ K \in Limit(MsPerSec) .. Tenth * CalibrationMost
        /\ r \in 1 .. K /\ elapsed = F * K + (K - r)
        /\ s + Pending <= F /\ (s < SecsCap => s + Pending = F) /\ Pending \in {0, 1}
    BY <2>4, <2>5 DEF Counting, Pending
  <2>7. lo <= K * TickPeriod /\ K * TickPeriod <= hi
    BY <2>6, SecondIsLong
  <2>8. TickPeriod \in Nat /\ lo \in Int /\ hi \in Int
    BY Rates, CounterScript
  <2> HIDE DEF lo, hi
  <2>9. s * lo <= elapsed * TickPeriod
    <3>1. s * K <= elapsed
      <4>1. s * K <= F * K /\ s * K \in Nat /\ F * K \in Nat
        BY <2>5, <2>6, TimesMono
      <4> QED
        BY <2>6, <4>1
    <3>2. (s * K) * TickPeriod <= elapsed * TickPeriod
      <4>1. s * K \in Nat /\ elapsed \in Nat
        BY <2>5
      <4> QED
        BY <2>8, <3>1, <4>1, TimesMono
    <3>3. s * lo <= s * (K * TickPeriod)
      <4> DEFINE x == K * TickPeriod
      <4>1. x \in Nat /\ lo <= x
        BY <2>7, <2>8
      <4> HIDE DEF x
      <4>2. s * lo <= s * x
        BY <2>5, <2>8, <4>1
      <4> QED
        BY <4>2 DEF x
    <3>4. s * (K * TickPeriod) = (s * K) * TickPeriod
      BY <2>5, <2>8
    <3>5. s * lo \in Int /\ (s * K) * TickPeriod \in Int /\ elapsed * TickPeriod \in Int
      BY <2>5, <2>8
    <3> QED
      BY <3>2, <3>3, <3>4, <3>5
  <2>10. ASSUME iflag, ~Interrupted, s < SecsCap
         PROVE  elapsed * TickPeriod <= (s + 1) * hi
    <3>1. Pending = 0
      BY <2>10 DEF Interrupted, Pending
    <3>2. F = s
      BY <2>5, <2>6, <2>10, <3>1
    <3>3. elapsed <= (s + 1) * K
      <4>1. (s + 1) * K = s * K + K /\ s * K \in Nat
        BY <2>5, Times
      <4> QED
        BY <2>6, <3>2, <4>1
    <3>4. elapsed * TickPeriod <= ((s + 1) * K) * TickPeriod
      <4>1. (s + 1) * K \in Nat /\ elapsed \in Nat
        BY <2>5
      <4> QED
        BY <2>8, <3>3, <4>1, TimesMono
    <3>5. (s + 1) * (K * TickPeriod) <= (s + 1) * hi
      <4> DEFINE x == K * TickPeriod
                 n == s + 1
      <4>1. x \in Nat /\ x <= hi /\ n \in Nat
        BY <2>5, <2>7, <2>8
      <4> HIDE DEF x, n
      <4>2. n * x <= n * hi
        BY <2>8, <4>1
      <4> QED
        BY <4>2 DEF x, n
    <3>6. ((s + 1) * K) * TickPeriod = (s + 1) * (K * TickPeriod)
      BY <2>5, <2>8
    <3>7. elapsed * TickPeriod \in Int /\ ((s + 1) * K) * TickPeriod \in Int /\ (s + 1) * hi \in Int
      BY <2>5, <2>8
    <3> QED
      BY <3>4, <3>5, <3>6, <3>7
  <2> QED
    BY <2>9, <2>10
<1> QED
  BY <1>1, TimerInvariant, PTL
=============================================================================
