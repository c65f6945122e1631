--------------------------- MODULE InterruptRouting ---------------------------
(***************************************************************************)
(* How the devices' interrupts find their way to the processor: acpi_init  *)
(* reads the firmware's tables, and hpet_init and ps2_init program the I/O *)
(* APICs from what it found, in kernel_main's order, while timer and       *)
(* keyboard may already raise their lines.  An I/O APIC is known by its    *)
(* gsi_base; a table's structures are records with their length in bytes.  *)
(***************************************************************************)
EXTENDS Ps2Controller, Integers, FiniteSets, SequencesExt

CONSTANTS
    Firmware,           \* machines: [tables, bsp, hpet_on, mouse]
    IOAPIC_LIST_LEN, ISO_LIST_LEN,
    MaxGsi              \* the highest interrupt input of any machine

ASSUME ListAssumption == {IOAPIC_LIST_LEN, ISO_LIST_LEN} \subseteq Nat \ {0}

HEADER == 44            \* sizeof(struct madt)
ICS_ID_IO_APIC == 1
ICS_ID_ISO == 2
TIMER_VECTOR == 32
KEYBOARD_VECTOR == 33
Lines == {0, 1}         \* the ISA lines of timer and keyboard
VectorOf(line) == IF line = 0 THEN TIMER_VECTOR ELSE KEYBOARD_VECTOR

(* The k-th structure the walk of MADT t meets: one of its own, then what   *)
(* the memory behind the table looks like; and the bytes in front of it.    *)
Structure(t, k) == IF k <= Len(t.items) THEN t.items[k] ELSE t.tail
Offset(t, k) ==
    LET before[j \in 1 .. Len(t.items) + 1] ==
            IF j = 1 THEN 0 ELSE before[j - 1] + Structure(t, j - 1).length
    IN  before[k]

-----------------------------------------------------------------------------
(* What the firmware of machine f describes: where structures of a type are *)
(* (table and place in it), which comes first, and the input that a line is *)
(* wired to.                                                                *)
Madts(f) == {k \in 1 .. Len(f.tables) : f.tables[k].sig = "APIC"}
At(f, p) == f.tables[p[1]].items[p[2]]
PlacesIn(f, k, type) == {<<k, j>> : j \in {n \in 1 .. Len(f.tables[k].items) :
                                              f.tables[k].items[n].type = type}}
Places(f, type) == UNION {PlacesIn(f, k, type) : k \in Madts(f)}
Before(p, q) == p[1] < q[1] \/ (p[1] = q[1] /\ p[2] < q[2])
Described(f, type) == {At(f, p) : p \in Places(f, type)}
Overrides(f, line) == {s \in Described(f, ICS_ID_ISO) : s.irq_source = line}
Override(f, line) == CHOOSE s \in Overrides(f, line) : TRUE
Wired(f, line) == IF Overrides(f, line) = {} THEN line ELSE Override(f, line).gsi
WiredFlags(f, line) == IF Overrides(f, line) = {} THEN 0 ELSE Override(f, line).flags

(* A MADT's structures have a length (a signed byte to the code).  Memory   *)
(* behind it holds no structure of the two kinds, and ends the walk: a      *)
(* length that is not positive, or a jump beyond the limit.                 *)
ASSUME MadtAssumption ==
    \A f \in Firmware :
        /\ Len(f.tables) \in Nat
        /\ \A k \in Madts(f) :
               LET t == f.tables[k]
               IN  /\ Len(t.items) \in Nat
                   /\ \A j \in 1 .. Len(t.items) : t.items[j].length \in 1 .. 127
                   /\ t.tail.type \notin {ICS_ID_IO_APIC, ICS_ID_ISO}
                   /\ t.tail.length \in (-128 .. 0) \union (HEADER .. 127)

(* An I/O APIC has no more inputs than its 8-bit registers can address; a   *)
(* line has at most one override, with flags that ACPI defines (2 is        *)
(* reserved in both fields); timer and keyboard do not share an input, and  *)
(* the keyboard is not on input 0, the timer's by default.                  *)
ASSUME WiringAssumption ==
    /\ MaxGsi \in Nat \ {0}
    /\ \A f \in Firmware :
        /\ \A a \in Described(f, ICS_ID_IO_APIC) :
               /\ a.gsi_base \in Nat /\ a.pins \in 1 .. 120
               /\ a.gsi_base + a.pins - 1 <= MaxGsi
        /\ \A s \in Described(f, ICS_ID_ISO) :
               /\ s.gsi \in 0 .. MaxGsi /\ s.gsi < 256
               /\ s.flags \in Nat /\ s.flags % 4 # 2 /\ (s.flags \div 4) % 4 # 2
               /\ \A u \in Described(f, ICS_ID_ISO) : u.irq_source = s.irq_source => u = s
        /\ Wired(f, 1) \notin {0, Wired(f, 0)}

VARIABLES
    fw,                 \* the machine
    pc,                 \* the function kernel_main is in
    i,                  \* acpi_init: the table's index
    off,                \* _parse_madt: pICLItem - pICLStart
    ioapic_list, iso_list,
    hpet, mcfg,         \* whether the table was found
    bsp_lapic_id,
    job,                \* the redirection being made
    redir,              \* the redirection entries, by GSI
    timer_on,           \* timer 0 may interrupt
    irr,                \* the boot processor's pending keyboard interrupt
    sent                \* history: interrupts that left an I/O APIC

acpiVars == <<i, off, ioapic_list, iso_list, hpet, mcfg>>
vars == <<fw, pc, acpiVars, bsp_lapic_id, job, redir, timer_on, ps2Vars, irr, sent>>

NoJob == [line |-> -1]
ResetEntry == [vector |-> 0, active_low |-> FALSE, level |-> FALSE,
               masked |-> TRUE, dest |-> 0]

(* Limine masks every entry and may leave HPET and keyboard running.        *)
Init ==
    /\ fw \in Firmware
    /\ pc = "acpi_init"
    /\ i = 1 /\ off = 0
    /\ ioapic_list = << >> /\ iso_list = << >>
    /\ hpet = FALSE /\ mcfg = FALSE
    /\ bsp_lapic_id = 0
    /\ job = NoJob
    /\ redir = [g \in 0 .. MaxGsi |-> ResetEntry]
    /\ timer_on = FALSE
    /\ todo = << >> /\ config = "none"
    /\ ibuf = "none" /\ obuf = "none" /\ kbd_on = TRUE /\ irq_on \in BOOLEAN
    /\ irr = FALSE /\ sent = {}

-----------------------------------------------------------------------------
(* acpi_init and _parse_madt.                                              *)

AcpiTable ==
    /\ pc = "acpi_init" /\ i <= Len(fw.tables)
    /\ fw.tables[i].sig # "APIC"
    /\ hpet' = (hpet \/ fw.tables[i].sig = "HPET")
    /\ mcfg' = (mcfg \/ fw.tables[i].sig = "MCFG")
    /\ i' = i + 1
    /\ UNCHANGED <<fw, pc, off, ioapic_list, iso_list, bsp_lapic_id, job, redir,
                   timer_on, ps2Vars, irr, sent>>

AcpiMadt ==
    /\ pc = "acpi_init" /\ i <= Len(fw.tables)
    /\ fw.tables[i].sig = "APIC"
    /\ pc' = "_parse_madt"
    /\ off' = 0
    /\ UNCHANGED <<fw, i, ioapic_list, iso_list, hpet, mcfg, bsp_lapic_id, job,
                   redir, timer_on, ps2Vars, irr, sent>>

(* add_ioapic, add_iso: the first free slot; dropped if there is none.      *)
AddTo(list, s, len) == IF Len(list) < len THEN Append(list, s) ELSE list

(* The structure at the walk's pointer.                                     *)
Current ==
    LET t == fw.tables[i]
    IN  Structure(t, CHOOSE k \in 1 .. Len(t.items) + 1 : Offset(t, k) = off)

(* pMadt->desc.length counts the header too.                               *)
TableLength == HEADER + Offset(fw.tables[i], Len(fw.tables[i].items) + 1)

(* Mutant of Collect: every override goes to the first slot. *)
CollectLastIso(s) ==
    /\ ioapic_list' = IF s.type = ICS_ID_IO_APIC
                      THEN AddTo(ioapic_list, s, IOAPIC_LIST_LEN) ELSE ioapic_list
    /\ iso_list' = IF s.type = ICS_ID_ISO THEN <<s>> ELSE iso_list

Collect(s) ==
    /\ ioapic_list' = IF s.type = ICS_ID_IO_APIC
                      THEN AddTo(ioapic_list, s, IOAPIC_LIST_LEN) ELSE ioapic_list
    /\ iso_list' = IF s.type = ICS_ID_ISO
                   THEN AddTo(iso_list, s, ISO_LIST_LEN) ELSE iso_list

(* Mutant of LastStructure: no test of the structure's length. *)
LastByLimitOnly(s) == off + s.length >= TableLength

LastStructure(s) == s.length <= 0 \/ off + s.length >= TableLength

(* One round of the do-while loop.                                         *)
MadtMove ==
    /\ pc = "_parse_madt"
    /\ Collect(Current)
    /\ ~LastStructure(Current)
    /\ off' = off + Current.length
    /\ UNCHANGED <<fw, pc, i, hpet, mcfg, bsp_lapic_id, job, redir, timer_on, ps2Vars, irr, sent>>

MadtEnd ==
    /\ pc = "_parse_madt"
    /\ Collect(Current)
    /\ LastStructure(Current)
    /\ pc' = "acpi_init"
    /\ i' = i + 1
    /\ UNCHANGED <<fw, off, hpet, mcfg, bsp_lapic_id, job, redir, timer_on, ps2Vars, irr, sent>>

(* Without an MCFG table the machine is halted.                            *)
AcpiEnd ==
    /\ pc = "acpi_init" /\ i > Len(fw.tables)
    /\ pc' = IF mcfg THEN "hpet_init" ELSE "halt"
    /\ UNCHANGED <<fw, acpiVars, bsp_lapic_id, job, redir, timer_on, ps2Vars, irr, sent>>

-----------------------------------------------------------------------------
(* The I/O APIC.                                                           *)

(* The bit of x that has this weight is set.                               *)
Bit(x, weight) == (x \div weight) % 2 = 1

(* The version register holds the highest entry's number, one less than    *)
(* the number of inputs.                                                   *)
ioapic_max_gsi(a) == a.pins - 1

Owns(a, gsi) == gsi >= a.gsi_base /\ gsi < a.gsi_base + ioapic_max_gsi(a)

(* Mutant of _get_ioapic_from_gsi: only the first of the list is tried. *)
FirstIoapicOnly(gsi) == IF ioapic_list # << >> /\ Owns(ioapic_list[1], gsi) THEN 1 ELSE 0

(* The index in ioapic_list; 0 stands for NULL.                            *)
_get_ioapic_from_gsi(gsi) == SelectInSeq(ioapic_list, LAMBDA a : Owns(a, gsi))

(* Mutant of LowWord: polarity is taken from bit 0 of the flags. *)
LowWordBit0(vector, flags) ==
    [vector |-> vector, active_low |-> Bit(flags, 1), level |-> Bit(flags, 8), masked |-> FALSE]

LowWord(vector, flags) ==
    [vector |-> vector, active_low |-> Bit(flags, 2), level |-> Bit(flags, 8), masked |-> FALSE]

(* ioapic_redirect_irq up to the register writes: the first override of    *)
(* the line, the I/O APIC (NULL is dereferenced) and the register, an      *)
(* 8-bit number.                                                           *)
ioapic_redirect_irq ==
    LET o     == SelectInSeq(iso_list, LAMBDA s : s.irq_source = job.line)
        gsi   == IF o = 0 THEN job.line ELSE iso_list[o].gsi % 256
        flags == IF o = 0 THEN 0 ELSE iso_list[o].flags
        a     == _get_ioapic_from_gsi(gsi)
    IN  /\ pc = "ioapic_redirect_irq"
        /\ \/ /\ a = 0
              /\ pc' = "fault"
              /\ UNCHANGED job
           \/ /\ a # 0
              /\ pc' = "write_low"
              /\ job' = [job EXCEPT !.base = ioapic_list[a].gsi_base,
                                    !.reg = ((gsi - ioapic_list[a].gsi_base) * 2 + 16) % 256,
                                    !.low = LowWord(VectorOf(job.line), flags)]
        /\ UNCHANGED <<fw, acpiVars, bsp_lapic_id, redir, timer_on, ps2Vars, irr, sent>>

Target == job.base + (job.reg - 16) \div 2

WriteLow ==
    /\ pc = "write_low"
    /\ redir' = [redir EXCEPT ![Target] = [vector |-> job.low.vector,
                                           active_low |-> job.low.active_low,
                                           level |-> job.low.level,
                                           masked |-> job.low.masked,
                                           dest |-> @.dest]]
    /\ pc' = "write_high"
    /\ UNCHANGED <<fw, acpiVars, bsp_lapic_id, job, timer_on, ps2Vars, irr, sent>>

WriteHigh ==
    /\ pc = "write_high"
    /\ redir' = [redir EXCEPT ![Target].dest = job.dest]
    /\ pc' = job.return
    /\ job' = NoJob
    /\ UNCHANGED <<fw, acpiVars, bsp_lapic_id, timer_on, ps2Vars, irr, sent>>

NewJob(line, return) ==
    [line |-> line, dest |-> bsp_lapic_id, return |-> return, base |-> 0, reg |-> 16,
     low |-> LowWord(VectorOf(line), 0)]

-----------------------------------------------------------------------------
(* The rest of kernel_main that matters here, in its order.                *)

hpet_init ==
    /\ pc = "hpet_init" /\ hpet
    /\ timer_on' = TRUE
    /\ job' = NewJob(0, "cpu_init")
    /\ pc' = "ioapic_redirect_irq"
    /\ UNCHANGED <<fw, acpiVars, bsp_lapic_id, redir, ps2Vars, irr, sent>>

(* hpet is NULL: its address field is read all the same.                   *)
HpetFault ==
    /\ pc = "hpet_init" /\ ~hpet
    /\ pc' = "fault"
    /\ UNCHANGED <<fw, acpiVars, bsp_lapic_id, job, redir, timer_on, ps2Vars, irr, sent>>

cpu_init ==
    /\ pc = "cpu_init"
    /\ bsp_lapic_id' = fw.bsp
    /\ pc' = "lapic_init"
    /\ UNCHANGED <<fw, acpiVars, job, redir, timer_on, ps2Vars, irr, sent>>

(* The calibration's hpet_sleep_counter switches timer 0 off for good.     *)
lapic_init ==
    /\ pc = "lapic_init"
    /\ timer_on' = FALSE
    /\ pc' = "ps2_init"
    /\ UNCHANGED <<fw, acpiVars, bsp_lapic_id, job, redir, ps2Vars, irr, sent>>

ps2_init ==
    /\ pc = "ps2_init"
    /\ todo' = SetUp
    /\ pc' = "ps2_setup"
    /\ UNCHANGED <<fw, acpiVars, bsp_lapic_id, job, redir, timer_on, config, ibuf, obuf,
                   kbd_on, irq_on, irr, sent>>

Ps2Port ==
    /\ ps2_write \/ ps2_read_no_wait \/ ps2_read
    /\ UNCHANGED <<fw, pc, acpiVars, bsp_lapic_id, job, redir, timer_on, irr, sent>>

(* Mutant of Ps2Route: the keyboard is switched on first. *)
Ps2RouteLive ==
    /\ pc = "ps2_setup" /\ todo = << >>
    /\ job' = NewJob(1, "ps2_enable")
    /\ todo' = SwitchOn(fw.mouse)
    /\ pc' = "ioapic_redirect_irq"
    /\ UNCHANGED <<fw, acpiVars, bsp_lapic_id, redir, timer_on, config, ibuf, obuf,
                   kbd_on, irq_on, irr, sent>>

Ps2Route ==
    /\ pc = "ps2_setup" /\ todo = << >>
    /\ job' = NewJob(1, "ps2_enable")
    /\ pc' = "ioapic_redirect_irq"
    /\ UNCHANGED <<fw, acpiVars, bsp_lapic_id, redir, timer_on, ps2Vars, irr, sent>>

Ps2Enable ==
    /\ pc = "ps2_enable"
    /\ todo' = SwitchOn(fw.mouse)
    /\ pc' = "ps2_last"
    /\ UNCHANGED <<fw, acpiVars, bsp_lapic_id, job, redir, timer_on, config, ibuf, obuf,
                   kbd_on, irq_on, irr, sent>>

Up ==
    /\ pc = "ps2_last" /\ todo = << >>
    /\ pc' = "up"
    /\ UNCHANGED <<fw, acpiVars, bsp_lapic_id, job, redir, timer_on, ps2Vars, irr, sent>>

Kernel ==
    \/ AcpiTable \/ AcpiMadt \/ MadtMove \/ MadtEnd \/ AcpiEnd
    \/ hpet_init \/ HpetFault \/ cpu_init \/ lapic_init
    \/ ps2_init \/ Ps2Port \/ Ps2Route \/ Ps2Enable \/ Up
    \/ ioapic_redirect_irq \/ WriteLow \/ WriteHigh

-----------------------------------------------------------------------------
(* The machine raises interrupts.  An edge at a masked input is lost.      *)

Sent(line) ==
    LET e == redir[Wired(fw, line)]
    IN  IF e.masked THEN {} ELSE {[line |-> line, vector |-> e.vector, dest |-> e.dest]}

TimerFires ==
    /\ timer_on /\ fw.hpet_on
    /\ sent' = sent \union Sent(0)
    /\ UNCHANGED <<fw, pc, acpiVars, bsp_lapic_id, job, redir, timer_on, ps2Vars, irr>>

(* A byte in the output buffer raises the keyboard's line.                 *)
Controller ==
    /\ Obey \/ KeyByte
    /\ LET new == IF obuf' # obuf /\ irq_on THEN Sent(1) ELSE {}
       IN  /\ sent' = sent \union new
           /\ irr' = (irr \/ \E m \in new : m.dest = fw.bsp /\ m.vector = KEYBOARD_VECTOR)
    /\ UNCHANGED <<fw, pc, acpiVars, bsp_lapic_id, job, redir, timer_on>>

_handle_keyboard ==
    /\ irr
    /\ irr' = FALSE
    /\ TakeByte
    /\ UNCHANGED <<fw, pc, acpiVars, bsp_lapic_id, job, redir, timer_on, sent>>

Next == Kernel \/ TimerFires \/ Controller \/ _handle_keyboard

(* The processor keeps executing, and the controller obeys its commands.   *)
Spec ==
    /\ Init /\ [][Next]_vars
    /\ WF_vars(Kernel)
    /\ WF_vars(Controller /\ Obey)

-----------------------------------------------------------------------------
(* The walk finds every structure of the firmware's tables, in their order, *)
(* up to what the fixed arrays hold and no further, although its limit lies *)
(* behind the table's end.                                                  *)
Rank(p, type) == Cardinality({q \in Places(fw, type) : ~Before(p, q)})
Lists(list, len, type) ==
    /\ Len(list) = IF Cardinality(Places(fw, type)) < len THEN Cardinality(Places(fw, type)) ELSE len
    /\ \A p \in Places(fw, type) : Rank(p, type) <= len => list[Rank(p, type)] = At(fw, p)
ListsExact ==
    pc \notin {"acpi_init", "_parse_madt"} =>
        /\ Lists(ioapic_list, IOAPIC_LIST_LEN, ICS_ID_IO_APIC)
        /\ Lists(iso_list, ISO_LIST_LEN, ICS_ID_ISO)

(* Once booted, the inputs that timer and keyboard are wired to carry their *)
(* vectors with the polarity and trigger mode ACPI gives for the flags (a   *)
(* field of 3 is active low, or level), and every other input is masked.    *)
Fits == Cardinality(Places(fw, ICS_ID_ISO)) <= ISO_LIST_LEN
RoutedAsWired ==
    pc = "up" /\ Fits =>
        /\ \A line \in Lines :
               LET e == redir[Wired(fw, line)]
               IN  /\ e.vector = VectorOf(line)
                   /\ ~e.masked
                   /\ e.active_low <=> WiredFlags(fw, line) % 4 = 3
                   /\ e.level <=> (WiredFlags(fw, line) \div 4) % 4 = 3
        /\ \A g \in 0 .. MaxGsi : redir[g].masked <=> g \notin {Wired(fw, line) : line \in Lines}

(* No keyboard interrupt ever goes to another processor or another vector:  *)
(* not between the two words of the entry, and not for a destination that   *)
(* was read before cpu_init had set it.                                     *)
KeyboardToBsp ==
    \A m \in sent : m.line = 1 => m.vector = KEYBOARD_VECTOR /\ m.dest = fw.bsp

(* ps2_init's dialogue with the 8042 is sound: what it takes for the        *)
(* configuration, and writes back, is never a key that was typed meanwhile; *)
(* and once booted a byte in the output buffer has an interrupt on its way, *)
(* since otherwise it would never be read and the keyboard would be dead:   *)
(* none is left over from the dialogue, and none comes before its routing.  *)
DialogueSound ==
    /\ config # "key"
    /\ pc = "up" /\ Fits /\ obuf # "none" => irr

(* The boot code uses a null pointer only on a machine that describes no    *)
(* HPET, more overrides or I/O APICs than the arrays hold, or an input of a *)
(* line that no I/O APIC has, except as its last one: that one the code     *)
(* finds in none, as it compares with the highest entry's number and not    *)
(* with the number of inputs.                                               *)
FoundInputs(a) == a.gsi_base .. a.gsi_base + a.pins - 2
FaultExplained ==
    pc = "fault" =>
        \/ ~\E k \in 1 .. Len(fw.tables) : fw.tables[k].sig = "HPET"
        \/ ~Fits \/ Cardinality(Places(fw, ICS_ID_IO_APIC)) > IOAPIC_LIST_LEN
        \/ \E line \in Lines : \A a \in Described(fw, ICS_ID_IO_APIC) :
               Wired(fw, line) \notin FoundInputs(a)

(* The walks end on every machine: the boot comes to its end or stops.      *)
BootEnds == <>(pc \in {"up", "halt", "fault"})
=============================================================================
