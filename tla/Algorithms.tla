------------------------------ MODULE Algorithms ------------------------------
(***************************************************************************)
(* The kernel's functions without state of their own, each called with     *)
(* every argument of a bounded set and compared with what it should        *)
(* compute.                                                                *)
(***************************************************************************)
EXTENDS Format, MemoryOps, PageWalk, Pci, InterruptEntry

CONSTANTS
    Ints, Unsigneds,    \* arguments of the signed and unsigned conversions
    Items,              \* pieces of formats: [spec, arg, text]; a literal has no spec
    MaxItems, Sizes,    \* of a format; of the buffer
    Words,              \* words to dump: [width, bits]
    MemorySize,         \* bytes of memory for the mem functions
    Tables, TopBit,     \* pages with page tables; a flag above the address field
    Machines,           \* functions present, by page: [class, sub, multi]
    Bars,               \* values and sizes of a BAR 0
    HandlersAt          \* where the handlers' code may begin

VARIABLES call, result

(* A behaviour calls the functions of one subject.                         *)
Subjects == {"interrupts", "memory", "numbers", "pci", "paging", "dumps", "texts", "log"}
NoCall(subject) == [fn |-> "none", subject |-> subject]
Init == call \in {NoCall(s) : s \in Subjects} /\ result = << >>

On(subject) == call = NoCall(subject)
Calls(c, r) == call' = c @@ [subject |-> call.subject] /\ result' = r
Return == call.fn # "none" /\ call' = NoCall(call.subject) /\ result' = << >>

-----------------------------------------------------------------------------
(* Texts.                                                                  *)

CallNumber ==
    \/ \E num \in Ints, base \in {2, 10, 16} :
           \/ Calls([fn |-> "itoa", num |-> num, base |-> base], itoa(num, base))
           \/ Calls([fn |-> "ltoa", num |-> num, base |-> base], ltoa(num, base))
    \/ \E num \in Unsigneds, base \in {2, 10, 16} :
           \/ Calls([fn |-> "ultoa", num |-> num, base |-> base], __ultoa(num, base))
           \/ Calls([fn |-> "ultoua", num |-> num, base |-> base], __ultoua(num, base))

(* A format is put together from its pieces; a fresh buffer holds anything *)
(* and Behind bytes of other memory follow it.                             *)
Behind == 24
Fresh(size) == [k \in 0 .. size + Behind - 1 |-> "?"]
FormatOf(items) ==
    FlattenSeq([k \in DOMAIN items |-> CASE items[k].spec = << >> -> <<items[k].arg>>
                                         [] OTHER -> <<"%">> \o items[k].spec])
Converts(item) == item.spec # << >>
ArgsOf(items) ==
    LET c == SelectSeq(items, Converts) IN [k \in DOMAIN c |-> c[k].arg]

CallFormat ==
    \E n \in 0 .. MaxItems, size \in Sizes : \E items \in [1 .. n -> Items] :
        Calls([fn |-> "vsnprintf", items |-> items, size |-> size],
              snprintf(Fresh(size), size, FormatOf(items), ArgsOf(items)))

CallKprintf ==
    \E n \in 0 .. MaxItems, size \in Sizes : \E items \in [1 .. n -> Items] :
        Calls([fn |-> "kprintf", items |-> items, size |-> size],
              kprintf(Fresh(size), size, FormatOf(items), ArgsOf(items)))

Dump(w) ==
    CASE w.width = 8 -> sprint_binary8(w.bits)
      [] w.width = 16 -> sprint_binary16(w.bits)
      [] w.width = 32 -> sprint_binary32(w.bits)
      [] w.width = 64 -> sprint_binary64(w.bits)
CallDump == \E w \in Words : Calls([fn |-> "dump", word |-> w], Dump(w))

-----------------------------------------------------------------------------
(* Memory: distinct bytes show where each one goes.                        *)

Memory == 0 .. MemorySize - 1
Distinct == [a \in Memory |-> a]
Blocks == {b \in Memory \X Memory \X (0 .. MemorySize) :
              b[1] + b[3] <= MemorySize /\ b[2] + b[3] <= MemorySize}
Apart(b) == b[1] + b[3] <= b[2] \/ b[2] + b[3] <= b[1]

CallMemory ==
    \E b \in Blocks :
        \/ Calls([fn |-> "memmove", block |-> b], memmove(Distinct, b[1], b[2], b[3]))
        \/ /\ Apart(b)
           /\ Calls([fn |-> "memcpy", block |-> b], memcpy(Distinct, b[1], b[2], b[3]))
        \/ Calls([fn |-> "memset", block |-> b], memset(Distinct, b[1], b[2] + Bytes, b[3]))

CallMemcmp ==
    \E b \in Blocks, mem \in [Memory -> {0, 1}] :
        Calls([fn |-> "memcmp", block |-> b, mem |-> mem], memcmp(mem, b[1], b[2], b[3]))

-----------------------------------------------------------------------------
(* Paging: every content of the tables.  An entry names a page, and may be *)
(* absent; a flag above the address field (execute disable) has no meaning *)
(* for the translation.                                                    *)

Entries == [page : Tables, present : {0, 1}, top : {0, 1}]
Word(e) == e.page * 2 ^ OffsetBits + e.present + e.top * 2 ^ TopBit
Address(page) == page * 2 ^ OffsetBits
DirectMap(tables) ==
    [a \in {Address(p) : p \in Tables} |->
        [i \in 0 .. 2 ^ IndexBits - 1 |-> Word(tables[a \div 2 ^ OffsetBits][i])]]
VirtualAddresses == 0 .. 2 ^ (OffsetBits + 4 * IndexBits) - 1
AddressField == TopBit - OffsetBits

CallWalk ==
    \E tables \in [Tables -> [0 .. 2 ^ IndexBits - 1 -> Entries]], root \in Tables :
        LET m == vm_init(48 * 256 + AddressField).maxphyaddr
        IN  Calls([fn |-> "walk", tables |-> tables, root |-> root],
                  [va \in VirtualAddresses |->
                      walk_page_table(DirectMap(tables), Address(root), m, va)])

-----------------------------------------------------------------------------
(* PCI: a machine's functions, and the BARs of its NVMe controllers.       *)

Register(b0, b1, b2, b3) == [byte \in 0 .. 3 |-> <<b0, b1, b2, b3>>[byte + 1]]
Ecam(machine) ==
    [p \in DOMAIN machine |->
        [reg0 |-> Register(134, 128, p % 256, 0),
         reg2 |-> Register(0, p % 7, machine[p].sub, machine[p].class),
         reg3 |-> Register(0, 0, IF machine[p].multi THEN 128 ELSE 0, 0)]]

CallScan ==
    \E machine \in Machines :
        Calls([fn |-> "pci_init", machine |-> machine], _scan_all_buses(Ecam(machine)))

NvmeBars(machine, bar) ==
    [p \in DOMAIN machine |->
        [bar0 |-> [value |-> bar.value + 4, size |-> bar.size],
         bar1 |-> [value |-> p * 16, size |-> 16]]]

CallNvme ==
    \E machine \in Machines, bar \in Bars :
        LET list == _scan_all_buses(Ecam(machine))
            k    == pci_find_device(list, 1, 8)
        IN  /\ k # 0
            /\ Calls([fn |-> "nvme_init", machine |-> machine, bar |-> bar, page |-> list[k].address],
                     nvme_init(NvmeBars(machine, bar), list[k]))

-----------------------------------------------------------------------------
(* Interrupts: the tables for handlers at different places, and every      *)
(* vector with a gate, for a program with something different in each      *)
(* register.                                                               *)

HandlersFrom(at) == [v \in Range(Gates) |-> (at + v * 9) % 2 ^ (4 * Half)]

CallTables ==
    \E at \in HandlersAt :
        Calls([fn |-> "idt_init", handlers |-> HandlersFrom(at)],
              [gdt |-> init_gdt, idt |-> idt_init(HandlersFrom(at)), segments |-> _gdt_reload])

Registers == Range(General) \union Range(Frame) \union {"ds", "es"}

CallInterrupt ==
    \E v \in Range(Gates) :
        Calls([fn |-> "interrupt", vector |-> v], Interrupt([r \in Registers |-> r], v))

Next ==
    \/ On("interrupts") /\ (CallInterrupt \/ CallTables)
    \/ On("memory") /\ (CallMemory \/ CallMemcmp)
    \/ On("numbers") /\ CallNumber
    \/ On("pci") /\ (CallScan \/ CallNvme)
    \/ On("paging") /\ CallWalk
    \/ On("dumps") /\ CallDump
    \/ On("texts") /\ CallFormat
    \/ On("log") /\ CallKprintf
    \/ Return

Spec == Init /\ [][Next]_<<call, result>>

-----------------------------------------------------------------------------
(* Properties.                                                             *)

ValueOf(str, base) ==
    FoldLeft(LAMBDA v, ch : v * base + (CHOOSE d \in 0 .. 15 : ch \in {Lower[d + 1], Upper[d + 1]}),
             0, str)

(* A number's text reads back as the number: sign in front, most           *)
(* significant digit first, no digit lost or added; hexadecimal texts of   *)
(* unsigned numbers have full width, no other has leading zeros.           *)
NumberRight ==
    call.fn \in {"itoa", "ltoa", "ultoa", "ultoua"} =>
        LET digits == IF call.num < 0 THEN Tail(result) ELSE result
            full   == call.base = 16 /\ call.fn \in {"ultoa", "ultoua"}
        IN  /\ call.num < 0 => Head(result) = "-"
            /\ ValueOf(digits, call.base) = IF call.num < 0 THEN -call.num ELSE call.num
            /\ IF full THEN Len(digits) = HexDigits ELSE Len(digits) = 1 \/ Head(digits) # "0"
            /\ Range(digits) \subseteq Range(IF call.fn = "ultoua" THEN Upper ELSE Lower)

(* A dump shows every bit once, the highest first, in groups of eight with *)
(* a blank between them, and ends where its terminator was put.            *)
DumpRight ==
    call.fn = "dump" =>
        LET w == call.word.width
            Column(bit) == (w - 1 - bit) + (w - 1 - bit) \div 8 + 1
        IN  /\ Len(result) = w + w \div 8
            /\ \A bit \in 0 .. w - 1 : result[Column(bit)] = IF bit \in call.word.bits THEN "1" ELSE "0"
            /\ \A k \in DOMAIN result : result[k] = NUL <=> k = Len(result)

(* Conversions are exact: a number's text reads back as the number, and a  *)
(* dump shows every bit of a word in its place.                            *)
ConversionsExact == NumberRight /\ DumpRight

Rendered(items) == FlattenSeq([k \in DOMAIN items |-> items[k].text])

(* What vsnprintf leaves is a terminated string: as much of the rendered   *)
(* text as the buffer's size allows, even where a conversion has written   *)
(* past the buffer; and kprintf's text survives being a format again.      *)
TextLeft ==
    call.fn \in {"vsnprintf", "kprintf"} =>
        LET text == Rendered(call.items)
            cut  == SubSeq(text, 1, IF Len(text) < call.size THEN Len(text) ELSE call.size - 1)
        IN  cut = IF call.fn = "kprintf" THEN result ELSE CString(result.buffer)

(* If the text and its terminator fit, no byte behind the buffer changes   *)
(* and the text's length is returned: no conversion writes more than its   *)
(* text and one terminator.                                                *)
StaysInside ==
    call.fn = "vsnprintf" /\ Len(Rendered(call.items)) < call.size =>
        /\ result.ret = Len(Rendered(call.items))
        /\ \A k \in DOMAIN result.buffer : k >= call.size => result.buffer[k] = "?"

(* vsnprintf and kprintf: the text is right up to the buffer's size, and   *)
(* nothing but the buffer changes if it fits.                              *)
TextRight == TextLeft /\ StaysInside

(* memmove copies what the source held before, however the blocks overlap; *)
(* memcpy does for blocks apart; memset fills; none touches another byte.  *)
MoveExact ==
    call.fn \in {"memmove", "memcpy", "memset"} =>
        LET b == call.block
        IN  result = IF call.fn = "memset" THEN Filled(Distinct, b[1], b[2], b[3])
                     ELSE Moved(Distinct, b[1], b[2], b[3])

(* memcmp orders blocks lexicographically, as unsigned bytes.              *)
CompareExact ==
    call.fn = "memcmp" =>
        LET b == call.block IN result = Compared(call.mem, b[1], b[2], b[3])

(* The four functions the compiler may call behind the program's back do   *)
(* what the C standard says, for overlapping blocks too.                   *)
MemoryExact == MoveExact /\ CompareExact

(* walk_page_table finds what the processor's translation does, for all    *)
(* addresses, with tables that share pages or refer to themselves, and     *)
(* with flags above the address field.                                     *)
WalkIsHardware ==
    call.fn = "walk" =>
        LET I == 2 ^ IndexBits
            O == 2 ^ OffsetBits
        IN  \A a, b, c, d \in 0 .. I - 1 : \A o \in 0 .. O - 1 :
                LET pml4e == call.tables[call.root][a]
                    pdpte == call.tables[pml4e.page][b]
                    pde   == call.tables[pdpte.page][c]
                    pte   == call.tables[pde.page][d]
                    all   == \A e \in {pml4e, pdpte, pde, pte} : e.present = 1
                IN  result[(((a * I + b) * I + c) * I + d) * O + o]
                        = IF all THEN pte.page * O + o ELSE 0

(* The scan finds every function once, in the order of bus, device and     *)
(* function, also behind a gap, and none that a single-function device     *)
(* only seems to have; each with its own codes and its own page.           *)
Multi(machine, p) == machine[p - (p % 8)].multi
Present(machine) == {p \in DOMAIN machine : p % 8 = 0 \/ Multi(machine, p)}
ScanExact ==
    call.fn = "pci_init" =>
        /\ {result[k].address : k \in DOMAIN result} = Present(call.machine)
        /\ \A j, k \in DOMAIN result : j < k => result[j].address < result[k].address
        /\ \A k \in DOMAIN result :
               LET dev == result[k]
                   f   == call.machine[dev.address]
               IN  /\ dev.class_code = f.class /\ dev.sub_class_code = f.sub
                   /\ dev.prog_if = dev.address % 7
                   /\ dev.address = (dev.bus * 32 + dev.device) * 8 + dev.function

(* nvme_init takes the first NVMe controller, computes the size and place  *)
(* of its registers, and leaves every BAR as it was.                       *)
NvmeSized ==
    call.fn = "nvme_init" =>
        LET nvme == {p \in Present(call.machine) :
                        call.machine[p].class = 1 /\ call.machine[p].sub = 8}
        IN  /\ call.page \in nvme /\ \A p \in nvme : call.page <= p
            /\ result.length = call.bar.size
            /\ result.base_low = call.bar.value /\ result.base_high = call.page * 16
            /\ ~result.fatal /\ result.wide
            /\ result.bars = NvmeBars(call.machine, call.bar)

(* The device list and the NVMe controller found in it are the machine's.  *)
PciExact == ScanExact /\ NvmeSized

(* The processor, which puts a gate's address and a segment's base together *)
(* from their parts, enters for every vector the routine meant for it, with interrupts off, in a present 64-bit code segment of  *)
(* ring 0, the one the kernel runs in; a vector without a routine has no   *)
(* gate, and no table ends before an entry that is used.                   *)
Bits(x, from, n) == (x \div 2 ^ from) % 2 ^ n
Base(d) == d.base_low + 2 ^ Half * (d.base_middle + 2 ^ (Half \div 2) * d.base_high)
GatesLead ==
    call.fn = "idt_init" =>
        LET Gate(v) == result.idt.idt[v]
            Segment(selector) == result.gdt.gdt[selector \div 8 + 1]
            used == {Gate(v).selector : v \in DOMAIN call.handlers}
                        \union {result.segments[r] : r \in DOMAIN result.segments}
        IN  /\ \A v \in DOMAIN call.handlers :
                   LET g == Gate(v)
                       d == Segment(g.selector)
                   IN  /\ g.base_low + 2 ^ Half * (g.base_mid + 2 ^ Half * g.base_high) = call.handlers[v]
                       /\ Bits(g.flags, 7, 1) = 1 /\ Bits(g.flags, 5, 2) = 0 /\ Bits(g.flags, 0, 5) = 14
                       /\ Bits(d.access, 3, 2) = 3 /\ Bits(d.granularity, 5, 2) = 1
                       /\ g.selector = result.segments["cs"]
            /\ \A v \in 0 .. 255 \ DOMAIN call.handlers : Bits(Gate(v).flags, 7, 1) = 0
            /\ \A s \in used : /\ s + 7 <= result.gdt.limit
                                /\ Bits(Segment(s).access, 7, 1) = 1 /\ Bits(Segment(s).access, 5, 2) = 0
                                /\ Base(Segment(s)) = 0
            /\ Bits(Segment(result.segments["ss"]).access, 1, 4) = 9
            /\ result.idt.limit = 16 * 256 - 1

(* A device's interrupt is invisible to the interrupted program: whatever  *)
(* the C functions leave in the registers, it goes on where it was with    *)
(* every register, flag and segment as before and nothing left on the      *)
(* stack.  A fault's routine reports its own vector and never returns.     *)
HandlerHidden ==
    call.fn = "interrupt" =>
        IF call.vector < 32
          THEN result.halted /\ result.arg = call.vector
          ELSE /\ ~result.halted
               /\ result.regs = [r \in Registers |-> r]
               /\ result.stack = << >>

(* From an interrupt's vector to its handler and back to the program.      *)
InterruptTransparent == GatesLead /\ HandlerHidden
=============================================================================
