# A verification of bloreos64

bloreos64 is a small 64-bit kernel for one CPU, started by the Limine boot loader.  This directory
models the parts of it that keep state, checks them with TLC on small instances, and proves seven of
the components with TLAPS for every value of their parameters.  Paths below are relative to the
repository's root (`src/mem.c` is the memory manager).

## The system

| Component | State | Operations | Talks to | What makes it correct |
|---|---|---|---|---|
| Kernel loop (`kernel.c`) | - | poll the queue, read it with interrupts off, dispatch | queue, terminal | no deadlock with a handler, no fatal read, keys in order |
| Circular queue (`lib/queue.c`) | `read_i write_i buff num_items lock` | create, write (from a handler), read (from the loop) | heap | a bounded FIFO; a key is lost only when it is full |
| Interrupt dispatch (`idt.c`, `isr_*.S`), local APIC (`lapic.c`) | requests, in-service, IF, `kernel_timer_secs` | deliver, handle, acknowledge, return | PS/2, queue | every request is served, none stays stuck |
| PS/2 (`drivers/ps2.c`) | controller's output buffer, `scancode_map` | init, read | I/O APIC | an unread byte always has its interrupt |
| Physical memory manager (`mem.c`) | `page_bitmap entry_map allocation_cursor num_pages_available` | `kalloc kpalloc kfree` | boot map | blocks disjoint and usable; nothing leaks; NULL only when it must |
| Memory start-up (`mem.c`, `alloc/slob.c`) | the memory map, the tables' places, page counts | `kmem_init`, `memmap_alloc`, `slob_init` | Limine | tables disjoint; bitmap and counts are what the map says |
| Slob heap (`alloc/slob.c`) | free list, `_init`, headers | `slob_init slob_malloc slob_free` | memory map | every address has one owner |
| Bump heap (`alloc/bump.c`, not built by default) | `_cursor _offset` | `bump_malloc` | `kpalloc` | blocks inside the granted pages |
| Terminal (`terminal.c`) | positions, `input_str`, frame buffer | `tprintf`, key events, commands, clear | queue, strings | the screen shows what was printed and what is being typed |
| Strings (`lib/str.c`) | - | `vsnprintf`, conversions, `strcmp`, `kprintf` | terminal, serial | bounded output, conversions correct |
| HPET (`hpet.c`), LAPIC timer (`lapic.c`), PIT (`pit.c`) | counter, comparator, `_ticks`, the calibrated count | one-shot, two kinds of sleep, calibration | I/O APIC, handlers | a sleep ends, and how early or late; how far a counted second is from a second |
| ACPI (`acpi.c`), I/O APIC (`ioapic.c`) | fixed lists of I/O APICs and overrides, redirection table | table walk, redirect | HPET, PS/2 | every IRQ has one entry, no read outside a table |
| PCI (`pci.c`), NVMe (`drivers/nvme.c`) | fixed device array | scan, find | heap, ACPI | each function found once, array not overrun |
| Virtual memory (`vm.c`) | page tables (read only) | walk | CPU | the walk is the hardware's translation |
| CPU, GDT (`cpu.h`, `gdt.c`) | descriptors, saved registers | set-up, interrupt entry and exit | handlers | each vector reaches its routine, and a handler is invisible to what it interrupts |
| Serial (`serial.c`) | ports | output | - | - |

What is hard here is not many processes: it is the one place where an interrupt handler and the
loop share a data structure, the order in which devices are programmed while they are already
running, the order in which the memory map is carved up and copied into three allocators, long sequences of allocations and frees, and boundaries (a full queue, the end of the
bitmap, the bottom of the screen).  Nothing is persisted, so there is no recovery; other cores are
never woken (`cpu.c:70-85` is commented out), so nothing runs in parallel.  `PROJECT.json` lists
the hazards at their lines.

## The modules

**KeyboardPath** (`BoundedFifo`, `MCKeyboardPath`, `KeyboardPathProofs`).  The path of a scan code
from the 8042 to `term_keyevent`.  `mpc` is the loop's position (`Poll Cli RLock RGuard RTake RDec
RUnlock Sti Dispatch`), `ipc` the handler's (`KbdRead WLock WFull|WStore WUnlock WCount Eoi Iret`,
or `Tick Eoi Iret`).  While a handler runs the loop is stalled.  `TakeInterrupt` needs IF and an
empty in-service set: vectors 33 and 35 share priority class 2 and `docs/interrupts.txt` says
"Next ISR doesnt fire until the ISR's has been ACK'd".  `cqueue_write` raises `num_items` only after
it has released the lock, and that order is kept.  The 8042 holds one byte, and the keyboard holds
further ones back.  HPET interrupts are left out: `lapic_timer_init` ends with timer 0 and the HPET
switched off.  `FreshLockBytes` is what the uninitialised lock byte may hold: {0} where the
question is about the protocol, {0, 1} where it is about `cqueue_create`.

**PageAllocator** (`PagePool`, `MCPageAllocator`, `PageAllocatorProofs`).  `kalloc` is a loop of
steps (`KallocEnter`, then `ScanOn`, `ScanWrap`, `ScanFail` or `KallocSuccess`, `ReturnNull`);
`kfree` is one step and may be given any page, so that second frees and inner addresses are
included.  `granted` is history: what callers hold.  The spinlock is uncontended (handlers never
allocate) and is represented by `pc`.  `size_t` and the page counter wrap at scaled-down words.

**PmmInit** (`MCPmmInit`, `PmmInitProofs`).  `_init_stats`, `_create_page_bitmap`, `memmap_alloc` for the entry map,
`_get_free_pages`, and the two `slob_init` calls (kernel_main's and the first `malloc`'s).
Bits past the end of a bitmap that is too short are nondeterministic.

**Slob** (`MCSlob`, `SlobProofs`).  The free list as a sequence of regions, the headers in memory, and as history
who owns what.  A call is a step.  `free` allocates its own list node, as the code does.

**Bump** (`MCBump`).  `bump_malloc`'s three paths over a `kpalloc` that may choose any free run.

**Terminal** (`MCTerminal`, `TerminalProofs`).  The frame buffer by pixel rows and glyph columns; `tprintf` folds
`PutChar` over its text, and `_move_to_next_line`, `_shift_screen_up` and `_render_input_line` are
operators of the same names.  `log` is an independent reference: the printed text broken into lines.
An empty string draws its terminator and whatever the uninitialised buffer holds (`Leftovers`).
The cursor is left out because nothing makes it visible.  `ScreenAssumption`: the screen has two lines, a line
has room for the prompt and `MaxInput` characters, and a glyph is at least one pixel row and one of padding.
`TextAssumption`: a text is any sequence of characters, and a boot message ends in a newline.  Of the ones that do not,
`lib/queue.c:88`, `terminal.c:134` and `mem.c:241` are followed by a halt.  The one at `drivers/nvme.c:50` (BAR 0 in I/O space)
is not: `nvme_init` goes on, and its next text (`nvme.c:65`) ends in a newline.  The two are one message of the model, the text
they make together; `tprintf` only draws its characters, and no key is dispatched in between.  `_print_bitmap` and
the dump functions have no caller.

**InterruptRouting** (`MCInterruptRouting`, `InterruptRoutingProofs`).  `kernel_main` from `acpi_init` to `ps2_init`: a step per
table, per round of `_parse_madt`'s loop (`MadtMove`, `MadtEnd`), per function that follows, and per
word written to a redirection entry; meanwhile the timer (if the firmware left the HPET running) and
the keyboard raise their lines.  `off` is the walk's byte offset.  The walk is bounded by the length
of the whole table, header included, and so always reads what lies behind the table: `tail`, a zero
length (the case the comment at `acpi.c:161` met) or the next table's signature.  `MadtAssumption`
excludes memory that looks like an I/O APIC or an override, which the code would believe, and a tail so
short that the walk would go on behind it.  The reference is the firmware's description, not the
kernel's lists: `Places` says in which table and where in it the structures of a type are, and `Wired`
and `WiredFlags` what a line's override says.  `WiringAssumption` is what ACPI and the hardware give:
an I/O APIC has at most the 120 inputs that 8-bit register numbers reach, a line at most one override
with defined flags, timer and keyboard have inputs of their own, and the keyboard's is not input 0.
It extends **Ps2Controller**, the
8042 and `ps2_init`'s dialogue with it: `todo` holds the port accesses still to be made, `ibuf` the
command the controller has not yet obeyed, and `obuf` the one byte that may be an answer or a key.
Keys are typed at any moment at which the controller passes them on.  The mouse is silent.

**Timers** (`MCTimers`, `TimersProofs`).  A C function is the sequence of its accesses to registers and shared
variables (`hpet_one_shot`, `lapic_timer_init`, ... are such sequences, and a call inside one is
concatenation); `todo` is what remains of the boot code or of the present sleep, and each access is
an action.  `Tick` advances both clocks and raises their interrupts; `_handle_timer` and
`_handle_lapic_timer` run to their end between two accesses.  At most `MaxDelay` ticks pass between
accesses, so "late" has a meaning.  `slept` and `elapsed` are history: the true time since the call,
and since the local APIC's timer was started.  A pending interrupt is taken within the tick and
before the next access if IF is set.  The firmware may have left the HPET running, and its
periodic mode, whose period nobody knows, fires at any time.  `Firmware` is what it may have left in the two routing
fields: the HPET's legacy replacement, which `hpet_init` reads and never sets (`hpet.c:103-110`), and timer 0's route,
into which it ORs a 0 (`SelectInput`, `hpet.c:128-130`).  `Redirect` programs IRQ 0's input (`Irq0Input`) instead, and `Delivered`
says whether that is the one the timer's interrupt comes in on.  The code knows time by `hpet_frequency`
and `Limit`, each an integer division; the properties measure it by `FemtosPerSec` and `TickPeriod`, which lose nothing.
The sleeps' argument is at least 1 ms.

**Algorithms** (`MCAlgorithms`) calls the functions that keep no state, one call a step, with every
argument of bounded sets, and compares each result with an independent definition.  They are:
- **Format** (`lib/str.c`): `itoa`, `ltoa`, `__ultoa`, `__ultoua`, `vsnprintf` as a fold over the
  format with the buffer and the memory behind it, `kprintf`'s text as a format again, the dumps;
- **MemoryOps** (`mem.c:92-158`): copies in the direction the code takes, byte by byte, and the results the C
  standard asks for (`Moved`, `Filled`, `Compared`);
- **PageWalk** (`vm.c`): the walk on words, with the widths as parameters; the reference follows
  entries, not bits;
- **Pci** (`pci.c`, `drivers/nvme.c`): the scan over a configuration space, `pci_find_device`, and
  `nvme_init`'s save, probe and restore of BAR 0;
- **InterruptEntry** (`gdt.c`, `idt.c`, `cpu.h`, `isr_ps2.S`, `isr_faults.S`): the packing of the
  descriptors, and every routine behind a gate as a sequence of instructions, executed on registers
  and a stack.  The prologue of the two C handlers is taken to be an adjustment of the stack pointer
  by 8, what `-O2` (`GNUmakefile:31`) makes of a function that calls others.

## The runs

| Run | Expect | Shows |
|---|---|---|
| Keyboard | pass | `NoDoubleLock`, `NeverFatal`: the loop's unlocked test and its `cli` suffice. `RingInv`, `NoKeyVanishes`, `KeysInOrder`, `ImplementsFifo`: the queue is a bounded FIFO in spite of the late count. `NoStrandedKey`: the keyboard is never stuck. `InterruptServed`, `KeysReachTerminal`, `WriteReturns` under fairness |
| PageAllocator | pass | `BitmapExact`, `EntryMapExact`, `BlocksSound`, `NullOnlyIfNoRun`, `ImplementsPool`, and `KallocReturns` under fairness |
| InterruptRouting | pass | `ListsExact`, `FaultExplained`: what the walk finds, and the only reasons for the boot to use a null pointer, an I/O APIC's last input among them. `RoutedAsWired`: each line's input has its vector, polarity and trigger mode, all others stay masked. `KeyboardToBsp`: no interrupt escapes between the two words. `DialogueSound`: disabling and flushing keep keys out of the dialogue with the 8042, and no byte is left without an interrupt. `BootEnds` under fairness of the kernel and the 8042 |
| Timers | pass | `SleepExact`: both sleeps, in any order, are shorter than asked by less than a tick per ms, and longer by no more than their accesses take. `SecondsExact`: where the calibrated product fits its word, so are the seconds, with ten times the calibration's accesses. `SleepReturns` under fairness: boot and `hpet_sleep_counter` always, `hpet_sleep` where its interrupt is delivered |
| Algorithms | pass | `ConversionsExact`, `TextRight`: the formatter. `MemoryExact`: the memory functions. `WalkIsHardware`: the page walk. `PciExact`: scan and NVMe sizing. `InterruptTransparent`: from a vector to its handler and back |
| PmmInit | pass | `BitmapMatchesMap` (and that there is a bitmap when it is used), `CountsAgree` (which count follows the bitmap and which the map, also after both `slob_init` calls), `TablesDisjoint` |
| Slob | pass | `Partition`, `HeaderIntact`, through the second `slob_init` and until the heap is full |
| Terminal | pass | `InputLineShown`, `OutputShown` |
| KeyboardFreshLock | violation | `cqueue_create` never writes the lock: the first interrupt may spin for ever |
| SlobFreeFault | violation | `free` on a full heap writes through NULL |
| BumpOffset | violation | a small request after a multi-page one leaves the granted pages |
| TerminalBlank | violation | scrolling blanks a pixel row behind the frame buffer |

Bounds.  *Keyboard*: a queue of 2 and 5 key presses fill it, overflow it and take both cursors
round it more than once; two scan codes, one unmapped; 2 timer ticks let each handler wait for the other.
*PageAllocator*: 7 pages with a hole, so runs are broken by the map and by other blocks and the
bound is smaller than the map; requests of 1 to 3 pages, exact and rounded.  *PmmInit*: every map of three
entries up to 8, 3 and 8 pages, with bytes of 2 bits and pages of 4 bytes so that tables take
several pages; maps that the truncation in `num_pages_in_map / 8` (`mem.c:280`) leaves without
their last bits are excluded, since on them the bitmap reads uninitialised memory.  *Slob*: pages
of 4 units and requests of 1, 3 and 4; three maps: one entry of 3 units (`TinyMap`), where the first initialisation already halts;
entries of 10 and 4 (`TightMap`), with room for the first one only; entries of 22 and 14 (`RoomyMap`), of which both
initialisations leave 6 and 14 and the calls run the heap full.  *Terminal*: four
lines of five glyphs, 13 pixel rows for lines of 3, input up to a full line (`MaxInput`); longer
input is the code's own open point (`terminal.c:236`).  *InterruptRouting*: up to four structures in
any order out of two I/O APICs, three overrides (arrays of 2, so one may be dropped) and one that is
skipped; with up to three structures also a second I/O APIC of two inputs, the last of them the keyboard's; each of HPET and MCFG table once missing; the boot processor is not processor 0; keyboard
interrupts on or off and a mouse present or not at the start.  *Timers*: a second of 17 fs
and 2 "ms" and a tick of 3 fs, so that both divisions lose something (a second has 5 2/3 ticks, of which the code sees 5, and 2
of the 2 5/6 in a millisecond); sleeps of 1 and 3; an access takes
up to one tick; 2 local APIC counts per tick and a 5-bit count, which holds the product of a quick calibration and
wraps with that of a slow one; timer 0 left on IRQ 0's input by its route field or by legacy replacement, or on another;
the main counter is followed up to 7 and the seconds up to 2, `elapsed` to the end of
the second (`CounterCap`, `SecsCap`, `ElapsedCap`).  *Algorithms*: all 8-bit numbers except the least signed one,
whose negation is undefined; formats of up to three pieces in buffers of 1 to 8 bytes; words with up
to two bits set or clear; overlaps in 5 bytes; all contents of two page-table pages with two entries,
whose pages refer to each other and themselves; up to three PCI devices with gaps between their
functions; every vector that has a gate, and four places for the handlers.  No run needs a bound on the number of
calls except BumpOffset and, through `MaxKeys` and `MaxTicks`, Keyboard.  No symmetry is used.

Fairness.  `WF` of the loop's and the handlers' steps, of `kalloc`'s, of the sleeps' and of the boot code's: the CPU keeps executing.
`WF` of the 8042's obeying a command (`Obey`; keys may never come) and of `Tick`: hardware that the code waits for without a limit works.
`SF` of `TakeInterrupt`: a pending interrupt is taken at the first instruction boundary with IF set,
and IF is set again and again.  Nothing else is assumed of the devices.  The timer's expirations are
bounded; its period of about a second is far longer than a handler, so it cannot starve the loop.

Observations that no run states.  `kalloc(0)`: `pages_to_alloc` is 0 and equals the initial
`allocated_pages`, so on a taken page the call succeeds and writes 0 to `entry_map[0]`, whose block
then cannot be freed (`mem.c:402`; with 0 among `Requests`, `EntryMapExact` fails).  `hpet_init`
routes the timer to `bsp_lapic_id` before `cpu_init` has set it (`kernel.c:86`, `88`), that is to
processor 0, and it programs IRQ 0's input while timer 0 stays on the one the firmware left (`hpet.c:103-110`, `128-130`): where
the boot processor is another one, or the input differs, `hpet_sleep`, which has no caller today, never
returns (without `Delivered`, `SleepReturns` fails).  A sleep may end before `hpet.c:218` and `235` say ("until the specified time
in milliseconds has passed"): the two divisions take up to a tick off every millisecond, and `SleepExact` bounds the loss.
An I/O APIC's last input is found in none (`ioapic.c:74` takes the highest number for
the count), and the null result is used; `FaultExplained` counts this among the causes.  `kfree` never
adds to `num_pages_available`, which after the first free no longer counts the free pages (`mem.c:416`, `482-502`); and `slob.c:20` promises the
merging of free neighbours that `slob.c:121` says is still to come.  `kalloc`'s search wraps at `max_pages_available`, a number of
usable pages, while bits are numbered by their place in the map (`mem.c:424`): behind a hole the last pages are never looked at,
and `NullOnlyIfNoRun` is therefore about pages below the bound.  Pages that `slob_init` takes with `memmap_alloc` after `kmem_init`
stay free in the bitmap (`slob.c:56`; `mem.c:232` calls them "permanently allocated") and in the number that `kernel.c:82` reports, and the heap's regions are the very ones
the bitmap holds free (`slob.c:65`): with both in use `kalloc` and `malloc` can return the same memory.  In the default build
nothing calls `kalloc`.

A conversion that does not fit writes behind `vsnprintf`'s buffer (`str.c:220`; `TextRight` asks for an untouched neighbourhood only of texts that fit).
`%%` and unknown specifiers vanish, a format that ends in `%` is read past its end, and a size of 0 is taken for a
very large one (`str.c:237`).  `kprintf` hands its text to `tprintf` as a format (`str.c:311`): a `%` that an argument brought in would be
read as a conversion without an argument, and the run's arguments have none.  `strcmp` calls a prefix equal (`str.c:285`).  `kernel_timer_secs` counts seconds,
as `SecondsExact` shows, but `idt.c:37` calls it milliseconds, and `terminal.c:365` and `367` print it as "ms" and, divided by 1000, as "s".
`ticksin100ms * 10` has 32 bits (`lapic.c:101`) and is not checked: where it wraps, or the count runs out during the calibration,
the timer's period is arbitrary.  The run reaches this, and `SecondsExact` asks nothing of such seconds (`SecondFits`).
An empty line's echo draws what the buffer holds (`terminal.c:301`); `OutputShown` counts it as output.
A mouse that the firmware left reporting could put a byte between `ps2_init`'s flush and its read, and after 0xA8 one for which
no interrupt is routed.  The address mask of the walk (`vm.c:66`) has `maxphyaddr` bits from bit 12 on; this is the address field where
`maxphyaddr` is 40.  Pages of 2 MB and 1 GB are not recognised (`vm.c:58` says so).  `pci_devices` has 32 entries and no check
(`pci.c:196`), functions above 0 are recorded with function 0's header type, `mcfg->start` other than 0 would give wrong pages for the buses below it, and a BAR
of 4 GB or more has length 0 (`nvme.c:76`).  The exits of the C handlers fit an optimised build only: `isr_save` has to be
inlined, and what the prologue puts on the stack has to be the 8 bytes that `isr_restore` skips (`cpu.h:304`).

## The proofs

*KeyboardPathProofs*, for every key set, queue length, bounds and initial lock byte.  The inductive
invariant `IInv` adds to the properties what they lean on: `Context` (with IF
set no handler is running, a handler interrupts the loop only where IF was set, and IF is off from
`cli` to `sti`), `ReadReady` (between the poll and the decrement `num_items` is positive),
`OneKeyRequest` (the keyboard's pending request and the handler's port read exclude each other) and
`HandHoldsKey` (the handler's `key` is a key while it holds one).  `Invariance` goes
action by action.  Consequences: `TypeCorrect`, `DoubleLockFree`, `ReadNeverFatal`, `RingCorrect`,
`KeyNeverStranded`, `KeysAccounted`.  `FifoRefinement` shows that `WStore` is the FIFO's Put,
`WFull` its Lose, `RTake` its Get, and all other steps stutter.

`EventsInOrder` (`KeysInOrder`) rests on `OrderInv`: the scan code in the loop's hand is the last one taken
out of the queue, and the mapped codes taken out are the terminal's events and, before the dispatch, that one.

*PageAllocatorProofs*, for every map, bound and word width, assuming requests of at least one page
(`PositiveRequests`; see the observation on `kalloc(0)`).  `IInv` adds `Wanted` (the request is positive while
it is searched), `RunInv` (while `allocating`, the `allocated_pages` pages up to the cursor are
free, and a stale length is always below the request), `PassInv` (what the pass so far has ruled
out: after the wrap, no run of the wanted length starts in the part already seen) and `MapInv` (bitmap, entry map
and blocks agree).  Consequences: `TypeCorrect`, `BitmapCorrect`, `EntryMapCorrect`,
`BlocksCorrect`, `SearchComplete`, and `PoolRefinement`.

*SlobProofs*, for every sorted memory map, page size and set of request sizes.  Ownership is stated address
by address (`Owned`: once if usable, never otherwise), which makes the argument about regions that are cut,
used up and prepended a case distinction.  `SlobInv` adds to `HeaderIntact` the types, `MapFresh` (until the
first `malloc` the map alone says what is free, which is why the second `slob_init` may rebuild the list) and
`ListOwned` (from then on the list does).  Consequences: `SlobInvariant`, `HeapPartition` (`Partition`), `HeadersSurvive`
(`HeaderIntact`).

*PmmInitProofs*, for every memory map that is sorted and has a usable entry, and every scale.  `StartInv`: the
map differs from the boot loader's only by what was cut off low ends (`MapInv`), tables lie in such pieces,
apart from each other (`TablesInv`), `num_pages_in_map` is the span of the usable entries (`StatsInv`), and
there is a bitmap when it is used (`BitmapInv`: an entry map that was found shows that the smaller bitmap was).
`StartInvariant` and `TablesApart` (`TablesDisjoint`) follow for all of these maps.  `BitmapRight` and `CountsRight` have the
hypothesis `Covered`: no map's span falls just past a multiple of what a page of bitmap describes, where the
truncation at `mem.c:280` loses the last bits.  The run's maps are the covered ones of its family.
`CountsRight` needs the sum over the usable entries to be the number of their pages, an induction on sets of entries; from
`kmem_init` on it follows the two counts apart, `CountsInv` the one that goes with the map and `ReportInv` the one that goes with the bitmap.

*TimersProofs*, for every tick period, rate, width of the count, delay and set of sleeps that `RateAssumption` and `WidthAssumption`
admit (a limit of at least one tick, and accesses quicker than the second the calibration measures; nothing bounds the bus's rate).
`TimerInv`: which access of which function is
next (`PosInv`), types, the interrupt flag (`FlagInv`), how long the sleep under way can have taken
after each of its accesses (`SleepInv`, by `TickWait` and `CounterWait`, in the code's ticks), and the local APIC's count (`LapicInv`: it
follows the calibrating sleep until it runs out and, if the product has fitted, fires every K ticks afterwards, each firing but a pending one counted).
`DivisionLoss` turns the code's ticks into time: `Limit(n)` ticks are shorter than n milliseconds by less than n ticks; `SecondIsLong`
does so for ten calibrations.
Consequences: `TimerInvariant`, `SleepsExact` (`SleepExact`), `SecondsCounted` (`SecondsExact`).

*InterruptRoutingProofs*, for every machine that meets the two assumptions: any number of tables,
structures and inputs, any length of the two lists.  `RoutingInv` has six parts.  `AcpiInv`: the offset is
that of one of the table's structures, or of what is behind it, and the lists hold what lies
before that place, in order (`Collected`); that offsets determine places is an induction over the table
(`OffsetIs`, `OffsetsGrow`).  `JobInv`: the redirection under way addresses the input of its line, and the keyboard's goes
to the boot processor.  `EntryInv`: which inputs are unmasked at each position of the code, and what they
hold.  `DialogueInv`: the 8042's buffers after each access of `ps2_init` (`After`, `Switched`).  `KeyboardToBsp` itself,
and `FaultInv`, the reason for a fault in terms of the code's lists.  The entries of timer and keyboard may
coincide when an override was dropped, so `EntryInv` says what the timer's entry holds only where they differ.
Consequences: `RoutingInvariant`, `ListsRight`, `KeyboardInterruptsToBsp`, `RoutingRight`, `DialogueRight`, `FaultsExplained`
(without a further hypothesis: a line on an I/O APIC's last input is one of the causes `FaultExplained` names).

*TerminalProofs*, for every screen and glyph size, every set of keys, commands and messages, and texts of any length, under the
two assumptions.  Besides the types, `Inv` says `ShowsText(term, Lines(log))`: the rows above the
output position are the log's lines and the position is the line below them; while the loop runs
`InputShown`, the prompt and `input_str` on that line; and that before it nothing was typed.  `OutputShown`
alone is not inductive: `tprintf` draws in the middle of a line and over the prompt, so within a text the invariant is that the
terminal shows the reference's finished lines *and* its open one (`Ready`, `ShowsText`).  `tprintf` and the reference are both folds.
`FoldExists` and `FoldRuns` turn `FoldLeft` into a run, a sequence of the intermediate values from which the
result can be read, by recursion over the greatest position; `RunUnique` makes the run the fold.  `PutCharIs` is the step: one
`PutChar` of the terminal is one `AddChar` of the text, for a character in the line, the one that fills it, a newline, and
each of the latter at the bottom of the screen, where `NewestShown` follows the rows that `_shift_screen_up` moves.
`TprintfIs` is the induction along the text, and `LinesConcat` joins the texts of Enter (prompt, command, newline, the command's
output).  Consequences: `TerminalInvariant`, `InputLine` (`InputLineShown`), `OutputLines` (`OutputShown`).

The same lemmas on folds prove the block operations, of which `mem.c` says "Implement them as the C specification
mandates": `MoveRight` (`memmove` for every overlap, as scrolling needs it, and `memcpy` for blocks apart), `FillRight`
(`memset`) and `CompareRight` (`memcmp`).  The blocks lie in the memory that is a parameter (`Within`), of any extent.
`MemoryExact` checks the same `Moved`, `Filled` and `Compared` on 5 bytes.

*Induction* holds what these need of the natural numbers: least elements, induction for sets, and that a first
value and a step define a function.  The library states induction and recursion for operators, which
the provers cannot instantiate.

Only model-checked: everything about fairness (`InterruptServed`, `KeysReachTerminal`,
`WriteReturns`, `KallocReturns`, `BootEnds`, `SleepReturns`), which is out of the prover's reach; the invariants of
Algorithms, a module that uses `Bitwise`, which the prover cannot follow (`MemoryExact`, on the four block
operations, is what the theorems above say of them for every length; formatting, the page walk, the PCI scan and the interrupt
entry stay with TLC); and Bump, whose property the code violates.

## Not modelled, and the plan

Left out for good: PIT and serial port (fixed port writes, a busy wait on output), the texts that
`_handle_fault`, `_get_device_str`, `vm_init` and the dump functions print, the CPU details of the
boot report, `lapic_raiseint` (no caller), waking other cores (commented out), `limine.h` (vendored
declarations).

What is left:
1. Proofs of what Algorithms checks: first the conversions of Format and the page walk, in modules that do
   not use `Bitwise`, with the lemmas on folds that TerminalProofs has.
2. **Ownership**: PmmInit, PageAllocator and Slob composed over one memory map.  As the code stands
   exclusive ownership does not hold (see the observations); the composition is worth stating once
   `kalloc` has a caller.
3. The 256-byte limit of `input_str` (`terminal.c:417`), which needs a model of what lies behind it.
