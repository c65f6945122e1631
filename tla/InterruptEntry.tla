---------------------------- MODULE InterruptEntry ----------------------------
(***************************************************************************)
(* gdt.c, idt.c and the handlers' entries and exits (cpu.h, isr_ps2.S,     *)
(* isr_faults.S): from an interrupt's vector to its handler and back.  A   *)
(* piece of assembly is the sequence of its instructions.                  *)
(***************************************************************************)
EXTENDS Integers, Sequences, SequencesExt, Bitwise

CONSTANT Half           \* bits of base_low: 16 in the code, as are the other widths

Field(x, from, bits) == (x \div 2 ^ from) % 2 ^ bits

-----------------------------------------------------------------------------
(* The descriptor tables.                                                  *)

set_gdt_entry(base, limit, access, gran) ==
    [base_low |-> Field(base, 0, Half), base_middle |-> Field(base, Half, Half \div 2),
     base_high |-> Field(base, Half + Half \div 2, Half \div 2),
     limit_low |-> Field(limit, 0, Half),
     granularity |-> Field(limit, Half, 4) | (gran & 240), access |-> access]

(* Present, ring 0, code or data; readable or writable; long mode.         *)
init_gdt ==
    LET all == 2 ^ (2 * Half) - 1
    IN  [limit |-> 8 * 3 - 1,
         gdt |-> <<set_gdt_entry(0, 0, 0, 0),
                   set_gdt_entry(0, all, 128 | 16 | 8 | 2, 32),
                   set_gdt_entry(0, all, 128 | 16 | 2, 0)>>]

(* The segment registers afterwards.                                       *)
_gdt_reload == [r \in {"cs", "ds", "es", "fs", "gs", "ss"} |-> IF r = "cs" THEN 8 ELSE 16]

_idt_set_gate(idt, vector, handler, flags) ==
    [idt EXCEPT ![vector] =
        [base_low |-> Field(handler, 0, Half), base_mid |-> Field(handler, Half, Half),
         base_high |-> Field(handler, 2 * Half, 2 * Half), selector |-> 8, flags |-> flags]]

(* `handlers` are the addresses of the routines, by vector.                *)
Gates == [i \in 1 .. 32 |-> i - 1] \o <<32, 33, 35>>
Zero == [base_low |-> 0, base_mid |-> 0, base_high |-> 0, selector |-> 0, flags |-> 0]
idt_init(handlers) ==
    [limit |-> 16 * 256 - 1,
     idt |-> FoldLeft(LAMBDA idt, v : _idt_set_gate(idt, v, handlers[v], 142),
                      [v \in 0 .. 255 |-> Zero], Gates)]

-----------------------------------------------------------------------------
(* Instructions, and their effect on registers and stack (top last).       *)

Push(r) == [op |-> "push", reg |-> r]
Pop(r) == [op |-> "pop", reg |-> r]
Mov(from, to) == [op |-> "mov", from |-> from, reg |-> to]
Load(n, r) == [op |-> "load", n |-> n, reg |-> r]
Plain(op) == [op |-> op]

General == <<"r15", "r14", "r13", "r12", "r11", "r10", "r9", "r8",
             "rbp", "rdi", "rsi", "rdx", "rcx", "rbx", "rax">>

isr_save ==
    [k \in DOMAIN General |-> Push(General[k])]
        \o <<Mov("es", "rax"), Push("rax"), Mov("ds", "rax"), Push("rax")>>

(* Mutant of RestoreRegisters: the segments in the order they were saved. *)
RestoreSwapped ==
    <<Pop("rax"), Mov("rax", "es"), Pop("rax"), Mov("rax", "ds")>>
        \o Reverse([k \in DOMAIN General |-> Pop(General[k])])

RestoreRegisters ==
    <<Pop("rax"), Mov("rax", "ds"), Pop("rax"), Mov("rax", "es")>>
        \o Reverse([k \in DOMAIN General |-> Pop(General[k])])

(* The stack pointer moves over what the compiler's prologue had put there. *)
isr_restore == RestoreRegisters \o <<Plain("add8"), Plain("iretq")>>

ISR_Handler_PS2 == isr_save \o <<Plain("cld"), Plain("call")>> \o RestoreRegisters \o <<Plain("iretq")>>

(* _handle_timer and _handle_lapic_timer are C functions: at -O2 the        *)
(* prologue of a function that calls others is an adjustment by 8.          *)
CHandler(calls) ==
    <<Plain("sub8")>> \o isr_save \o [k \in 1 .. calls |-> Plain("call")] \o isr_restore

interrupt_thunk(num) == <<Load(num, "rdi"), Plain("cld"), Plain("call"), Plain("hlt")>>

Routine(vector) ==
    CASE vector = 32 -> CHandler(3)
      [] vector = 33 -> ISR_Handler_PS2
      [] vector = 35 -> CHandler(1)
      [] OTHER -> interrupt_thunk(vector)

(* A C function may change the registers its callers do not rely on, and   *)
(* is given rdi.                                                            *)
Scratch == {"rax", "rcx", "rdx", "rsi", "rdi", "r8", "r9", "r10", "r11", "rflags"}
Frame == <<"ss", "rsp", "rflags", "cs", "rip">>

Execute(st, o) ==
    LET Top(k) == st.stack[Len(st.stack) - k]
        Less(k) == SubSeq(st.stack, 1, Len(st.stack) - k)
    IN  IF st.halted THEN st ELSE
        CASE o.op = "push" -> [st EXCEPT !.stack = Append(@, st.regs[o.reg])]
          [] o.op = "pop" -> [st EXCEPT !.regs[o.reg] = Top(0), !.stack = Less(1)]
          [] o.op = "mov" -> [st EXCEPT !.regs[o.reg] = st.regs[o.from]]
          [] o.op = "load" -> [st EXCEPT !.regs[o.reg] = o.n]
          [] o.op = "sub8" -> [st EXCEPT !.stack = Append(@, "other")]
          [] o.op = "add8" -> [st EXCEPT !.stack = Less(1)]
          [] o.op = "cld" -> [st EXCEPT !.regs["rflags"] = "other"]
          [] o.op = "call" -> [st EXCEPT !.arg = st.regs["rdi"],
                                         !.regs = [r \in DOMAIN @ |->
                                             IF r \in Scratch THEN "other" ELSE @[r]]]
          [] o.op = "hlt" -> [st EXCEPT !.halted = TRUE]
          [] o.op = "iretq" -> [st EXCEPT !.regs = [r \in DOMAIN @ |->
                                                      IF r \in Range(Frame)
                                                        THEN Top(5 - SelectInSeq(Frame, LAMBDA f : f = r)) ELSE @[r]],
                                          !.stack = Less(5)]

(* The processor saves a frame and clears IF; a fault's error code, where  *)
(* there is one, is never looked at.                                       *)
Interrupt(regs, vector) ==
    FoldLeft(Execute,
             [regs |-> [r \in DOMAIN regs |-> IF r \in {"rip", "rsp", "rflags"} THEN "other"
                                              ELSE regs[r]],
              stack |-> [k \in DOMAIN Frame |-> regs[Frame[k]]], arg |-> "other", halted |-> FALSE],
             Routine(vector))
=============================================================================
