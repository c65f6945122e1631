------------------------------- MODULE PageWalk -------------------------------
(***************************************************************************)
(* vm.c: walk_page_table on words of memory.  Widths are parameters; in    *)
(* the code a page has 12 offset bits and a table index 9 bits.            *)
(***************************************************************************)
EXTENDS Integers, Bitwise

CONSTANTS OffsetBits, IndexBits

PAGE_PRESENT == 1

Index(va, level) == (va \div 2 ^ (OffsetBits + level * IndexBits)) % 2 ^ IndexBits
PML4_INDEX(va) == Index(va, 3)
PDPT_INDEX(va) == Index(va, 2)

(* Mutant of PD_INDEX: the shift of the level above. *)
PdIndexCopied(va) == PDPT_INDEX(va)

PD_INDEX(va) == Index(va, 1)
PT_INDEX(va) == Index(va, 0)
PAGE_OFFSET(va) == va % 2 ^ OffsetBits

(* maxphyaddr bits, counted from bit 12.                                   *)
addrmask(maxphyaddr) == (2 ^ maxphyaddr - 1) * 2 ^ OffsetBits

(* `memory` is the direct map: a table's address, then the entry's number. *)
walk_page_table(memory, cr3, maxphyaddr, va) ==
    LET mask  == addrmask(maxphyaddr)
        pml4e == memory[cr3 & mask][PML4_INDEX(va)]
        pdpte == memory[pml4e & mask][PDPT_INDEX(va)]
        pde   == memory[pdpte & mask][PD_INDEX(va)]
        pte   == memory[pde & mask][PT_INDEX(va)]
        Absent(e) == e & PAGE_PRESENT = 0
    IN  IF Absent(pml4e) THEN 0
        ELSE IF Absent(pdpte) THEN 0
        ELSE IF Absent(pde) THEN 0
        ELSE IF Absent(pte) THEN 0
        ELSE (pte & mask) | PAGE_OFFSET(va)

(* vm_init splits what cpu_get_address_widths returns.                     *)
vm_init(widths) == [maxphyaddr |-> widths & 255, maxlinaddr |-> (widths \div 256) & 255]
=============================================================================
