-------------------------- MODULE MCInterruptRouting --------------------------
(* InterruptRouting on machines with up to four structures in the MADT, in  *)
(* any order: two I/O APICs, overrides for timer, keyboard and another line *)
(* (one more than fit), and a local APIC, which the walk skips.  With up to *)
(* three structures the second I/O APIC may be a small one, whose last      *)
(* input is the keyboard's.  The boot processor's ID is not the reset       *)
(* destination, and the firmware has left the HPET running: both allow more *)
(* than their opposites.                                                    *)
EXTENDS InterruptRouting

Ioapic(base, pins) == [type |-> 1, length |-> 12, gsi_base |-> base, pins |-> pins]
Iso(irq, gsi, flags) == [type |-> 2, length |-> 10, irq_source |-> irq, gsi |-> gsi, flags |-> flags]
Other(length) == [type |-> 70, length |-> length]

Items == {Ioapic(0, 4), Ioapic(4, 4), Iso(0, 2, 5), Iso(1, 5, 15), Iso(9, 6, 13),
          [type |-> 0, length |-> 8]}
SmallItems == {Ioapic(0, 4), Ioapic(4, 2), Iso(0, 2, 5), Iso(1, 5, 15)}

MCLists(items, len) == {s \in UNION {[1 .. n -> items] : n \in 0 .. len} : IsInjective(s)}
ItemLists == MCLists(Items, 4) \union MCLists(SmallItems, 3)

Table(sig) == [sig |-> sig]
Madt(items, tail) == [sig |-> "APIC", items |-> items, tail |-> tail]

TableLists(madt) ==
    {<<Table("HPET"), madt, Table("MCFG")>>, <<Table("FACP"), madt, Table("MCFG")>>,
     <<madt, Table("HPET")>>}

MCFirmware ==
    {[tables |-> t, bsp |-> 1, hpet_on |-> TRUE, mouse |-> TRUE] :
        t \in UNION {TableLists(Madt(s, Other(n))) : s \in ItemLists, n \in {0, 65}}}
=============================================================================
