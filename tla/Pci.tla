--------------------------------- MODULE Pci ---------------------------------
(***************************************************************************)
(* pci.c and drivers/nvme.c: the scan of the memory-mapped configuration   *)
(* space, pci_find_device, and nvme_init's sizing of BAR 0.  `ecam` is the *)
(* configuration space: the registers of a function, by its page.          *)
(***************************************************************************)
EXTENDS Integers, Sequences, SequencesExt, Bitwise

CONSTANTS
    Buses, Devices, Functions,  \* 256, 32 and 8 in the code
    BarBits                     \* 32 in the code

AllOnes == 2 ^ BarBits - 1
NoVendor == 65535

(* mmio_base and the direct map's offset are the origin of the pages; the  *)
(* MCFG table's first bus is 0.                                            *)
PageOf(bus, device, function) == bus * 2 ^ 8 | device * 2 ^ 3 | function

(* A register of an absent function reads as all ones.                     *)
_pci_mm_read(ecam, page, reg) ==
    IF page \in DOMAIN ecam THEN ecam[page][reg] ELSE [byte \in 0 .. 3 |-> 255]

_pci_mm_read_vendor_id(ecam, page) ==
    LET r == _pci_mm_read(ecam, page, "reg0") IN r[1] * 256 + r[0]
_pci_mm_read_header_type(ecam, page) == _pci_mm_read(ecam, page, "reg3")[2]
_pci_mm_read_class_code(ecam, page) == _pci_mm_read(ecam, page, "reg2")[3]
_pci_mm_read_subclass_code(ecam, page) == _pci_mm_read(ecam, page, "reg2")[2]
_pci_mm_read_prog_if(ecam, page) == _pci_mm_read(ecam, page, "reg2")[1]

_check_function(ecam, list, bus, device, function, header_type) ==
    LET page == PageOf(bus, device, function)
    IN  Append(list, [class_code |-> _pci_mm_read_class_code(ecam, page),
                      sub_class_code |-> _pci_mm_read_subclass_code(ecam, page),
                      prog_if |-> _pci_mm_read_prog_if(ecam, page),
                      bus |-> bus, device |-> device, function |-> function,
                      header_type |-> header_type, address |-> page])

(* Mutant of _check_device: the first absent function ends the search. *)
CheckDeviceStops(ecam, list, bus, device) ==
    LET Vendor(f) == _pci_mm_read_vendor_id(ecam, PageOf(bus, device, f))
        headerType == _pci_mm_read_header_type(ecam, PageOf(bus, device, 0))
        Check(l, f) == IF \A g \in 0 .. f : Vendor(g) # NoVendor
                         THEN _check_function(ecam, l, bus, device, f, headerType) ELSE l
        first == _check_function(ecam, list, bus, device, 0, headerType)
    IN  IF Vendor(0) = NoVendor THEN list
        ELSE IF headerType & 128 = 0 THEN first
        ELSE FoldLeft(Check, first, [f \in 1 .. Functions - 1 |-> f])

_check_device(ecam, list, bus, device) ==
    LET Vendor(f) == _pci_mm_read_vendor_id(ecam, PageOf(bus, device, f))
        headerType == _pci_mm_read_header_type(ecam, PageOf(bus, device, 0))
        Check(l, f) == IF Vendor(f) # NoVendor
                         THEN _check_function(ecam, l, bus, device, f, headerType) ELSE l
        first == _check_function(ecam, list, bus, device, 0, headerType)
    IN  IF Vendor(0) = NoVendor THEN list
        ELSE IF headerType & 128 = 0 THEN first
        ELSE FoldLeft(Check, first, [f \in 1 .. Functions - 1 |-> f])

(* pci_devices after pci_init.                                             *)
_scan_all_buses(ecam) ==
    FoldLeft(LAMBDA list, k : _check_device(ecam, list, k \div Devices, k % Devices),
             << >>, [k \in 1 .. Buses * Devices |-> k - 1])

(* An index in pci_devices; 0 stands for NULL.                             *)
pci_find_device(list, class, subclass) ==
    SelectInSeq(list, LAMBDA dev : dev.class_code = class /\ dev.sub_class_code = subclass)

-----------------------------------------------------------------------------
(* A BAR is [value, size]: writes change the bits above the size only, the *)
(* four lowest ones say what it is.                                        *)

pci_device_read(bars, dev, reg) == bars[dev.address][reg].value

BarWrite(bar, val) ==
    [bar EXCEPT !.value = (@ % 16) | (val - (val % bar.size))]
pci_device_write(bars, dev, reg, val) ==
    [bars EXCEPT ![dev.address][reg] = BarWrite(@, val)]

Inverted(x) == AllOnes - x

nvme_init(bars, dev) ==
    LET bar0     == pci_device_read(bars, dev, "bar0")
        probing  == pci_device_write(bars, dev, "bar0", AllOnes)
        size_low == pci_device_read(probing, dev, "bar0")
        restored == pci_device_write(probing, dev, "bar0", bar0)
    IN  [bars |-> restored, fatal |-> bar0 % 2 = 1, wide |-> bar0 & 7 = 4,
         base_low |-> bar0 & Inverted(15), base_high |-> pci_device_read(restored, dev, "bar1"),
         length |-> (Inverted(size_low & Inverted(15)) + 1) % 2 ^ BarBits]
=============================================================================
