SPECIFICATION Spec
CONSTANTS
    HexDigits = 2
    StrlenLimit = 100
    Bytes = 16
    OffsetBits = 1
    IndexBits = 1
    Buses = 2
    Devices = 2
    Functions = 3
    BarBits = 8
    Ints <- MCInts
    Unsigneds <- MCUnsigneds
    Items <- MCItems
    MaxItems = 3
    Sizes = {1, 2, 3, 4, 5, 6, 7, 8}
    Words <- MCWords
    MemorySize = 5
    Tables = {0, 1}
    TopBit = 3
    Machines <- MCMachines
    Bars <- MCBars
    Half = 4
    HandlersAt = {0, 4660, 40000, 65535}
INVARIANTS
    ConversionsExact
    TextRight
    MemoryExact
    WalkIsHardware
    PciExact
    InterruptTransparent
