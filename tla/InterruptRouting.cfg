SPECIFICATION Spec
CONSTANTS
    IOAPIC_LIST_LEN = 2
    ISO_LIST_LEN = 2
    MaxGsi = 7
    Firmware <- MCFirmware
INVARIANTS
    ListsExact
    RoutedAsWired
    KeyboardToBsp
    DialogueSound
    FaultExplained
PROPERTIES
    BootEnds
CHECK_DEADLOCK FALSE
