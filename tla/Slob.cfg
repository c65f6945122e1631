SPECIFICATION Spec
CONSTANTS
    Maps <- AllMaps
    PAGE_UNITS = 4
    Sizes <- SmallSizes
INVARIANTS
    Partition
    HeaderIntact
