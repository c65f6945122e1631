SPECIFICATION Spec
CONSTANTS
    PAGE_SIZE = 4
    BYTE_BITS = 2
    PAGE_ENTRY = 1
    SLOB_ENTRY = 1
    Maps <- CoveredMaps
INVARIANTS
    BitmapMatchesMap
    CountsAgree
    TablesDisjoint

