SPECIFICATION FairSpec
CONSTANTS
    NumPages = 7
    MaxPages = 6
    PAGE_SIZE = 4
    SIZE_WORD = 32
    COUNT_WORD = 16
    BootFree <- SmallFree
    PageRequests <- KpallocSizes
    Requests <- OneToThreePages
INVARIANTS
    TypeOK
    BitmapExact
    EntryMapExact
    BlocksSound
    NullOnlyIfNoRun
PROPERTIES
    ImplementsPool
    KallocReturns
