SPECIFICATION FairSpec
CONSTANTS
    a = a
    b = b
    NoKey = NoKey
    Keys <- MCKeys
    Mapped <- MCMapped
    QLen = 2
    MaxKeys = 5
    MaxTicks = 2
    FreshLockBytes <- CleanLock
INVARIANTS
    TypeOK
    NoDoubleLock
    NeverFatal
    RingInv
    NoKeyVanishes
    NoStrandedKey
    KeysInOrder
PROPERTIES
    ImplementsFifo
    InterruptServed
    KeysReachTerminal
    WriteReturns
