SPECIFICATION FairSpec
CONSTANTS
    a = a
    b = b
    NoKey = NoKey
    Keys <- MCKeys
    Mapped <- MCMapped
    QLen = 2
    MaxKeys = 2
    MaxTicks = 1
    FreshLockBytes <- AnyLock
PROPERTIES
    WriteReturns
CHECK_DEADLOCK FALSE
