SPECIFICATION Spec
CONSTANTS
    FemtosPerSec = 17
    TickPeriod = 3
    MsPerSec = 2
    Tenth = 2
    Sleeps <- MCSleeps
    LapicRate = 2
    CountBits = 5
    MaxDelay = 1
    BspIsZero = TRUE
    Firmware <- MCFirmware
    Irq0Input = 2
    CounterCap = 7
    SecsCap = 2
INVARIANTS
    SleepExact
    
PROPERTIES
    SleepReturns
