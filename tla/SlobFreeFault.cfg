SPECIFICATION Spec
CONSTANTS
    Maps <- OneMap
    PAGE_UNITS = 4
    Sizes <- SmallSizes
INVARIANT FreeMakesAvailable
