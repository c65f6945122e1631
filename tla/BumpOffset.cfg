SPECIFICATION Spec
CONSTANTS
    PAGE_SIZE = 4
    NumPages = 8
    MaxCalls = 3
    Sizes <- LittleLeft
INVARIANT InsideGrant
CHECK_DEADLOCK FALSE
