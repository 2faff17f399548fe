SPECIFICATION FairSpec
CONSTANTS
    Sizes = {1, 2}
    Marks <- TwoMarks
    MaxChunks = 3
    MaxSwitches = 2
INVARIANTS
    ReadInOrder
    BufferIsOutstanding
    PausedForAReason
PROPERTIES
    PausedIsReleased
CHECK_DEADLOCK FALSE
