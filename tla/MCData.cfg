SPECIFICATION MCSpec
CONSTANTS
    Byte = {a, b}
    Junk = Junk
    Base = 2
    MaxOp = 5
    MaxTotal = 6
    P = 2
    Width = 6
    Values <- MCValues
    Chars = {0, 5}
    MaxLen = 2
    MaxItems = 2
    Files <- MCFiles
    Names <- MCNames
    MaxVars = 2
    MaxLoads = 3
CHECK_DEADLOCK FALSE
INVARIANTS
    CountersExact
    MemoryBounded
    RoundTrip
    Framed
    LastFileWins
    CallsChained
PROPERTIES
    ImplementsQueue
