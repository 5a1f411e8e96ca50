SPECIFICATION OneSpec
CONSTANTS
    c1 = c1  c2 = c2  i1 = i1  i2 = i2  i3 = i3  b1 = b1  b2 = b2
    None = None  Left = Left  Shared = Shared
    Caller <- MCCaller
    EventId <- MCEventId
    Body <- OneBody
    Malformed = Malformed
    WriteModes <- WholeWrites
    SharedReload = TRUE
    MaxLines = 2
INVARIANT MemoryFaithful
CHECK_DEADLOCK FALSE
