SPECIFICATION HostsSpec
CONSTANTS
    c1 = c1  c2 = c2  i1 = i1  i2 = i2  i3 = i3  b1 = b1  b2 = b2
    None = None  Left = Left  Shared = Shared
    Caller <- MCCaller
    EventId <- MoreEventIds
    Body <- MCBody
    Malformed = Malformed
    WriteModes <- ReliableWrites
    SharedReload = FALSE
    MaxLines = 3
INVARIANTS AckedDurable AlwaysReadable MemoryFaithful 
PROPERTIES KeepsEventLog AppendsSettleAnywhere
CHECK_DEADLOCK FALSE
