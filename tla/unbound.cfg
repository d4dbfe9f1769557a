\* A binding removed between the reservation and the notice.
SPECIFICATION FairSpec
CONSTANTS
    b1 = b1
    NoBinding = NoBinding
    Binding <- OneBinding
    MaxPeer = 1
    MaxBindings = 1
    MaxSeq = 2
    MaxInstance = 1
    AckCapable = TRUE
    PointerCapable = TRUE
    ScanLimit = 2
    MaxWork = 2
    MaxMembers = 2
    MaxAttempts = 1
    CounterMax = 0
    MaxFaults = 0
    MaxRetries = 0
CHECK_DEADLOCK FALSE
PROPERTY UnboundPointerCloses
