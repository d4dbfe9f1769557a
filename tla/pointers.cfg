\* Pointers of one binding beside peer messages: unbind, rebind and refresh race the loop.
SPECIFICATION Spec
CONSTANTS
    b1 = b1
    NoBinding = NoBinding
    Binding <- OneBinding
    MaxPeer = 1
    MaxBindings = 1
    MaxSeq = 3
    MaxInstance = 2
    AckCapable = TRUE
    PointerCapable = TRUE
    ScanLimit = 1
    MaxWork = 2
    MaxMembers = 2
    MaxAttempts = 1
    CounterMax = 0
    MaxFaults = 1
    MaxRetries = 0
CHECK_DEADLOCK FALSE
INVARIANTS
    NoResendAfterDelivered
    NoLostMessage
    NeverBlocked
    FullOfOpenWork
