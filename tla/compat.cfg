\* An older bridge: no watermark and no pointers.
SPECIFICATION Spec
CONSTANTS
    b1 = b1
    NoBinding = NoBinding
    Binding <- NoBindings
    MaxPeer = 2
    MaxBindings = 0
    MaxSeq = 3
    MaxInstance = 0
    AckCapable = FALSE
    PointerCapable = FALSE
    ScanLimit = 2
    MaxWork = 3
    MaxMembers = 2
    MaxAttempts = 2
    CounterMax = 3
    MaxFaults = 1
    MaxRetries = 0
CHECK_DEADLOCK FALSE
INVARIANTS
    CallBudget
    ReservesOnlyCurrent
PROPERTIES
    DeliveriesAreCounted
    BoundariesHold
