\* Peer messages only: crashes, failed jobs, lost outcomes and an operator retry.
SPECIFICATION FairSpec
CONSTANTS
    b1 = b1
    NoBinding = NoBinding
    Binding <- NoBindings
    MaxPeer = 2
    MaxBindings = 0
    MaxSeq = 2
    MaxInstance = 0
    AckCapable = TRUE
    PointerCapable = TRUE
    ScanLimit = 1
    MaxWork = 3
    MaxMembers = 2
    MaxAttempts = 2
    CounterMax = 0
    MaxFaults = 2
    MaxRetries = 1
CHECK_DEADLOCK FALSE
INVARIANTS
    JournalValid
    FailedMeansNeverAccepted
    NoLostMessage
    HeadOfLine
PROPERTIES
    AckExplainsPeers
    EveryMessageCloses
