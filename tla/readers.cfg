\* Two consumers and notes of which a snapshot carries only the newest.
SPECIFICATION SyncSpec
CONSTANTS
    c1 = c1
    c2 = c2
    NoKey = NoKey
    Key <- NoKeys
    Kinds = {"decision", "finding"}
    Lifetime = {0}
    MaxEntries = 3
    Reserved = 0
    MaxIdem = 1
    IdemTTL = 2
    Batch = 1
    MaxSeq = 2
    MaxNow = 1
    Consumer <- TwoConsumers
    PageLimit = 1
    Tail = 1
    MaxHeld = 1
    MaxConsumers = 2
    MaxRetired = 1
    SnapshotTTL = 0
    AckRetention = 1
    ConsumerTTL = 0
    RetiredTTL = 0
    MaxSnapshot = 2
CHECK_DEADLOCK FALSE
VIEW WithoutIndex
SYMMETRY ConsumerSymmetry
INVARIANTS
    ViewIsComplete
