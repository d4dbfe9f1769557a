\* One consumer: snapshots, deltas, acknowledgements, expiry and restarts.
SPECIFICATION SyncSpec
CONSTANTS
    c1 = c1
    c2 = c2
    NoKey = NoKey
    Key <- NoKeys
    Kinds = {"decision"}
    Lifetime = {0, 1}
    MaxEntries = 3
    Reserved = 0
    MaxIdem = 1
    IdemTTL = 2
    Batch = 1
    MaxSeq = 3
    MaxNow = 2
    Consumer <- OneConsumer
    PageLimit = 1
    Tail = 1
    MaxHeld = 1
    MaxConsumers = 2
    MaxRetired = 1
    SnapshotTTL = 0
    AckRetention = 1
    ConsumerTTL = 1
    RetiredTTL = 0
    MaxSnapshot = 3
CHECK_DEADLOCK FALSE
VIEW WithoutIndex
INVARIANTS
    ViewIsComplete
    ViewHasNoZombie
PROPERTIES
    CursorsAdvance
