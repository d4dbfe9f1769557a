\* The store of notes: retries, expiry, the search index and restarts.
SPECIFICATION NotesSpec
CONSTANTS
    k1 = k1
    NoKey = NoKey
    Key <- OneKey
    Kinds = {"decision"}
    Lifetime = {0, 1}
    MaxEntries = 3
    Reserved = 1
    MaxIdem = 1
    IdemTTL = 2
    Batch = 1
    MaxSeq = 3
    MaxNow = 3
CHECK_DEADLOCK FALSE
INVARIANTS
    OneNotePerRequest
    NothingMissingAboveFloor
    IndexIsExact
