\* The migration from the legacy cursor, deaths, losses, rebuilds, and other bridges.
SPECIFICATION MigrationSpec
CONSTANTS
    Ignored = {1, 4}
    Afters = {0, 1}
    Batch = 1
    ScanLimit = 2
    MaxSeq = 4
    MaxNonce = 2
    MaxLoss = 2
CHECK_DEADLOCK FALSE
INVARIANTS
    HistoryIsNotForgotten
    NothingSkipped
    NoResendAcrossUpgrade
    DeathIsNotLoss
