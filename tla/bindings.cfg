\* A bound memory service, the bridge's two-phase refresh, and the notifier's watch.
SPECIFICATION WatchSpec
CONSTANTS
    h1 = h1
    h2 = h2
    NoBinding = NoBinding
    Binding = {b1}
    Handler <- TwoHandlers
    MaxPeer = 0
    MaxBindings = 1
    MaxSeq = 2
    MaxInstance = 2
    MaxHead = 1
    MaxStore = 2
    MaxStarts = 2
SYMMETRY HandlerSymmetry
CHECK_DEADLOCK FALSE
INVARIANTS
    AnomaliesAreReal
    NoLostWakeup
PROPERTIES
    ImplementsInbox
