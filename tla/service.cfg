SPECIFICATION Spec
CONSTANTS
    p1 = p1
    c1 = c1
    c2 = c2
    x1 = x1
    Requests <- MCRequests
    KindOf <- MCKindOf
    Jobs <- MCJobs
    Urgent <- MCUrgent
    NoJob = NoJob
    Calls <- MCCalls
    HandshakeSlots = 1
    OrdinarySlots = 1
    ControlSlots = 1
    OrdinaryLimit = 2
    ControlLimit = 1
INVARIANTS
    OneInboxOwner
    SlotsAreReturned
PROPERTIES
    ImplementsExecutor
    OthersEndpointSurvives
    StopEnds
