\* Three services and two stop commands, any of which may be killed.
SPECIFICATION Spec
CONSTANTS
    Server = {g1, g2, g3}
    Stopper = {s1, s2}
    None = None
INVARIANTS
    ListenerKeepsEndpoint
    StoppedMeansDrained
    LeftoverIsReclaimable
PROPERTIES
    StopReturns
