----------------------------- MODULE MCService -----------------------------
(* One peer connection, two commands (one of them a refresh) and a control *)
(* connection.                                                             *)
EXTENDS BridgeService

CONSTANTS p1, c1, c2, x1

MCRequests == {p1, c1, c2, x1}
MCKindOf == [r \in MCRequests |->
    CASE r = p1 -> "peer" [] r \in {c1, c2} -> "command" [] r = x1 -> "control"]
MCCalls == [r \in MCRequests |-> IF r = c1 THEN 2 ELSE 1]
MCJobs == UNION {JobsOf(r) : r \in MCRequests}
MCUrgent == {<<x1, 1>>}
=============================================================================
