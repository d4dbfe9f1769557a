------------------------------ MODULE Executor ------------------------------
(***************************************************************************)
(* What a database worker promises to those who call it, whatever queues   *)
(* it keeps: one thread applies the accepted jobs one at a time, urgent    *)
(* jobs first and otherwise in the order they were accepted; every         *)
(* accepted job is settled; nothing is accepted once the executor was told *)
(* to stop; it closes its database only when nothing accepted is left; a   *)
(* fault that an operation leaves is never forgotten.  Only the            *)
(* death of the thread abandons work, and then says so to every waiter.    *)
(***************************************************************************)
CONSTANTS Jobs,    \* the operations that may be submitted
          Urgent   \* the subset that goes first

VARIABLES ahead,   \* of each waiting job, those accepted earlier and still waiting
          fate,    \* what became of each job
          phase,   \* open, draining, closed
          faulty   \* a fault was observed

xvars == <<ahead, fate, phase, faulty>>

Fates == {"unknown", "accepted", "running", "settled", "abandoned"}

Waiting == {j \in Jobs : fate[j] = "accepted"}
Running == {j \in Jobs : fate[j] = "running"}

(* It is j's turn: no urgent job waits, or it is urgent itself, and none   *)
(* of its own class was accepted earlier.                                  *)
Turn(j) ==
    IF j \in Urgent THEN ahead[j] \cap Urgent = {}
                    ELSE ahead[j] = {} /\ Waiting \cap Urgent = {}

Init ==
    /\ ahead = [j \in Jobs |-> {}]
    /\ fate = [j \in Jobs |-> "unknown"]
    /\ phase = "open"
    /\ faulty = FALSE

Accept(j) ==
    /\ phase = "open"
    /\ fate[j] = "unknown"
    /\ ahead' = [ahead EXCEPT ![j] = Waiting]
    /\ fate' = [fate EXCEPT ![j] = "accepted"]
    /\ UNCHANGED <<phase, faulty>>

Begin(j) ==
    /\ phase # "closed"
    /\ Running = {}
    /\ j \in Waiting /\ Turn(j)
    /\ fate' = [fate EXCEPT ![j] = "running"]
    /\ ahead' = [k \in Jobs |-> ahead[k] \ {j}]
    /\ UNCHANGED <<phase, faulty>>

Settle(j) ==
    /\ fate[j] = "running"
    /\ fate' = [fate EXCEPT ![j] = "settled"]
    /\ faulty' \in {faulty, TRUE}
    /\ UNCHANGED <<ahead, phase>>

Stop ==
    /\ phase = "open"
    /\ phase' = "draining"
    /\ UNCHANGED <<ahead, fate, faulty>>

(* The thread dies of the job it runs: that job and every waiting one are  *)
(* answered, and nothing more is accepted.                                 *)
Die ==
    /\ Running # {}
    /\ fate' = [j \in Jobs |-> IF fate[j] \in {"accepted", "running"} THEN "abandoned"
                               ELSE fate[j]]
    /\ ahead' = [j \in Jobs |-> {}]
    /\ phase' = "draining"
    /\ UNCHANGED faulty

Close ==
    /\ phase = "draining"
    /\ Waiting = {} /\ Running = {}
    /\ phase' = "closed"
    /\ UNCHANGED <<ahead, fate, faulty>>

Step ==
    \/ \E j \in Jobs : Begin(j) \/ Settle(j)
    \/ Die
    \/ Close

Next == (\E j \in Jobs : Accept(j)) \/ Stop \/ Step

(* A job that was begun ends, and the thread goes on while it has work.    *)
Spec == Init /\ [][Next]_xvars /\ WF_xvars(Step)
=============================================================================
