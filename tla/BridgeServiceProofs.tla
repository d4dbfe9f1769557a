------------------------ MODULE BridgeServiceProofs ------------------------
(***************************************************************************)
(* For any number of connections, jobs and slots: the database worker is   *)
(* an executor, admission counts the slots that are held, and one bridge   *)
(* at a time has the inbox open.                                           *)
(***************************************************************************)
EXTENDS BridgeService, FiniteSetTheorems, TLAPS

-----------------------------------------------------------------------------
(* The worker.                                                             *)

(* The thread has popped a job exactly while it is busy; that job and the  *)
(* queued ones are those whose callers wait.                               *)
PendingIsQueued ==
    /\ running # NoJob <=> thread = "busy"
    /\ running \notin Queued
    /\ \A j \in Jobs : result[j] = "pending" <=> j = running \/ j \in Queued

(* No job is queued twice.                                                 *)
QueuedOnce ==
    /\ \A i, k \in DOMAIN control : control[i] = control[k] => i = k
    /\ \A i, k \in DOMAIN ordinary : ordinary[i] = ordinary[k] => i = k

(* Of the jobs accepted before a queued one, those that still wait stand   *)
(* before it in its own queue, or in the urgent one.                       *)
QueuesKeepOrder ==
    /\ \A i \in DOMAIN control : \A j \in ahead[control[i]] \cap Urgent :
           \E k \in DOMAIN control : k < i /\ control[k] = j
    /\ \A i \in DOMAIN ordinary : \A j \in ahead[ordinary[i]] :
           \/ j \in Range(control)
           \/ \E k \in DOMAIN ordinary : k < i /\ ordinary[k] = j

(* A thread that ends has nothing queued and takes nothing more.           *)
EndsEmpty ==
    thread \in {"ending", "done"} => closing /\ control = <<>> /\ ordinary = <<>>

WorkerInv ==
    /\ WorkerTypeOK
    /\ PendingIsQueued
    /\ QueuedOnce
    /\ QueuesKeepOrder
    /\ EndsEmpty

-----------------------------------------------------------------------------
(* The bridge.                                                             *)

(* The handlers that hold a slot of one kind.                              *)
Holders(k) == {r \in Requests : slot[r] = k}

(* Only finitely many handlers have ever got a slot.                       *)
SlotsAreFew == \A k \in SlotKinds : IsFiniteSet(Holders(k))

(* A connection whose request was not read has submitted nothing.          *)
UnreadSentNothing == \A r \in Requests : handler[r] \in {"none", "handshake"} => sent[r] = 0

(* The control endpoint is this bridge's from the bind to the close of its *)
(* servers, and the other's exactly while that one serves.                 *)
EndpointFollows ==
    /\ phase \in {"control bound", "bound", "serving", "draining", "closing"} =>
           path["control"] = "mine"
    /\ other = "serving" <=> path["control"] = "other"

(* The worker lives inside the part of run() that has both endpoints, and  *)
(* handlers run only there.                                                *)
WorkerFollows ==
    /\ phase \in {"off", "control bound", "bound"} => thread = "none"
    /\ phase \in {"unlinking control", "unlinking peer", "left"} => thread \in {"none", "done"}
    /\ phase \in {"serving", "draining", "closing"} => thread # "none"
    /\ phase \notin {"serving", "draining", "closing"} => Active = {}
    /\ thread = "none" => \A j \in Jobs : result[j] # "pending"

ServiceInv ==
    /\ ServiceTypeOK
    /\ WorkerInv
    /\ SlotsAreReturned
    /\ SlotsAreFew
    /\ UnreadSentNothing
    /\ EndpointFollows
    /\ WorkerFollows

-----------------------------------------------------------------------------
(* What the queue operations do to a queue's elements and their places.    *)
LEMMA AppendAtEnd ==
    ASSUME NEW S, NEW q \in Seq(S), NEW x \in S
    PROVE  /\ Append(q, x) \in Seq(S)
           /\ Len(Append(q, x)) = Len(q) + 1
           /\ DOMAIN Append(q, x) = 1 .. (Len(q) + 1)
           /\ \A i \in 1 .. Len(q) : Append(q, x)[i] = q[i]
           /\ Append(q, x)[Len(q) + 1] = x
           /\ Range(Append(q, x)) = Range(q) \cup {x}
<1>1. /\ Append(q, x) \in Seq(S)
      /\ Len(Append(q, x)) = Len(q) + 1
      /\ DOMAIN Append(q, x) = 1 .. (Len(q) + 1)
      /\ \A i \in 1 .. Len(q) : Append(q, x)[i] = q[i]
      /\ Append(q, x)[Len(q) + 1] = x
    OBVIOUS
<1>2. DOMAIN q = 1 .. Len(q) /\ Len(q) \in Nat
    OBVIOUS
<1>3. ASSUME NEW y \in Range(Append(q, x)) PROVE y \in Range(q) \cup {x}
  <2>1. PICK i \in 1 .. (Len(q) + 1) : y = Append(q, x)[i]
      BY <1>1, <1>3 DEF Range
  <2>2. i \in 1 .. Len(q) \/ i = Len(q) + 1
      BY <1>2
  <2> QED BY <1>1, <1>2, <2>1, <2>2 DEF Range
<1>4. ASSUME NEW y \in Range(q) \cup {x} PROVE y \in Range(Append(q, x))
  <2>1. CASE y = x
      BY <1>1, <1>2, <2>1 DEF Range
  <2>2. CASE y \in Range(q)
    <3>1. PICK i \in 1 .. Len(q) : y = q[i]
        BY <1>2, <2>2 DEF Range
    <3>2. i \in 1 .. (Len(q) + 1) /\ y = Append(q, x)[i]
        BY <1>1, <1>2, <3>1
    <3> QED BY <1>1, <3>2 DEF Range
  <2> QED BY <1>4, <2>1, <2>2
<1> QED BY <1>1, <1>3, <1>4

(* The first of a queue that holds nothing twice is not among the rest.    *)
LEMMA TailOfQueue ==
    ASSUME NEW S, NEW q \in Seq(S), q # <<>>,
           \A i, k \in DOMAIN q : q[i] = q[k] => i = k
    PROVE  /\ Head(q) \in S /\ Head(q) = q[1]
           /\ Tail(q) \in Seq(S)
           /\ Len(Tail(q)) = Len(q) - 1
           /\ DOMAIN Tail(q) = 1 .. (Len(q) - 1)
           /\ \A i \in 1 .. (Len(q) - 1) : Tail(q)[i] = q[i + 1]
           /\ Range(q) = Range(Tail(q)) \cup {Head(q)}
           /\ Head(q) \notin Range(Tail(q))
<1>1. /\ Head(q) \in S /\ Head(q) = q[1]
      /\ Tail(q) \in Seq(S)
      /\ Len(Tail(q)) = Len(q) - 1
      /\ DOMAIN Tail(q) = 1 .. (Len(q) - 1)
      /\ \A i \in 1 .. (Len(q) - 1) : Tail(q)[i] = q[i + 1]
    OBVIOUS
<1>2. DOMAIN q = 1 .. Len(q) /\ Len(q) \in Nat /\ Len(q) # 0
    OBVIOUS
<1>3. ASSUME NEW y \in Range(q) PROVE y \in Range(Tail(q)) \cup {Head(q)}
  <2>1. PICK i \in 1 .. Len(q) : y = q[i]
      BY <1>2, <1>3 DEF Range
  <2>2. CASE i = 1
      BY <1>1, <2>1, <2>2
  <2>3. CASE i # 1
    <3>1. i - 1 \in 1 .. (Len(q) - 1) /\ (i - 1) + 1 = i
        BY <1>2, <2>1, <2>3
    <3>2. y = Tail(q)[i - 1]
        BY <1>1, <2>1, <3>1
    <3> QED BY <1>1, <3>1, <3>2 DEF Range
  <2> QED BY <2>2, <2>3
<1>4. ASSUME NEW y \in Range(Tail(q)) PROVE y \in Range(q) /\ y # Head(q)
  <2>1. PICK i \in 1 .. (Len(q) - 1) : y = Tail(q)[i]
      BY <1>1, <1>4 DEF Range
  <2>2. i + 1 \in DOMAIN q /\ 1 \in DOMAIN q /\ i + 1 # 1 /\ y = q[i + 1]
      BY <1>1, <1>2, <2>1
  <2> QED BY <1>1, <2>2 DEF Range
<1>5. Head(q) \in Range(q)
    BY <1>1, <1>2 DEF Range
<1> QED BY <1>1, <1>3, <1>4, <1>5

(* Nothing is in an empty queue.                                           *)
LEMMA EmptyQueue == Range(<<>>) = {} /\ DOMAIN <<>> = {} /\ Len(<<>>) = 0
BY DEF Range

(* A job is in the queue of its class.                                     *)
LEMMA ClassOfQueue ==
    ASSUME WorkerTypeOK
    PROVE  Range(control) \subseteq Urgent /\ Range(ordinary) \subseteq Jobs \ Urgent
BY DEF WorkerTypeOK, Range

-----------------------------------------------------------------------------
(* The empty worker.                                                       *)
LEMMA WorkerInitKeeps == WorkerInit => WorkerInv
<1> SUFFICES ASSUME WorkerInit PROVE WorkerInv
    OBVIOUS
<1>1. control = <<>> /\ ordinary = <<>> /\ running = NoJob /\ thread = "none"
    BY DEF WorkerInit
<1>2. WorkerTypeOK
  <2>1. /\ control \in Seq(Urgent) /\ Len(control) <= ControlLimit
        /\ ordinary \in Seq(Jobs \ Urgent) /\ Len(ordinary) <= OrdinaryLimit
      BY <1>1, EmptyQueue, WorkerAssumption
  <2>2. /\ result \in [Jobs -> {"unknown", "pending"} \cup Settled]
        /\ ahead \in [Jobs -> SUBSET Jobs]
      BY DEF WorkerInit, Settled
  <2> QED BY <1>1, <2>1, <2>2 DEF WorkerInit, WorkerTypeOK
<1>3. PendingIsQueued
  <2>1. \A j \in Jobs : result[j] = "unknown"
      BY DEF WorkerInit
  <2>2. Queued = {}
      BY <1>1, EmptyQueue DEF Queued
  <2> QED BY <1>1, <2>1, <2>2, WorkerAssumption DEF PendingIsQueued
<1>4. QueuedOnce /\ QueuesKeepOrder
    BY <1>1, EmptyQueue DEF QueuedOnce, QueuesKeepOrder
<1>5. EndsEmpty
    BY <1>1 DEF EndsEmpty
<1> QED BY <1>2, <1>3, <1>4, <1>5 DEF WorkerInv

(* call(): the new job is behind all that wait, in its own queue.          *)
LEMMA CallKeeps ==
    ASSUME WorkerInv, NEW j \in Jobs, Call(j)
    PROVE  WorkerInv'
<1>1. /\ result[j] = "unknown" /\ result' = [result EXCEPT ![j] = "pending"]
      /\ ahead' = [ahead EXCEPT ![j] = Queued]
      /\ ~closing /\ closing' = closing /\ running' = running /\ fault' = fault
      /\ thread' = Notified
    BY DEF Call, Accepts
<1>2. j \notin Queued /\ j # running
    BY <1>1 DEF WorkerInv, PendingIsQueued
<1>3. Queued' = Queued \cup {j}
  <2>1. CASE j \in Urgent
    <3>1. Range(Append(control, j)) = Range(control) \cup {j}
        BY <2>1, AppendAtEnd DEF WorkerInv, WorkerTypeOK
    <3> QED BY <2>1, <3>1 DEF Call, Queued
  <2>2. CASE j \notin Urgent
    <3>1. Range(Append(ordinary, j)) = Range(ordinary) \cup {j}
        BY <2>2, AppendAtEnd DEF WorkerInv, WorkerTypeOK
    <3> QED BY <2>2, <3>1 DEF Call, Queued
  <2> QED BY <2>1, <2>2
<1>4. Queued \subseteq Jobs
    BY ClassOfQueue, WorkerAssumption DEF WorkerInv, Queued
<1>5. WorkerTypeOK'
  <2>1. /\ result' \in [Jobs -> {"unknown", "pending"} \cup Settled]
        /\ ahead' \in [Jobs -> SUBSET Jobs]
        /\ running' \in Jobs \cup {NoJob} /\ closing' \in BOOLEAN /\ fault' \in BOOLEAN
        /\ thread' \in {"none", "checking", "asleep", "busy", "ending", "done"}
      BY <1>1, <1>4 DEF WorkerInv, WorkerTypeOK, Notified
  <2>2. CASE j \in Urgent
    <3>1. /\ control' = Append(control, j) /\ ordinary' = ordinary
          /\ Len(control) < ControlLimit
        BY <2>2 DEF Call, Accepts, QueueOf, LimitOf
    <3> QED BY <2>1, <2>2, <3>1, WorkerAssumption DEF WorkerInv, WorkerTypeOK
  <2>3. CASE j \notin Urgent
    <3>1. /\ ordinary' = Append(ordinary, j) /\ control' = control
          /\ Len(ordinary) < OrdinaryLimit
        BY <2>3 DEF Call, Accepts, QueueOf, LimitOf
    <3> QED BY <2>1, <2>3, <3>1, WorkerAssumption DEF WorkerInv, WorkerTypeOK
  <2> QED BY <2>2, <2>3
<1>6. PendingIsQueued'
    BY <1>1, <1>2, <1>3 DEF WorkerInv, WorkerTypeOK, PendingIsQueued, Notified
<1>7. CASE j \in Urgent
  <2>1. control' = Append(control, j) /\ ordinary' = ordinary
      BY <1>7 DEF Call
  <2>2. /\ DOMAIN control' = 1 .. (Len(control) + 1)
        /\ \A i \in 1 .. Len(control) : control'[i] = control[i]
        /\ control'[Len(control) + 1] = j
        /\ Range(control') = Range(control) \cup {j}
        /\ DOMAIN control = 1 .. Len(control) /\ Len(control) \in Nat
      BY <1>7, <2>1, AppendAtEnd DEF WorkerInv, WorkerTypeOK
  <2>3. \A i \in 1 .. Len(control) : control[i] # j
      BY <1>2, <2>2 DEF Queued, Range
  <2>4. \A i \in DOMAIN ordinary : ordinary[i] # j /\ ordinary[i] \in Jobs
      BY <1>2, <1>4 DEF Queued, Range
  <2>5. QueuedOnce'
      BY <2>1, <2>2, <2>3 DEF WorkerInv, QueuedOnce
  <2>6. ASSUME NEW i \in DOMAIN control', NEW k \in ahead'[control'[i]] \cap Urgent
        PROVE  \E n \in DOMAIN control' : n < i /\ control'[n] = k
    <3>1. CASE i = Len(control) + 1
      <4>1. k \in Queued /\ k \in Urgent
          BY <1>1, <2>2, <2>6, <3>1 DEF WorkerInv, WorkerTypeOK
      <4>2. k \in Range(control)
          BY <4>1, ClassOfQueue DEF Queued, WorkerInv
      <4>3. PICK n \in 1 .. Len(control) : control[n] = k
          BY <2>2, <4>2 DEF Range
      <4> QED BY <2>2, <3>1, <4>3
    <3>2. CASE i \in 1 .. Len(control)
      <4>1. k \in ahead[control[i]] \cap Urgent
          BY <1>1, <1>4, <2>2, <2>3, <2>6, <3>2 DEF WorkerInv, WorkerTypeOK
      <4>2. PICK n \in DOMAIN control : n < i /\ control[n] = k
          BY <2>2, <3>2, <4>1 DEF WorkerInv, QueuesKeepOrder
      <4> QED BY <2>2, <3>2, <4>2
    <3> QED BY <2>2, <3>1, <3>2
  <2>7. \A i \in DOMAIN ordinary : ahead'[ordinary[i]] = ahead[ordinary[i]]
      BY <1>1, <2>4 DEF WorkerInv, WorkerTypeOK
  <2>8. QueuesKeepOrder'
      BY <2>1, <2>2, <2>6, <2>7 DEF WorkerInv, QueuesKeepOrder
  <2>9. EndsEmpty'
      BY <1>1 DEF WorkerInv, EndsEmpty, Notified
  <2> QED BY <1>5, <1>6, <2>5, <2>8, <2>9 DEF WorkerInv
<1>8. CASE j \notin Urgent
  <2>1. ordinary' = Append(ordinary, j) /\ control' = control
      BY <1>8 DEF Call
  <2>2. /\ DOMAIN ordinary' = 1 .. (Len(ordinary) + 1)
        /\ \A i \in 1 .. Len(ordinary) : ordinary'[i] = ordinary[i]
        /\ ordinary'[Len(ordinary) + 1] = j
        /\ DOMAIN ordinary = 1 .. Len(ordinary) /\ Len(ordinary) \in Nat
      BY <1>8, <2>1, AppendAtEnd DEF WorkerInv, WorkerTypeOK
  <2>3. \A i \in 1 .. Len(ordinary) : ordinary[i] # j /\ ordinary[i] \in Jobs
      BY <1>2, <1>4, <2>2 DEF Queued, Range
  <2>4. \A i \in DOMAIN control : control[i] # j /\ control[i] \in Jobs
      BY <1>2, <1>4 DEF Queued, Range
  <2>5. QueuedOnce'
      BY <2>1, <2>2, <2>3 DEF WorkerInv, QueuedOnce
  <2>6. ASSUME NEW i \in DOMAIN ordinary', NEW k \in ahead'[ordinary'[i]]
        PROVE  k \in Range(control) \/ \E n \in DOMAIN ordinary' : n < i /\ ordinary'[n] = k
    <3>1. CASE i = Len(ordinary) + 1
      <4>1. k \in Queued
          BY <1>1, <2>2, <2>6, <3>1 DEF WorkerInv, WorkerTypeOK
      <4>2. CASE k \in Range(ordinary)
        <5>1. PICK n \in 1 .. Len(ordinary) : ordinary[n] = k
            BY <2>2, <4>2 DEF Range
        <5> QED BY <2>2, <3>1, <5>1
      <4> QED BY <4>1, <4>2 DEF Queued
    <3>2. CASE i \in 1 .. Len(ordinary)
      <4>1. k \in ahead[ordinary[i]]
          BY <1>1, <2>2, <2>3, <2>6, <3>2 DEF WorkerInv, WorkerTypeOK
      <4>2. k \in Range(control) \/ \E n \in DOMAIN ordinary : n < i /\ ordinary[n] = k
          BY <2>2, <3>2, <4>1 DEF WorkerInv, QueuesKeepOrder
      <4> QED BY <2>2, <3>2, <4>2
    <3> QED BY <2>2, <3>1, <3>2
  <2>7. \A i \in DOMAIN control : ahead'[control[i]] = ahead[control[i]]
      BY <1>1, <2>4 DEF WorkerInv, WorkerTypeOK
  <2>8. QueuesKeepOrder'
      BY <2>1, <2>6, <2>7 DEF WorkerInv, QueuesKeepOrder
  <2>9. EndsEmpty'
      BY <1>1 DEF WorkerInv, EndsEmpty, Notified
  <2> QED BY <1>5, <1>6, <2>5, <2>8, <2>9 DEF WorkerInv
<1> QED BY <1>7, <1>8

(* The worker goes on to another place and changes nothing but that and    *)
(* its intake.                                                             *)
LEMMA QuietStepKeeps ==
    ASSUME WorkerInv, UNCHANGED <<control, ordinary, running, result, fault, ahead>>,
           closing' \in BOOLEAN, closing => closing',
           thread' \in {"none", "checking", "asleep", "busy", "ending", "done"},
           thread' = "busy" <=> thread = "busy",
           thread' \in {"ending", "done"} =>
               closing' /\ control = <<>> /\ ordinary = <<>>
    PROVE  WorkerInv'
<1>1. WorkerTypeOK'
    BY DEF WorkerInv, WorkerTypeOK
<1>2. PendingIsQueued'
    BY DEF WorkerInv, PendingIsQueued, Queued
<1>3. QueuedOnce' /\ QueuesKeepOrder'
    BY DEF WorkerInv, QueuedOnce, QueuesKeepOrder
<1>4. EndsEmpty'
    BY DEF EndsEmpty
<1> QED BY <1>1, <1>2, <1>3, <1>4 DEF WorkerInv

(* Starting, closing the intake, falling asleep and ending change no job.  *)
LEMMA ThreadStepsKeep ==
    ASSUME WorkerInv, WorkerStart \/ StopAccepting \/ Sleep \/ EndLoop \/ CloseOwner
    PROVE  WorkerInv'
<1>0. closing \in BOOLEAN /\ thread \in {"none", "checking", "asleep", "busy", "ending", "done"}
    BY DEF WorkerInv, WorkerTypeOK
<1>1. CASE WorkerStart
    BY <1>0, <1>1, QuietStepKeeps DEF WorkerStart
<1>2. CASE StopAccepting
    BY <1>0, <1>2, QuietStepKeeps DEF StopAccepting, Notified, WorkerInv, EndsEmpty
<1>3. CASE Sleep
    BY <1>0, <1>3, QuietStepKeeps DEF Sleep
<1>4. CASE EndLoop
    BY <1>0, <1>4, QuietStepKeeps DEF EndLoop
<1>5. CASE CloseOwner
    BY <1>0, <1>5, QuietStepKeeps DEF CloseOwner, WorkerInv, EndsEmpty
<1> QED BY <1>1, <1>2, <1>3, <1>4, <1>5

(* _run() takes the first urgent job, or else the first ordinary one: what *)
(* it takes was ahead of others and had nothing of its class before it.    *)
LEMMA TakeKeeps ==
    ASSUME WorkerInv, Take
    PROVE  /\ WorkerInv'
           /\ running = NoJob /\ running' \in Queued /\ Queued' = Queued \ {running'}
           /\ IF running' \in Urgent THEN ahead[running'] \cap Urgent = {}
              ELSE ahead[running'] = {} /\ Queued \cap Urgent = {}
<1>1. /\ thread = "checking" /\ thread' = "busy" /\ Pop
      /\ ahead' = [j \in Jobs |-> ahead[j] \ {running'}]
      /\ closing' = closing /\ result' = result /\ fault' = fault
    BY DEF Take
<1>2. running = NoJob
    BY <1>1 DEF WorkerInv, PendingIsQueued
<1>3. Queued \subseteq Jobs
    BY ClassOfQueue, WorkerAssumption DEF WorkerInv, Queued
<1>4. ASSUME control # <<>>, running' = Head(control), control' = Tail(control),
             ordinary' = ordinary
      PROVE  /\ running' \in Urgent /\ running' \in Queued /\ Queued' = Queued \ {running'}
             /\ ahead[running'] \cap Urgent = {}
             /\ WorkerTypeOK' /\ QueuedOnce' /\ QueuesKeepOrder'
  <2>1. /\ Head(control) \in Urgent /\ Head(control) = control[1]
        /\ Tail(control) \in Seq(Urgent)
        /\ Len(Tail(control)) = Len(control) - 1
        /\ DOMAIN Tail(control) = 1 .. (Len(control) - 1)
        /\ \A i \in 1 .. (Len(control) - 1) : Tail(control)[i] = control[i + 1]
        /\ Range(control) = Range(Tail(control)) \cup {Head(control)}
        /\ Head(control) \notin Range(Tail(control))
      BY <1>4, TailOfQueue DEF WorkerInv, WorkerTypeOK, QueuedOnce
  <2>2. DOMAIN control = 1 .. Len(control) /\ Len(control) \in Nat /\ Len(control) # 0
      BY <1>4 DEF WorkerInv, WorkerTypeOK
  <2>3. Head(control) \notin Range(ordinary)
      BY <2>1, ClassOfQueue DEF WorkerInv
  <2>4. running' \in Urgent /\ running' \in Queued /\ Queued' = Queued \ {running'}
      BY <1>4, <2>1, <2>3 DEF Queued
  <2>5. ahead[running'] \cap Urgent = {}
      BY <1>4, <2>1, <2>2 DEF WorkerInv, QueuesKeepOrder
  <2>6. WorkerTypeOK'
    <3>1. ahead' \in [Jobs -> SUBSET Jobs]
        BY <1>1 DEF WorkerInv, WorkerTypeOK
    <3> QED BY <1>1, <1>3, <1>4, <2>1, <2>2, <2>4, <3>1, WorkerAssumption
            DEF WorkerInv, WorkerTypeOK
  <2>7. QueuedOnce'
      BY <1>4, <2>1, <2>2 DEF WorkerInv, QueuedOnce
  <2>8. \A i \in 1 .. (Len(control) - 1) : i + 1 \in 1 .. Len(control)
      BY <2>2
  <2>9. ASSUME NEW i \in DOMAIN control', NEW k \in ahead'[control'[i]] \cap Urgent
        PROVE  \E n \in DOMAIN control' : n < i /\ control'[n] = k
    <3>1. i \in 1 .. (Len(control) - 1) /\ control'[i] = control[i + 1]
        BY <1>4, <2>1, <2>9
    <3>2. control[i + 1] \in Jobs
        BY <1>3, <2>2, <2>8, <3>1 DEF Queued, Range
    <3>3. k \in ahead[control[i + 1]] \cap Urgent /\ k # control[1]
        BY <1>1, <1>4, <2>1, <2>9, <3>1, <3>2
    <3>4. PICK n \in 1 .. Len(control) : n < i + 1 /\ control[n] = k
        BY <2>2, <2>8, <3>1, <3>3 DEF WorkerInv, QueuesKeepOrder
    <3>5. n - 1 \in 1 .. (Len(control) - 1) /\ n - 1 < i /\ (n - 1) + 1 = n
        BY <2>2, <3>1, <3>3, <3>4
    <3> QED BY <1>4, <2>1, <3>4, <3>5
  <2>10. ASSUME NEW i \in DOMAIN ordinary, NEW k \in ahead'[ordinary[i]]
         PROVE  k \in Range(control') \/ \E n \in DOMAIN ordinary : n < i /\ ordinary[n] = k
    <3>1. ordinary[i] \in Jobs
        BY <1>3 DEF Queued, Range
    <3>2. k \in ahead[ordinary[i]] /\ k # Head(control)
        BY <1>1, <1>4, <2>10, <3>1
    <3> QED BY <1>4, <2>1, <3>2 DEF WorkerInv, QueuesKeepOrder
  <2>11. QueuesKeepOrder'
      BY <1>4, <2>9, <2>10 DEF QueuesKeepOrder
  <2> QED BY <2>4, <2>5, <2>6, <2>7, <2>11
<1>5. ASSUME control = <<>>, ordinary # <<>>, running' = Head(ordinary),
             ordinary' = Tail(ordinary), control' = control
      PROVE  /\ running' \notin Urgent /\ running' \in Queued /\ Queued' = Queued \ {running'}
             /\ ahead[running'] = {} /\ Queued \cap Urgent = {}
             /\ WorkerTypeOK' /\ QueuedOnce' /\ QueuesKeepOrder'
  <2>1. /\ Head(ordinary) \in Jobs \ Urgent /\ Head(ordinary) = ordinary[1]
        /\ Tail(ordinary) \in Seq(Jobs \ Urgent)
        /\ Len(Tail(ordinary)) = Len(ordinary) - 1
        /\ DOMAIN Tail(ordinary) = 1 .. (Len(ordinary) - 1)
        /\ \A i \in 1 .. (Len(ordinary) - 1) : Tail(ordinary)[i] = ordinary[i + 1]
        /\ Range(ordinary) = Range(Tail(ordinary)) \cup {Head(ordinary)}
        /\ Head(ordinary) \notin Range(Tail(ordinary))
      BY <1>5, TailOfQueue DEF WorkerInv, WorkerTypeOK, QueuedOnce
  <2>2. DOMAIN ordinary = 1 .. Len(ordinary) /\ Len(ordinary) \in Nat /\ Len(ordinary) # 0
      BY <1>5 DEF WorkerInv, WorkerTypeOK
  <2>3. Range(control) = {} /\ DOMAIN control = {}
      BY <1>5, EmptyQueue
  <2>4. /\ running' \notin Urgent /\ running' \in Queued /\ Queued' = Queued \ {running'}
        /\ Queued \cap Urgent = {}
      BY <1>5, <2>1, <2>3, ClassOfQueue DEF Queued, WorkerInv
  <2>5. ahead[running'] = {}
    <3>1. ASSUME NEW k \in ahead[ordinary[1]] PROVE FALSE
        BY <2>2, <2>3, <3>1 DEF WorkerInv, QueuesKeepOrder
    <3> QED BY <1>5, <2>1, <3>1
  <2>6. WorkerTypeOK'
    <3>1. ahead' \in [Jobs -> SUBSET Jobs]
        BY <1>1 DEF WorkerInv, WorkerTypeOK
    <3> QED BY <1>1, <1>3, <1>5, <2>1, <2>2, <2>4, <3>1, WorkerAssumption
            DEF WorkerInv, WorkerTypeOK
  <2>7. QueuedOnce'
      BY <1>5, <2>1, <2>2, <2>3 DEF WorkerInv, QueuedOnce
  <2>8. \A i \in 1 .. (Len(ordinary) - 1) : i + 1 \in 1 .. Len(ordinary)
      BY <2>2
  <2>9. ASSUME NEW i \in DOMAIN ordinary', NEW k \in ahead'[ordinary'[i]]
        PROVE  \E n \in DOMAIN ordinary' : n < i /\ ordinary'[n] = k
    <3>1. i \in 1 .. (Len(ordinary) - 1) /\ ordinary'[i] = ordinary[i + 1]
        BY <1>5, <2>1, <2>9
    <3>2. ordinary[i + 1] \in Jobs
        BY <1>3, <2>2, <2>8, <3>1 DEF Queued, Range
    <3>3. k \in ahead[ordinary[i + 1]] /\ k # ordinary[1]
        BY <1>1, <1>5, <2>1, <2>9, <3>1, <3>2
    <3>4. PICK n \in 1 .. Len(ordinary) : n < i + 1 /\ ordinary[n] = k
        BY <2>2, <2>3, <2>8, <3>1, <3>3 DEF WorkerInv, QueuesKeepOrder
    <3>5. n - 1 \in 1 .. (Len(ordinary) - 1) /\ n - 1 < i /\ (n - 1) + 1 = n
        BY <2>2, <3>1, <3>3, <3>4
    <3> QED BY <1>5, <2>1, <3>4, <3>5
  <2>10. QueuesKeepOrder'
      BY <1>5, <2>3, <2>9 DEF QueuesKeepOrder
  <2> QED BY <2>4, <2>5, <2>6, <2>7, <2>10
<1>6. /\ running' \in Queued /\ Queued' = Queued \ {running'}
      /\ IF running' \in Urgent THEN ahead[running'] \cap Urgent = {}
         ELSE ahead[running'] = {} /\ Queued \cap Urgent = {}
      /\ WorkerTypeOK' /\ QueuedOnce' /\ QueuesKeepOrder'
    BY <1>1, <1>4, <1>5 DEF Pop
<1>7. PendingIsQueued'
    BY <1>1, <1>2, <1>3, <1>6, WorkerAssumption DEF WorkerInv, PendingIsQueued
<1>8. EndsEmpty'
    BY <1>1 DEF EndsEmpty
<1> QED BY <1>2, <1>6, <1>7, <1>8 DEF WorkerInv

(* The job that ran leaves with its answer.                                *)
LEMMA SettleKeeps ==
    ASSUME WorkerInv, Settle
    PROVE  WorkerInv' /\ running \in Jobs /\ result[running] = "pending"
<1>1. /\ thread = "busy" /\ thread' = "checking" /\ running' = NoJob
      /\ result' = [result EXCEPT ![running] = "settled"]
      /\ UNCHANGED <<control, ordinary, closing, ahead>>
    BY DEF Settle
<1>2. running \in Jobs /\ result[running] = "pending" /\ running \notin Queued
    BY <1>1 DEF WorkerInv, WorkerTypeOK, PendingIsQueued
<1>3. WorkerTypeOK'
    BY <1>1 DEF WorkerInv, WorkerTypeOK, Settle, Settled
<1>4. PendingIsQueued'
  <2>1. Queued' = Queued /\ NoJob \notin Queued
      BY <1>1, ClassOfQueue, WorkerAssumption DEF Queued, WorkerInv
  <2> QED BY <1>1, <1>2, <2>1, WorkerAssumption DEF WorkerInv, WorkerTypeOK, PendingIsQueued
<1>5. QueuedOnce' /\ QueuesKeepOrder'
    BY <1>1 DEF WorkerInv, QueuedOnce, QueuesKeepOrder
<1>6. EndsEmpty'
    BY <1>1 DEF EndsEmpty
<1> QED BY <1>2, <1>3, <1>4, <1>5, <1>6 DEF WorkerInv

(* A thread that dies answers everyone and leaves nothing queued.          *)
LEMMA DieKeeps ==
    ASSUME WorkerInv, Die
    PROVE  WorkerInv' /\ running \in Jobs /\ result[running] = "pending"
<1>1. /\ thread = "busy" /\ thread' = "ending" /\ running' = NoJob
      /\ result' = [j \in Jobs |-> IF result[j] = "pending" THEN "stopped" ELSE result[j]]
      /\ control' = <<>> /\ ordinary' = <<>> /\ closing' = TRUE
      /\ ahead' = [j \in Jobs |-> {}]
    BY DEF Die
<1>2. running \in Jobs /\ result[running] = "pending"
    BY <1>1 DEF WorkerInv, WorkerTypeOK, PendingIsQueued
<1>3. WorkerTypeOK'
    BY <1>1, WorkerAssumption DEF WorkerInv, WorkerTypeOK, Die, Settled
<1>4. PendingIsQueued'
  <2>1. Queued' = {}
      BY <1>1, EmptyQueue DEF Queued
  <2>2. \A j \in Jobs : result'[j] # "pending"
      BY <1>1
  <2> QED BY <1>1, <2>1, <2>2, WorkerAssumption DEF PendingIsQueued
<1>5. QueuedOnce' /\ QueuesKeepOrder'
    BY <1>1, EmptyQueue DEF QueuedOnce, QueuesKeepOrder
<1>6. EndsEmpty'
    BY <1>1 DEF EndsEmpty
<1> QED BY <1>2, <1>3, <1>4, <1>5, <1>6 DEF WorkerInv

(* Every step of the thread keeps the queues in order.                     *)
LEMMA WorkerStepKeeps ==
    ASSUME WorkerInv, WorkerStep
    PROVE  WorkerInv'
BY ThreadStepsKeep, TakeKeeps, SettleKeeps, DieKeeps DEF WorkerStep

-----------------------------------------------------------------------------
(* The worker implements the executor, step by step.                       *)

(* The executor's waiting jobs are the queued ones, and it runs the job    *)
(* that the thread has popped.                                             *)
LEMMA FatesAreQueues ==
    ASSUME WorkerInv
    PROVE  /\ Promise!Waiting = Queued
           /\ Promise!Running = {running} \ {NoJob}
<1>1. Queued \subseteq Jobs /\ NoJob \notin Jobs
    BY ClassOfQueue, WorkerAssumption DEF WorkerInv, Queued
<1>2. \A j \in Jobs : Fate(j) = "accepted" <=> result[j] = "pending" /\ j # running
    BY DEF Fate, WorkerInv, WorkerTypeOK, Settled
<1>3. \A j \in Jobs : Fate(j) = "running" <=> result[j] = "pending" /\ j = running
    BY DEF Fate, WorkerInv, WorkerTypeOK, Settled
<1>4. Promise!Waiting = Queued
    BY <1>1, <1>2 DEF Promise!Waiting, WorkerInv, PendingIsQueued
<1>5. Promise!Running = {running} \ {NoJob}
    BY <1>1, <1>3 DEF Promise!Running, WorkerInv, WorkerTypeOK, PendingIsQueued
<1> QED BY <1>4, <1>5

(* A worker that has not started is an executor that has accepted nothing. *)
LEMMA WorkerInitRefines == WorkerInit => Promise!Init
BY DEF WorkerInit, Promise!Init, Fate, Phase

(* call() is the executor's Accept.                                        *)
LEMMA CallRefines ==
    ASSUME WorkerInv, NEW j \in Jobs, Call(j)
    PROVE  Promise!Next
<1>1. /\ result[j] = "unknown" /\ result' = [result EXCEPT ![j] = "pending"]
      /\ ahead' = [ahead EXCEPT ![j] = Queued]
      /\ ~closing /\ closing' = closing /\ running' = running /\ fault' = fault
      /\ thread' = Notified
    BY DEF Call, Accepts
<1>2. j # running
    BY <1>1 DEF WorkerInv, PendingIsQueued
<1>3. Phase = "open" /\ Phase' = "open"
    BY <1>1 DEF Phase, Notified, WorkerInv, WorkerTypeOK, EndsEmpty
<1>4. \A k \in Jobs : Fate(k)' = IF k = j THEN "accepted" ELSE Fate(k)
    BY <1>1, <1>2 DEF Fate, WorkerInv, WorkerTypeOK
<1>5. Fate(j) = "unknown"
    BY <1>1 DEF Fate
<1>6. Promise!Accept(j)
    BY <1>1, <1>3, <1>4, <1>5, FatesAreQueues DEF Promise!Accept
<1> QED BY <1>6 DEF Promise!Next

(* Taking the first job is the executor's Begin: it is that job's turn.    *)
LEMMA TakeRefines ==
    ASSUME WorkerInv, Take
    PROVE  Promise!Next
<1>1. /\ running = NoJob /\ running' \in Queued
      /\ IF running' \in Urgent THEN ahead[running'] \cap Urgent = {}
         ELSE ahead[running'] = {} /\ Queued \cap Urgent = {}
    BY TakeKeeps
<1>2. /\ thread = "checking" /\ thread' = "busy"
      /\ ahead' = [j \in Jobs |-> ahead[j] \ {running'}]
      /\ closing' = closing /\ result' = result /\ fault' = fault
    BY DEF Take
<1>3. running' \in Jobs /\ result[running'] = "pending"
    BY <1>1, ClassOfQueue, WorkerAssumption DEF WorkerInv, PendingIsQueued, Queued
<1>4. Phase' = Phase /\ Phase # "closed"
    BY <1>2 DEF Phase
<1>5. \A k \in Jobs : Fate(k)' = IF k = running' THEN "running" ELSE Fate(k)
    BY <1>1, <1>2, <1>3, WorkerAssumption DEF Fate, WorkerInv, WorkerTypeOK
<1>6. Promise!Turn(running')
    BY <1>1, FatesAreQueues DEF Promise!Turn
<1>7. Promise!Begin(running')
    BY <1>1, <1>2, <1>3, <1>4, <1>5, <1>6, FatesAreQueues DEF Promise!Begin
<1> QED BY <1>3, <1>7 DEF Promise!Next, Promise!Step

(* The end of the job is the executor's Settle.                            *)
LEMMA SettleRefines ==
    ASSUME WorkerInv, Settle
    PROVE  Promise!Next
<1>1. running \in Jobs /\ result[running] = "pending"
    BY SettleKeeps
<1>2. /\ thread = "busy" /\ thread' = "checking" /\ running' = NoJob
      /\ result' = [result EXCEPT ![running] = "settled"]
      /\ fault' \in {fault, TRUE} /\ UNCHANGED <<closing, ahead>>
    BY DEF Settle
<1>3. Phase' = Phase
    BY <1>2 DEF Phase
<1>4. \A k \in Jobs : Fate(k)' = IF k = running THEN "settled" ELSE Fate(k)
    BY <1>1, <1>2, WorkerAssumption DEF Fate, WorkerInv, WorkerTypeOK
<1>5. Fate(running) = "running"
    BY <1>1 DEF Fate
<1>6. Promise!Settle(running)
    BY <1>1, <1>2, <1>3, <1>4, <1>5 DEF Promise!Settle
<1> QED BY <1>1, <1>6 DEF Promise!Next, Promise!Step

(* The death of the thread abandons the running job and every queued one.  *)
LEMMA DieRefines ==
    ASSUME WorkerInv, Die
    PROVE  Promise!Next
<1>1. running \in Jobs /\ result[running] = "pending"
    BY DieKeeps
<1>2. /\ thread = "busy" /\ thread' = "ending" /\ closing' = TRUE /\ fault' = fault
      /\ result' = [j \in Jobs |-> IF result[j] = "pending" THEN "stopped" ELSE result[j]]
      /\ ahead' = [j \in Jobs |-> {}]
    BY DEF Die
<1>3. Phase' = "draining"
    BY <1>2 DEF Phase
<1>4. \A k \in Jobs : Fate(k)' = IF Fate(k) \in {"accepted", "running"} THEN "abandoned"
                                 ELSE Fate(k)
    BY <1>2 DEF Fate, WorkerInv, WorkerTypeOK, Settled
<1>5. Promise!Running # {}
    BY <1>1, FatesAreQueues, WorkerAssumption
<1>6. Promise!Die
    BY <1>2, <1>3, <1>4, <1>5 DEF Promise!Die
<1> QED BY <1>6 DEF Promise!Next, Promise!Step

(* Closing the intake and closing the database are the executor's Stop and *)
(* Close; the thread's other places are its own affair.                    *)
LEMMA ThreadStepsRefine ==
    ASSUME WorkerInv, WorkerStart \/ StopAccepting \/ Sleep \/ EndLoop \/ CloseOwner
    PROVE  Promise!Next \/ UNCHANGED Promise!xvars
<1>1. UNCHANGED <<running, result, fault, ahead>>
    BY DEF WorkerStart, StopAccepting, Sleep, EndLoop, CloseOwner
<1>2. [j \in Jobs |-> Fate(j)]' = [j \in Jobs |-> Fate(j)]
    BY <1>1 DEF Fate
<1>3. CASE StopAccepting
  <2>1. Phase' = Phase \/ (Phase = "open" /\ Phase' = "draining")
      BY <1>3 DEF StopAccepting, Notified, Phase, WorkerInv, EndsEmpty
  <2> QED BY <1>1, <1>2, <2>1 DEF Promise!Stop, Promise!Next, Promise!xvars
<1>4. CASE CloseOwner
  <2>1. Phase = "draining" /\ Phase' = "closed"
      BY <1>4 DEF CloseOwner, Phase, WorkerInv, EndsEmpty
  <2>2. Promise!Waiting = {} /\ Promise!Running = {}
    <3>1. Queued = {} /\ running = NoJob
        BY <1>4, EmptyQueue DEF CloseOwner, Queued, WorkerInv, EndsEmpty, PendingIsQueued
    <3> QED BY <3>1, FatesAreQueues
  <2>3. Promise!Close
      BY <1>1, <1>2, <2>1, <2>2 DEF Promise!Close
  <2> QED BY <2>3 DEF Promise!Next, Promise!Step
<1>5. CASE WorkerStart \/ Sleep \/ EndLoop
  <2>1. Phase' = Phase
      BY <1>5 DEF WorkerStart, Sleep, EndLoop, Phase
  <2> QED BY <1>1, <1>2, <2>1 DEF Promise!xvars
<1> QED BY <1>3, <1>4, <1>5

-----------------------------------------------------------------------------
(* Admission.                                                              *)

(* A handler comes to h and holds a slot of kind k from then on.           *)
Turns(r, h, k) ==
    /\ handler' = [handler EXCEPT ![r] = h]
    /\ counts' = Moved(r, k)
    /\ slot' = [slot EXCEPT ![r] = k]

(* A handler that keeps its slot turns with it.                            *)
LEMMA KeepsSlot ==
    ASSUME ServiceTypeOK, NEW r \in Requests, UNCHANGED <<counts, slot>>
    PROVE  counts' = Moved(r, slot[r]) /\ slot' = [slot EXCEPT ![r] = slot[r]]
<1>1. \A x \in SlotKinds : counts[x] \in Nat
    BY DEF ServiceTypeOK
<1>2. \A x \in SlotKinds : Moved(r, slot[r])[x] = counts[x]
    BY <1>1 DEF Moved
<1>3. counts = Moved(r, slot[r])
    BY <1>2 DEF ServiceTypeOK, Moved
<1> QED BY <1>3 DEF ServiceTypeOK

(* A slot that is left and one that is taken are counted once each.        *)
LEMMA SlotMoves ==
    ASSUME ServiceTypeOK, SlotsAreReturned, SlotsAreFew, NEW r \in Requests,
           NEW k \in SlotKinds \cup {"none"},
           counts' = Moved(r, k), slot' = [slot EXCEPT ![r] = k]
    PROVE  \A x \in SlotKinds : IsFiniteSet(Holders(x)') /\ counts'[x] = Cardinality(Holders(x)')
<1> SUFFICES ASSUME NEW x \in SlotKinds
             PROVE  IsFiniteSet(Holders(x)') /\ counts'[x] = Cardinality(Holders(x)')
    OBVIOUS
<1>1. IsFiniteSet(Holders(x)) /\ counts[x] = Cardinality(Holders(x)) /\ counts[x] \in Nat
    BY DEF SlotsAreFew, SlotsAreReturned, Holders, ServiceTypeOK
<1>2. counts'[x] = counts[x] - (IF slot[r] = x THEN 1 ELSE 0) + (IF k = x THEN 1 ELSE 0)
    BY DEF Moved
<1>3. r \in Holders(x) <=> slot[r] = x
    BY DEF Holders
<1>4. CASE k = x
  <2>1. Holders(x)' = Holders(x) \cup {r}
      BY <1>4 DEF Holders, ServiceTypeOK
  <2>2. /\ IsFiniteSet(Holders(x) \cup {r})
        /\ Cardinality(Holders(x) \cup {r}) =
               IF r \in Holders(x) THEN Cardinality(Holders(x)) ELSE Cardinality(Holders(x)) + 1
      BY <1>1, FS_AddElement
  <2> QED BY <1>1, <1>2, <1>3, <1>4, <2>1, <2>2
<1>5. CASE k # x
  <2>1. Holders(x)' = Holders(x) \ {r}
      BY <1>5 DEF Holders, ServiceTypeOK
  <2>2. /\ IsFiniteSet(Holders(x) \ {r})
        /\ Cardinality(Holders(x) \ {r}) =
               IF r \in Holders(x) THEN Cardinality(Holders(x)) - 1 ELSE Cardinality(Holders(x))
      BY <1>1, FS_RemoveElement
  <2> QED BY <1>1, <1>2, <1>3, <1>5, <2>1, <2>2
<1> QED BY <1>4, <1>5

(* Whichever way a handler ends, it ends without a slot.                   *)
LEMMA TurnKeepsSlots ==
    ASSUME ServiceTypeOK, SlotsAreReturned, SlotsAreFew, NEW r \in Requests,
           NEW h \in {"handshake", "outside", "waiting", "subscribed", "gone"},
           NEW k \in SlotKinds \cup {"none"},
           Turns(r, h, k), h = "gone" => k = "none"
    PROVE  /\ SlotsAreReturned' /\ SlotsAreFew'
           /\ handler' \in [Requests -> {"none", "handshake", "outside", "waiting",
                                         "subscribed", "gone"}]
           /\ slot' \in [Requests -> SlotKinds \cup {"none"}]
           /\ counts' \in [SlotKinds -> Nat]
<1>1. \A x \in SlotKinds : IsFiniteSet(Holders(x)') /\ counts'[x] = Cardinality(Holders(x)')
    BY SlotMoves DEF Turns
<1>2. SlotsAreFew'
    BY <1>1 DEF SlotsAreFew
<1>3. \A x \in SlotKinds : counts'[x] \in Nat
    BY <1>1, FS_CardinalityType
<1>4. counts' \in [SlotKinds -> Nat]
    BY <1>3 DEF Turns, Moved
<1>5. ASSUME NEW q \in Requests \ Active' PROVE slot'[q] = "none"
  <2>1. CASE q = r
      BY <1>5, <2>1 DEF Turns, Active, ServiceTypeOK
  <2>2. CASE q # r
    <3>1. q \in Requests \ Active /\ slot'[q] = slot[q]
        BY <1>5, <2>2 DEF Turns, Active, ServiceTypeOK
    <3> QED BY <3>1 DEF SlotsAreReturned
  <2> QED BY <2>1, <2>2
<1>6. SlotsAreReturned'
    BY <1>1, <1>5 DEF SlotsAreReturned, Holders
<1>7. /\ handler' \in [Requests -> {"none", "handshake", "outside", "waiting",
                                    "subscribed", "gone"}]
      /\ slot' \in [Requests -> SlotKinds \cup {"none"}]
    BY DEF Turns, ServiceTypeOK
<1> QED BY <1>2, <1>4, <1>6, <1>7

(* The cancelled handlers give back the slots they hold, and no others.    *)
LEMMA DrainKeepsSlots ==
    ASSUME ServiceTypeOK, SlotsAreReturned, SlotsAreFew, Drain
    PROVE  /\ SlotsAreReturned' /\ SlotsAreFew'
           /\ handler' \in [Requests -> {"none", "handshake", "outside", "waiting",
                                         "subscribed", "gone"}]
           /\ slot' \in [Requests -> SlotKinds \cup {"none"}]
           /\ counts' \in [SlotKinds -> Nat]
           /\ Active' \subseteq Active
           /\ \A r \in Requests : handler'[r] \in {"none", "handshake"} => handler'[r] = handler[r]
<1> DEFINE cancelled == pending \cap Active
<1>1. /\ handler' = [r \in Requests |-> IF r \in cancelled THEN "gone" ELSE handler[r]]
      /\ counts' = [k \in SlotKinds |->
                       counts[k] - Cardinality({r \in cancelled : slot[r] = k})]
      /\ slot' = [r \in Requests |-> IF r \in cancelled THEN "none" ELSE slot[r]]
    BY DEF Drain
<1>2. cancelled \subseteq Requests
    BY DEF Active
<1> HIDE DEF cancelled
<1>3. ASSUME NEW k \in SlotKinds
      PROVE  /\ IsFiniteSet(Holders(k)') /\ counts'[k] = Cardinality(Holders(k)')
             /\ counts'[k] \in Nat
  <2>1. IsFiniteSet(Holders(k)) /\ counts[k] = Cardinality(Holders(k))
      BY DEF SlotsAreFew, SlotsAreReturned, Holders
  <2>2. Holders(k)' = Holders(k) \ cancelled
      BY <1>1 DEF Holders, SlotKinds
  <2>3. {r \in cancelled : slot[r] = k} = Holders(k) \cap cancelled
      BY <1>2 DEF Holders
  <2>4. /\ IsFiniteSet(Holders(k) \ cancelled)
        /\ Cardinality(Holders(k) \ cancelled) =
               Cardinality(Holders(k)) - Cardinality(Holders(k) \cap cancelled)
      BY <2>1, FS_Difference
  <2>5. Cardinality(Holders(k) \ cancelled) \in Nat
      BY <2>4, FS_CardinalityType
  <2> QED BY <1>1, <2>1, <2>2, <2>3, <2>4, <2>5
<1>4. counts' \in [SlotKinds -> Nat] /\ SlotsAreFew'
    BY <1>1, <1>3 DEF SlotsAreFew
<1>5. ASSUME NEW q \in Requests \ Active' PROVE slot'[q] = "none"
  <2>1. CASE q \in cancelled
      BY <1>1, <2>1
  <2>2. CASE q \notin cancelled
    <3>1. q \in Requests \ Active /\ slot'[q] = slot[q]
        BY <1>1, <1>5, <2>2 DEF Active
    <3> QED BY <3>1 DEF SlotsAreReturned
  <2> QED BY <2>1, <2>2
<1>6. SlotsAreReturned'
    BY <1>3, <1>5 DEF SlotsAreReturned, Holders
<1>7. /\ handler' \in [Requests -> {"none", "handshake", "outside", "waiting",
                                    "subscribed", "gone"}]
      /\ slot' \in [Requests -> SlotKinds \cup {"none"}]
      /\ \A r \in Requests : handler'[r] \in {"none", "handshake"} => handler'[r] = handler[r]
    BY <1>1 DEF ServiceTypeOK
<1>8. Active' \subseteq Active
    BY <1>1 DEF Active
<1> QED BY <1>4, <1>6, <1>7, <1>8

-----------------------------------------------------------------------------
(* What one step of a handler amounts to.                                  *)

Serving == {"serving", "draining", "closing"}

(* It turns to another place, with no slot when it ends, and submits one   *)
(* job of its own or leaves the worker alone.                              *)
HandlerActs(r) ==
    /\ phase \in Serving
    /\ \E h \in {"handshake", "outside", "waiting", "subscribed", "gone"},
          k \in SlotKinds \cup {"none"} :
           /\ Turns(r, h, k)
           /\ h = "gone" => k = "none"
           /\ h = "handshake" => sent'[r] = 0
    /\ \/ UNCHANGED <<wvars, sent>>
       \/ /\ sent[r] < Calls[r]
          /\ sent' = [sent EXCEPT ![r] = @ + 1]
          /\ \E j \in Jobs : Call(j)
    /\ stop' \in BOOLEAN
    /\ UNCHANGED <<refusing, pending, phase, path, other>>

(* Handlers run only while run() serves or drains.                         *)
LEMMA ActiveServes ==
    ASSUME ServiceInv, NEW r \in Requests, handler[r] \notin {"none", "gone"}
    PROVE  phase \in Serving
BY DEF ServiceInv, WorkerFollows, Active, Serving

(* The next job of a request that has some left is one of the jobs.        *)
LEMMA NextJob ==
    ASSUME ServiceTypeOK, NEW r \in Requests, sent[r] < Calls[r]
    PROVE  <<r, sent[r] + 1>> \in Jobs
<1>1. sent[r] \in Nat /\ Calls[r] \in Nat
    BY ServiceAssumption DEF ServiceTypeOK
<1>2. sent[r] + 1 \in 1 .. Calls[r]
    BY <1>1
<1>3. <<r, sent[r] + 1>> \in JobsOf(r)
    BY <1>2 DEF JobsOf
<1> QED BY <1>3, ServiceAssumption

(* Submit ends in "waiting" with one more job accepted, or in "gone".      *)
LEMMA SubmitActs ==
    ASSUME ServiceInv, NEW r \in Requests, sent[r] < Calls[r], Submit(r)
    PROVE  /\ \/ /\ handler' = [handler EXCEPT ![r] = "waiting"]
                 /\ sent' = [sent EXCEPT ![r] = @ + 1]
                 /\ \E j \in Jobs : Call(j)
              \/ /\ handler' = [handler EXCEPT ![r] = "gone"]
                 /\ UNCHANGED <<wvars, sent>>
<1>1. <<r, sent[r] + 1>> \in Jobs
    BY NextJob DEF ServiceInv
<1> QED BY <1>1 DEF Submit

(* An accepted connection holds its first slot; a refused one holds none.  *)
LEMMA ConnectActs ==
    ASSUME ServiceInv, NEW r \in Requests, Connect(r)
    PROVE  HandlerActs(r)
<1>1. /\ phase \in Serving /\ handler[r] = "none" /\ sent[r] = 0
      /\ UNCHANGED <<wvars, sent, rvars>> /\ stop \in BOOLEAN
    BY DEF Connect, Serving, ServiceInv, UnreadSentNothing, ServiceTypeOK
<1>2. FirstSlot(r) \in SlotKinds
    BY DEF FirstSlot, SlotKinds
<1>3. \E h \in {"handshake", "outside", "waiting", "subscribed", "gone"},
         k \in SlotKinds \cup {"none"} : Turns(r, h, k) /\ (h = "gone" => k = "none")
  <2>1. CASE ~refusing /\ Enter(FirstSlot(r))
    <3> DEFINE h == IF KindOf[r] = "peer" THEN "outside" ELSE "handshake"
    <3>1. Turns(r, h, FirstSlot(r))
        BY <2>1 DEF Connect, Turns
    <3>2. h \in {"handshake", "outside", "waiting", "subscribed", "gone"} /\ h # "gone"
        OBVIOUS
    <3> QED BY <1>2, <3>1, <3>2
  <2>2. CASE ~(~refusing /\ Enter(FirstSlot(r)))
    <3>1. Turns(r, "gone", "none")
        BY <2>2 DEF Connect, Gone, Turns
    <3> QED BY <3>1
  <2> QED BY <2>1, <2>2
<1> QED BY <1>1, <1>3 DEF HandlerActs, rvars

(* A request that is read gives back the handshake slot, whatever follows. *)
LEMMA ReadRequestActs ==
    ASSUME ServiceInv, NEW r \in Requests, ReadRequest(r)
    PROVE  HandlerActs(r)
<1> DEFINE k == IF KindOf[r] = "command" THEN "ordinary" ELSE "control"
           held == IF handler'[r] = "gone" THEN "none" ELSE k
<1>1. /\ handler[r] = "handshake"
      /\ counts' = Moved(r, held) /\ slot' = [slot EXCEPT ![r] = held]
      /\ UNCHANGED <<refusing, pending, phase, path, other>>
    BY DEF ReadRequest
<1>2. /\ k \in SlotKinds
      /\ stop' \in BOOLEAN
    BY DEF ReadRequest, SlotKinds, ServiceInv, ServiceTypeOK
<1>3. sent[r] < Calls[r]
  <2>1. sent[r] = 0 /\ Calls[r] \in Nat
      BY <1>1, ServiceAssumption DEF ServiceInv, UnreadSentNothing
  <2>2. Calls[r] \in 1 .. MaxCalls[KindOf[r]]
      BY ServiceAssumption
  <2>3. MaxCalls[KindOf[r]] \in Nat
      BY ServiceAssumption DEF MaxCalls, Kinds
  <2> QED BY <2>1, <2>2, <2>3
<1>4. \/ /\ handler' = [handler EXCEPT ![r] = "waiting"]
         /\ sent' = [sent EXCEPT ![r] = @ + 1]
         /\ \E j \in Jobs : Call(j)
      \/ /\ \E h \in {"gone", "outside"} : handler' = [handler EXCEPT ![r] = h]
         /\ UNCHANGED <<wvars, sent>>
    BY <1>3, SubmitActs DEF ReadRequest
<1>5. phase \in Serving
    BY <1>1, ActiveServes
<1>6. /\ handler'[r] \in {"waiting", "gone", "outside"}
      /\ handler' = [handler EXCEPT ![r] = handler'[r]]
    BY <1>4 DEF ServiceInv, ServiceTypeOK
<1>7. Turns(r, handler'[r], held) /\ held \in SlotKinds \cup {"none"}
    BY <1>1, <1>2, <1>6 DEF Turns
<1>8. \E h \in {"handshake", "outside", "waiting", "subscribed", "gone"},
         m \in SlotKinds \cup {"none"} :
          Turns(r, h, m) /\ (h = "gone" => m = "none") /\ (h = "handshake" => sent'[r] = 0)
    BY <1>6, <1>7
<1> QED BY <1>1, <1>2, <1>3, <1>4, <1>5, <1>8 DEF HandlerActs

(* A subscriber goes on without a slot.                                    *)
LEMMA SubscribeActs ==
    ASSUME ServiceInv, NEW r \in Requests, Subscribe(r)
    PROVE  HandlerActs(r)
<1>1. Turns(r, "subscribed", "none") /\ UNCHANGED <<wvars, sent, rvars>>
    BY DEF Subscribe, Turns
<1>2. phase \in Serving
    BY ActiveServes DEF Subscribe
<1>3. stop \in BOOLEAN
    BY DEF ServiceInv, ServiceTypeOK
<1> QED BY <1>1, <1>2, <1>3 DEF HandlerActs, rvars

(* The next job follows from what arrived, or the handler ends.            *)
LEMMA ContinueActs ==
    ASSUME ServiceInv, NEW r \in Requests, Continue(r)
    PROVE  HandlerActs(r)
<1>1. handler[r] = "outside" /\ sent[r] < Calls[r] /\ Submit(r) /\ UNCHANGED rvars
    BY DEF Continue
<1>2. phase \in Serving
    BY <1>1, ActiveServes
<1>3. ServiceTypeOK /\ slot[r] \in SlotKinds \cup {"none"} /\ stop \in BOOLEAN
    BY DEF ServiceInv, ServiceTypeOK
<1>4. CASE /\ handler' = [handler EXCEPT ![r] = "waiting"]
           /\ sent' = [sent EXCEPT ![r] = @ + 1]
           /\ \E j \in Jobs : Call(j)
  <2>1. handler'[r] = "waiting"
      BY <1>3, <1>4 DEF ServiceTypeOK
  <2>2. Turns(r, "waiting", slot[r])
      BY <1>3, <1>4, <2>1, KeepsSlot DEF Continue, Turns
  <2> QED BY <1>1, <1>2, <1>3, <1>4, <2>2 DEF HandlerActs, rvars
<1>5. CASE handler' = [handler EXCEPT ![r] = "gone"] /\ UNCHANGED <<wvars, sent>>
  <2>1. handler'[r] = "gone"
      BY <1>3, <1>5 DEF ServiceTypeOK
  <2>2. Turns(r, "gone", "none")
      BY <1>5, <2>1 DEF Continue, Turns
  <2> QED BY <1>1, <1>2, <1>3, <1>5, <2>2 DEF HandlerActs, rvars
<1> QED BY <1>1, <1>4, <1>5, SubmitActs

(* An answered handler reads on with its slot, or ends without.            *)
LEMMA AnsweredActs ==
    ASSUME ServiceInv, NEW r \in Requests, Answered(r)
    PROVE  HandlerActs(r)
<1>1. handler[r] = "waiting" /\ UNCHANGED <<wvars, sent, rvars>>
    BY DEF Answered
<1>2. phase \in Serving
    BY <1>1, ActiveServes
<1>3. ServiceTypeOK /\ slot[r] \in SlotKinds \cup {"none"} /\ stop \in BOOLEAN
    BY DEF ServiceInv, ServiceTypeOK
<1>4. Turns(r, "outside", slot[r]) \/ Turns(r, "gone", "none")
    BY <1>3, KeepsSlot DEF Answered, Gone, Turns
<1> QED BY <1>1, <1>2, <1>3, <1>4 DEF HandlerActs, rvars

(* A handler that gives up ends without a slot; its job stays accepted.    *)
LEMMA GiveUpActs ==
    ASSUME ServiceInv, NEW r \in Requests, GiveUp(r)
    PROVE  HandlerActs(r)
<1>1. Turns(r, "gone", "none") /\ UNCHANGED <<wvars, sent, rvars>>
    BY DEF GiveUp, Gone, Turns
<1>2. phase \in Serving
    BY ActiveServes DEF GiveUp, Active
<1>3. stop \in BOOLEAN
    BY DEF ServiceInv, ServiceTypeOK
<1> QED BY <1>1, <1>2, <1>3 DEF HandlerActs, rvars

(* Every step of a handler is such an act.                                 *)
LEMMA HandlerStepActs ==
    ASSUME ServiceInv, NEW r \in Requests, HandlerStep(r)
    PROVE  HandlerActs(r)
BY ConnectActs, ReadRequestActs, SubscribeActs, ContinueActs, AnsweredActs, GiveUpActs
   DEF HandlerStep

-----------------------------------------------------------------------------
(* Each step of the bridge keeps the invariant.                            *)

(* An idle bridge, whatever endpoints it finds.                            *)
LEMMA InitService == Init => ServiceInv
<1> SUFFICES ASSUME Init PROVE ServiceInv
    OBVIOUS
<1>1. /\ handler = [r \in Requests |-> "none"] /\ slot = [r \in Requests |-> "none"]
      /\ counts = [k \in SlotKinds |-> 0] /\ sent = [r \in Requests |-> 0]
      /\ phase = "off" /\ other = "idle" /\ pending = {} /\ path["control"] = "none"
      /\ path \in [Ends -> {"none", "mine", "other"}]
    BY DEF Init, Ends
<1>2. WorkerInv /\ thread = "none" /\ \A j \in Jobs : result[j] # "pending"
    BY WorkerInitKeeps DEF Init, WorkerInit
<1>3. ServiceTypeOK
  <2>1. sent \in [Requests -> Nat] /\ \A r \in Requests : sent[r] <= Calls[r]
      BY <1>1, ServiceAssumption
  <2>2. /\ handler \in [Requests -> {"none", "handshake", "outside", "waiting", "subscribed",
                                     "gone"}]
        /\ slot \in [Requests -> SlotKinds \cup {"none"}]
        /\ counts \in [SlotKinds -> Nat]
      BY <1>1
  <2> QED BY <1>1, <1>2, <2>1, <2>2 DEF Init, ServiceTypeOK, WorkerInv
<1>4. \A k \in SlotKinds : Holders(k) = {}
    BY <1>1 DEF Holders, SlotKinds
<1>5. SlotsAreFew
    BY <1>4, FS_EmptySet DEF SlotsAreFew
<1>6. SlotsAreReturned
  <2>1. \A k \in SlotKinds : counts[k] = Cardinality(Holders(k))
      BY <1>1, <1>4, FS_EmptySet
  <2> QED BY <1>1, <2>1 DEF SlotsAreReturned, Holders
<1>7. UnreadSentNothing /\ EndpointFollows
    BY <1>1 DEF UnreadSentNothing, EndpointFollows
<1>8. WorkerFollows
    BY <1>1, <1>2 DEF WorkerFollows, Active
<1> QED BY <1>2, <1>3, <1>5, <1>6, <1>7, <1>8 DEF ServiceInv

(* A step that leaves the worker alone keeps its invariant.                *)
LEMMA WorkerUntouched ==
    ASSUME WorkerInv, UNCHANGED wvars
    PROVE  WorkerInv'
BY DEF WorkerInv, WorkerTypeOK, PendingIsQueued, QueuedOnce, QueuesKeepOrder, EndsEmpty,
       Queued, wvars

(* A handler's step.                                                       *)
LEMMA HandlerKeeps ==
    ASSUME ServiceInv, NEW r \in Requests, HandlerStep(r)
    PROVE  ServiceInv'
<1>1. HandlerActs(r)
    BY HandlerStepActs
<1>2. PICK h \in {"handshake", "outside", "waiting", "subscribed", "gone"},
           k \in SlotKinds \cup {"none"} :
          /\ Turns(r, h, k) /\ (h = "gone" => k = "none") /\ (h = "handshake" => sent'[r] = 0)
    BY <1>1 DEF HandlerActs
<1>3. /\ SlotsAreReturned' /\ SlotsAreFew'
      /\ handler' \in [Requests -> {"none", "handshake", "outside", "waiting",
                                    "subscribed", "gone"}]
      /\ slot' \in [Requests -> SlotKinds \cup {"none"}]
      /\ counts' \in [SlotKinds -> Nat]
    BY <1>2, TurnKeepsSlots DEF ServiceInv
<1>4. WorkerInv' /\ thread # "none" /\ thread' # "none"
  <2>1. WorkerInv /\ thread # "none"
      BY <1>1 DEF HandlerActs, ServiceInv, WorkerFollows, Serving
  <2>2. CASE UNCHANGED wvars
      BY <2>1, <2>2, WorkerUntouched DEF wvars
  <2>3. ASSUME NEW j \in Jobs, Call(j) PROVE WorkerInv' /\ thread' # "none"
      BY <2>1, <2>3, CallKeeps DEF Call, Notified
  <2> QED BY <1>1, <2>1, <2>2, <2>3 DEF HandlerActs
<1>5. sent' \in [Requests -> Nat] /\ \A q \in Requests : sent'[q] <= Calls[q]
  <2>1. /\ sent \in [Requests -> Nat] /\ \A q \in Requests : sent[q] <= Calls[q]
        /\ Calls[r] \in Nat
      BY ServiceAssumption DEF ServiceInv, ServiceTypeOK
  <2>2. CASE sent' = sent
      BY <2>1, <2>2
  <2>3. CASE sent' = [sent EXCEPT ![r] = @ + 1] /\ sent[r] < Calls[r]
      BY <2>1, <2>3
  <2> QED BY <1>1, <2>2, <2>3 DEF HandlerActs
<1>6. ServiceTypeOK'
    BY <1>1, <1>3, <1>4, <1>5 DEF HandlerActs, ServiceInv, ServiceTypeOK, WorkerInv
<1>7. UnreadSentNothing'
    BY <1>1, <1>2 DEF HandlerActs, Turns, ServiceInv, ServiceTypeOK, UnreadSentNothing
<1>8. EndpointFollows'
    BY <1>1 DEF HandlerActs, ServiceInv, EndpointFollows
<1>9. WorkerFollows'
    BY <1>1, <1>4 DEF HandlerActs, Serving, WorkerFollows
<1> QED BY <1>3, <1>4, <1>6, <1>7, <1>8, <1>9 DEF ServiceInv

(* Steps that leave handlers and slots alone.                              *)
LEMMA SlotsUntouched ==
    ASSUME ServiceInv, UNCHANGED svars
    PROVE  SlotsAreReturned' /\ SlotsAreFew' /\ UnreadSentNothing' /\ Active' = Active
<1>1. handler' = handler /\ slot' = slot /\ counts' = counts /\ sent' = sent
    BY DEF svars
<1>2. Active' = Active
    BY <1>1 DEF Active
<1> QED BY <1>1, <1>2
        DEF ServiceInv, SlotsAreReturned, SlotsAreFew, Holders, UnreadSentNothing

(* A step of the worker's thread: it lives only where run() serves.        *)
LEMMA WorkerKeeps ==
    ASSUME ServiceInv, WorkerStep, UNCHANGED <<svars, rvars>>
    PROVE  ServiceInv'
<1>1. WorkerInv'
    BY WorkerStepKeeps DEF ServiceInv
<1>2. thread \notin {"none", "done"} /\ thread' # "none"
    BY DEF WorkerStep, Sleep, Take, Settle, Die, EndLoop, CloseOwner
<1>3. ServiceTypeOK'
    BY <1>1 DEF ServiceInv, ServiceTypeOK, WorkerInv, svars, rvars
<1>4. EndpointFollows'
    BY DEF ServiceInv, EndpointFollows, rvars
<1>5. WorkerFollows'
  <2>1. phase' = phase /\ phase \in Serving
      BY <1>2 DEF ServiceInv, ServiceTypeOK, WorkerFollows, Serving, rvars
  <2> QED BY <1>2, <2>1 DEF WorkerFollows, Serving
<1> QED BY <1>1, <1>3, <1>4, <1>5, SlotsUntouched DEF ServiceInv

(* The start of run(): a bind that fails leaves through the same exit.     *)
LEMMA BindKeeps ==
    ASSUME ServiceInv, BindControl \/ BindPeer
    PROVE  ServiceInv'
<1>1. WorkerInv' /\ UNCHANGED <<wvars, svars, stop, pending, other>>
    BY WorkerUntouched DEF ServiceInv, BindControl, BindPeer, Bind
<1>2. ServiceTypeOK'
    BY <1>1 DEF ServiceInv, ServiceTypeOK, WorkerInv, svars, BindControl, BindPeer, Bind, Ends
<1>3. EndpointFollows'
    BY <1>1 DEF ServiceInv, ServiceTypeOK, EndpointFollows, BindControl, BindPeer, Bind, Ends
<1>4. WorkerFollows'
    BY <1>1, SlotsUntouched DEF ServiceInv, WorkerFollows, BindControl, BindPeer, Bind, wvars
<1> QED BY <1>1, <1>2, <1>3, <1>4, SlotsUntouched DEF ServiceInv

(* The inbox opens, or its failure ends the start.                         *)
LEMMA OpenInboxKeeps ==
    ASSUME ServiceInv, OpenInbox
    PROVE  ServiceInv'
<1>1. /\ WorkerInv' /\ UNCHANGED <<svars, stop, pending, path, other>>
      /\ phase = "bound"
      /\ \/ phase' = "serving" /\ thread' = "checking" /\ refusing' = refusing
         \/ phase' = "unlinking control" /\ thread' = thread /\ refusing' = TRUE
      /\ result' = result
    BY WorkerUntouched, ThreadStepsKeep DEF ServiceInv, OpenInbox, WorkerStart, wvars
<1>2. ServiceTypeOK'
    BY <1>1 DEF ServiceInv, ServiceTypeOK, WorkerInv, svars
<1>3. EndpointFollows'
    BY <1>1 DEF ServiceInv, EndpointFollows
<1>4. WorkerFollows'
    BY <1>1, SlotsUntouched DEF ServiceInv, WorkerFollows
<1> QED BY <1>1, <1>2, <1>3, <1>4, SlotsUntouched DEF ServiceInv

(* A signal, and the beginning of the way out.                             *)
LEMMA StopKeeps ==
    ASSUME ServiceInv, Signal \/ StopSeen
    PROVE  ServiceInv'
<1>1. /\ WorkerInv' /\ UNCHANGED <<wvars, svars, path, other>>
      /\ phase = "serving" /\ phase' \in {"serving", "draining"}
    BY WorkerUntouched DEF ServiceInv, Signal, StopSeen
<1>2. ServiceTypeOK'
    BY <1>1 DEF ServiceInv, ServiceTypeOK, WorkerInv, svars, Signal, StopSeen, Active
<1>3. EndpointFollows'
    BY <1>1 DEF ServiceInv, EndpointFollows
<1>4. WorkerFollows'
    BY <1>1 DEF ServiceInv, WorkerFollows, wvars
<1> QED BY <1>1, <1>2, <1>3, <1>4, SlotsUntouched DEF ServiceInv

(* Handlers are cancelled and the worker's intake closes.                  *)
LEMMA DrainKeeps ==
    ASSUME ServiceInv, Drain
    PROVE  ServiceInv'
<1>1. /\ phase = "draining" /\ phase' = "closing" /\ pending' = {}
      /\ StopAccepting /\ UNCHANGED <<sent, refusing, stop, path, other>>
    BY DEF Drain
<1>2. WorkerInv'
    BY <1>1, ThreadStepsKeep DEF ServiceInv
<1>3. /\ SlotsAreReturned' /\ SlotsAreFew'
      /\ handler' \in [Requests -> {"none", "handshake", "outside", "waiting",
                                    "subscribed", "gone"}]
      /\ slot' \in [Requests -> SlotKinds \cup {"none"}]
      /\ counts' \in [SlotKinds -> Nat]
      /\ \A r \in Requests : handler'[r] \in {"none", "handshake"} => handler'[r] = handler[r]
    BY DrainKeepsSlots DEF ServiceInv
<1>4. ServiceTypeOK'
    BY <1>1, <1>2, <1>3 DEF ServiceInv, ServiceTypeOK, WorkerInv
<1>5. UnreadSentNothing'
    BY <1>1, <1>3 DEF ServiceInv, UnreadSentNothing
<1>6. EndpointFollows'
    BY <1>1 DEF ServiceInv, EndpointFollows
<1>7. WorkerFollows'
    BY <1>1 DEF ServiceInv, WorkerFollows, StopAccepting, Notified
<1> QED BY <1>2, <1>3, <1>4, <1>5, <1>6, <1>7 DEF ServiceInv

(* The servers close when the worker is done, and the paths go.            *)
LEMMA LeaveKeeps ==
    ASSUME ServiceInv, CloseServers \/ UnlinkControl \/ UnlinkPeer
    PROVE  ServiceInv'
<1>1. /\ WorkerInv' /\ UNCHANGED <<wvars, svars, refusing, stop, pending, other>>
      /\ phase' \in {"unlinking control", "unlinking peer", "left"}
    BY WorkerUntouched DEF ServiceInv, CloseServers, UnlinkControl, UnlinkPeer, Unlink
<1>2. /\ path' \in [Ends -> {"none", "mine", "other"}]
      /\ path'["control"] = "other" <=> path["control"] = "other"
    BY ZenonT(60) DEF ServiceInv, ServiceTypeOK, CloseServers, UnlinkControl, UnlinkPeer, Unlink, Ends
<1>3. ServiceTypeOK'
    BY <1>1, <1>2 DEF ServiceInv, ServiceTypeOK, WorkerInv, svars
<1>4. EndpointFollows'
    BY <1>1, <1>2 DEF ServiceInv, EndpointFollows
<1>5. WorkerFollows'
    BY <1>1, SlotsUntouched
       DEF ServiceInv, WorkerFollows, CloseServers, UnlinkControl, UnlinkPeer, Unlink, wvars
<1> QED BY <1>1, <1>3, <1>4, <1>5, SlotsUntouched DEF ServiceInv

(* The other bridge touches the control endpoint only.                     *)
LEMMA OtherKeeps ==
    ASSUME ServiceInv, OtherStep
    PROVE  ServiceInv'
<1>1. WorkerInv' /\ UNCHANGED <<wvars, svars, refusing, stop, pending, phase>>
    BY WorkerUntouched DEF ServiceInv, OtherStep
<1>2. ServiceTypeOK'
    BY <1>1 DEF ServiceInv, ServiceTypeOK, WorkerInv, svars, OtherStep, OtherBinds, OtherLeaves,
       Ends
<1>3. EndpointFollows'
    BY <1>1 DEF ServiceInv, ServiceTypeOK, EndpointFollows, OtherStep, OtherBinds, OtherLeaves,
       Ends
<1>4. WorkerFollows'
    BY <1>1, SlotsUntouched DEF ServiceInv, WorkerFollows, wvars
<1> QED BY <1>1, <1>2, <1>3, <1>4, SlotsUntouched DEF ServiceInv

(* Nothing happens.                                                        *)
LEMMA StutterKeeps ==
    ASSUME ServiceInv, UNCHANGED vars
    PROVE  ServiceInv'
<1>1. WorkerInv' /\ UNCHANGED <<wvars, svars, rvars>>
    BY WorkerUntouched DEF ServiceInv, vars
<1>2. ServiceTypeOK'
    BY <1>1 DEF ServiceInv, ServiceTypeOK, WorkerInv, svars, rvars
<1>3. EndpointFollows' /\ WorkerFollows'
    BY <1>1, SlotsUntouched DEF ServiceInv, EndpointFollows, WorkerFollows, wvars, rvars
<1> QED BY <1>1, <1>2, <1>3, SlotsUntouched DEF ServiceInv

(* Every step keeps the invariant.                                         *)
LEMMA NextService == ServiceInv /\ [Next]_vars => ServiceInv'
<1> SUFFICES ASSUME ServiceInv, [Next]_vars PROVE ServiceInv'
    OBVIOUS
<1>1. CASE RunStep
    BY <1>1, BindKeeps, OpenInboxKeeps, StopKeeps, DrainKeeps, LeaveKeeps DEF RunStep
<1>2. CASE WorkerStep /\ UNCHANGED <<svars, rvars>>
    BY <1>2, WorkerKeeps
<1> QED BY <1>1, <1>2, HandlerKeeps, StopKeeps, OtherKeeps, StutterKeeps DEF Next

-----------------------------------------------------------------------------
(* Whatever connections come and however their handlers end: the queues,   *)
(* the futures and the popped job agree, the slots are counted, and the    *)
(* worker lives only while this bridge has the control endpoint.           *)
THEOREM ServiceInvariance == Spec => []ServiceInv
BY InitService, NextService, PTL DEF Spec

(* Every variable of the bridge and of its worker stays in its type, and   *)
(* the two deques within their limits.                                     *)
THEOREM ServiceTypeInvariance == Spec => []ServiceTypeOK
<1>1. ServiceInv => ServiceTypeOK
    BY DEF ServiceInv
<1> QED BY <1>1, ServiceInvariance, PTL

(* Admission counts exactly the handlers that hold a slot, whichever way   *)
(* earlier handlers ended.                                                 *)
THEOREM NoSlotLeaks == Spec => []SlotsAreReturned
<1>1. ServiceInv => SlotsAreReturned
    BY DEF ServiceInv
<1> QED BY <1>1, ServiceInvariance, PTL

(* While the other bridge has the control endpoint, this one's worker has  *)
(* not begun or has closed the inbox, and no job is left.                  *)
THEOREM InboxHasOneOwner == Spec => []OneInboxOwner
<1>1. ServiceInv => OneInboxOwner
  <2> SUFFICES ASSUME ServiceInv, other = "serving"
               PROVE  thread \in {"none", "done"} /\ \A j \in Jobs : result[j] # "pending"
      BY DEF OneInboxOwner
  <2>1. phase \in {"off", "unlinking control", "unlinking peer", "left"}
      BY DEF ServiceInv, ServiceTypeOK, EndpointFollows
  <2>2. thread \in {"none", "done"}
      BY <2>1 DEF ServiceInv, WorkerFollows
  <2>3. CASE thread = "done"
    <3>1. Queued = {} /\ running = NoJob
        BY <2>3, EmptyQueue DEF ServiceInv, WorkerInv, EndsEmpty, PendingIsQueued, Queued
    <3> QED BY <2>2, <3>1, WorkerAssumption DEF ServiceInv, WorkerInv, PendingIsQueued
  <2> QED BY <2>2, <2>3 DEF ServiceInv, WorkerFollows
<1> QED BY <1>1, ServiceInvariance, PTL

(* No step of this bridge takes away an endpoint that it has not bound.    *)
THEOREM EndpointsOfOthersSurvive == Spec => OthersEndpointSurvives
<1>1. ServiceInv /\ [Next]_vars =>
          [other' = other => \A e \in Ends : path[e] = "other" => path'[e] = "other"]_vars
  <2> SUFFICES ASSUME ServiceInv, Next, other' = other, NEW e \in Ends, path[e] = "other"
               PROVE  path'[e] = "other"
      OBVIOUS
  <2>1. ASSUME NEW r \in Requests, HandlerStep(r) PROVE path' = path
      BY <2>1, HandlerStepActs DEF HandlerActs
  <2>2. CASE RunStep
      BY <2>2 DEF RunStep, BindControl, BindPeer, Bind, OpenInbox, StopSeen, Drain, CloseServers,
         UnlinkControl, UnlinkPeer, Unlink, ServiceInv, ServiceTypeOK, Ends
  <2>3. CASE OtherStep
      BY <2>3 DEF OtherStep, OtherBinds, OtherLeaves, ServiceInv, ServiceTypeOK
  <2>4. CASE Signal \/ UNCHANGED rvars
      BY <2>4 DEF Signal, rvars
  <2> QED BY <2>1, <2>2, <2>3, <2>4 DEF Next, vars
<1> QED BY <1>1, ServiceInvariance, PTL DEF Spec, OthersEndpointSurvives

(* The worker inside a bridge is an executor: every step of the bridge is  *)
(* one of the executor's or none of its business.  (That an accepted job   *)
(* ends is a matter of fairness, and stays with the model checker.)        *)
THEOREM WorkerIsExecutor == Spec => Promise!Init /\ [][Promise!Next]_(Promise!xvars)
<1>1. Init => Promise!Init
    BY WorkerInitRefines DEF Init
<1>2. ServiceInv /\ [Next]_vars => [Promise!Next]_(Promise!xvars)
  <2> SUFFICES ASSUME ServiceInv, [Next]_vars
               PROVE  Promise!Next \/ UNCHANGED Promise!xvars
      OBVIOUS
  <2>1. CASE UNCHANGED wvars
      BY <2>1 DEF wvars, Promise!xvars, Fate, Phase
  <2>2. ASSUME NEW j \in Jobs, Call(j) PROVE Promise!Next
      BY <2>2, CallRefines DEF ServiceInv
  <2>3. CASE WorkerStep
      BY <2>3, TakeRefines, SettleRefines, DieRefines, ThreadStepsRefine
         DEF WorkerStep, ServiceInv
  <2>4. ASSUME NEW r \in Requests, HandlerStep(r)
        PROVE  UNCHANGED wvars \/ \E j \in Jobs : Call(j)
      BY <2>4, HandlerStepActs DEF HandlerActs
  <2>5. CASE RunStep
    <3>1. UNCHANGED wvars \/ WorkerStart \/ StopAccepting
        BY <2>5 DEF RunStep, BindControl, BindPeer, Bind, OpenInbox, StopSeen, Drain,
           CloseServers, UnlinkControl, UnlinkPeer, Unlink
    <3> QED BY <2>1, <3>1, ThreadStepsRefine DEF ServiceInv
  <2>6. CASE Signal \/ OtherStep \/ UNCHANGED vars
      BY <2>1, <2>6 DEF Signal, OtherStep, vars
  <2> QED BY <2>1, <2>2, <2>3, <2>4, <2>5, <2>6 DEF Next
<1> QED BY <1>1, <1>2, ServiceInvariance, PTL DEF Spec
=============================================================================
