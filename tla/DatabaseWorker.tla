--------------------------- MODULE DatabaseWorker ---------------------------
(***************************************************************************)
(* database_worker.py: one thread owns the database.  Two bounded deques   *)
(* of accepted jobs, guarded by one condition variable; callers wait on a  *)
(* shielded future, so that a caller who gives up leaves its job accepted. *)
(***************************************************************************)
EXTENDS Naturals, Sequences, Functions

CONSTANTS Jobs,           \* the operations that may be submitted
          Urgent,         \* those submitted with priority=True
          ControlLimit,   \* 2 in the code
          OrdinaryLimit,  \* 16 in the code
          NoJob

ASSUME WorkerAssumption ==
    /\ Urgent \subseteq Jobs
    /\ NoJob \notin Jobs
    /\ ControlLimit \in Nat \ {0}
    /\ OrdinaryLimit \in Nat \ {0}

VARIABLES control,    \* _control
          ordinary,   \* _ordinary
          closing,    \* _closing
          running,    \* the job the thread has popped, or NoJob
          thread,     \* none, checking, asleep, busy, ending, done
          result,     \* the future of each job
          fault,      \* _fault holds storage_error or internal_error
          ahead       \* history: the jobs queued before each queued job

wvars == <<control, ordinary, closing, running, thread, result, fault, ahead>>

Settled == {"settled", "stopped"}

WorkerTypeOK ==
    /\ control \in Seq(Urgent) /\ Len(control) <= ControlLimit
    /\ ordinary \in Seq(Jobs \ Urgent) /\ Len(ordinary) <= OrdinaryLimit
    /\ closing \in BOOLEAN
    /\ running \in Jobs \cup {NoJob}
    /\ thread \in {"none", "checking", "asleep", "busy", "ending", "done"}
    /\ result \in [Jobs -> {"unknown", "pending"} \cup Settled]
    /\ fault \in BOOLEAN
    /\ ahead \in [Jobs -> SUBSET Jobs]

WorkerInit ==
    /\ control = <<>> /\ ordinary = <<>>
    /\ closing = FALSE
    /\ running = NoJob
    /\ thread = "none"
    /\ result = [j \in Jobs |-> "unknown"]
    /\ fault = FALSE
    /\ ahead = [j \in Jobs |-> {}]

(* __init__ starts the thread and waits until factory() has opened the     *)
(* owned object; a factory that fails ends the thread and is raised.       *)
WorkerStart ==
    /\ thread = "none"
    /\ thread' = "checking"
    /\ UNCHANGED <<control, ordinary, closing, running, result, fault, ahead>>

-----------------------------------------------------------------------------
(* The callers' side; each operation is one critical section.              *)

Notified == IF thread = "asleep" THEN "checking" ELSE thread

QueueOf(j) == IF j \in Urgent THEN control ELSE ordinary
LimitOf(j) == IF j \in Urgent THEN ControlLimit ELSE OrdinaryLimit

Queued == Range(control) \cup Range(ordinary)
Accepts(j) == ~closing /\ Len(QueueOf(j)) < LimitOf(j)

(* call(), when it neither raises WorkerClosed nor CapacityError.          *)
Call(j) ==
    /\ result[j] = "unknown"
    /\ Accepts(j)
    /\ IF j \in Urgent
         THEN control' = Append(control, j) /\ UNCHANGED ordinary
         ELSE ordinary' = Append(ordinary, j) /\ UNCHANGED control
    /\ result' = [result EXCEPT ![j] = "pending"]
    /\ ahead' = [ahead EXCEPT ![j] = Queued]
    /\ thread' = Notified
    /\ UNCHANGED <<closing, running, fault>>

\* A mutant.
StopAcceptingUnheard ==
    /\ closing' = TRUE
    /\ UNCHANGED <<control, ordinary, running, thread, result, fault, ahead>>

StopAccepting ==
    /\ closing' = TRUE
    /\ thread' = Notified
    /\ UNCHANGED <<control, ordinary, running, result, fault, ahead>>

-----------------------------------------------------------------------------
(* The thread: _run().                                                     *)

Sleep ==
    /\ thread = "checking"
    /\ control = <<>> /\ ordinary = <<>> /\ ~closing
    /\ thread' = "asleep"
    /\ UNCHANGED <<control, ordinary, closing, running, result, fault, ahead>>

\* A mutant.
PopLast ==
    \/ /\ control # <<>>
       /\ running' = Head(control)
       /\ control' = Tail(control)
       /\ UNCHANGED ordinary
    \/ /\ control = <<>> /\ ordinary # <<>>
       /\ running' = ordinary[Len(ordinary)]
       /\ ordinary' = SubSeq(ordinary, 1, Len(ordinary) - 1)
       /\ UNCHANGED control

Pop ==
    \/ /\ control # <<>>
       /\ running' = Head(control)
       /\ control' = Tail(control)
       /\ UNCHANGED ordinary
    \/ /\ control = <<>> /\ ordinary # <<>>
       /\ running' = Head(ordinary)
       /\ ordinary' = Tail(ordinary)
       /\ UNCHANGED control

Take ==
    /\ thread = "checking"
    /\ Pop
    /\ thread' = "busy"
    /\ ahead' = [j \in Jobs |-> ahead[j] \ {running'}]
    /\ UNCHANGED <<closing, result, fault>>

(* The method returned, or raised an Exception, which reaches the caller   *)
(* as it is or as WorkerFailure; all but a plain ValueError latch a fault. *)
Settle ==
    /\ thread = "busy"
    /\ result' = [result EXCEPT ![running] = "settled"]
    /\ fault' \in {fault, TRUE}
    /\ running' = NoJob
    /\ thread' = "checking"
    /\ UNCHANGED <<control, ordinary, closing, ahead>>

(* A BaseException ends the loop: every waiting job is told so.            *)
Die ==
    /\ thread = "busy"
    /\ result' = [j \in Jobs |-> IF result[j] = "pending" THEN "stopped" ELSE result[j]]
    /\ control' = <<>> /\ ordinary' = <<>>
    /\ closing' = TRUE
    /\ running' = NoJob
    /\ thread' = "ending"
    /\ ahead' = [j \in Jobs |-> {}]
    /\ UNCHANGED fault

(* The loop ends when closing finds both deques empty; owner.close() and   *)
(* _done follow outside the lock.                                          *)
EndLoop ==
    /\ thread = "checking"
    /\ control = <<>> /\ ordinary = <<>> /\ closing
    /\ thread' = "ending"
    /\ UNCHANGED <<control, ordinary, closing, running, result, fault, ahead>>

CloseOwner ==
    /\ thread = "ending"
    /\ thread' = "done"
    /\ UNCHANGED <<control, ordinary, closing, running, result, fault, ahead>>

WorkerStep == Sleep \/ Take \/ Settle \/ Die \/ EndLoop \/ CloseOwner

-----------------------------------------------------------------------------
(* The worker implements the abstract executor: the history of acceptances *)
(* gives its order, the futures and the popped job give each job's fate.        *)

Fate(j) ==
    CASE result[j] = "unknown" -> "unknown"
      [] result[j] = "pending" -> IF running = j THEN "running" ELSE "accepted"
      [] result[j] = "stopped" -> "abandoned"
      [] OTHER -> result[j]

Phase == IF thread = "done" THEN "closed" ELSE IF closing THEN "draining" ELSE "open"

Promise == INSTANCE Executor WITH
    ahead <- ahead,
    fate <- [j \in Jobs |-> Fate(j)],
    phase <- Phase,
    faulty <- fault

(* The worker keeps an executor's promise: jobs are applied one at a time, *)
(* urgent ones first and the others in the order of acceptance, each once; *)
(* none is accepted after close() was called, none that was accepted is    *)
(* left unsettled, and the database is closed only after the last.         *)
ImplementsExecutor == Promise!Spec
=============================================================================
