--------------------------- MODULE MemoryService ---------------------------
(***************************************************************************)
(* Starting and stopping the memory service of one repository.  Each       *)
(* server is one `serve` command: one process and one generation.  Servers *)
(* and stop commands share start.lock, the store's exclusive SQLite lock,  *)
(* the endpoint and the ownership record owner.json, and any of them may   *)
(* be killed between two steps: its files stay, its locks do not.          *)
(***************************************************************************)
CONSTANTS Server,    \* serve commands
          Stopper,   \* stop commands
          None

ASSUME LifecycleAssumption ==
    /\ None \notin Server \cup Stopper
    /\ Server \cap Stopper = {}

VARIABLES pc,        \* where each server is
          lock,      \* the holder of start.lock
          store,     \* the server whose worker has the store open
          sock,      \* the server whose socket is at the endpoint's path
          owner,     \* the server that owner.json names
          stop,      \* the servers that were asked to stop, or signalled
          spc,       \* where each stop command is
          target,    \* the generation it was asked to stop
          orphaned   \* history: a server died after its bind, before any record

vars == <<pc, lock, store, sock, owner, stop, spc, target, orphaned>>
stopVars == <<spc, target>>

Ended == {"reused", "failed", "gone", "dead"}
StopEnded == {"not running", "error", "stopped", "requested", "dead"}

LifecycleTypeOK ==
    /\ pc \in [Server -> {"off", "verify", "open", "bind", "rebind", "publish",
                          "starting", "serving", "closing", "release", "check", "unlink"}
                          \cup Ended]
    /\ lock \in Server \cup Stopper \cup {None}
    /\ store \in Server \cup {None}
    /\ sock \in Server \cup {None}
    /\ owner \in Server \cup {None}
    /\ stop \subseteq Server
    /\ spc \in [Stopper -> {"off", "send", "wait", "lock", "check", "unlink"} \cup StopEnded]
    /\ target \in [Stopper -> Server \cup {None}]
    /\ orphaned \in BOOLEAN

Init ==
    /\ pc = [p \in Server |-> "off"]
    /\ lock = None /\ store = None /\ sock = None /\ owner = None
    /\ stop = {}
    /\ spc = [s \in Stopper |-> "off"]
    /\ target = [s \in Stopper |-> None]
    /\ orphaned = FALSE

Listening(p) == pc[p] \in {"starting", "serving"}

(* Somebody accepts connections at the endpoint's path.                    *)
Answers == sock # None /\ Listening(sock)

(* owner_is_dead(): there is a record, and its process is provably gone.   *)
OwnerIsDead == owner # None /\ pc[owner] \in Ended

Goto(p, l) == pc' = [pc EXCEPT ![p] = l]

-----------------------------------------------------------------------------
(* start(): everything from the handshake to the record under start.lock.  *)

Serve(p) ==
    /\ pc[p] = "off" /\ lock = None
    /\ lock' = p
    /\ Goto(p, "verify")
    /\ UNCHANGED <<store, sock, owner, stop, stopVars, orphaned>>

(* verify_running(): nobody listens; the listener is the recorded, healthy *)
(* service; or it does not answer so, and no replacement is started.       *)
VerifyRunning(p) ==
    /\ pc[p] = "verify"
    /\ \/ /\ ~Answers
          /\ Goto(p, "open")
          /\ UNCHANGED lock
       \/ /\ sock # None /\ pc[sock] = "serving" /\ owner = sock
          /\ Goto(p, "reused")
          /\ lock' = None
       \/ /\ Answers
          /\ Goto(p, "failed")
          /\ lock' = None
    /\ UNCHANGED <<store, sock, owner, stop, stopVars, orphaned>>

(* Service() opens the store in its worker; an open store is store_busy.   *)
OpenStore(p) ==
    /\ pc[p] = "open"
    /\ \/ store = None /\ store' = p /\ Goto(p, "bind") /\ UNCHANGED lock
       \/ store # None /\ Goto(p, "failed") /\ lock' = None /\ UNCHANGED store
    /\ UNCHANGED <<sock, owner, stop, stopVars, orphaned>>

(* A bind that fails closes the store again: close_sync().                 *)
StartFails(p) ==
    /\ Goto(p, "failed")
    /\ store' = None
    /\ lock' = None
    /\ UNCHANGED sock

(* A path in the way is removed only when its recorded owner is dead.      *)
Recoverable == OwnerIsDead

BindExclusive(p) ==
    /\ pc[p] \in {"bind", "rebind"}
    /\ \/ /\ sock = None
          /\ sock' = p
          /\ Goto(p, "publish")
          /\ UNCHANGED <<lock, store>>
       \/ /\ sock # None /\ Recoverable /\ pc[p] = "bind"
          /\ sock' = None
          /\ Goto(p, "rebind")
          /\ UNCHANGED <<lock, store>>
       \/ /\ sock # None /\ (~Recoverable \/ pc[p] = "rebind")
          /\ StartFails(p)
    /\ UNCHANGED <<owner, stop, stopVars, orphaned>>

(* write_owner() replaces the record; start() returns and frees the lock.  *)
WriteOwner(p) ==
    /\ pc[p] = "publish"
    /\ owner' = p
    /\ lock' = None
    /\ Goto(p, "starting")
    /\ UNCHANGED <<store, sock, stop, stopVars, orphaned>>

-----------------------------------------------------------------------------
(* Service.run() and release(), which takes start.lock again.              *)

Run(p) ==
    /\ pc[p] = "starting"
    /\ Goto(p, "serving")
    /\ UNCHANGED <<lock, store, sock, owner, stop, stopVars, orphaned>>

Signal(p) ==
    /\ pc[p] = "serving" /\ p \notin stop
    /\ stop' = stop \cup {p}
    /\ UNCHANGED <<pc, lock, store, sock, owner, stopVars, orphaned>>

(* The listener closes first; Python 3.13 removes its path with it.        *)
CloseListener(p) ==
    /\ pc[p] = "serving" /\ p \in stop
    /\ Goto(p, "closing")
    /\ sock' \in {sock, None}
    /\ UNCHANGED <<lock, store, owner, stop, stopVars, orphaned>>

(* Handlers and the worker drain, and the worker closes the store.         *)
Drained(p) ==
    /\ pc[p] = "closing"
    /\ store' = None
    /\ Goto(p, "release")
    /\ UNCHANGED <<lock, sock, owner, stop, stopVars, orphaned>>

AcquireRelease(p) ==
    /\ pc[p] = "release" /\ lock = None
    /\ lock' = p
    /\ Goto(p, "check")
    /\ UNCHANGED <<store, sock, owner, stop, stopVars, orphaned>>

\* Mutants.
ReleaseCheckAnyOwner(p) ==
    /\ pc[p] = "check"
    /\ sock' = None
    /\ Goto(p, "unlink")
    /\ UNCHANGED <<lock, store, owner, stop, stopVars, orphaned>>
ReleaseRecordOnly(p) ==
    /\ pc[p] = "check"
    /\ \/ /\ owner = p
          /\ owner' = None
          /\ Goto(p, "unlink")
          /\ UNCHANGED lock
       \/ /\ owner # p
          /\ lock' = None
          /\ Goto(p, "gone")
          /\ UNCHANGED owner
    /\ UNCHANGED <<store, sock, stop, stopVars, orphaned>>

(* release(): decline when the record is gone or names another generation; *)
(* otherwise remove the endpoint, then the record.                         *)
ReleaseCheck(p) ==
    /\ pc[p] = "check"
    /\ \/ /\ owner = p
          /\ sock' = None
          /\ Goto(p, "unlink")
          /\ UNCHANGED lock
       \/ /\ owner # p
          /\ lock' = None
          /\ Goto(p, "gone")
          /\ UNCHANGED sock
    /\ UNCHANGED <<store, owner, stop, stopVars, orphaned>>

ReleaseRecord(p) ==
    /\ pc[p] = "unlink"
    /\ owner' = None
    /\ lock' = None
    /\ Goto(p, "gone")
    /\ UNCHANGED <<store, sock, stop, stopVars, orphaned>>

-----------------------------------------------------------------------------
(* stop_service().                                                         *)

StopAt(s, l) == spc' = [spc EXCEPT ![s] = l]

ReadTarget(s) ==
    /\ spc[s] = "off"
    /\ target' = [target EXCEPT ![s] = owner]
    /\ StopAt(s, IF owner = None THEN "not running" ELSE "send")
    /\ UNCHANGED <<pc, lock, store, sock, owner, stop, orphaned>>

(* The request reaches the listener at the endpoint, and its answer may be *)
(* lost; a service that has begun to listen reads it when it serves.       *)
(* Another generation refuses it; a service at capacity fails the command; *)
(* without a listener, or an answer, only the wait decides.                *)
SendStop(s) ==
    /\ spc[s] = "send"
    /\ \/ /\ Answers /\ sock = target[s]
          /\ stop' = stop \cup {sock}
          /\ StopAt(s, "wait")
       \/ /\ sock # None /\ pc[sock] = "serving" /\ sock # target[s]
          /\ StopAt(s, "stopped")
          /\ UNCHANGED stop
       \/ /\ Answers
          /\ StopAt(s, "error")
          /\ UNCHANGED stop
       \/ StopAt(s, "wait") /\ UNCHANGED stop
    /\ UNCHANGED <<pc, lock, store, sock, owner, target, orphaned>>

\* Mutants.
WaitGoneAtClose(s) ==
    /\ spc[s] = "wait"
    /\ \/ owner # target[s] /\ StopAt(s, "stopped")
       \/ sock = None /\ StopAt(s, "stopped")
       \/ owner = target[s] /\ OwnerIsDead /\ StopAt(s, "lock")
    /\ UNCHANGED <<pc, lock, store, sock, owner, stop, target, orphaned>>

WaitGoneRecordOnly(s) ==
    /\ spc[s] = "wait"
    /\ owner # target[s]
    /\ StopAt(s, "stopped")
    /\ UNCHANGED <<pc, lock, store, sock, owner, stop, target, orphaned>>

(* One look at the record: gone, another's, or its process is dead.        *)
WaitGone(s) ==
    /\ spc[s] = "wait"
    /\ \/ owner # target[s] /\ StopAt(s, "stopped")
       \/ owner = target[s] /\ OwnerIsDead /\ StopAt(s, "lock")
    /\ UNCHANGED <<pc, lock, store, sock, owner, stop, target, orphaned>>

Deadline(s) ==
    /\ spc[s] = "wait"
    /\ StopAt(s, "lock")
    /\ UNCHANGED <<pc, lock, store, sock, owner, stop, target, orphaned>>

AcquireStop(s) ==
    /\ spc[s] = "lock" /\ lock = None
    /\ lock' = s
    /\ StopAt(s, "check")
    /\ UNCHANGED <<pc, store, sock, owner, stop, target, orphaned>>

(* Under the lock: what is left is removed only for a dead target.         *)
StopCheck(s) ==
    /\ spc[s] = "check"
    /\ \/ /\ owner # target[s]
          /\ StopAt(s, "stopped")
          /\ lock' = None
          /\ UNCHANGED sock
       \/ /\ owner = target[s] /\ OwnerIsDead
          /\ sock' = None
          /\ StopAt(s, "unlink")
          /\ UNCHANGED lock
       \/ /\ owner = target[s] /\ ~OwnerIsDead
          /\ StopAt(s, "requested")
          /\ lock' = None
          /\ UNCHANGED sock
    /\ UNCHANGED <<pc, store, owner, stop, target, orphaned>>

StopRecord(s) ==
    /\ spc[s] = "unlink"
    /\ owner' = None
    /\ lock' = None
    /\ StopAt(s, "stopped")
    /\ UNCHANGED <<pc, store, sock, stop, target, orphaned>>

-----------------------------------------------------------------------------
(* A killed process frees its locks and leaves its files.                  *)

Freed(held, x) == IF held = x THEN None ELSE held

Crash(p) ==
    /\ pc[p] \notin {"off"} \cup Ended
    /\ orphaned' = (orphaned \/ (pc[p] = "publish" /\ owner = None))
    /\ Goto(p, "dead")
    /\ lock' = Freed(lock, p)
    /\ store' = Freed(store, p)
    /\ UNCHANGED <<sock, owner, stop, stopVars>>

StopCrash(s) ==
    /\ spc[s] \notin {"off"} \cup StopEnded
    /\ StopAt(s, "dead")
    /\ lock' = Freed(lock, s)
    /\ UNCHANGED <<pc, store, sock, owner, stop, target, orphaned>>

-----------------------------------------------------------------------------
ServerStep(p) ==
    \/ VerifyRunning(p) \/ OpenStore(p) \/ BindExclusive(p) \/ WriteOwner(p)
    \/ Run(p) \/ CloseListener(p) \/ Drained(p)
    \/ AcquireRelease(p) \/ ReleaseCheck(p) \/ ReleaseRecord(p)

StopStep(s) ==
    SendStop(s) \/ WaitGone(s) \/ AcquireStop(s) \/ StopCheck(s) \/ StopRecord(s)

Terminated ==
    /\ \A p \in Server : pc[p] \in {"serving"} \cup Ended
    /\ \A s \in Stopper : spc[s] \in StopEnded
    /\ UNCHANGED vars

Next ==
    \/ \E p \in Server : Serve(p) \/ ServerStep(p) \/ Signal(p) \/ Crash(p)
    \/ \E s \in Stopper : ReadTarget(s) \/ StopStep(s) \/ Deadline(s) \/ StopCrash(s)
    \/ Terminated

(* Processes run and bounded waits end.  Nothing obliges a command to be   *)
(* given, a signal or a death to happen, or the deadline to pass.          *)
Spec ==
    /\ Init /\ [][Next]_vars
    /\ \A p \in Server : WF_vars(ServerStep(p))
    /\ \A s \in Stopper : WF_vars(StopStep(s))

-----------------------------------------------------------------------------
(* The endpoint and the record of a service that listens stay its own: no  *)
(* start, no release of a predecessor and no stop command removes or       *)
(* replaces them.                                                          *)
ListenerKeepsEndpoint == \A p \in Server : Listening(p) => sock = p /\ owner = p

(* A stop command reports "stopped" only when the generation it names has  *)
(* drained its work and closed the store (a refused connection is not      *)
(* evidence of exit).                                                      *)
StoppedMeansDrained ==
    \A s \in Stopper : spc[s] = "stopped" =>
        /\ store # target[s]
        /\ pc[target[s]] \in {"release", "check", "unlink"} \cup Ended

(* A socket that a killed service left can be reclaimed: there is a record *)
(* that the next start can judge by, or that its living writer is about to *)
(* remove with it.  Only a death between bind and the first record leaves  *)
(* a socket that nobody may remove.                                        *)
LeftoverIsReclaimable ==
    sock # None /\ pc[sock] \in Ended /\ ~orphaned =>
        owner # None /\ ~Listening(owner)

(* A stop command whose service was told to stop does not need its         *)
(* deadline: neither start.lock nor a death keeps it waiting.              *)
StopReturns ==
    \A s \in Stopper : (spc[s] = "wait" /\ target[s] \in stop) ~> (spc[s] # "wait")
=============================================================================
