--------------------------- MODULE BridgeService ---------------------------
(***************************************************************************)
(* One bridge process: its connection handlers with their admission slots, *)
(* the database worker they submit to, and run(), which binds the control  *)
(* and the peer endpoint before it opens the inbox, and on its way out     *)
(* keeps both until accepted work has drained.  Another bridge for the     *)
(* same session, with a peer endpoint of its own, starts and leaves        *)
(* beside it and wants the same control endpoint.                          *)
(***************************************************************************)
EXTENDS DatabaseWorker, FiniteSets

CONSTANTS Requests,        \* connections made to this bridge
          KindOf,          \* [Requests -> Kinds], what each one asks
          Calls,           \* [Requests -> Nat], database operations one may lead to
          HandshakeSlots,  \* 8 in the code
          OrdinarySlots,   \* 16
          ControlSlots     \* 2

(* A peer connection; a control connection for a command; or a control     *)
(* connection for status, stop or a subscription.                          *)
Kinds == {"peer", "command", "control"}

(* A peer sends up to 32 frames; refresh-memory reads the binding, asks    *)
(* the memory service and then writes; other commands submit one job.      *)
MaxCalls == [peer |-> 32, command |-> 2, control |-> 1]

JobsOf(r) == {<<r, n>> : n \in 1..Calls[r]}

ASSUME ServiceAssumption ==
    /\ KindOf \in [Requests -> Kinds]
    /\ Calls \in [Requests -> Nat]
    /\ \A r \in Requests : Calls[r] \in 1..MaxCalls[KindOf[r]]
    /\ {HandshakeSlots, OrdinarySlots, ControlSlots} \subseteq Nat \ {0}
    /\ Jobs = UNION {JobsOf(r) : r \in Requests}
    /\ Urgent = UNION {JobsOf(r) : r \in {q \in Requests : KindOf[q] = "control"}}

VARIABLES handler,   \* the task of each connection
          slot,      \* the admission slot it holds
          counts,    \* Admission.counts
          sent,      \* jobs it has submitted
          refusing,  \* Bridge.closing
          stop,      \* the stop event
          pending,   \* the tasks drain_handlers() took with it
          phase,     \* where run() is
          path,      \* who is bound to each endpoint
          other      \* the other bridge

svars == <<handler, slot, counts, sent>>
rvars == <<refusing, stop, pending, phase, path, other>>
vars == <<wvars, svars, rvars>>

SlotKinds == {"handshake", "ordinary", "control"}
Slots(kind) == CASE kind = "handshake" -> HandshakeSlots
                 [] kind = "ordinary" -> OrdinarySlots
                 [] kind = "control" -> ControlSlots
Ends == {"control", "peer"}

ServiceTypeOK ==
    /\ WorkerTypeOK
    /\ handler \in [Requests -> {"none", "handshake", "outside", "waiting", "subscribed", "gone"}]
    /\ slot \in [Requests -> SlotKinds \cup {"none"}]
    /\ counts \in [SlotKinds -> Nat]
    /\ sent \in [Requests -> Nat] /\ \A r \in Requests : sent[r] <= Calls[r]
    /\ refusing \in BOOLEAN /\ stop \in BOOLEAN
    /\ pending \subseteq Requests
    /\ phase \in {"off", "control bound", "bound", "serving", "draining", "closing",
                  "unlinking control", "unlinking peer", "left"}
    /\ path \in [Ends -> {"none", "mine", "other"}]
    /\ other \in {"idle", "serving", "left"}

Init ==
    /\ WorkerInit
    /\ handler = [r \in Requests |-> "none"]
    /\ slot = [r \in Requests |-> "none"]
    /\ counts = [k \in SlotKinds |-> 0]
    /\ sent = [r \in Requests |-> 0]
    /\ refusing = FALSE /\ stop = FALSE
    /\ pending = {}
    /\ phase = "off"
    /\ path \in {[e \in Ends |-> "none"], [e \in Ends |-> IF e = "peer" THEN "other" ELSE "none"]}
    /\ other = "idle"

-----------------------------------------------------------------------------
(* Handlers.  Between two awaits a handler runs alone on the event loop,   *)
(* so each action is what it does from one await to the next.  "outside"   *)
(* is an await on something other than the database: a peer's next frame,  *)
(* or what the memory service or another peer answers to a command.        *)

Enter(k) == counts[k] < Slots(k)

(* Leave the slot that r holds, then take one of kind k.                   *)
Moved(r, k) ==
    [x \in SlotKinds |-> counts[x] - (IF slot[r] = x THEN 1 ELSE 0) + (IF k = x THEN 1 ELSE 0)]

\* A mutant.
GoneWithSlot(r) ==
    /\ handler' = [handler EXCEPT ![r] = "gone"]
    /\ UNCHANGED <<counts, slot>>

(* The handler's finally: it leaves its slot and the set of tasks.         *)
Gone(r) ==
    /\ handler' = [handler EXCEPT ![r] = "gone"]
    /\ counts' = Moved(r, "none")
    /\ slot' = [slot EXCEPT ![r] = "none"]

FirstSlot(r) == IF KindOf[r] = "peer" THEN "ordinary" ELSE "handshake"
Active == {r \in Requests : handler[r] \notin {"none", "gone"}}

(* A connection is accepted: refused while closing or without a free slot. *)
Connect(r) ==
    /\ phase \in {"serving", "draining", "closing"}
    /\ handler[r] = "none"
    /\ IF ~refusing /\ Enter(FirstSlot(r))
         THEN /\ handler' = [handler EXCEPT ![r] = IF KindOf[r] = "peer" THEN "outside"
                                                   ELSE "handshake"]
              /\ counts' = Moved(r, FirstSlot(r))
              /\ slot' = [slot EXCEPT ![r] = FirstSlot(r)]
         ELSE Gone(r)
    /\ UNCHANGED <<wvars, sent, rvars>>

(* Submit the next job of r, or end because the worker refuses it.         *)
Submit(r) ==
    LET job == <<r, sent[r] + 1>> IN
    \/ /\ Call(job)
       /\ sent' = [sent EXCEPT ![r] = @ + 1]
       /\ handler' = [handler EXCEPT ![r] = "waiting"]
    \/ /\ ~Accepts(job)
       /\ handler' = [handler EXCEPT ![r] = "gone"]
       /\ UNCHANGED <<wvars, sent>>

(* The request line of a control connection arrives: the handler gives its *)
(* handshake slot back, takes one for the operation and runs the command   *)
(* up to its first await.                                                  *)
ReadRequest(r) ==
    LET k == IF KindOf[r] = "command" THEN "ordinary" ELSE "control"
        held == IF handler'[r] = "gone" THEN "none" ELSE k
    IN
    /\ handler[r] = "handshake"
    /\ \/ /\ Enter(k)
          /\ Submit(r)
          /\ UNCHANGED stop
       \/ /\ Enter(k) /\ k = "ordinary"
          /\ handler' = [handler EXCEPT ![r] = "outside"]
          /\ UNCHANGED <<wvars, sent, stop>>
       \/ /\ Enter(k) /\ k = "control"
          /\ handler' = [handler EXCEPT ![r] = "gone"]
          /\ stop' = TRUE
          /\ UNCHANGED <<wvars, sent>>
       \/ /\ ~Enter(k)
          /\ handler' = [handler EXCEPT ![r] = "gone"]
          /\ UNCHANGED <<wvars, sent, stop>>
    /\ counts' = Moved(r, held)
    /\ slot' = [slot EXCEPT ![r] = held]
    /\ UNCHANGED <<refusing, pending, phase, path, other>>

(* A subscriber holds no slot while hints.serve() runs.                    *)
Subscribe(r) ==
    /\ handler[r] = "handshake"
    /\ KindOf[r] = "control"
    /\ handler' = [handler EXCEPT ![r] = "subscribed"]
    /\ counts' = Moved(r, "none")
    /\ slot' = [slot EXCEPT ![r] = "none"]
    /\ UNCHANGED <<wvars, sent, rvars>>

(* A peer's next frame arrives, or the observation a command waited for:   *)
(* the next job follows from it.                                           *)
Continue(r) ==
    /\ handler[r] = "outside"
    /\ sent[r] < Calls[r]
    /\ Submit(r)
    /\ IF handler'[r] = "gone"
         THEN counts' = Moved(r, "none") /\ slot' = [slot EXCEPT ![r] = "none"]
         ELSE UNCHANGED <<counts, slot>>
    /\ UNCHANGED rvars

(* The future of r's job is settled: a peer whose frame was stored reads   *)
(* on, and a refresh that has its binding asks the memory service; all     *)
(* others are answered, or told what the operation raised.                 *)
Answered(r) ==
    /\ handler[r] = "waiting"
    /\ result[<<r, sent[r]>>] \in Settled
    /\ \/ /\ KindOf[r] # "control" /\ result[<<r, sent[r]>>] = "settled"
          /\ handler' = [handler EXCEPT ![r] = "outside"]
          /\ UNCHANGED <<counts, slot>>
       \/ Gone(r)
    /\ UNCHANGED <<wvars, sent, rvars>>

(* A timeout, a line that is no request, the end of a peer's stream, a     *)
(* command that needs no database, a subscriber that leaves: the handler   *)
(* ends, a job it submitted does not.                                      *)
GiveUp(r) ==
    /\ r \in Active
    /\ Gone(r)
    /\ UNCHANGED <<wvars, sent, rvars>>

HandlerStep(r) == Connect(r) \/ ReadRequest(r) \/ Subscribe(r) \/ Continue(r)
                  \/ Answered(r) \/ GiveUp(r)

-----------------------------------------------------------------------------
(* run().  An endpoint that exists is never removed, so a bind that finds  *)
(* one (the other bridge's control endpoint, or the peer endpoint that a   *)
(* killed bridge with this process id left) ends the start; what was bound *)
(* before it is given back.                                                *)

Bind(e, from, to) ==
    /\ phase = from
    /\ \/ /\ path[e] = "none"
          /\ path' = [path EXCEPT ![e] = "mine"]
          /\ phase' = to
          /\ UNCHANGED refusing
       \/ /\ path[e] # "none"
          /\ phase' = "unlinking control"
          /\ refusing' = TRUE
          /\ UNCHANGED path
    /\ UNCHANGED <<wvars, svars, stop, pending, other>>

BindControl == Bind("control", "off", "control bound")
BindPeer == Bind("peer", "control bound", "bound")

(* Both endpoints are owned before the worker opens or migrates the inbox. *)
OpenInbox ==
    /\ phase = "bound"
    /\ \/ WorkerStart /\ phase' = "serving" /\ UNCHANGED refusing
       \/ phase' = "unlinking control" /\ refusing' = TRUE /\ UNCHANGED wvars
    /\ UNCHANGED <<svars, stop, pending, path, other>>

Signal ==
    /\ phase = "serving" /\ ~stop
    /\ stop' = TRUE
    /\ UNCHANGED <<wvars, svars, refusing, pending, phase, path, other>>

(* The finally of run(): handlers that start from now on are refused, and  *)
(* the ones that run are waited for.                                       *)
StopSeen ==
    /\ phase = "serving" /\ stop
    /\ refusing' = TRUE
    /\ pending' = Active
    /\ phase' = "draining"
    /\ UNCHANGED <<wvars, svars, stop, path, other>>

(* drain_handlers(): the tasks end by themselves, or are cancelled after   *)
(* ten seconds; then worker.close() stops the worker's intake.             *)
Drain ==
    /\ phase = "draining"
    /\ LET cancelled == pending \cap Active IN
         /\ handler' = [r \in Requests |-> IF r \in cancelled THEN "gone" ELSE handler[r]]
         /\ counts' = [k \in SlotKinds |->
                          counts[k] - Cardinality({r \in cancelled : slot[r] = k})]
         /\ slot' = [r \in Requests |-> IF r \in cancelled THEN "none" ELSE slot[r]]
    /\ pending' = {}
    /\ phase' = "closing"
    /\ StopAccepting
    /\ UNCHANGED <<sent, refusing, stop, path, other>>

\* A mutant.
CloseServersFirst ==
    /\ phase = "closing"
    /\ Active = {}
    /\ path' \in {path, [e \in Ends |-> IF path[e] = "mine" THEN "none" ELSE path[e]]}
    /\ phase' = "unlinking control"
    /\ UNCHANGED <<wvars, svars, refusing, stop, pending, other>>

(* The worker is done: the servers close, which removes their paths on     *)
(* Python 3.13 and leaves them on earlier versions.                        *)
CloseServers ==
    /\ phase = "closing"
    /\ thread = "done"
    /\ Active = {}
    /\ path' \in {path, [e \in Ends |-> IF path[e] = "mine" THEN "none" ELSE path[e]]}
    /\ phase' = "unlinking control"
    /\ UNCHANGED <<wvars, svars, refusing, stop, pending, other>>

\* A mutant.
UnlinkAny(e, from, to) ==
    /\ phase = from
    /\ path' = [path EXCEPT ![e] = "none"]
    /\ phase' = to
    /\ UNCHANGED <<wvars, svars, refusing, stop, pending, other>>

(* A path that still is the socket this process bound is removed.          *)
Unlink(e, from, to) ==
    /\ phase = from
    /\ path' = [path EXCEPT ![e] = IF @ = "mine" THEN "none" ELSE @]
    /\ phase' = to
    /\ UNCHANGED <<wvars, svars, refusing, stop, pending, other>>

UnlinkControl == Unlink("control", "unlinking control", "unlinking peer")
UnlinkPeer == Unlink("peer", "unlinking peer", "left")

RunStep == BindControl \/ BindPeer \/ OpenInbox \/ StopSeen \/ Drain \/ CloseServers
           \/ UnlinkControl \/ UnlinkPeer

-----------------------------------------------------------------------------
(* The other bridge has a process id, and so a peer endpoint, of its own.  *)

OtherBinds ==
    /\ other = "idle" /\ path["control"] = "none"
    /\ path' = [path EXCEPT !["control"] = "other"]
    /\ other' = "serving"

OtherLeaves ==
    /\ other = "serving"
    /\ path' = [path EXCEPT !["control"] = "none"]
    /\ other' = "left"

OtherStep ==
    /\ OtherBinds \/ OtherLeaves
    /\ UNCHANGED <<wvars, svars, refusing, stop, pending, phase>>

Next ==
    \/ \E r \in Requests : HandlerStep(r)
    \/ WorkerStep /\ UNCHANGED <<svars, rvars>>
    \/ RunStep
    \/ Signal
    \/ OtherStep
    \/ phase = "left" /\ UNCHANGED vars

(* The worker's thread and the event loop keep running, and a database     *)
(* operation ends; requests, signals and the other bridge owe nothing.     *)
Spec ==
    /\ Init /\ [][Next]_vars
    /\ WF_vars(WorkerStep /\ UNCHANGED <<svars, rvars>>)
    /\ WF_vars(RunStep)

-----------------------------------------------------------------------------
(* While the other bridge holds the control endpoint, and so may open and  *)
(* migrate the inbox, this one has closed it and owes nobody a mutation.   *)
OneInboxOwner ==
    other = "serving" => thread \in {"none", "done"} /\ \A j \in Jobs : result[j] # "pending"

(* This bridge removes no endpoint that it has not bound: not the control  *)
(* endpoint of a successor, nor a peer endpoint that was there before.     *)
OthersEndpointSurvives ==
    [][other' = other => \A e \in Ends : path[e] = "other" => path'[e] = "other"]_vars

(* Admission counts exactly the handlers that hold a slot, whichever way   *)
(* earlier handlers ended: a leak would refuse requests for good.          *)
SlotsAreReturned ==
    /\ \A k \in SlotKinds : counts[k] = Cardinality({r \in Requests : slot[r] = k})
    /\ \A r \in Requests \ Active : slot[r] = "none"

(* A bridge told to stop leaves: its handlers end or are cancelled, its    *)
(* worker drains, and both of its endpoints are given back.                *)
StopEnds == stop ~> (phase = "left" /\ \A e \in Ends : path[e] # "mine")
=============================================================================
