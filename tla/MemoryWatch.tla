---------------------------- MODULE MemoryWatch ----------------------------
(***************************************************************************)
(* The notifier's watches of bound memory repositories                       *)
(* (notification_memory.py) and the change hints that wake them              *)
(* (subscriptions.py).  A watch is two tasks: a pump that keeps a             *)
(* subscription to the memory service open and turns its frames into one      *)
(* signal, and a loop that answers a signal, or its timer, by a                *)
(* refresh-memory request to the bridge.                                      *)
(*                                                                          *)
(* A hint says only that something changed, so frames and signals that wait   *)
(* are not counted: one stands for several.                                   *)
(***************************************************************************)
EXTENDS Bindings

VARIABLES
    link,   \* the subscription of each watch, from the service's hub to the pump
    watch   \* MemoryWatches.watches

watchVars == <<link, watch>>
allVars == <<bindingsVars, watchVars>>

\* hint: one is in the hub's queue or on the socket.
NoLink == [state |-> "none", hint |-> FALSE]

\* operator_stamp: the start that wrote the owner's record; 0 for None.
Unobserved == MaxStarts + 1

\* refused: there is a reason.
NoWatch == [run |-> "off", instance |-> 0, changed |-> FALSE, blocked |-> FALSE,
            stamp |-> 0, refused |-> FALSE]

\* The parts of a watch; no subscription outlives its watch.
WatchTypeOK ==
    /\ BindingsTypeOK
    /\ link \in [Binding -> [state : {"none", "registered", "open", "stamping"},
                             hint : BOOLEAN]]
    /\ watch \in [Binding -> [run : {"off", "idle", "asking", "stamping", "dead"},
                              instance : 0..MaxInstance, changed : BOOLEAN,
                              blocked : BOOLEAN, stamp : 0..MaxStarts + 1,
                              refused : BOOLEAN]]
    /\ \A b \in Binding : watch[b].run \in {"off", "dead"} => link[b] = NoLink

WatchInit ==
    /\ BindingsInit
    /\ link = [b \in Binding |-> NoLink]
    /\ watch = [b \in Binding |-> NoWatch]
----------------------------------------------------------------------------
(* MemoryWatches.                                                           *)

\* A cancelled watch leaves its request to the bridge without a reader.
Abandoned(b) ==
    [h \in Handler |->
        IF ~(request[h].awaited /\ request[h].binding = b) THEN request[h]
        ELSE IF request[h].phase \in Code THEN Idle
        ELSE [request[h] EXCEPT !.awaited = FALSE]]

\* The loop takes its pump along when it ends.
ClosedLink(b) == [link EXCEPT ![b] = NoLink]

NewWatch(b) ==
    IF bound[b] = 0 THEN NoWatch
    ELSE [NoWatch EXCEPT !.run = "idle", !.instance = bound[b]]

\* update(): one watch per lifetime of a binding.
ReplaceWatch(b) ==
    /\ watch[b].instance # bound[b]
    /\ watch' = [watch EXCEPT ![b] = NewWatch(b)]
    /\ link' = ClosedLink(b)
    /\ request' = Abandoned(b)
    /\ UNCHANGED <<inboxVars, service, rowVars, happened>>

\* update(): the list shows that a check has succeeded, which is evidence of a repair.
\* When it does is left open.
UnblockWatch(b) ==
    /\ watch[b].instance = bound[b] /\ watch[b].blocked
    /\ watch' = [watch EXCEPT ![b].blocked = FALSE]
    /\ UNCHANGED <<bindingsVars, link>>

\* The notifier is stopped; its next update() starts new watches.
StopNotifier(b) ==
    /\ watch[b].run # "off"
    /\ watch' = [watch EXCEPT ![b] = NoWatch]
    /\ link' = ClosedLink(b)
    /\ request' = Abandoned(b)
    /\ UNCHANGED <<inboxVars, service, rowVars, happened>>
----------------------------------------------------------------------------
(* The loop.                                                                *)

\* refresh() of a blocked watch waits for a new owner record; the first one it sees
\* counts as the old one if none could be read before.
OwnerChanged(b) == watch[b].stamp \notin {Unobserved, service[b].starts}

\* A signal or the timer: the signal is taken before the request is made.
Wake(b) ==
    /\ watch[b].run = "idle"
    /\ watch[b].blocked => OwnerChanged(b)
    /\ watch' = [watch EXCEPT ![b].run = "asking", ![b].changed = FALSE, ![b].blocked = FALSE]
    /\ \E h \in Handler : Ask(h, b, TRUE)
    /\ UNCHANGED link

\* The owner's record is not read when both evidence threads are busy.
WakeBlocked(b) ==
    /\ watch[b].run = "idle" /\ watch[b].blocked
    /\ \/ watch' = [watch EXCEPT ![b].changed = FALSE]
       \/ /\ watch[b].stamp = Unobserved
          /\ watch' = [watch EXCEPT ![b].changed = FALSE, ![b].stamp = service[b].starts]
    /\ UNCHANGED <<bindingsVars, link>>

\* A code that RECOVERY does not know raises KeyError, and the watch's task ends.
TakeAnswer(b) ==
    \E h \in Handler :
        LET code == request[h].phase IN
        /\ watch[b].run = "asking"
        /\ request[h].awaited /\ request[h].binding = b /\ code \in Code
        /\ request' = [request EXCEPT ![h] = Idle]
        /\ watch' = [watch EXCEPT
               ![b].run = CASE code = "operator" -> "stamping"
                            [] code = "failure"  -> "dead"
                            [] OTHER             -> "idle",
               ![b].blocked = @ \/ code = "operator",
               ![b].refused = code # "ok"]
        /\ link' = IF code = "failure" THEN ClosedLink(b) ELSE link
        /\ UNCHANGED <<inboxVars, service, rowVars, happened>>

\* refused() reads the owner's record after the refusal.
ReadStamp(b) ==
    /\ watch[b].run = "stamping"
    /\ \E stamp \in {Unobserved, service[b].starts} :
          watch' = [watch EXCEPT ![b].run = "idle", ![b].stamp = stamp]
    /\ UNCHANGED <<bindingsVars, link>>
----------------------------------------------------------------------------
(* The pump and the hub.                                                    *)

\* open_current(): the service's hub has the queue before its answer is sent.
Connect(b) ==
    /\ watch[b].run \notin {"off", "dead"} /\ ~watch[b].blocked
    /\ link[b].state = "none"
    /\ service[b].state = "up"
    /\ link' = [link EXCEPT ![b].state = "registered"]
    /\ UNCHANGED <<bindingsVars, watch>>

ConnectRefused(b) ==
    /\ watch[b].run \notin {"off", "dead"} /\ ~watch[b].blocked
    /\ link[b].state = "none"
    /\ service[b].state = "broken"
    /\ link' = [link EXCEPT ![b].state = "stamping"]
    /\ watch' = [watch EXCEPT ![b].blocked = TRUE, ![b].refused = TRUE]
    /\ UNCHANGED bindingsVars

\* A service that is busy or unhealthy; one that is not there leaves no reason behind.
ConnectPutOff(b) ==
    /\ watch[b].run \notin {"off", "dead"} /\ ~watch[b].blocked
    /\ link[b].state = "none"
    /\ watch' = [watch EXCEPT ![b].refused = TRUE]
    /\ UNCHANGED <<bindingsVars, link>>

ReadStampPump(b) ==
    /\ link[b].state = "stamping"
    /\ \E stamp \in {Unobserved, service[b].starts} : watch' = [watch EXCEPT ![b].stamp = stamp]
    /\ link' = [link EXCEPT ![b] = NoLink]
    /\ UNCHANGED bindingsVars

\* Mutant.
RecheckNever == FALSE

\* The subscription is in place: what changed before it must be looked for.
Recheck == TRUE

Install(b) ==
    /\ link[b].state = "registered"
    /\ link' = [link EXCEPT ![b].state = "open"]
    /\ watch' = [watch EXCEPT ![b].changed = @ \/ Recheck]
    /\ UNCHANGED bindingsVars

\* notify_committed() and publish(): after a commit one hint waits in the queue, however
\* many changes there were.  publish() runs a little later; a queue that is added
\* in between gets a hint more than here.
NotifyCommitted(b) ==
    /\ Write(b)
    /\ link' = [link EXCEPT ![b].hint = link[b].state \in {"registered", "open"}]
    /\ UNCHANGED watch

\* serve(): a frame is also sent after 30 seconds without a hint.
Heartbeat(b) ==
    /\ link[b].state \in {"registered", "open"} /\ ~link[b].hint
    /\ link' = [link EXCEPT ![b].hint = TRUE]
    /\ UNCHANGED <<bindingsVars, watch>>

\* changed(): a frame becomes the one signal that waits.
ReadFrame(b) ==
    /\ link[b].state = "open" /\ link[b].hint
    /\ link' = [link EXCEPT ![b].hint = FALSE]
    /\ watch' = [watch EXCEPT ![b].changed = TRUE]
    /\ UNCHANGED bindingsVars

Disconnect(b) ==
    /\ link[b].state \in {"registered", "open"}
    /\ link' = [link EXCEPT ![b] = NoLink]
    /\ UNCHANGED <<bindingsVars, watch>>

\* A service that stops or breaks ends its subscriptions.
ServiceFails(b) ==
    /\ Fail(b)
    /\ link' = [link EXCEPT ![b] = IF @.state = "stamping" THEN @ ELSE NoLink]
    /\ UNCHANGED watch
----------------------------------------------------------------------------

ServiceAndOperator(b) ==
    /\ \/ Start(b) \/ ReplaceStore(b)
       \/ CreateBinding(b) \/ RemoveBinding(b) \/ AckBindingHealth(b)
       \/ \E h \in Handler : Ask(h, b, FALSE)
    /\ UNCHANGED watchVars

BridgeHandlers ==
    /\ \E h \in Handler :
          Observe(h) \/ RefuseStale(h) \/ Commit(h) \/ GiveUp(h)
    /\ UNCHANGED watchVars

WatchTasks(b) ==
    \/ ReplaceWatch(b) \/ UnblockWatch(b) \/ StopNotifier(b)
    \/ Wake(b) \/ WakeBlocked(b) \/ TakeAnswer(b) \/ ReadStamp(b)
    \/ Connect(b) \/ ConnectRefused(b) \/ ConnectPutOff(b)
    \/ ReadStampPump(b) \/ Install(b)

Hints(b) ==
    \/ NotifyCommitted(b) \/ Heartbeat(b) \/ ReadFrame(b) \/ Disconnect(b)
    \/ ServiceFails(b)

WatchNext ==
    \/ BridgeHandlers
    \/ \E b \in Binding : ServiceAndOperator(b) \/ WatchTasks(b) \/ Hints(b)

WatchSpec == WatchInit /\ [][WatchNext]_allVars
----------------------------------------------------------------------------
(* Properties.                                                              *)

\* The request of b's watch will see the present state, has seen it, or is refused.
Underway(b) ==
    \E h \in Handler :
        /\ request[h].awaited /\ request[h].binding = b
        /\ \/ request[h].phase \in {"read"} \cup (Code \ {"ok"})
           \/ request[h].phase = "observed" /\ request[h].seen = Current(b)

\* No lost wakeup: while a subscription is open and the last refresh was not refused, a
\* change that the bridge has not recorded has a hint on its way or a request
\* underway; the timer is needed only after a refusal.  Said of stores that have not
\* been replaced or restored since the binding was created (watch_changes(),
\* HintHub, refresh()).
NoLostWakeup ==
    \A b \in Binding :
        /\ link[b].state = "open" /\ watch[b].instance = bound[b] /\ ~watch[b].refused
        /\ happened[b] = {} /\ observed[b] # Current(b)
        => link[b].hint \/ watch[b].changed \/ Underway(b)
=============================================================================
