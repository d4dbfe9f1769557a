------------------------------ MODULE Bindings ------------------------------
(***************************************************************************)
(* How the bridge learns that a bound memory repository changed              *)
(* (memory_bindings.py, the binding operations of bridge.py).  A refresh     *)
(* reads the binding's row in one job, asks the memory service outside any   *)
(* transaction, and commits what it saw in another job, if the row is still  *)
(* the one it read.  Requests of the notifier's watches and of operators     *)
(* overlap; each runs in a handler of its own.                               *)
(*                                                                          *)
(* The memory service is external to this module: a store identity, a head    *)
(* and whether it answers.  Paths, process ids, paging and the health of the   *)
(* last checks, which the bridge lists for display, are left out.            *)
(***************************************************************************)
EXTENDS Inbox

CONSTANTS
    Handler,    \* control requests the bridge serves at the same time
    MaxHead,    \* bound of the model: notes of a memory store
    MaxStore,   \* bound of the model: stores a memory service ever had
    MaxStarts   \* bound of the model: starts of a memory service

ASSUME BindingsAssumption ==
    MaxHead \in Nat /\ MaxStore \in Nat \ {0} /\ MaxStarts \in Nat \ {0}

VARIABLES
    service,    \* the memory service of each binding
    observed,   \* observed_store and observed_head of the binding's row
    anomalies,  \* anomalies of the binding's row
    request,    \* what each handler is doing
    happened    \* history: what befell the service since the binding was created

rowVars == <<observed, anomalies>>
bindingsVars == <<inboxVars, service, rowVars, request, happened>>

Anomaly == {"replaced", "regressed"}
Observation == [store : 0..MaxStore, head : 0..MaxHead]
NoObservation == [store |-> 0, head |-> 0]
Row == [instance : Nat, observed : Observation, anomalies : SUBSET Anomaly]
NoRow == [instance |-> 0, observed |-> NoObservation, anomalies |-> {}]

\* What a caller is told: done; refused, try again; refused until somebody acts; the
\* bridge's own database failed.
Code == {"ok", "retry", "operator", "failure"}
Phase == {"idle", "read", "observed"} \cup Code

\* The columns of memory_binding and the stages of a request.
BindingsTypeOK ==
    /\ InboxTypeOK
    /\ service \in [Binding -> [state : {"up", "down", "broken"}, store : 1..MaxStore,
                                head : 0..MaxHead, starts : 1..MaxStarts]]
    /\ observed \in [Binding -> Observation]
    /\ anomalies \in [Binding -> SUBSET Anomaly]
    /\ \A h \in Handler :
          /\ request[h].phase \in Phase
          /\ request[h].binding \in Binding \cup {NoBinding}
          /\ request[h].row \in Row
          /\ request[h].seen \in Observation
          /\ request[h].awaited \in BOOLEAN
    /\ happened \in [Binding -> SUBSET Anomaly]

\* awaited: a watch of the notifier waits for the answer.
Idle == [phase |-> "idle", binding |-> NoBinding, row |-> NoRow, seen |-> NoObservation,
         awaited |-> FALSE]

Current(b) == [store |-> service[b].store, head |-> service[b].head]

BindingsInit ==
    /\ InboxInit
    /\ service = [b \in Binding |-> [state |-> "up", store |-> 1, head |-> 0, starts |-> 1]]
    /\ observed = [b \in Binding |-> NoObservation]
    /\ anomalies = [b \in Binding |-> {}]
    /\ request = [h \in Handler |-> Idle]
    /\ happened = [b \in Binding |-> {}]
----------------------------------------------------------------------------
(* The memory service.                                                      *)

Write(b) ==
    /\ service[b].state = "up" /\ service[b].head < MaxHead
    /\ service' = [service EXCEPT ![b].head = @ + 1]
    /\ UNCHANGED <<inboxVars, rowVars, request, happened>>

\* It stops, or answers in a way only an operator can mend; it can be started again.
Fail(b) ==
    /\ service[b].state = "up" /\ service[b].starts < MaxStarts
    /\ \E state \in {"down", "broken"} : service' = [service EXCEPT ![b].state = state]
    /\ UNCHANGED <<inboxVars, rowVars, request, happened>>

\* Each start writes a new owner record.
Start(b) ==
    /\ service[b].state # "up"
    /\ service' = [service EXCEPT ![b].state = "up", ![b].starts = @ + 1]
    /\ UNCHANGED <<inboxVars, rowVars, request, happened>>

Happens(b, anomaly) ==
    happened' = IF bound[b] = 0 THEN happened ELSE [happened EXCEPT ![b] = @ \cup {anomaly}]

\* While it is down its store is replaced by a new one or restored from a backup.
ReplaceStore(b) ==
    /\ service[b].state = "down"
    /\ \/ /\ service[b].store < MaxStore
          /\ service' = [service EXCEPT ![b].store = @ + 1, ![b].head = 0]
          /\ Happens(b, "replaced")
       \/ /\ service[b].head > 0
          /\ service' = [service EXCEPT ![b].head = @ - 1]
          /\ Happens(b, "regressed")
    /\ UNCHANGED <<inboxVars, rowVars, request>>
----------------------------------------------------------------------------
(* refresh-memory.                                                          *)

Answer(h, code) ==
    request' = [request EXCEPT ![h] =
        IF request[h].awaited
        THEN [Idle EXCEPT !.phase = code, !.binding = request[h].binding, !.awaited = TRUE]
        ELSE Idle]

\* The first job reads the row.
Ask(h, b, awaited) ==
    /\ request[h].phase = "idle"
    /\ LET asking == [Idle EXCEPT !.binding = b, !.awaited = awaited] IN
       request' = [request EXCEPT ![h] =
          IF bound[b] # 0
          THEN [asking EXCEPT !.phase = "read",
                   !.row = [instance |-> bound[b], observed |-> observed[b],
                            anomalies |-> anomalies[b]]]
          ELSE IF awaited THEN [asking EXCEPT !.phase = "operator"] ELSE Idle]
    /\ UNCHANGED <<inboxVars, service, rowVars, happened>>

\* observe(): outside any transaction.
Observe(h) ==
    LET b == request[h].binding IN
    /\ request[h].phase = "read"
    /\ \/ /\ service[b].state = "up"
          /\ request' = [request EXCEPT ![h].phase = "observed", ![h].seen = Current(b)]
       \/ /\ service[b].state # "up"
          /\ Answer(h, IF service[b].state = "broken" THEN "operator" ELSE "retry")
    /\ UNCHANGED <<inboxVars, service, rowVars, happened>>

SameLifetime(h) == bound[request[h].binding] = request[h].row.instance

\* Mutant.
SameObservationUnchecked(h) == TRUE

\* No other refresh, and no acknowledgement of an anomaly, has come in between.
SameObservation(h) ==
    /\ observed[request[h].binding] = request[h].row.observed
    /\ anomalies[request[h].binding] = request[h].row.anomalies

\* Mutant.
ReplacedRowsNone(b) == {}

\* The pointer that the new one replaces.
ReplacedRows(b) == Pointers(b)

FoundAnomalies(b, seen) ==
    anomalies[b] \cup
        {a \in Anomaly : /\ observed[b].store # 0
                         /\ \/ a = "replaced" /\ seen.store # observed[b].store
                            \/ /\ a = "regressed" /\ seen.store = observed[b].store
                               /\ seen.head < observed[b].head}

\* The second job finds another row than the first one read.
RefuseStale(h) ==
    LET b == request[h].binding IN
    /\ request[h].phase = "observed"
    /\ ~(SameLifetime(h) /\ SameObservation(h))
    /\ Answer(h, IF bound[b] = 0 THEN "operator" ELSE "retry")
    /\ UNCHANGED <<inboxVars, service, rowVars, happened>>

\* The second job.  A request that times out meanwhile is answered so, although the job
\* is carried out.
Commit(h) ==
    LET b == request[h].binding
        seen == request[h].seen IN
    /\ request[h].phase = "observed"
    /\ SameLifetime(h) /\ SameObservation(h)
    /\ IF seen = observed[b]
       THEN UNCHANGED <<inboxVars, rowVars>>
       ELSE /\ InsertRow(ReplacedRows(b), [kind |-> "memory-pointer", binding |-> b,
                                           instance |-> bound[b]])
            /\ observed' = [observed EXCEPT ![b] = seen]
            /\ anomalies' = [anomalies EXCEPT ![b] = FoundAnomalies(b, seen)]
            /\ UNCHANGED <<ack, bound, instances>>
    /\ \E code \in {"ok", "retry"} : Answer(h, code)
    /\ UNCHANGED <<service, happened>>

\* The deadline passes while the service is asked, or a job fails in the bridge's database.
GiveUp(h) ==
    /\ request[h].phase \in {"read", "observed"}
    /\ \E code \in {"retry", "failure"} : Answer(h, code)
    /\ UNCHANGED <<inboxVars, service, rowVars, happened>>
----------------------------------------------------------------------------
(* The other operations on bindings.                                        *)

\* bind-memory: the service has answered, maybe a while ago, and nothing of its answer
\* is kept.
CreateBinding(b) ==
    /\ Bind(b)
    /\ UNCHANGED <<service, rowVars, request, happened>>

\* The row goes, so a new binding starts without an observation.
RemoveBinding(b) ==
    /\ Unbind(b)
    /\ observed' = [observed EXCEPT ![b] = NoObservation]
    /\ anomalies' = [anomalies EXCEPT ![b] = {}]
    /\ happened' = [happened EXCEPT ![b] = {}]
    /\ UNCHANGED <<service, request>>

AckBindingHealth(b) ==
    /\ bound[b] # 0 /\ anomalies[b] # {}
    /\ anomalies' = [anomalies EXCEPT ![b] = {}]
    /\ UNCHANGED <<inboxVars, service, observed, request, happened>>

BindingsNext ==
    \/ \E b \in Binding :
          \/ Write(b) \/ Fail(b) \/ Start(b) \/ ReplaceStore(b)
          \/ CreateBinding(b) \/ RemoveBinding(b) \/ AckBindingHealth(b)
          \/ \E h \in Handler : Ask(h, b, FALSE)
    \/ \E h \in Handler :
          Observe(h) \/ RefuseStale(h) \/ Commit(h) \/ GiveUp(h)

BindingsSpec == BindingsInit /\ [][BindingsNext]_bindingsVars
----------------------------------------------------------------------------
(* Properties.                                                              *)

\* A recorded anomaly befell the service while this binding existed: refreshes that
\* overlap, with each other and with unbind and rebind, never take their own disorder
\* for a replaced or restored store (the comparisons of refresh()).
AnomaliesAreReal == \A b \in Binding : anomalies[b] \subseteq happened[b]

\* The two-phase refresh does to the inbox what Inbox says one committed refresh does,
\* so the notifier's model may rely on Inbox alone.
ImplementsInbox == InboxSpec
=============================================================================
