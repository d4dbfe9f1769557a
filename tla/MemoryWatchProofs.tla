------------------------- MODULE MemoryWatchProofs -------------------------
(***************************************************************************)
(* Refreshes of memory bindings and the watches that ask for them: overlapping *)
(* requests report only what befell the service, they do to the inbox what     *)
(* one committed refresh does, and no change is left without a wakeup.         *)
(***************************************************************************)
EXTENDS MemoryWatch, InboxProofs

Request == [phase : Phase, binding : Binding \cup {NoBinding}, row : Row, seen : Observation,
            awaited : BOOLEAN]

ServiceRecord == [state : {"up", "down", "broken"}, store : 1..MaxStore,
                  head : 0..MaxHead, starts : 1..MaxStarts]

LinkRecord == [state : {"none", "registered", "open", "stamping"}, hint : BOOLEAN]

WatchRecord == [run : {"off", "idle", "asking", "stamping", "dead"},
                instance : 0..MaxInstance, changed : BOOLEAN,
                blocked : BOOLEAN, stamp : 0..MaxStarts + 1, refused : BOOLEAN]

\* The columns; a service that does not answer can be started once more.
RowShape ==
    /\ service \in [Binding -> ServiceRecord]
    /\ observed \in [Binding -> Observation]
    /\ anomalies \in [Binding -> SUBSET Anomaly]
    /\ request \in [Handler -> Request]
    /\ happened \in [Binding -> SUBSET Anomaly]
    /\ \A b \in Binding : service[b].state # "up" => service[b].starts < MaxStarts
    /\ \A b \in Binding : bound[b] <= instances

\* A watch belongs to a lifetime that was created.
WatchShape ==
    /\ link \in [Binding -> LinkRecord]
    /\ watch \in [Binding -> WatchRecord]
    /\ \A b \in Binding :
          /\ watch[b].run \in {"off", "dead"} => link[b] = NoLink
          /\ watch[b].instance <= instances
          /\ watch[b].run = "off" <=> watch[b].instance = 0

IsWorking(r) == r.phase \in {"read", "observed"}

\* A request that is underway has read a row of some lifetime of its binding.
RowsWereRead ==
    \A h \in Handler : IsWorking(request[h]) =>
        /\ request[h].binding \in Binding
        /\ request[h].row.instance \in 1..instances

\* p was seen later than o, unless the store was replaced or restored since.
Follows(p, o, befell) ==
    o.store # 0 =>
        /\ o.store <= p.store
        /\ p.store # o.store => "replaced" \in befell
        /\ p.store = o.store /\ p.head < o.head => "regressed" \in befell

\* The row of a binding is in the past of its service.
RowsArePast ==
    \A b \in Binding :
        /\ anomalies[b] \subseteq happened[b]
        /\ Follows(Current(b), observed[b], happened[b])
        /\ bound[b] = 0 => observed[b] = NoObservation

\* What request r has read and seen is in the past of a service at now.
IsPast(r, now, befell) ==
    /\ Follows(now, r.row.observed, befell)
    /\ r.phase = "observed" =>
          /\ r.seen.store # 0
          /\ Follows(r.seen, r.row.observed, befell)
          /\ Follows(now, r.seen, befell)

\* So is what every request of the present lifetime has read and seen.
RequestsArePast ==
    \A h \in Handler : \A b \in Binding :
        IsWorking(request[h]) /\ request[h].binding = b /\ request[h].row.instance = bound[b]
        => IsPast(request[h], Current(b), happened[b])

\* The inductive invariant of the two-phase refresh.  AnomaliesAreReal alone is not
\* inductive: what a request has in hand must be in the past too.
RefreshInv == RowShape /\ RowsWereRead /\ RowsArePast /\ RequestsArePast

BindingsInv == InboxInv /\ RefreshInv

\* A blocked watch has no subscription, or was refused and asks nothing.
BlockedIsRefused ==
    \A b \in Binding : watch[b].blocked =>
        \/ link[b].state \in {"none", "stamping"}
        \/ watch[b].refused /\ watch[b].run # "asking"

\* Serves(r, b, now): r is one of the requests that Underway(b) speaks of.
Serves(r, b, now) ==
    /\ r.awaited /\ r.binding = b
    /\ \/ r.phase \in {"read"} \cup (Code \ {"ok"})
       \/ r.phase = "observed" /\ r.seen = now

Served(b) == \E h \in Handler : Serves(request[h], b, Current(b))

\* A change that is not recorded, of a watch that must learn of it.
IsBehind(b) ==
    /\ link[b].state = "open" /\ watch[b].instance = bound[b]
    /\ ~watch[b].refused \/ watch[b].run = "asking"
    /\ happened[b] = {} /\ observed[b] # Current(b)

\* NoLostWakeup while a request is out, whether or not the one before it was refused.
HintsArePending ==
    \A b \in Binding : IsBehind(b) => link[b].hint \/ watch[b].changed \/ Served(b)

WatchInv == BindingsInv /\ WatchShape /\ BlockedIsRefused /\ HintsArePending
----------------------------------------------------------------------------
(* What a step does to the tables of the bridge.                            *)

\* No request reads or sees anything: each keeps what it has, or has ended.
Forget ==
    /\ UNCHANGED <<inboxVars, service, rowVars, happened>>
    /\ request' \in [Handler -> Request]
    /\ \A h \in Handler : IsWorking(request'[h]) =>
          \E awaited \in BOOLEAN : request'[h] = [request[h] EXCEPT !.awaited = awaited]

\* A step of the bridge, of a memory service or of what the notifier asks of them.
TableStep ==
    \/ UNCHANGED bindingsVars
    \/ \E b \in Binding :
          \/ Write(b) \/ Fail(b) \/ Start(b) \/ ReplaceStore(b)
          \/ CreateBinding(b) \/ RemoveBinding(b) \/ AckBindingHealth(b)
          \/ \E h \in Handler : \E awaited \in BOOLEAN : Ask(h, b, awaited)
    \/ \E h \in Handler : Observe(h) \/ RefuseStale(h) \/ Commit(h) \/ GiveUp(h)
    \/ \E b \in Binding : request' = Abandoned(b) /\ UNCHANGED <<inboxVars, service, rowVars, happened>>
    \/ \E h \in Handler : /\ request' = [request EXCEPT ![h] = Idle]
                          /\ UNCHANGED <<inboxVars, service, rowVars, happened>>

\* Every step of the watches is one of these to the bridge.
LEMMA WatchStepIsTableStep ==
    ASSUME [WatchNext]_allVars
    PROVE  TableStep
  <1>1. CASE UNCHANGED allVars
    BY <1>1 DEF allVars, TableStep
  <1>2. CASE BridgeHandlers
    BY <1>2 DEF BridgeHandlers, TableStep
  <1>3. ASSUME NEW b \in Binding, ServiceAndOperator(b) PROVE TableStep
    BY <1>3 DEF ServiceAndOperator, TableStep
  <1>4. ASSUME NEW b \in Binding, WatchTasks(b) PROVE TableStep
    BY <1>4 DEF WatchTasks, TableStep, ReplaceWatch, UnblockWatch, StopNotifier, Wake, WakeBlocked,
                TakeAnswer, ReadStamp, Connect, ConnectRefused, ConnectPutOff, ReadStampPump, Install
  <1>5. ASSUME NEW b \in Binding, Hints(b) PROVE TableStep
    BY <1>5 DEF Hints, TableStep, NotifyCommitted, Heartbeat, ReadFrame, Disconnect, ServiceFails
  <1>. QED  BY <1>1, <1>2, <1>3, <1>4, <1>5 DEF WatchNext

\* The idle request is one.
LEMMA IdleIsRequest == Idle \in Request /\ ~IsWorking(Idle)
  BY InboxAssumption, BindingsAssumption
     DEF Idle, Request, Phase, Code, Row, NoRow, NoObservation, Observation, IsWorking, Anomaly

\* An answered request has ended.
LEMMA AnswerEnds ==
    ASSUME RowShape, NEW h \in Handler, NEW code \in Code, Answer(h, code)
    PROVE  /\ request' \in [Handler -> Request]
           /\ ~IsWorking(request'[h])
           /\ \A k \in Handler : k # h => request'[k] = request[k]
           /\ request[h].awaited =>
                 /\ request'[h].awaited /\ request'[h].binding = request[h].binding
                 /\ request'[h].phase = code
  <1>1. request[h] \in Request
    BY DEF RowShape
  <1>. DEFINE told == [Idle EXCEPT !.phase = code, !.binding = request[h].binding, !.awaited = TRUE]
  <1>2. /\ told \in Request /\ ~IsWorking(told)
        /\ told.awaited /\ told.binding = request[h].binding /\ told.phase = code
    <2>1. code \in Phase /\ code \notin {"read", "observed"}
      BY DEF Phase, Code
    <2>2. told \in Request /\ told.awaited = TRUE /\ told.binding = request[h].binding
          /\ told.phase = code
      BY <1>1, <2>1, IdleIsRequest DEF Request
    <2>. HIDE DEF told
    <2>. QED  BY <2>1, <2>2 DEF IsWorking
  <1>3. request' = [request EXCEPT ![h] = IF request[h].awaited THEN told ELSE Idle]
    BY DEF Answer
  <1>. HIDE DEF told
  <1>. QED  BY <1>2, <1>3, IdleIsRequest DEF RowShape

\* So an answer that changes nothing else forgets.
LEMMA AnswerForgets ==
    ASSUME RowShape, NEW h \in Handler, NEW code \in Code, Answer(h, code),
           UNCHANGED <<inboxVars, service, rowVars, happened>>
    PROVE  Forget
  <1>1. /\ request' \in [Handler -> Request]
        /\ ~IsWorking(request'[h])
        /\ \A k \in Handler : k # h => request'[k] = request[k]
    BY AnswerEnds
  <1>2. \A k \in Handler : request[k] = [request[k] EXCEPT !.awaited = request[k].awaited]
                           /\ request[k].awaited \in BOOLEAN
    BY DEF RowShape, Request
  <1>. QED  BY <1>1, <1>2 DEF Forget

\* The requests of a cancelled watch.
LEMMA AbandonForgets ==
    ASSUME RowShape, NEW b \in Binding, request' = Abandoned(b),
           UNCHANGED <<inboxVars, service, rowVars, happened>>
    PROVE  /\ Forget
           /\ \A h \in Handler : ~(request[h].awaited /\ request[h].binding = b)
                                 => request'[h] = request[h]
  <1>1. \A h \in Handler :
           /\ request'[h] \in Request
           /\ IsWorking(request'[h]) =>
                \E awaited \in BOOLEAN : request'[h] = [request[h] EXCEPT !.awaited = awaited]
           /\ ~(request[h].awaited /\ request[h].binding = b) => request'[h] = request[h]
    <2>. SUFFICES ASSUME NEW h \in Handler
                  PROVE  /\ request'[h] \in Request
                         /\ IsWorking(request'[h]) =>
                              \E awaited \in BOOLEAN :
                                 request'[h] = [request[h] EXCEPT !.awaited = awaited]
                         /\ ~(request[h].awaited /\ request[h].binding = b)
                              => request'[h] = request[h]
      OBVIOUS
    <2>1. request[h] \in Request
      BY DEF RowShape
    <2>2. request[h] = [request[h] EXCEPT !.awaited = request[h].awaited]
          /\ request[h].awaited \in BOOLEAN
      BY <2>1 DEF Request
    <2>3. [request[h] EXCEPT !.awaited = FALSE] \in Request
      BY <2>1 DEF Request
    <2>4. request'[h] \in {request[h], Idle, [request[h] EXCEPT !.awaited = FALSE]}
          /\ (~(request[h].awaited /\ request[h].binding = b) => request'[h] = request[h])
      BY DEF Abandoned
    <2>. QED  BY <2>1, <2>2, <2>3, <2>4, IdleIsRequest
  <1>2. request' \in [Handler -> Request]
    BY <1>1 DEF Abandoned
  <1>. QED  BY <1>1, <1>2 DEF Forget
\* An answer that is taken has ended too.
LEMMA TakenForgets ==
    ASSUME RowShape, NEW h \in Handler, request' = [request EXCEPT ![h] = Idle],
           UNCHANGED <<inboxVars, service, rowVars, happened>>
    PROVE  Forget
  <1>1. \A k \in Handler : request[k] = [request[k] EXCEPT !.awaited = request[k].awaited]
                           /\ request[k].awaited \in BOOLEAN
    BY DEF RowShape, Request
  <1>. QED  BY <1>1, IdleIsRequest DEF RowShape, Forget

\* A service that is not up leaves only an answer; one that is up is seen.
LEMMA ObserveSees ==
    ASSUME RowShape, RowsWereRead, NEW h \in Handler, Observe(h)
    PROVE  LET b == request[h].binding IN
           /\ b \in Binding /\ UNCHANGED <<inboxVars, service, rowVars, happened>>
           /\ \/ request' = [request EXCEPT ![h].phase = "observed", ![h].seen = Current(b)]
              \/ \E code \in {"retry", "operator"} : Answer(h, code)
  BY DEF Observe, RowsWereRead, IsWorking

\* What an asking handler has read.
LEMMA AskReads ==
    ASSUME RowShape, InboxInv, NEW h \in Handler, NEW b \in Binding, NEW awaited \in BOOLEAN,
           Ask(h, b, awaited)
    PROVE  /\ request' \in [Handler -> Request]
           /\ \A k \in Handler : k # h => request'[k] = request[k]
           /\ IsWorking(request'[h]) =>
                 /\ request'[h].phase = "read" /\ request'[h].binding = b
                 /\ bound[b] # 0
                 /\ request'[h].row.instance = bound[b]
                 /\ request'[h].row.observed = observed[b]
           /\ awaited => Serves(request'[h], b, Current(b))
           /\ request[h].phase = "idle"
           /\ UNCHANGED <<inboxVars, service, rowVars, happened>>
  <1>. DEFINE row == [instance |-> bound[b], observed |-> observed[b], anomalies |-> anomalies[b]]
              asking == [Idle EXCEPT !.binding = b, !.awaited = awaited]
              reading == [asking EXCEPT !.phase = "read", !.row = row]
              refusing == [asking EXCEPT !.phase = "operator"]
  <1>1. request' = [request EXCEPT ![h] = IF bound[b] # 0 THEN reading
                                          ELSE IF awaited THEN refusing ELSE Idle]
    BY DEF Ask
  <1>2. row \in Row
    <2>1. bound[b] \in Nat
      BY InboxAssumption DEF InboxInv, InboxTypeOK
    <2>. QED  BY <2>1 DEF RowShape, Row
  <1>4. row.instance = bound[b] /\ row.observed = observed[b]
    OBVIOUS
  <1>. HIDE DEF row
  <1>5. /\ reading \in Request /\ reading.phase = "read" /\ reading.binding = b
        /\ reading.awaited = awaited /\ reading.row = row
    BY <1>2, IdleIsRequest DEF Request, Phase
  <1>6. /\ refusing \in Request /\ refusing.phase = "operator" /\ refusing.binding = b
        /\ refusing.awaited = awaited
    BY IdleIsRequest DEF Request, Phase, Code
  <1>. HIDE DEF asking, reading, refusing
  <1>7. /\ request' \in [Handler -> Request]
        /\ \A k \in Handler : k # h => request'[k] = request[k]
        /\ request'[h] = IF bound[b] # 0 THEN reading ELSE IF awaited THEN refusing ELSE Idle
    BY <1>1, <1>5, <1>6, IdleIsRequest DEF RowShape
  <1>8. awaited => Serves(reading, b, Current(b)) /\ Serves(refusing, b, Current(b))
    BY <1>5, <1>6 DEF Serves, Code
  <1>9. ~IsWorking(refusing)
    BY <1>6 DEF IsWorking
  <1>10. awaited => Serves(request'[h], b, Current(b))
    BY <1>7, <1>8
  <1>11. IsWorking(request'[h]) => request'[h] = reading /\ bound[b] # 0
    BY <1>7, <1>9, IdleIsRequest
  <1>. QED  BY <1>4, <1>5, <1>7, <1>10, <1>11 DEF Ask
----------------------------------------------------------------------------
(* What follows what.                                                       *)

\* A later observation of the same service stays later when it writes.
LEMMA FollowsWhenWritten ==
    ASSUME NEW p \in Observation, NEW q \in Observation, NEW o \in Observation,
           NEW befell, NEW after, befell \subseteq after,
           q.store = p.store, p.head <= q.head, Follows(p, o, befell)
    PROVE  Follows(q, o, after)
  BY BindingsAssumption DEF Follows, Observation

\* A replaced store is later than all before it, and that is on record.
LEMMA FollowsWhenReplaced ==
    ASSUME NEW p \in Observation, NEW q \in Observation, NEW o \in Observation,
           NEW befell, NEW after, befell \subseteq after, "replaced" \in after,
           p.store < q.store, Follows(p, o, befell)
    PROVE  Follows(q, o, after)
  BY BindingsAssumption DEF Follows, Observation

\* So is a store that was restored.
LEMMA FollowsWhenRestored ==
    ASSUME NEW p \in Observation, NEW q \in Observation, NEW o \in Observation,
           NEW befell, NEW after, befell \subseteq after, "regressed" \in after,
           p.store = q.store, Follows(p, o, befell)
    PROVE  Follows(q, o, after)
  BY BindingsAssumption DEF Follows, Observation

\* What is observed now is not later than now.
LEMMA FollowsItself ==
    ASSUME NEW p \in Observation, NEW befell
    PROVE  Follows(p, p, befell)
  BY BindingsAssumption DEF Follows, Observation

\* When nothing befell the service, two observations that follow each other are one.
LEMMA FollowsBothWays ==
    ASSUME NEW p \in Observation, NEW q \in Observation, p.store # 0, q.store # 0,
           Follows(p, q, {}), Follows(q, p, {})
    PROVE  p = q
  <1>1. p.store = q.store /\ p.head = q.head
    BY BindingsAssumption DEF Follows, Observation
  <1>. QED  BY <1>1 DEF Observation

\* What a service shows is an observation.
LEMMA CurrentIsSeen ==
    ASSUME RowShape, NEW b \in Binding
    PROVE  Current(b) \in Observation /\ Current(b).store # 0
  <1>1. service[b].store \in 0..MaxStore /\ service[b].store # 0 /\ service[b].head \in 0..MaxHead
    BY BindingsAssumption DEF RowShape, ServiceRecord
  <1>. QED  BY <1>1 DEF Current, Observation----------------------------------------------------------------------------
(* The bridge's inbox.                                                      *)

\* A job that commits an observation is a refresh, and nothing else that the handlers do
\* touches the inbox: each step is a step of Inbox or none.
LEMMA TableStepIsInboxStep ==
    ASSUME RowShape, RowsWereRead, TableStep
    PROVE  [InboxNext]_inboxVars
  <1>1. ASSUME NEW h \in Handler, Commit(h) PROVE [InboxNext]_inboxVars
    <2>1. PICK b \in Binding : b = request[h].binding
      BY <1>1 DEF Commit, RowsWereRead, IsWorking
    <2>2. bound[b] # 0
      BY <1>1, <2>1 DEF Commit, SameLifetime, RowsWereRead, IsWorking
    <2>3. UNCHANGED inboxVars \/ Refresh(b)
      BY <1>1, <2>1, <2>2, Zenon DEF Commit, Refresh, ReplacedRows
    <2>. QED  BY <2>3, Zenon DEF InboxNext
  <1>2. ASSUME NEW b \in Binding,
               \/ Write(b) \/ Fail(b) \/ Start(b) \/ ReplaceStore(b) \/ AckBindingHealth(b)
               \/ \E h \in Handler : \E awaited \in BOOLEAN : Ask(h, b, awaited)
        PROVE UNCHANGED inboxVars
    BY <1>2, Zenon DEF Write, Fail, Start, ReplaceStore, AckBindingHealth, Ask
  <1>3. ASSUME NEW b \in Binding, CreateBinding(b) \/ RemoveBinding(b) PROVE InboxNext
    BY <1>3, Zenon DEF CreateBinding, RemoveBinding, InboxNext
  <1>4. ASSUME NEW h \in Handler, Observe(h) \/ RefuseStale(h) \/ GiveUp(h)
        PROVE UNCHANGED inboxVars
    BY <1>4, Zenon DEF Observe, RefuseStale, GiveUp
  <1>5. UNCHANGED bindingsVars => UNCHANGED inboxVars
    BY DEF bindingsVars
  <1>. QED  BY <1>1, <1>2, <1>3, <1>4, <1>5, Zenon DEF TableStep
----------------------------------------------------------------------------
(* The refresh keeps its invariant.                                         *)

\* Requests that forget leave the rows as they are, and what they keep is as past as it was.
LEMMA ForgetKeeps ==
    ASSUME RefreshInv, Forget
    PROVE  RefreshInv'
  <1>1. UNCHANGED <<bound, instances, service, observed, anomalies, happened>>
    BY DEF Forget, inboxVars, rowVars
  <1>2. \A h \in Handler : IsWorking(request'[h]) =>
           /\ request'[h].phase = request[h].phase /\ request'[h].binding = request[h].binding
           /\ request'[h].row = request[h].row /\ request'[h].seen = request[h].seen
           /\ IsWorking(request[h])
    <2>. SUFFICES ASSUME NEW h \in Handler, IsWorking(request'[h])
                  PROVE  /\ request'[h].phase = request[h].phase
                         /\ request'[h].binding = request[h].binding
                         /\ request'[h].row = request[h].row /\ request'[h].seen = request[h].seen
                         /\ IsWorking(request[h])
      OBVIOUS
    <2>1. PICK awaited \in BOOLEAN : request'[h] = [request[h] EXCEPT !.awaited = awaited]
      BY DEF Forget
    <2>2. request[h] \in Request
      BY DEF RefreshInv, RowShape
    <2>. QED  BY <2>1, <2>2 DEF Request, IsWorking
  <1>3. RowShape'
    BY <1>1 DEF RefreshInv, RowShape, Forget
  <1>4. RowsWereRead'
    BY <1>1, <1>2 DEF RefreshInv, RowsWereRead
  <1>5. \A b \in Binding : Current(b)' = Current(b)
    BY <1>1 DEF Current
  <1>6. RowsArePast'
    BY <1>1, <1>5 DEF RefreshInv, RowsArePast
  <1>7. RequestsArePast'
    BY <1>1, <1>2, <1>5 DEF RefreshInv, RequestsArePast, IsPast
  <1>. QED  BY <1>3, <1>4, <1>6, <1>7 DEF RefreshInv

\* A service that becomes q is in the future of the rows and of what requests have seen.
LEMMA ServiceKeeps ==
    ASSUME RefreshInv, NEW c \in Binding, NEW q \in ServiceRecord,
           service' = [service EXCEPT ![c] = q],
           q.state # "up" => q.starts < MaxStarts,
           UNCHANGED <<inboxVars, rowVars, request>>,
           happened' \in [Binding -> SUBSET Anomaly],
           \A b \in Binding : b # c => happened'[b] = happened[b],
           happened[c] \subseteq happened'[c],
           bound[c] # 0 => \A o \in Observation :
                 Follows(Current(c), o, happened[c]) => Follows(Current(c)', o, happened'[c])
    PROVE  RefreshInv'
  <1>1. UNCHANGED <<bound, instances, observed, anomalies, request>>
    BY DEF inboxVars, rowVars
  <1>2. /\ service' \in [Binding -> ServiceRecord]
        /\ service'[c] = q /\ \A b \in Binding : b # c => service'[b] = service[b]
    BY DEF RefreshInv, RowShape
  <1>3. RowShape'
    BY <1>1, <1>2 DEF RefreshInv, RowShape
  <1>4. RowsWereRead'
    BY <1>1 DEF RefreshInv, RowsWereRead
  <1>5. \A b \in Binding : b # c => Current(b)' = Current(b)
    BY <1>2 DEF Current
  <1>6. RowsArePast'
    <2>. SUFFICES ASSUME NEW b \in Binding
                  PROVE  /\ anomalies[b] \subseteq happened'[b]
                         /\ Follows(Current(b)', observed[b], happened'[b])
                         /\ bound[b] = 0 => observed[b] = NoObservation
      BY <1>1 DEF RowsArePast
    <2>1. /\ anomalies[b] \subseteq happened[b] /\ Follows(Current(b), observed[b], happened[b])
          /\ bound[b] = 0 => observed[b] = NoObservation
          /\ observed[b] \in Observation
      BY DEF RefreshInv, RowsArePast, RowShape
    <2>2. happened[b] \subseteq happened'[b]
      OBVIOUS
    <2>3. CASE b = c /\ bound[c] = 0
      BY <2>1, <2>2, <2>3 DEF Follows, NoObservation
    <2>4. CASE b = c /\ bound[c] # 0
      BY <2>1, <2>2, <2>4
    <2>5. CASE b # c
      BY <2>1, <2>2, <2>5, <1>5
    <2>. QED  BY <2>3, <2>4, <2>5
  <1>7. RequestsArePast'
    <2>. SUFFICES ASSUME NEW h \in Handler, NEW b \in Binding,
                         IsWorking(request[h]), request[h].binding = b,
                         request[h].row.instance = bound[b]
                  PROVE  IsPast(request[h], Current(b)', happened'[b])
      BY <1>1 DEF RequestsArePast
    <2>1. IsPast(request[h], Current(b), happened[b])
      BY DEF RefreshInv, RequestsArePast
    <2>2. bound[b] # 0
      BY DEF RefreshInv, RowsWereRead
    <2>3. request[h].row.observed \in Observation /\ request[h].seen \in Observation
      BY DEF RefreshInv, RowShape, Request, Row
    <2>4. CASE b = c
      <3>1. happened[b] \subseteq happened'[b]
        BY <2>4
      <3>2. Follows(Current(b)', request[h].row.observed, happened'[b])
        BY <2>1, <2>2, <2>3, <2>4 DEF IsPast
      <3>3. request[h].phase = "observed" => Follows(Current(b)', request[h].seen, happened'[b])
        BY <2>1, <2>2, <2>3, <2>4 DEF IsPast
      <3>4. request[h].phase = "observed" =>
               Follows(request[h].seen, request[h].row.observed, happened'[b])
        BY <2>1, <3>1 DEF IsPast, Follows
      <3>. QED  BY <2>1, <3>2, <3>3, <3>4 DEF IsPast
    <2>5. CASE b # c
      BY <2>1, <2>5, <1>5
    <2>. QED  BY <2>4, <2>5
  <1>. QED  BY <1>3, <1>4, <1>6, <1>7 DEF RefreshInv

\* The service writes, stops, starts, or loses its store.
LEMMA ServiceStepKeeps ==
    ASSUME RefreshInv, InboxInv, NEW b \in Binding,
           Write(b) \/ Fail(b) \/ Start(b) \/ ReplaceStore(b)
    PROVE  RefreshInv'
  <1>1. service \in [Binding -> ServiceRecord] /\ service[b] \in ServiceRecord
        /\ happened \in [Binding -> SUBSET Anomaly]
        /\ (service[b].state # "up" => service[b].starts < MaxStarts)
    BY DEF RefreshInv, RowShape
  <1>2. \A q \in ServiceRecord : service' = [service EXCEPT ![b] = q] =>
           /\ Current(b)' = [store |-> q.store, head |-> q.head]
           /\ Current(b)'.store = q.store /\ Current(b)'.head = q.head
           /\ Current(b)' \in Observation
    BY <1>1, BindingsAssumption DEF Current, ServiceRecord, Observation
  <1>3. /\ Current(b) \in Observation
        /\ Current(b).store = service[b].store /\ Current(b).head = service[b].head
        /\ service[b].store \in 1..MaxStore /\ service[b].head \in 0..MaxHead
    BY <1>1, CurrentIsSeen DEF RefreshInv, Current, ServiceRecord
  <1>4. CASE Write(b)
    <2>. DEFINE q == [service[b] EXCEPT !.head = @ + 1]
    <2>1. /\ q \in ServiceRecord /\ q.state = service[b].state /\ q.store = service[b].store
          /\ q.head = service[b].head + 1 /\ q.starts = service[b].starts
      BY <1>1, <1>4, BindingsAssumption DEF Write, ServiceRecord
    <2>2. service' = [service EXCEPT ![b] = q]
      BY <1>4 DEF Write
    <2>. HIDE DEF q
    <2>3. /\ Current(b)' \in Observation /\ Current(b)'.store = Current(b).store
          /\ Current(b).head <= Current(b)'.head
      <3>1. Current(b)' \in Observation /\ Current(b)'.store = q.store /\ Current(b)'.head = q.head
        BY <1>2, <2>1, <2>2, Zenon
      <3>2. service[b].head \in Nat
        BY <1>3
      <3>. QED  BY <1>3, <2>1, <3>1, <3>2
    <2>4. UNCHANGED <<inboxVars, rowVars, request>> /\ happened' = happened
      BY <1>4 DEF Write
    <2>5. \A o \in Observation :
             Follows(Current(b), o, happened[b]) => Follows(Current(b)', o, happened'[b])
      BY <1>3, <2>3, <2>4, FollowsWhenWritten
    <2>. QED  BY <1>1, <2>1, <2>2, <2>4, <2>5, ServiceKeeps
  <1>5. CASE Fail(b)
    <2>1. PICK state \in {"down", "broken"} : service' = [service EXCEPT ![b].state = state]
      BY <1>5 DEF Fail
    <2>. DEFINE q == [service[b] EXCEPT !.state = state]
    <2>2. /\ q \in ServiceRecord /\ q.state = state /\ q.store = service[b].store
          /\ q.head = service[b].head /\ q.starts = service[b].starts
      BY <1>1 DEF ServiceRecord
    <2>3. service' = [service EXCEPT ![b] = q]
      BY <2>1
    <2>. HIDE DEF q
    <2>4. Current(b)' = Current(b)
      BY <1>2, <2>2, <2>3 DEF Current
    <2>5. UNCHANGED <<inboxVars, rowVars, request>> /\ happened' = happened
          /\ service[b].starts < MaxStarts
      BY <1>5 DEF Fail
    <2>. QED  BY <1>1, <2>2, <2>3, <2>4, <2>5, ServiceKeeps
  <1>6. CASE Start(b)
    <2>. DEFINE q == [service[b] EXCEPT !.state = "up", !.starts = @ + 1]
    <2>1. /\ q \in ServiceRecord /\ q.state = "up" /\ q.store = service[b].store
          /\ q.head = service[b].head
      BY <1>1, <1>6, BindingsAssumption DEF Start, ServiceRecord
    <2>2. service' = [service EXCEPT ![b] = q]
      BY <1>6 DEF Start
    <2>. HIDE DEF q
    <2>3. Current(b)' = Current(b)
      BY <1>2, <2>1, <2>2 DEF Current
    <2>4. UNCHANGED <<inboxVars, rowVars, request>> /\ happened' = happened
      BY <1>6 DEF Start
    <2>. QED  BY <1>1, <2>1, <2>2, <2>3, <2>4, ServiceKeeps
  <1>7. ASSUME NEW anomaly \in Anomaly, Happens(b, anomaly)
        PROVE  /\ happened' \in [Binding -> SUBSET Anomaly]
               /\ \A c \in Binding : c # b => happened'[c] = happened[c]
               /\ happened[b] \subseteq happened'[b]
               /\ bound[b] # 0 => anomaly \in happened'[b]
    BY <1>1, <1>7 DEF Happens
  <1>8. ASSUME service[b].state = "down", service[b].store < MaxStore, Happens(b, "replaced"),
               service' = [service EXCEPT ![b].store = @ + 1, ![b].head = 0],
               UNCHANGED <<inboxVars, rowVars, request>>
        PROVE  RefreshInv'
    <2>. DEFINE q == [service[b] EXCEPT !.store = @ + 1, !.head = 0]
    <2>1. /\ q \in ServiceRecord /\ q.state = service[b].state /\ q.store = service[b].store + 1
          /\ q.head = 0 /\ q.starts = service[b].starts
      <3>1. service[b].store + 1 \in 1..MaxStore /\ 0 \in 0..MaxHead
        BY <1>3, <1>8, BindingsAssumption
      <3>. QED  BY <1>1, <3>1 DEF ServiceRecord
    <2>2. service' = [service EXCEPT ![b] = q]
      BY <1>8
    <2>. HIDE DEF q
    <2>3. Current(b)' \in Observation /\ Current(b).store < Current(b)'.store
      <3>1. Current(b)' \in Observation /\ Current(b)'.store = q.store
        BY <1>2, <2>1, <2>2, Zenon
      <3>2. service[b].store \in Nat
        BY <1>3
      <3>. QED  BY <1>3, <2>1, <3>1, <3>2
    <2>4. /\ happened' \in [Binding -> SUBSET Anomaly]
          /\ \A c \in Binding : c # b => happened'[c] = happened[c]
          /\ happened[b] \subseteq happened'[b]
          /\ bound[b] # 0 => "replaced" \in happened'[b]
      BY <1>7, <1>8 DEF Anomaly
    <2>5. bound[b] # 0 => \A o \in Observation :
             Follows(Current(b), o, happened[b]) => Follows(Current(b)', o, happened'[b])
      BY <1>3, <2>3, <2>4, FollowsWhenReplaced
    <2>. QED  BY <1>1, <1>8, <2>1, <2>2, <2>4, <2>5, ServiceKeeps
  <1>9. ASSUME service[b].state = "down", service[b].head > 0, Happens(b, "regressed"),
               service' = [service EXCEPT ![b].head = @ - 1],
               UNCHANGED <<inboxVars, rowVars, request>>
        PROVE  RefreshInv'
    <2>. DEFINE q == [service[b] EXCEPT !.head = @ - 1]
    <2>1. /\ q \in ServiceRecord /\ q.state = service[b].state /\ q.store = service[b].store
          /\ q.starts = service[b].starts
      BY <1>1, <1>9, BindingsAssumption DEF ServiceRecord
    <2>2. service' = [service EXCEPT ![b] = q]
      BY <1>9
    <2>. HIDE DEF q
    <2>3. Current(b)' \in Observation /\ Current(b).store = Current(b)'.store
      BY <1>2, <1>3, <2>1, <2>2
    <2>4. /\ happened' \in [Binding -> SUBSET Anomaly]
          /\ \A c \in Binding : c # b => happened'[c] = happened[c]
          /\ happened[b] \subseteq happened'[b]
          /\ bound[b] # 0 => "regressed" \in happened'[b]
      BY <1>7, <1>9 DEF Anomaly
    <2>5. bound[b] # 0 => \A o \in Observation :
             Follows(Current(b), o, happened[b]) => Follows(Current(b)', o, happened'[b])
      BY <1>3, <2>3, <2>4, FollowsWhenRestored
    <2>. QED  BY <1>1, <1>9, <2>1, <2>2, <2>4, <2>5, ServiceKeeps
  <1>10. CASE ReplaceStore(b)
    BY <1>8, <1>9, <1>10 DEF ReplaceStore
  <1>. QED  BY <1>4, <1>5, <1>6, <1>10
\* A new binding has no observation yet, and no request of it is underway.
LEMMA CreateKeeps ==
    ASSUME RefreshInv, InboxInv, NEW c \in Binding, CreateBinding(c)
    PROVE  RefreshInv'
  <1>1. /\ UNCHANGED <<service, observed, anomalies, request, happened>>
        /\ bound[c] = 0 /\ instances \in Nat /\ instances' = instances + 1
        /\ bound \in [Binding -> Nat]
        /\ bound' = [bound EXCEPT ![c] = instances + 1]
    BY InboxAssumption DEF CreateBinding, Bind, rowVars, InboxInv, InboxTypeOK
  <1>2. bound'[c] = instances + 1 /\ \A b \in Binding : b # c => bound'[b] = bound[b]
    BY <1>1
  <1>3. RowShape'
    BY <1>1, <1>2 DEF RefreshInv, RowShape
  <1>4. RowsWereRead'
    BY <1>1 DEF RefreshInv, RowsWereRead
  <1>5. \A b \in Binding : Current(b)' = Current(b)
    BY <1>1 DEF Current
  <1>6. RowsArePast'
    BY <1>1, <1>2, <1>5 DEF RefreshInv, RowsArePast
  <1>7. RequestsArePast'
    <2>. SUFFICES ASSUME NEW h \in Handler, NEW b \in Binding,
                         IsWorking(request[h]), request[h].binding = b,
                         request[h].row.instance = bound'[b]
                  PROVE  IsPast(request[h], Current(b), happened[b])
      BY <1>1, <1>5 DEF RequestsArePast
    <2>1. request[h].row.instance \in 1..instances
      BY DEF RefreshInv, RowsWereRead
    <2>2. b # c
      BY <1>1, <1>2, <2>1
    <2>. QED  BY <1>2, <2>2 DEF RefreshInv, RequestsArePast
  <1>. QED  BY <1>3, <1>4, <1>6, <1>7 DEF RefreshInv

\* The history ends with the row, and with the lifetime that requests have read.
LEMMA RemoveKeeps ==
    ASSUME RefreshInv, InboxInv, NEW c \in Binding, RemoveBinding(c)
    PROVE  RefreshInv'
  <1>1. /\ UNCHANGED <<service, request, instances>>
        /\ instances \in Nat /\ bound \in [Binding -> Nat]
        /\ bound' = [bound EXCEPT ![c] = 0]
        /\ observed' = [observed EXCEPT ![c] = NoObservation]
        /\ anomalies' = [anomalies EXCEPT ![c] = {}]
        /\ happened' = [happened EXCEPT ![c] = {}]
    BY InboxAssumption DEF RemoveBinding, Unbind, InboxInv, InboxTypeOK
  <1>2. /\ observed \in [Binding -> Observation] /\ anomalies \in [Binding -> SUBSET Anomaly]
        /\ happened \in [Binding -> SUBSET Anomaly] /\ NoObservation \in Observation
    BY BindingsAssumption DEF RefreshInv, RowShape, NoObservation, Observation
  <1>3. /\ bound'[c] = 0 /\ observed'[c] = NoObservation /\ anomalies'[c] = {}
        /\ \A b \in Binding : b # c =>
              /\ bound'[b] = bound[b] /\ observed'[b] = observed[b]
              /\ anomalies'[b] = anomalies[b] /\ happened'[b] = happened[b]
    BY <1>1, <1>2
  <1>4. RowShape'
    <2>1. /\ observed' \in [Binding -> Observation] /\ anomalies' \in [Binding -> SUBSET Anomaly]
          /\ happened' \in [Binding -> SUBSET Anomaly]
      BY <1>1, <1>2
    <2>2. \A b \in Binding : bound'[b] <= instances
      BY <1>1, <1>3 DEF RefreshInv, RowShape
    <2>. QED  BY <1>1, <2>1, <2>2 DEF RefreshInv, RowShape
  <1>5. RowsWereRead'
    BY <1>1 DEF RefreshInv, RowsWereRead
  <1>6. \A b \in Binding : Current(b)' = Current(b)
    BY <1>1 DEF Current
  <1>7. RowsArePast'
    <2>. SUFFICES ASSUME NEW b \in Binding
                  PROVE  /\ anomalies'[b] \subseteq happened'[b]
                         /\ Follows(Current(b), observed'[b], happened'[b])
                         /\ bound'[b] = 0 => observed'[b] = NoObservation
      BY <1>6 DEF RowsArePast
    <2>1. CASE b = c
      BY <1>3, <2>1 DEF Follows, NoObservation
    <2>2. CASE b # c
      BY <1>3, <2>2 DEF RefreshInv, RowsArePast
    <2>. QED  BY <2>1, <2>2
  <1>8. RequestsArePast'
    <2>. SUFFICES ASSUME NEW h \in Handler, NEW b \in Binding,
                         IsWorking(request[h]), request[h].binding = b,
                         request[h].row.instance = bound'[b]
                  PROVE  IsPast(request[h], Current(b), happened'[b])
      BY <1>1, <1>6 DEF RequestsArePast
    <2>1. request[h].row.instance # 0
      BY DEF RefreshInv, RowsWereRead
    <2>2. b # c
      BY <1>3, <2>1
    <2>. QED  BY <1>3, <2>2 DEF RefreshInv, RequestsArePast
  <1>. QED  BY <1>4, <1>5, <1>7, <1>8 DEF RefreshInv

\* An operator takes note of the anomalies of a row.
LEMMA AckHealthKeeps ==
    ASSUME RefreshInv, NEW c \in Binding, AckBindingHealth(c)
    PROVE  RefreshInv'
  <1>1. UNCHANGED <<service, request, instances, bound, observed, happened>>
    BY DEF AckBindingHealth, inboxVars
  <1>2. /\ anomalies' \in [Binding -> SUBSET Anomaly]
        /\ \A b \in Binding : anomalies'[b] \subseteq anomalies[b]
    BY DEF AckBindingHealth, RefreshInv, RowShape
  <1>3. RowShape' /\ RowsWereRead'
    BY <1>1, <1>2 DEF RefreshInv, RowShape, RowsWereRead
  <1>4. \A b \in Binding : Current(b)' = Current(b)
    BY <1>1 DEF Current
  <1>5. RowsArePast'
    BY <1>1, <1>2, <1>4 DEF RefreshInv, RowsArePast
  <1>6. RequestsArePast'
    BY <1>1, <1>4 DEF RefreshInv, RequestsArePast
  <1>. QED  BY <1>3, <1>5, <1>6 DEF RefreshInv

\* The requests change and nothing else.
LEMMA RequestKeeps ==
    ASSUME RefreshInv, UNCHANGED <<inboxVars, service, rowVars, happened>>,
           request' \in [Handler -> Request], NEW h \in Handler,
           \A k \in Handler : k # h => request'[k] = request[k],
           IsWorking(request'[h]) =>
              /\ request'[h].binding \in Binding
              /\ request'[h].row.instance \in 1..instances
              /\ \A b \in Binding : request'[h].binding = b /\ request'[h].row.instance = bound[b]
                    => IsPast(request'[h], Current(b), happened[b])
    PROVE  RefreshInv'
  <1>1. UNCHANGED <<bound, instances, service, observed, anomalies, happened>>
    BY DEF inboxVars, rowVars
  <1>2. RowShape'
    BY <1>1 DEF RefreshInv, RowShape
  <1>3. RowsWereRead'
    BY <1>1 DEF RefreshInv, RowsWereRead
  <1>4. \A b \in Binding : Current(b)' = Current(b)
    BY <1>1 DEF Current
  <1>5. RowsArePast'
    BY <1>1, <1>4 DEF RefreshInv, RowsArePast
  <1>6. RequestsArePast'
    <2>. SUFFICES ASSUME NEW k \in Handler, NEW b \in Binding,
                         IsWorking(request'[k]), request'[k].binding = b,
                         request'[k].row.instance = bound[b]
                  PROVE  IsPast(request'[k], Current(b), happened[b])
      BY <1>1, <1>4 DEF RequestsArePast
    <2>1. CASE k = h
      BY <2>1
    <2>2. CASE k # h
      BY <2>2 DEF RefreshInv, RequestsArePast
    <2>. QED  BY <2>1, <2>2
  <1>. QED  BY <1>2, <1>3, <1>5, <1>6 DEF RefreshInv

\* The row that a handler reads is in the past of the service.
LEMMA AskKeeps ==
    ASSUME RefreshInv, InboxInv, NEW h \in Handler, NEW b \in Binding, NEW awaited \in BOOLEAN,
           Ask(h, b, awaited)
    PROVE  RefreshInv'
  <1>1. /\ request' \in [Handler -> Request]
        /\ \A k \in Handler : k # h => request'[k] = request[k]
        /\ IsWorking(request'[h]) =>
              /\ request'[h].phase = "read" /\ request'[h].binding = b
              /\ bound[b] # 0
              /\ request'[h].row.instance = bound[b]
              /\ request'[h].row.observed = observed[b]
        /\ UNCHANGED <<inboxVars, service, rowVars, happened>>
    BY AskReads DEF RefreshInv
  <1>2. bound[b] \in Nat /\ instances \in Nat /\ bound[b] <= instances
    BY InboxAssumption DEF InboxInv, InboxTypeOK, RefreshInv, RowShape
  <1>3. Follows(Current(b), observed[b], happened[b])
    BY DEF RefreshInv, RowsArePast
  <1>4. IsWorking(request'[h]) =>
           /\ request'[h].binding \in Binding
           /\ request'[h].row.instance \in 1..instances
           /\ \A c \in Binding : request'[h].binding = c /\ request'[h].row.instance = bound[c]
                 => IsPast(request'[h], Current(c), happened[c])
    BY <1>1, <1>2, <1>3 DEF IsPast
  <1>. QED  BY <1>1, <1>4, RequestKeeps

\* What a handler sees is the present.
LEMMA ObserveKeeps ==
    ASSUME RefreshInv, NEW h \in Handler, Observe(h)
    PROVE  RefreshInv'
  <1>1. PICK b \in Binding : b = request[h].binding
    BY ObserveSees DEF RefreshInv
  <1>2. UNCHANGED <<inboxVars, service, rowVars, happened>>
    BY ObserveSees DEF RefreshInv
  <1>3. ASSUME NEW code \in {"retry", "operator"}, Answer(h, code) PROVE RefreshInv'
    <2>1. code \in Code
      BY DEF Code
    <2>. QED  BY <1>2, <1>3, <2>1, AnswerForgets, ForgetKeeps DEF RefreshInv
  <1>4. ASSUME request' = [request EXCEPT ![h].phase = "observed", ![h].seen = Current(b)]
        PROVE  RefreshInv'
    <2>. DEFINE r == [request[h] EXCEPT !.phase = "observed", !.seen = Current(b)]
    <2>1. request[h] \in Request /\ Current(b) \in Observation /\ Current(b).store # 0
      BY CurrentIsSeen DEF RefreshInv, RowShape
    <2>2. /\ r \in Request /\ r.phase = "observed" /\ r.seen = Current(b)
          /\ r.binding = b /\ r.row = request[h].row
      BY <1>1, <2>1 DEF Request, Phase
    <2>3. request' = [request EXCEPT ![h] = r]
      BY <1>4
    <2>. HIDE DEF r
    <2>4. /\ request' \in [Handler -> Request] /\ request'[h] = r
          /\ \A k \in Handler : k # h => request'[k] = request[k]
      BY <2>2, <2>3 DEF RefreshInv, RowShape
    <2>5. request[h].phase = "read" /\ IsWorking(request[h])
      BY DEF Observe, IsWorking
    <2>6. r.row.instance \in 1..instances
      BY <2>2, <2>5 DEF RefreshInv, RowsWereRead
    <2>7. \A c \in Binding : r.binding = c /\ r.row.instance = bound[c]
             => IsPast(r, Current(c), happened[c])
      <3>. SUFFICES ASSUME r.row.instance = bound[b] PROVE IsPast(r, Current(b), happened[b])
        BY <2>2
      <3>1. Follows(Current(b), r.row.observed, happened[b])
        BY <1>1, <2>2, <2>5 DEF RefreshInv, RequestsArePast, IsPast
      <3>. QED  BY <2>1, <2>2, <3>1, FollowsItself DEF IsPast
    <2>. QED  BY <1>2, <2>2, <2>4, <2>6, <2>7, RequestKeeps
  <1>. QED  BY <1>1, <1>3, <1>4, ObserveSees DEF RefreshInv
\* What a committed refresh writes: what it saw replaces what it had read.
LEMMA CommitWrites ==
    ASSUME RefreshInv, NEW h \in Handler, NEW b \in Binding, b = request[h].binding, Commit(h)
    PROVE  /\ IsWorking(request[h]) /\ request[h].phase = "observed"
           /\ request[h].row.instance = bound[b]
           /\ request[h].row.observed = observed[b]
           /\ request[h].seen \in Observation
           /\ UNCHANGED <<bound, instances, service, happened>>
           /\ observed' = [observed EXCEPT ![b] = request[h].seen]
           /\ \/ anomalies' = anomalies
              \/ anomalies' = [anomalies EXCEPT ![b] = FoundAnomalies(b, request[h].seen)]
           /\ \E code \in {"ok", "retry"} : Answer(h, code)
  <1>1. request[h].phase = "observed" /\ IsWorking(request[h])
    BY DEF Commit, IsWorking
  <1>2. request[h].row.instance = bound[b] /\ request[h].row.observed = observed[b]
    BY DEF Commit, SameLifetime, SameObservation
  <1>3. request[h].seen \in Observation /\ observed \in [Binding -> Observation]
    BY DEF RefreshInv, RowShape, Request
  <1>4. CASE request[h].seen = observed[b]
    <2>1. UNCHANGED <<inboxVars, rowVars, service, happened>>
      BY <1>4 DEF Commit
    <2>2. observed = [observed EXCEPT ![b] = request[h].seen]
      BY <1>3, <1>4
    <2>. QED  BY <1>1, <1>2, <1>3, <2>1, <2>2 DEF Commit, inboxVars, rowVars
  <1>5. CASE request[h].seen # observed[b]
    <2>1. /\ observed' = [observed EXCEPT ![b] = request[h].seen]
          /\ anomalies' = [anomalies EXCEPT ![b] = FoundAnomalies(b, request[h].seen)]
          /\ UNCHANGED <<bound, instances, service, happened>>
      BY <1>5 DEF Commit
    <2>. QED  BY <1>1, <1>2, <1>3, <2>1 DEF Commit
  <1>. QED  BY <1>4, <1>5

\* A committed refresh saw what follows the row, so an anomaly that it finds befell the
\* service, and the present follows what it records.
LEMMA CommitKeeps ==
    ASSUME RefreshInv, InboxInv, NEW h \in Handler, Commit(h)
    PROVE  RefreshInv'
  <1>1. PICK c \in Binding : c = request[h].binding
    BY DEF Commit, RefreshInv, RowsWereRead, IsWorking
  <1>. DEFINE seen == request[h].seen
  <1>2. /\ IsWorking(request[h]) /\ request[h].phase = "observed"
        /\ request[h].row.instance = bound[c] /\ request[h].row.observed = observed[c]
        /\ seen \in Observation
        /\ UNCHANGED <<bound, instances, service, happened>>
        /\ observed' = [observed EXCEPT ![c] = seen]
        /\ anomalies' = anomalies \/ anomalies' = [anomalies EXCEPT ![c] = FoundAnomalies(c, seen)]
        /\ \E code \in {"ok", "retry"} : Answer(h, code)
    BY <1>1, CommitWrites
  <1>3. PICK code \in Code : Answer(h, code)
    BY <1>2 DEF Code
  <1>4. /\ request' \in [Handler -> Request] /\ ~IsWorking(request'[h])
        /\ \A k \in Handler : k # h => request'[k] = request[k]
    BY <1>3, AnswerEnds DEF RefreshInv
  <1>5. IsPast(request[h], Current(c), happened[c])
    BY <1>1, <1>2 DEF RefreshInv, RequestsArePast
  <1>6. anomalies[c] \subseteq happened[c]
    BY DEF RefreshInv, RowsArePast
  <1>7. FoundAnomalies(c, seen) \subseteq happened[c]
    <2>1. Follows(seen, observed[c], happened[c])
      BY <1>2, <1>5 DEF IsPast
    <2>. QED  BY <1>6, <2>1 DEF FoundAnomalies, Follows
  <1>8. FoundAnomalies(c, seen) \in SUBSET Anomaly
    BY <1>7 DEF RefreshInv, RowShape
  <1>9. /\ observed' \in [Binding -> Observation] /\ anomalies' \in [Binding -> SUBSET Anomaly]
        /\ observed'[c] = seen /\ anomalies'[c] \subseteq happened[c]
        /\ \A b \in Binding : b # c => observed'[b] = observed[b] /\ anomalies'[b] = anomalies[b]
    <2>1. anomalies \in [Binding -> SUBSET Anomaly] /\ observed \in [Binding -> Observation]
      BY DEF RefreshInv, RowShape
    <2>. HIDE DEF seen
    <2>2. /\ observed' \in [Binding -> Observation] /\ observed'[c] = seen
          /\ \A b \in Binding : b # c => observed'[b] = observed[b]
      BY <1>2, <2>1
    <2>3. /\ anomalies' \in [Binding -> SUBSET Anomaly] /\ anomalies'[c] \subseteq happened[c]
          /\ \A b \in Binding : b # c => anomalies'[b] = anomalies[b]
      BY <1>2, <1>6, <1>7, <1>8, <2>1
    <2>. QED  BY <2>2, <2>3
  <1>10. RowShape'
    BY <1>2, <1>4, <1>9 DEF RefreshInv, RowShape
  <1>11. RowsWereRead'
    BY <1>2, <1>4 DEF RefreshInv, RowsWereRead
  <1>12. \A b \in Binding : Current(b)' = Current(b)
    BY <1>2 DEF Current
  <1>13. RowsArePast'
    <2>. SUFFICES ASSUME NEW b \in Binding
                  PROVE  /\ anomalies'[b] \subseteq happened[b]
                         /\ Follows(Current(b), observed'[b], happened[b])
                         /\ bound[b] = 0 => observed'[b] = NoObservation
      BY <1>2, <1>12 DEF RowsArePast
    <2>1. bound[c] # 0
      BY <1>1, <1>2 DEF RefreshInv, RowsWereRead
    <2>2. Follows(Current(c), seen, happened[c])
      BY <1>2, <1>5 DEF IsPast
    <2>3. CASE b = c
      BY <1>9, <2>1, <2>2, <2>3
    <2>4. CASE b # c
      BY <1>9, <2>4 DEF RefreshInv, RowsArePast
    <2>. QED  BY <2>3, <2>4
  <1>14. RequestsArePast'
    <2>. SUFFICES ASSUME NEW k \in Handler, NEW b \in Binding,
                         IsWorking(request'[k]), request'[k].binding = b,
                         request'[k].row.instance = bound[b]
                  PROVE  IsPast(request'[k], Current(b), happened[b])
      BY <1>2, <1>12 DEF RequestsArePast
    <2>1. request'[k] = request[k]
      BY <1>4
    <2>. QED  BY <2>1 DEF RefreshInv, RequestsArePast
  <1>. QED  BY <1>10, <1>11, <1>13, <1>14 DEF RefreshInv

\* The invariant of the two-phase refresh, and of the inbox under it.
LEMMA TableStepKeeps ==
    ASSUME BindingsInv, TableStep
    PROVE  BindingsInv'
  <1>. RefreshInv /\ InboxInv /\ RowShape /\ RowsWereRead
    BY DEF BindingsInv, RefreshInv
  <1>1. InboxInv'
    BY TableStepIsInboxStep, InboxInvNext
  <1>2. CASE UNCHANGED bindingsVars
    <2>1. UNCHANGED <<bound, instances, service, observed, anomalies, request, happened>>
      BY <1>2 DEF bindingsVars, inboxVars, rowVars
    <2>2. \A b \in Binding : Current(b)' = Current(b)
      BY <2>1 DEF Current
    <2>3. RowShape' /\ RowsWereRead'
      BY <2>1 DEF RowShape, RowsWereRead
    <2>4. RowsArePast'
      BY <2>1, <2>2 DEF RefreshInv, RowsArePast
    <2>5. RequestsArePast'
      BY <2>1, <2>2 DEF RefreshInv, RequestsArePast
    <2>. QED  BY <1>1, <2>3, <2>4, <2>5 DEF BindingsInv, RefreshInv
  <1>3. ASSUME NEW h \in Handler, RefuseStale(h) \/ GiveUp(h) PROVE RefreshInv'
    <2>1. PICK code \in Code : Answer(h, code)
      BY <1>3 DEF RefuseStale, GiveUp, Code
    <2>2. UNCHANGED <<inboxVars, service, rowVars, happened>>
      BY <1>3 DEF RefuseStale, GiveUp
    <2>. QED  BY <2>1, <2>2, AnswerForgets, ForgetKeeps
  <1>4. ASSUME NEW b \in Binding, request' = Abandoned(b),
               UNCHANGED <<inboxVars, service, rowVars, happened>>
        PROVE  RefreshInv'
    BY <1>4, AbandonForgets, ForgetKeeps
  <1>5. ASSUME NEW h \in Handler, request' = [request EXCEPT ![h] = Idle],
               UNCHANGED <<inboxVars, service, rowVars, happened>>
        PROVE  RefreshInv'
    BY <1>5, TakenForgets, ForgetKeeps
  <1>6. ASSUME NEW b \in Binding,
               \/ Write(b) \/ Fail(b) \/ Start(b) \/ ReplaceStore(b)
               \/ CreateBinding(b) \/ RemoveBinding(b) \/ AckBindingHealth(b)
               \/ \E h \in Handler : \E awaited \in BOOLEAN : Ask(h, b, awaited)
        PROVE  RefreshInv'
    BY <1>6, ServiceStepKeeps, CreateKeeps, RemoveKeeps, AckHealthKeeps, AskKeeps
  <1>7. ASSUME NEW h \in Handler, Observe(h) \/ RefuseStale(h) \/ Commit(h) \/ GiveUp(h)
        PROVE  RefreshInv'
    BY <1>3, <1>7, ObserveKeeps, CommitKeeps
  <1>. QED  BY <1>1, <1>2, <1>4, <1>5, <1>6, <1>7 DEF TableStep, BindingsInv----------------------------------------------------------------------------
(* The watches and their subscriptions.                                     *)

\* What the part of an invariant about one watch says of its link l and its record w.
IsEntry(l, w, last) ==
    /\ l \in LinkRecord /\ w \in WatchRecord
    /\ w.run \in {"off", "dead"} => l = NoLink
    /\ w.instance <= last
    /\ w.run = "off" <=> w.instance = 0
    /\ w.blocked => \/ l.state \in {"none", "stamping"}
                    \/ w.refused /\ w.run # "asking"

\* The shape of the watches, and when one is blocked.
WatchesOK == WatchShape /\ BlockedIsRefused

\* Neither NoLink nor NoWatch says that anything is pending.
LEMMA FreshEntry ==
    /\ NoLink \in LinkRecord /\ NoLink.state = "none" /\ NoLink.hint = FALSE
    /\ NoWatch \in WatchRecord /\ NoWatch.run = "off" /\ NoWatch.instance = 0
    /\ NoWatch.blocked = FALSE /\ NoWatch.refused = FALSE /\ NoWatch.changed = FALSE
  BY InboxAssumption, BindingsAssumption DEF NoLink, NoWatch, LinkRecord, WatchRecord

\* The parts of the invariant are about one watch each.
LEMMA EntryOf ==
    ASSUME WatchesOK, NEW b \in Binding
    PROVE  IsEntry(link[b], watch[b], instances)
  BY DEF WatchesOK, WatchShape, BlockedIsRefused, IsEntry

\* A step that changes the entry of one watch.
LEMMA EntryKeeps ==
    ASSUME WatchesOK, instances' = instances, NEW c \in Binding, NEW l, NEW w,
           link' = [link EXCEPT ![c] = l], watch' = [watch EXCEPT ![c] = w],
           IsEntry(l, w, instances)
    PROVE  /\ WatchesOK'
           /\ link'[c] = l /\ watch'[c] = w
           /\ \A b \in Binding : b # c => link'[b] = link[b] /\ watch'[b] = watch[b]
  <1>1. link \in [Binding -> LinkRecord] /\ watch \in [Binding -> WatchRecord]
    BY DEF WatchesOK, WatchShape
  <1>2. l \in LinkRecord /\ w \in WatchRecord
    BY DEF IsEntry
  <1>3. /\ link' \in [Binding -> LinkRecord] /\ watch' \in [Binding -> WatchRecord]
        /\ link'[c] = l /\ watch'[c] = w
        /\ \A b \in Binding : b # c => link'[b] = link[b] /\ watch'[b] = watch[b]
    BY <1>1, <1>2
  <1>4. \A b \in Binding : IsEntry(link'[b], watch'[b], instances)
    BY <1>3, EntryOf
  <1>. QED  BY <1>3, <1>4 DEF WatchesOK, WatchShape, BlockedIsRefused, IsEntry

\* A step that changes no watch: the lifetimes that were created stay created.
LEMMA WatchesUnchanged ==
    ASSUME WatchesOK, UNCHANGED watchVars, instances \in Nat, instances' \in Nat,
           instances <= instances'
    PROVE  WatchesOK'
  <1>1. link' = link /\ watch' = watch
    BY DEF watchVars
  <1>2. \A b \in Binding : watch[b].instance \in Nat
    BY InboxAssumption DEF WatchesOK, WatchShape, WatchRecord
  <1>. QED  BY <1>1, <1>2 DEF WatchesOK, WatchShape, BlockedIsRefused

\* Instances are only ever created.
LEMMA InstancesGrow ==
    ASSUME BindingsInv, TableStep
    PROVE  instances \in Nat /\ instances' \in Nat /\ instances <= instances'
  <1>1. instances \in Nat
    BY InboxAssumption DEF BindingsInv, InboxInv, InboxTypeOK
  <1>2. [InboxNext]_inboxVars
    BY TableStepIsInboxStep DEF BindingsInv, RefreshInv
  <1>3. instances' = instances \/ instances' = instances + 1
    BY <1>2 DEF InboxNext, inboxVars, Store, Acknowledge, Bind, Unbind, Refresh
  <1>. QED  BY <1>1, <1>3
----------------------------------------------------------------------------
(* What serves a watch.                                                     *)

Pending(b) == IsBehind(b) => link[b].hint \/ watch[b].changed \/ Served(b)

\* The entry of b and what it is compared with.
SameWatch(b) ==
    /\ link'[b] = link[b] /\ watch'[b] = watch[b] /\ bound'[b] = bound[b]
    /\ happened'[b] = happened[b] /\ observed'[b] = observed[b] /\ Current(b)' = Current(b)

\* Requests that served b go on serving it.
LEMMA ServedStays ==
    ASSUME NEW b \in Binding, Current(b)' = Current(b), Served(b),
           \A h \in Handler : Serves(request[h], b, Current(b)) => Serves(request'[h], b, Current(b))
    PROVE  Served(b)'
  BY DEF Served

\* A watch that the step does not concern.
LEMMA PendingStays ==
    ASSUME NEW b \in Binding, Pending(b), SameWatch(b), Served(b) => Served(b)'
    PROVE  Pending(b)'
  BY DEF Pending, IsBehind, SameWatch

\* An answer other than ok serves as the request did.
LEMMA AnswerServes ==
    ASSUME RefreshInv, NEW h \in Handler, NEW code \in Code, code # "ok", Answer(h, code),
           NEW b \in Binding, UNCHANGED service
    PROVE  Served(b) => Served(b)'
  <1>1. /\ \A k \in Handler : k # h => request'[k] = request[k]
        /\ request[h].awaited =>
              /\ request'[h].awaited /\ request'[h].binding = request[h].binding
              /\ request'[h].phase = code
    BY AnswerEnds DEF RefreshInv
  <1>2. \A k \in Handler : Serves(request[k], b, Current(b)) => Serves(request'[k], b, Current(b))
    BY <1>1 DEF Serves
  <1>3. Current(b)' = Current(b)
    BY DEF Current
  <1>. QED  BY <1>2, <1>3, ServedStays

\* A handler that looks at the service, or gives up, goes on serving.
LEMMA HandlerServes ==
    ASSUME RefreshInv, NEW h \in Handler, Observe(h) \/ RefuseStale(h) \/ GiveUp(h),
           NEW b \in Binding
    PROVE  Served(b) => Served(b)'
  <1>1. service' = service /\ Current(b)' = Current(b)
    BY DEF Observe, RefuseStale, GiveUp, Current
  <1>2. ASSUME NEW code \in {"retry", "operator", "failure"}, Answer(h, code)
        PROVE  Served(b) => Served(b)'
    <2>1. code \in Code /\ code # "ok"
      BY DEF Code
    <2>. QED  BY <1>1, <1>2, <2>1, AnswerServes
  <1>3. CASE RefuseStale(h) \/ GiveUp(h)
    <2>1. \E code \in {"retry", "operator", "failure"} : Answer(h, code)
      BY <1>3 DEF RefuseStale, GiveUp
    <2>. QED  BY <1>2, <2>1
  <1>4. ASSUME NEW c \in Binding, c = request[h].binding,
               request' = [request EXCEPT ![h].phase = "observed", ![h].seen = Current(c)]
        PROVE  Served(b) => Served(b)'
    <2>1. request \in [Handler -> Request] /\ request[h] \in Request
      BY DEF RefreshInv, RowShape
    <2>2. /\ request'[h].awaited = request[h].awaited /\ request'[h].binding = request[h].binding
          /\ request'[h].phase = "observed" /\ request'[h].seen = Current(c)
          /\ \A k \in Handler : k # h => request'[k] = request[k]
      BY <1>4, <2>1 DEF Request
    <2>3. \A k \in Handler : Serves(request[k], b, Current(b)) => Serves(request'[k], b, Current(b))
      BY <1>4, <2>2 DEF Serves
    <2>. QED  BY <1>1, <2>3, ServedStays
  <1>5. CASE Observe(h)
    <2>1. PICK c \in Binding : c = request[h].binding
      BY <1>5, ObserveSees DEF RefreshInv
    <2>2. \/ request' = [request EXCEPT ![h].phase = "observed", ![h].seen = Current(c)]
          \/ \E code \in {"retry", "operator"} : Answer(h, code)
      BY <1>5, <2>1, ObserveSees DEF RefreshInv
    <2>. QED  BY <1>2, <1>4, <2>1, <2>2
  <1>. QED  BY <1>3, <1>5

\* A committed refresh recorded the present, or another request still serves.
LEMMA CommitServes ==
    ASSUME RefreshInv, NEW h \in Handler, Commit(h), NEW b \in Binding, UNCHANGED watchVars,
           Pending(b)
    PROVE  Pending(b)'
  <1>. SUFFICES ASSUME IsBehind(b)', ~link[b].hint, ~watch[b].changed PROVE Served(b)'
    BY DEF Pending, watchVars
  <1>1. PICK c \in Binding : c = request[h].binding
    BY DEF Commit, RefreshInv, RowsWereRead, IsWorking
  <1>. DEFINE seen == request[h].seen
  <1>2. /\ IsWorking(request[h]) /\ request[h].phase = "observed"
        /\ request[h].row.instance = bound[c] /\ request[h].row.observed = observed[c]
        /\ seen \in Observation
        /\ UNCHANGED <<bound, instances, service, happened>>
        /\ observed' = [observed EXCEPT ![c] = seen]
        /\ \E code \in {"ok", "retry"} : Answer(h, code)
    BY <1>1, CommitWrites
  <1>3. Current(b)' = Current(b)
    BY <1>2 DEF Current
  <1>4. \A k \in Handler : k # h => request'[k] = request[k]
    <2>1. PICK code \in Code : Answer(h, code)
      BY <1>2 DEF Code
    <2>. QED  BY <2>1, AnswerEnds DEF RefreshInv
  <1>5. happened[b] = {} /\ observed'[b] # Current(b)
    BY <1>2, <1>3 DEF IsBehind
  <1>6. observed[b] # Current(b) /\ (c = b => seen # Current(b))
    <2>1. observed \in [Binding -> Observation]
      BY DEF RefreshInv, RowShape
    <2>2. CASE c # b
      BY <1>2, <1>5, <2>1, <2>2
    <2>3. CASE c = b
      <3>1. seen # Current(b)
        BY <1>2, <1>5, <2>1, <2>3
      <3>2. IsPast(request[h], Current(b), {})
        BY <1>1, <1>2, <1>5, <2>3 DEF RefreshInv, RequestsArePast
      <3>3. /\ seen.store # 0 /\ Follows(seen, observed[b], {})
            /\ Follows(Current(b), seen, {})
        BY <1>2, <2>3, <3>2 DEF IsPast
      <3>4. Current(b) \in Observation /\ Current(b).store # 0
        BY CurrentIsSeen DEF RefreshInv
      <3>5. observed[b] # Current(b)
        BY <1>2, <3>1, <3>3, <3>4, FollowsBothWays
      <3>. QED  BY <3>1, <3>5
    <2>. QED  BY <2>2, <2>3
  <1>7. IsBehind(b)
    BY <1>2, <1>5, <1>6 DEF IsBehind, watchVars
  <1>8. Served(b)
    BY <1>7 DEF Pending
  <1>9. \A k \in Handler : Serves(request[k], b, Current(b)) => k # h
    BY <1>1, <1>2, <1>6 DEF Serves, Code
  <1>. QED  BY <1>3, <1>4, <1>8, <1>9, ServedStays----------------------------------------------------------------------------
(* The steps keep every watch served.                                       *)

\* A step on the tables that leaves the watches alone.
LEMMA TablesKeepPending ==
    ASSUME BindingsInv, WatchesOK, HintsArePending, UNCHANGED watchVars,
           \/ BridgeHandlers
           \/ \E c \in Binding : ServiceAndOperator(c)
    PROVE  HintsArePending'
  <1>. SUFFICES ASSUME NEW b \in Binding PROVE Pending(b)'
    BY DEF HintsArePending, Pending
  <1>. Pending(b) /\ RefreshInv /\ RowShape /\ InboxInv
    BY DEF HintsArePending, Pending, BindingsInv, RefreshInv
  <1>0. link' = link /\ watch' = watch
    BY DEF watchVars
  <1>1. ASSUME NEW h \in Handler, Observe(h) \/ RefuseStale(h) \/ GiveUp(h) PROVE Pending(b)'
    <2>1. SameWatch(b)
      BY <1>0, <1>1 DEF Observe, RefuseStale, GiveUp, inboxVars, rowVars, SameWatch, Current
    <2>. QED  BY <1>1, <2>1, HandlerServes, PendingStays
  <1>2. ASSUME NEW h \in Handler, Commit(h) PROVE Pending(b)'
    BY <1>2, CommitServes
  <1>3. ASSUME NEW c \in Binding, Start(c) PROVE Pending(b)'
    <2>1. Current(b)' = Current(b)
      BY <1>3 DEF Start, Current, RowShape, ServiceRecord
    <2>2. SameWatch(b) /\ request' = request
      BY <1>0, <1>3, <2>1 DEF Start, inboxVars, rowVars, SameWatch
    <2>3. Served(b) => Served(b)'
      BY <2>1, <2>2 DEF Served
    <2>. QED  BY <2>2, <2>3, PendingStays
  <1>4. ASSUME link[b].state = "open" PROVE watch[b].instance # 0
    BY <1>4, FreshEntry DEF WatchesOK, WatchShape
  <1>5. ASSUME NEW c \in Binding, ReplaceStore(c) PROVE Pending(b)'
    <2>1. /\ request' = request /\ bound' = bound /\ observed' = observed
          /\ service \in [Binding -> ServiceRecord] /\ happened \in [Binding -> SUBSET Anomaly]
      BY <1>5 DEF ReplaceStore, inboxVars, rowVars, RowShape
    <2>2. CASE b # c
      <3>1. service'[b] = service[b] /\ happened'[b] = happened[b]
        BY <1>5, <2>1, <2>2 DEF ReplaceStore, Happens
      <3>2. SameWatch(b)
        BY <1>0, <2>1, <3>1 DEF SameWatch, Current
      <3>3. Served(b) => Served(b)'
        BY <2>1, <3>1 DEF Served, Current
      <3>. QED  BY <3>2, <3>3, PendingStays
    <2>3. CASE b = c
      <3>1. bound[b] # 0 => happened'[b] # {}
        BY <1>5, <2>1, <2>3 DEF ReplaceStore, Happens
      <3>. QED  BY <1>0, <1>4, <2>1, <3>1 DEF Pending, IsBehind
    <2>. QED  BY <2>2, <2>3
  <1>6. ASSUME NEW c \in Binding, CreateBinding(c) PROVE Pending(b)'
    <2>1. /\ UNCHANGED <<service, observed, request, happened>>
          /\ bound' = [bound EXCEPT ![c] = instances + 1]
          /\ bound \in [Binding -> Nat] /\ instances \in Nat
      BY <1>6, InboxAssumption DEF CreateBinding, Bind, rowVars, InboxInv, InboxTypeOK
    <2>2. CASE b # c
      <3>1. SameWatch(b)
        BY <1>0, <2>1, <2>2 DEF SameWatch, Current
      <3>2. Served(b) => Served(b)'
        BY <2>1 DEF Served, Current
      <3>. QED  BY <3>1, <3>2, PendingStays
    <2>3. CASE b = c
      <3>1. watch[b].instance \in Nat /\ watch[b].instance <= instances
        BY InboxAssumption DEF WatchesOK, WatchShape, WatchRecord
      <3>2. watch'[b].instance # bound'[b]
        BY <1>0, <2>1, <2>3, <3>1
      <3>. QED  BY <3>2 DEF Pending, IsBehind
    <2>. QED  BY <2>2, <2>3
  <1>7. ASSUME NEW c \in Binding, RemoveBinding(c) PROVE Pending(b)'
    <2>1. /\ UNCHANGED <<service, request>>
          /\ bound' = [bound EXCEPT ![c] = 0]
          /\ observed' = [observed EXCEPT ![c] = NoObservation]
          /\ happened' = [happened EXCEPT ![c] = {}]
          /\ bound \in [Binding -> Nat]
          /\ observed \in [Binding -> Observation] /\ happened \in [Binding -> SUBSET Anomaly]
      BY <1>7, InboxAssumption DEF RemoveBinding, Unbind, InboxInv, InboxTypeOK, RowShape
    <2>2. CASE b # c
      <3>1. SameWatch(b)
        BY <1>0, <2>1, <2>2 DEF SameWatch, Current
      <3>2. Served(b) => Served(b)'
        BY <2>1 DEF Served, Current
      <3>. QED  BY <3>1, <3>2, PendingStays
    <2>3. CASE b = c
      <3>1. bound'[b] = 0
        BY <2>1, <2>3
      <3>. QED  BY <1>0, <1>4, <3>1 DEF Pending, IsBehind
    <2>. QED  BY <2>2, <2>3
  <1>8. ASSUME NEW c \in Binding, AckBindingHealth(c) PROVE Pending(b)'
    <2>1. SameWatch(b) /\ request' = request /\ service' = service
      BY <1>0, <1>8 DEF AckBindingHealth, inboxVars, SameWatch, Current
    <2>2. Served(b) => Served(b)'
      BY <2>1 DEF Served, Current
    <2>. QED  BY <2>1, <2>2, PendingStays
  <1>9. ASSUME NEW c \in Binding, NEW h \in Handler, Ask(h, c, FALSE) PROVE Pending(b)'
    <2>1. /\ \A k \in Handler : k # h => request'[k] = request[k]
          /\ request[h].phase = "idle"
          /\ UNCHANGED <<inboxVars, service, rowVars, happened>>
      BY <1>9, AskReads
    <2>2. SameWatch(b)
      BY <1>0, <2>1 DEF inboxVars, rowVars, SameWatch, Current
    <2>3. \A k \in Handler : Serves(request[k], b, Current(b)) => k # h
      BY <2>1 DEF Serves, Code
    <2>4. Served(b) => Served(b)'
      BY <2>1, <2>2, <2>3, ServedStays DEF SameWatch
    <2>. QED  BY <2>2, <2>4, PendingStays
  <1>10. CASE BridgeHandlers
    BY <1>1, <1>2, <1>10 DEF BridgeHandlers
  <1>11. ASSUME NEW c \in Binding, ServiceAndOperator(c) PROVE Pending(b)'
    BY <1>3, <1>5, <1>6, <1>7, <1>8, <1>9, <1>11 DEF ServiceAndOperator
  <1>. QED  BY <1>10, <1>11

\* A step of one watch, if that watch is served after it and no other one is concerned.
LEMMA EntryStep ==
    ASSUME WatchesOK, HintsArePending, NEW c \in Binding, NEW l, NEW w,
           UNCHANGED <<inboxVars, rowVars, happened>>,
           link' = [link EXCEPT ![c] = l], watch' = [watch EXCEPT ![c] = w],
           IsEntry(l, w, instances),
           \A b \in Binding : b # c => service'[b] = service[b] /\ (Served(b) => Served(b)'),
           IsBehind(c)' => l.hint \/ w.changed \/ Served(c)'
    PROVE  WatchesOK' /\ HintsArePending'
  <1>1. UNCHANGED <<bound, instances, observed, happened>>
    BY DEF inboxVars, rowVars
  <1>2. /\ WatchesOK'
        /\ link'[c] = l /\ watch'[c] = w
        /\ \A b \in Binding : b # c => link'[b] = link[b] /\ watch'[b] = watch[b]
    BY <1>1, EntryKeeps
  <1>3. Pending(c)'
    BY <1>2 DEF Pending
  <1>4. ASSUME NEW b \in Binding, b # c PROVE Pending(b)'
    <2>1. SameWatch(b)
      BY <1>1, <1>2, <1>4 DEF SameWatch, Current
    <2>. QED  BY <1>4, <2>1, PendingStays DEF HintsArePending, Pending
  <1>5. \A b \in Binding : Pending(b)'
    BY <1>3, <1>4
  <1>. QED  BY <1>2, <1>5 DEF HintsArePending, Pending

\* A watch that must learn of changes.
IsDue(l, w, b) == l.state = "open" /\ w.instance = bound[b] /\ (~w.refused \/ w.run = "asking")

\* A step of one watch that asks nothing: afterwards it has a signal, or it had as much
\* to wait for as before.
LEMMA QuietStep ==
    ASSUME WatchesOK, HintsArePending, NEW c \in Binding, NEW l, NEW w,
           UNCHANGED bindingsVars,
           link' = [link EXCEPT ![c] = l], watch' = [watch EXCEPT ![c] = w],
           IsEntry(l, w, instances),
           IsDue(l, w, c) => \/ l.hint \/ w.changed
                             \/ /\ IsDue(link[c], watch[c], c)
                                /\ ~link[c].hint /\ ~watch[c].changed
    PROVE  WatchesOK' /\ HintsArePending'
  <1>1. /\ UNCHANGED <<inboxVars, rowVars, happened, service, request>>
        /\ UNCHANGED <<bound, instances, observed>>
    BY DEF bindingsVars, inboxVars, rowVars
  <1>2. \A b \in Binding : service'[b] = service[b] /\ Current(b)' = Current(b)
                           /\ (Served(b) => Served(b)')
    BY <1>1 DEF Served, Current
  <1>3. link'[c] = l /\ watch'[c] = w
    BY DEF WatchesOK, WatchShape
  <1>4. IsBehind(c)' => l.hint \/ w.changed \/ Served(c)'
    BY <1>1, <1>2, <1>3 DEF HintsArePending, IsBehind, IsDue
  <1>. QED  BY <1>1, <1>2, <1>4, EntryStep
\* The parts of one watch's entry, for the steps below.
LEMMA EntryFacts ==
    ASSUME WatchesOK, NEW c \in Binding
    PROVE  /\ link \in [Binding -> LinkRecord] /\ watch \in [Binding -> WatchRecord]
           /\ link[c] \in LinkRecord /\ watch[c] \in WatchRecord
           /\ link = [link EXCEPT ![c] = link[c]] /\ watch = [watch EXCEPT ![c] = watch[c]]
           /\ IsEntry(link[c], watch[c], instances)
  BY EntryOf DEF WatchesOK, WatchShape

\* The pump's steps up to the point where the subscription is in place, and its end.
LEMMA PumpKeeps ==
    ASSUME RowShape, WatchesOK, HintsArePending, NEW c \in Binding,
           \/ Connect(c) \/ ConnectRefused(c) \/ ConnectPutOff(c) \/ ReadStampPump(c)
           \/ Install(c) \/ Heartbeat(c) \/ ReadFrame(c) \/ Disconnect(c)
    PROVE  WatchesOK' /\ HintsArePending'
  <1>. /\ link \in [Binding -> LinkRecord] /\ watch \in [Binding -> WatchRecord]
       /\ link[c] \in LinkRecord /\ watch[c] \in WatchRecord
       /\ link = [link EXCEPT ![c] = link[c]] /\ watch = [watch EXCEPT ![c] = watch[c]]
       /\ IsEntry(link[c], watch[c], instances)
    BY EntryFacts
  <1>0. UNCHANGED bindingsVars
    BY DEF Connect, ConnectRefused, ConnectPutOff, ReadStampPump, Install, Heartbeat, ReadFrame,
           Disconnect
  <1>1. CASE Connect(c)
    <2>. DEFINE l == [link[c] EXCEPT !.state = "registered"]
    <2>1. l \in LinkRecord /\ l.state = "registered"
      BY DEF LinkRecord
    <2>2. link' = [link EXCEPT ![c] = l] /\ watch' = [watch EXCEPT ![c] = watch[c]]
      BY <1>1 DEF Connect
    <2>. HIDE DEF l
    <2>3. IsEntry(l, watch[c], instances) /\ ~IsDue(l, watch[c], c)
      BY <1>1, <2>1 DEF IsEntry, IsDue, Connect
    <2>. QED  BY <1>0, <2>2, <2>3, QuietStep
  <1>2. CASE ConnectRefused(c)
    <2>. DEFINE l == [link[c] EXCEPT !.state = "stamping"]
                w == [watch[c] EXCEPT !.blocked = TRUE, !.refused = TRUE]
    <2>1. /\ l \in LinkRecord /\ l.state = "stamping"
          /\ w \in WatchRecord /\ w.run = watch[c].run /\ w.instance = watch[c].instance
      BY DEF LinkRecord, WatchRecord
    <2>2. link' = [link EXCEPT ![c] = l] /\ watch' = [watch EXCEPT ![c] = w]
      BY <1>2 DEF ConnectRefused
    <2>. HIDE DEF l, w
    <2>3. IsEntry(l, w, instances) /\ ~IsDue(l, w, c)
      BY <1>2, <2>1 DEF IsEntry, IsDue, ConnectRefused
    <2>. QED  BY <1>0, <2>2, <2>3, QuietStep
  <1>3. CASE ConnectPutOff(c)
    <2>. DEFINE w == [watch[c] EXCEPT !.refused = TRUE]
    <2>1. /\ w \in WatchRecord /\ w.run = watch[c].run /\ w.instance = watch[c].instance
          /\ w.blocked = watch[c].blocked
      BY DEF WatchRecord
    <2>2. link' = [link EXCEPT ![c] = link[c]] /\ watch' = [watch EXCEPT ![c] = w]
      BY <1>3 DEF ConnectPutOff
    <2>. HIDE DEF w
    <2>3. IsEntry(link[c], w, instances) /\ ~IsDue(link[c], w, c)
      BY <1>3, <2>1 DEF IsEntry, IsDue, ConnectPutOff
    <2>. QED  BY <1>0, <2>2, <2>3, QuietStep
  <1>4. CASE ReadStampPump(c)
    <2>0. service[c].starts \in 0..MaxStarts + 1 /\ Unobserved \in 0..MaxStarts + 1
      BY BindingsAssumption DEF RowShape, ServiceRecord, Unobserved
    <2>1. PICK stamp \in 0..MaxStarts + 1 : watch' = [watch EXCEPT ![c].stamp = stamp]
      BY <1>4, <2>0 DEF ReadStampPump
    <2>. DEFINE w == [watch[c] EXCEPT !.stamp = stamp]
    <2>2. /\ w \in WatchRecord /\ w.run = watch[c].run /\ w.instance = watch[c].instance
          /\ w.blocked = watch[c].blocked
      BY DEF WatchRecord
    <2>3. link' = [link EXCEPT ![c] = NoLink] /\ watch' = [watch EXCEPT ![c] = w]
      BY <1>4, <2>1 DEF ReadStampPump
    <2>. HIDE DEF w
    <2>4. IsEntry(NoLink, w, instances) /\ ~IsDue(NoLink, w, c)
      BY <2>2, FreshEntry DEF IsEntry, IsDue
    <2>. QED  BY <1>0, <2>3, <2>4, QuietStep
  <1>5. CASE Install(c)
    <2>. DEFINE l == [link[c] EXCEPT !.state = "open"]
                w == [watch[c] EXCEPT !.changed = @ \/ Recheck]
    <2>1. /\ l \in LinkRecord /\ l.state = "open"
          /\ w \in WatchRecord /\ w.run = watch[c].run /\ w.instance = watch[c].instance
          /\ w.blocked = watch[c].blocked /\ w.refused = watch[c].refused /\ w.changed = TRUE
      BY DEF LinkRecord, WatchRecord, Recheck
    <2>2. link' = [link EXCEPT ![c] = l] /\ watch' = [watch EXCEPT ![c] = w]
      BY <1>5 DEF Install
    <2>. HIDE DEF l, w
    <2>3. link[c].state = "registered" /\ link[c] # NoLink
      BY <1>5, FreshEntry DEF Install
    <2>4. IsEntry(l, w, instances)
      BY <2>1, <2>3 DEF IsEntry
    <2>. QED  BY <1>0, <2>1, <2>2, <2>4, QuietStep
  <1>6. CASE Heartbeat(c)
    <2>. DEFINE l == [link[c] EXCEPT !.hint = TRUE]
    <2>1. l \in LinkRecord /\ l.state = link[c].state /\ l.hint = TRUE
      BY DEF LinkRecord
    <2>2. link' = [link EXCEPT ![c] = l] /\ watch' = [watch EXCEPT ![c] = watch[c]]
      BY <1>6 DEF Heartbeat
    <2>. HIDE DEF l
    <2>3. link[c] # NoLink
      BY <1>6, FreshEntry DEF Heartbeat
    <2>4. IsEntry(l, watch[c], instances)
      BY <2>1, <2>3 DEF IsEntry
    <2>. QED  BY <1>0, <2>1, <2>2, <2>4, QuietStep
  <1>7. CASE ReadFrame(c)
    <2>. DEFINE l == [link[c] EXCEPT !.hint = FALSE]
                w == [watch[c] EXCEPT !.changed = TRUE]
    <2>1. /\ l \in LinkRecord /\ l.state = link[c].state
          /\ w \in WatchRecord /\ w.run = watch[c].run /\ w.instance = watch[c].instance
          /\ w.blocked = watch[c].blocked /\ w.refused = watch[c].refused /\ w.changed = TRUE
      BY DEF LinkRecord, WatchRecord
    <2>2. link' = [link EXCEPT ![c] = l] /\ watch' = [watch EXCEPT ![c] = w]
      BY <1>7 DEF ReadFrame
    <2>. HIDE DEF l, w
    <2>3. link[c] # NoLink
      BY <1>7, FreshEntry DEF ReadFrame
    <2>4. IsEntry(l, w, instances)
      BY <2>1, <2>3 DEF IsEntry
    <2>. QED  BY <1>0, <2>1, <2>2, <2>4, QuietStep
  <1>8. CASE Disconnect(c)
    <2>1. link' = [link EXCEPT ![c] = NoLink] /\ watch' = [watch EXCEPT ![c] = watch[c]]
      BY <1>8 DEF Disconnect
    <2>2. IsEntry(NoLink, watch[c], instances) /\ ~IsDue(NoLink, watch[c], c)
      BY FreshEntry DEF IsEntry, IsDue
    <2>. QED  BY <1>0, <2>1, <2>2, QuietStep
  <1>. QED  BY <1>1, <1>2, <1>3, <1>4, <1>5, <1>6, <1>7, <1>8

\* The loop's steps that ask nothing: a blocked watch may take a signal and do nothing,
\* because it was refused.
LEMMA LoopKeeps ==
    ASSUME RowShape, WatchesOK, HintsArePending, NEW c \in Binding,
           UnblockWatch(c) \/ WakeBlocked(c) \/ ReadStamp(c)
    PROVE  WatchesOK' /\ HintsArePending'
  <1>. /\ link \in [Binding -> LinkRecord] /\ watch \in [Binding -> WatchRecord]
       /\ link[c] \in LinkRecord /\ watch[c] \in WatchRecord
       /\ link = [link EXCEPT ![c] = link[c]] /\ watch = [watch EXCEPT ![c] = watch[c]]
       /\ IsEntry(link[c], watch[c], instances)
    BY EntryFacts
  <1>0. /\ UNCHANGED bindingsVars /\ link' = [link EXCEPT ![c] = link[c]]
        /\ service[c].starts \in 0..MaxStarts + 1 /\ Unobserved \in 0..MaxStarts + 1
    BY BindingsAssumption DEF UnblockWatch, WakeBlocked, ReadStamp, RowShape, ServiceRecord, Unobserved
  <1>1. CASE UnblockWatch(c)
    <2>. DEFINE w == [watch[c] EXCEPT !.blocked = FALSE]
    <2>1. /\ w \in WatchRecord /\ w.run = watch[c].run /\ w.instance = watch[c].instance
          /\ w.blocked = FALSE /\ w.refused = watch[c].refused /\ w.changed = watch[c].changed
      BY DEF WatchRecord
    <2>2. watch' = [watch EXCEPT ![c] = w]
      BY <1>1 DEF UnblockWatch
    <2>. HIDE DEF w
    <2>3. IsEntry(link[c], w, instances)
      BY <2>1 DEF IsEntry
    <2>4. IsDue(link[c], w, c) => \/ link[c].hint \/ w.changed
                                  \/ /\ IsDue(link[c], watch[c], c)
                                     /\ ~link[c].hint /\ ~watch[c].changed
      BY <2>1 DEF IsDue
    <2>. QED  BY <1>0, <2>2, <2>3, <2>4, QuietStep
  <1>2. CASE WakeBlocked(c)
    <2>1. PICK stamp \in 0..MaxStarts + 1 :
             watch' = [watch EXCEPT ![c].changed = FALSE, ![c].stamp = stamp]
      <3>1. watch[c].stamp \in 0..MaxStarts + 1
        BY DEF WatchRecord
      <3>2. CASE watch' = [watch EXCEPT ![c].changed = FALSE]
        <4>1. watch' = [watch EXCEPT ![c].changed = FALSE, ![c].stamp = watch[c].stamp]
          BY <3>2 DEF WatchRecord
        <4>. QED  BY <3>1, <4>1
      <3>3. CASE watch' = [watch EXCEPT ![c].changed = FALSE, ![c].stamp = service[c].starts]
        BY <1>0, <3>3
      <3>. QED  BY <1>2, <3>2, <3>3 DEF WakeBlocked
    <2>. DEFINE w == [watch[c] EXCEPT !.changed = FALSE, !.stamp = stamp]
    <2>2. /\ w \in WatchRecord /\ w.run = watch[c].run /\ w.instance = watch[c].instance
          /\ w.blocked = watch[c].blocked /\ w.refused = watch[c].refused
      BY DEF WatchRecord
    <2>3. watch' = [watch EXCEPT ![c] = w]
      BY <2>1
    <2>. HIDE DEF w
    <2>4. IsEntry(link[c], w, instances)
      BY <2>2 DEF IsEntry
    <2>5. watch[c].run = "idle" /\ watch[c].blocked
      BY <1>2 DEF WakeBlocked
    <2>6. ~IsDue(link[c], w, c)
      BY <2>2, <2>5 DEF IsDue, IsEntry
    <2>. QED  BY <1>0, <2>3, <2>4, <2>6, QuietStep
  <1>3. CASE ReadStamp(c)
    <2>1. PICK stamp \in 0..MaxStarts + 1 :
             watch' = [watch EXCEPT ![c].run = "idle", ![c].stamp = stamp]
      BY <1>0, <1>3 DEF ReadStamp
    <2>. DEFINE w == [watch[c] EXCEPT !.run = "idle", !.stamp = stamp]
    <2>2. /\ w \in WatchRecord /\ w.run = "idle" /\ w.instance = watch[c].instance
          /\ w.blocked = watch[c].blocked /\ w.refused = watch[c].refused
          /\ w.changed = watch[c].changed
      BY DEF WatchRecord
    <2>3. watch' = [watch EXCEPT ![c] = w]
      BY <2>1
    <2>. HIDE DEF w
    <2>4. watch[c].run = "stamping"
      BY <1>3 DEF ReadStamp
    <2>5. IsEntry(link[c], w, instances)
      BY <2>2, <2>4 DEF IsEntry
    <2>6. IsDue(link[c], w, c) => \/ link[c].hint \/ w.changed
                                  \/ /\ IsDue(link[c], watch[c], c)
                                     /\ ~link[c].hint /\ ~watch[c].changed
      BY <2>2 DEF IsDue
    <2>. QED  BY <1>0, <2>3, <2>5, <2>6, QuietStep
  <1>. QED  BY <1>1, <1>2, <1>3
\* A watch that is replaced or stopped has no subscription; its request serves no other.
LEMMA EndedKeeps ==
    ASSUME RefreshInv, InboxInv, WatchesOK, HintsArePending, NEW c \in Binding,
           ReplaceWatch(c) \/ StopNotifier(c)
    PROVE  WatchesOK' /\ HintsArePending'
  <1>1. /\ UNCHANGED <<inboxVars, rowVars, happened, service>> /\ request' = Abandoned(c)
        /\ UNCHANGED <<inboxVars, service, rowVars, happened>>
        /\ link' = [link EXCEPT ![c] = NoLink]
    BY DEF ReplaceWatch, StopNotifier, ClosedLink
  <1>2. bound[c] \in 0..MaxInstance /\ bound[c] <= instances /\ instances \in Nat
    BY InboxAssumption DEF InboxInv, InboxTypeOK, RefreshInv, RowShape
  <1>. DEFINE started == [NoWatch EXCEPT !.run = "idle", !.instance = bound[c]]
  <1>3. /\ started \in WatchRecord /\ started.run = "idle" /\ started.instance = bound[c]
        /\ started.blocked = FALSE
    BY <1>2, FreshEntry DEF WatchRecord
  <1>4. PICK w : w \in {NoWatch, NewWatch(c)} /\ watch' = [watch EXCEPT ![c] = w]
    BY DEF ReplaceWatch, StopNotifier
  <1>5. NewWatch(c) = IF bound[c] = 0 THEN NoWatch ELSE started
    BY DEF NewWatch
  <1>. HIDE DEF started
  <1>6. IsEntry(NoLink, w, instances)
    BY <1>2, <1>3, <1>4, <1>5, FreshEntry DEF IsEntry
  <1>7. ~IsBehind(c)'
    BY <1>1, FreshEntry DEF IsBehind, WatchesOK, WatchShape
  <1>8. \A h \in Handler : ~(request[h].awaited /\ request[h].binding = c) => request'[h] = request[h]
    BY <1>1, AbandonForgets DEF RefreshInv
  <1>9. ASSUME NEW b \in Binding, b # c PROVE Served(b) => Served(b)'
    <2>1. \A h \in Handler : Serves(request[h], b, Current(b)) => Serves(request'[h], b, Current(b))
      BY <1>8, <1>9 DEF Serves
    <2>2. Current(b)' = Current(b)
      BY <1>1 DEF Current
    <2>. QED  BY <2>1, <2>2, ServedStays
  <1>. QED  BY <1>1, <1>4, <1>6, <1>7, <1>9, EntryStep

\* A signal is taken before the request is made, and the request serves instead of it.
LEMMA WakeKeeps ==
    ASSUME RefreshInv, InboxInv, WatchesOK, HintsArePending, NEW c \in Binding, Wake(c)
    PROVE  WatchesOK' /\ HintsArePending'
  <1>1. PICK h \in Handler : Ask(h, c, TRUE)
    BY DEF Wake
  <1>2. /\ \A k \in Handler : k # h => request'[k] = request[k]
        /\ Serves(request'[h], c, Current(c))
        /\ request[h].phase = "idle"
        /\ UNCHANGED <<inboxVars, service, rowVars, happened>>
    BY <1>1, AskReads DEF RefreshInv
  <1>3. /\ link[c] \in LinkRecord /\ watch[c] \in WatchRecord
        /\ link = [link EXCEPT ![c] = link[c]]
        /\ IsEntry(link[c], watch[c], instances)
    BY EntryFacts
  <1>. DEFINE w == [watch[c] EXCEPT !.run = "asking", !.changed = FALSE, !.blocked = FALSE]
  <1>4. /\ w \in WatchRecord /\ w.run = "asking" /\ w.instance = watch[c].instance
        /\ w.blocked = FALSE
    BY <1>3 DEF WatchRecord
  <1>5. /\ link' = [link EXCEPT ![c] = link[c]] /\ watch' = [watch EXCEPT ![c] = w]
        /\ watch[c].run = "idle"
    BY <1>3 DEF Wake
  <1>. HIDE DEF w
  <1>6. IsEntry(link[c], w, instances)
    BY <1>3, <1>4, <1>5 DEF IsEntry
  <1>7. \A b \in Binding : Current(b)' = Current(b) /\ service'[b] = service[b]
    BY <1>2 DEF Current
  <1>8. Served(c)'
    BY <1>2, <1>7 DEF Served
  <1>9. ASSUME NEW b \in Binding PROVE Served(b) => Served(b)'
    <2>1. \A k \in Handler : Serves(request[k], b, Current(b)) => k # h
      BY <1>2 DEF Serves, Code
    <2>. QED  BY <1>2, <1>7, <2>1, ServedStays
  <1>10. UNCHANGED <<inboxVars, rowVars, happened>>
    BY <1>2
  <1>. QED  BY <1>5, <1>6, <1>7, <1>8, <1>9, <1>10, EntryStep

\* The answer ok comes from a commit after which another request serves, or none is needed.
LEMMA TakeKeeps ==
    ASSUME RefreshInv, WatchesOK, HintsArePending, NEW c \in Binding, TakeAnswer(c)
    PROVE  WatchesOK' /\ HintsArePending'
  <1>1. PICK h \in Handler :
           /\ watch[c].run = "asking"
           /\ request[h].awaited /\ request[h].binding = c /\ request[h].phase \in Code
           /\ request' = [request EXCEPT ![h] = Idle]
           /\ watch' = [watch EXCEPT
                  ![c].run = CASE request[h].phase = "operator" -> "stamping"
                               [] request[h].phase = "failure"  -> "dead"
                               [] OTHER                         -> "idle",
                  ![c].blocked = @ \/ request[h].phase = "operator",
                  ![c].refused = request[h].phase # "ok"]
           /\ link' = IF request[h].phase = "failure" THEN ClosedLink(c) ELSE link
           /\ UNCHANGED <<inboxVars, service, rowVars, happened>>
    BY DEF TakeAnswer
  <1>2. /\ link[c] \in LinkRecord /\ watch[c] \in WatchRecord
        /\ link \in [Binding -> LinkRecord] /\ watch \in [Binding -> WatchRecord]
        /\ link = [link EXCEPT ![c] = link[c]]
        /\ IsEntry(link[c], watch[c], instances)
    BY EntryFacts
  <1>3. PICK code \in Code : code = request[h].phase
    BY <1>1
  <1>4. PICK run \in {"stamping", "dead", "idle"} :
           /\ run = CASE code = "operator" -> "stamping"
                      [] code = "failure"  -> "dead"
                      [] OTHER             -> "idle"
           /\ run = "dead" <=> code = "failure"
           /\ code = "ok" => run = "idle"
    BY DEF Code
  <1>. DEFINE w == [watch[c] EXCEPT !.run = run, !.blocked = @ \/ code = "operator",
                                    !.refused = code # "ok"]
              l == IF code = "failure" THEN NoLink ELSE link[c]
  <1>5. /\ w \in WatchRecord /\ w.run = run /\ w.instance = watch[c].instance
        /\ w.blocked = (watch[c].blocked \/ code = "operator") /\ w.refused = (code # "ok")
        /\ w.changed = watch[c].changed
    BY <1>2 DEF WatchRecord
  <1>6. watch' = [watch EXCEPT ![c] = w]
    BY <1>1, <1>2, <1>3, <1>4
  <1>7. link' = [link EXCEPT ![c] = l]
    BY <1>1, <1>2, <1>3 DEF ClosedLink
  <1>. HIDE DEF w
  <1>8. IsEntry(l, w, instances)
    BY <1>1, <1>2, <1>4, <1>5, FreshEntry DEF IsEntry
  <1>9. \A k \in Handler : k # h => request'[k] = request[k]
    BY <1>1 DEF RefreshInv, RowShape
  <1>10. \A b \in Binding : Current(b)' = Current(b) /\ service'[b] = service[b]
    BY <1>1 DEF Current
  <1>11. ASSUME NEW b \in Binding, b # c PROVE Served(b) => Served(b)'
    <2>1. \A k \in Handler : Serves(request[k], b, Current(b)) => k # h
      BY <1>1, <1>11 DEF Serves
    <2>. QED  BY <1>9, <1>10, <2>1, ServedStays
  <1>12. ASSUME IsBehind(c)' PROVE l.hint \/ w.changed \/ Served(c)'
    <2>1. link'[c] = l /\ watch'[c] = w
      BY <1>2, <1>6, <1>7
    <2>2. /\ l.state = "open" /\ w.instance = bound[c] /\ (~w.refused \/ w.run = "asking")
          /\ happened[c] = {} /\ observed[c] # Current(c)
      BY <1>1, <1>10, <1>12, <2>1 DEF IsBehind, inboxVars, rowVars
    <2>3. code = "ok" /\ l = link[c]
      BY <1>4, <1>5, <2>2
    <2>4. IsBehind(c)
      BY <1>1, <1>5, <2>2, <2>3 DEF IsBehind
    <2>5. link[c].hint \/ watch[c].changed \/ Served(c)
      BY <2>4 DEF HintsArePending
    <2>6. \A k \in Handler : Serves(request[k], c, Current(c)) => k # h
      BY <1>3, <2>3 DEF Serves
    <2>7. Served(c) => Served(c)'
      BY <1>9, <1>10, <2>6, ServedStays
    <2>. QED  BY <1>5, <2>3, <2>5, <2>7
  <1>. HIDE DEF l
  <1>13. UNCHANGED <<inboxVars, rowVars, happened>>
    BY <1>1
  <1>. QED  BY <1>6, <1>7, <1>8, <1>10, <1>11, <1>12, <1>13, EntryStep

\* A commit of the service leaves a hint in every queue; a service that ends has no queue.
LEMMA HubKeeps ==
    ASSUME RefreshInv, WatchesOK, HintsArePending, NEW c \in Binding,
           NotifyCommitted(c) \/ ServiceFails(c)
    PROVE  WatchesOK' /\ HintsArePending'
  <1>1. /\ UNCHANGED <<inboxVars, rowVars, happened>> /\ request' = request
        /\ watch' = watch
        /\ service \in [Binding -> ServiceRecord]
    BY DEF NotifyCommitted, ServiceFails, Write, Fail, RefreshInv, RowShape
  <1>2. /\ link[c] \in LinkRecord /\ watch[c] \in WatchRecord
        /\ link \in [Binding -> LinkRecord]
        /\ watch = [watch EXCEPT ![c] = watch[c]]
        /\ IsEntry(link[c], watch[c], instances)
    BY EntryFacts
  <1>3. \A b \in Binding : b # c => service'[b] = service[b] /\ (Served(b) => Served(b)')
    <2>1. \A b \in Binding : b # c => service'[b] = service[b]
      BY <1>1 DEF NotifyCommitted, ServiceFails, Write, Fail
    <2>. QED  BY <1>1, <2>1 DEF Served, Current
  <1>4. CASE NotifyCommitted(c)
    <2>0. PICK hint \in BOOLEAN : hint = (link[c].state \in {"registered", "open"})
      <3>1. CASE link[c].state \in {"registered", "open"}
        <4>1. TRUE = (link[c].state \in {"registered", "open"})
          BY <3>1
        <4>. QED  BY <4>1
      <3>2. CASE link[c].state \notin {"registered", "open"}
        <4>1. FALSE = (link[c].state \in {"registered", "open"})
          BY <3>2
        <4>. QED  BY <4>1
      <3>. QED  BY <3>1, <3>2
    <2>. DEFINE l == [link[c] EXCEPT !.hint = hint]
    <2>1. l \in LinkRecord /\ l.state = link[c].state /\ l.hint = hint
      BY <1>2 DEF LinkRecord
    <2>2. link' = [link EXCEPT ![c] = l]
      BY <1>4, <2>0 DEF NotifyCommitted
    <2>. HIDE DEF l
    <2>3. link[c] = NoLink => l = NoLink
      <3>1. link[c] = NoLink => ~hint /\ ~link[c].hint
        BY <2>0, FreshEntry
      <3>2. link[c].hint = l.hint => link[c] = l
        BY <1>2, <2>1 DEF LinkRecord
      <3>. QED  BY <1>2, <2>1, <3>1, <3>2 DEF LinkRecord
    <2>4. IsEntry(l, watch[c], instances)
      BY <1>2, <2>1, <2>3 DEF IsEntry
    <2>5. IsBehind(c)' => l.hint
      BY <1>2, <2>0, <2>1, <2>2 DEF IsBehind
    <2>. QED  BY <1>1, <1>2, <1>3, <2>2, <2>4, <2>5, EntryStep
  <1>5. CASE ServiceFails(c)
    <2>. DEFINE l == IF link[c].state = "stamping" THEN link[c] ELSE NoLink
    <2>1. link' = [link EXCEPT ![c] = l]
      BY <1>5 DEF ServiceFails
    <2>2. l.state \in {"none", "stamping"}
      BY FreshEntry
    <2>3. IsEntry(l, watch[c], instances)
      BY <1>2, <2>2, FreshEntry DEF IsEntry
    <2>. HIDE DEF l
    <2>4. ~IsBehind(c)'
      BY <1>2, <2>1, <2>2 DEF IsBehind
    <2>. QED  BY <1>1, <1>2, <1>3, <2>1, <2>3, <2>4, EntryStep
  <1>. QED  BY <1>4, <1>5
----------------------------------------------------------------------------
(* The theorems.                                                            *)

\* The bridge starts without bindings and the notifier without watches.
LEMMA WatchInvInit ==
    ASSUME WatchInit
    PROVE  WatchInv
  <1>1. InboxInv
    BY InboxInvInit DEF WatchInit, BindingsInit
  <1>2. /\ bound = [b \in Binding |-> 0] /\ instances = 0
        /\ service = [b \in Binding |-> [state |-> "up", store |-> 1, head |-> 0, starts |-> 1]]
        /\ observed = [b \in Binding |-> NoObservation]
        /\ anomalies = [b \in Binding |-> {}]
        /\ request = [h \in Handler |-> Idle]
        /\ happened = [b \in Binding |-> {}]
        /\ link = [b \in Binding |-> NoLink]
        /\ watch = [b \in Binding |-> NoWatch]
    BY DEF WatchInit, BindingsInit, InboxInit
  <1>3. [state |-> "up", store |-> 1, head |-> 0, starts |-> 1] \in ServiceRecord
    BY BindingsAssumption DEF ServiceRecord
  <1>4. NoObservation \in Observation
    BY BindingsAssumption DEF NoObservation, Observation
  <1>5. RowShape
    BY <1>2, <1>3, <1>4, IdleIsRequest DEF RowShape
  <1>6. RowsWereRead /\ RequestsArePast
    BY <1>2, IdleIsRequest DEF RowsWereRead, RequestsArePast
  <1>7. RowsArePast
    BY <1>2 DEF RowsArePast, Follows, NoObservation
  <1>8. WatchShape /\ BlockedIsRefused
    BY <1>2, FreshEntry DEF WatchShape, BlockedIsRefused
  <1>9. HintsArePending
    BY <1>2, FreshEntry DEF HintsArePending, IsBehind
  <1>. QED  BY <1>1, <1>5, <1>6, <1>7, <1>8, <1>9 DEF WatchInv, BindingsInv, RefreshInv

\* Every step of the bridge, the services, the operators and the notifier keeps the
\* invariant.
LEMMA WatchInvNext ==
    ASSUME WatchInv, [WatchNext]_allVars
    PROVE  WatchInv'
  <1>. /\ BindingsInv /\ RefreshInv /\ InboxInv /\ RowShape /\ WatchesOK /\ HintsArePending
    BY DEF WatchInv, BindingsInv, RefreshInv, WatchesOK
  <1>. TableStep
    BY WatchStepIsTableStep
  <1>1. BindingsInv'
    BY TableStepKeeps
  <1>2. CASE UNCHANGED allVars
    <2>1. UNCHANGED <<service, request, bound, instances, observed, happened, link, watch>>
      BY <1>2 DEF allVars, bindingsVars, inboxVars, rowVars, watchVars
    <2>2. WatchesOK'
      BY <2>1 DEF WatchesOK, WatchShape, BlockedIsRefused
    <2>3. HintsArePending'
      BY <2>1 DEF HintsArePending, IsBehind, Served, Current
    <2>. QED  BY <1>1, <2>2, <2>3 DEF WatchInv, WatchesOK
  <1>3. ASSUME UNCHANGED watchVars, BridgeHandlers \/ \E c \in Binding : ServiceAndOperator(c)
        PROVE  WatchesOK' /\ HintsArePending'
    BY <1>3, InstancesGrow, WatchesUnchanged, TablesKeepPending
  <1>4. CASE BridgeHandlers
    BY <1>1, <1>3, <1>4 DEF BridgeHandlers, WatchInv, WatchesOK
  <1>5. ASSUME NEW c \in Binding, ServiceAndOperator(c) PROVE WatchesOK' /\ HintsArePending'
    <2>1. UNCHANGED watchVars
      BY <1>5 DEF ServiceAndOperator
    <2>. QED  BY <1>3, <1>5, <2>1
  <1>6. ASSUME NEW c \in Binding, WatchTasks(c) PROVE WatchesOK' /\ HintsArePending'
    BY <1>6, PumpKeeps, LoopKeeps, EndedKeeps, WakeKeeps, TakeKeeps DEF WatchTasks
  <1>7. ASSUME NEW c \in Binding, Hints(c) PROVE WatchesOK' /\ HintsArePending'
    BY <1>7, PumpKeeps, HubKeeps DEF Hints
  <1>8. ASSUME NEW c \in Binding, ServiceAndOperator(c) \/ WatchTasks(c) \/ Hints(c)
        PROVE  WatchInv'
    BY <1>1, <1>5, <1>6, <1>7, <1>8 DEF WatchInv, WatchesOK
  <1>. QED  BY <1>2, <1>4, <1>8 DEF WatchNext

\* WatchInv holds of every reachable state of the bridge and its watches.
THEOREM WatchInvariance == WatchSpec => []WatchInv
  <1>1. WatchInit => WatchInv
    BY WatchInvInit
  <1>2. WatchInv /\ [WatchNext]_allVars => WatchInv'
    BY WatchInvNext
  <1>. QED  BY <1>1, <1>2, PTL DEF WatchSpec

\* The rows, the requests and the watches keep their types, and no subscription outlives
\* its watch (MemoryWatches.update(), close()).
THEOREM WatchTypeInvariance == WatchSpec => []WatchTypeOK
  <1>1. WatchInv => WatchTypeOK
    <2>. SUFFICES ASSUME WatchInv PROVE WatchTypeOK
      OBVIOUS
    <2>1. InboxTypeOK /\ RowShape /\ WatchShape
      BY DEF WatchInv, BindingsInv, RefreshInv, InboxInv
    <2>2. \A h \in Handler : request[h] \in Request
      BY <2>1 DEF RowShape
    <2>3. BindingsTypeOK
      BY <2>1, <2>2 DEF BindingsTypeOK, RowShape, ServiceRecord, Request
    <2>. QED  BY <2>1, <2>3 DEF WatchTypeOK, WatchShape, LinkRecord, WatchRecord
  <1>. QED  BY <1>1, WatchInvariance, PTL

\* Overlapping refreshes report no anomaly that did not befall the service while the
\* binding existed (the comparisons of refresh()).
THEOREM NoFalseAlarm == WatchSpec => []AnomaliesAreReal
  <1>1. WatchInv => AnomaliesAreReal
    BY DEF WatchInv, BindingsInv, RefreshInv, RowsArePast, AnomaliesAreReal
  <1>. QED  BY <1>1, WatchInvariance, PTL

\* While a subscription is open and nothing was refused, a change that is not recorded has a
\* hint, a signal or a request that will record it (watch_changes(), HintHub, refresh()).
THEOREM WakeupsAreKept == WatchSpec => []NoLostWakeup
  <1>1. WatchInv => NoLostWakeup
    <2>1. \A b \in Binding : Served(b) => Underway(b)
      BY DEF Served, Serves, Underway
    <2>. QED  BY <2>1 DEF WatchInv, HintsArePending, IsBehind, NoLostWakeup
  <1>. QED  BY <1>1, WatchInvariance, PTL

\* The bridge's handlers, with all that goes on around them, do to the inbox only what Inbox
\* allows: the first job and the service's answer do nothing, the second one is a refresh.
THEOREM RefreshImplementsInbox == WatchSpec => ImplementsInbox
  <1>1. WatchInit => InboxInit
    BY DEF WatchInit, BindingsInit
  <1>2. WatchInv /\ [WatchNext]_allVars => [InboxNext]_inboxVars
    BY WatchStepIsTableStep, TableStepIsInboxStep DEF WatchInv, BindingsInv, RefreshInv
  <1>. QED  BY <1>1, <1>2, WatchInvariance, PTL DEF WatchSpec, InboxSpec, ImplementsInbox
=============================================================================
