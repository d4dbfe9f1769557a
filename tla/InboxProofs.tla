---------------------------- MODULE InboxProofs ----------------------------
(***************************************************************************)
(* What holds of the inbox for every number of bindings, rows and           *)
(* sequences.                                                               *)
(***************************************************************************)
EXTENDS Inbox, TLAPS

\* The inductive invariant: the three properties need each other.  A new row is
\* above the watermark because the watermark never exceeds the allocated head;
\* a rebound binding has no pointer because pointers belong to bound ones.
InboxInv == InboxTypeOK /\ RetainedAboveAck /\ PointersAreCurrent

\* The empty inbox satisfies the invariant.
LEMMA InboxInvInit ==
    ASSUME InboxInit
    PROVE  InboxInv
  BY InboxAssumption
     DEF InboxInit, InboxInv, InboxTypeOK, RetainedAboveAck, PointersAreCurrent

\* A stored peer row is above the watermark and is no pointer.
LEMMA StoreKeepsInv ==
    ASSUME InboxInv, NEW kind \in PeerKind, Store(kind)
    PROVE  InboxInv'
  <1>1. head \in Nat /\ head + 1 \in 1..MaxSeq
    BY InboxAssumption DEF InboxInv, InboxTypeOK, Store, InsertRow
  <1>2. DOMAIN inbox' = DOMAIN inbox \cup {head + 1}
    BY DEF Store, InsertRow
  <1>3. head + 1 \notin DOMAIN inbox
    BY <1>1 DEF InboxInv, InboxTypeOK
  <1>4. /\ inbox'[head + 1] = [kind |-> kind, binding |-> NoBinding, instance |-> 0]
        /\ \A s \in DOMAIN inbox : inbox'[s] = inbox[s]
    BY <1>3 DEF Store, InsertRow
  <1>5. InboxTypeOK'
    BY <1>1, <1>2, <1>4 DEF InboxInv, InboxTypeOK, Store, InsertRow, InboxRow
  <1>6. RetainedAboveAck'
    BY <1>1, <1>2 DEF InboxInv, InboxTypeOK, RetainedAboveAck, Store
  <1>7. PointersAreCurrent'
    BY <1>2, <1>4 DEF InboxInv, PointersAreCurrent, Store, PeerKind, Pointers, Bound
  <1>. QED  BY <1>5, <1>6, <1>7 DEF InboxInv

\* An acknowledgement removes rows and raises the watermark to at most the head.
LEMMA AcknowledgeKeepsInv ==
    ASSUME InboxInv, NEW request \in Nat, Acknowledge(request)
    PROVE  InboxInv'
  <1>. DEFINE through == AckTarget(request)
  <1>1. through \in 0..head
    BY InboxAssumption DEF InboxInv, InboxTypeOK, AckTarget, Smaller
  <1>2. /\ DOMAIN inbox' = {s \in DOMAIN inbox : ~(s <= through)}
        /\ \A s \in DOMAIN inbox' : inbox'[s] = inbox[s]
        /\ inbox' = [s \in DOMAIN inbox' |-> inbox'[s]]
    BY DEF Acknowledge, AckedRows, Restrict
  <1>3. ack' \in 0..head /\ (ack' = through \/ ack' = ack) /\ ack' >= through
    BY <1>1 DEF InboxInv, InboxTypeOK, Acknowledge, AckWatermark, Larger
  <1>4. InboxTypeOK'
    BY <1>2, <1>3 DEF InboxInv, InboxTypeOK, Acknowledge, InboxRow
  <1>5. RetainedAboveAck'
    <2>. SUFFICES ASSUME NEW s \in DOMAIN inbox' PROVE s > ack'
      BY DEF RetainedAboveAck
    <2>1. s \in DOMAIN inbox /\ s \in Nat /\ s > ack /\ s > through
      BY <1>1, <1>2 DEF InboxInv, InboxTypeOK, RetainedAboveAck
    <2>. QED  BY <2>1, <1>3
  <1>6. PointersAreCurrent'
    <2>1. Bound' = Bound /\ bound' = bound
      BY DEF Acknowledge, Bound
    <2>2. \A b \in Binding : Pointers(b)' = Pointers(b) \cap DOMAIN inbox'
      BY <1>2 DEF Pointers
    <2>3. SUFFICES ASSUME NEW s \in DOMAIN inbox', inbox'[s].kind = "memory-pointer"
                   PROVE  /\ inbox'[s].binding \in Bound'
                          /\ inbox'[s].instance = bound'[inbox'[s].binding]
                          /\ Pointers(inbox[s].binding)' = {s}
      BY DEF PointersAreCurrent, Pointers
    <2>4. inbox'[s] = inbox[s] /\ s \in DOMAIN inbox
      BY <1>2
    <2>5. /\ inbox[s].binding \in Bound
          /\ inbox[s].instance = bound[inbox[s].binding]
          /\ Pointers(inbox[s].binding) = {s}
      BY <2>3, <2>4 DEF InboxInv, PointersAreCurrent
    <2>. QED  BY <2>1, <2>2, <2>4, <2>5 DEF Bound
  <1>. QED  BY <1>4, <1>5, <1>6 DEF InboxInv

\* A binding without an instance has no pointers, so a fresh instance finds none
\* of the previous one.
LEMMA BindKeepsInv ==
    ASSUME InboxInv, NEW b \in Binding, Bind(b)
    PROVE  InboxInv'
  <1>1. bound' \in [Binding -> 0..MaxInstance] /\ instances' \in 0..MaxInstance
    BY InboxAssumption DEF InboxInv, InboxTypeOK, Bind
  <1>2. \A c \in Bound : c \in Bound' /\ bound'[c] = bound[c]
    BY <1>1 DEF InboxInv, InboxTypeOK, Bind, Bound
  <1>3. PointersAreCurrent'
    BY <1>2 DEF InboxInv, PointersAreCurrent, Bind, Pointers
  <1>4. InboxTypeOK' /\ RetainedAboveAck'
    BY <1>1 DEF InboxInv, InboxTypeOK, RetainedAboveAck, Bind, InboxRow
  <1>. QED  BY <1>3, <1>4 DEF InboxInv

\* Unbinding removes the pointers together with the binding.
LEMMA UnbindKeepsInv ==
    ASSUME InboxInv, NEW b \in Binding, Unbind(b)
    PROVE  InboxInv'
  <1>1. /\ DOMAIN inbox' = DOMAIN inbox \ Pointers(b)
        /\ \A s \in DOMAIN inbox' : inbox'[s] = inbox[s]
        /\ inbox' = [s \in DOMAIN inbox' |-> inbox'[s]]
    BY DEF Unbind, UnboundRows, Restrict
  <1>2. bound' \in [Binding -> 0..MaxInstance]
    BY InboxAssumption DEF InboxInv, InboxTypeOK, Unbind
  <1>3. \A c \in Bound : c # b => c \in Bound' /\ bound'[c] = bound[c]
    BY DEF InboxInv, InboxTypeOK, Unbind, Bound
  <1>4. PointersAreCurrent'
    BY <1>1, <1>3 DEF InboxInv, PointersAreCurrent, Pointers
  <1>5. InboxTypeOK' /\ RetainedAboveAck'
    BY <1>1, <1>2 DEF InboxInv, InboxTypeOK, RetainedAboveAck, Unbind, InboxRow
  <1>. QED  BY <1>4, <1>5 DEF InboxInv

\* A refresh leaves exactly one pointer of the binding, of its current instance.
LEMMA RefreshKeepsInv ==
    ASSUME InboxInv, NEW b \in Binding, Refresh(b)
    PROVE  InboxInv'
  <1>. DEFINE new == head + 1
              row == [kind |-> "memory-pointer", binding |-> b, instance |-> bound[b]]
  <1>1. head \in Nat /\ new \in 1..MaxSeq /\ head' = new
    BY InboxAssumption DEF InboxInv, InboxTypeOK, Refresh, InsertRow
  <1>2. new \notin DOMAIN inbox
    BY <1>1 DEF InboxInv, InboxTypeOK
  <1>3. /\ DOMAIN inbox' = (DOMAIN inbox \ Pointers(b)) \cup {new}
        /\ inbox' = [s \in DOMAIN inbox' |-> inbox'[s]]
        /\ inbox'[new] = row
        /\ \A s \in DOMAIN inbox \ Pointers(b) : inbox'[s] = inbox[s]
    BY <1>2 DEF Refresh, InsertRow
  <1>4. row \in InboxRow
    BY InboxAssumption DEF InboxInv, InboxTypeOK, InboxRow
  <1>5. InboxTypeOK'
    BY <1>1, <1>3, <1>4 DEF InboxInv, InboxTypeOK, Refresh, InboxRow
  <1>6. RetainedAboveAck'
    BY <1>1, <1>3 DEF InboxInv, InboxTypeOK, RetainedAboveAck, Refresh
  <1>7. PointersAreCurrent'
    <2>1. Bound' = Bound /\ bound' = bound /\ b \in Bound
      BY DEF Refresh, Bound
    <2>2. Pointers(b)' = {new}
      BY <1>2, <1>3 DEF Pointers
    <2>3. \A c \in Binding : c # b => Pointers(c)' = Pointers(c)
      BY <1>2, <1>3 DEF Pointers
    <2>. QED  BY <1>3, <2>1, <2>2, <2>3 DEF InboxInv, PointersAreCurrent, Pointers, Bound
  <1>. QED  BY <1>5, <1>6, <1>7 DEF InboxInv

\* Every operation of the bridge keeps the invariant.
LEMMA InboxInvNext ==
    ASSUME InboxInv, [InboxNext]_inboxVars
    PROVE  InboxInv'
  <1>1. CASE UNCHANGED inboxVars
    BY <1>1 DEF InboxInv, InboxTypeOK, RetainedAboveAck, PointersAreCurrent, Pointers,
                Bound, InboxRow, inboxVars
  <1>2. ASSUME NEW request \in 0..head + 1, Acknowledge(request) PROVE InboxInv'
    <2>1. request \in Nat
      BY DEF InboxInv, InboxTypeOK
    <2>. QED  BY <1>2, <2>1, AcknowledgeKeepsInv
  <1>. QED  BY <1>1, <1>2, StoreKeepsInv, BindKeepsInv, UnbindKeepsInv, RefreshKeepsInv
            DEF InboxNext

\* InboxInv holds of every reachable inbox.
THEOREM InboxInvariance == InboxSpec => []InboxInv
  <1>1. InboxInit => InboxInv
    BY InboxInvInit
  <1>2. InboxInv /\ [InboxNext]_inboxVars => InboxInv'
    BY InboxInvNext
  <1>. QED  BY <1>1, <1>2, PTL DEF InboxSpec

\* The snapshot checks of the notifier (source_pointer_invalid) never fail on an
\* inbox the bridge wrote: one pointer per binding, of its current instance.
THEOREM PointersStayCurrent == InboxSpec => []PointersAreCurrent
  <1>1. InboxInv => PointersAreCurrent
    BY DEF InboxInv
  <1>. QED  BY <1>1, InboxInvariance, PTL

\* No acknowledged row is ever retained (acknowledge(), allocated_head()).
THEOREM NothingAcknowledgedIsRetained == InboxSpec => []RetainedAboveAck
  <1>1. InboxInv => RetainedAboveAck
    BY DEF InboxInv
  <1>. QED  BY <1>1, InboxInvariance, PTL

\* One step of the bridge removes a peer row only under a watermark that explains
\* it: unbind and refresh delete pointers, only acknowledge() deletes peer rows.
LEMMA StepExplainsPeers ==
    ASSUME InboxInv, [InboxNext]_inboxVars
    PROVE  \A s \in Peers : s \notin DOMAIN inbox' => s <= ack'
  <1>. SUFFICES ASSUME NEW s \in Peers, s \notin DOMAIN inbox' PROVE s <= ack'
    OBVIOUS
  <1>1. s \in DOMAIN inbox /\ s \in Nat /\ \A b \in Binding : s \notin Pointers(b)
    BY DEF InboxInv, InboxTypeOK, Peers, PeerKind, Pointers
  <1>2. CASE UNCHANGED inboxVars
    BY <1>1, <1>2 DEF inboxVars
  <1>3. ASSUME NEW kind \in PeerKind, Store(kind) PROVE FALSE
    BY <1>1, <1>3 DEF Store, InsertRow
  <1>4. ASSUME NEW request \in 0..head + 1, Acknowledge(request) PROVE s <= ack'
    <2>1. AckTarget(request) \in Nat
      BY DEF InboxInv, InboxTypeOK, AckTarget, Smaller
    <2>2. s <= AckTarget(request)
      BY <1>1, <1>4 DEF Acknowledge, AckedRows, Restrict
    <2>3. ack' \in Nat /\ ack' >= AckTarget(request)
      BY <1>4, <2>1 DEF InboxInv, InboxTypeOK, Acknowledge, AckWatermark, Larger
    <2>. QED  BY <1>1, <2>1, <2>2, <2>3
  <1>5. ASSUME NEW b \in Binding, Bind(b) PROVE FALSE
    BY <1>1, <1>5 DEF Bind
  <1>6. ASSUME NEW b \in Binding, Unbind(b) PROVE FALSE
    BY <1>1, <1>6 DEF Unbind, UnboundRows, Restrict
  <1>7. ASSUME NEW b \in Binding, Refresh(b) PROVE FALSE
    BY <1>1, <1>7 DEF Refresh, InsertRow
  <1>. QED  BY <1>2, <1>3, <1>4, <1>5, <1>6, <1>7 DEF InboxNext

\* The watermark explains every peer row that disappears, and no row is stored under it.
THEOREM WatermarkExplainsPeers == InboxSpec => AckExplainsPeers
  <1>1. InboxInv /\ [InboxNext]_inboxVars
          => [ /\ \A s \in Peers : s \notin DOMAIN inbox' => s <= ack'
               /\ RetainedAboveAck' ]_inboxVars
    BY StepExplainsPeers, InboxInvNext DEF InboxInv
  <1>. QED  BY <1>1, InboxInvariance, PTL DEF InboxSpec, AckExplainsPeers
=============================================================================
