------------------------------- MODULE Inbox -------------------------------
(***************************************************************************)
(* The bridge's durable inbox: the SQLite table that InboxStore (bridge.py) *)
(* owns, its acknowledgement watermark (inbox_schema.py) and the memory     *)
(* bindings whose pointers live in the same table (memory_bindings.py).     *)
(* Every operation below is one committed SQLite transaction of the bridge's *)
(* single database worker, so it is one step.                               *)
(*                                                                          *)
(* Message bodies, timestamps and peer process ids are abstracted away: no  *)
(* code downstream of the inbox decides anything on them.  Whether an        *)
(* observation of the memory service changed is a free choice here; the      *)
(* two-phase refresh that decides it is not part of this module.             *)
(***************************************************************************)
EXTENDS Naturals, FiniteSets, FiniteSetsExt

CONSTANTS
    Binding,      \* keys of bindable memory repositories
    NoBinding,    \* the NULL binding of an ordinary peer row
    MaxPeer,      \* retained peer rows (1000 in the code)
    MaxBindings,  \* bindings (16 in the code)
    MaxSeq,       \* bound of the model: sequences ever allocated
    MaxInstance   \* bound of the model: binding instances ever created

ASSUME InboxAssumption ==
    /\ NoBinding \notin Binding
    /\ MaxPeer \in Nat
    /\ MaxBindings \in Nat
    /\ MaxSeq \in Nat
    /\ MaxInstance \in Nat

VARIABLES
    head,       \* sqlite_sequence: the last allocated sequence, never reused
    inbox,      \* retained rows: a function from sequences to rows
    ack,        \* ack_through
    bound,      \* binding_instance of every binding, 0 when unbound
    instances   \* instances created so far (uuid4: a new one is always fresh)

inboxVars == <<head, inbox, ack, bound, instances>>

Sequence == 1..MaxSeq

PeerKind == {"user", "control"}

InboxRow == [kind     : PeerKind \cup {"memory-pointer"},
             binding  : Binding \cup {NoBinding},
             instance : Nat]

\* The columns of the inbox table and of the activation record, in their ranges;
\* no row and no watermark lies beyond the allocated head.
InboxTypeOK ==
    /\ head \in 0..MaxSeq
    /\ inbox = [s \in DOMAIN inbox |-> inbox[s]]
    /\ DOMAIN inbox \subseteq 1..head
    /\ \A s \in DOMAIN inbox : inbox[s] \in InboxRow
    /\ ack \in 0..head
    /\ bound \in [Binding -> 0..MaxInstance]
    /\ instances \in 0..MaxInstance
----------------------------------------------------------------------------

Smaller(a, b) == IF a <= b THEN a ELSE b
Larger(a, b) == IF a >= b THEN a ELSE b

\* The rows that count against the peer allowance.
Peers == {s \in DOMAIN inbox : inbox[s].kind \in PeerKind}

\* The retained pointer rows of binding b.
Pointers(b) ==
    {s \in DOMAIN inbox : inbox[s].kind = "memory-pointer" /\ inbox[s].binding = b}

Bound == {b \in Binding : bound[b] # 0}

\* INSERT under AUTOINCREMENT, after DELETE of the rows in gone.
InsertRow(gone, row) ==
    /\ head < MaxSeq
    /\ head' = head + 1
    /\ inbox' = [s \in (DOMAIN inbox \ gone) \cup {head + 1} |->
                    IF s = head + 1 THEN row ELSE inbox[s]]

InboxInit ==
    /\ head = 0
    /\ inbox = [s \in {} |-> 0]
    /\ ack = 0
    /\ bound = [b \in Binding |-> 0]
    /\ instances = 0

\* A peer's frame is stored, unless the peer allowance is used up.
Store(kind) ==
    /\ Cardinality(Peers) < MaxPeer
    /\ InsertRow({}, [kind |-> kind, binding |-> NoBinding, instance |-> 0])
    /\ UNCHANGED <<ack, bound, instances>>

\* Mutant.
AckWatermarkStale(through) == ack

\* A request past the allocated head is cut to it.
AckTarget(request) == Smaller(request, head)

\* The rows an acknowledgement through a sequence deletes.
AckedRows(through) == {s \in DOMAIN inbox : s <= through}

\* An older request never moves the watermark back.
AckWatermark(through) == Larger(through, ack)

\* The participant acknowledges.
Acknowledge(request) ==
    LET through == AckTarget(request) IN
    /\ inbox' = Restrict(inbox, DOMAIN inbox \ AckedRows(through))
    /\ ack' = AckWatermark(through)
    /\ UNCHANGED <<head, bound, instances>>

\* bind() of an existing binding changes nothing; a new one gets an instance
\* never used before.
Bind(b) ==
    /\ bound[b] = 0
    /\ Cardinality(Bound) < MaxBindings
    /\ instances < MaxInstance
    /\ instances' = instances + 1
    /\ bound' = [bound EXCEPT ![b] = instances + 1]
    /\ UNCHANGED <<head, inbox, ack>>

\* The rows an unbind deletes: the binding's pointers, and no watermark moves.
UnboundRows(b) == Pointers(b)

Unbind(b) ==
    /\ bound[b] # 0
    /\ inbox' = Restrict(inbox, DOMAIN inbox \ UnboundRows(b))
    /\ bound' = [bound EXCEPT ![b] = 0]
    /\ UNCHANGED <<head, ack, instances>>

\* A refresh whose observation changed: the old pointer goes and its
\* replacement gets a new sequence, in one transaction.
Refresh(b) ==
    /\ bound[b] # 0
    /\ InsertRow(Pointers(b), [kind |-> "memory-pointer", binding |-> b,
                               instance |-> bound[b]])
    /\ UNCHANGED <<ack, bound, instances>>

InboxNext ==
    \/ \E kind \in PeerKind : Store(kind)
    \/ \E request \in 0..head + 1 : Acknowledge(request)
    \/ \E b \in Binding : Bind(b)
    \/ \E b \in Binding : Unbind(b)
    \/ \E b \in Binding : Refresh(b)

InboxSpec == InboxInit /\ [][InboxNext]_inboxVars
----------------------------------------------------------------------------

\* What the notifier's read-only snapshot insists on (notification_source.py,
\* source_pointer_invalid): at most one pointer per binding, and it belongs to
\* the binding's current instance.  Rebinding, unbinding and refreshing race to
\* break it.
PointersAreCurrent ==
    \A s \in DOMAIN inbox : inbox[s].kind = "memory-pointer" =>
        /\ inbox[s].binding \in Bound
        /\ inbox[s].instance = bound[inbox[s].binding]
        /\ Pointers(inbox[s].binding) = {s}

\* Nothing at or below the watermark is retained: what a reader finds was not
\* acknowledged, and an acknowledged sequence never comes back (allocated_head()
\* bounds the watermark, so a later row is always above it).
RetainedAboveAck == \A s \in DOMAIN inbox : s > ack

\* The watermark alone tells a reader in another process which rows are gone: a peer row
\* disappears only together with a watermark at or above it, even when an older
\* acknowledgement is repeated late, and no row is ever stored or kept under the
\* watermark, even when more was acknowledged than was allocated (acknowledge(),
\* allocated_head()).
AckExplainsPeers ==
    [][ /\ \A s \in Peers : s \notin DOMAIN inbox' => s <= ack'
        /\ RetainedAboveAck' ]_inboxVars
=============================================================================
