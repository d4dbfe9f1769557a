---------------------------- MODULE InboxSource ----------------------------
(***************************************************************************)
(* The notifier's read-only view of the inbox (notification_source.py).     *)
(* Every read is one SQLite snapshot; the notifier then acts on it while     *)
(* the bridge goes on.  A snapshot is therefore a value, and the operators   *)
(* below say what scan(), seed_pointers() and retained() extract from one.   *)
(*                                                                           *)
(* What a bridge offers is fixed when the source is opened: AckCapable is    *)
(* inbox_ack_watermark, PointerCapable is memory_binding.                    *)
(***************************************************************************)
EXTENDS Inbox

CONSTANTS
    AckCapable,      \* the bridge records an acknowledgement watermark
    PointerCapable,  \* the bridge has memory bindings and pointer rows
    ScanLimit        \* rows per scan (128 in the code)

ASSUME SourceAssumption ==
    /\ AckCapable \in BOOLEAN
    /\ PointerCapable \in BOOLEAN
    /\ PointerCapable => AckCapable
    /\ ScanLimit \in Nat \ {0}

Snapshot == [ack |-> ack, rows |-> inbox, bound |-> bound]

\* The snapshot register outside the jobs that use one.
NoSnapshot == [ack |-> 0, rows |-> [s \in {} |-> 0], bound |-> [b \in Binding |-> 0]]

\* source_pointer_invalid: the snapshot refuses a pointer that is not the one
\* pointer of its binding's current instance.
SnapshotInvalid(snap) ==
    /\ PointerCapable
    /\ \E s \in DOMAIN snap.rows :
        /\ snap.rows[s].kind = "memory-pointer"
        /\ \/ snap.bound[snap.rows[s].binding] # snap.rows[s].instance
           \/ \E t \in DOMAIN snap.rows \ {s} :
                /\ snap.rows[t].kind = "memory-pointer"
                /\ snap.rows[t].binding = snap.rows[s].binding

\* The identity the notifier sees of a row; without pointer support the
\* projection reports every row as an ordinary peer row.
Projection(row) ==
    IF PointerCapable /\ row.kind = "memory-pointer"
    THEN [kind |-> "memory-pointer", binding |-> row.binding, instance |-> row.instance]
    ELSE [kind |-> "peer", binding |-> NoBinding, instance |-> 0]

Project(snap, seqs) == [s \in seqs |-> Projection(snap.rows[s])]

\* The first ScanLimit retained rows after a sequence.
ScanRows(snap, after) ==
    {s \in DOMAIN snap.rows :
        /\ s > after
        /\ Cardinality({t \in DOMAIN snap.rows : after < t /\ t <= s}) <= ScanLimit}

\* Mutant.
ScannedThroughEnd(snap, after) == Max(DOMAIN snap.rows \cup {after})

\* The last row a scan returned: how far it enumerated.
ScannedThrough(snap, after) == Max(ScanRows(snap, after) \cup {after})

\* Peer-projected rows whose frame is not a user message are never work.
IgnoredRows(snap, after) ==
    {s \in ScanRows(snap, after) :
        /\ Projection(snap.rows[s]).kind = "peer"
        /\ snap.rows[s].kind # "user"}

ScanRecords(snap, after) ==
    Project(snap, ScanRows(snap, after) \ IgnoredRows(snap, after))

\* Every retained pointer, whatever was imported or enumerated.
SeedRecords(snap) ==
    Project(snap, {s \in DOMAIN snap.rows :
                      PointerCapable /\ snap.rows[s].kind = "memory-pointer"})

\* pointers.get(binding): a newer pointer of the same binding instance.
Superseded(snap, s, binding, instance) ==
    \E t \in DOMAIN snap.rows :
        /\ t > s
        /\ snap.rows[t].kind = "memory-pointer"
        /\ snap.rows[t].binding = binding
        /\ snap.rows[t].instance = instance
=============================================================================
