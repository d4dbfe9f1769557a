----------------------------- MODULE MemorySync -----------------------------
(***************************************************************************)
(* How consumers of the memory service read its notes (class MemoryCommands  *)
(* and freeze() of memory.py): a first snapshot, page by page, then deltas   *)
(* above the cursor, and a new snapshot whenever the floor has passed it.    *)
(*                                                                           *)
(* The service runs one request at a time, but a request is several          *)
(* transactions; job is the request that runs and the store stays as it is   *)
(* when the request is refused or cut off between two of them.  Every        *)
(* argument a caller may send is tried: old tokens, repeated and late        *)
(* acknowledgements, snapshots of other consumers.                           *)
(***************************************************************************)
EXTENDS MemoryNotes

CONSTANTS
    Consumer,
    PageLimit,     \* entries that fit into a page (FRAME_BUDGET, LIMIT 500)
    Tail,          \* SNAPSHOT_TAIL of the type "finding"
    MaxHeld,       \* MAX_SNAPSHOTS_PER_CONSUMER
    MaxConsumers,  \* MAX_CONSUMERS
    MaxRetired,    \* MAX_RETIRED
    SnapshotTTL, AckRetention, ConsumerTTL, RetiredTTL,
    MaxSnapshot    \* bound of the model: snapshots ever frozen

ASSUME SyncAssumption ==
    /\ PageLimit \in Nat \ {0}
    /\ {Tail, MaxHeld, MaxConsumers, MaxRetired, MaxSnapshot} \subseteq Nat
    /\ {SnapshotTTL, AckRetention, ConsumerTTL, RetiredTTL} \subseteq Nat

VARIABLES
    cursors,     \* registered consumers
    retired,     \* tombstones: when a consumer was retired
    snapshots,   \* frozen snapshots, by id
    frozen,      \* snapshots ever frozen
    job          \* the request that runs, or NoJob

\* History: what a consumer holds that applies each reply it acknowledges.
VARIABLES
    view,        \* its notes, as of its cursor
    received     \* the notes of deltas since its last snapshot

syncVars == <<cursors, retired, snapshots, frozen, job, view, received>>
vars == <<noteVars, syncVars>>

SnapshotId == 1..MaxSnapshot
NoJob == [op |-> "none"]
\* n is a page token, or the sequence a numeric acknowledgement names.
Request ==
    [op : {"sync"}, consumer : Consumer, id : 0..MaxSnapshot, n : 0..MaxSeq]
      \cup [op : {"ack"}, consumer : Consumer, id : {0}, n : 0..MaxSeq]
      \cup [op : {"ack"}, consumer : Consumer, id : SnapshotId, n : {0}]

Cursor == [seq : 0..MaxSeq, issued : 0..MaxSeq, snapshot : 0..MaxSnapshot,
           bootstrapped : BOOLEAN, resnapshot : BOOLEAN, updated : 0..MaxNow]

\* at is created while the snapshot is open and acked_at afterwards; paged is
\* history, the notes its pages carried.
SnapshotRow(row) ==
    /\ row.consumer \in Consumer
    /\ row.head \in 0..head
    /\ DOMAIN row.items \subseteq 1..row.head
    /\ row.issued \in 0..Cardinality(DOMAIN row.items)
    /\ row.acked \in BOOLEAN
    /\ row.at \in 0..now
    /\ row.paged \subseteq DOMAIN row.items

\* The columns of the cursors, retired and snapshots tables.
SyncTypeOK ==
    /\ DOMAIN cursors \subseteq Consumer
    /\ \A c \in DOMAIN cursors : cursors[c] \in Cursor
    /\ DOMAIN retired \subseteq Consumer \ DOMAIN cursors
    /\ \A c \in DOMAIN retired : retired[c] \in 0..now
    /\ frozen \in 0..MaxSnapshot
    /\ DOMAIN snapshots \subseteq 1..frozen
    /\ \A i \in DOMAIN snapshots : SnapshotRow(snapshots[i])
    /\ job \in Request \cup {NoJob}
    /\ view \in [Consumer -> SUBSET NoteSeq]
    /\ received \in [Consumer -> SUBSET NoteSeq]

SyncInit ==
    /\ NotesInit
    /\ cursors = [c \in {} |-> 0]
    /\ retired = [c \in {} |-> 0]
    /\ snapshots = [i \in {} |-> 0]
    /\ frozen = 0
    /\ job = NoJob
    /\ view = [c \in Consumer |-> {}]
    /\ received = [c \in Consumer |-> {}]
----------------------------------------------------------------------------
(* Snapshots.                                                               *)

\* live_clause(at = head): not replaced and not past its lifetime.
Live ==
    {s \in DOMAIN entries : /\ entries[s].replaced_by = 0
                            /\ entries[s].expires = 0 \/ entries[s].expires > now}

\* Mutant.
MembersAllCapped ==
    {s \in Live : Cardinality({t \in Live : t > s}) < Tail}

\* freeze() keeps the newest Tail findings and everything else.
Members ==
    {s \in Live : entries[s].kind = "finding" =>
        Cardinality({t \in Live : entries[t].kind = "finding" /\ t > s}) < Tail}

\* Decisions before findings, and the newest first.
Precedes(items, t, s) ==
    IF items[t] = items[s] THEN t > s ELSE items[t] = "decision"

Position(items, s) == Cardinality({t \in DOMAIN items : Precedes(items, t, s)})

PageFrom(items, token) ==
    {s \in DOMAIN items : Position(items, s) \in token..(token + PageLimit - 1)}

\* Past its window: an open one can no longer be paged, an acknowledged one need
\* no longer be replayed.
Outdated(row) == now - row.at > (IF row.acked THEN AckRetention ELSE SnapshotTTL)

OwnedBy(c) == {i \in DOMAIN snapshots : snapshots[i].consumer = c}

\* sync(): the open snapshot is gone, foreign or too old.
Unusable(c) ==
    LET i == cursors[c].snapshot IN i \in OwnedBy(c) => Outdated(snapshots[i])

\* Mutant.
MustSnapshotIgnoresFloor(c) == cursors[c].resnapshot \/ ~cursors[c].bootstrapped

MustSnapshot(c) ==
    \/ cursors[c].resnapshot
    \/ ~cursors[c].bootstrapped
    \/ cursors[c].seq < floor
----------------------------------------------------------------------------
(* Requests.                                                                *)

Idle == job = NoJob

SetCursor(c, row) == cursors' = [cursors EXCEPT ![c] = row]

\* register(), then touch().
NewCursor ==
    [seq |-> 0, issued |-> 0, snapshot |-> 0, bootstrapped |-> FALSE, resnapshot |-> FALSE,
     updated |-> now]

CanRegister(c) ==
    /\ c \notin DOMAIN retired
    /\ Cardinality(DOMAIN cursors) < MaxConsumers
    /\ Cardinality(DOMAIN cursors) + Cardinality(DOMAIN retired) < MaxConsumers + MaxRetired

Enter(r) ==
    LET c == r.consumer IN
    /\ Idle /\ Writable
    /\ r.id <= frozen
    /\ job' = r
    /\ IF c \in DOMAIN cursors
       THEN /\ SetCursor(c, [cursors[c] EXCEPT !.updated = now])
            /\ UNCHANGED <<view, received>>
       ELSE /\ CanRegister(c)
            /\ cursors' = [d \in DOMAIN cursors \cup {c} |->
                             IF d = c THEN NewCursor ELSE cursors[d]]
            /\ view' = [view EXCEPT ![c] = {}]
            /\ received' = [received EXCEPT ![c] = {}]
    /\ UNCHANGED <<noteVars, retired, snapshots, frozen>>

\* The request ends here: refused by a check, answered without a change, rolled
\* back, or the store blocked.
Abort ==
    /\ ~Idle
    /\ job' = NoJob
    /\ blocked' \in {blocked, TRUE}
    /\ UNCHANGED <<now, head, floor, entries, idem, fts, through, index, phase, stored,
                   cursors, retired, snapshots, frozen, view, received>>

Serving(op) == job.op = op /\ Writable

\* sync() gives an unusable snapshot up, and remembers that one is owed.
ClearSnapshot ==
    /\ Serving("sync")
    /\ LET c == job.consumer IN
       /\ cursors[c].snapshot # 0 /\ Unusable(c)
       /\ SetCursor(c, [cursors[c] EXCEPT !.snapshot = 0, !.resnapshot = TRUE])
    /\ UNCHANGED <<noteVars, retired, snapshots, frozen, job, view, received>>

\* Outdated snapshots beyond the newest MaxHeld go when a new one is frozen.
Pruned(c) ==
    LET old == {i \in OwnedBy(c) : Outdated(snapshots[i])} IN
    {i \in old : Cardinality({j \in old : j > i}) >= MaxHeld}

NewSnapshot(c) ==
    [consumer |-> c, head |-> head, items |-> [s \in Members |-> entries[s].kind],
     issued |-> 0, acked |-> FALSE, at |-> now, paged |-> {}]

Freeze ==
    /\ Serving("sync")
    /\ frozen < MaxSnapshot
    /\ LET c == job.consumer
           kept == DOMAIN snapshots \ Pruned(c)
       IN
       /\ cursors[c].snapshot = 0 /\ MustSnapshot(c)
       /\ Cardinality({i \in OwnedBy(c) : ~Outdated(snapshots[i])}) < MaxHeld
       /\ snapshots' = [i \in kept \cup {frozen + 1} |->
                          IF i = frozen + 1 THEN NewSnapshot(c) ELSE snapshots[i]]
       /\ SetCursor(c, [cursors[c] EXCEPT !.snapshot = frozen + 1, !.updated = now])
    /\ frozen' = frozen + 1
    /\ UNCHANGED <<noteVars, retired, job, view, received>>

\* Pages are issued in order, and a continuation names its snapshot.
TokenAllowed(row, id, token) ==
    /\ token # 0 => job.id # 0
    /\ job.id \in {0, id}
    /\ token <= row.issued

\* snapshot_page()
SendPage ==
    /\ Serving("sync")
    /\ LET c == job.consumer
           id == cursors[c].snapshot
       IN
       /\ id # 0 /\ ~Unusable(c)
       /\ LET row == snapshots[id]
              page == PageFrom(row.items, job.n)
          IN
          /\ TokenAllowed(row, id, job.n)
          /\ snapshots' = [snapshots EXCEPT
                ![id].issued = Max({@, job.n + Cardinality(page)}),
                ![id].paged = @ \cup page]
    /\ job' = NoJob
    /\ UNCHANGED <<noteVars, cursors, retired, frozen, view, received>>

\* The first rows above the cursor.
DeltaPage(seq) ==
    LET rows == {s \in DOMAIN entries : s > seq} IN
    {s \in rows : Cardinality({t \in rows : t < s}) < PageLimit}

SendDelta ==
    /\ Serving("sync")
    /\ LET c == job.consumer
           page == DeltaPage(cursors[c].seq)
       IN
       /\ cursors[c].snapshot = 0 /\ ~MustSnapshot(c)
       /\ SetCursor(c, [cursors[c] EXCEPT !.issued = Max({@} \cup page)])
       /\ received' = [received EXCEPT ![c] = @ \cup page]
    /\ job' = NoJob
    /\ UNCHANGED <<noteVars, retired, snapshots, frozen, view>>
----------------------------------------------------------------------------
(* Acknowledgements.                                                        *)

\* Mutant.
CompleteUnchecked(row) == TRUE

\* Every page was issued.
Complete(row) == row.issued >= Cardinality(DOMAIN row.items)

\* The open snapshot is acknowledged: the cursor moves to the head it was frozen
\* at.  A repeated acknowledgement is answered again and changes nothing.
AckSnapshot ==
    /\ Serving("ack") /\ job.id # 0
    /\ LET c == job.consumer
           row == snapshots[job.id]
       IN
       /\ job.id \in OwnedBy(c)
       /\ ~row.acked
       /\ job.id = cursors[c].snapshot
       /\ ~Outdated(row)
       /\ Complete(row)
       /\ snapshots' = [snapshots EXCEPT ![job.id].acked = TRUE, ![job.id].at = now]
       /\ SetCursor(c, [cursors[c] EXCEPT
             !.seq = row.head, !.issued = Max({row.head, @}),
             !.snapshot = 0, !.bootstrapped = TRUE, !.resnapshot = FALSE])
       /\ view' = [view EXCEPT ![c] = row.paged]
       /\ received' = [received EXCEPT ![c] = {}]
    /\ job' = NoJob
    /\ UNCHANGED <<noteVars, retired, frozen>>

\* Mutant.
AckableBackwards(row, n) ==
    row.snapshot = 0 /\ ~row.resnapshot /\ row.bootstrapped /\ n <= row.issued

\* A number can neither bootstrap a consumer nor slip past an open snapshot, nor
\* move the cursor back or beyond what was issued.
Ackable(row, n) ==
    /\ row.snapshot = 0 /\ ~row.resnapshot
    /\ row.bootstrapped
    /\ row.seq <= n /\ n <= row.issued

AckThrough ==
    /\ Serving("ack") /\ job.id = 0
    /\ LET c == job.consumer IN
       /\ Ackable(cursors[c], job.n)
       /\ SetCursor(c, [cursors[c] EXCEPT !.seq = job.n])
       /\ view' = [view EXCEPT ![c] = @ \cup {s \in received[c] : s <= job.n}]
    /\ job' = NoJob
    /\ UNCHANGED <<noteVars, retired, snapshots, frozen, received>>
----------------------------------------------------------------------------
(* The rest of the service.                                                 *)

IdleConsumers == {c \in DOMAIN cursors : cursors[c].updated < now - ConsumerTTL}

\* expire(): notes and retries, snapshots past their window, old tombstones, and
\* a tombstone for every consumer that has been idle for too long.
Expire ==
    LET graves == {c \in DOMAIN retired : ~(retired[c] < now - RetiredTTL)}
        kept == {i \in DOMAIN snapshots : ~Outdated(snapshots[i])}
    IN
    /\ Idle
    /\ ExpireNotes
    /\ snapshots' = [i \in kept |-> snapshots[i]]
    /\ retired' = [c \in graves \cup IdleConsumers |->
                     IF c \in IdleConsumers THEN now ELSE retired[c]]
    /\ cursors' = [c \in DOMAIN cursors \ IdleConsumers |-> cursors[c]]
    /\ UNCHANGED <<frozen, job, view, received>>

\* The service dies at any place of a request, or stops, and starts again.
RestartService ==
    /\ Restart
    /\ job' = NoJob
    /\ UNCHANGED <<cursors, retired, snapshots, frozen, view, received>>

\* Steps that leave the consumers alone; time passes during a request too.
NotesOnly ==
    /\ \/ Idle /\ (AnyNote \/ DieExpiring \/ Block \/ Recover)
       \/ Tick
    /\ UNCHANGED syncVars

SyncNext ==
    \/ \E r \in Request : Enter(r)
    \/ ClearSnapshot \/ Freeze \/ SendPage \/ SendDelta
    \/ AckSnapshot \/ AckThrough \/ Abort
    \/ Expire \/ RestartService \/ NotesOnly

SyncSpec == SyncInit /\ [][SyncNext]_vars
----------------------------------------------------------------------------
(* Properties.                                                              *)

\* A consumer that would be given deltas now: its view claims to be right up to
\* its cursor.
Current(c) ==
    /\ c \in DOMAIN cursors
    /\ cursors[c].snapshot = 0
    /\ ~MustSnapshot(c)

\* Such a consumer has been given every decision that was written up to its cursor
\* and is still in force there: no page was skipped, no delta jumped over a row,
\* no early, late or repeated acknowledgement moved the cursor past something
\* unread (sync(), snapshot_page(), ack()).
ViewIsComplete ==
    \A c \in Consumer : Current(c) =>
        \A s \in DOMAIN entries :
            /\ s <= cursors[c].seq
            /\ entries[s].kind = "decision"
            /\ entries[s].replaced_by = 0 \/ entries[s].replaced_by > cursors[c].seq
            /\ entries[s].expires = 0 \/ entries[s].expires > now
            => s \in view[c]

\* And it does not keep a note in force that was replaced before its cursor: it was
\* given the replacement too, or a snapshot without the replaced note, even when
\* the replacement has expired since (note(), _forget(), sync()).
ViewHasNoZombie ==
    \A c \in Consumer : Current(c) =>
        \A s \in view[c] \cap DOMAIN entries :
            entries[s].replaced_by \in 1..cursors[c].seq => entries[s].replaced_by \in view[c]

\* A registered consumer's cursor never moves back, whichever acknowledgement
\* arrives late or twice, and never passes what it was issued (ack()).
CursorsAdvance ==
    [][\A c \in DOMAIN cursors \cap DOMAIN cursors' :
          cursors[c].seq <= cursors'[c].seq /\ cursors'[c].seq <= cursors'[c].issued]_vars
=============================================================================
