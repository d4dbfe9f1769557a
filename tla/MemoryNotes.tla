---------------------------- MODULE MemoryNotes ----------------------------
(***************************************************************************)
(* The memory service's store of notes (class Store of memory.py): appending *)
(* with deduplication of retries, replacement of one note by another, expiry *)
(* with its recovery floor, the search index and the storage block.          *)
(*                                                                           *)
(* Time is a counter; every lifetime is compared with it as the code does.   *)
(* A request that is refused, or answered as a duplicate, changes nothing:   *)
(* such requests are stutters.  supersedes and revokes differ only in the    *)
(* column that holds the link, so a note here "replaces" another.            *)
(***************************************************************************)
EXTENDS Integers, FiniteSets, FiniteSetsExt

CONSTANTS
    Kinds,        \* entry types in use
    Key,          \* idempotency keys, each of one consumer
    NoKey,        \* a write without a key
    Lifetime,     \* the expiry times a writer may state, 0 for none
    MaxEntries,   \* MAX_ENTRIES
    Reserved,     \* RESERVED_ENTRIES
    MaxIdem,      \* MAX_IDEM_ROWS
    IdemTTL,      \* IDEM_TTL
    Batch,        \* EXPIRY_BATCH
    MaxSeq,       \* bound of the model: notes ever written
    MaxNow        \* bound of the model: the clock

\* decision stands for the types a snapshot carries in full, finding for those
\* it carries the tail of (SNAPSHOT_TAIL).
ASSUME NotesAssumption ==
    /\ Kinds \subseteq {"decision", "finding"}
    /\ NoKey \notin Key
    /\ Lifetime \subseteq Nat
    /\ MaxEntries \in Nat /\ Reserved \in 0..MaxEntries
    /\ MaxIdem \in Nat /\ IdemTTL \in Nat
    /\ Batch \in Nat \ {0}
    /\ MaxSeq \in Nat /\ MaxNow \in Nat

VARIABLES
    now,          \* time.time()
    head,         \* meta: head
    floor,        \* meta: floor
    entries,      \* the notes, by sequence
    idem,         \* retained retries, by key
    fts,          \* this runtime has a search table
    through,      \* meta: indexed_through
    index,        \* the rows the search table holds
    blocked,      \* storage blocked until recovery
    phase         \* down, started (expired_at = 0) or swept (expire() has run)

\* History: how many notes a request (a key with its deadline) has stored.
VARIABLE stored

noteVars == <<now, head, floor, entries, idem, fts, through, index, blocked, phase, stored>>

NoteSeq == 1..MaxSeq
Deadline == 1..(MaxNow + IdemTTL)
Content == [kind : Kinds, target : 0..MaxSeq, expires : Lifetime]
Entry == [kind : Kinds, expires : Lifetime, replaced_by : 0..MaxSeq]

\* The columns of the entries, idem and meta tables and the runtime's flags.
NotesTypeOK ==
    /\ now \in 0..MaxNow
    /\ head \in 0..MaxSeq
    /\ floor \in 0..head
    /\ entries = [s \in DOMAIN entries |-> entries[s]]
    /\ DOMAIN entries \subseteq 1..head
    /\ \A s \in DOMAIN entries : entries[s] \in Entry
    /\ idem = [k \in DOMAIN idem |-> idem[k]]
    /\ DOMAIN idem \subseteq Key
    /\ \A k \in DOMAIN idem : idem[k] \in [mark : Content, seq : NoteSeq, deadline : Deadline]
    /\ fts \in BOOLEAN
    /\ through \in -1..MaxSeq
    /\ index \subseteq NoteSeq
    /\ blocked \in BOOLEAN
    /\ phase \in {"down", "started", "swept"}
    /\ stored \in [Key \X Deadline -> Nat]

NotesInit ==
    /\ now = 0 /\ head = 0 /\ floor = 0
    /\ entries = [s \in {} |-> 0]
    /\ idem = [k \in {} |-> 0]
    /\ fts \in BOOLEAN
    /\ through = IF fts THEN 0 ELSE -1
    /\ index = {}
    /\ blocked = FALSE
    /\ phase = "started"
    /\ stored = [r \in Key \X Deadline |-> 0]
----------------------------------------------------------------------------
(* note()                                                                   *)

\* Mutant.
TimelyUnchecked(deadline) == deadline <= now + IdemTTL

\* The clock decides whether a retry may still be deduplicated, not whether its
\* record is still there.
Timely(deadline) == now < deadline /\ deadline <= now + IdemTTL

\* A key that is retained is answered as a duplicate or refused as a conflict.
Fresh(key, deadline) ==
    key = NoKey \/ /\ Timely(deadline)
                   /\ key \notin DOMAIN idem
                   /\ Cardinality(DOMAIN idem) < MaxIdem

\* A replacement may use the reserved slots, an ordinary note may not.
Room(target) ==
    Cardinality(DOMAIN entries) < (IF target # 0 THEN MaxEntries ELSE MaxEntries - Reserved)

\* The first replacement owns the link on the replaced row.
Linked(target, seq) ==
    [s \in DOMAIN entries |->
        IF s = target /\ entries[s].replaced_by = 0
        THEN [entries[s] EXCEPT !.replaced_by = seq]
        ELSE entries[s]]

WithEntry(content, seq) ==
    [s \in DOMAIN entries \cup {seq} |->
        IF s = seq
        THEN [kind |-> content.kind, expires |-> content.expires, replaced_by |-> 0]
        ELSE Linked(content.target, seq)[s]]

\* Mutant.
IndexNoteAlways(seq) ==
    IF fts THEN index' = index \cup {seq} /\ through' = seq
    ELSE UNCHANGED <<index, through>>

\* An index that was given up is not appended to.
IndexNote(seq) ==
    IF fts /\ through >= 0
    THEN index' = index \cup {seq} /\ through' = seq
    ELSE UNCHANGED <<index, through>>

\* A write gets as far as its transaction: the first request of a runtime begins
\* with an expire(), later ones every EXPIRY_INTERVAL.
Writable == phase = "swept" /\ ~blocked

Note(content, key, deadline) ==
    /\ Writable
    /\ head < MaxSeq
    /\ Fresh(key, deadline)
    /\ content.target # 0 => content.target \in DOMAIN entries
    /\ Room(content.target)
    /\ head' = head + 1
    /\ entries' = WithEntry(content, head + 1)
    /\ IndexNote(head + 1)
    /\ IF key = NoKey THEN UNCHANGED <<idem, stored>>
       ELSE /\ idem' = [k \in DOMAIN idem \cup {key} |->
                          IF k = key
                          THEN [mark |-> content, seq |-> head + 1, deadline |-> deadline]
                          ELSE idem[k]]
            /\ stored' = [stored EXCEPT ![<<key, deadline>>] = @ + 1]
    /\ UNCHANGED <<now, floor, fts, blocked, phase>>
----------------------------------------------------------------------------
(* expire()                                                                 *)

Lapsed == {s \in DOMAIN entries : entries[s].expires # 0 /\ entries[s].expires < now}

\* Mutant.
FloorBelowSurvivors(gone) ==
    IF DOMAIN entries \ gone = {} THEN floor
    ELSE Max({floor, Min(DOMAIN entries \ gone) - 1})

\* The boundary comes from what was removed.
FloorAfter(gone) == IF gone = {} THEN floor ELSE Max({floor} \cup gone)

IndexUsable == fts /\ through = head

\* Postings are removed with the rows; where that does not fit, or the runtime
\* has no search table, the index is given up.
Unindex(gone, maintained) ==
    IF gone # {} /\ (~fts \/ ~maintained)
    THEN through' = -1 /\ UNCHANGED index
    ELSE /\ index' = IF IndexUsable THEN index \ gone ELSE index
         /\ UNCHANGED through

\* _forget() and _unindex() for the given rows.
Forget(gone, maintained) ==
    /\ entries' = [s \in DOMAIN entries \ gone |-> entries[s]]
    /\ floor' = FloorAfter(gone)
    /\ Unindex(gone, maintained)

LiveRetries == {k \in DOMAIN idem : ~(idem[k].deadline < now)}

\* A whole expire(): every batch, then the cleanup of the retries.
ExpireNotes ==
    /\ phase # "down" /\ ~blocked
    /\ phase' = "swept"
    /\ \E maintained \in BOOLEAN : Forget(Lapsed, maintained)
    /\ idem' = [k \in LiveRetries |-> idem[k]]
    /\ UNCHANGED <<now, head, fts, blocked, stored>>

\* The rows of the first n batches, lowest sequences first.
FirstBatches(n) ==
    {s \in Lapsed : Cardinality({t \in Lapsed : t < s}) < n * Batch}
----------------------------------------------------------------------------
(* Opening the store, and the storage block.                                *)

\* _reconcile_index(): without a search table the index is given up; an index
\* that does not reach the head is rebuilt, or stays given up when it does not fit.
Reopen(present) ==
    /\ fts' = present
    /\ \/ ~present /\ through' = -1 /\ UNCHANGED index
       \/ present /\ through = head /\ UNCHANGED <<through, index>>
       \/ present /\ through # head /\ through' = -1 /\ UNCHANGED index
       \/ present /\ through # head /\ through' = head /\ index' = DOMAIN entries

\* The service stops or dies and is started again by a runtime that may or may
\* not have a search table.
Restart ==
    /\ phase' = "started"
    /\ \E present \in BOOLEAN : Reopen(present)
    /\ blocked' = FALSE
    /\ UNCHANGED <<now, head, floor, entries, idem, stored>>

\* The first transaction of expire()'s fallback: the index is given up before the rows
\* are removed.  After a batch that was removed it is Forget(gone, FALSE).
GiveUpIndex == Lapsed # {} /\ through' = -1 /\ UNCHANGED <<entries, floor, index>>

\* It dies in the middle of expire(), after some of the batches and before the cleanup,
\* or between the two transactions of the fallback.
DieExpiring ==
    /\ phase # "down" /\ ~blocked
    /\ phase' = "down"
    /\ \/ GiveUpIndex
       \/ \E n \in 1..Cardinality(Lapsed), maintained \in BOOLEAN :
             Forget(FirstBatches(n), maintained)
    /\ UNCHANGED <<now, head, idem, fts, blocked, stored>>

\* The write-ahead log cannot be proved reset, or the engine refuses a page of
\* the reserve: writes wait for an explicit recovery.
Block ==
    /\ phase # "down" /\ ~blocked
    /\ blocked' = TRUE
    /\ UNCHANGED <<now, head, floor, entries, idem, fts, through, index, phase, stored>>

Recover ==
    /\ phase # "down" /\ blocked
    /\ blocked' = FALSE
    /\ UNCHANGED <<now, head, floor, entries, idem, fts, through, index, phase, stored>>

Tick ==
    /\ now < MaxNow
    /\ now' = now + 1
    /\ UNCHANGED <<head, floor, entries, idem, fts, through, index, blocked, phase, stored>>

AnyNote ==
    \E content \in Content :
        \/ Note(content, NoKey, 0)
        \/ \E key \in Key, deadline \in Deadline : Note(content, key, deadline)

NotesNext ==
    \/ AnyNote \/ ExpireNotes \/ DieExpiring \/ Restart
    \/ Block \/ Recover \/ Tick

NotesSpec == NotesInit /\ [][NotesNext]_noteVars
----------------------------------------------------------------------------
(* Properties.                                                              *)

\* However often a caller repeats a request with its key and deadline, across lost
\* replies, restarts and cleanup, at most one note is stored for it (note(): the
\* deadline check; expire(): retention follows the deadline).
OneNotePerRequest == \A r \in Key \X Deadline : stored[r] <= 1

\* Everything above the floor is still there: a reader at or above it that has not
\* reached the head always finds a next row, and one below it is told so.  A floor
\* taken from the surviving rows would not describe an interior or tail gap
\* (_forget()).
NothingMissingAboveFloor == (floor + 1)..head \subseteq DOMAIN entries

\* Whenever recall() trusts the index it holds exactly the stored notes: search
\* never silently loses a result, whichever runtimes with and without a search
\* table wrote and expired notes before (_reconcile_index(), _unindex()).
IndexIsExact == IndexUsable => index = DOMAIN entries
=============================================================================
