------------------------ MODULE NotificationJournal ------------------------
(***************************************************************************)
(* The notifier's durable accounting (notification_journal.py): one row of  *)
(* work per inbox row that has to be notified, at most one attempt in        *)
(* flight, and three progress boundaries.  Each transaction of the journal   *)
(* is an action; the notifier (module Notifier) calls them.  A transaction   *)
(* that raises rolls back, so its error is a predicate on the state before.  *)
(*                                                                           *)
(* retry_at is the time still to wait, in units of 30 s: the code compares    *)
(* it with the clock and with nothing else.  0 is "due".                      *)
(***************************************************************************)
EXTENDS InboxSource

CONSTANTS
    MaxWork,      \* work rows (2048 in the code)
    MaxMembers,   \* peer rows of one attempt (10 in the code)
    MaxAttempts,  \* automatic attempts per unit (3 in the code)
    CounterMax    \* saturation of the aggregate counters (2^63-1 in the code)

ASSUME JournalAssumption ==
    /\ MaxWork \in Nat
    /\ MaxMembers \in Nat \ {0}
    /\ MaxAttempts \in Nat \ {0}
    /\ CounterMax \in Nat

VARIABLES
    imported,    \* imported_through: the legacy checkpoint the journal started from
    scan,        \* scan_through: no waiting work that was enumerated lies behind it
    enumerated,  \* enumerated_through: how far the inbox was read
    seeded,      \* pointers_seeded
    work,        \* the work table: a function from sequences to rows
    attempt,     \* the members of the attempt in flight, {} when there is none
    counters     \* aggregate health counters

journalVars == <<imported, scan, enumerated, seeded, work, attempt, counters>>

Counter == {"delivered", "acknowledged", "obsolete", "failed", "unknown",
            "attempts", "ignored"}
Waiting == {"pending", "reserved"}
Settled == {"delivered", "acknowledged", "obsolete"}
Exhausted == {"failed", "unknown"}
Outcome == {"delivered", "failed", "unknown"}

WorkRow == [kind        : {"peer", "memory-pointer"},
            binding     : Binding \cup {NoBinding},
            instance    : Nat,
            disposition : Waiting \cup Settled \cup Exhausted,
            attempts    : 0..MaxAttempts,
            retry_at    : 0..2,
            uncertain   : BOOLEAN]

\* The columns of the work, attempt, progress and counter tables.
JournalTypeOK ==
    /\ imported \in 0..MaxSeq
    /\ scan \in 0..MaxSeq
    /\ enumerated \in 0..MaxSeq
    /\ seeded \in BOOLEAN
    /\ work = [s \in DOMAIN work |-> work[s]]
    /\ DOMAIN work \subseteq Sequence
    /\ \A s \in DOMAIN work : work[s] \in WorkRow
    /\ attempt \subseteq Sequence
    /\ counters \in [Counter -> 0..CounterMax]
----------------------------------------------------------------------------
(* Helpers of the transactions.                                             *)

Identity(x) == <<x.kind, x.binding, x.instance>>

NewWork(item) ==
    [kind |-> item.kind, binding |-> item.binding, instance |-> item.instance,
     disposition |-> "pending", attempts |-> 0, retry_at |-> 0, uncertain |-> FALSE]

\* count(): saturating addition.
Count(c, key, amount) == [c EXCEPT ![key] = Smaller(CounterMax, @ + amount)]

\* Mutant.
ScanBoundaryPastWaiting(table, high) ==
    LET waiting == {s \in DOMAIN table : s > scan /\ table[s].disposition \in Waiting}
    IN  Larger(scan, IF waiting = {} THEN high ELSE Smaller(high, Min(waiting)))

\* min(high, min(waiting) - 1), and never back.
ScanBoundary(table, high) ==
    LET waiting == {s \in DOMAIN table : s > scan /\ table[s].disposition \in Waiting}
    IN  Larger(scan, IF waiting = {} THEN high ELSE Smaller(high, Min(waiting) - 1))

\* Mutants.
FoldedRowsAnywhere(table, through) ==
    {s \in DOMAIN table : table[s].disposition \in Settled}
FoldedRowsKeepObsolete(table, through) ==
    {s \in DOMAIN table : s <= through /\ table[s].disposition \in Settled \ {"obsolete"}}
FoldedCountersOnce(c, table, folded) ==
    [k \in Counter |->
        IF \E s \in folded : table[s].disposition = k THEN Smaller(CounterMax, c[k] + 1) ELSE c[k]]

\* Settled rows behind the scan boundary leave the table, and are counted.
FoldedRows(table, through) ==
    {s \in DOMAIN table : s <= through /\ table[s].disposition \in Settled}

FoldedCounters(c, table, folded) ==
    [k \in Counter |->
        Smaller(CounterMax, c[k] + Cardinality({s \in folded : table[s].disposition = k}))]

\* advance(): every transaction that can settle work ends with it.  table and c
\* are the work and the counters the transaction has written so far.  gone are
\* rows the transaction itself deletes afterwards (compatibility only).
Advance(table, high, c, gone) ==
    LET through == ScanBoundary(table, high)
        folded  == FoldedRows(table, through)
        dropped == {s \in gone : s <= through}
    IN  /\ enumerated' = high
        /\ scan' = through
        /\ work' = Restrict(table, DOMAIN table \ (folded \cup dropped))
        /\ counters' = FoldedCounters(c, table, folded)

\* Mutant.
AdmissibleUnread(records, historical) == {s \in DOMAIN records : s > scan}

\* The records of a batch that become new rows: a row at or behind the scan
\* boundary was accounted for, unless the batch is historical.
Admissible(records, historical) ==
    {s \in DOMAIN records : historical \/ s > scan}

Admitted(records, historical) == Admissible(records, historical) \ DOMAIN work

\* journal_source_changed: a known sequence came back as something else.
IdentityChanged(records, historical) ==
    \E s \in Admissible(records, historical) \cap DOMAIN work :
        Identity(work[s]) # Identity(records[s])

\* journal_capacity: the insert that would exceed the table rolls back the batch.
OverCapacity(records, historical) ==
    /\ Admitted(records, historical) # {}
    /\ Cardinality(DOMAIN work \cup Admitted(records, historical)) > MaxWork

WithAdmitted(records, historical) ==
    [s \in DOMAIN work \cup Admitted(records, historical) |->
        IF s \in DOMAIN work THEN work[s] ELSE NewWork(records[s])]
----------------------------------------------------------------------------
(* The transactions.                                                        *)

\* A journal is created empty from the imported checkpoint.
CreateJournal(through) ==
    /\ imported' = through
    /\ scan' = through
    /\ enumerated' = through
    /\ seeded' = FALSE
    /\ work' = [s \in {} |-> 0]
    /\ attempt' = {}
    /\ counters' = [k \in Counter |-> 0]

\* seed_pointers(): once, independent of both boundaries.
SeedPointers(records) ==
    /\ ~seeded
    /\ ~IdentityChanged(records, TRUE)
    /\ ~OverCapacity(records, TRUE)
    /\ seeded' = TRUE
    /\ work' = WithAdmitted(records, TRUE)
    /\ UNCHANGED <<imported, scan, enumerated, attempt, counters>>

\* ingest(): admit the records of a scan and move the boundaries.
Ingest(records, ignored, through) ==
    /\ ~IdentityChanged(records, FALSE)
    /\ ~OverCapacity(records, FALSE)
    /\ Advance(WithAdmitted(records, FALSE),
               Larger(enumerated, through),
               Count(counters, "ignored", Cardinality({s \in ignored : s > enumerated})),
               {})
    /\ UNCHANGED <<imported, seeded, attempt>>

\* due(): the rows the next attempt would take.  The lowest pending row decides;
\* while it waits nothing behind it is sent.
Ready ==
    {s \in DOMAIN work :
        /\ work[s].disposition = "pending"
        /\ PointerCapable \/ work[s].kind = "peer"}

\* A mutant.
DueSkipsWaiting == {s \in Ready : work[s].retry_at = 0}

Sendable(s) == work[s].kind = "peer" /\ work[s].retry_at = 0

Due ==
    {s \in Ready :
        \/ /\ work[s].kind = "memory-pointer"
           /\ work[s].retry_at = 0
           /\ \A t \in Ready : s <= t
        \/ /\ \A t \in Ready : t <= s => Sendable(t)
           /\ Cardinality({t \in Ready : t <= s}) <= MaxMembers}

\* What a reservation writes: it consumes an attempt before any provider call.
ReservedRow(row) ==
    [row EXCEPT !.disposition = "reserved", !.attempts = @ + 1, !.retry_at = 0]

Reserve(seqs) ==
    /\ seqs # {}
    /\ seeded
    /\ attempt = {}
    /\ attempt' = seqs
    /\ work' = [s \in DOMAIN work |-> IF s \in seqs THEN ReservedRow(work[s]) ELSE work[s]]
    /\ counters' = Count(counters, "attempts", Cardinality(seqs))
    /\ UNCHANGED <<imported, scan, enumerated, seeded>>

\* Mutant.
BecomesUncertainNow(row, outcome) == outcome = "unknown"

\* Once a call's result is not known, that stays on the row for good.
BecomesUncertain(row, outcome) == row.uncertain \/ outcome = "unknown"

\* 30 s after the first attempt, 60 s after the second.
RetryDelay(row) == IF row.attempts = 1 THEN 1 ELSE 2

ResolvedDisposition(row, outcome) ==
    CASE outcome = "delivered" -> "delivered"
      [] outcome # "delivered" /\ row.attempts < MaxAttempts -> "pending"
      [] OTHER -> IF BecomesUncertain(row, outcome) THEN "unknown" ELSE "failed"

\* Mutant: an outcome nobody knows gives its attempt back.
ResolvedRowRefunds(row, outcome) ==
    LET disposition == ResolvedDisposition(row, outcome)
    IN  [row EXCEPT !.disposition = disposition,
                    !.attempts = IF outcome = "unknown" /\ disposition = "pending"
                                 THEN @ - 1 ELSE @,
                    !.uncertain = BecomesUncertain(row, outcome),
                    !.retry_at = IF disposition = "pending" THEN RetryDelay(row) ELSE 0]

ResolvedRow(row, outcome) ==
    LET disposition == ResolvedDisposition(row, outcome)
    IN  [row EXCEPT !.disposition = disposition,
                    !.uncertain = BecomesUncertain(row, outcome),
                    !.retry_at = IF disposition = "pending" THEN RetryDelay(row) ELSE 0]

Resolve(outcome) ==
    LET table == [s \in DOMAIN work |->
                     IF s \in attempt THEN ResolvedRow(work[s], outcome) ELSE work[s]]
        ended(d) == Cardinality({s \in attempt \cap DOMAIN work : table[s].disposition = d})
    IN  /\ attempt # {}
        /\ attempt' = {}
        /\ Advance(table, enumerated,
                   Count(Count(counters, "failed", ended("failed")),
                         "unknown", ended("unknown")),
                   {})
        /\ UNCHANGED <<imported, seeded>>

\* Mutant.
RetriedRowNoReset(row) == [row EXCEPT !.disposition = "pending", !.retry_at = 0]

\* retry(): only exhausted rows; the budget is reset and the uncertainty kept.
RetriedRow(row) ==
    [row EXCEPT !.disposition = "pending", !.attempts = 0, !.retry_at = 0]

Retriable(seqs) ==
    seqs # {} /\ \A s \in seqs : s \in DOMAIN work /\ work[s].disposition \in Exhausted

Retry(seqs) ==
    /\ Retriable(seqs)
    /\ work' = [s \in DOMAIN work |-> IF s \in seqs THEN RetriedRow(work[s]) ELSE work[s]]
    /\ UNCHANGED <<imported, scan, enumerated, seeded, attempt, counters>>
----------------------------------------------------------------------------
(* reconcile(): account for what the bridge did to the rows of open work.   *)

Open == {s \in DOMAIN work : work[s].disposition \notin Settled}

IsAcknowledged(snap, s) == AckCapable /\ s <= snap.ack

\* Open rows that are neither acknowledged nor retained.
Vanished(snap) == {s \in Open : ~IsAcknowledged(snap, s) /\ s \notin DOMAIN snap.rows}

\* Mutants.
IsObsoleteByInstance(snap, s) == snap.bound[work[s].binding] # work[s].instance
UnattributedRowsNone(snap) == {}

\* A pointer that vanished is obsolete when its binding has another instance or
\* none, or when a newer pointer of the same instance replaced it.
IsObsolete(snap, s) ==
    \/ snap.bound[work[s].binding] # work[s].instance
    \/ Superseded(snap, s, work[s].binding, work[s].instance)

ObsoleteRows(snap) ==
    {s \in Vanished(snap) :
        /\ work[s].kind = "memory-pointer"
        /\ PointerCapable
        /\ IsObsolete(snap, s)}

\* An older bridge cannot attribute a vanished peer row to an acknowledgement.
UnattributedRows(snap) ==
    {s \in Vanished(snap) : work[s].kind = "peer" /\ ~AckCapable}

\* journal_source_missing: data that no acknowledgement and no unbind explains.
SourceMissing(snap) ==
    \E s \in Vanished(snap) :
        \/ /\ work[s].kind = "memory-pointer"
           /\ PointerCapable
           /\ ~IsObsolete(snap, s)
        \/ work[s].kind = "peer" /\ AckCapable

\* journal_source_changed, while reconciling.
SourceChanged(snap) ==
    \E s \in Open \cap DOMAIN snap.rows :
        /\ ~IsAcknowledged(snap, s)
        /\ Identity(work[s]) # Identity(Projection(snap.rows[s]))

ReconciledRow(snap, s) ==
    LET row == work[s] IN
    CASE s \in Open /\ IsAcknowledged(snap, s) ->
            [row EXCEPT !.disposition = "acknowledged", !.retry_at = 0]
      [] s \in ObsoleteRows(snap) ->
            [row EXCEPT !.disposition = "obsolete", !.retry_at = 0]
      [] s \in UnattributedRows(snap) ->
            [row EXCEPT !.disposition = "unknown", !.retry_at = 0, !.uncertain = TRUE]
      [] OTHER -> row

Reconcile(snap) ==
    /\ attempt = {}
    /\ ~SourceMissing(snap)
    /\ ~SourceChanged(snap)
    /\ Advance([s \in DOMAIN work |-> ReconciledRow(snap, s)],
               enumerated,
               Count(counters, "unknown",
                     Cardinality({s \in UnattributedRows(snap) :
                                     work[s].disposition # "unknown"})),
               UnattributedRows(snap))
    /\ UNCHANGED <<imported, seeded, attempt>>

\* acknowledge_health()
AcknowledgeHealth ==
    /\ counters' = [k \in Counter |-> 0]
    /\ UNCHANGED <<imported, scan, enumerated, seeded, work, attempt>>

\* 30 s pass.
Elapse ==
    /\ \E s \in DOMAIN work : work[s].retry_at > 0
    /\ work' = [s \in DOMAIN work |->
                   [work[s] EXCEPT !.retry_at = IF @ > 0 THEN @ - 1 ELSE 0]]
    /\ UNCHANGED <<imported, scan, enumerated, seeded, attempt, counters>>
----------------------------------------------------------------------------

\* What _validate() asks of a row and of the reserved attempt at the end of every
\* transaction: a result that fails it rolls back and stops delivery.
RowValid(row) ==
    /\ row.disposition = "pending" => row.attempts < MaxAttempts
    /\ row.disposition \in {"reserved", "delivered"} => row.attempts > 0
    /\ row.disposition = "failed" => row.attempts = MaxAttempts /\ ~row.uncertain
    /\ row.disposition = "unknown" => row.uncertain
    /\ row.disposition # "pending" => row.retry_at = 0
    /\ row.kind = "peer" => row.binding = NoBinding
    /\ row.kind = "memory-pointer" => row.binding \in Binding /\ row.instance # 0

AttemptValid ==
    /\ attempt = {s \in DOMAIN work : work[s].disposition = "reserved"}
    /\ Cardinality(attempt) <= MaxMembers
    /\ attempt # {} => seeded
    /\ \A s, t \in attempt : work[s].kind = work[t].kind
    /\ \A s \in attempt : work[s].kind = "memory-pointer" => attempt = {s}

\* No transaction is ever rolled back by the code's own check: what it would commit
\* always passes _validate(), so delivery never stops for journal_recovery_required.
JournalValid ==
    /\ imported <= scan
    /\ scan <= enumerated
    /\ Cardinality(DOMAIN work) <= MaxWork
    /\ \A s \in DOMAIN work : RowValid(work[s])
    /\ AttemptValid
=============================================================================
