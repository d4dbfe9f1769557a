--------------------------- MODULE NotifierProofs ---------------------------
(***************************************************************************)
(* The notifier's safety for every size of the inbox, of the journal and of  *)
(* an attempt, and for any number of faults and retries.                     *)
(***************************************************************************)
EXTENDS Notifier, InboxProofs, FiniteSetTheorems, FiniteSetsExt, WellFoundedInduction, TLAPS

\* A non-empty set of naturals has a least element.
LEMMA MinOfNat ==
    ASSUME NEW S \in SUBSET Nat, S # {}
    PROVE  Min(S) \in S /\ \A x \in S : Min(S) <= x
  <1>1. PICK m \in S : \A y \in S : ~(<<y, m>> \in OpToRel(<, Nat))
    BY WFMin, NatLessThanWellFounded
  <1>2. \A y \in S : m <= y
    <2>. SUFFICES ASSUME NEW y \in S, y < m PROVE FALSE
      OBVIOUS
    <2>1. <<y, m>> \in Nat \X Nat /\ <<y, m>>[1] < <<y, m>>[2]
      OBVIOUS
    <2>2. <<y, m>> \in OpToRel(<, Nat)
      BY <2>1, Zenon DEF OpToRel
    <2>. QED  BY <1>1, <2>2
  <1>. QED  BY <1>2 DEF Min

\* A non-empty set of naturals with a bound has a greatest element.
LEMMA MaxOfRange ==
    ASSUME NEW n \in Nat, NEW S \in SUBSET (0..n), S # {}
    PROVE  Max(S) \in S /\ \A x \in S : x <= Max(S)
  <1>. DEFINE T == {k \in 0..n : n - k \in S}
  <1>1. \A x \in S : n - x \in T
    OBVIOUS
  <1>2. T \in SUBSET Nat /\ T # {}
    <2>1. PICK x \in S : TRUE
      OBVIOUS
    <2>2. n - x \in T
      BY <1>1, <2>1
    <2>3. T \subseteq Nat
      OBVIOUS
    <2>. QED  BY <2>2, <2>3, Zenon
  <1>. HIDE DEF T
  <1>3. PICK m \in T : \A y \in T : m <= y
    BY <1>2, MinOfNat
  <1>4. n - m \in S /\ m \in 0..n
    BY DEF T
  <1>5. \A x \in S : x <= n - m
    BY <1>1, <1>3, <1>4
  <1>. QED  BY <1>4, <1>5 DEF Max

-----------------------------------------------------------------------------
(* What each transaction of the journal guarantees, for every size of the     *)
(* table and of an attempt.                                                   *)

\* What the reader may rely on in a snapshot of the inbox.
SnapshotOK(view) ==
    /\ DOMAIN view.rows \subseteq Sequence
    /\ view.ack \in Nat
    /\ \A s \in DOMAIN view.rows :
        /\ view.rows[s] \in InboxRow
        /\ view.rows[s].kind = "memory-pointer" =>
              view.rows[s].binding \in Binding /\ view.rows[s].instance # 0

\* A table of work that _validate() accepts, at any point of a transaction.
TableOK(table) ==
    /\ table = [s \in DOMAIN table |-> table[s]]
    /\ DOMAIN table \subseteq Sequence
    /\ Cardinality(DOMAIN table) <= MaxWork
    /\ \A s \in DOMAIN table : table[s] \in WorkRow /\ RowValid(table[s])

ReservedIn(table) == {s \in DOMAIN table : table[s].disposition = "reserved"}

BoundariesOK ==
    /\ imported \in 0..MaxSeq /\ scan \in 0..MaxSeq /\ enumerated \in 0..MaxSeq
    /\ imported <= scan /\ scan <= enumerated

CountersOK(c) == c \in [Counter -> 0..CounterMax]

JournalInv == JournalTypeOK /\ JournalValid

\* The two readings of the journal's invariant.
LEMMA JournalInvParts ==
    JournalInv <=> /\ TableOK(work)
                   /\ BoundariesOK
                   /\ CountersOK(counters)
                   /\ seeded \in BOOLEAN
                   /\ AttemptValid
  BY DEF JournalInv, JournalTypeOK, JournalValid, TableOK, BoundariesOK, CountersOK,
         AttemptValid

\* The same of the state a transaction leaves behind.
LEMMA JournalInvAfter ==
    ASSUME TableOK(work'), BoundariesOK', CountersOK(counters'), (seeded \in BOOLEAN)',
           AttemptValid'
    PROVE  JournalInv'
  <1>1. (TableOK(work) /\ BoundariesOK /\ CountersOK(counters) /\ seeded \in BOOLEAN
           /\ AttemptValid)' => JournalInv'
    BY JournalInvParts, PTL
  <1>2. (TableOK(work))' /\ (CountersOK(counters))'
    BY DEF TableOK, CountersOK
  <1>. QED  BY <1>1, <1>2
----------------------------------------------------------------------------
(* Sets of sequences.                                                       *)

\* Sets of sequences are finite, and a subset is no larger.
LEMMA SequencesFinite ==
    ASSUME NEW S \in SUBSET Sequence
    PROVE  /\ IsFiniteSet(S)
           /\ Cardinality(S) \in Nat
           /\ \A T \in SUBSET S : /\ IsFiniteSet(T)
                                  /\ Cardinality(T) \in Nat
                                  /\ Cardinality(T) <= Cardinality(S)
  <1>1. IsFiniteSet(Sequence)
    BY FS_Interval, InboxAssumption DEF Sequence
  <1>2. IsFiniteSet(S)
    BY <1>1, FS_Subset
  <1>. QED  BY <1>2, FS_Subset, FS_CardinalityType
----------------------------------------------------------------------------
(* The end of every transaction.                                            *)

\* count() keeps the counters in range.
LEMMA CountType ==
    ASSUME NEW c, CountersOK(c), NEW key \in Counter, NEW amount \in Nat
    PROVE  CountersOK(Count(c, key, amount))
  BY JournalAssumption DEF CountersOK, Count, Smaller

\* The scan boundary never moves back, nor past what was enumerated.
LEMMA ScanBoundaryBounds ==
    ASSUME scan \in 0..MaxSeq, NEW table, DOMAIN table \subseteq Sequence,
           NEW high \in 0..MaxSeq, scan <= high
    PROVE  ScanBoundary(table, high) \in scan..high
  <1>. DEFINE waiting == {s \in DOMAIN table : s > scan /\ table[s].disposition \in Waiting}
  <1>1. CASE waiting = {}
    BY <1>1 DEF ScanBoundary, Larger
  <1>2. CASE waiting # {}
    <2>1. waiting \in SUBSET Nat /\ \A s \in waiting : s > scan
      BY DEF Sequence
    <2>2. Min(waiting) \in Nat /\ Min(waiting) > scan
      BY <1>2, <2>1, MinOfNat
    <2>. QED  BY <1>2, <2>2 DEF ScanBoundary, Larger, Smaller
  <1>. QED  BY <1>1, <1>2

\* advance(): only settled rows, and the unattributed ones handed to it, leave the
\* table, and only behind the new boundary; nothing else changes.
LEMMA AdvanceFacts ==
    ASSUME BoundariesOK, NEW table, TableOK(table),
           NEW high \in 0..MaxSeq, scan <= high,
           NEW c, CountersOK(c), NEW gone, Advance(table, high, c, gone)
    PROVE  /\ scan' \in scan..high
           /\ enumerated' = high
           /\ DOMAIN work' \subseteq DOMAIN table
           /\ \A s \in DOMAIN work' : work'[s] = table[s]
           /\ \A s \in DOMAIN table \ DOMAIN work' :
                 s <= scan' /\ (table[s].disposition \in Settled \/ s \in gone)
           /\ TableOK(work')
           /\ CountersOK(counters')
  <1>. DEFINE through == ScanBoundary(table, high)
              folded == FoldedRows(table, through)
              dropped == {s \in gone : s <= through}
  <1>1. through \in scan..high /\ scan' = through
    BY ScanBoundaryBounds DEF BoundariesOK, TableOK, Advance
  <1>2. /\ DOMAIN work' = DOMAIN table \ (folded \cup dropped)
        /\ \A s \in DOMAIN work' : work'[s] = table[s]
        /\ work' = [s \in DOMAIN work' |-> work'[s]]
    BY DEF Advance, Restrict
  <1>3. \A s \in DOMAIN table \ DOMAIN work' :
            s <= scan' /\ (table[s].disposition \in Settled \/ s \in gone)
    BY <1>1, <1>2 DEF FoldedRows
  <1>4. Cardinality(DOMAIN work') <= MaxWork
    <2>1. Cardinality(DOMAIN table) \in Nat /\ Cardinality(DOMAIN work') \in Nat
          /\ Cardinality(DOMAIN work') <= Cardinality(DOMAIN table)
      BY <1>2, SequencesFinite DEF TableOK
    <2>. QED  BY <2>1, JournalAssumption DEF TableOK
  <1>5. TableOK(work')
    BY <1>2, <1>4 DEF TableOK
  <1>6. CountersOK(counters')
    <2>1. \A k \in Counter :
              Cardinality({s \in folded : table[s].disposition = k}) \in Nat
      <3>. SUFFICES ASSUME NEW k \in Counter
                    PROVE  Cardinality({s \in folded : table[s].disposition = k}) \in Nat
        OBVIOUS
      <3>1. {s \in folded : table[s].disposition = k} \in SUBSET Sequence
        BY DEF FoldedRows, TableOK
      <3>. QED  BY <3>1, SequencesFinite
    <2>2. counters' = FoldedCounters(c, table, folded)
      BY DEF Advance
    <2>. QED  BY <2>1, <2>2, JournalAssumption DEF CountersOK, FoldedCounters, Smaller
  <1>. QED  BY <1>1, <1>2, <1>3, <1>5, <1>6 DEF Advance
----------------------------------------------------------------------------
(* Transactions that make no call and end none.                             *)

\* What such a transaction may do to a row it keeps: the attempts stay, what was
\* uncertain or settled stays so, and a row is closed only as settled or as
\* uncertain.
Kept(old, new) ==
    /\ new.attempts = old.attempts
    /\ old.uncertain => new.uncertain
    /\ old.disposition \in Settled => new.disposition = old.disposition
    /\ \/ new.disposition = old.disposition
       \/ new.disposition \in {"acknowledged", "obsolete"}
       \/ new.uncertain

QuietStep ==
    /\ attempt' = attempt
    /\ seeded => seeded'
    /\ scan <= scan'
    /\ \A s \in DOMAIN work' :
          \/ s \in DOMAIN work /\ Kept(work[s], work'[s])
          \/ /\ s \notin DOMAIN work
             /\ s > scan \/ ~seeded
             /\ work'[s].disposition = "pending"
    /\ \A s \in DOMAIN work \ DOMAIN work' : s <= scan'

\* An attempt stays valid when its rows stay reserved and no other row becomes so.
LEMMA AttemptKept ==
    ASSUME AttemptValid, attempt' = attempt, seeded => seeded',
           \A s \in attempt : /\ s \in DOMAIN work'
                              /\ work'[s].disposition = "reserved"
                              /\ work'[s].kind = work[s].kind,
           \A s \in DOMAIN work' : work'[s].disposition = "reserved" => s \in attempt
    PROVE  AttemptValid'
  BY DEF AttemptValid

\* The records a scan or a seed hands to add().
RecordsOK(records) ==
    /\ DOMAIN records \subseteq Sequence
    /\ \A s \in DOMAIN records :
        /\ records[s].kind \in {"peer", "memory-pointer"}
        /\ records[s].binding \in Binding \cup {NoBinding}
        /\ records[s].instance \in Nat
        /\ records[s].kind = "peer" => records[s].binding = NoBinding
        /\ records[s].kind = "memory-pointer" =>
              records[s].binding \in Binding /\ records[s].instance # 0

\* projection(): every row of a good snapshot is reported as a good record.
LEMMA SnapshotRecords ==
    ASSUME NEW view, SnapshotOK(view), NEW seqs \in SUBSET DOMAIN view.rows
    PROVE  RecordsOK(Project(view, seqs))
  <1>. DEFINE records == Project(view, seqs)
  <1>1. DOMAIN records = seqs /\ \A s \in seqs : records[s] = Projection(view.rows[s])
    BY DEF Project
  <1>2. \A s \in seqs : /\ view.rows[s] \in InboxRow
                        /\ view.rows[s].kind = "memory-pointer" =>
                              view.rows[s].binding \in Binding /\ view.rows[s].instance # 0
    BY DEF SnapshotOK
  <1>3. ASSUME NEW s \in seqs
        PROVE  /\ records[s].kind \in {"peer", "memory-pointer"}
               /\ records[s].binding \in Binding \cup {NoBinding}
               /\ records[s].instance \in Nat
               /\ records[s].kind = "peer" => records[s].binding = NoBinding
               /\ records[s].kind = "memory-pointer" =>
                     records[s].binding \in Binding /\ records[s].instance # 0
    <2>1. CASE PointerCapable /\ view.rows[s].kind = "memory-pointer"
      BY <1>1, <1>2, <2>1 DEF Projection, InboxRow
    <2>2. CASE ~(PointerCapable /\ view.rows[s].kind = "memory-pointer")
      BY <1>1, <2>2 DEF Projection
    <2>. QED  BY <2>1, <2>2
  <1>. QED  BY <1>1, <1>3 DEF RecordsOK, SnapshotOK

\* add(): the table with the new rows is as good as the old one.
LEMMA AdmissionFacts ==
    ASSUME TableOK(work), NEW records, RecordsOK(records), NEW historical \in BOOLEAN,
           ~OverCapacity(records, historical)
    PROVE  LET table == WithAdmitted(records, historical) IN
           /\ TableOK(table)
           /\ DOMAIN work \subseteq DOMAIN table
           /\ \A s \in DOMAIN work : table[s] = work[s]
           /\ \A s \in DOMAIN table \ DOMAIN work :
                 /\ historical \/ s > scan
                 /\ table[s].disposition = "pending"
  <1>. DEFINE new == Admitted(records, historical)
              table == WithAdmitted(records, historical)
  <1>1. /\ DOMAIN table = DOMAIN work \cup new
        /\ table = [s \in DOMAIN table |-> table[s]]
        /\ \A s \in DOMAIN work : table[s] = work[s]
        /\ \A s \in new : table[s] = NewWork(records[s])
    BY DEF WithAdmitted, Admitted
  <1>2. new \subseteq Sequence /\ new \subseteq DOMAIN records
        /\ \A s \in new : s \notin DOMAIN work /\ (historical \/ s > scan)
    BY DEF Admitted, Admissible, RecordsOK
  <1>3. Cardinality(DOMAIN table) <= MaxWork
    <2>1. CASE new = {}
      <3>1. DOMAIN table = DOMAIN work
        BY <1>1, <2>1
      <3>. QED  BY <3>1 DEF TableOK
    <2>2. CASE new # {}
      <3>1. ~(Cardinality(DOMAIN table) > MaxWork)
        BY <1>1, <2>2 DEF OverCapacity
      <3>2. Cardinality(DOMAIN table) \in Nat
        BY <1>1, <1>2, SequencesFinite DEF TableOK
      <3>. QED  BY <3>1, <3>2, JournalAssumption
    <2>. QED  BY <2>1, <2>2
  <1>4. \A s \in new : NewWork(records[s]) \in WorkRow /\ RowValid(NewWork(records[s]))
        /\ NewWork(records[s]).disposition = "pending"
    <2>. SUFFICES ASSUME NEW s \in new
                  PROVE  /\ NewWork(records[s]) \in WorkRow
                         /\ RowValid(NewWork(records[s]))
                         /\ NewWork(records[s]).disposition = "pending"
      OBVIOUS
    <2>1. s \in DOMAIN records
      BY <1>2
    <2>. QED  BY <2>1, JournalAssumption DEF NewWork, WorkRow, RowValid, RecordsOK, Waiting
  <1>5. TableOK(table)
    BY <1>1, <1>2, <1>3, <1>4 DEF TableOK
  <1>. QED  BY <1>1, <1>2, <1>4, <1>5

\* seed_pointers() keeps the journal valid and disturbs no row.
LEMMA SeedFacts ==
    ASSUME JournalInv, NEW records, RecordsOK(records), SeedPointers(records)
    PROVE  JournalInv' /\ QuietStep
  <1>. DEFINE table == WithAdmitted(records, TRUE)
  <1>1. TableOK(work) /\ BoundariesOK /\ CountersOK(counters) /\ AttemptValid
    BY JournalInvParts
  <1>2. work' = table /\ ~seeded /\ seeded' = TRUE /\ ~OverCapacity(records, TRUE)
        /\ UNCHANGED <<imported, scan, enumerated, attempt, counters>>
    BY DEF SeedPointers
  <1>3. /\ TableOK(table)
        /\ DOMAIN work \subseteq DOMAIN table
        /\ \A s \in DOMAIN work : table[s] = work[s]
        /\ \A s \in DOMAIN table \ DOMAIN work : table[s].disposition = "pending"
    BY <1>1, <1>2, AdmissionFacts
  <1>. HIDE DEF table
  <1>4. AttemptValid'
    BY <1>1, <1>2, <1>3, AttemptKept DEF AttemptValid
  <1>5. BoundariesOK' /\ CountersOK(counters')
    BY <1>1, <1>2 DEF BoundariesOK, CountersOK
  <1>6. JournalInv'
    BY <1>2, <1>3, <1>4, <1>5, JournalInvAfter
  <1>7. QuietStep
    BY <1>1, <1>2, <1>3 DEF QuietStep, Kept, BoundariesOK
  <1>. QED  BY <1>6, <1>7

\* A transaction that keeps the rows it finds and ends with advance().
LEMMA QuietAdvance ==
    ASSUME JournalInv, NEW table, TableOK(table), NEW high \in 0..MaxSeq, enumerated <= high,
           NEW c, CountersOK(c), NEW gone, Advance(table, high, c, gone),
           UNCHANGED <<imported, seeded, attempt>>,
           DOMAIN work \subseteq DOMAIN table,
           \A s \in DOMAIN work :
              /\ Kept(work[s], table[s])
              /\ table[s].kind = work[s].kind
              /\ table[s].disposition = "reserved" <=> work[s].disposition = "reserved",
           \A s \in DOMAIN table \ DOMAIN work :
              s > scan /\ table[s].disposition = "pending",
           \A s \in gone \cap DOMAIN table : table[s].disposition # "reserved"
    PROVE  JournalInv' /\ QuietStep
  <1>1. TableOK(work) /\ BoundariesOK /\ CountersOK(counters) /\ AttemptValid
        /\ seeded \in BOOLEAN
    BY JournalInvParts
  <1>2. scan <= high
    BY <1>1 DEF BoundariesOK
  <1>3. /\ scan' \in scan..high
        /\ enumerated' = high
        /\ DOMAIN work' \subseteq DOMAIN table
        /\ \A s \in DOMAIN work' : work'[s] = table[s]
        /\ \A s \in DOMAIN table \ DOMAIN work' :
              s <= scan' /\ (table[s].disposition \in Settled \/ s \in gone)
        /\ TableOK(work')
        /\ CountersOK(counters')
    BY <1>1, <1>2, AdvanceFacts
  <1>4. \A s \in attempt : /\ s \in DOMAIN work'
                           /\ work'[s].disposition = "reserved"
                           /\ work'[s].kind = work[s].kind
    <2>. SUFFICES ASSUME NEW s \in attempt
                  PROVE  /\ s \in DOMAIN work'
                         /\ work'[s].disposition = "reserved"
                         /\ work'[s].kind = work[s].kind
      OBVIOUS
    <2>1. s \in DOMAIN work /\ work[s].disposition = "reserved"
      BY <1>1 DEF AttemptValid
    <2>2. s \in DOMAIN table /\ table[s].disposition = "reserved"
      BY <2>1
    <2>3. s \in DOMAIN work'
      BY <1>3, <2>2 DEF Settled
    <2>. QED  BY <1>3, <2>1, <2>2, <2>3
  <1>5. \A s \in DOMAIN work' : work'[s].disposition = "reserved" => s \in attempt
    BY <1>1, <1>3 DEF AttemptValid
  <1>6. AttemptValid'
    BY <1>1, <1>4, <1>5, AttemptKept
  <1>7. JournalInv'
    <2>1. BoundariesOK'
      BY <1>1, <1>3, InboxAssumption DEF BoundariesOK
    <2>2. (seeded \in BOOLEAN)'
      BY <1>1, Zenon
    <2>. QED  BY <1>3, <1>6, <2>1, <2>2, JournalInvAfter
  <1>8. QuietStep
    <2>1. scan <= scan'
      BY <1>1, <1>3 DEF BoundariesOK
    <2>2. \A s \in DOMAIN work' :
            \/ s \in DOMAIN work /\ Kept(work[s], work'[s])
            \/ /\ s \notin DOMAIN work
               /\ s > scan \/ ~seeded
               /\ work'[s].disposition = "pending"
      BY <1>3
    <2>. QED  BY <1>3, <2>1, <2>2 DEF QuietStep
  <1>. QED  BY <1>7, <1>8

\* A scan reports rows the snapshot retains, and how far it read.
LEMMA ScanFacts ==
    ASSUME NEW view, SnapshotOK(view), NEW after \in 0..MaxSeq
    PROVE  /\ RecordsOK(ScanRecords(view, after))
           /\ ScannedThrough(view, after) \in 0..MaxSeq
           /\ IgnoredRows(view, after) \subseteq Sequence
  <1>1. ScanRows(view, after) \subseteq DOMAIN view.rows
    BY DEF ScanRows
  <1>2. RecordsOK(ScanRecords(view, after))
    BY <1>1, SnapshotRecords DEF ScanRecords
  <1>3. ScanRows(view, after) \subseteq Sequence
    BY <1>1 DEF SnapshotOK
  <1>4. ScanRows(view, after) \cup {after} \in SUBSET (0..MaxSeq)
    BY <1>3, InboxAssumption DEF Sequence
  <1>5. ScannedThrough(view, after) \in 0..MaxSeq
    BY <1>4, MaxOfRange, InboxAssumption DEF ScannedThrough
  <1>. QED  BY <1>2, <1>3, <1>5 DEF IgnoredRows

\* ingest() keeps the journal valid and disturbs no row.
LEMMA IngestFacts ==
    ASSUME JournalInv, NEW records, RecordsOK(records),
           NEW ignored \in SUBSET Sequence, NEW through \in 0..MaxSeq,
           Ingest(records, ignored, through)
    PROVE  JournalInv' /\ QuietStep
  <1>. DEFINE table == WithAdmitted(records, FALSE)
              high == Larger(enumerated, through)
              c == Count(counters, "ignored", Cardinality({s \in ignored : s > enumerated}))
  <1>1. TableOK(work) /\ BoundariesOK /\ CountersOK(counters)
    BY JournalInvParts
  <1>2. ~OverCapacity(records, FALSE) /\ Advance(table, high, c, {})
        /\ UNCHANGED <<imported, seeded, attempt>>
    BY DEF Ingest
  <1>3. /\ TableOK(table)
        /\ DOMAIN work \subseteq DOMAIN table
        /\ \A s \in DOMAIN work : table[s] = work[s]
        /\ \A s \in DOMAIN table \ DOMAIN work :
              s > scan /\ table[s].disposition = "pending"
    BY <1>1, <1>2, AdmissionFacts
  <1>4. high \in 0..MaxSeq /\ enumerated <= high
    BY <1>1 DEF BoundariesOK, Larger
  <1>5. CountersOK(c)
    <2>1. {s \in ignored : s > enumerated} \in SUBSET Sequence
      OBVIOUS
    <2>2. Cardinality({s \in ignored : s > enumerated}) \in Nat
      BY <2>1, SequencesFinite
    <2>. QED  BY <1>1, <2>2, CountType DEF Counter
  <1>. HIDE DEF table, high, c
  <1>6. \A s \in DOMAIN work :
              /\ Kept(work[s], table[s])
              /\ table[s].kind = work[s].kind
              /\ table[s].disposition = "reserved" <=> work[s].disposition = "reserved"
    BY <1>3 DEF Kept
  <1>. QED  BY <1>2, <1>3, <1>4, <1>5, <1>6, QuietAdvance

Disposition == Waiting \cup Settled \cup Exhausted

\* Updating the columns of a row leaves a row.
LEMMA RowUpdated ==
    ASSUME NEW row \in WorkRow, NEW d \in Disposition, NEW r \in 0..2
    PROVE  /\ [row EXCEPT !.disposition = d, !.retry_at = r] \in WorkRow
           /\ \A u \in BOOLEAN :
                 [row EXCEPT !.disposition = d, !.retry_at = r, !.uncertain = u] \in WorkRow
           /\ \A a \in 0..MaxAttempts :
                 [row EXCEPT !.disposition = d, !.attempts = a, !.retry_at = r] \in WorkRow
  <1>1. [row EXCEPT !.disposition = d, !.retry_at = r] \in WorkRow
    BY DEF WorkRow, Disposition
  <1>2. ASSUME NEW u \in BOOLEAN
        PROVE  [row EXCEPT !.disposition = d, !.retry_at = r, !.uncertain = u] \in WorkRow
    BY DEF WorkRow, Disposition
  <1>3. ASSUME NEW a \in 0..MaxAttempts
        PROVE  [row EXCEPT !.disposition = d, !.attempts = a, !.retry_at = r] \in WorkRow
    BY DEF WorkRow, Disposition
  <1>. QED  BY <1>1, <1>2, <1>3

\* What reconcile() makes of one row, when no attempt is in flight.
LEMMA ReconciledRowFacts ==
    ASSUME NEW view, NEW s \in DOMAIN work, work[s] \in WorkRow, RowValid(work[s]),
           work[s].disposition # "reserved"
    PROVE  /\ ReconciledRow(view, s) \in WorkRow
           /\ RowValid(ReconciledRow(view, s))
           /\ ReconciledRow(view, s).disposition # "reserved"
           /\ ReconciledRow(view, s).kind = work[s].kind
           /\ Kept(work[s], ReconciledRow(view, s))
  <1>. DEFINE row == ReconciledRow(view, s)
              acked == s \in Open /\ IsAcknowledged(view, s)
              obsolete == s \in ObsoleteRows(view)
              lost == s \in UnattributedRows(view)
  <1>1. /\ obsolete => ~acked /\ ~lost /\ s \in Open
        /\ lost => ~acked /\ s \in Open
    BY DEF ObsoleteRows, UnattributedRows, Vanished
  <1>2. row = CASE acked -> [work[s] EXCEPT !.disposition = "acknowledged", !.retry_at = 0]
                [] obsolete -> [work[s] EXCEPT !.disposition = "obsolete", !.retry_at = 0]
                [] lost -> [work[s] EXCEPT !.disposition = "unknown", !.retry_at = 0,
                                           !.uncertain = TRUE]
                [] OTHER -> work[s]
    BY DEF ReconciledRow
  <1>3. acked => s \in Open
    OBVIOUS
  <1>. HIDE DEF row, acked, obsolete, lost
  <1>4. s \in Open => work[s].disposition \notin Settled
    BY DEF Open
  <1>5. CASE acked
    <2>1. row = [work[s] EXCEPT !.disposition = "acknowledged", !.retry_at = 0]
      BY <1>1, <1>2, <1>5
    <2>2. row \in WorkRow
      <3>1. "acknowledged" \in Disposition /\ 0 \in 0..2
        BY DEF Disposition, Settled
      <3>. QED  BY <2>1, <3>1, RowUpdated
    <2>3. row.disposition = "acknowledged" /\ row.retry_at = 0
          /\ row.kind = work[s].kind /\ row.binding = work[s].binding
          /\ row.instance = work[s].instance /\ row.attempts = work[s].attempts
          /\ row.uncertain = work[s].uncertain
      BY <2>1 DEF WorkRow
    <2>4. RowValid(row) /\ Kept(work[s], row)
      BY <1>3, <1>4, <1>5, <2>3 DEF RowValid, Kept
    <2>. QED  BY <2>2, <2>3, <2>4 DEF row
  <1>6. CASE obsolete
    <2>1. row = [work[s] EXCEPT !.disposition = "obsolete", !.retry_at = 0]
      BY <1>1, <1>2, <1>6
    <2>2. row \in WorkRow
      <3>1. "obsolete" \in Disposition /\ 0 \in 0..2
        BY DEF Disposition, Settled
      <3>. QED  BY <2>1, <3>1, RowUpdated
    <2>3. row.disposition = "obsolete" /\ row.retry_at = 0
          /\ row.kind = work[s].kind /\ row.binding = work[s].binding
          /\ row.instance = work[s].instance /\ row.attempts = work[s].attempts
          /\ row.uncertain = work[s].uncertain
      BY <2>1 DEF WorkRow
    <2>4. RowValid(row) /\ Kept(work[s], row)
      BY <1>1, <1>4, <1>6, <2>3 DEF RowValid, Kept
    <2>. QED  BY <2>2, <2>3, <2>4 DEF row
  <1>7. CASE lost
    <2>1. row = [work[s] EXCEPT !.disposition = "unknown", !.retry_at = 0, !.uncertain = TRUE]
      BY <1>1, <1>2, <1>7
    <2>2. row \in WorkRow
      <3>1. "unknown" \in Disposition /\ 0 \in 0..2
        BY DEF Disposition, Exhausted
      <3>. QED  BY <2>1, <3>1, RowUpdated
    <2>3. row.disposition = "unknown" /\ row.retry_at = 0
          /\ row.kind = work[s].kind /\ row.binding = work[s].binding
          /\ row.instance = work[s].instance /\ row.attempts = work[s].attempts
          /\ row.uncertain
      BY <2>1 DEF WorkRow
    <2>4. RowValid(row) /\ Kept(work[s], row)
      BY <1>1, <1>4, <1>7, <2>3 DEF RowValid, Kept
    <2>. QED  BY <2>2, <2>3, <2>4 DEF row
  <1>8. CASE ~acked /\ ~obsolete /\ ~lost
    <2>1. row = work[s]
      BY <1>2, <1>8
    <2>. QED  BY <2>1 DEF Kept, row
  <1>. QED  BY <1>5, <1>6, <1>7, <1>8

\* reconcile() keeps the journal valid; a row it closes is acknowledged, obsolete or
\* unknown, never "failed".
LEMMA ReconcileFacts ==
    ASSUME JournalInv, NEW view, Reconcile(view)
    PROVE  JournalInv' /\ QuietStep
  <1>. DEFINE table == [s \in DOMAIN work |-> ReconciledRow(view, s)]
              lost == {s \in UnattributedRows(view) : work[s].disposition # "unknown"}
              c == Count(counters, "unknown", Cardinality(lost))
              gone == UnattributedRows(view)
  <1>1. TableOK(work) /\ BoundariesOK /\ CountersOK(counters) /\ AttemptValid
    BY JournalInvParts
  <1>2. attempt = {} /\ Advance(table, enumerated, c, gone)
        /\ UNCHANGED <<imported, seeded, attempt>>
    BY DEF Reconcile
  <1>3. \A s \in DOMAIN work : work[s].disposition # "reserved"
    BY <1>1, <1>2 DEF AttemptValid
  <1>4. \A s \in DOMAIN work :
            /\ table[s] \in WorkRow /\ RowValid(table[s])
            /\ table[s].disposition # "reserved"
            /\ table[s].kind = work[s].kind
            /\ Kept(work[s], table[s])
    BY <1>1, <1>3, ReconciledRowFacts DEF TableOK
  <1>5. CountersOK(c)
    <2>1. lost \in SUBSET Sequence
      BY <1>1 DEF UnattributedRows, Vanished, Open, TableOK
    <2>2. Cardinality(lost) \in Nat
      BY <2>1, SequencesFinite
    <2>. HIDE DEF lost
    <2>. QED  BY <1>1, <2>2, CountType DEF Counter
  <1>6. DOMAIN table = DOMAIN work /\ table = [s \in DOMAIN table |-> table[s]]
    OBVIOUS
  <1>. HIDE DEF table, c, gone
  <1>7. TableOK(table)
    BY <1>1, <1>4, <1>6 DEF TableOK
  <1>8. enumerated \in 0..MaxSeq /\ enumerated <= enumerated
    BY <1>1, InboxAssumption DEF BoundariesOK
  <1>. QED  BY <1>2, <1>3, <1>4, <1>5, <1>6, <1>7, <1>8, QuietAdvance

\* Thirty seconds change no row but its waiting time.
LEMMA ElapseFacts ==
    ASSUME JournalInv, Elapse
    PROVE  JournalInv' /\ QuietStep
  <1>1. TableOK(work) /\ BoundariesOK /\ CountersOK(counters) /\ AttemptValid
        /\ seeded \in BOOLEAN
    BY JournalInvParts
  <1>2. work' = [s \in DOMAIN work |->
                    [work[s] EXCEPT !.retry_at = IF @ > 0 THEN @ - 1 ELSE 0]]
        /\ UNCHANGED <<imported, scan, enumerated, seeded, attempt, counters>>
    BY DEF Elapse
  <1>3. \A s \in DOMAIN work :
            /\ work'[s] \in WorkRow /\ RowValid(work'[s])
            /\ work'[s].disposition = work[s].disposition
            /\ work'[s].kind = work[s].kind
            /\ Kept(work[s], work'[s])
    <2>. SUFFICES ASSUME NEW s \in DOMAIN work
                  PROVE  /\ work'[s] \in WorkRow /\ RowValid(work'[s])
                         /\ work'[s].disposition = work[s].disposition
                         /\ work'[s].kind = work[s].kind
                         /\ Kept(work[s], work'[s])
      OBVIOUS
    <2>1. work[s] \in WorkRow /\ RowValid(work[s])
      BY <1>1 DEF TableOK
    <2>2. work'[s] = [work[s] EXCEPT !.retry_at = IF @ > 0 THEN @ - 1 ELSE 0]
      BY <1>2
    <2>3. (IF work[s].retry_at > 0 THEN work[s].retry_at - 1 ELSE 0) \in 0..2
      BY <2>1 DEF WorkRow
    <2>. QED  BY <2>1, <2>2, <2>3 DEF WorkRow, RowValid, Kept
  <1>4. DOMAIN work' = DOMAIN work /\ work' = [s \in DOMAIN work' |-> work'[s]]
    BY <1>2
  <1>5. TableOK(work')
    BY <1>1, <1>3, <1>4 DEF TableOK
  <1>6. AttemptValid'
    BY <1>1, <1>2, <1>3, <1>4, AttemptKept DEF AttemptValid
  <1>7. BoundariesOK' /\ CountersOK(counters')
    BY <1>1, <1>2 DEF BoundariesOK, CountersOK
  <1>8. (seeded \in BOOLEAN)'
    BY <1>1, <1>2, Zenon
  <1>9. QuietStep
    BY <1>1, <1>2, <1>3, <1>4 DEF QuietStep, BoundariesOK
  <1>. QED  BY <1>5, <1>6, <1>7, <1>8, <1>9, JournalInvAfter

\* acknowledge_health() resets the counters only.
LEMMA AcknowledgeHealthFacts ==
    ASSUME JournalInv, AcknowledgeHealth
    PROVE  JournalInv' /\ QuietStep
  <1>1. TableOK(work) /\ BoundariesOK /\ AttemptValid /\ seeded \in BOOLEAN
    BY JournalInvParts
  <1>2. UNCHANGED <<imported, scan, enumerated, seeded, work, attempt>>
        /\ counters' = [k \in Counter |-> 0]
    BY DEF AcknowledgeHealth
  <1>3. CountersOK(counters')
    BY <1>2, JournalAssumption DEF CountersOK
  <1>4. TableOK(work')
    BY <1>1, <1>2, Zenon
  <1>5. BoundariesOK' /\ AttemptValid'
    BY <1>1, <1>2 DEF BoundariesOK, AttemptValid
  <1>6. (seeded \in BOOLEAN)'
    BY <1>1, <1>2, Zenon
  <1>7. QuietStep
    BY <1>1, <1>2 DEF QuietStep, Kept, BoundariesOK
  <1>. QED  BY <1>3, <1>4, <1>5, <1>6, <1>7, JournalInvAfter

\* Nothing at all happens to the journal.
LEMMA JournalUnchanged ==
    ASSUME JournalInv, UNCHANGED journalVars
    PROVE  JournalInv' /\ QuietStep
  <1>1. TableOK(work) /\ BoundariesOK /\ AttemptValid /\ seeded \in BOOLEAN
        /\ CountersOK(counters)
    BY JournalInvParts
  <1>2. UNCHANGED <<imported, scan, enumerated, seeded, work, attempt, counters>>
    BY DEF journalVars
  <1>4. TableOK(work') /\ CountersOK(counters')
    BY <1>1, <1>2, Zenon
  <1>5. BoundariesOK' /\ AttemptValid'
    BY <1>1, <1>2 DEF BoundariesOK, AttemptValid
  <1>6. (seeded \in BOOLEAN)'
    BY <1>1, <1>2, Zenon
  <1>7. QuietStep
    BY <1>1, <1>2 DEF QuietStep, Kept, BoundariesOK
  <1>. QED  BY <1>4, <1>5, <1>6, <1>7, JournalInvAfter
----------------------------------------------------------------------------
(* Transactions that start over, begin a call or end one.                   *)

\* A new journal is valid and empty.
LEMMA CreateFacts ==
    ASSUME NEW through \in 0..MaxSeq, CreateJournal(through)
    PROVE  JournalInv' /\ DOMAIN work' = {} /\ attempt' = {} /\ seeded' = FALSE
  <1>1. /\ imported' = through /\ scan' = through /\ enumerated' = through
        /\ seeded' = FALSE /\ attempt' = {}
        /\ counters' = [k \in Counter |-> 0]
        /\ DOMAIN work' = {} /\ work' = [s \in DOMAIN work' |-> work'[s]]
    BY DEF CreateJournal
  <1>2. Cardinality({}) = 0 /\ Cardinality({}) <= MaxWork
    BY FS_EmptySet, JournalAssumption
  <1>3. TableOK(work')
    BY <1>1, <1>2 DEF TableOK
  <1>4. BoundariesOK' /\ CountersOK(counters')
    BY <1>1, JournalAssumption, InboxAssumption DEF BoundariesOK, CountersOK
  <1>5. (seeded \in BOOLEAN)'
    BY <1>1, Zenon
  <1>6. AttemptValid'
    BY <1>1, <1>2, JournalAssumption DEF AttemptValid
  <1>. QED  BY <1>1, <1>3, <1>4, <1>5, <1>6, JournalInvAfter

\* retry() takes back exhausted rows only, and keeps what is uncertain.
LEMMA RetryFacts ==
    ASSUME JournalInv, NEW seqs, Retry(seqs)
    PROVE  /\ JournalInv'
           /\ UNCHANGED <<scan, seeded, attempt>>
           /\ DOMAIN work' = DOMAIN work
           /\ \A s \in DOMAIN work :
                 \/ s \notin seqs /\ work'[s] = work[s]
                 \/ /\ s \in seqs
                    /\ work[s].disposition \in Exhausted
                    /\ work'[s].disposition = "pending"
                    /\ work'[s].attempts = 0
                    /\ work'[s].uncertain = work[s].uncertain
  <1>1. TableOK(work) /\ BoundariesOK /\ CountersOK(counters) /\ AttemptValid
        /\ seeded \in BOOLEAN
    BY JournalInvParts
  <1>2. /\ work' = [s \in DOMAIN work |-> IF s \in seqs THEN RetriedRow(work[s]) ELSE work[s]]
        /\ UNCHANGED <<imported, scan, enumerated, seeded, attempt, counters>>
        /\ \A s \in seqs : s \in DOMAIN work /\ work[s].disposition \in Exhausted
    BY DEF Retry, Retriable
  <1>3. ASSUME NEW s \in seqs
        PROVE  /\ work'[s] \in WorkRow /\ RowValid(work'[s])
               /\ work'[s].disposition = "pending"
               /\ work'[s].attempts = 0
               /\ work'[s].uncertain = work[s].uncertain
    <2>1. s \in DOMAIN work /\ work[s] \in WorkRow /\ RowValid(work[s])
          /\ work'[s] = [work[s] EXCEPT !.disposition = "pending", !.attempts = 0, !.retry_at = 0]
      BY <1>1, <1>2 DEF TableOK, RetriedRow
    <2>2. "pending" \in Disposition /\ 0 \in 0..2 /\ 0 \in 0..MaxAttempts
      BY JournalAssumption DEF Disposition, Waiting
    <2>3. work'[s] \in WorkRow
      <3>. DEFINE old == work[s]
      <3>1. old \in WorkRow
        BY <2>1
      <3>. HIDE DEF old
      <3>2. [old EXCEPT !.disposition = "pending", !.attempts = 0, !.retry_at = 0] \in WorkRow
        BY <2>2, <3>1, RowUpdated
      <3>. QED  BY <2>1, <3>2 DEF old
    <2>4. /\ work'[s].disposition = "pending" /\ work'[s].attempts = 0
          /\ work'[s].kind = work[s].kind /\ work'[s].binding = work[s].binding
          /\ work'[s].instance = work[s].instance
          /\ work'[s].uncertain = work[s].uncertain
      BY <2>1 DEF WorkRow
    <2>5. RowValid(work'[s])
      BY <2>1, <2>4, JournalAssumption DEF RowValid
    <2>. QED  BY <2>3, <2>4, <2>5
  <1>4. DOMAIN work' = DOMAIN work /\ work' = [s \in DOMAIN work' |-> work'[s]]
        /\ \A s \in DOMAIN work \ seqs : work'[s] = work[s]
    BY <1>2
  <1>5. TableOK(work')
    BY <1>1, <1>3, <1>4 DEF TableOK
  <1>6. AttemptValid'
    <2>1. \A s \in attempt : s \in DOMAIN work \ seqs /\ work[s].disposition = "reserved"
      BY <1>1, <1>2 DEF AttemptValid, Exhausted
    <2>2. \A s \in DOMAIN work' : work'[s].disposition = "reserved" => s \in attempt
      BY <1>1, <1>3, <1>4 DEF AttemptValid
    <2>. QED  BY <1>1, <1>2, <1>4, <2>1, <2>2, AttemptKept
  <1>7. BoundariesOK' /\ CountersOK(counters')
    BY <1>1, <1>2 DEF BoundariesOK, CountersOK
  <1>8. (seeded \in BOOLEAN)'
    BY <1>1, <1>2, Zenon
  <1>9. JournalInv'
    BY <1>5, <1>6, <1>7, <1>8, JournalInvAfter
  <1>10. \A s \in DOMAIN work :
                 \/ s \notin seqs /\ work'[s] = work[s]
                 \/ /\ s \in seqs
                    /\ work[s].disposition \in Exhausted
                    /\ work'[s].disposition = "pending"
                    /\ work'[s].attempts = 0
                    /\ work'[s].uncertain = work[s].uncertain
    BY <1>2, <1>3, <1>4
  <1>. QED  BY <1>2, <1>4, <1>9, <1>10

\* due(): a legal attempt, of pending rows: peers up to the limit, or one pointer.
LEMMA DueFacts ==
    ASSUME TableOK(work)
    PROVE  /\ Due \subseteq DOMAIN work
           /\ \A s \in Due : work[s].disposition = "pending"
           /\ Cardinality(Due) <= MaxMembers
           /\ \A s, t \in Due : work[s].kind = work[t].kind
           /\ \A s \in Due : work[s].kind = "memory-pointer" => Due = {s}
  <1>1. Due \subseteq Ready /\ Ready \subseteq DOMAIN work /\ Ready \subseteq Sequence
        /\ \A s \in Ready : work[s].disposition = "pending"
    BY DEF Due, Ready, TableOK
  <1>2. Ready \subseteq Nat
    BY <1>1 DEF Sequence
  <1>3. ASSUME NEW s \in Due, work[s].kind = "memory-pointer"
        PROVE  Due = {s}
    <2>1. ~Sendable(s)
      BY <1>3 DEF Sendable
    <2>2. s \in Ready /\ \A t \in Ready : s <= t
      BY <1>1, <1>2, <1>3, <2>1 DEF Due
    <2>3. ASSUME NEW u \in Due PROVE u = s
      <3>1. s \in Nat /\ u \in Nat /\ u \in Ready /\ s <= u
        BY <1>1, <1>2, <2>2
      <3>2. ~(\A t \in Ready : t <= u => Sendable(t))
        BY <2>1, <2>2, <3>1
      <3>3. \A t \in Ready : u <= t
        BY <2>3, <3>2 DEF Due
      <3>. QED  BY <2>2, <3>1, <3>3
    <2>. QED  BY <1>3, <2>3
  <1>4. ASSUME NEW s \in Due, NEW t \in Due PROVE work[s].kind = work[t].kind
    <2>1. work[s] \in WorkRow /\ work[t] \in WorkRow
      BY <1>1 DEF TableOK
    <2>2. /\ work[s].kind = "peer" \/ work[s].kind = "memory-pointer"
          /\ work[t].kind = "peer" \/ work[t].kind = "memory-pointer"
      BY <2>1 DEF WorkRow
    <2>. QED  BY <1>3, <2>2
  <1>5. Cardinality(Due) <= MaxMembers
    <2>1. CASE \E s \in Due : work[s].kind = "memory-pointer"
      <3>1. PICK s \in Due : Due = {s}
        BY <1>3, <2>1
      <3>2. Cardinality({s}) = 1
        BY FS_Singleton
      <3>. QED  BY <3>1, <3>2, JournalAssumption
    <2>2. CASE Due = {}
      BY <2>2, FS_EmptySet, JournalAssumption
    <2>3. CASE Due # {} /\ \A s \in Due : work[s].kind # "memory-pointer"
      <3>1. Due \in SUBSET (0..MaxSeq)
        BY <1>1 DEF Sequence
      <3>2. PICK m \in Due : \A x \in Due : x <= m
        BY <2>3, <3>1, MaxOfRange, InboxAssumption
      <3>. DEFINE below == {t \in Ready : t <= m}
      <3>3. Cardinality(below) <= MaxMembers
        BY <2>3, <3>2 DEF Due
      <3>4. Due \in SUBSET below /\ below \in SUBSET Sequence
        BY <1>1, <3>2
      <3>. HIDE DEF below
      <3>5. Cardinality(Due) \in Nat /\ Cardinality(below) \in Nat
            /\ Cardinality(Due) <= Cardinality(below)
        BY <3>4, SequencesFinite
      <3>. QED  BY <3>3, <3>5, JournalAssumption
    <2>. QED  BY <2>1, <2>2, <2>3
  <1>. QED  BY <1>1, <1>3, <1>4, <1>5

\* reserve() of what is due: one attempt, paid for by every row of it.
LEMMA ReserveFacts ==
    ASSUME JournalInv, Reserve(Due)
    PROVE  /\ JournalInv'
           /\ UNCHANGED <<scan, seeded>>
           /\ attempt' = Due
           /\ DOMAIN work' = DOMAIN work
           /\ \A s \in DOMAIN work :
                 \/ s \notin Due /\ work'[s] = work[s]
                 \/ /\ s \in Due
                    /\ work[s].disposition = "pending"
                    /\ work'[s].disposition = "reserved"
                    /\ work'[s].attempts = work[s].attempts + 1
                    /\ work'[s].uncertain = work[s].uncertain
  <1>. DEFINE seqs == Due
  <1>1. TableOK(work) /\ BoundariesOK /\ CountersOK(counters) /\ AttemptValid
        /\ seeded \in BOOLEAN
    BY JournalInvParts
  <1>2. /\ seqs \subseteq DOMAIN work
        /\ \A s \in seqs : work[s].disposition = "pending"
        /\ Cardinality(seqs) <= MaxMembers
        /\ \A s, t \in seqs : work[s].kind = work[t].kind
        /\ \A s \in seqs : work[s].kind = "memory-pointer" => seqs = {s}
    BY <1>1, DueFacts
  <1>3. /\ seeded /\ attempt = {} /\ attempt' = seqs
        /\ work' = [s \in DOMAIN work |-> IF s \in seqs THEN ReservedRow(work[s]) ELSE work[s]]
        /\ counters' = Count(counters, "attempts", Cardinality(seqs))
        /\ UNCHANGED <<imported, scan, enumerated, seeded>>
    BY DEF Reserve
  <1>. HIDE DEF seqs
  <1>4. ASSUME NEW s \in seqs
        PROVE  /\ work'[s] \in WorkRow /\ RowValid(work'[s])
               /\ work'[s].kind = work[s].kind
               /\ work'[s].disposition = "reserved"
               /\ work'[s].attempts = work[s].attempts + 1
               /\ work'[s].uncertain = work[s].uncertain
    <2>. DEFINE old == work[s]
    <2>1. s \in DOMAIN work /\ old \in WorkRow /\ RowValid(old) /\ old.disposition = "pending"
      BY <1>1, <1>2 DEF TableOK
    <2>2. work'[s] = ReservedRow(old)
      BY <1>2, <1>3
    <2>. HIDE DEF old
    <2>3. old.attempts + 1 \in 0..MaxAttempts /\ old.attempts + 1 > 0
      BY <2>1, JournalAssumption DEF RowValid, WorkRow
    <2>4. "reserved" \in Disposition /\ 0 \in 0..2
      BY DEF Disposition, Waiting
    <2>5. ReservedRow(old) \in WorkRow
      <3>. DEFINE n == old.attempts + 1
      <3>1. n \in 0..MaxAttempts
        BY <2>3
      <3>2. ReservedRow(old)
              = [old EXCEPT !.disposition = "reserved", !.attempts = n, !.retry_at = 0]
        BY DEF ReservedRow
      <3>. HIDE DEF n
      <3>3. [old EXCEPT !.disposition = "reserved", !.attempts = n, !.retry_at = 0] \in WorkRow
        BY <2>1, <2>4, <3>1, RowUpdated
      <3>. QED  BY <3>2, <3>3
    <2>6. LET new == ReservedRow(old) IN
          /\ new.disposition = "reserved" /\ new.attempts = old.attempts + 1
          /\ new.retry_at = 0 /\ new.kind = old.kind /\ new.binding = old.binding
          /\ new.instance = old.instance /\ new.uncertain = old.uncertain
      BY <2>1 DEF ReservedRow, WorkRow
    <2>7. RowValid(ReservedRow(old))
      BY <2>1, <2>3, <2>6 DEF RowValid
    <2>. QED  BY <2>2, <2>5, <2>6, <2>7 DEF old
  <1>5. DOMAIN work' = DOMAIN work /\ work' = [s \in DOMAIN work' |-> work'[s]]
        /\ \A s \in DOMAIN work \ seqs : work'[s] = work[s]
    BY <1>3
  <1>6. TableOK(work')
    BY <1>1, <1>4, <1>5 DEF TableOK
  <1>7. AttemptValid'
    <2>1. \A s \in DOMAIN work : work[s].disposition # "reserved"
      BY <1>1, <1>3 DEF AttemptValid
    <2>2. seqs = {s \in DOMAIN work' : work'[s].disposition = "reserved"}
      BY <1>2, <1>4, <1>5, <2>1
    <2>3. attempt' = seqs /\ seeded'
      BY <1>3
    <2>4. \A s \in seqs : work'[s].kind = work[s].kind
      BY <1>4
    <2>5. /\ \A s, t \in seqs : work'[s].kind = work'[t].kind
          /\ \A s \in seqs : work'[s].kind = "memory-pointer" => seqs = {s}
      BY <1>2, <2>4
    <2>. QED  BY <1>2, <2>2, <2>3, <2>5 DEF AttemptValid
  <1>8. CountersOK(counters')
    <2>1. seqs \in SUBSET Sequence
      BY <1>1, <1>2 DEF TableOK
    <2>2. Cardinality(seqs) \in Nat
      BY <2>1, SequencesFinite
    <2>. QED  BY <1>1, <1>3, <2>2, CountType DEF Counter
  <1>9. BoundariesOK'
    BY <1>1, <1>3 DEF BoundariesOK
  <1>10. (seeded \in BOOLEAN)'
    BY <1>1, <1>3, Zenon
  <1>11. JournalInv'
    BY <1>6, <1>7, <1>8, <1>9, <1>10, JournalInvAfter
  <1>12. \A s \in DOMAIN work :
                 \/ s \notin seqs /\ work'[s] = work[s]
                 \/ /\ s \in seqs
                    /\ work[s].disposition = "pending"
                    /\ work'[s].disposition = "reserved"
                    /\ work'[s].attempts = work[s].attempts + 1
                    /\ work'[s].uncertain = work[s].uncertain
    BY <1>2, <1>4, <1>5
  <1>. QED  BY <1>3, <1>5, <1>11, <1>12 DEF seqs

\* What resolve() makes of a reserved row: delivered only on "delivered", failed
\* only when nothing about it is uncertain, and no attempt is given back.
LEMMA ResolvedRowFacts ==
    ASSUME NEW row \in WorkRow, RowValid(row), row.disposition = "reserved",
           NEW result \in Outcome
    PROVE  /\ ResolvedRow(row, result) \in WorkRow
           /\ RowValid(ResolvedRow(row, result))
           /\ ResolvedRow(row, result).disposition # "reserved"
           /\ ResolvedRow(row, result).kind = row.kind
           /\ ResolvedRow(row, result).attempts = row.attempts
           /\ ResolvedRow(row, result).uncertain <=> (row.uncertain \/ result = "unknown")
           /\ (ResolvedRow(row, result).disposition = "delivered") <=> (result = "delivered")
  <1>. DEFINE d == ResolvedDisposition(row, result)
              u == BecomesUncertain(row, result)
              r == IF d = "pending" THEN RetryDelay(row) ELSE 0
              new == ResolvedRow(row, result)
  <1>1. row.attempts \in 0..MaxAttempts /\ row.attempts > 0 /\ row.uncertain \in BOOLEAN
    BY DEF WorkRow, RowValid
  <1>2. u \in BOOLEAN /\ (u <=> (row.uncertain \/ result = "unknown"))
    BY DEF BecomesUncertain
  <1>3. \/ result = "delivered" /\ d = "delivered"
        \/ result # "delivered" /\ row.attempts < MaxAttempts /\ d = "pending"
        \/ /\ result # "delivered" /\ row.attempts = MaxAttempts
           /\ d = IF u THEN "unknown" ELSE "failed"
    BY <1>1, JournalAssumption DEF ResolvedDisposition
  <1>4. r \in 0..2
    BY DEF RetryDelay
  <1>5. new = [row EXCEPT !.disposition = d, !.uncertain = u, !.retry_at = r]
    BY DEF ResolvedRow
  <1>6. d \in Disposition
    BY <1>3 DEF Disposition, Waiting, Settled, Exhausted
  <1>7. d # "pending" => r = 0
    OBVIOUS
  <1>. HIDE DEF d, u, r, new
  <1>8. new \in WorkRow
    BY <1>2, <1>4, <1>5, <1>6 DEF WorkRow, Disposition
  <1>9. /\ new.disposition = d /\ new.uncertain = u /\ new.retry_at = r
        /\ new.kind = row.kind /\ new.binding = row.binding
        /\ new.instance = row.instance /\ new.attempts = row.attempts
    BY <1>5 DEF WorkRow
  <1>10. RowValid(new)
    BY <1>1, <1>2, <1>3, <1>7, <1>9, JournalAssumption DEF RowValid
  <1>11. new.disposition # "reserved" /\ (new.disposition = "delivered" <=> result = "delivered")
    BY <1>3, <1>9
  <1>. QED  BY <1>2, <1>8, <1>9, <1>10, <1>11 DEF new

\* resolve() closes the attempt: its rows are written, the rest is untouched, and
\* rows leave only behind the scan boundary.
LEMMA ResolveFacts ==
    ASSUME JournalInv, NEW result \in Outcome, Resolve(result)
    PROVE  /\ JournalInv'
           /\ attempt' = {}
           /\ seeded' = seeded
           /\ scan <= scan'
           /\ DOMAIN work' \subseteq DOMAIN work
           /\ \A s \in DOMAIN work \ DOMAIN work' : s <= scan'
           /\ \A s \in DOMAIN work' :
                 \/ s \notin attempt /\ work'[s] = work[s]
                 \/ /\ s \in attempt
                    /\ work'[s].attempts = work[s].attempts
                    /\ work'[s].uncertain <=> (work[s].uncertain \/ result = "unknown")
                    /\ (work'[s].disposition = "delivered") <=> (result = "delivered")
  <1>. DEFINE table == [s \in DOMAIN work |->
                           IF s \in attempt THEN ResolvedRow(work[s], result) ELSE work[s]]
              ended(d) == Cardinality({s \in attempt \cap DOMAIN work : table[s].disposition = d})
              c == Count(Count(counters, "failed", ended("failed")), "unknown", ended("unknown"))
  <1>1. TableOK(work) /\ BoundariesOK /\ CountersOK(counters) /\ AttemptValid
        /\ seeded \in BOOLEAN
    BY JournalInvParts
  <1>2. attempt' = {} /\ Advance(table, enumerated, c, {}) /\ UNCHANGED <<imported, seeded>>
    BY DEF Resolve
  <1>3. \A s \in attempt : /\ s \in DOMAIN work
                           /\ work[s] \in WorkRow /\ RowValid(work[s])
                           /\ work[s].disposition = "reserved"
    BY <1>1 DEF AttemptValid, TableOK
  <1>4. DOMAIN table = DOMAIN work /\ table = [s \in DOMAIN table |-> table[s]]
        /\ (\A s \in attempt : table[s] = ResolvedRow(work[s], result))
        /\ (\A s \in DOMAIN work \ attempt : table[s] = work[s])
    BY <1>3
  <1>5. CountersOK(c)
    <2>1. \A d : {s \in attempt \cap DOMAIN work : table[s].disposition = d} \in SUBSET Sequence
      BY <1>1 DEF TableOK
    <2>2. \A d : ended(d) \in Nat
      BY <2>1, SequencesFinite
    <2>. HIDE DEF ended
    <2>3. CountersOK(Count(counters, "failed", ended("failed")))
      BY <1>1, <2>2, CountType DEF Counter
    <2>. QED  BY <2>2, <2>3, CountType DEF Counter
  <1>. HIDE DEF table, c
  <1>6. \A s \in attempt :
            /\ table[s] \in WorkRow /\ RowValid(table[s])
            /\ table[s].disposition # "reserved"
            /\ table[s].attempts = work[s].attempts
            /\ table[s].uncertain <=> (work[s].uncertain \/ result = "unknown")
            /\ (table[s].disposition = "delivered") <=> (result = "delivered")
    BY <1>3, <1>4, ResolvedRowFacts
  <1>7. TableOK(table)
    BY <1>1, <1>4, <1>6 DEF TableOK
  <1>8. enumerated \in 0..MaxSeq /\ scan <= enumerated
    BY <1>1 DEF BoundariesOK
  <1>9. /\ scan' \in scan..enumerated
        /\ enumerated' = enumerated
        /\ DOMAIN work' \subseteq DOMAIN table
        /\ \A s \in DOMAIN work' : work'[s] = table[s]
        /\ \A s \in DOMAIN table \ DOMAIN work' : s <= scan'
        /\ TableOK(work')
        /\ CountersOK(counters')
    BY <1>1, <1>2, <1>5, <1>7, <1>8, AdvanceFacts
  <1>10. AttemptValid'
    <2>1. \A s \in DOMAIN work' : work'[s].disposition # "reserved"
      BY <1>1, <1>4, <1>6, <1>9 DEF AttemptValid
    <2>2. Cardinality({}) = 0
      BY FS_EmptySet
    <2>. QED  BY <1>2, <2>1, <2>2, JournalAssumption DEF AttemptValid
  <1>11. BoundariesOK'
    BY <1>1, <1>2, <1>9, InboxAssumption DEF BoundariesOK
  <1>12. (seeded \in BOOLEAN)'
    BY <1>1, <1>2, Zenon
  <1>13. JournalInv'
    BY <1>9, <1>10, <1>11, <1>12, JournalInvAfter
  <1>14. scan <= scan'
    BY <1>1, <1>9 DEF BoundariesOK
  <1>15. \A s \in DOMAIN work' :
                 \/ s \notin attempt /\ work'[s] = work[s]
                 \/ /\ s \in attempt
                    /\ work'[s].attempts = work[s].attempts
                    /\ work'[s].uncertain <=> (work[s].uncertain \/ result = "unknown")
                    /\ (work'[s].disposition = "delivered") <=> (result = "delivered")
    BY <1>4, <1>6, <1>9
  <1>. QED  BY <1>2, <1>4, <1>9, <1>13, <1>14, <1>15
----------------------------------------------------------------------------
(* What becomes of the rows of work.                                        *)

\* A transaction never changes what a row is; it settles rows it delivers (closed),
\* rows the watermark covers (acked) and rows the snapshot no longer holds
\* (vanished), and only those and rows settled before leave the table.
RowsFollow(closed, acked, vanished) ==
    /\ \A s \in DOMAIN work' \cap DOMAIN work :
          /\ Identity(work'[s]) = Identity(work[s])
          /\ work'[s].disposition \in Settled =>
                \/ work'[s].disposition = work[s].disposition
                \/ work'[s].disposition = "delivered" /\ s \in closed
                \/ work'[s].disposition = "acknowledged" /\ s \in acked
                \/ work'[s].disposition = "obsolete" /\ s \in vanished
    /\ \A s \in DOMAIN work \ DOMAIN work' :
          work[s].disposition \in Settled \/ s \in closed \cup acked \cup vanished

\* The boundaries move forward, and the scan boundary past no waiting row.
BoundaryStep ==
    /\ scan <= scan' /\ enumerated <= enumerated'
    /\ \A s \in DOMAIN work :
          /\ s > scan /\ s <= scan' => s \notin DOMAIN work' \/ work'[s].disposition \notin Waiting
          /\ s \notin DOMAIN work' => s <= scan'

\* The scan boundary stops in front of the first waiting row, and only there.
LEMMA ScanBoundaryStops ==
    ASSUME scan \in 0..MaxSeq, NEW table, DOMAIN table \subseteq Sequence,
           NEW high \in 0..MaxSeq, scan <= high
    PROVE  /\ \A s \in DOMAIN table :
                 s > scan /\ table[s].disposition \in Waiting => s > ScanBoundary(table, high)
           /\ (\A s \in DOMAIN table : s > scan => table[s].disposition \notin Waiting)
                 => ScanBoundary(table, high) = high
  <1>. DEFINE waiting == {s \in DOMAIN table : s > scan /\ table[s].disposition \in Waiting}
  <1>1. CASE waiting = {}
    BY <1>1 DEF ScanBoundary, Larger
  <1>2. CASE waiting # {}
    <2>1. waiting \in SUBSET Nat
      BY DEF Sequence
    <2>2. Min(waiting) \in waiting /\ \A s \in waiting : Min(waiting) <= s
      BY <1>2, <2>1, MinOfNat
    <2>3. Min(waiting) \in Nat /\ Min(waiting) > scan
      BY <2>1, <2>2
    <2>4. ScanBoundary(table, high) < Min(waiting) /\ ScanBoundary(table, high) \in Int
      BY <1>2, <2>3 DEF ScanBoundary, Larger, Smaller
    <2>. HIDE DEF waiting
    <2>5. \A s \in waiting : s > ScanBoundary(table, high)
      BY <2>1, <2>2, <2>3, <2>4
    <2>. QED  BY <2>2, <2>5 DEF waiting
  <1>. QED  BY <1>1, <1>2

\* The same of a whole transaction that ends with advance().
LEMMA AdvanceRows ==
    ASSUME JournalInv, NEW table, TableOK(table), NEW high \in 0..MaxSeq, enumerated <= high,
           NEW c, CountersOK(c), NEW gone, Advance(table, high, c, gone),
           NEW closed, NEW acked, NEW vanished,
           DOMAIN work \subseteq DOMAIN table, gone \subseteq vanished \cap DOMAIN work,
           \A s \in gone : table[s].disposition \notin Waiting,
           \A s \in DOMAIN work :
              /\ Identity(table[s]) = Identity(work[s])
              /\ table[s].disposition \in Settled =>
                    \/ table[s].disposition = work[s].disposition
                    \/ table[s].disposition = "delivered" /\ s \in closed
                    \/ table[s].disposition = "acknowledged" /\ s \in acked
                    \/ table[s].disposition = "obsolete" /\ s \in vanished,
           \A s \in DOMAIN table \ DOMAIN work : table[s].disposition = "pending"
    PROVE  /\ RowsFollow(closed, acked, vanished)
           /\ BoundaryStep
           /\ enumerated' = high
           /\ DOMAIN work' \subseteq DOMAIN table
           /\ DOMAIN table \ DOMAIN work \subseteq DOMAIN work'
           /\ \A s \in DOMAIN work' : work'[s] = table[s]
           /\ \A s \in DOMAIN work' : s <= scan' => work'[s].disposition \notin Settled
           /\ (\A s \in DOMAIN work' : work'[s].disposition \in Settled) => scan' = high
  <1>1. BoundariesOK
    BY JournalInvParts
  <1>2. scan \in 0..MaxSeq /\ scan <= high /\ enumerated \in 0..MaxSeq
    BY <1>1 DEF BoundariesOK
  <1>3. /\ scan' \in scan..high
        /\ enumerated' = high
        /\ DOMAIN work' \subseteq DOMAIN table
        /\ \A s \in DOMAIN work' : work'[s] = table[s]
        /\ \A s \in DOMAIN table \ DOMAIN work' :
              s <= scan' /\ (table[s].disposition \in Settled \/ s \in gone)
    BY <1>1, <1>2, AdvanceFacts
  <1>4. scan' = ScanBoundary(table, high)
    BY DEF Advance
  <1>5. /\ DOMAIN table \subseteq Sequence
        /\ \A s \in DOMAIN table : s \in Nat
    BY DEF TableOK, Sequence
  <1>6. /\ \A s \in DOMAIN table :
                 s > scan /\ table[s].disposition \in Waiting => s > scan'
        /\ (\A s \in DOMAIN table : s > scan => table[s].disposition \notin Waiting)
                 => scan' = high
    BY <1>2, <1>4, <1>5, ScanBoundaryStops
  <1>7. RowsFollow(closed, acked, vanished)
    <2>1. ASSUME NEW s \in DOMAIN work \ DOMAIN work'
          PROVE  work[s].disposition \in Settled \/ s \in closed \cup acked \cup vanished
      BY <1>3
    <2>. QED  BY <1>3, <2>1 DEF RowsFollow
  <1>8. BoundaryStep
    <2>1. scan <= scan' /\ enumerated <= enumerated' /\ scan' \in Nat
      BY <1>2, <1>3
    <2>2. ASSUME NEW s \in DOMAIN work, s > scan, s <= scan', s \in DOMAIN work'
          PROVE  work'[s].disposition \notin Waiting
      BY <1>3, <1>5, <1>6, <2>1, <2>2
    <2>. QED  BY <1>3, <2>1, <2>2 DEF BoundaryStep
  <1>9. DOMAIN table \ DOMAIN work \subseteq DOMAIN work'
    <2>. SUFFICES ASSUME NEW s \in DOMAIN table \ DOMAIN work, s \notin DOMAIN work'
                  PROVE  FALSE
      OBVIOUS
    <2>. QED  BY <1>3 DEF Settled
  <1>10. \A s \in DOMAIN work' : s <= scan' => work'[s].disposition \notin Settled
    <2>1. DOMAIN work' \cap FoldedRows(table, scan') = {}
      BY <1>4 DEF Advance, Restrict
    <2>. QED  BY <1>3, <2>1 DEF FoldedRows
  <1>11. ASSUME \A s \in DOMAIN work' : work'[s].disposition \in Settled
         PROVE  scan' = high
    <2>1. \A s \in DOMAIN table : table[s].disposition \notin Waiting
      BY <1>3, <1>11 DEF Settled, Waiting
    <2>. QED  BY <1>6, <2>1
  <1>. QED  BY <1>3, <1>7, <1>8, <1>9, <1>10, <1>11

\* What reconcile() makes of one row.
LEMMA ReconciledRowFollows ==
    ASSUME NEW view, NEW s \in DOMAIN work, work[s] \in WorkRow
    PROVE  LET row == ReconciledRow(view, s) IN
           /\ Identity(row) = Identity(work[s])
           /\ row.disposition \in Settled =>
                 \/ row.disposition = work[s].disposition
                 \/ row.disposition = "acknowledged" /\ AckCapable /\ s <= view.ack
                 \/ row.disposition = "obsolete" /\ s \notin DOMAIN view.rows
           /\ s \in UnattributedRows(view) => row.disposition = "unknown"
           /\ row.disposition = "pending" =>
                 /\ work[s].disposition = "pending" /\ ~IsAcknowledged(view, s)
                 /\ s \notin ObsoleteRows(view) \cup UnattributedRows(view)
  <1>. DEFINE row == ReconciledRow(view, s)
              acked == s \in Open /\ IsAcknowledged(view, s)
              obsolete == s \in ObsoleteRows(view)
              lost == s \in UnattributedRows(view)
  <1>1. /\ obsolete => ~acked /\ ~lost /\ s \notin DOMAIN view.rows
        /\ lost => ~acked
    BY DEF ObsoleteRows, UnattributedRows, Vanished
  <1>2. row = CASE acked -> [work[s] EXCEPT !.disposition = "acknowledged", !.retry_at = 0]
                [] obsolete -> [work[s] EXCEPT !.disposition = "obsolete", !.retry_at = 0]
                [] lost -> [work[s] EXCEPT !.disposition = "unknown", !.retry_at = 0,
                                           !.uncertain = TRUE]
                [] OTHER -> work[s]
    BY DEF ReconciledRow
  <1>3. acked => AckCapable /\ s <= view.ack
    BY DEF IsAcknowledged
  <1>4. work[s].disposition = "pending" => (acked <=> IsAcknowledged(view, s))
    BY DEF Open, Settled
  <1>. HIDE DEF row, acked, obsolete, lost
  <1>5. CASE acked
    <2>1. row = [work[s] EXCEPT !.disposition = "acknowledged", !.retry_at = 0]
      BY <1>1, <1>2, <1>5
    <2>2. row.disposition = "acknowledged" /\ row.kind = work[s].kind
          /\ row.binding = work[s].binding /\ row.instance = work[s].instance
      BY <2>1 DEF WorkRow
    <2>. QED  BY <1>1, <1>3, <1>5, <2>2 DEF Identity, row, lost
  <1>6. CASE obsolete
    <2>1. row = [work[s] EXCEPT !.disposition = "obsolete", !.retry_at = 0]
      BY <1>1, <1>2, <1>6
    <2>2. row.disposition = "obsolete" /\ row.kind = work[s].kind
          /\ row.binding = work[s].binding /\ row.instance = work[s].instance
      BY <2>1 DEF WorkRow
    <2>. QED  BY <1>1, <1>6, <2>2 DEF Identity, row, lost
  <1>7. CASE lost
    <2>1. row = [work[s] EXCEPT !.disposition = "unknown", !.retry_at = 0, !.uncertain = TRUE]
      BY <1>1, <1>2, <1>7
    <2>2. row.disposition = "unknown" /\ row.kind = work[s].kind
          /\ row.binding = work[s].binding /\ row.instance = work[s].instance
      BY <2>1 DEF WorkRow
    <2>. QED  BY <1>7, <2>2 DEF Identity, row, Settled
  <1>8. CASE ~acked /\ ~obsolete /\ ~lost
    <2>1. row = work[s]
      BY <1>2, <1>8
    <2>. QED  BY <1>4, <1>8, <2>1 DEF row, obsolete, lost
  <1>. QED  BY <1>5, <1>6, <1>7, <1>8

\* reconcile(): a row is settled because the watermark covers it or the snapshot no
\* longer holds it, and what is left to send is in the snapshot and not acknowledged.
LEMMA ReconcileRows ==
    ASSUME JournalInv, NEW view, Reconcile(view)
    PROVE  /\ RowsFollow({}, {s \in DOMAIN work : AckCapable /\ s <= view.ack},
                         DOMAIN work \ DOMAIN view.rows)
           /\ BoundaryStep
           /\ enumerated' = enumerated
           /\ DOMAIN work' \subseteq DOMAIN work
           /\ \A s \in Ready' : s \in DOMAIN view.rows /\ ~IsAcknowledged(view, s)
           /\ \A s \in DOMAIN work' : s <= scan' => work'[s].disposition \notin Settled
           /\ (\A s \in DOMAIN work' : work'[s].disposition \in Settled) => scan' = enumerated'
  <1>. DEFINE table == [s \in DOMAIN work |-> ReconciledRow(view, s)]
              lost == {s \in UnattributedRows(view) : work[s].disposition # "unknown"}
              c == Count(counters, "unknown", Cardinality(lost))
              gone == UnattributedRows(view)
              acked == {s \in DOMAIN work : AckCapable /\ s <= view.ack}
              vanished == DOMAIN work \ DOMAIN view.rows
  <1>1. TableOK(work) /\ BoundariesOK /\ CountersOK(counters) /\ AttemptValid
    BY JournalInvParts
  <1>2. attempt = {} /\ Advance(table, enumerated, c, gone) /\ ~SourceMissing(view)
    BY DEF Reconcile
  <1>3. \A s \in DOMAIN work : work[s].disposition # "reserved"
    BY <1>1, <1>2 DEF AttemptValid
  <1>4. \A s \in DOMAIN work : table[s] \in WorkRow /\ RowValid(table[s])
    BY <1>1, <1>3, ReconciledRowFacts DEF TableOK
  <1>5. CountersOK(c)
    <2>1. lost \in SUBSET Sequence
      BY <1>1 DEF UnattributedRows, Vanished, Open, TableOK
    <2>2. Cardinality(lost) \in Nat
      BY <2>1, SequencesFinite
    <2>. HIDE DEF lost
    <2>. QED  BY <1>1, <2>2, CountType DEF Counter
  <1>6. DOMAIN table = DOMAIN work /\ table = [s \in DOMAIN table |-> table[s]]
    OBVIOUS
  <1>7. \A s \in DOMAIN work :
            /\ Identity(table[s]) = Identity(work[s])
            /\ table[s].disposition \in Settled =>
                  \/ table[s].disposition = work[s].disposition
                  \/ table[s].disposition = "acknowledged" /\ s \in acked
                  \/ table[s].disposition = "obsolete" /\ s \in vanished
            /\ s \in gone => table[s].disposition = "unknown"
            /\ table[s].disposition = "pending" =>
                  /\ work[s].disposition = "pending" /\ ~IsAcknowledged(view, s)
                  /\ s \notin ObsoleteRows(view) \cup UnattributedRows(view)
    <2>. SUFFICES ASSUME NEW s \in DOMAIN work
                  PROVE  LET row == ReconciledRow(view, s) IN
                         /\ Identity(row) = Identity(work[s])
                         /\ row.disposition \in Settled =>
                               \/ row.disposition = work[s].disposition
                               \/ row.disposition = "acknowledged" /\ s \in acked
                               \/ row.disposition = "obsolete" /\ s \in vanished
                         /\ s \in gone => row.disposition = "unknown"
                         /\ row.disposition = "pending" =>
                               /\ work[s].disposition = "pending" /\ ~IsAcknowledged(view, s)
                               /\ s \notin ObsoleteRows(view) \cup UnattributedRows(view)
      OBVIOUS
    <2>1. work[s] \in WorkRow
      BY <1>1 DEF TableOK
    <2>. QED  BY <2>1, ReconciledRowFollows
  <1>8. gone \subseteq vanished \cap DOMAIN work
    BY DEF UnattributedRows, Vanished, Open
  <1>. HIDE DEF table, c
  <1>9. TableOK(table)
    BY <1>1, <1>4, <1>6 DEF TableOK
  <1>10. enumerated \in 0..MaxSeq /\ enumerated <= enumerated
    BY <1>1, InboxAssumption DEF BoundariesOK
  <1>11. \A s \in gone : table[s].disposition \notin Waiting
    BY <1>7, <1>8 DEF Waiting
  <1>. HIDE DEF gone, acked, vanished
  <1>12. /\ RowsFollow({}, acked, vanished)
         /\ BoundaryStep
         /\ enumerated' = enumerated
         /\ DOMAIN work' \subseteq DOMAIN work
         /\ \A s \in DOMAIN work' : work'[s] = table[s]
         /\ \A s \in DOMAIN work' : s <= scan' => work'[s].disposition \notin Settled
         /\ (\A s \in DOMAIN work' : work'[s].disposition \in Settled) => scan' = enumerated
    BY SMTT(30), <1>2, <1>5, <1>6, <1>7, <1>8, <1>9, <1>10, <1>11, AdvanceRows
  <1>13. ASSUME NEW s \in Ready'
         PROVE  s \in DOMAIN view.rows /\ ~IsAcknowledged(view, s)
    <2>1. /\ s \in DOMAIN work' /\ work'[s].disposition = "pending"
          /\ PointerCapable \/ work'[s].kind = "peer"
      BY DEF Ready
    <2>2. /\ s \in DOMAIN work /\ work[s].disposition = "pending" /\ ~IsAcknowledged(view, s)
          /\ s \notin ObsoleteRows(view) \cup UnattributedRows(view)
          /\ work'[s].kind = work[s].kind
      BY <1>7, <1>12, <2>1 DEF Identity
    <2>3. work[s].kind \in {"peer", "memory-pointer"}
      BY <1>1, <2>2 DEF TableOK, WorkRow
    <2>4. s \in Open
      BY <2>2 DEF Open, Settled
    <2>. QED  BY <1>2, <2>1, <2>2, <2>3, <2>4
              DEF SourceMissing, Vanished, ObsoleteRows, UnattributedRows
  <1>. QED  BY <1>12, <1>13 DEF acked, vanished

\* resolve(): nothing but a call reported as delivered is settled.
LEMMA ResolveRows ==
    ASSUME JournalInv, NEW result \in Outcome, Resolve(result)
    PROVE  /\ RowsFollow(IF result = "delivered" THEN attempt ELSE {}, {}, {})
           /\ BoundaryStep
           /\ enumerated' = enumerated
           /\ DOMAIN work' \subseteq DOMAIN work
  <1>. DEFINE table == [s \in DOMAIN work |->
                           IF s \in attempt THEN ResolvedRow(work[s], result) ELSE work[s]]
              ended(d) == Cardinality({s \in attempt \cap DOMAIN work : table[s].disposition = d})
              c == Count(Count(counters, "failed", ended("failed")), "unknown", ended("unknown"))
              closed == IF result = "delivered" THEN attempt ELSE {}
  <1>1. TableOK(work) /\ BoundariesOK /\ CountersOK(counters) /\ AttemptValid
    BY JournalInvParts
  <1>2. Advance(table, enumerated, c, {})
    BY DEF Resolve
  <1>3. \A s \in attempt : /\ s \in DOMAIN work
                           /\ work[s] \in WorkRow /\ RowValid(work[s])
                           /\ work[s].disposition = "reserved"
    BY <1>1 DEF AttemptValid, TableOK
  <1>4. DOMAIN table = DOMAIN work /\ table = [s \in DOMAIN table |-> table[s]]
        /\ (\A s \in attempt : table[s] = ResolvedRow(work[s], result))
        /\ (\A s \in DOMAIN work \ attempt : table[s] = work[s])
    BY <1>3
  <1>5. CountersOK(c)
    <2>1. \A d : {s \in attempt \cap DOMAIN work : table[s].disposition = d} \in SUBSET Sequence
      BY <1>1 DEF TableOK
    <2>2. \A d : ended(d) \in Nat
      BY <2>1, SequencesFinite
    <2>. HIDE DEF ended
    <2>3. CountersOK(Count(counters, "failed", ended("failed")))
      BY <1>1, <2>2, CountType DEF Counter
    <2>. QED  BY <2>2, <2>3, CountType DEF Counter
  <1>. HIDE DEF table, c
  <1>6. ASSUME NEW s \in attempt
        PROVE  /\ table[s] \in WorkRow /\ RowValid(table[s])
               /\ Identity(table[s]) = Identity(work[s])
               /\ table[s].disposition \in Settled => table[s].disposition = "delivered" /\ s \in closed
    <2>. DEFINE row == work[s]
                d == ResolvedDisposition(row, result)
                u == BecomesUncertain(row, result)
                r == IF d = "pending" THEN RetryDelay(row) ELSE 0
    <2>1. row \in WorkRow /\ RowValid(row) /\ row.disposition = "reserved"
          /\ table[s] = ResolvedRow(row, result)
      BY <1>3, <1>4
    <2>2. table[s] = [row EXCEPT !.disposition = d, !.uncertain = u, !.retry_at = r]
      BY <2>1 DEF ResolvedRow
    <2>3. d \in Settled => d = "delivered" /\ result = "delivered"
      BY DEF ResolvedDisposition, Settled
    <2>. HIDE DEF d, u, r, row
    <2>4. table[s].disposition = d /\ table[s].kind = row.kind /\ table[s].binding = row.binding
          /\ table[s].instance = row.instance
      BY <2>1, <2>2 DEF WorkRow
    <2>5. table[s] \in WorkRow /\ RowValid(table[s])
      BY <2>1, ResolvedRowFacts
    <2>6. Identity(table[s]) = Identity(work[s])
      BY <2>4 DEF row, Identity
    <2>. QED  BY <2>3, <2>4, <2>5, <2>6
  <1>7. TableOK(table)
    BY <1>1, <1>4, <1>6 DEF TableOK
  <1>8. enumerated \in 0..MaxSeq /\ enumerated <= enumerated
    BY <1>1, InboxAssumption DEF BoundariesOK
  <1>. HIDE DEF closed
  <1>9. \A s \in DOMAIN work :
              /\ Identity(table[s]) = Identity(work[s])
              /\ table[s].disposition \in Settled =>
                    \/ table[s].disposition = work[s].disposition
                    \/ table[s].disposition = "delivered" /\ s \in closed
    BY <1>4, <1>6
  <1>10. /\ RowsFollow(closed, {}, {})
         /\ BoundaryStep
         /\ enumerated' = enumerated
         /\ DOMAIN work' \subseteq DOMAIN work
    BY <1>2, <1>4, <1>5, <1>7, <1>8, <1>9, AdvanceRows
  <1>. QED  BY <1>10 DEF closed

\* seed_pointers(): no row changes, every record that was not known becomes a row.
LEMMA SeedRows ==
    ASSUME JournalInv, NEW records, RecordsOK(records), SeedPointers(records)
    PROVE  /\ RowsFollow({}, {}, {})
           /\ BoundaryStep
           /\ enumerated' = enumerated
           /\ DOMAIN work \subseteq DOMAIN work'
           /\ DOMAIN records \subseteq DOMAIN work'
           /\ \A s \in DOMAIN work' \ DOMAIN work :
                 s \in DOMAIN records /\ work'[s] = NewWork(records[s])
  <1>1. work' = WithAdmitted(records, TRUE)
        /\ UNCHANGED <<imported, scan, enumerated, attempt, counters>>
    BY DEF SeedPointers
  <1>2. /\ DOMAIN work' = DOMAIN work \cup (DOMAIN records \ DOMAIN work)
        /\ \A s \in DOMAIN work : work'[s] = work[s]
        /\ \A s \in DOMAIN work' \ DOMAIN work : work'[s] = NewWork(records[s])
    BY <1>1 DEF WithAdmitted, Admitted, Admissible
  <1>3. scan \in Nat /\ enumerated \in Nat
    BY JournalInvParts DEF BoundariesOK
  <1>4. \A s \in DOMAIN work : s \in Nat
    BY JournalInvParts DEF TableOK, Sequence
  <1>5. BoundaryStep
    <2>1. DOMAIN work \subseteq DOMAIN work' /\ scan' = scan /\ enumerated' = enumerated
      BY <1>1, <1>2
    <2>. QED  BY <1>3, <1>4, <2>1 DEF BoundaryStep
  <1>. QED  BY <1>1, <1>2, <1>5 DEF RowsFollow

\* ingest(): no row changes, every record behind which the scan boundary has not
\* moved is a row or was one.
LEMMA IngestRows ==
    ASSUME JournalInv, NEW records, RecordsOK(records),
           NEW ignored \in SUBSET Sequence, NEW through \in 0..MaxSeq,
           Ingest(records, ignored, through)
    PROVE  /\ RowsFollow({}, {}, {})
           /\ BoundaryStep
           /\ enumerated' = Larger(enumerated, through)
           /\ \A s \in DOMAIN records : s > scan => s \in DOMAIN work \cup DOMAIN work'
           /\ \A s \in DOMAIN work' \ DOMAIN work :
                 s \in DOMAIN records /\ s > scan /\ work'[s] = NewWork(records[s])
  <1>. DEFINE table == WithAdmitted(records, FALSE)
              high == Larger(enumerated, through)
              c == Count(counters, "ignored", Cardinality({s \in ignored : s > enumerated}))
  <1>1. TableOK(work) /\ BoundariesOK /\ CountersOK(counters)
    BY JournalInvParts
  <1>2. ~OverCapacity(records, FALSE) /\ Advance(table, high, c, {})
    BY DEF Ingest
  <1>3. /\ TableOK(table)
        /\ DOMAIN work \subseteq DOMAIN table
        /\ \A s \in DOMAIN work : table[s] = work[s]
        /\ \A s \in DOMAIN table \ DOMAIN work : table[s].disposition = "pending"
    BY <1>1, <1>2, AdmissionFacts
  <1>4. /\ DOMAIN table = DOMAIN work \cup ({s \in DOMAIN records : s > scan} \ DOMAIN work)
        /\ \A s \in DOMAIN table \ DOMAIN work : table[s] = NewWork(records[s])
    BY DEF WithAdmitted, Admitted, Admissible
  <1>5. high \in 0..MaxSeq /\ enumerated <= high
    BY <1>1 DEF BoundariesOK, Larger
  <1>6. CountersOK(c)
    <2>1. {s \in ignored : s > enumerated} \in SUBSET Sequence
      OBVIOUS
    <2>2. Cardinality({s \in ignored : s > enumerated}) \in Nat
      BY <2>1, SequencesFinite
    <2>. QED  BY <1>1, <2>2, CountType DEF Counter
  <1>. HIDE DEF table, high, c
  <1>7. /\ RowsFollow({}, {}, {})
        /\ BoundaryStep
        /\ enumerated' = high
        /\ DOMAIN work' \subseteq DOMAIN table
        /\ DOMAIN table \ DOMAIN work \subseteq DOMAIN work'
        /\ \A s \in DOMAIN work' : work'[s] = table[s]
    BY <1>2, <1>3, <1>5, <1>6, AdvanceRows
  <1>. QED  BY <1>4, <1>7 DEF high

\* Transactions that touch no boundary and settle nothing.
LEMMA StillRows ==
    ASSUME JournalInv, UNCHANGED <<scan, enumerated>>, DOMAIN work' = DOMAIN work,
           \A s \in DOMAIN work :
              /\ Identity(work'[s]) = Identity(work[s])
              /\ work'[s].disposition \in Settled => work'[s].disposition = work[s].disposition
    PROVE  RowsFollow({}, {}, {}) /\ BoundaryStep
  <1>1. scan \in Nat /\ enumerated \in Nat
    BY JournalInvParts DEF BoundariesOK
  <1>2. \A s \in DOMAIN work : s \in Nat
    BY JournalInvParts DEF TableOK, Sequence
  <1>. QED  BY <1>1, <1>2 DEF RowsFollow, BoundaryStep

\* retry(), reserve(), the passing of time and the reset of the counters are such.
LEMMA RetryRows ==
    ASSUME JournalInv, NEW seqs, Retry(seqs)
    PROVE  RowsFollow({}, {}, {}) /\ BoundaryStep /\ enumerated' = enumerated
  <1>1. /\ work' = [s \in DOMAIN work |-> IF s \in seqs THEN RetriedRow(work[s]) ELSE work[s]]
        /\ UNCHANGED <<scan, enumerated>>
    BY DEF Retry
  <1>2. \A s \in DOMAIN work : work[s] \in WorkRow
    BY JournalInvParts DEF TableOK
  <1>3. \A s \in DOMAIN work :
            /\ Identity(work'[s]) = Identity(work[s])
            /\ work'[s].disposition \in Settled => work'[s].disposition = work[s].disposition
    BY <1>1, <1>2 DEF RetriedRow, WorkRow, Identity, Settled
  <1>. QED  BY <1>1, <1>3, StillRows

\* The same of reserve().
LEMMA ReserveRows ==
    ASSUME JournalInv, NEW seqs, Reserve(seqs)
    PROVE  RowsFollow({}, {}, {}) /\ BoundaryStep /\ enumerated' = enumerated
  <1>1. /\ work' = [s \in DOMAIN work |-> IF s \in seqs THEN ReservedRow(work[s]) ELSE work[s]]
        /\ UNCHANGED <<scan, enumerated>>
    BY DEF Reserve
  <1>2. \A s \in DOMAIN work : work[s] \in WorkRow
    BY JournalInvParts DEF TableOK
  <1>3. \A s \in DOMAIN work :
            /\ Identity(work'[s]) = Identity(work[s])
            /\ work'[s].disposition \in Settled => work'[s].disposition = work[s].disposition
    BY <1>1, <1>2 DEF ReservedRow, WorkRow, Identity, Settled
  <1>. QED  BY <1>1, <1>3, StillRows

\* Time only shortens what a row waits, and what is ready stays the same set.
LEMMA ElapseRows ==
    ASSUME JournalInv, Elapse
    PROVE  /\ RowsFollow({}, {}, {}) /\ BoundaryStep /\ enumerated' = enumerated
           /\ DOMAIN work' = DOMAIN work /\ Ready' = Ready
  <1>1. /\ work' = [s \in DOMAIN work |->
                       [work[s] EXCEPT !.retry_at = IF @ > 0 THEN @ - 1 ELSE 0]]
        /\ UNCHANGED <<scan, enumerated>>
    BY DEF Elapse
  <1>2. \A s \in DOMAIN work : work[s] \in WorkRow
    BY JournalInvParts DEF TableOK
  <1>3. \A s \in DOMAIN work :
            /\ work'[s].kind = work[s].kind /\ work'[s].binding = work[s].binding
            /\ work'[s].instance = work[s].instance
            /\ work'[s].disposition = work[s].disposition
    BY <1>1, <1>2 DEF WorkRow
  <1>4. Ready' = Ready
    BY <1>1, <1>3 DEF Ready
  <1>5. \A s \in DOMAIN work :
            /\ Identity(work'[s]) = Identity(work[s])
            /\ work'[s].disposition \in Settled => work'[s].disposition = work[s].disposition
    BY <1>3 DEF Identity
  <1>. QED  BY <1>1, <1>4, <1>5, StillRows

\* due() takes the first rows that are ready: none that is left behind precedes one
\* that is taken.
LEMMA DueComesFirst ==
    ASSUME TableOK(work), NEW s \in Due, NEW t \in Ready \ Due
    PROVE  s < t
  <1>1. Due \subseteq Ready /\ Ready \in SUBSET Sequence
    BY DEF Due, Ready, TableOK
  <1>2. s \in Nat /\ t \in Nat /\ s \in Ready /\ t \in Ready
    BY <1>1 DEF Sequence
  <1>3. CASE \A u \in Ready : s <= u
    <2>1. s # t
      OBVIOUS
    <2>. QED  BY <1>2, <1>3, <2>1
  <1>4. CASE /\ \A u \in Ready : u <= s => Sendable(u)
             /\ Cardinality({u \in Ready : u <= s}) <= MaxMembers
    <2>. SUFFICES ASSUME t <= s PROVE FALSE
      BY <1>2
    <2>. DEFINE S == {u \in Ready : u <= s}
                T == {u \in Ready : u <= t}
    <2>1. \A u \in Ready : u \in Nat
      BY <1>1 DEF Sequence
    <2>2. T \in SUBSET S /\ S \in SUBSET Sequence
      <3>1. \A u \in Ready : u <= t => u <= s
        BY <1>2, <2>1
      <3>. QED  BY <1>1, <3>1
    <2>3. Cardinality(T) <= Cardinality(S) /\ Cardinality(T) \in Nat /\ Cardinality(S) \in Nat
      BY <2>2, SequencesFinite
    <2>4. Cardinality(T) <= MaxMembers
      BY <1>4, <2>3, JournalAssumption
    <2>5. \A u \in Ready : u <= t => Sendable(u)
      BY <1>2, <1>4, <2>1
    <2>. QED  BY <1>2, <2>4, <2>5 DEF Due
  <1>. QED  BY <1>3, <1>4 DEF Due
-----------------------------------------------------------------------------
(* The notifier.                                                              *)

\* Nothing was ever sent for a row.
Clean(s) == calls[s] = 0 /\ s \notin accepted /\ s \notin done

\* A row that may still be admitted is clean: a row that was sent stays in the
\* table until the scan boundary has passed it, and before the pointers are
\* seeded nothing was sent at all.
AdmitsClean ==
    /\ \A s \in Sequence \ DOMAIN work : s > scan => Clean(s)
    /\ ~seeded => \A s \in Sequence : Clean(s)

\* A call is paid for before it is made.
CallsArePaid ==
    /\ \A s \in DOMAIN work : calls[s] <= work[s].attempts
    /\ pc = "render" => \A s \in attempt : calls[s] < work[s].attempts
    /\ CallBudget

\* A row whose notice may have been handed over is uncertain, or settled, or its
\* call has not been resolved yet and cannot resolve as failed.
AcceptedIsVisible ==
    \A s \in accepted \cap DOMAIN work :
        \/ work[s].uncertain
        \/ work[s].disposition \in Settled
        \/ /\ s \in attempt
           /\ pc \notin {"render", "deliver"}
           /\ pc = "resolve" => outcome # "failed"

Ghosts == AdmitsClean /\ CallsArePaid /\ AcceptedIsVisible /\ NoResendAfterDelivered

\* Who may touch the journal when.
TurnsOK ==
    /\ op # "none" => pc \in Boundary /\ attempt = {}
    /\ pc = "off" => ~seeded
    /\ pc = "resolve" => outcome \in Outcome

LoopTypeOK ==
    /\ pc \in {"off", "idle"} \cup Step
    /\ outcome \in Outcome \cup {"none"}
    /\ started \in BOOLEAN
    /\ unresolved \in BOOLEAN
    /\ fault \in {"none", "provider", "render"}
    /\ blocked \in BOOLEAN
    /\ op \in {"none", "reconcile", "retry"}
    /\ retrying \subseteq Sequence
    /\ faults \in 0..MaxFaults
    /\ retries \in 0..MaxRetries

GhostTypeOK ==
    /\ accepted \subseteq Sequence
    /\ done \subseteq Sequence
    /\ calls \in [Sequence -> Nat]

\* The inductive invariant.
NotifierInv ==
    /\ InboxInv
    /\ JournalInv
    /\ LoopTypeOK
    /\ GhostTypeOK
    /\ SnapshotOK(snap)
    /\ TurnsOK
    /\ Ghosts

\* The invariant is more than the types.
LEMMA NotifierInvTypes == NotifierInv => NotifierTypeOK
  BY DEF NotifierInv, NotifierTypeOK, LoopTypeOK, GhostTypeOK, InboxInv, JournalInv

\* The invariant of the state a step leaves behind, from its parts.
LEMMA NotifierInvAfter ==
    ASSUME InboxInv', JournalInv', LoopTypeOK', GhostTypeOK', SnapshotOK(snap'), TurnsOK',
           Ghosts'
    PROVE  NotifierInv'
  <1>1. (SnapshotOK(snap))'
    BY DEF SnapshotOK
  <1>. QED  BY <1>1 DEF NotifierInv

\* A step of the notifier leaves the inbox alone.
LEMMA InboxUnchanged ==
    ASSUME InboxInv, UNCHANGED inboxVars
    PROVE  InboxInv'
  BY InboxInvNext

\* What a read-only snapshot of the bridge's inbox guarantees.
LEMMA SnapshotIsOK ==
    ASSUME InboxInv
    PROVE  SnapshotOK(Snapshot) /\ SnapshotOK(NoSnapshot)
  <1>1. SnapshotOK(NoSnapshot)
    BY DEF SnapshotOK, NoSnapshot
  <1>2. /\ DOMAIN inbox \subseteq Sequence
        /\ ack \in Nat
    BY InboxAssumption DEF InboxInv, InboxTypeOK, Sequence
  <1>3. \A s \in DOMAIN inbox :
            /\ inbox[s] \in InboxRow
            /\ inbox[s].kind = "memory-pointer" =>
                  inbox[s].binding \in Binding /\ inbox[s].instance # 0
    BY DEF InboxInv, InboxTypeOK, PointersAreCurrent, Bound
  <1>4. Snapshot.rows = inbox /\ Snapshot.ack = ack
    BY DEF Snapshot
  <1>5. SnapshotOK(Snapshot)
    BY <1>2, <1>3, <1>4 DEF SnapshotOK
  <1>. QED  BY <1>1, <1>5

\* A transaction that sends nothing keeps the account of what was sent, wherever it
\* leaves the loop but in front of or inside a call.
LEMMA QuietKeepsGhosts ==
    ASSUME NotifierInv, JournalInv', QuietStep, UNCHANGED ghostVars,
           \/ pc' \notin {"render", "deliver", "resolve"}
           \/ pc' = pc /\ outcome' = outcome
    PROVE  Ghosts' /\ GhostTypeOK'
  <1>1. AdmitsClean /\ CallsArePaid /\ AcceptedIsVisible /\ NoResendAfterDelivered
        /\ GhostTypeOK
    BY DEF NotifierInv, Ghosts
  <1>2. accepted' = accepted /\ done' = done /\ calls' = calls
    BY DEF ghostVars
  <1>3. /\ attempt' = attempt /\ (seeded => seeded') /\ scan <= scan'
        /\ \A s \in DOMAIN work \ DOMAIN work' : s <= scan'
        /\ \A s \in DOMAIN work' \cap DOMAIN work : Kept(work[s], work'[s])
        /\ \A s \in DOMAIN work' \ DOMAIN work : s > scan \/ ~seeded
    BY DEF QuietStep
  <1>4. /\ DOMAIN work \subseteq Sequence /\ DOMAIN work' \subseteq Sequence
        /\ scan \in Nat /\ scan' \in Nat
        /\ \A s \in DOMAIN work' : work'[s] \in WorkRow
        /\ attempt \subseteq DOMAIN work
    BY DEF NotifierInv, JournalInv, JournalTypeOK, JournalValid, AttemptValid
  <1>5. \A s \in DOMAIN work' \ DOMAIN work : Clean(s)
    BY <1>1, <1>3, <1>4 DEF AdmitsClean
  <1>6. \A s : Clean(s) => Clean(s)'
    BY <1>2 DEF Clean
  <1>7. AdmitsClean'
    <2>1. ASSUME NEW s \in Sequence \ DOMAIN work', s > scan' PROVE Clean(s)'
      <3>1. s \in Nat
        BY DEF Sequence
      <3>2. s \notin DOMAIN work
        BY <1>3, <1>4, <2>1, <3>1
      <3>3. s > scan
        BY <1>3, <1>4, <2>1, <3>1
      <3>. QED  BY <1>1, <1>6, <3>2, <3>3 DEF AdmitsClean
    <2>2. ASSUME ~seeded', NEW s \in Sequence PROVE Clean(s)'
      BY <1>1, <1>3, <1>6, <2>2 DEF AdmitsClean
    <2>. QED  BY <2>1, <2>2 DEF AdmitsClean
  <1>8. CallsArePaid'
    <2>1. ASSUME NEW s \in DOMAIN work' PROVE calls[s] <= work'[s].attempts
      <3>1. CASE s \in DOMAIN work
        BY <1>1, <1>3, <3>1 DEF CallsArePaid, Kept
      <3>2. CASE s \notin DOMAIN work
        <4>1. work'[s].attempts \in Nat /\ work'[s].attempts >= 0
          BY <1>4 DEF WorkRow
        <4>. QED  BY <1>5, <3>2, <4>1 DEF Clean
      <3>. QED  BY <3>1, <3>2
    <2>2. ASSUME pc' = "render", NEW s \in attempt PROVE calls[s] < work'[s].attempts
      <3>1. pc = "render" /\ s \in DOMAIN work
        BY <1>4, <2>2
      <3>2. s \in DOMAIN work'
        BY <1>3 DEF JournalInv, JournalValid, AttemptValid
      <3>. QED  BY <1>1, <1>3, <3>1, <3>2 DEF CallsArePaid, Kept
    <2>3. CallBudget'
      BY <1>1, <1>2 DEF CallsArePaid, CallBudget
    <2>. QED  BY <1>2, <1>3, <2>1, <2>2, <2>3 DEF CallsArePaid
  <1>9. AcceptedIsVisible'
    <2>. SUFFICES ASSUME NEW s \in accepted \cap DOMAIN work'
                  PROVE  \/ work'[s].uncertain
                         \/ work'[s].disposition \in Settled
                         \/ /\ s \in attempt'
                            /\ pc' \notin {"render", "deliver"}
                            /\ pc' = "resolve" => outcome' # "failed"
      BY <1>2 DEF AcceptedIsVisible
    <2>1. s \in DOMAIN work /\ Kept(work[s], work'[s])
      BY <1>3, <1>5 DEF Clean
    <2>. QED  BY <1>1, <1>3, <2>1 DEF AcceptedIsVisible, Kept
  <1>10. NoResendAfterDelivered'
    BY <1>1, <1>2, <1>3, <1>5 DEF NoResendAfterDelivered, Kept, Clean, Settled
  <1>11. GhostTypeOK'
    BY <1>1, <1>2 DEF GhostTypeOK
  <1>. QED  BY <1>7, <1>8, <1>9, <1>10, <1>11 DEF Ghosts
----------------------------------------------------------------------------
(* Steps of the loop that send nothing.                                     *)

\* step() returns or raises, and the journal is as it was.
LEMMA ReturnKeepsInv ==
    ASSUME NotifierInv, NEW still \in BOOLEAN, Return(still),
           UNCHANGED <<inboxVars, journalVars, started, operatorVars, ghostVars>>,
           fault' \in {"none", "provider", "render"}, blocked' \in BOOLEAN,
           faults' \in 0..MaxFaults
    PROVE  NotifierInv'
  <1>1. InboxInv /\ JournalInv /\ LoopTypeOK /\ TurnsOK
    BY DEF NotifierInv
  <1>2. /\ pc' = "idle" /\ snap' = NoSnapshot /\ outcome' = "none" /\ unresolved' = still
        /\ started' = started /\ op' = op /\ retrying' = retrying /\ retries' = retries
    BY DEF Return, operatorVars
  <1>3. InboxInv' /\ SnapshotOK(snap')
    BY <1>1, <1>2, InboxUnchanged, SnapshotIsOK
  <1>4. JournalInv' /\ QuietStep
    BY <1>1, JournalUnchanged
  <1>5. LoopTypeOK'
    BY <1>1, <1>2 DEF LoopTypeOK, Step
  <1>6. TurnsOK'
    BY <1>1, <1>2, <1>4 DEF TurnsOK, Boundary, QuietStep
  <1>7. Ghosts' /\ GhostTypeOK'
    BY <1>2, <1>4, QuietKeepsGhosts
  <1>. QED  BY <1>3, <1>4, <1>5, <1>6, <1>7, NotifierInvAfter

\* The loop goes on to a step outside the call, with a snapshot or without one.
LEMMA GoToKeepsInv ==
    ASSUME NotifierInv, NEW place \in Step \ {"render", "deliver", "resolve"},
           NEW view, SnapshotOK(view), GoTo(place, view), op = "none",
           JournalInv', QuietStep, started' \in BOOLEAN, unresolved' \in BOOLEAN, LoopOnly
    PROVE  NotifierInv'
  <1>1. InboxInv /\ LoopTypeOK
    BY DEF NotifierInv
  <1>2. /\ pc' = place /\ snap' = view /\ outcome' = outcome /\ fault' = fault
        /\ blocked' = blocked /\ op' = op /\ retrying' = retrying /\ retries' = retries
        /\ faults' = faults /\ UNCHANGED inboxVars /\ UNCHANGED ghostVars
    BY DEF GoTo, LoopOnly, operatorVars
  <1>3. InboxInv'
    BY <1>1, <1>2, InboxUnchanged
  <1>4. LoopTypeOK'
    BY <1>1, <1>2 DEF LoopTypeOK
  <1>5. TurnsOK'
    BY <1>2 DEF TurnsOK, Step
  <1>6. Ghosts' /\ GhostTypeOK'
    BY <1>2, QuietKeepsGhosts
  <1>. QED  BY <1>2, <1>3, <1>4, <1>5, <1>6, NotifierInvAfter

\* An error of a step: nothing is committed.
LEMMA ErrorKeepsInv ==
    ASSUME NotifierInv, Failed \/ Refused, UNCHANGED <<inboxVars, operatorVars, ghostVars>>,
           faults' \in 0..MaxFaults
    PROVE  NotifierInv'
  <1>1. LoopTypeOK
    BY DEF NotifierInv
  <1>2. /\ Return(unresolved) /\ unresolved \in BOOLEAN
        /\ fault' \in {"none", "provider", "render"} /\ blocked' \in BOOLEAN
        /\ UNCHANGED <<inboxVars, journalVars, started, operatorVars, ghostVars>>
    BY <1>1 DEF Failed, Refused, LoopTypeOK
  <1>. QED  BY <1>2, ReturnKeepsInv

\* Outside the boundaries of the worker's jobs no operator request is running.
LEMMA JobRunsAlone ==
    ASSUME NotifierInv, pc \in {"off", "seed", "reconcile", "ingest", "recheck", "reserve"}
    PROVE  op = "none"
  BY DEF NotifierInv, TurnsOK, Boundary

\* LoopOnly leaves the fault budget in range.
LEMMA LoopOnlyFacts ==
    ASSUME NotifierInv, LoopOnly
    PROVE  UNCHANGED <<inboxVars, operatorVars, ghostVars>> /\ faults' \in 0..MaxFaults
  BY DEF NotifierInv, LoopTypeOK, LoopOnly

\* ready() seeds the pointers, or refuses to.
LEMMA SeedKeepsInv ==
    ASSUME NotifierInv, Seed
    PROVE  NotifierInv'
  <1>1. InboxInv /\ JournalInv /\ SnapshotOK(snap)
    BY DEF NotifierInv
  <1>2. pc = "seed" /\ LoopOnly /\ op = "none"
    BY JobRunsAlone DEF Seed
  <1>3. CASE Refused \/ Failed
    BY <1>2, <1>3, LoopOnlyFacts, ErrorKeepsInv
  <1>4. CASE /\ SeedPointers(SeedRecords(snap)) /\ GoTo("prepare", NoSnapshot)
             /\ started' = TRUE /\ unresolved' = FALSE
    <2>1. RecordsOK(SeedRecords(snap))
      BY <1>1, SnapshotRecords DEF SeedRecords
    <2>2. JournalInv' /\ QuietStep
      BY <1>1, <1>4, <2>1, SeedFacts
    <2>3. SnapshotOK(NoSnapshot) /\ "prepare" \in Step \ {"render", "deliver", "resolve"}
      BY <1>1, SnapshotIsOK DEF Step
    <2>. QED  BY <1>2, <1>4, <2>2, <2>3, GoToKeepsInv
  <1>. QED  BY <1>3, <1>4 DEF Seed

\* The jobs' reads change nothing but the snapshot they work on.
LEMMA ReadKeepsInv ==
    ASSUME NotifierInv, PrepareRead \/ ReserveRead
    PROVE  NotifierInv'
  <1>1. InboxInv /\ JournalInv /\ LoopTypeOK
    BY DEF NotifierInv
  <1>2. PICK place \in {"reconcile", "recheck"} :
           /\ op = "none" /\ GoTo(place, Snapshot) /\ LoopOnly
           /\ UNCHANGED journalVars /\ started' = started /\ unresolved' = unresolved
    BY DEF PrepareRead, ReserveRead
  <1>3. JournalInv' /\ QuietStep
    BY <1>1, <1>2, JournalUnchanged
  <1>4. SnapshotOK(Snapshot) /\ place \in Step \ {"render", "deliver", "resolve"}
    BY <1>1, SnapshotIsOK DEF Step
  <1>5. started' \in BOOLEAN /\ unresolved' \in BOOLEAN
    BY <1>1, <1>2, Zenon DEF LoopTypeOK
  <1>. QED  BY <1>2, <1>3, <1>4, <1>5, GoToKeepsInv

\* Both reconciliations, of prepare() and of reserve_next().
LEMMA ReconcileStepKeepsInv ==
    ASSUME NotifierInv, PrepareReconcile \/ ReserveReconcile
    PROVE  NotifierInv'
  <1>1. InboxInv /\ JournalInv /\ LoopTypeOK /\ SnapshotOK(snap)
    BY DEF NotifierInv
  <1>2. pc \in {"reconcile", "recheck"} /\ LoopOnly /\ op = "none"
    BY JobRunsAlone DEF PrepareReconcile, ReserveReconcile
  <1>3. CASE Failed \/ Refused
    BY <1>2, <1>3, LoopOnlyFacts, ErrorKeepsInv
  <1>4. CASE /\ Reconcile(snap)
             /\ GoTo("ingest", Snapshot) \/ GoTo("reserve", snap)
             /\ started' = started /\ unresolved' = unresolved
    <2>1. JournalInv' /\ QuietStep
      BY <1>1, <1>4, ReconcileFacts
    <2>2. PICK place \in {"ingest", "reserve"}, view \in {Snapshot, snap} : GoTo(place, view)
      BY <1>4
    <2>3. SnapshotOK(view) /\ place \in Step \ {"render", "deliver", "resolve"}
      BY <1>1, SnapshotIsOK DEF Step
    <2>4. started' \in BOOLEAN /\ unresolved' \in BOOLEAN
      BY <1>1, <1>4, Zenon DEF LoopTypeOK
    <2>. QED  BY <1>2, <2>1, <2>2, <2>3, <2>4, GoToKeepsInv
  <1>. QED  BY <1>3, <1>4 DEF PrepareReconcile, ReserveReconcile

\* ingest(), a refused scan included.
LEMMA IngestStepKeepsInv ==
    ASSUME NotifierInv, PrepareIngest
    PROVE  NotifierInv'
  <1>. DEFINE records == ScanRecords(snap, enumerated)
              through == ScannedThrough(snap, enumerated)
              ignored == IgnoredRows(snap, enumerated)
  <1>1. InboxInv /\ JournalInv /\ LoopTypeOK /\ SnapshotOK(snap)
    BY DEF NotifierInv
  <1>2. pc = "ingest" /\ LoopOnly /\ op = "none"
    BY JobRunsAlone DEF PrepareIngest
  <1>3. CASE Refused
    BY <1>2, <1>3, LoopOnlyFacts, ErrorKeepsInv
  <1>4. CASE /\ UNCHANGED journalVars \/ Ingest(records, ignored, through)
             /\ \/ Return(FALSE)
                \/ /\ pc' = "reserve_next" /\ snap' = NoSnapshot
                   /\ unresolved' = TRUE /\ UNCHANGED outcome
             /\ UNCHANGED <<started, fault, blocked>>
    <2>1. enumerated \in 0..MaxSeq
      BY <1>1 DEF JournalInv, JournalTypeOK
    <2>2. RecordsOK(records) /\ through \in 0..MaxSeq /\ ignored \in SUBSET Sequence
      BY <1>1, <2>1, ScanFacts
    <2>. HIDE DEF records, through, ignored
    <2>3. JournalInv' /\ QuietStep
      BY <1>1, <1>4, <2>2, IngestFacts, JournalUnchanged
    <2>4. /\ pc' \in {"idle", "reserve_next"} /\ snap' = NoSnapshot
          /\ unresolved' \in BOOLEAN /\ outcome' \in {"none", outcome}
          /\ started' = started /\ fault' = fault /\ blocked' = blocked
          /\ op' = op /\ retrying' = retrying /\ retries' = retries
          /\ faults' = faults /\ UNCHANGED inboxVars /\ UNCHANGED ghostVars
      BY <1>2, <1>4 DEF Return, LoopOnly, operatorVars
    <2>5. InboxInv' /\ SnapshotOK(snap')
      BY <1>1, <2>4, InboxUnchanged, SnapshotIsOK
    <2>6. LoopTypeOK'
      BY <1>1, <2>4 DEF LoopTypeOK, Step
    <2>7. TurnsOK'
      BY <1>2, <2>4 DEF TurnsOK
    <2>8. Ghosts' /\ GhostTypeOK'
      BY <2>3, <2>4, QuietKeepsGhosts
    <2>. QED  BY <2>3, <2>5, <2>6, <2>7, <2>8, NotifierInvAfter
  <1>. QED  BY <1>3, <1>4 DEF PrepareIngest, RefusedScan
----------------------------------------------------------------------------
(* Steps that open, make or close a call.                                   *)

\* Closing an attempt keeps the account: a row whose notice may have been handed
\* over never closes as failed.
LEMMA ResolveKeepsGhosts ==
    ASSUME NotifierInv, NEW result \in Outcome, Resolve(result),
           pc = "resolve" => result = outcome,
           pc # "resolve" => result = "unknown",
           pc \notin {"render", "deliver"},
           pc' \notin {"render", "deliver", "resolve"},
           accepted' = accepted, calls' = calls,
           done' = IF result = "delivered" THEN done \cup attempt ELSE done
    PROVE  JournalInv' /\ attempt' = {} /\ Ghosts' /\ GhostTypeOK'
  <1>1. AdmitsClean /\ CallsArePaid /\ AcceptedIsVisible /\ NoResendAfterDelivered
        /\ GhostTypeOK /\ JournalInv
    BY DEF NotifierInv, Ghosts
  <1>2. /\ JournalInv' /\ attempt' = {} /\ seeded' = seeded /\ scan <= scan'
        /\ DOMAIN work' \subseteq DOMAIN work
        /\ \A s \in DOMAIN work \ DOMAIN work' : s <= scan'
        /\ \A s \in DOMAIN work' :
              \/ s \notin attempt /\ work'[s] = work[s]
              \/ /\ s \in attempt
                 /\ work'[s].attempts = work[s].attempts
                 /\ work'[s].uncertain <=> (work[s].uncertain \/ result = "unknown")
                 /\ (work'[s].disposition = "delivered") <=> (result = "delivered")
    BY <1>1, ResolveFacts
  <1>3. /\ DOMAIN work \subseteq Sequence
        /\ scan \in Nat /\ scan' \in Nat
        /\ attempt \subseteq DOMAIN work
        /\ \A s \in attempt : work[s].disposition = "reserved"
        /\ attempt # {} => seeded
    BY <1>1, <1>2 DEF JournalInv, JournalTypeOK, JournalValid, AttemptValid
  <1>4. AdmitsClean'
    <2>1. ASSUME NEW s \in Sequence, s \notin attempt, Clean(s) PROVE Clean(s)'
      BY <2>1 DEF Clean
    <2>2. ASSUME NEW s \in Sequence \ DOMAIN work', s > scan' PROVE Clean(s)'
      <3>1. s \in Nat
        BY DEF Sequence
      <3>2. s \notin DOMAIN work /\ s > scan
        BY <1>2, <1>3, <2>2, <3>1
      <3>. QED  BY <1>1, <1>3, <2>1, <3>2 DEF AdmitsClean
    <2>3. ASSUME ~seeded', NEW s \in Sequence PROVE Clean(s)'
      BY <1>1, <1>2, <1>3, <2>1, <2>3 DEF AdmitsClean
    <2>. QED  BY <2>2, <2>3 DEF AdmitsClean
  <1>5. CallsArePaid'
    <2>1. \A s \in DOMAIN work' : calls[s] <= work'[s].attempts
      BY <1>1, <1>2 DEF CallsArePaid
    <2>2. CallBudget'
      BY <1>1 DEF CallsArePaid, CallBudget
    <2>. QED  BY <1>2, <2>1, <2>2 DEF CallsArePaid
  <1>6. AcceptedIsVisible'
    <2>. SUFFICES ASSUME NEW s \in accepted \cap DOMAIN work'
                  PROVE  work'[s].uncertain \/ work'[s].disposition \in Settled
      BY DEF AcceptedIsVisible
    <2>1. CASE s \notin attempt
      BY <1>1, <1>2, <2>1 DEF AcceptedIsVisible
    <2>2. CASE s \in attempt
      <3>1. work[s].uncertain \/ result # "failed"
        BY <1>1, <1>2, <1>3, <2>2 DEF AcceptedIsVisible, Settled
      <3>2. CASE work[s].uncertain
        BY <1>2, <2>2, <3>2
      <3>3. CASE result = "unknown"
        BY <1>2, <2>2, <3>3
      <3>4. CASE result = "delivered"
        BY <1>2, <2>2, <3>4 DEF Settled
      <3>. QED  BY <3>1, <3>2, <3>3, <3>4 DEF Outcome
    <2>. QED  BY <2>1, <2>2
  <1>7. NoResendAfterDelivered'
    BY <1>1, <1>2, <1>3 DEF NoResendAfterDelivered
  <1>8. GhostTypeOK'
    BY <1>1, <1>3 DEF GhostTypeOK
  <1>. QED  BY <1>2, <1>4, <1>5, <1>6, <1>7, <1>8 DEF Ghosts

\* initialize_journal(): nothing was sent before there is a journal.
LEMMA StartKeepsInv ==
    ASSUME NotifierInv, Start
    PROVE  NotifierInv'
  <1>1. InboxInv /\ LoopTypeOK /\ TurnsOK /\ AdmitsClean /\ CallsArePaid /\ GhostTypeOK
        /\ SnapshotOK(snap)
    BY DEF NotifierInv, Ghosts
  <1>2. /\ pc = "off" /\ op = "none" /\ pc' = "idle"
        /\ snap' = snap /\ outcome' = outcome /\ started' = started
        /\ unresolved' = unresolved /\ fault' = fault /\ blocked' = blocked
        /\ op' = op /\ retrying' = retrying /\ retries' = retries /\ faults' = faults
        /\ accepted' = accepted /\ done' = done /\ calls' = calls
        /\ UNCHANGED inboxVars
    BY JobRunsAlone DEF Start, LoopOnly, operatorVars, ghostVars
  <1>3. PICK through \in 0..head : CreateJournal(through)
    BY DEF Start
  <1>4. through \in 0..MaxSeq
    BY <1>1, InboxAssumption DEF InboxInv, InboxTypeOK
  <1>5. JournalInv' /\ DOMAIN work' = {} /\ attempt' = {} /\ seeded' = FALSE
    BY <1>3, <1>4, CreateFacts
  <1>6. \A s \in Sequence : Clean(s) /\ Clean(s)'
    BY <1>1, <1>2 DEF TurnsOK, AdmitsClean, Clean
  <1>7. Ghosts'
    <2>1. AdmitsClean'
      BY <1>6 DEF AdmitsClean
    <2>2. CallsArePaid'
      BY <1>1, <1>2, <1>5 DEF CallsArePaid, CallBudget
    <2>3. AcceptedIsVisible' /\ NoResendAfterDelivered'
      BY <1>5 DEF AcceptedIsVisible, NoResendAfterDelivered
    <2>. QED  BY <2>1, <2>2, <2>3 DEF Ghosts
  <1>8. LoopTypeOK' /\ GhostTypeOK' /\ TurnsOK'
    <2>1. LoopTypeOK'
      BY <1>1, <1>2 DEF LoopTypeOK
    <2>2. GhostTypeOK'
      BY <1>1, <1>2 DEF GhostTypeOK
    <2>3. TurnsOK'
      BY <1>2 DEF TurnsOK
    <2>. QED  BY <2>1, <2>2, <2>3
  <1>9. InboxInv' /\ SnapshotOK(snap')
    BY <1>1, <1>2, InboxUnchanged
  <1>. QED  BY <1>5, <1>7, <1>8, <1>9, NotifierInvAfter

\* ready(): an attempt left over is closed as unknown.
LEMMA RunReadyKeepsInv ==
    ASSUME NotifierInv, RunReady
    PROVE  NotifierInv'
  <1>1. InboxInv /\ JournalInv /\ LoopTypeOK
    BY DEF NotifierInv
  <1>2. PICK place \in {"prepare", "seed"}, view \in {Snapshot, NoSnapshot} :
            GoTo(place, view)
    BY DEF RunReady
  <1>3. /\ pc = "idle" /\ op = "none" /\ LoopOnly
        /\ \/ UNCHANGED journalVars
           \/ Resolve("unknown")
        /\ \/ started' = TRUE /\ unresolved' = FALSE
           \/ started' = started /\ unresolved' = unresolved
    BY DEF RunReady
  <1>4. SnapshotOK(view) /\ place \in Step \ {"render", "deliver", "resolve"}
    BY <1>1, SnapshotIsOK DEF Step
  <1>5. started' \in BOOLEAN /\ unresolved' \in BOOLEAN
    BY <1>1, <1>3, Zenon DEF LoopTypeOK
  <1>6. CASE UNCHANGED journalVars
    <2>1. JournalInv' /\ QuietStep
      BY <1>1, <1>6, JournalUnchanged
    <2>. QED  BY <1>2, <1>3, <1>4, <1>5, <2>1, GoToKeepsInv
  <1>7. CASE Resolve("unknown")
    <2>1. /\ pc' = place /\ snap' = view /\ outcome' = outcome /\ fault' = fault
          /\ blocked' = blocked /\ op' = op /\ retrying' = retrying /\ retries' = retries
          /\ faults' = faults /\ UNCHANGED inboxVars
          /\ accepted' = accepted /\ done' = done /\ calls' = calls
      BY <1>2, <1>3 DEF GoTo, LoopOnly, operatorVars, ghostVars
    <2>2. "unknown" \in Outcome
      BY DEF Outcome
    <2>3. JournalInv' /\ Ghosts' /\ GhostTypeOK'
      BY <1>3, <1>7, <2>1, <2>2, ResolveKeepsGhosts
    <2>4. InboxInv' /\ SnapshotOK(snap')
      BY <1>1, <1>4, <2>1, InboxUnchanged
    <2>5. LoopTypeOK'
      BY <1>1, <1>4, <1>5, <2>1 DEF LoopTypeOK
    <2>6. TurnsOK'
      BY <1>3, <2>1 DEF TurnsOK
    <2>. QED  BY <2>3, <2>4, <2>5, <2>6, NotifierInvAfter
  <1>. QED  BY <1>3, <1>6, <1>7

\* The outcome of a call is committed.
LEMMA ResolveCallKeepsInv ==
    ASSUME NotifierInv, ResolveCall
    PROVE  NotifierInv'
  <1>1. InboxInv /\ JournalInv /\ LoopTypeOK /\ TurnsOK
    BY DEF NotifierInv
  <1>2. /\ pc = "resolve" /\ op = "none" /\ Resolve(outcome)
        /\ done' = IF outcome = "delivered" THEN done \cup attempt ELSE done
        /\ pc' = "idle" /\ snap' = NoSnapshot /\ outcome' = "none" /\ unresolved' = FALSE
        /\ started' = started /\ fault' = fault /\ blocked' = blocked
        /\ op' = op /\ retrying' = retrying /\ retries' = retries /\ faults' = faults
        /\ accepted' = accepted /\ calls' = calls /\ UNCHANGED inboxVars
    BY DEF ResolveCall, Return, operatorVars
  <1>3. outcome \in Outcome
    BY <1>1, <1>2 DEF TurnsOK
  <1>4. JournalInv' /\ Ghosts' /\ GhostTypeOK'
    BY <1>2, <1>3, ResolveKeepsGhosts
  <1>5. InboxInv' /\ SnapshotOK(snap')
    BY <1>1, <1>2, InboxUnchanged, SnapshotIsOK
  <1>6. LoopTypeOK'
    BY <1>1, <1>2 DEF LoopTypeOK
  <1>7. TurnsOK'
    BY <1>2 DEF TurnsOK
  <1>. QED  BY <1>4, <1>5, <1>6, <1>7, NotifierInvAfter

\* reserve(): every row of the attempt has paid for the call that follows.
LEMMA ReserveNextKeepsInv ==
    ASSUME NotifierInv, ReserveNext
    PROVE  NotifierInv'
  <1>1. InboxInv /\ JournalInv /\ LoopTypeOK /\ TurnsOK /\ GhostTypeOK /\ SnapshotOK(snap)
        /\ AdmitsClean /\ CallsArePaid /\ AcceptedIsVisible /\ NoResendAfterDelivered
    BY DEF NotifierInv, Ghosts
  <1>2. pc = "reserve" /\ op = "none" /\ LoopOnly
    BY JobRunsAlone DEF ReserveNext
  <1>3. CASE Return(FALSE) /\ UNCHANGED <<journalVars, started, fault, blocked>>
    <2>1. fault' \in {"none", "provider", "render"} /\ blocked' \in BOOLEAN
      BY <1>1, <1>3 DEF LoopTypeOK
    <2>2. UNCHANGED <<inboxVars, journalVars, started, operatorVars, ghostVars>>
          /\ faults' \in 0..MaxFaults
      BY <1>2, <1>3, LoopOnlyFacts
    <2>. QED  BY <1>3, <2>1, <2>2, ReturnKeepsInv
  <1>4. CASE Reserve(Due) /\ GoTo("render", snap) /\ UNCHANGED <<started, unresolved>>
    <2>1. /\ pc' = "render" /\ snap' = snap /\ outcome' = outcome /\ fault' = fault
          /\ blocked' = blocked /\ op' = op /\ retrying' = retrying /\ retries' = retries
          /\ started' = started /\ unresolved' = unresolved
          /\ faults' = faults /\ UNCHANGED inboxVars
          /\ accepted' = accepted /\ done' = done /\ calls' = calls
      BY <1>2, <1>4 DEF GoTo, LoopOnly, operatorVars, ghostVars
    <2>2. attempt = {}
      BY <1>4 DEF Reserve
    <2>3. /\ JournalInv' /\ scan' = scan /\ seeded' = seeded /\ attempt' = Due
          /\ DOMAIN work' = DOMAIN work
          /\ \A s \in DOMAIN work :
                \/ s \notin Due /\ work'[s] = work[s]
                \/ /\ s \in Due
                   /\ work[s].disposition = "pending"
                   /\ work'[s].disposition = "reserved"
                   /\ work'[s].attempts = work[s].attempts + 1
                   /\ work'[s].uncertain = work[s].uncertain
      BY <1>1, <1>4, ReserveFacts
    <2>4. /\ DOMAIN work \subseteq Sequence
          /\ \A s \in DOMAIN work : work[s].attempts \in Nat /\ calls[s] \in Nat
      BY <1>1 DEF JournalInv, JournalTypeOK, WorkRow, GhostTypeOK
    <2>5. AdmitsClean'
      BY <1>1, <2>1, <2>3 DEF AdmitsClean, Clean
    <2>6. CallsArePaid'
      <3>1. \A s \in DOMAIN work' : calls[s] <= work'[s].attempts
        BY <1>1, <2>3, <2>4 DEF CallsArePaid
      <3>2. Due \subseteq DOMAIN work
        BY DEF Due, Ready
      <3>3. \A s \in Due : calls[s] < work'[s].attempts
        BY <1>1, <2>3, <2>4, <3>2 DEF CallsArePaid
      <3>. QED  BY <1>1, <2>1, <2>3, <3>1, <3>3 DEF CallsArePaid, CallBudget
    <2>7. AcceptedIsVisible'
      <3>. SUFFICES ASSUME NEW s \in accepted \cap DOMAIN work
                    PROVE  work'[s].uncertain \/ work'[s].disposition \in Settled
        BY <2>1, <2>3 DEF AcceptedIsVisible
      <3>1. work[s].uncertain \/ work[s].disposition \in Settled
        BY <1>1, <2>2 DEF AcceptedIsVisible
      <3>. QED  BY <2>3, <3>1 DEF Settled
    <2>8. NoResendAfterDelivered'
      BY <1>1, <2>1, <2>3 DEF NoResendAfterDelivered
    <2>9. LoopTypeOK'
      BY <1>1, <2>1 DEF LoopTypeOK, Step
    <2>10. GhostTypeOK' /\ TurnsOK'
      BY <1>1, <1>2, <2>1 DEF GhostTypeOK, TurnsOK
    <2>11. InboxInv' /\ SnapshotOK(snap')
      BY <1>1, <2>1, InboxUnchanged
    <2>. QED  BY <2>3, <2>5, <2>6, <2>7, <2>8, <2>9, <2>10, <2>11, NotifierInvAfter DEF Ghosts
  <1>. QED  BY <1>3, <1>4 DEF ReserveNext

\* render() and the beginning of the call.
LEMMA RenderKeepsInv ==
    ASSUME NotifierInv, Render
    PROVE  NotifierInv'
  <1>1. InboxInv /\ JournalInv /\ LoopTypeOK /\ TurnsOK /\ GhostTypeOK
        /\ AdmitsClean /\ CallsArePaid /\ AcceptedIsVisible /\ NoResendAfterDelivered
    BY DEF NotifierInv, Ghosts
  <1>2. pc = "render"
        /\ UNCHANGED <<inboxVars, journalVars, started, operatorVars, faults, accepted, done>>
    BY DEF Render
  <1>3. CASE Return(unresolved) /\ fault' = "render" /\ UNCHANGED <<blocked, calls>>
    <2>1. unresolved \in BOOLEAN /\ blocked' \in BOOLEAN /\ faults' \in 0..MaxFaults
          /\ UNCHANGED ghostVars
      BY <1>1, <1>2, <1>3 DEF LoopTypeOK, ghostVars
    <2>. QED  BY <1>2, <1>3, <2>1, ReturnKeepsInv
  <1>4. CASE GoTo("deliver", NoSnapshot) /\ calls' = CallsOf(attempt) /\ UNCHANGED unresolved
    <2>1. /\ pc' = "deliver" /\ snap' = NoSnapshot /\ outcome' = outcome /\ fault' = fault
          /\ blocked' = blocked /\ op' = op /\ retrying' = retrying /\ retries' = retries
          /\ started' = started /\ unresolved' = unresolved
          /\ faults' = faults /\ UNCHANGED inboxVars /\ UNCHANGED journalVars
          /\ accepted' = accepted /\ done' = done
      BY <1>2, <1>4 DEF GoTo, operatorVars
    <2>2. JournalInv'
      BY <1>1, <2>1, JournalUnchanged
    <2>3. scan' = scan /\ work' = work /\ attempt' = attempt /\ seeded' = seeded
      BY <2>1 DEF journalVars
    <2>4. /\ attempt \subseteq DOMAIN work
          /\ attempt # {} => seeded
          /\ DOMAIN work \subseteq Sequence
          /\ \A s \in DOMAIN work : work[s].attempts \in 0..MaxAttempts
      BY <1>1 DEF JournalInv, JournalValid, AttemptValid, JournalTypeOK, WorkRow
    <2>5. /\ calls' \in [Sequence -> Nat]
          /\ \A s \in attempt : calls'[s] = calls[s] + 1
          /\ \A s \in Sequence \ attempt : calls'[s] = calls[s]
          /\ \A s \in Sequence : calls[s] \in Nat
      BY <1>1, <1>4, <2>4 DEF CallsOf, GhostTypeOK
    <2>6. AdmitsClean'
      <3>1. \A s \in Sequence \ attempt : Clean(s) => Clean(s)'
        BY <2>1, <2>5 DEF Clean
      <3>. QED  BY <1>1, <2>3, <2>4, <3>1 DEF AdmitsClean
    <2>7. CallsArePaid'
      <3>1. \A s \in DOMAIN work : calls'[s] <= work[s].attempts
        BY <1>1, <1>2, <2>4, <2>5 DEF CallsArePaid
      <3>2. CallBudget'
        <4>. SUFFICES ASSUME NEW s \in Sequence PROVE calls'[s] <= MaxAttempts
          BY DEF CallBudget
        <4>1. CASE s \in attempt
          BY <2>4, <2>5, <3>1, <4>1, JournalAssumption
        <4>2. CASE s \notin attempt
          BY <1>1, <2>5, <4>2 DEF CallsArePaid, CallBudget
        <4>. QED  BY <4>1, <4>2
      <3>. QED  BY <2>1, <2>3, <3>1, <3>2 DEF CallsArePaid
    <2>8. AcceptedIsVisible'
      BY <1>1, <1>2, <2>1, <2>3 DEF AcceptedIsVisible
    <2>9. NoResendAfterDelivered'
      BY <1>1, <2>1, <2>3 DEF NoResendAfterDelivered
    <2>10. LoopTypeOK'
      BY <1>1, <2>1 DEF LoopTypeOK, Step
    <2>11. GhostTypeOK' /\ TurnsOK'
      BY <1>1, <2>1, <2>3, <2>5 DEF GhostTypeOK, TurnsOK, Boundary
    <2>12. InboxInv' /\ SnapshotOK(snap')
      BY <1>1, <2>1, InboxUnchanged, SnapshotIsOK
    <2>. QED  BY <2>2, <2>6, <2>7, <2>8, <2>9, <2>10, <2>11, <2>12, NotifierInvAfter DEF Ghosts
  <1>. QED  BY <1>3, <1>4 DEF Render

\* A call that ends: by its outcome, by a broken contract or by a crash.  The notice
\* of the attempt may have been handed over, unless the outcome is "failed".
LEMMA CallEndKeepsGhosts ==
    ASSUME NotifierInv, pc = "deliver", UNCHANGED journalVars, done' = done, calls' = calls,
           accepted' \in {accepted, accepted \cup attempt},
           pc' \notin {"render", "deliver"},
           pc' = "resolve" /\ outcome' = "failed" => accepted' = accepted
    PROVE  Ghosts' /\ GhostTypeOK'
  <1>1. JournalInv /\ GhostTypeOK
        /\ AdmitsClean /\ CallsArePaid /\ AcceptedIsVisible /\ NoResendAfterDelivered
    BY DEF NotifierInv, Ghosts
  <1>2. scan' = scan /\ work' = work /\ attempt' = attempt /\ seeded' = seeded
    BY DEF journalVars
  <1>3. /\ attempt \subseteq DOMAIN work
        /\ attempt # {} => seeded
        /\ DOMAIN work \subseteq Sequence
    BY <1>1 DEF JournalInv, JournalValid, AttemptValid, JournalTypeOK
  <1>4. AdmitsClean'
    <2>1. \A s \in Sequence \ attempt : Clean(s) => Clean(s)'
      BY DEF Clean
    <2>. QED  BY <1>1, <1>2, <1>3, <2>1 DEF AdmitsClean
  <1>5. CallsArePaid'
    BY <1>1, <1>2 DEF CallsArePaid, CallBudget
  <1>6. AcceptedIsVisible'
    BY <1>1, <1>2 DEF AcceptedIsVisible
  <1>7. NoResendAfterDelivered'
    BY <1>1, <1>2 DEF NoResendAfterDelivered
  <1>8. GhostTypeOK'
    BY <1>1, <1>3 DEF GhostTypeOK
  <1>. QED  BY <1>4, <1>5, <1>6, <1>7, <1>8 DEF Ghosts

\* The provider adapter returns.
LEMMA DeliverKeepsInv ==
    ASSUME NotifierInv, NEW result \in Outcome, NEW handed \in BOOLEAN, Deliver(result, handed)
    PROVE  NotifierInv'
  <1>1. InboxInv /\ JournalInv /\ LoopTypeOK /\ TurnsOK /\ SnapshotOK(snap)
    BY DEF NotifierInv
  <1>2. /\ pc = "deliver" /\ pc' = "resolve" /\ outcome' = result
        /\ snap' = snap /\ fault' = fault
        /\ blocked' = blocked /\ op' = op /\ retrying' = retrying /\ retries' = retries
        /\ started' = started /\ unresolved' = unresolved
        /\ faults' = faults /\ UNCHANGED inboxVars /\ UNCHANGED journalVars
        /\ done' = done /\ calls' = calls
    BY DEF Deliver, operatorVars
  <1>3. /\ accepted' \in {accepted, accepted \cup attempt}
        /\ result = "failed" => accepted' = accepted
    BY DEF Deliver
  <1>4. Ghosts' /\ GhostTypeOK'
    BY <1>2, <1>3, CallEndKeepsGhosts
  <1>5. JournalInv' /\ attempt' = attempt
    BY <1>1, <1>2, JournalUnchanged DEF journalVars
  <1>6. LoopTypeOK'
    BY <1>1, <1>2 DEF LoopTypeOK, Step
  <1>7. TurnsOK'
    BY <1>1, <1>2, <1>5 DEF TurnsOK, Boundary
  <1>8. InboxInv' /\ SnapshotOK(snap')
    BY <1>1, <1>2, InboxUnchanged
  <1>. QED  BY <1>4, <1>5, <1>6, <1>7, <1>8, NotifierInvAfter

\* The adapter breaks its contract, and the fault is latched.
LEMMA AdapterFaultKeepsInv ==
    ASSUME NotifierInv, NEW handed \in BOOLEAN, AdapterFault(handed)
    PROVE  NotifierInv'
  <1>1. InboxInv /\ JournalInv /\ LoopTypeOK /\ TurnsOK
    BY DEF NotifierInv
  <1>2. /\ pc = "deliver" /\ pc' = "idle" /\ outcome' = "none"
        /\ snap' = NoSnapshot /\ fault' = "provider"
        /\ blocked' = blocked /\ op' = op /\ retrying' = retrying /\ retries' = retries
        /\ started' = started /\ unresolved' = unresolved
        /\ faults < MaxFaults /\ faults' = faults + 1
        /\ UNCHANGED inboxVars /\ UNCHANGED journalVars
        /\ done' = done /\ calls' = calls
        /\ accepted' \in {accepted, accepted \cup attempt}
    BY DEF AdapterFault, Return, Spend, operatorVars
  <1>3. Ghosts' /\ GhostTypeOK'
    BY <1>2, CallEndKeepsGhosts
  <1>4. JournalInv' /\ attempt' = attempt
    BY <1>1, <1>2, JournalUnchanged DEF journalVars
  <1>5. LoopTypeOK'
    BY <1>1, <1>2, NotifierAssumption DEF LoopTypeOK
  <1>6. TurnsOK'
    BY <1>1, <1>2, <1>4 DEF TurnsOK, Boundary
  <1>7. InboxInv' /\ SnapshotOK(snap')
    BY <1>1, <1>2, InboxUnchanged, SnapshotIsOK
  <1>. QED  BY <1>3, <1>4, <1>5, <1>6, <1>7, NotifierInvAfter

\* A crash keeps the databases and may cut a call off in the middle.
LEMMA CrashKeepsInv ==
    ASSUME NotifierInv, Crash
    PROVE  NotifierInv'
  <1>1. InboxInv /\ JournalInv /\ LoopTypeOK /\ TurnsOK
    BY DEF NotifierInv
  <1>2. /\ pc' = "idle" /\ outcome' = "none" /\ snap' = NoSnapshot /\ fault' = "none"
        /\ blocked' = FALSE /\ op' = "none" /\ retrying' = {} /\ retries' = retries
        /\ started' = FALSE /\ unresolved' = FALSE
        /\ faults < MaxFaults /\ faults' = faults + 1
        /\ UNCHANGED inboxVars /\ UNCHANGED journalVars
        /\ done' = done /\ calls' = calls
    BY DEF Crash, Spend
  <1>3. Ghosts' /\ GhostTypeOK'
    <2>1. CASE pc = "deliver"
      <3>1. accepted' \in {accepted, accepted \cup attempt}
        BY <2>1 DEF Crash
      <3>. QED  BY <1>2, <2>1, <3>1, CallEndKeepsGhosts
    <2>2. CASE pc # "deliver"
      <3>1. UNCHANGED ghostVars
        BY <1>2, <2>2 DEF Crash, ghostVars
      <3>2. JournalInv' /\ QuietStep
        BY <1>1, <1>2, JournalUnchanged
      <3>. QED  BY <1>2, <3>1, <3>2, QuietKeepsGhosts
    <2>. QED  BY <2>1, <2>2
  <1>4. JournalInv'
    BY <1>1, <1>2, JournalUnchanged
  <1>5. LoopTypeOK'
    <2>1. /\ started' \in BOOLEAN /\ unresolved' \in BOOLEAN /\ blocked' \in BOOLEAN
          /\ retrying' \subseteq Sequence
      BY <1>2, Zenon
    <2>2. faults' \in 0..MaxFaults /\ retries' \in 0..MaxRetries
      BY <1>1, <1>2, NotifierAssumption DEF LoopTypeOK
    <2>. QED  BY <1>2, <2>1, <2>2 DEF LoopTypeOK
  <1>6. TurnsOK'
    BY <1>2 DEF TurnsOK
  <1>7. InboxInv' /\ SnapshotOK(snap')
    BY <1>1, <1>2, InboxUnchanged, SnapshotIsOK
  <1>. QED  BY <1>3, <1>4, <1>5, <1>6, <1>7, NotifierInvAfter
----------------------------------------------------------------------------
(* The operator, time, failures and the bridge.                             *)

\* The operator's transactions run beside the loop and send nothing.
LEMMA OperatorKeepsInv ==
    ASSUME NotifierInv, RetryRead \/ RetryReconcile \/ RetryFails
    PROVE  NotifierInv'
  <1>1. InboxInv /\ JournalInv /\ LoopTypeOK /\ TurnsOK /\ SnapshotOK(snap)
    BY DEF NotifierInv
  <1>2. SnapshotOK(Snapshot) /\ SnapshotOK(NoSnapshot)
    BY <1>1, SnapshotIsOK
  <1>3. /\ pc' = pc /\ outcome' = outcome /\ started' = started /\ unresolved' = unresolved
        /\ fault' = fault /\ UNCHANGED inboxVars /\ UNCHANGED ghostVars
    BY DEF RetryRead, RetryReconcile, RetryFails
  <1>4. InboxInv'
    BY <1>1, <1>3, InboxUnchanged
  <1>5. DOMAIN work \subseteq Sequence
    BY <1>1 DEF JournalInv, JournalTypeOK
  <1>6. CASE RetryRead
    <2>1. /\ snap' = Snapshot /\ blocked' = blocked /\ op' = "reconcile"
          /\ retrying' \subseteq DOMAIN work /\ faults' = faults
          /\ retries < MaxRetries /\ retries' = retries + 1
          /\ pc \in Boundary /\ attempt = {} /\ UNCHANGED journalVars
      BY <1>6 DEF RetryRead
    <2>2. JournalInv' /\ QuietStep
      BY <1>1, <2>1, JournalUnchanged
    <2>3. LoopTypeOK'
      BY <1>1, <1>3, <1>5, <2>1, NotifierAssumption DEF LoopTypeOK
    <2>4. TurnsOK'
      BY <1>1, <1>3, <2>1, <2>2 DEF TurnsOK, QuietStep, Boundary
    <2>5. Ghosts' /\ GhostTypeOK'
      BY <1>3, <2>2, QuietKeepsGhosts
    <2>. QED  BY <1>2, <1>4, <2>1, <2>2, <2>3, <2>4, <2>5, NotifierInvAfter
  <1>7. CASE RetryReconcile
    <2>1. /\ op = "reconcile" /\ snap' = NoSnapshot /\ faults' = faults /\ retries' = retries
          /\ \/ /\ op' = "none" /\ retrying' = {} /\ blocked' = TRUE /\ UNCHANGED journalVars
             \/ /\ op' = "retry" /\ Reconcile(snap)
                /\ retrying' = retrying /\ blocked' = blocked
      BY <1>7 DEF RetryReconcile
    <2>2. JournalInv' /\ QuietStep
      BY <1>1, <2>1, JournalUnchanged, ReconcileFacts
    <2>3. pc \in Boundary /\ attempt' = {}
      BY <1>1, <2>1, <2>2 DEF TurnsOK, QuietStep
    <2>4. LoopTypeOK'
      <3>1. blocked' \in BOOLEAN /\ retrying' \subseteq Sequence /\ op' \in {"none", "retry"}
        BY <1>1, <2>1, Zenon DEF LoopTypeOK
      <3>. QED  BY <1>1, <1>3, <2>1, <3>1 DEF LoopTypeOK
    <2>5. TurnsOK'
      BY <1>1, <1>3, <2>1, <2>3 DEF TurnsOK, Boundary
    <2>6. Ghosts' /\ GhostTypeOK'
      BY <1>3, <2>2, QuietKeepsGhosts
    <2>. QED  BY <1>2, <1>4, <2>1, <2>2, <2>4, <2>5, <2>6, NotifierInvAfter
  <1>8. CASE RetryFails
    <2>1. /\ op # "none" /\ op' = "none" /\ retrying' = {} /\ snap' = NoSnapshot
          /\ blocked' = blocked /\ retries' = retries
          /\ faults < MaxFaults /\ faults' = faults + 1 /\ UNCHANGED journalVars
      BY <1>8 DEF RetryFails, Spend
    <2>2. JournalInv' /\ QuietStep
      BY <1>1, <2>1, JournalUnchanged
    <2>3. LoopTypeOK'
      BY <1>1, <1>3, <2>1, NotifierAssumption DEF LoopTypeOK
    <2>4. TurnsOK'
      BY <1>1, <1>3, <2>1 DEF TurnsOK, Boundary
    <2>5. Ghosts' /\ GhostTypeOK'
      BY <1>3, <2>2, QuietKeepsGhosts
    <2>. QED  BY <1>2, <1>4, <2>1, <2>2, <2>3, <2>4, <2>5, NotifierInvAfter
  <1>. QED  BY <1>6, <1>7, <1>8

\* retry() commits: an exhausted row waits again, with a new budget and the memory
\* of what may have been delivered.
LEMMA RetryCommitKeepsInv ==
    ASSUME NotifierInv, RetryCommit
    PROVE  NotifierInv'
  <1>1. InboxInv /\ JournalInv /\ LoopTypeOK /\ TurnsOK /\ GhostTypeOK /\ SnapshotOK(snap)
        /\ AdmitsClean /\ CallsArePaid /\ AcceptedIsVisible /\ NoResendAfterDelivered
    BY DEF NotifierInv, Ghosts
  <1>2. /\ op = "retry" /\ op' = "none" /\ retrying' = {}
        /\ pc' = pc /\ snap' = snap /\ outcome' = outcome /\ started' = started
        /\ unresolved' = unresolved /\ fault' = fault /\ blocked' = blocked
        /\ retries' = retries /\ faults' = faults
        /\ accepted' = accepted /\ done' = done /\ UNCHANGED inboxVars
    BY DEF RetryCommit, loopVars
  <1>3. attempt = {} /\ pc \in Boundary
    BY <1>1, <1>2 DEF TurnsOK
  <1>4. InboxInv' /\ SnapshotOK(snap')
    BY <1>1, <1>2, InboxUnchanged
  <1>5. LoopTypeOK'
    BY <1>1, <1>2 DEF LoopTypeOK
  <1>6. TurnsOK'
    BY <1>1, <1>2, <1>3 DEF TurnsOK, Boundary
  <1>7. CASE UNCHANGED <<journalVars, calls>>
    <2>1. JournalInv' /\ QuietStep
      BY <1>1, <1>7, JournalUnchanged
    <2>2. Ghosts' /\ GhostTypeOK'
      BY <1>2, <1>7, <2>1, QuietKeepsGhosts DEF ghostVars
    <2>. QED  BY <1>4, <1>5, <1>6, <2>1, <2>2, NotifierInvAfter
  <1>8. CASE /\ Retry(retrying)
             /\ calls' = [s \in Sequence |-> IF s \in retrying THEN 0 ELSE calls[s]]
    <2>1. /\ JournalInv' /\ scan' = scan /\ seeded' = seeded /\ attempt' = {}
          /\ DOMAIN work' = DOMAIN work
          /\ \A s \in DOMAIN work :
                \/ s \notin retrying /\ work'[s] = work[s]
                \/ /\ s \in retrying
                   /\ work[s].disposition \in Exhausted
                   /\ work'[s].disposition = "pending"
                   /\ work'[s].attempts = 0
                   /\ work'[s].uncertain = work[s].uncertain
      BY <1>1, <1>3, <1>8, RetryFacts
    <2>2. /\ DOMAIN work \subseteq Sequence
          /\ calls' \in [Sequence -> Nat]
          /\ \A s \in Sequence : \/ s \in retrying /\ calls'[s] = 0
                                 \/ s \notin retrying /\ calls'[s] = calls[s]
          /\ \A s \in Sequence : calls[s] \in Nat
      BY <1>1, <1>8 DEF JournalInv, JournalTypeOK, GhostTypeOK
    <2>3. AdmitsClean'
      <3>1. \A s \in Sequence : Clean(s) => Clean(s)'
        BY <1>2, <2>2 DEF Clean
      <3>. QED  BY <1>1, <2>1, <3>1 DEF AdmitsClean
    <2>4. CallsArePaid'
      <3>1. \A s \in DOMAIN work' : calls'[s] <= work'[s].attempts
        BY <1>1, <2>1, <2>2 DEF CallsArePaid
      <3>2. CallBudget'
        BY <1>1, <2>2, JournalAssumption DEF CallsArePaid, CallBudget
      <3>. QED  BY <2>1, <3>1, <3>2 DEF CallsArePaid
    <2>5. AcceptedIsVisible'
      <3>. SUFFICES ASSUME NEW s \in accepted \cap DOMAIN work
                    PROVE  work'[s].uncertain \/ work'[s].disposition \in Settled
        BY <1>2, <2>1 DEF AcceptedIsVisible
      <3>1. work[s].uncertain \/ work[s].disposition \in Settled
        BY <1>1, <1>3 DEF AcceptedIsVisible
      <3>. QED  BY <2>1, <3>1 DEF Settled, Exhausted
    <2>6. NoResendAfterDelivered'
      BY <1>1, <1>2, <2>1 DEF NoResendAfterDelivered, Exhausted
    <2>7. GhostTypeOK'
      BY <1>1, <1>2, <2>2 DEF GhostTypeOK
    <2>. QED  BY <1>4, <1>5, <1>6, <2>1, <2>3, <2>4, <2>5, <2>6, <2>7, NotifierInvAfter
              DEF Ghosts
  <1>. QED  BY <1>7, <1>8 DEF RetryCommit

\* acknowledge_health() and the passing of time.
LEMMA HealthAndTickKeepInv ==
    ASSUME NotifierInv, AckHealth \/ Tick
    PROVE  NotifierInv'
  <1>1. InboxInv /\ JournalInv /\ LoopTypeOK /\ TurnsOK /\ SnapshotOK(snap)
    BY DEF NotifierInv
  <1>2. /\ pc \in Boundary /\ op = "none" /\ (AcknowledgeHealth \/ Elapse)
        /\ pc' = pc /\ snap' = snap /\ outcome' = outcome /\ started' = started
        /\ unresolved' = unresolved /\ fault' = fault /\ blocked' = blocked
        /\ op' = op /\ retrying' = retrying /\ retries' = retries /\ faults' = faults
        /\ UNCHANGED inboxVars /\ UNCHANGED ghostVars
    BY DEF AckHealth, Tick, loopVars, operatorVars
  <1>3. JournalInv' /\ QuietStep
    BY <1>1, <1>2, AcknowledgeHealthFacts, ElapseFacts
  <1>4. LoopTypeOK'
    BY <1>1, <1>2 DEF LoopTypeOK
  <1>5. TurnsOK'
    BY <1>1, <1>2 DEF TurnsOK, Boundary
  <1>6. Ghosts' /\ GhostTypeOK'
    BY <1>2, <1>3, QuietKeepsGhosts
  <1>7. InboxInv' /\ SnapshotOK(snap')
    BY <1>1, <1>2, InboxUnchanged
  <1>. QED  BY <1>3, <1>4, <1>5, <1>6, <1>7, NotifierInvAfter

\* A job or the bridge's answer fails.
LEMMA FailureKeepsInv ==
    ASSUME NotifierInv, JobFails \/ RenderUnavailable
    PROVE  NotifierInv'
  <1>1. Failed /\ UNCHANGED <<inboxVars, operatorVars, ghostVars>>
        /\ faults < MaxFaults /\ faults' = faults + 1
    BY DEF JobFails, RenderUnavailable, Spend
  <1>2. faults' \in 0..MaxFaults
    BY <1>1, NotifierAssumption DEF NotifierInv, LoopTypeOK
  <1>. QED  BY <1>1, <1>2, ErrorKeepsInv

\* The bridge goes on while the notifier works on what it has read, and nothing
\* may happen at all.
LEMMA BridgeKeepsInv ==
    ASSUME NotifierInv, Bridge \/ UNCHANGED vars
    PROVE  NotifierInv'
  <1>1. InboxInv /\ JournalInv /\ LoopTypeOK /\ TurnsOK /\ SnapshotOK(snap)
    BY DEF NotifierInv
  <1>2. /\ [InboxNext]_inboxVars /\ UNCHANGED journalVars
        /\ pc' = pc /\ snap' = snap /\ outcome' = outcome /\ started' = started
        /\ unresolved' = unresolved /\ fault' = fault /\ blocked' = blocked
        /\ op' = op /\ retrying' = retrying /\ retries' = retries /\ faults' = faults
        /\ UNCHANGED ghostVars
    BY DEF Bridge, vars, loopVars, operatorVars
  <1>3. JournalInv' /\ QuietStep
    BY <1>1, <1>2, JournalUnchanged
  <1>4. LoopTypeOK'
    BY <1>1, <1>2 DEF LoopTypeOK
  <1>5. TurnsOK'
    <2>1. attempt' = attempt /\ seeded' = seeded
      BY <1>2 DEF journalVars
    <2>. QED  BY <1>1, <1>2, <2>1 DEF TurnsOK
  <1>6. Ghosts' /\ GhostTypeOK'
    BY <1>2, <1>3, QuietKeepsGhosts
  <1>7. InboxInv' /\ SnapshotOK(snap')
    BY <1>1, <1>2, InboxInvNext
  <1>. QED  BY <1>3, <1>4, <1>5, <1>6, <1>7, NotifierInvAfter
----------------------------------------------------------------------------
(* The invariant and what follows from it.                                  *)

\* Before the journal exists nothing was sent and nothing is running.
LEMMA NotifierInvInit ==
    ASSUME Init
    PROVE  NotifierInv
  <1>1. InboxInv
    BY InboxInvInit DEF Init
  <1>2. JournalInv
    <2>1. Cardinality({}) = 0
      BY FS_EmptySet
    <2>2. DOMAIN work = {} /\ work = [s \in DOMAIN work |-> work[s]]
          /\ attempt = {} /\ imported = 0 /\ scan = 0 /\ enumerated = 0
          /\ seeded = FALSE /\ counters = [k \in Counter |-> 0]
      BY DEF Init
    <2>3. JournalTypeOK
      <3>1. seeded \in BOOLEAN
        BY <2>2, Zenon
      <3>. QED  BY <2>2, <3>1, InboxAssumption, JournalAssumption DEF JournalTypeOK
    <2>4. JournalValid
      BY <2>1, <2>2, JournalAssumption DEF JournalValid, AttemptValid
    <2>. QED  BY <2>3, <2>4 DEF JournalInv
  <1>3. LoopTypeOK
    <2>1. started \in BOOLEAN /\ unresolved \in BOOLEAN /\ blocked \in BOOLEAN
      BY Zenon DEF Init
    <2>2. faults \in 0..MaxFaults /\ retries \in 0..MaxRetries
      BY NotifierAssumption DEF Init
    <2>. QED  BY <2>1, <2>2 DEF Init, LoopTypeOK
  <1>4. GhostTypeOK /\ SnapshotOK(snap)
    BY <1>1, SnapshotIsOK DEF Init, GhostTypeOK
  <1>5. TurnsOK
    BY DEF Init, TurnsOK
  <1>6. Ghosts
    BY JournalAssumption DEF Init, Ghosts, AdmitsClean, Clean, CallsArePaid, CallBudget,
       AcceptedIsVisible, NoResendAfterDelivered
  <1>. QED  BY <1>1, <1>2, <1>3, <1>4, <1>5, <1>6 DEF NotifierInv

\* Every step of the notifier, the bridge, the operator, time and the faults.
LEMMA NotifierInvNext ==
    ASSUME NotifierInv, [Next]_vars
    PROVE  NotifierInv'
  <1>1. CASE Bridge \/ UNCHANGED vars
    BY <1>1, BridgeKeepsInv
  <1>2. CASE Loop
    <2>1. CASE Start \/ RunReady \/ Seed \/ PrepareRead \/ PrepareReconcile \/ PrepareIngest
      BY <2>1, StartKeepsInv, RunReadyKeepsInv, SeedKeepsInv, ReadKeepsInv,
         ReconcileStepKeepsInv, IngestStepKeepsInv
    <2>2. CASE ReserveRead \/ ReserveReconcile \/ ReserveNext \/ Render \/ ResolveCall
      BY <2>2, ReadKeepsInv, ReconcileStepKeepsInv, ReserveNextKeepsInv, RenderKeepsInv,
         ResolveCallKeepsInv
    <2>3. CASE \E result \in Outcome, handed \in BOOLEAN : Deliver(result, handed)
      BY <2>3, DeliverKeepsInv
    <2>. QED  BY <1>2, <2>1, <2>2, <2>3 DEF Loop
  <1>3. CASE Operator \/ Tick
    BY <1>3, OperatorKeepsInv, RetryCommitKeepsInv, HealthAndTickKeepInv DEF Operator
  <1>4. CASE Faults
    BY <1>4, FailureKeepsInv, AdapterFaultKeepsInv, OperatorKeepsInv, CrashKeepsInv DEF Faults
  <1>. QED  BY <1>1, <1>2, <1>3, <1>4 DEF Next

\* The inductive invariant holds in every behaviour, for every size of the inbox,
\* of the journal and of an attempt.
THEOREM NotifierInvariance == Spec => []NotifierInv
  <1>1. Init => NotifierInv
    BY NotifierInvInit
  <1>2. NotifierInv /\ [Next]_vars => NotifierInv'
    BY NotifierInvNext
  <1>. QED  BY <1>1, <1>2, PTL DEF Spec

\* Every variable of the notifier, its journal and the inbox keeps its type.
THEOREM NotifierTypes == Spec => []NotifierTypeOK
  BY NotifierInvariance, NotifierInvTypes, PTL

\* The journal's own validation (_validate()) never fails on a transaction of its
\* own: no sequence of scans, retries, lost outcomes and crashes builds a table it
\* would refuse.
THEOREM JournalStaysValid == Spec => []JournalValid
  <1>1. NotifierInv => JournalValid
    BY DEF NotifierInv, JournalInv
  <1>. QED  BY <1>1, NotifierInvariance, PTL

\* A message reported "failed" was never handed to the provider (resolve(),
\* recover_attempt(), retry()).
THEOREM FailedWasNeverAccepted == Spec => []FailedMeansNeverAccepted
  <1>1. NotifierInv => FailedMeansNeverAccepted
    <2>. SUFFICES ASSUME NotifierInv, NEW s \in DOMAIN work,
                         work[s].disposition = "failed", s \in accepted
                  PROVE  FALSE
      BY DEF FailedMeansNeverAccepted
    <2>1. AcceptedIsVisible /\ RowValid(work[s]) /\ AttemptValid
      BY DEF NotifierInv, Ghosts, JournalInv, JournalValid
    <2>2. ~work[s].uncertain /\ work[s].disposition \notin Settled
      BY <2>1 DEF RowValid, Settled
    <2>3. s \notin attempt
      BY <2>1 DEF AttemptValid
    <2>. QED  BY <2>1, <2>2, <2>3 DEF AcceptedIsVisible
  <1>. QED  BY <1>1, NotifierInvariance, PTL

\* No row is given to the provider more than MaxAttempts times between two operator
\* retries, however many crashes and lost outcomes there are (reserve()).
THEOREM CallsStayWithinBudget == Spec => []CallBudget
  <1>1. NotifierInv => CallBudget
    BY DEF NotifierInv, Ghosts, CallsArePaid
  <1>. QED  BY <1>1, NotifierInvariance, PTL

\* A row whose delivery was committed never waits again (advance(), add()).
THEOREM DeliveredIsNeverResent == Spec => []NoResendAfterDelivered
  <1>1. NotifierInv => NoResendAfterDelivered
    BY DEF NotifierInv, Ghosts
  <1>. QED  BY <1>1, NotifierInvariance, PTL
----------------------------------------------------------------------------
(* The order of the notices, and what is reserved.                          *)

\* After reserve_next()'s own reconciliation everything ready was in its snapshot,
\* and not acknowledged there.
ReadyIsCurrent ==
    pc = "reserve" =>
        \A s \in Ready : s \in DOMAIN snap.rows /\ (AckCapable => s > snap.ack)

\* A notice that is prepared, sent or recorded has its attempt reserved.
CallHasRows == pc \in {"render", "deliver", "resolve"} => attempt # {}

CallInv == ReadyIsCurrent /\ CallHasRows /\ ReservesOnlyCurrent /\ HeadOfLine

\* Elsewhere in the loop the three say nothing; where nothing they mention moves,
\* they stay.
LEMMA CallInvStays ==
    ASSUME CallInv,
           \/ pc' \notin {"reserve", "render", "deliver", "resolve"}
           \/ /\ UNCHANGED <<pc, snap, attempt>>
              /\ Ready' = Ready
    PROVE  CallInv'
  <1>1. CASE pc' \notin {"reserve", "render", "deliver", "resolve"}
    BY <1>1 DEF CallInv, ReadyIsCurrent, CallHasRows, ReservesOnlyCurrent, HeadOfLine
  <1>2. CASE UNCHANGED <<pc, snap, attempt>> /\ Ready' = Ready
    BY <1>2 DEF CallInv, ReadyIsCurrent, CallHasRows, ReservesOnlyCurrent, HeadOfLine
  <1>. QED  BY <1>1, <1>2

\* An untouched table has the same rows ready.
LEMMA ReadyUnchanged ==
    ASSUME UNCHANGED journalVars
    PROVE  Ready' = Ready /\ attempt' = attempt
  BY DEF journalVars, Ready

\* reserve_next() reconciles with its own snapshot.
LEMMA ReserveReconcileKeepsOrder ==
    ASSUME NotifierInv, CallInv, ReserveReconcile
    PROVE  CallInv'
  <1>1. CASE Failed \/ Refused
    <2>1. pc' = "idle"
      BY <1>1 DEF Failed, Refused, Return
    <2>. QED  BY <2>1, CallInvStays
  <1>2. CASE Reconcile(snap) /\ GoTo("reserve", snap)
    <2>1. pc' = "reserve" /\ snap' = snap
      BY <1>2 DEF GoTo
    <2>2. \A s \in Ready' : s \in DOMAIN snap.rows /\ ~IsAcknowledged(snap, s)
      BY <1>2, ReconcileRows DEF NotifierInv
    <2>3. /\ snap.ack \in Nat
          /\ \A s \in DOMAIN snap.rows : s \in Nat
      BY DEF NotifierInv, SnapshotOK, Sequence
    <2>4. \A s \in Ready' : s \in DOMAIN snap'.rows /\ (AckCapable => s > snap'.ack)
      BY <2>1, <2>2, <2>3 DEF IsAcknowledged
    <2>. QED  BY <2>1, <2>4 DEF CallInv, ReadyIsCurrent, CallHasRows, ReservesOnlyCurrent, HeadOfLine
  <1>. QED  BY <1>1, <1>2 DEF ReserveReconcile

\* reserve(): the first rows that are ready, all of them current.
LEMMA ReserveNextKeepsOrder ==
    ASSUME NotifierInv, CallInv, ReserveNext
    PROVE  CallInv'
  <1>1. CASE Return(FALSE)
    <2>1. pc' = "idle"
      BY <1>1 DEF Return
    <2>. QED  BY <2>1, CallInvStays
  <1>2. CASE Reserve(Due) /\ GoTo("render", snap)
    <2>1. JournalInv /\ TableOK(work)
      BY JournalInvParts DEF NotifierInv
    <2>2. pc = "reserve" /\ pc' = "render" /\ snap' = snap
      BY <1>2 DEF GoTo, ReserveNext
    <2>3. /\ attempt' = Due
          /\ DOMAIN work' = DOMAIN work
          /\ \A s \in Due : work'[s].disposition = "reserved"
          /\ \A s \in DOMAIN work \ Due : work'[s] = work[s]
      BY <1>2, <2>1, ReserveFacts DEF Due, Ready
    <2>4. Ready' \subseteq Ready \ Due
      BY <2>3 DEF Ready
    <2>5. HeadOfLine'
      BY <2>1, <2>3, <2>4, DueComesFirst DEF HeadOfLine
    <2>6. ReservesOnlyCurrent'
      BY <2>2, <2>3 DEF CallInv, ReadyIsCurrent, ReservesOnlyCurrent, Due
    <2>7. Due # {}
      BY <1>2 DEF Reserve
    <2>. QED  BY <2>2, <2>3, <2>5, <2>6, <2>7 DEF CallInv, ReadyIsCurrent, CallHasRows
  <1>. QED  BY <1>1, <1>2 DEF ReserveNext

\* From the reservation to the outcome nothing else becomes ready.
LEMMA CallKeepsOrder ==
    ASSUME NotifierInv, CallInv,
           Render \/ \E result \in Outcome, handed \in BOOLEAN : Deliver(result, handed)
    PROVE  CallInv'
  <1>1. UNCHANGED journalVars
    BY DEF Render, Deliver
  <1>2. \/ pc' = "idle"
        \/ pc \in {"render", "deliver"} /\ pc' \in {"deliver", "resolve"}
    BY DEF Render, Deliver, Return, GoTo
  <1>3. CASE pc' = "idle"
    BY <1>3, CallInvStays
  <1>4. CASE pc \in {"render", "deliver"} /\ pc' \in {"deliver", "resolve"}
    BY <1>1, <1>4, ReadyUnchanged DEF CallInv, ReadyIsCurrent, CallHasRows, ReservesOnlyCurrent, HeadOfLine
  <1>. QED  BY <1>2, <1>3, <1>4

\* The operator, time and the bridge act beside a call without disturbing it.
LEMMA BesideKeepsOrder ==
    ASSUME NotifierInv, CallInv, Bridge \/ Operator \/ Tick \/ RetryFails \/ UNCHANGED vars
    PROVE  CallInv'
  <1>1. JournalInv /\ TurnsOK
    BY DEF NotifierInv
  <1>2. CASE Bridge \/ UNCHANGED vars
    BY <1>2, ReadyUnchanged, CallInvStays DEF Bridge, vars, loopVars
  <1>3. CASE RetryRead \/ RetryFails
    <2>1. pc \in Boundary /\ attempt = {} /\ pc' = pc
      BY <1>1, <1>3 DEF RetryRead, RetryFails, TurnsOK
    <2>. QED  BY <2>1, CallInvStays DEF Boundary, CallInv, CallHasRows
  <1>4. CASE RetryReconcile
    <2>1. pc \in Boundary /\ attempt = {} /\ pc' = pc
      BY <1>1, <1>4 DEF RetryReconcile, TurnsOK
    <2>. QED  BY <2>1, CallInvStays DEF Boundary, CallInv, CallHasRows
  <1>5. CASE RetryCommit
    <2>1. pc \in Boundary /\ attempt = {} /\ pc' = pc
      BY <1>1, <1>5 DEF RetryCommit, TurnsOK, loopVars
    <2>. QED  BY <2>1, CallInvStays DEF Boundary, CallInv, CallHasRows
  <1>6. CASE AckHealth \/ Tick
    <2>1. UNCHANGED <<pc, snap, attempt>> /\ (AcknowledgeHealth \/ Elapse)
      BY <1>6 DEF AckHealth, Tick, loopVars, AcknowledgeHealth, Elapse
    <2>2. Ready' = Ready
      BY <1>1, <2>1, ElapseRows DEF AcknowledgeHealth, Ready
    <2>. QED  BY <2>1, <2>2, CallInvStays
  <1>. QED  BY <1>2, <1>3, <1>4, <1>5, <1>6 DEF Operator

\* Every step keeps the order.
LEMMA CallInvNext ==
    ASSUME NotifierInv, CallInv, [Next]_vars
    PROVE  CallInv'
  <1>1. CASE Start \/ RunReady \/ Seed \/ PrepareRead \/ PrepareReconcile \/ PrepareIngest
             \/ ReserveRead \/ ResolveCall \/ RenderUnavailable \/ JobFails \/ Crash
             \/ \E handed \in BOOLEAN : AdapterFault(handed)
    <2>1. pc' \notin {"reserve", "render", "deliver", "resolve"}
      BY <1>1 DEF Start, RunReady, Seed, PrepareRead, PrepareReconcile, PrepareIngest,
         ReserveRead, ResolveCall, RenderUnavailable, JobFails, Crash, AdapterFault,
         GoTo, Return, Failed, Refused
    <2>. QED  BY <2>1, CallInvStays
  <1>2. CASE ReserveReconcile \/ ReserveNext \/ Render
             \/ \E result \in Outcome, handed \in BOOLEAN : Deliver(result, handed)
    BY <1>2, ReserveReconcileKeepsOrder, ReserveNextKeepsOrder, CallKeepsOrder
  <1>3. CASE Bridge \/ Operator \/ Tick \/ RetryFails \/ UNCHANGED vars
    BY <1>3, BesideKeepsOrder
  <1>. QED  BY <1>1, <1>2, <1>3 DEF Next, Loop, Faults

\* Order and currency hold in every behaviour.
LEMMA CallInvariance == Spec => []CallInv
  <1>1. Init => CallInv
    BY DEF Init, CallInv, ReadyIsCurrent, CallHasRows, ReservesOnlyCurrent, HeadOfLine
  <1>2. NotifierInv /\ CallInv /\ [Next]_vars => CallInv'
    BY CallInvNext
  <1>. QED  BY <1>1, <1>2, NotifierInvariance, PTL DEF Spec

\* While a notice is prepared or sent, no row that waits precedes it (due()), for
\* every number of rows, of members of an attempt and of retries beside it.
THEOREM NoticesKeepOrder == Spec => []HeadOfLine
  <1>1. CallInv => HeadOfLine
    BY DEF CallInv
  <1>. QED  BY <1>1, CallInvariance, PTL

\* Only rows that reserve_next()'s own snapshot retained and that were not
\* acknowledged there are ever reserved.
THEOREM OnlyCurrentIsReserved == Spec => []ReservesOnlyCurrent
  <1>1. CallInv => ReservesOnlyCurrent
    BY DEF CallInv
  <1>. QED  BY <1>1, CallInvariance, PTL
----------------------------------------------------------------------------
(* The progress boundaries.                                                 *)

\* A journal nobody touched keeps its boundaries.
LEMMA UntouchedRows ==
    ASSUME JournalInv, UNCHANGED <<scan, enumerated, work>>
    PROVE  RowsFollow({}, {}, {}) /\ BoundaryStep
  BY StillRows

\* Every transaction moves the boundaries forward only.
LEMMA BoundaryNext ==
    ASSUME NotifierInv, [Next]_vars, pc # "off"
    PROVE  BoundaryStep
  <1>1. JournalInv /\ SnapshotOK(snap) /\ TurnsOK
    BY DEF NotifierInv
  <1>2. CASE UNCHANGED <<scan, enumerated, work>>
    BY <1>1, <1>2, UntouchedRows
  <1>3. CASE Bridge \/ UNCHANGED vars \/ PrepareRead \/ ReserveRead \/ Render \/ Crash
             \/ JobFails \/ RetryFails \/ RenderUnavailable \/ RetryRead \/ AckHealth
             \/ (\E handed \in BOOLEAN : AdapterFault(handed))
             \/ (\E result \in Outcome, handed \in BOOLEAN : Deliver(result, handed))
    <2>1. UNCHANGED <<scan, enumerated, work>>
      BY <1>3 DEF Bridge, vars, PrepareRead, ReserveRead, Render, Crash, JobFails, RetryFails,
         RenderUnavailable, RetryRead, AckHealth, AdapterFault, Deliver, Failed, journalVars,
         AcknowledgeHealth
    <2>. QED  BY <1>2, <2>1
  <1>4. CASE RunReady \/ ResolveCall
    <2>1. UNCHANGED journalVars \/ Resolve("unknown") \/ (Resolve(outcome) /\ outcome \in Outcome)
      BY <1>1, <1>4 DEF RunReady, ResolveCall, TurnsOK
    <2>2. "unknown" \in Outcome
      BY DEF Outcome
    <2>. QED  BY <1>1, <1>2, <2>1, <2>2, ResolveRows DEF journalVars
  <1>5. CASE Seed
    <2>1. UNCHANGED journalVars \/ SeedPointers(SeedRecords(snap))
      BY <1>5 DEF Seed, Refused, Failed
    <2>2. RecordsOK(SeedRecords(snap))
      BY <1>1, SnapshotRecords DEF SeedRecords
    <2>. QED  BY <1>1, <1>2, <2>1, <2>2, SeedRows DEF journalVars
  <1>6. CASE PrepareReconcile \/ ReserveReconcile \/ RetryReconcile
    <2>1. UNCHANGED journalVars \/ Reconcile(snap)
      BY <1>6 DEF PrepareReconcile, ReserveReconcile, RetryReconcile, Refused, Failed
    <2>. QED  BY <1>1, <1>2, <2>1, ReconcileRows DEF journalVars
  <1>7. CASE PrepareIngest
    <2>. DEFINE records == ScanRecords(snap, enumerated)
                through == ScannedThrough(snap, enumerated)
                ignored == IgnoredRows(snap, enumerated)
    <2>1. UNCHANGED journalVars \/ Ingest(records, ignored, through)
      BY <1>7 DEF PrepareIngest, Refused, RefusedScan
    <2>2. enumerated \in 0..MaxSeq
      BY <1>1 DEF JournalInv, JournalTypeOK
    <2>3. RecordsOK(records) /\ through \in 0..MaxSeq /\ ignored \in SUBSET Sequence
      BY <1>1, <2>2, ScanFacts
    <2>. HIDE DEF records, through, ignored
    <2>. QED  BY <1>1, <1>2, <2>1, <2>3, IngestRows DEF journalVars
  <1>8. CASE ReserveNext
    <2>1. UNCHANGED journalVars \/ Reserve(Due)
      BY <1>8 DEF ReserveNext
    <2>. QED  BY <1>1, <1>2, <2>1, ReserveRows DEF journalVars
  <1>9. CASE RetryCommit
    <2>1. UNCHANGED journalVars \/ Retry(retrying)
      BY <1>9 DEF RetryCommit
    <2>. QED  BY <1>1, <1>2, <2>1, RetryRows DEF journalVars
  <1>10. CASE Tick
    BY <1>1, <1>10, ElapseRows DEF Tick
  <1>11. CASE Start
    BY <1>11 DEF Start
  <1>. QED  BY <1>3, <1>4, <1>5, <1>6, <1>7, <1>8, <1>9, <1>10, <1>11
            DEF Next, Loop, Operator, Faults

\* The boundaries never move back, scan_through passes no row that waits, and a row
\* leaves the table only behind it (advance()).
THEOREM BoundariesOnlyAdvance == Spec => BoundariesHold
  <1>1. NotifierInv /\ [Next]_vars =>
          [pc # "off" =>
             /\ scan <= scan' /\ enumerated <= enumerated'
             /\ \A s \in DOMAIN work :
                   /\ s > scan /\ s <= scan' => s \notin DOMAIN work' \/ work'[s].disposition \notin Waiting
                   /\ s \notin DOMAIN work' => s <= scan']_vars
    BY BoundaryNext DEF BoundaryStep
  <1>. QED  BY <1>1, NotifierInvariance, PTL DEF Spec, BoundariesHold
----------------------------------------------------------------------------
(* Where a row has gone.                                                    *)

\* Why a row x read as sequence s may be missing from a later view of the inbox.
Explained(view, s, x) ==
    \/ s \in DOMAIN view.rows
    \/ s <= view.ack
    \/ /\ x.kind = "memory-pointer"
       /\ \/ view.bound[x.binding] # x.instance
          \/ Superseded(view, s, x.binding, x.instance)

\* A row of work is still what the bridge stored.
Agrees(rows) ==
    \A s \in DOMAIN work \cap DOMAIN rows :
        /\ Identity(work[s]) = Identity(Projection(rows[s]))
        /\ work[s].kind = "peer" => rows[s].kind = "user"

\* A job is running on a snapshot.
Held == pc \in {"seed", "reconcile", "ingest", "recheck", "reserve"} \/ op = "reconcile"

WithinHead ==
    /\ DOMAIN work \subseteq 1..head
    /\ enumerated <= head
    /\ DOMAIN snap.rows \subseteq 1..head
    /\ snap.ack <= ack

\* Nothing anywhere carries an instance that bind() has yet to hand out.
InstancesAreOld ==
    /\ \A b \in Binding : bound[b] <= instances
    /\ \A s \in DOMAIN snap.rows :
          snap.rows[s].kind = "memory-pointer" => snap.rows[s].instance <= instances
    /\ \A s \in DOMAIN work :
          work[s].kind = "memory-pointer" => work[s].instance <= instances

SnapshotIsTraced ==
    \A s \in DOMAIN snap.rows :
        /\ Explained(Snapshot, s, snap.rows[s])
        /\ s \in DOMAIN inbox => inbox[s] = snap.rows[s]

WorkIsTraced ==
    /\ Agrees(inbox)
    /\ \A s \in DOMAIN work : Explained(Snapshot, s, work[s])

\* The snapshot of a running job is valid, explains every row of work, and holds
\* every retained row that it could have held.
HeldIsComplete ==
    Held => /\ ~SnapshotInvalid(snap)
            /\ Agrees(snap.rows)
            /\ \A s \in DOMAIN work : Explained(snap, s, work[s])
            /\ \A s \in DOMAIN inbox :
                  (s <= enumerated \/ s \in DOMAIN work \/ \E t \in DOMAIN snap.rows : s <= t)
                      => s \in DOMAIN snap.rows

\* A settled row is settled for a reason that lasts.
SettledIsOver ==
    \A s \in DOMAIN work :
        /\ work[s].disposition = "delivered" => s \in done
        /\ work[s].disposition = "acknowledged" => s <= ack
        /\ work[s].disposition = "obsolete" => s \notin DOMAIN inbox

TraceInv ==
    /\ WithinHead /\ InstancesAreOld
    /\ SnapshotIsTraced /\ WorkIsTraced /\ HeldIsComplete
    /\ SettledIsOver

StartsEmpty == pc = "off" => DOMAIN work = {}

\* The inductive invariant of the flow of messages.
FlowInv == TraceInv /\ StartsEmpty /\ NoLostMessage /\ NeverBlocked

\* What one step of the bridge does to the table.
LEMMA InboxStepFacts ==
    ASSUME InboxInv, \A b \in Binding : bound[b] <= instances, InboxNext
    PROVE  /\ head <= head' /\ ack <= ack' /\ instances <= instances'
           /\ \A s \in DOMAIN inbox' \cap DOMAIN inbox : inbox'[s] = inbox[s]
           /\ \A s \in DOMAIN inbox' \ DOMAIN inbox : s > head
           /\ \A b \in Binding : bound'[b] <= instances'
  <1>1. /\ head \in Nat /\ ack \in Nat /\ instances \in Nat
        /\ bound \in [Binding -> 0..MaxInstance]
        /\ \A s \in DOMAIN inbox : s \in 1..head
    BY InboxAssumption DEF InboxInv, InboxTypeOK
  <1>2. CASE \E kind \in PeerKind : Store(kind)
    BY <1>1, <1>2 DEF Store, InsertRow
  <1>3. CASE \E request \in 0..head + 1 : Acknowledge(request)
    <2>1. PICK request \in 0..head + 1 : Acknowledge(request)
      BY <1>3
    <2>2. AckTarget(request) \in Nat
      BY <1>1 DEF AckTarget, Smaller
    <2>3. ack <= ack' /\ UNCHANGED <<head, bound, instances>>
      BY <1>1, <2>1, <2>2 DEF Acknowledge, AckWatermark, Larger
    <2>4. DOMAIN inbox' \subseteq DOMAIN inbox /\ \A s \in DOMAIN inbox' : inbox'[s] = inbox[s]
      BY <2>1 DEF Acknowledge, Restrict
    <2>. QED  BY <1>1, <2>3, <2>4
  <1>4. CASE \E b \in Binding : Bind(b)
    BY <1>1, <1>4 DEF Bind
  <1>5. CASE \E b \in Binding : Unbind(b)
    BY <1>1, <1>5 DEF Unbind, Restrict
  <1>6. CASE \E b \in Binding : Refresh(b)
    BY <1>1, <1>6 DEF Refresh, InsertRow
  <1>. QED  BY <1>2, <1>3, <1>4, <1>5, <1>6 DEF InboxNext

\* Every disappearance stays explained: by the watermark, by the binding's instance
\* or by a newer pointer.
LEMMA ExplainedNext ==
    ASSUME InboxInv, InboxNext, NEW s \in 1..head, NEW x,
           x.kind = "memory-pointer" =>
              /\ x.binding \in Binding /\ x.instance \in Nat
              /\ x.instance # 0 /\ x.instance <= instances,
           s \in DOMAIN inbox /\ inbox[s].kind = "memory-pointer" =>
              /\ x.kind = "memory-pointer"
              /\ x.binding = inbox[s].binding /\ x.instance = inbox[s].instance,
           Explained(Snapshot, s, x)
    PROVE  Explained(Snapshot', s, x)
  <1>1. /\ head \in Nat /\ ack \in Nat /\ instances \in Nat /\ s \in Nat
        /\ bound \in [Binding -> 0..MaxInstance]
        /\ \A t \in DOMAIN inbox : t \in 1..head
        /\ inbox = [t \in DOMAIN inbox |-> inbox[t]]
    BY InboxAssumption DEF InboxInv, InboxTypeOK
  <1>2. /\ Snapshot.rows = inbox /\ Snapshot.ack = ack /\ Snapshot.bound = bound
        /\ Snapshot'.rows = inbox' /\ Snapshot'.ack = ack' /\ Snapshot'.bound = bound'
    BY DEF Snapshot
  <1>. DEFINE Newer(rows, t) == /\ t \in DOMAIN rows /\ t > s
                                /\ rows[t].kind = "memory-pointer"
                                /\ rows[t].binding = x.binding
                                /\ rows[t].instance = x.instance
  <1>3. \/ s \in DOMAIN inbox
        \/ s <= ack
        \/ x.kind = "memory-pointer" /\ bound[x.binding] # x.instance
        \/ x.kind = "memory-pointer" /\ \E t : Newer(inbox, t)
    BY <1>2 DEF Explained, Superseded
  <1>4. SUFFICES \/ s \in DOMAIN inbox'
                 \/ s <= ack'
                 \/ x.kind = "memory-pointer" /\ bound'[x.binding] # x.instance
                 \/ x.kind = "memory-pointer" /\ \E t : Newer(inbox', t)
    BY <1>2 DEF Explained, Superseded
  <1>5. CASE \E kind \in PeerKind : Store(kind)
    <2>1. /\ DOMAIN inbox \subseteq DOMAIN inbox' /\ ack' = ack /\ bound' = bound
          /\ \A t \in DOMAIN inbox : inbox'[t] = inbox[t]
      BY <1>1, <1>5 DEF Store, InsertRow
    <2>. QED  BY <1>3, <2>1
  <1>6. CASE \E request \in 0..head + 1 : Acknowledge(request)
    <2>1. PICK request \in 0..head + 1 : Acknowledge(request)
      BY <1>6
    <2>. DEFINE through == AckTarget(request)
    <2>2. through \in Nat
      BY <1>1 DEF AckTarget, Smaller
    <2>3. ack' \in Nat /\ ack <= ack' /\ through <= ack' /\ bound' = bound
      BY <1>1, <2>1, <2>2 DEF Acknowledge, AckWatermark, Larger
    <2>4. /\ \A t \in DOMAIN inbox : t \in DOMAIN inbox' \/ t <= through
          /\ \A t \in DOMAIN inbox' : inbox'[t] = inbox[t]
      BY <2>1 DEF Acknowledge, AckedRows, Restrict
    <2>. HIDE DEF through
    <2>5. \A t \in DOMAIN inbox : t \in DOMAIN inbox' \/ t <= ack'
      BY <1>1, <2>2, <2>3, <2>4
    <2>6. CASE s \in DOMAIN inbox \/ s <= ack
      BY <1>1, <2>3, <2>5, <2>6
    <2>7. CASE x.kind = "memory-pointer" /\ bound[x.binding] # x.instance
      BY <2>3, <2>7
    <2>8. CASE x.kind = "memory-pointer" /\ \E t : Newer(inbox, t)
      <3>1. PICK t : Newer(inbox, t)
        BY <2>8
      <3>2. CASE t \in DOMAIN inbox'
        BY <2>4, <2>8, <3>1, <3>2
      <3>3. CASE t <= ack'
        BY <1>1, <2>3, <3>1, <3>3
      <3>. QED  BY <2>5, <3>1, <3>2, <3>3
    <2>. QED  BY <1>3, <2>6, <2>7, <2>8
  <1>7. CASE \E b \in Binding : Bind(b)
    <2>1. PICK b \in Binding : Bind(b)
      BY <1>7
    <2>2. /\ inbox' = inbox /\ ack' = ack /\ bound[b] = 0
          /\ bound' = [bound EXCEPT ![b] = instances + 1]
      BY <2>1 DEF Bind
    <2>3. x.kind = "memory-pointer" /\ bound[x.binding] # x.instance
             => bound'[x.binding] # x.instance
      BY <1>1, <2>2
    <2>. QED  BY <1>3, <2>2, <2>3
  <1>8. CASE \E b \in Binding : Unbind(b)
    <2>1. PICK b \in Binding : Unbind(b)
      BY <1>8
    <2>2. /\ ack' = ack /\ bound' = [bound EXCEPT ![b] = 0]
          /\ \A t \in DOMAIN inbox :
                \/ t \in DOMAIN inbox'
                \/ inbox[t].kind = "memory-pointer" /\ inbox[t].binding = b
          /\ \A t \in DOMAIN inbox' : inbox'[t] = inbox[t]
      BY <2>1 DEF Unbind, UnboundRows, Pointers, Restrict
    <2>3. x.kind = "memory-pointer" /\ (x.binding = b \/ bound[x.binding] # x.instance)
             => bound'[x.binding] # x.instance
      BY <1>1, <2>2
    <2>4. CASE s \in DOMAIN inbox
      BY <2>2, <2>3, <2>4
    <2>5. CASE x.kind = "memory-pointer" /\ \E t : Newer(inbox, t)
      <3>1. PICK t : Newer(inbox, t)
        BY <2>5
      <3>2. CASE t \in DOMAIN inbox'
        BY <2>2, <2>5, <3>1, <3>2
      <3>3. CASE inbox[t].binding = b
        BY <2>3, <2>5, <3>1, <3>3
      <3>. QED  BY <2>2, <3>1, <3>2, <3>3
    <2>. QED  BY <1>3, <2>2, <2>3, <2>4, <2>5
  <1>9. CASE \E b \in Binding : Refresh(b)
    <2>1. PICK b \in Binding : Refresh(b)
      BY <1>9
    <2>2. /\ ack' = ack /\ bound' = bound
          /\ \A t \in DOMAIN inbox :
                \/ t \in DOMAIN inbox' /\ inbox'[t] = inbox[t]
                \/ inbox[t].kind = "memory-pointer" /\ inbox[t].binding = b
          /\ head + 1 \in DOMAIN inbox'
          /\ inbox'[head + 1] = [kind |-> "memory-pointer", binding |-> b, instance |-> bound[b]]
      BY <1>1, <2>1 DEF Refresh, InsertRow, Pointers
    <2>3. \A t \in DOMAIN inbox :
              inbox[t].kind = "memory-pointer" => inbox[t].instance = bound[inbox[t].binding]
      BY DEF InboxInv, PointersAreCurrent
    <2>4. ASSUME x.kind = "memory-pointer", x.binding = b, x.instance = bound[b]
          PROVE  Newer(inbox', head + 1)
      BY <1>1, <2>2, <2>4
    <2>5. CASE s \in DOMAIN inbox
      BY <2>2, <2>3, <2>4, <2>5
    <2>6. CASE x.kind = "memory-pointer" /\ \E t : Newer(inbox, t)
      <3>1. PICK t : Newer(inbox, t)
        BY <2>6
      <3>2. CASE t \in DOMAIN inbox' /\ inbox'[t] = inbox[t]
        BY <2>6, <3>1, <3>2
      <3>3. CASE inbox[t].binding = b
        BY <2>3, <2>4, <2>6, <3>1, <3>3
      <3>. QED  BY <2>2, <3>1, <3>2, <3>3
    <2>. QED  BY <1>3, <2>2, <2>5, <2>6
  <1>. QED  BY <1>5, <1>6, <1>7, <1>8, <1>9 DEF InboxNext

\* The parts of the invariant after a step, with the views spelled out.
LEMMA TraceAfter ==
    ASSUME WithinHead', InstancesAreOld', SettledIsOver',
           \A s \in DOMAIN snap'.rows :
              /\ Explained(Snapshot', s, snap'.rows[s])
              /\ s \in DOMAIN inbox' => inbox'[s] = snap'.rows[s],
           \A s \in DOMAIN work' \cap DOMAIN inbox' :
              /\ Identity(work'[s]) = Identity(Projection(inbox'[s]))
              /\ work'[s].kind = "peer" => inbox'[s].kind = "user",
           \A s \in DOMAIN work' : Explained(Snapshot', s, work'[s]),
           Held' =>
              /\ ~SnapshotInvalid(snap')
              /\ \A s \in DOMAIN work' \cap DOMAIN snap'.rows :
                    /\ Identity(work'[s]) = Identity(Projection(snap'.rows[s]))
                    /\ work'[s].kind = "peer" => snap'.rows[s].kind = "user"
              /\ \A s \in DOMAIN work' : Explained(snap', s, work'[s])
              /\ \A s \in DOMAIN inbox' :
                    (s <= enumerated' \/ s \in DOMAIN work' \/ \E t \in DOMAIN snap'.rows : s <= t)
                        => s \in DOMAIN snap'.rows
    PROVE  TraceInv'
  <1>1. SnapshotIsTraced'
    BY DEF SnapshotIsTraced, Explained, Superseded
  <1>2. WorkIsTraced'
    BY DEF WorkIsTraced, Agrees, Explained, Superseded, Identity, Projection
  <1>3. HeldIsComplete'
    <2>. SUFFICES ASSUME Held'
                  PROVE  (/\ ~SnapshotInvalid(snap)
                          /\ Agrees(snap.rows)
                          /\ \A s \in DOMAIN work : Explained(snap, s, work[s])
                          /\ \A s \in DOMAIN inbox :
                                (s <= enumerated \/ s \in DOMAIN work
                                   \/ \E t \in DOMAIN snap.rows : s <= t)
                                    => s \in DOMAIN snap.rows)'
      BY DEF HeldIsComplete
    <2>1. (~SnapshotInvalid(snap))'
      BY DEF SnapshotInvalid
    <2>2. (Agrees(snap.rows))'
      BY DEF Agrees, Identity, Projection
    <2>3. (\A s \in DOMAIN work : Explained(snap, s, work[s]))'
      BY DEF Explained, Superseded
    <2>4. (\A s \in DOMAIN inbox :
                                (s <= enumerated \/ s \in DOMAIN work
                                   \/ \E t \in DOMAIN snap.rows : s <= t)
                                    => s \in DOMAIN snap.rows)'
      OBVIOUS
    <2>. QED  BY <2>1, <2>2, <2>3, <2>4
  <1>. QED  BY <1>1, <1>2, <1>3 DEF TraceInv

\* The bridge goes on while a job works on its snapshot.
LEMMA BridgeKeepsFlow ==
    ASSUME NotifierInv, FlowInv, Bridge
    PROVE  FlowInv'
  <1>1. /\ InboxInv /\ JournalInv /\ SnapshotOK(snap)
        /\ WithinHead /\ InstancesAreOld /\ SnapshotIsTraced /\ WorkIsTraced
        /\ HeldIsComplete /\ SettledIsOver /\ StartsEmpty /\ NoLostMessage /\ NeverBlocked
    BY DEF NotifierInv, FlowInv, TraceInv
  <1>2. /\ InboxNext
        /\ UNCHANGED <<imported, scan, enumerated, seeded, work, attempt, counters>>
        /\ UNCHANGED <<pc, snap, op, blocked, done>>
    BY DEF Bridge, journalVars, loopVars, operatorVars, ghostVars
  <1>3. InboxInv'
    BY <1>1, <1>2, InboxInvNext
  <1>4. /\ head <= head' /\ ack <= ack' /\ instances <= instances'
        /\ \A s \in DOMAIN inbox' \cap DOMAIN inbox : inbox'[s] = inbox[s]
        /\ \A s \in DOMAIN inbox' \ DOMAIN inbox : s > head
        /\ \A b \in Binding : bound'[b] <= instances'
    BY <1>1, <1>2, InboxStepFacts DEF InstancesAreOld
  <1>5. /\ head \in Nat /\ head' \in Nat /\ ack \in Nat /\ ack' \in Nat
        /\ instances \in Nat /\ instances' \in Nat /\ enumerated \in Nat
        /\ snap.ack \in Nat
        /\ \A s \in DOMAIN inbox' : s \in Nat
    BY <1>1, <1>3, InboxAssumption
       DEF InboxInv, InboxTypeOK, JournalInv, JournalTypeOK, SnapshotOK
  <1>6. \A s \in DOMAIN inbox' : s <= head => s \in DOMAIN inbox /\ inbox'[s] = inbox[s]
    BY <1>4, <1>5
  <1>7. ASSUME NEW s \in DOMAIN snap.rows
        PROVE  /\ Explained(Snapshot', s, snap.rows[s])
               /\ s \in DOMAIN inbox' => inbox'[s] = snap.rows[s]
               /\ snap.rows[s].kind = "memory-pointer" => snap.rows[s].instance <= instances'
    <2>. DEFINE x == snap.rows[s]
    <2>1. /\ s \in 1..head /\ Explained(Snapshot, s, x)
          /\ x.kind = "memory-pointer" => x.instance <= instances
          /\ s \in DOMAIN inbox => inbox[s] = x
      BY <1>1 DEF WithinHead, SnapshotIsTraced, InstancesAreOld
    <2>2. /\ x.instance \in Nat
          /\ x.kind = "memory-pointer" => x.binding \in Binding /\ x.instance # 0
      BY <1>1 DEF SnapshotOK, InboxRow
    <2>. HIDE DEF x
    <2>3. Explained(Snapshot', s, x)
      BY <1>1, <1>2, <2>1, <2>2, ExplainedNext
    <2>4. s \in DOMAIN inbox' => inbox'[s] = x
      BY <1>5, <1>6, <2>1
    <2>5. x.kind = "memory-pointer" => x.instance <= instances'
      BY <1>4, <1>5, <2>1, <2>2
    <2>. QED  BY <2>3, <2>4, <2>5 DEF x
  <1>8. ASSUME NEW s \in DOMAIN work
        PROVE  /\ Explained(Snapshot', s, work[s])
               /\ s \in DOMAIN inbox' =>
                     /\ s \in DOMAIN inbox /\ inbox'[s] = inbox[s]
               /\ work[s].kind = "memory-pointer" => work[s].instance <= instances'
    <2>. DEFINE x == work[s]
    <2>1. /\ s \in 1..head /\ Explained(Snapshot, s, x)
          /\ x.kind = "memory-pointer" => x.instance <= instances
      BY <1>1 DEF WithinHead, WorkIsTraced, InstancesAreOld
    <2>2. x \in WorkRow /\ RowValid(x)
      BY <1>1 DEF JournalInv, JournalTypeOK, JournalValid
    <2>3. /\ x.instance \in Nat /\ x.kind \in {"peer", "memory-pointer"}
          /\ x.kind = "memory-pointer" => x.binding \in Binding /\ x.instance # 0
      BY <2>2 DEF WorkRow, RowValid
    <2>4. s \in DOMAIN inbox => /\ Identity(x) = Identity(Projection(inbox[s]))
                                /\ x.kind = "peer" => inbox[s].kind = "user"
      BY <1>1 DEF WorkIsTraced, Agrees
    <2>. HIDE DEF x
    <2>5. s \in DOMAIN inbox /\ inbox[s].kind = "memory-pointer" =>
              /\ x.kind = "memory-pointer"
              /\ x.binding = inbox[s].binding /\ x.instance = inbox[s].instance
      BY <2>3, <2>4 DEF Identity, Projection
    <2>6. Explained(Snapshot', s, x)
      BY <1>1, <1>2, <2>1, <2>3, <2>5, ExplainedNext
    <2>7. s \in DOMAIN inbox' => s \in DOMAIN inbox /\ inbox'[s] = inbox[s]
      BY <1>5, <1>6, <2>1
    <2>8. x.kind = "memory-pointer" => x.instance <= instances'
      BY <1>4, <1>5, <2>1, <2>3
    <2>. QED  BY <2>6, <2>7, <2>8 DEF x
  <1>9. WithinHead'
    <2>1. \A k \in 1..head : k \in 1..head'
      BY <1>4, <1>5
    <2>. QED  BY <1>1, <1>2, <1>4, <1>5, <2>1 DEF WithinHead
  <1>10. InstancesAreOld'
    BY <1>2, <1>4, <1>7, <1>8 DEF InstancesAreOld
  <1>11. SettledIsOver'
    <2>. SUFFICES ASSUME NEW s \in DOMAIN work
                  PROVE  /\ work[s].disposition = "delivered" => s \in done
                         /\ work[s].disposition = "acknowledged" => s <= ack'
                         /\ work[s].disposition = "obsolete" => s \notin DOMAIN inbox'
      BY <1>2 DEF SettledIsOver
    <2>1. s \in Nat
      BY <1>1 DEF WithinHead
    <2>. QED  BY <1>1, <1>4, <1>5, <1>8, <2>1 DEF SettledIsOver
  <1>12. \A s \in DOMAIN work' \cap DOMAIN inbox' :
              /\ Identity(work'[s]) = Identity(Projection(inbox'[s]))
              /\ work'[s].kind = "peer" => inbox'[s].kind = "user"
    BY <1>1, <1>2, <1>8 DEF WorkIsTraced, Agrees
  <1>13. ASSUME Held'
         PROVE  /\ ~SnapshotInvalid(snap')
                /\ \A s \in DOMAIN work' \cap DOMAIN snap'.rows :
                    /\ Identity(work'[s]) = Identity(Projection(snap'.rows[s]))
                    /\ work'[s].kind = "peer" => snap'.rows[s].kind = "user"
                /\ \A s \in DOMAIN work' : Explained(snap', s, work'[s])
                /\ \A s \in DOMAIN inbox' :
                    (s <= enumerated' \/ s \in DOMAIN work' \/ \E t \in DOMAIN snap'.rows : s <= t)
                        => s \in DOMAIN snap'.rows
    <2>1. Held
      BY <1>2, <1>13 DEF Held
    <2>2. /\ ~SnapshotInvalid(snap) /\ Agrees(snap.rows)
          /\ \A s \in DOMAIN work : Explained(snap, s, work[s])
          /\ \A s \in DOMAIN inbox :
                (s <= enumerated \/ s \in DOMAIN work \/ \E t \in DOMAIN snap.rows : s <= t)
                    => s \in DOMAIN snap.rows
      BY <1>1, <2>1 DEF HeldIsComplete
    <2>3. ASSUME NEW s \in DOMAIN inbox',
                 s <= enumerated \/ s \in DOMAIN work \/ \E t \in DOMAIN snap.rows : s <= t
          PROVE  s \in DOMAIN snap.rows
      <3>1. s <= head
        BY <1>1, <1>5, <2>3 DEF WithinHead
      <3>. QED  BY <1>6, <2>2, <2>3, <3>1
    <2>. QED  BY <1>2, <2>2, <2>3 DEF Agrees
  <1>14. TraceInv'
    <2>1. snap' = snap /\ work' = work
      BY <1>2
    <2>2. \A s \in DOMAIN snap'.rows :
              /\ Explained(Snapshot', s, snap'.rows[s])
              /\ s \in DOMAIN inbox' => inbox'[s] = snap'.rows[s]
      BY <1>7, <2>1
    <2>3. \A s \in DOMAIN work' : Explained(Snapshot', s, work'[s])
      BY <1>8, <2>1
    <2>. QED  BY <1>9, <1>10, <1>11, <1>12, <1>13, <2>2, <2>3, TraceAfter
  <1>15. NoLostMessage'
    <2>. SUFFICES ASSUME NEW s \in DOMAIN inbox'
                  PROVE  /\ inbox'[s].kind = "user" /\ imported < s /\ s <= enumerated
                              => s \in DOMAIN work \cup done
                         /\ inbox'[s].kind = "memory-pointer" /\ PointerCapable /\ seeded
                                 /\ s <= enumerated
                              => s \in DOMAIN work \cup done
      BY <1>2 DEF NoLostMessage
    <2>1. s <= enumerated => s \in DOMAIN inbox /\ inbox'[s] = inbox[s]
      BY <1>1, <1>5, <1>6 DEF WithinHead
    <2>. QED  BY <1>1, <2>1 DEF NoLostMessage
  <1>. QED  BY <1>1, <1>2, <1>14, <1>15 DEF FlowInv, NeverBlocked, StartsEmpty

\* Whether a row is explained depends on what it is and on nothing else of it.
LEMMA ExplainedByIdentity ==
    ASSUME NEW view, NEW s, NEW x, NEW y, Identity(x) = Identity(y), Explained(view, s, x)
    PROVE  Explained(view, s, y)
  <1>1. x.kind = y.kind /\ x.binding = y.binding /\ x.instance = y.instance
    BY DEF Identity
  <1>. QED  BY <1>1 DEF Explained

\* A fresh snapshot is valid.
LEMMA SnapshotIsValid ==
    ASSUME InboxInv
    PROVE  ~SnapshotInvalid(Snapshot)
  <1>1. Snapshot.rows = inbox /\ Snapshot.bound = bound
    BY DEF Snapshot
  <1>. SUFFICES ASSUME NEW s \in DOMAIN inbox, inbox[s].kind = "memory-pointer"
                PROVE  /\ bound[inbox[s].binding] = inbox[s].instance
                       /\ \A t \in DOMAIN inbox \ {s} :
                             ~(inbox[t].kind = "memory-pointer"
                                 /\ inbox[t].binding = inbox[s].binding)
    BY <1>1 DEF SnapshotInvalid
  <1>2. inbox[s].instance = bound[inbox[s].binding] /\ Pointers(inbox[s].binding) = {s}
    BY DEF InboxInv, PointersAreCurrent
  <1>. QED  BY <1>2 DEF Pointers

\* A step of the notifier: the inbox stays, rows of work change as RowsFollow allows,
\* new rows come from the snapshot, and the snapshot is kept, dropped or read anew.
LEMMA StepKeepsTrace ==
    ASSUME NotifierInv, JournalInv', TraceInv, UNCHANGED inboxVars,
           NEW closed, NEW acked, NEW vanished, RowsFollow(closed, acked, vanished),
           done \subseteq done', closed \subseteq done',
           \A s \in acked : s <= ack, \A s \in vanished : s \notin DOMAIN inbox,
           enumerated' <= head,
           \A s \in DOMAIN work' \ DOMAIN work :
              /\ s \in DOMAIN snap.rows
              /\ Identity(work'[s]) = Identity(Projection(snap.rows[s]))
              /\ work'[s].kind = "peer" => snap.rows[s].kind = "user"
              /\ work'[s].disposition = "pending",
           \/ snap' = Snapshot
           \/ snap' = NoSnapshot /\ ~Held'
           \/ /\ snap' = snap
              /\ Held' => /\ Held /\ DOMAIN work' \subseteq DOMAIN work
                          /\ enumerated' = enumerated
    PROVE  TraceInv'
  <1>1. /\ InboxInv /\ SnapshotOK(snap)
        /\ WithinHead /\ InstancesAreOld /\ SnapshotIsTraced /\ WorkIsTraced
        /\ HeldIsComplete /\ SettledIsOver
    BY DEF NotifierInv, TraceInv
  <1>2. /\ head' = head /\ inbox' = inbox /\ ack' = ack /\ bound' = bound
        /\ instances' = instances /\ Snapshot' = Snapshot
    BY DEF inboxVars, Snapshot
  <1>3. /\ head \in Nat /\ ack \in Nat /\ DOMAIN inbox \subseteq 1..head
        /\ \A s \in DOMAIN inbox : inbox[s] \in InboxRow
    BY <1>1, InboxAssumption DEF InboxInv, InboxTypeOK
  <1>4. /\ Snapshot.rows = inbox /\ Snapshot.ack = ack /\ Snapshot.bound = bound
        /\ NoSnapshot.ack = 0 /\ DOMAIN NoSnapshot.rows = {}
    BY DEF Snapshot, NoSnapshot
  <1>5. \A s \in DOMAIN inbox :
            inbox[s].kind = "memory-pointer" => inbox[s].instance <= instances
    BY <1>1 DEF InboxInv, PointersAreCurrent, Bound, InstancesAreOld
  <1>6. \A s \in DOMAIN work' \cap DOMAIN work : Identity(work'[s]) = Identity(work[s])
    BY DEF RowsFollow
  <1>7. \A s \in DOMAIN work' : work'[s].kind \in {"peer", "memory-pointer"}
    BY DEF JournalInv, JournalTypeOK, WorkRow
  <1>8. ASSUME NEW s \in DOMAIN work'
        PROVE  /\ s \in 1..head
               /\ Explained(Snapshot, s, work'[s])
               /\ work'[s].kind = "memory-pointer" => work'[s].instance <= instances
               /\ s \in DOMAIN inbox =>
                     /\ Identity(work'[s]) = Identity(Projection(inbox[s]))
                     /\ work'[s].kind = "peer" => inbox[s].kind = "user"
    <2>1. CASE s \in DOMAIN work
      <3>1. Identity(work'[s]) = Identity(work[s])
        BY <1>6, <2>1
      <3>2. work'[s].kind = work[s].kind /\ work'[s].instance = work[s].instance
        BY <3>1 DEF Identity
      <3>3. Explained(Snapshot, s, work'[s])
        BY <1>1, <2>1, <3>1, ExplainedByIdentity DEF WorkIsTraced
      <3>. QED  BY <1>1, <2>1, <3>1, <3>2, <3>3
                DEF WithinHead, InstancesAreOld, WorkIsTraced, Agrees
    <2>2. CASE s \notin DOMAIN work
      <3>. DEFINE x == snap.rows[s]
      <3>1. /\ s \in DOMAIN snap.rows
            /\ Identity(work'[s]) = Identity(Projection(x))
            /\ work'[s].kind = "peer" => x.kind = "user"
        BY <2>2
      <3>2. /\ s \in 1..head /\ Explained(Snapshot, s, x)
            /\ x.kind = "memory-pointer" => x.instance <= instances
            /\ s \in DOMAIN inbox => inbox[s] = x
        BY <1>1, <3>1 DEF WithinHead, InstancesAreOld, SnapshotIsTraced
      <3>. HIDE DEF x
      <3>3. CASE work'[s].kind = "memory-pointer"
        <4>1. x.kind = "memory-pointer" /\ x.binding = work'[s].binding
              /\ x.instance = work'[s].instance
          BY <3>1, <3>3 DEF Identity, Projection
        <4>2. Identity(x) = Identity(work'[s])
          BY <3>3, <4>1 DEF Identity
        <4>3. Explained(Snapshot, s, work'[s])
          BY <3>2, <4>2, ExplainedByIdentity
        <4>. QED  BY <3>1, <3>2, <3>3, <4>1, <4>3
      <3>4. CASE work'[s].kind = "peer"
        <4>1. x.kind = "user"
          BY <3>1, <3>4
        <4>2. Explained(Snapshot, s, work'[s])
          BY <3>2, <4>1 DEF Explained
        <4>. QED  BY <3>1, <3>2, <3>4, <4>1, <4>2
      <3>. QED  BY <1>7, <3>3, <3>4
    <2>. QED  BY <2>1, <2>2
  <1>9. WithinHead'
    <2>1. DOMAIN snap'.rows \subseteq 1..head /\ snap'.ack <= ack
      BY <1>1, <1>3, <1>4 DEF WithinHead
    <2>2. DOMAIN work' \subseteq 1..head
      BY <1>8
    <2>. QED  BY <1>2, <2>1, <2>2 DEF WithinHead
  <1>10. InstancesAreOld'
    <2>1. \A s \in DOMAIN snap'.rows :
              snap'.rows[s].kind = "memory-pointer" => snap'.rows[s].instance <= instances
      BY <1>1, <1>4, <1>5 DEF InstancesAreOld
    <2>2. \A b \in Binding : bound[b] <= instances
      BY <1>1 DEF InstancesAreOld
    <2>. QED  BY <1>2, <1>8, <2>1, <2>2 DEF InstancesAreOld
  <1>11. SettledIsOver'
    <2>. SUFFICES ASSUME NEW s \in DOMAIN work'
                  PROVE  /\ work'[s].disposition = "delivered" => s \in done'
                         /\ work'[s].disposition = "acknowledged" => s <= ack
                         /\ work'[s].disposition = "obsolete" => s \notin DOMAIN inbox
      BY <1>2 DEF SettledIsOver
    <2>1. CASE s \in DOMAIN work
      <3>1. work'[s].disposition \in Settled =>
                \/ work'[s].disposition = work[s].disposition
                \/ work'[s].disposition = "delivered" /\ s \in closed
                \/ work'[s].disposition = "acknowledged" /\ s \in acked
                \/ work'[s].disposition = "obsolete" /\ s \in vanished
        BY <2>1 DEF RowsFollow
      <3>2. /\ work[s].disposition = "delivered" => s \in done
            /\ work[s].disposition = "acknowledged" => s <= ack
            /\ work[s].disposition = "obsolete" => s \notin DOMAIN inbox
        BY <1>1, <2>1 DEF SettledIsOver
      <3>. QED  BY <3>1, <3>2 DEF Settled
    <2>2. CASE s \notin DOMAIN work
      BY <2>2
    <2>. QED  BY <2>1, <2>2
  <1>12. \A s \in DOMAIN snap'.rows :
              /\ Explained(Snapshot, s, snap'.rows[s])
              /\ s \in DOMAIN inbox => inbox[s] = snap'.rows[s]
    <2>1. CASE snap' = Snapshot
      BY <1>4, <2>1 DEF Explained
    <2>2. CASE snap' = NoSnapshot
      BY <1>4, <2>2
    <2>3. CASE snap' = snap
      BY <1>1, <2>3 DEF SnapshotIsTraced
    <2>. QED  BY <2>1, <2>2, <2>3
  <1>13. ASSUME Held'
         PROVE  /\ ~SnapshotInvalid(snap')
                /\ \A s \in DOMAIN work' \cap DOMAIN snap'.rows :
                    /\ Identity(work'[s]) = Identity(Projection(snap'.rows[s]))
                    /\ work'[s].kind = "peer" => snap'.rows[s].kind = "user"
                /\ \A s \in DOMAIN work' : Explained(snap', s, work'[s])
                /\ \A s \in DOMAIN inbox' :
                    (s <= enumerated' \/ s \in DOMAIN work' \/ \E t \in DOMAIN snap'.rows : s <= t)
                        => s \in DOMAIN snap'.rows
    <2>1. CASE snap' = Snapshot
      <3>1. ~SnapshotInvalid(snap')
        BY <1>1, <2>1, SnapshotIsValid
      <3>. QED  BY <1>2, <1>4, <1>8, <2>1, <3>1
    <2>2. CASE /\ snap' = snap /\ Held /\ DOMAIN work' \subseteq DOMAIN work
               /\ enumerated' = enumerated
      <3>1. /\ ~SnapshotInvalid(snap) /\ Agrees(snap.rows)
            /\ \A s \in DOMAIN work : Explained(snap, s, work[s])
            /\ \A s \in DOMAIN inbox :
                  (s <= enumerated \/ s \in DOMAIN work \/ \E t \in DOMAIN snap.rows : s <= t)
                      => s \in DOMAIN snap.rows
        BY <1>1, <2>2 DEF HeldIsComplete
      <3>2. \A s \in DOMAIN work' : s \in DOMAIN work /\ Identity(work'[s]) = Identity(work[s])
        BY <1>6, <2>2
      <3>3. \A s \in DOMAIN work' : Explained(snap, s, work'[s])
        BY <3>1, <3>2, ExplainedByIdentity
      <3>4. \A s \in DOMAIN work' \cap DOMAIN snap.rows :
                    /\ Identity(work'[s]) = Identity(Projection(snap.rows[s]))
                    /\ work'[s].kind = "peer" => snap.rows[s].kind = "user"
        BY <3>1, <3>2 DEF Agrees, Identity
      <3>. QED  BY <1>2, <2>2, <3>1, <3>2, <3>3, <3>4
    <2>. QED  BY <1>13, <2>1, <2>2
  <1>14. \A s \in DOMAIN work' \cap DOMAIN inbox' :
              /\ Identity(work'[s]) = Identity(Projection(inbox'[s]))
              /\ work'[s].kind = "peer" => inbox'[s].kind = "user"
    BY <1>2, <1>8
  <1>15. \A s \in DOMAIN work' : Explained(Snapshot', s, work'[s])
    BY <1>2, <1>8
  <1>16. \A s \in DOMAIN snap'.rows :
              /\ Explained(Snapshot', s, snap'.rows[s])
              /\ s \in DOMAIN inbox' => inbox'[s] = snap'.rows[s]
    BY <1>2, <1>12
  <1>. QED  BY <1>9, <1>10, <1>11, <1>13, <1>14, <1>15, <1>16, TraceAfter

\* A row that leaves the table was delivered or is no longer in the inbox.
LEMMA StepLosesNothing ==
    ASSUME NotifierInv, TraceInv, UNCHANGED inboxVars,
           NEW closed, NEW acked, NEW vanished, RowsFollow(closed, acked, vanished),
           done \subseteq done', closed \subseteq done',
           \A s \in acked : s <= ack, \A s \in vanished : s \notin DOMAIN inbox
    PROVE  \A s \in DOMAIN inbox : s \in DOMAIN work \cup done => s \in DOMAIN work' \cup done'
  <1>1. InboxInv /\ SettledIsOver
    BY DEF NotifierInv, TraceInv
  <1>. SUFFICES ASSUME NEW s \in DOMAIN inbox, s \in DOMAIN work, s \notin DOMAIN work',
                       s \notin done'
                PROVE  FALSE
    OBVIOUS
  <1>2. s > ack /\ s \in Nat /\ ack \in Nat
    BY <1>1, InboxAssumption DEF InboxInv, InboxTypeOK, RetainedAboveAck
  <1>3. work[s].disposition \in Settled \/ s \in closed \cup acked \cup vanished
    BY DEF RowsFollow
  <1>4. /\ work[s].disposition = "delivered" => s \in done
        /\ work[s].disposition = "acknowledged" => s <= ack
        /\ work[s].disposition = "obsolete" => s \notin DOMAIN inbox
    BY <1>1 DEF SettledIsOver
  <1>5. s \notin acked /\ ~(s <= ack)
    BY <1>2
  <1>. QED  BY <1>3, <1>4, <1>5 DEF Settled

\* Nothing that the bridge does between a snapshot and its use looks like damage:
\* every row of work is in the snapshot a job holds, or explained by it.
LEMMA HeldIsSound ==
    ASSUME NotifierInv, TraceInv, Held
    PROVE  /\ ~SourceFault(snap)
           /\ ~IdentityChanged(ScanRecords(snap, enumerated), FALSE)
           /\ ~IdentityChanged(SeedRecords(snap), TRUE)
           /\ \A s \in {t \in DOMAIN work : AckCapable /\ t <= snap.ack} : s <= ack
           /\ \A s \in DOMAIN work \ DOMAIN snap.rows : s \notin DOMAIN inbox
  <1>1. /\ JournalInv /\ SnapshotOK(snap) /\ WithinHead
        /\ ~SnapshotInvalid(snap) /\ Agrees(snap.rows)
        /\ \A s \in DOMAIN work : Explained(snap, s, work[s])
        /\ \A s \in DOMAIN inbox : s \in DOMAIN work => s \in DOMAIN snap.rows
    BY DEF NotifierInv, TraceInv, HeldIsComplete
  <1>2. ack \in Nat /\ snap.ack \in Nat /\ snap.ack <= ack
        /\ \A s \in DOMAIN work : s \in Nat
    BY <1>1, InboxAssumption
       DEF NotifierInv, InboxInv, InboxTypeOK, SnapshotOK, WithinHead
  <1>3. ~SourceChanged(snap)
    BY <1>1 DEF SourceChanged, Agrees, Open
  <1>4. ~SourceMissing(snap)
    <2>. SUFFICES ASSUME NEW s \in Vanished(snap),
                         \/ /\ work[s].kind = "memory-pointer"
                            /\ PointerCapable
                            /\ ~IsObsolete(snap, s)
                         \/ work[s].kind = "peer" /\ AckCapable
                  PROVE  FALSE
      BY DEF SourceMissing
    <2>1. s \in DOMAIN work /\ ~IsAcknowledged(snap, s) /\ s \notin DOMAIN snap.rows
      BY DEF Vanished, Open
    <2>2. AckCapable
      BY SourceAssumption
    <2>3. ~(s <= snap.ack)
      BY <2>1, <2>2 DEF IsAcknowledged
    <2>4. Explained(snap, s, work[s])
      BY <1>1, <2>1
    <2>. QED  BY <2>1, <2>3, <2>4 DEF Explained, IsObsolete
  <1>5. \A seqs \in SUBSET DOMAIN snap.rows, h \in BOOLEAN : ~IdentityChanged(Project(snap, seqs), h)
    BY <1>1 DEF IdentityChanged, Project, Admissible, Agrees
  <1>6. /\ ~IdentityChanged(ScanRecords(snap, enumerated), FALSE)
        /\ ~IdentityChanged(SeedRecords(snap), TRUE)
    <2>1. ScanRows(snap, enumerated) \ IgnoredRows(snap, enumerated) \in SUBSET DOMAIN snap.rows
      BY DEF ScanRows
    <2>2. {s \in DOMAIN snap.rows : PointerCapable /\ snap.rows[s].kind = "memory-pointer"}
             \in SUBSET DOMAIN snap.rows
      OBVIOUS
    <2>. QED  BY <1>5, <2>1, <2>2 DEF ScanRecords, SeedRecords
  <1>7. \A s \in {t \in DOMAIN work : AckCapable /\ t <= snap.ack} : s <= ack
    BY <1>2
  <1>8. \A s \in DOMAIN work \ DOMAIN snap.rows : s \notin DOMAIN inbox
    BY <1>1
  <1>9. ~SourceFault(snap)
    BY <1>1, <1>3, <1>4 DEF SourceFault
  <1>. QED  BY <1>6, <1>7, <1>8, <1>9

\* A step that admits no row and moves no boundary.
LEMMA StepKeepsFlow ==
    ASSUME NotifierInv, JournalInv', FlowInv, UNCHANGED inboxVars,
           UNCHANGED <<imported, enumerated, seeded>>, DOMAIN work' \subseteq DOMAIN work,
           NEW closed, NEW acked, NEW vanished, RowsFollow(closed, acked, vanished),
           done \subseteq done', closed \subseteq done',
           \A s \in acked : s <= ack, \A s \in vanished : s \notin DOMAIN inbox,
           pc' # "off", ~blocked',
           \/ snap' = Snapshot
           \/ snap' = NoSnapshot /\ ~Held'
           \/ snap' = snap /\ (Held' => Held)
    PROVE  FlowInv'
  <1>1. TraceInv /\ NoLostMessage
    BY DEF FlowInv
  <1>2. enumerated' <= head
    BY <1>1 DEF TraceInv, WithinHead
  <1>3. TraceInv'
    BY <1>1, <1>2, StepKeepsTrace
  <1>4. \A s \in DOMAIN inbox : s \in DOMAIN work \cup done => s \in DOMAIN work' \cup done'
    BY <1>1, StepLosesNothing
  <1>5. inbox' = inbox
    BY DEF inboxVars
  <1>6. NoLostMessage'
    BY <1>1, <1>4, <1>5 DEF NoLostMessage
  <1>. QED  BY <1>3, <1>6 DEF FlowInv, StartsEmpty, NeverBlocked

\* A step that leaves the journal alone.
LEMMA LoopStepKeepsFlow ==
    ASSUME NotifierInv, FlowInv, UNCHANGED inboxVars, UNCHANGED journalVars, done' = done,
           pc' # "off", ~blocked',
           \/ snap' = Snapshot
           \/ snap' = NoSnapshot /\ ~Held'
           \/ snap' = snap /\ (Held' => Held)
    PROVE  FlowInv'
  <1>1. JournalInv /\ UNCHANGED <<imported, enumerated, seeded, work, scan>>
    BY DEF NotifierInv, journalVars
  <1>2. JournalInv'
    BY <1>1, JournalUnchanged
  <1>3. RowsFollow({}, {}, {})
    BY <1>1, UntouchedRows
  <1>. QED  BY <1>1, <1>2, <1>3, StepKeepsFlow

\* A scan returns every row up to the one it stopped at.
LEMMA ScanReadsPrefix ==
    ASSUME NEW view, SnapshotOK(view), NEW after \in 0..MaxSeq
    PROVE  /\ ScannedThrough(view, after) \in 0..MaxSeq
           /\ ScannedThrough(view, after) \in DOMAIN view.rows \cup {after}
           /\ ScannedThrough(view, after) >= after
           /\ \A s \in DOMAIN view.rows :
                 after < s /\ s <= ScannedThrough(view, after) => s \in ScanRows(view, after)
  <1>. DEFINE rows == ScanRows(view, after)
              last == ScannedThrough(view, after)
  <1>1. rows \subseteq DOMAIN view.rows /\ DOMAIN view.rows \subseteq Sequence
    BY DEF ScanRows, SnapshotOK
  <1>2. rows \cup {after} \in SUBSET (0..MaxSeq) /\ rows \cup {after} # {}
    BY <1>1, InboxAssumption DEF Sequence
  <1>3. last \in rows \cup {after} /\ \A s \in rows \cup {after} : s <= last
    BY <1>2, MaxOfRange, InboxAssumption DEF ScannedThrough
  <1>4. last \in 0..MaxSeq /\ last >= after /\ last \in DOMAIN view.rows \cup {after}
    BY <1>1, <1>2, <1>3
  <1>5. ASSUME NEW s \in DOMAIN view.rows, after < s, s <= last
        PROVE  s \in rows
    <2>. HIDE DEF last
    <2>. DEFINE S == {t \in DOMAIN view.rows : after < t /\ t <= s}
                T == {t \in DOMAIN view.rows : after < t /\ t <= last}
    <2>1. s \in Nat /\ after \in Nat /\ last \in Nat /\ \A t \in DOMAIN view.rows : t \in Nat
      BY <1>1, <1>4 DEF Sequence
    <2>2. last \in rows
      BY <1>3, <1>5, <2>1
    <2>3. Cardinality(T) <= ScanLimit
      BY <2>2 DEF ScanRows
    <2>4. S \in SUBSET T /\ T \in SUBSET Sequence
      <3>1. \A t \in DOMAIN view.rows : t <= s => t <= last
        BY <1>5, <2>1
      <3>. QED  BY <1>1, <3>1
    <2>5. Cardinality(S) <= Cardinality(T) /\ Cardinality(S) \in Nat /\ Cardinality(T) \in Nat
      BY <2>4, SequencesFinite
    <2>6. Cardinality(S) <= ScanLimit
      BY <2>3, <2>5, SourceAssumption
    <2>. QED  BY <1>5, <2>6 DEF ScanRows
  <1>. QED  BY <1>4, <1>5

\* What a scan hands to ingest() is what the snapshot holds.
LEMMA RecordsAreRows ==
    ASSUME NEW view, NEW after
    PROVE  /\ DOMAIN ScanRecords(view, after) = ScanRows(view, after) \ IgnoredRows(view, after)
           /\ \A s \in DOMAIN ScanRecords(view, after) :
                 /\ s \in DOMAIN view.rows
                 /\ ScanRecords(view, after)[s] = Projection(view.rows[s])
                 /\ ScanRecords(view, after)[s].kind = "peer" => view.rows[s].kind = "user"
           /\ \A s \in ScanRows(view, after) :
                 \/ view.rows[s].kind = "user"
                 \/ view.rows[s].kind = "memory-pointer" /\ PointerCapable
                 => s \in DOMAIN ScanRecords(view, after)
           /\ DOMAIN SeedRecords(view) =
                 {s \in DOMAIN view.rows : PointerCapable /\ view.rows[s].kind = "memory-pointer"}
           /\ \A s \in DOMAIN SeedRecords(view) :
                 /\ SeedRecords(view)[s] = Projection(view.rows[s])
                 /\ SeedRecords(view)[s].kind = "memory-pointer"
  <1>1. /\ DOMAIN ScanRecords(view, after) = ScanRows(view, after) \ IgnoredRows(view, after)
        /\ \A s \in DOMAIN ScanRecords(view, after) :
              ScanRecords(view, after)[s] = Projection(view.rows[s])
    BY DEF ScanRecords, Project
  <1>2. /\ DOMAIN SeedRecords(view) =
                 {s \in DOMAIN view.rows : PointerCapable /\ view.rows[s].kind = "memory-pointer"}
        /\ \A s \in DOMAIN SeedRecords(view) :
              SeedRecords(view)[s] = Projection(view.rows[s])
    BY DEF SeedRecords, Project
  <1>3. \A s \in DOMAIN SeedRecords(view) : Projection(view.rows[s]).kind = "memory-pointer"
    BY <1>2 DEF Projection
  <1>4. \A s \in ScanRows(view, after) :
            s \in IgnoredRows(view, after)
              <=> Projection(view.rows[s]).kind = "peer" /\ view.rows[s].kind # "user"
    BY DEF IgnoredRows
  <1>5. \A s \in ScanRows(view, after) :
            view.rows[s].kind = "memory-pointer" /\ PointerCapable
              => Projection(view.rows[s]).kind = "memory-pointer"
    BY DEF Projection
  <1>6. ScanRows(view, after) \subseteq DOMAIN view.rows
    BY DEF ScanRows
  <1>. QED  BY <1>1, <1>2, <1>3, <1>4, <1>5, <1>6

\* ready() seeds every retained pointer.
LEMMA SeedKeepsFlow ==
    ASSUME NotifierInv, FlowInv, Seed
    PROVE  FlowInv'
  <1>. DEFINE records == SeedRecords(snap)
  <1>1. /\ JournalInv /\ SnapshotOK(snap) /\ TraceInv /\ NoLostMessage /\ NeverBlocked
    BY DEF NotifierInv, FlowInv
  <1>2. pc = "seed" /\ op = "none" /\ op' = op /\ UNCHANGED inboxVars /\ done' = done
    BY JobRunsAlone DEF Seed, LoopOnly, operatorVars, ghostVars
  <1>3. Held
    BY <1>2 DEF Held
  <1>4. ~SnapshotInvalid(snap) /\ ~IdentityChanged(records, TRUE)
    BY <1>1, <1>3, HeldIsSound DEF SourceFault
  <1>5. CASE Failed
    <2>1. pc' = "idle" /\ snap' = NoSnapshot /\ ~blocked' /\ UNCHANGED journalVars
      BY <1>1, <1>5 DEF Failed, Return, NeverBlocked
    <2>2. ~Held'
      BY <1>2, <2>1 DEF Held
    <2>. QED  BY <1>2, <2>1, <2>2, LoopStepKeepsFlow
  <1>6. CASE SeedPointers(records) /\ GoTo("prepare", NoSnapshot)
    <2>1. /\ pc' = "prepare" /\ snap' = NoSnapshot /\ ~blocked'
          /\ imported' = imported /\ enumerated' = enumerated
      BY <1>1, <1>6 DEF GoTo, NeverBlocked, SeedPointers
    <2>2. ~Held'
      BY <1>2, <2>1 DEF Held
    <2>3. RecordsOK(records)
      BY <1>1, SnapshotRecords DEF SeedRecords
    <2>4. JournalInv'
      BY <1>1, <1>6, <2>3, SeedFacts
    <2>5. /\ RowsFollow({}, {}, {})
          /\ DOMAIN work \subseteq DOMAIN work'
          /\ DOMAIN records \subseteq DOMAIN work'
          /\ \A s \in DOMAIN work' \ DOMAIN work :
                s \in DOMAIN records /\ work'[s] = NewWork(records[s])
      BY <1>1, <1>6, <2>3, SeedRows
    <2>6. /\ DOMAIN records =
                {s \in DOMAIN snap.rows : PointerCapable /\ snap.rows[s].kind = "memory-pointer"}
          /\ \A s \in DOMAIN records : /\ records[s] = Projection(snap.rows[s])
                                       /\ records[s].kind = "memory-pointer"
      BY RecordsAreRows
    <2>. HIDE DEF records
    <2>7. \A s \in DOMAIN work' \ DOMAIN work :
              /\ s \in DOMAIN snap.rows
              /\ Identity(work'[s]) = Identity(Projection(snap.rows[s]))
              /\ work'[s].kind # "peer"
              /\ work'[s].disposition = "pending"
      BY <2>5, <2>6 DEF NewWork, Identity
    <2>8. enumerated' <= head
      BY <1>1, <2>1 DEF TraceInv, WithinHead
    <2>9. TraceInv'
      BY <1>1, <1>2, <2>1, <2>2, <2>4, <2>5, <2>7, <2>8, StepKeepsTrace
    <2>10. NoLostMessage'
      <3>1. \A s \in DOMAIN inbox : s <= enumerated => s \in DOMAIN snap.rows
        BY <1>1, <1>3 DEF TraceInv, HeldIsComplete
      <3>2. \A s \in DOMAIN inbox \cap DOMAIN snap.rows : inbox[s] = snap.rows[s]
        BY <1>1 DEF TraceInv, SnapshotIsTraced
      <3>3. inbox' = inbox
        BY <1>2 DEF inboxVars
      <3>. QED  BY <1>1, <1>2, <2>1, <2>5, <2>6, <3>1, <3>2, <3>3 DEF NoLostMessage
    <2>. QED  BY <2>1, <2>9, <2>10 DEF FlowInv, StartsEmpty, NeverBlocked
  <1>. QED  BY <1>4, <1>5, <1>6 DEF Seed

\* ingest() admits every message up to where the scan read.
LEMMA IngestKeepsFlow ==
    ASSUME NotifierInv, FlowInv, PrepareIngest
    PROVE  FlowInv'
  <1>. DEFINE records == ScanRecords(snap, enumerated)
              through == ScannedThrough(snap, enumerated)
              ignored == IgnoredRows(snap, enumerated)
  <1>1. /\ InboxInv /\ JournalInv /\ SnapshotOK(snap) /\ TraceInv /\ NoLostMessage /\ NeverBlocked
    BY DEF NotifierInv, FlowInv
  <1>2. pc = "ingest" /\ op = "none" /\ op' = op /\ UNCHANGED inboxVars /\ done' = done
    BY JobRunsAlone DEF PrepareIngest, LoopOnly, operatorVars, ghostVars
  <1>3. Held
    BY <1>2 DEF Held
  <1>4. ~SnapshotInvalid(snap) /\ ~IdentityChanged(records, FALSE)
    BY <1>1, <1>3, HeldIsSound DEF SourceFault
  <1>5. /\ RefusedScan \/ Ingest(records, ignored, through)
        /\ pc' \in {"idle", "reserve_next"} /\ snap' = NoSnapshot /\ blocked' = blocked
    BY <1>4 DEF PrepareIngest, Return
  <1>6. ~Held' /\ ~blocked' /\ pc' # "off"
    BY <1>1, <1>2, <1>5 DEF Held, NeverBlocked
  <1>7. CASE RefusedScan
    BY <1>2, <1>5, <1>6, <1>7, LoopStepKeepsFlow DEF RefusedScan
  <1>8. CASE Ingest(records, ignored, through)
    <2>1. /\ enumerated \in 0..MaxSeq /\ scan \in 0..MaxSeq /\ scan <= enumerated
          /\ head \in Nat
          /\ \A s \in DOMAIN inbox : s \in Nat
      BY <1>1, InboxAssumption
         DEF JournalInv, JournalTypeOK, JournalValid, InboxInv, InboxTypeOK
    <2>2. RecordsOK(records) /\ ignored \in SUBSET Sequence
      BY <1>1, <2>1, ScanFacts
    <2>3. /\ through \in 0..MaxSeq /\ through \in DOMAIN snap.rows \cup {enumerated}
          /\ through >= enumerated
          /\ \A s \in DOMAIN snap.rows :
                enumerated < s /\ s <= through => s \in ScanRows(snap, enumerated)
      BY <1>1, <2>1, ScanReadsPrefix
    <2>4. /\ \A s \in DOMAIN records :
                /\ s \in DOMAIN snap.rows
                /\ records[s] = Projection(snap.rows[s])
                /\ records[s].kind = "peer" => snap.rows[s].kind = "user"
          /\ \A s \in ScanRows(snap, enumerated) :
                 \/ snap.rows[s].kind = "user"
                 \/ snap.rows[s].kind = "memory-pointer" /\ PointerCapable
                 => s \in DOMAIN records
      BY ZenonT(40), RecordsAreRows
    <2>. HIDE DEF records, through, ignored
    <2>5. JournalInv'
      BY <1>1, <1>8, <2>2, <2>3, IngestFacts
    <2>6. /\ RowsFollow({}, {}, {})
          /\ enumerated' = Larger(enumerated, through)
          /\ \A s \in DOMAIN records : s > scan => s \in DOMAIN work \cup DOMAIN work'
          /\ \A s \in DOMAIN work' \ DOMAIN work :
                s \in DOMAIN records /\ work'[s] = NewWork(records[s])
      BY <1>1, <1>8, <2>2, <2>3, IngestRows
    <2>7. enumerated' = through
      BY <2>1, <2>3, <2>6 DEF Larger
    <2>8. enumerated' <= head
      BY <1>1, <2>1, <2>3, <2>7 DEF TraceInv, WithinHead
    <2>9. \A s \in DOMAIN work' \ DOMAIN work :
              /\ s \in DOMAIN snap.rows
              /\ Identity(work'[s]) = Identity(Projection(snap.rows[s]))
              /\ work'[s].kind = "peer" => snap.rows[s].kind = "user"
              /\ work'[s].disposition = "pending"
      BY <2>4, <2>6 DEF NewWork, Identity
    <2>10. TraceInv'
      BY <1>1, <1>2, <1>5, <1>6, <2>5, <2>6, <2>8, <2>9, StepKeepsTrace
    <2>11. \A s \in DOMAIN inbox : s \in DOMAIN work \cup done => s \in DOMAIN work' \cup done'
      BY <1>1, <1>2, <2>6, StepLosesNothing
    <2>12. ASSUME NEW s \in DOMAIN inbox, enumerated < s, s <= through,
                  \/ inbox[s].kind = "user"
                  \/ inbox[s].kind = "memory-pointer" /\ PointerCapable
           PROVE  s \in DOMAIN work \cup DOMAIN work'
      <3>1. s \in Nat /\ through \in DOMAIN snap.rows
        BY <2>1, <2>3, <2>12
      <3>2. s \in DOMAIN snap.rows /\ inbox[s] = snap.rows[s]
        BY <1>1, <1>3, <2>12, <3>1 DEF TraceInv, HeldIsComplete, SnapshotIsTraced
      <3>3. s \in DOMAIN records
        BY <2>3, <2>4, <2>12, <3>2
      <3>4. s > scan
        BY <2>1, <2>12, <3>1
      <3>. QED  BY <2>6, <3>3, <3>4
    <2>13. NoLostMessage'
      <3>1. inbox' = inbox /\ imported' = imported /\ seeded' = seeded
        BY <1>2, <1>8 DEF inboxVars, Ingest
      <3>. SUFFICES ASSUME NEW s \in DOMAIN inbox, s <= through,
                           \/ inbox[s].kind = "user" /\ imported < s
                           \/ inbox[s].kind = "memory-pointer" /\ PointerCapable /\ seeded
                    PROVE  s \in DOMAIN work' \cup done'
        BY <2>7, <3>1 DEF NoLostMessage
      <3>2. CASE s <= enumerated
        BY <1>1, <2>11, <3>2 DEF NoLostMessage
      <3>3. CASE enumerated < s
        BY <2>11, <2>12, <3>3
      <3>. QED  BY <2>1, <3>2, <3>3
    <2>. QED  BY <1>6, <2>10, <2>13 DEF FlowInv, StartsEmpty, NeverBlocked
  <1>. QED  BY <1>5, <1>7, <1>8

\* A journal starts empty, from a checkpoint that lies within the inbox.
LEMMA StartKeepsFlow ==
    ASSUME NotifierInv, FlowInv, Start
    PROVE  FlowInv'
  <1>1. /\ InboxInv /\ TraceInv /\ StartsEmpty /\ NeverBlocked
    BY DEF NotifierInv, FlowInv
  <1>2. /\ pc = "off" /\ op = "none" /\ op' = op /\ pc' = "idle" /\ snap' = snap
        /\ blocked' = blocked /\ done' = done /\ UNCHANGED inboxVars
    BY JobRunsAlone DEF Start, LoopOnly, operatorVars, ghostVars
  <1>3. PICK through \in 0..head : CreateJournal(through)
    BY DEF Start
  <1>4. head \in 0..MaxSeq /\ through \in 0..MaxSeq /\ \A s \in DOMAIN inbox : s \in Nat
    BY <1>1, InboxAssumption DEF InboxInv, InboxTypeOK
  <1>5. JournalInv' /\ DOMAIN work' = {} /\ seeded' = FALSE
    BY <1>3, <1>4, CreateFacts
  <1>6. imported' = through /\ enumerated' = through
    BY <1>3 DEF CreateJournal
  <1>7. RowsFollow({}, {}, {})
    BY <1>1, <1>2, <1>5 DEF RowsFollow, StartsEmpty
  <1>8. ~Held'
    BY <1>2 DEF Held
  <1>9. TraceInv'
    BY <1>1, <1>2, <1>4, <1>5, <1>6, <1>7, <1>8, StepKeepsTrace
  <1>10. NoLostMessage'
    <2>1. inbox' = inbox
      BY <1>2 DEF inboxVars
    <2>. QED  BY <1>4, <1>5, <1>6, <2>1 DEF NoLostMessage
  <1>. QED  BY <1>1, <1>2, <1>9, <1>10 DEF FlowInv, StartsEmpty, NeverBlocked

\* The three reconciliations settle only what the bridge has really taken away.
LEMMA ReconcileKeepsFlow ==
    ASSUME NotifierInv, FlowInv, PrepareReconcile \/ ReserveReconcile \/ RetryReconcile
    PROVE  FlowInv'
  <1>1. /\ JournalInv /\ TraceInv /\ NeverBlocked /\ TurnsOK
    BY DEF NotifierInv, FlowInv
  <1>2. /\ UNCHANGED inboxVars /\ done' = done
        /\ Held
    BY DEF PrepareReconcile, ReserveReconcile, RetryReconcile, LoopOnly, ghostVars, Held
  <1>3. /\ ~SourceFault(snap)
        /\ \A s \in {t \in DOMAIN work : AckCapable /\ t <= snap.ack} : s <= ack
        /\ \A s \in DOMAIN work \ DOMAIN snap.rows : s \notin DOMAIN inbox
    BY <1>1, <1>2, HeldIsSound
  <1>4. \/ /\ Failed /\ (PrepareReconcile \/ ReserveReconcile)
        \/ /\ Reconcile(snap) /\ ~blocked' /\ pc' # "off"
           /\ \/ snap' = Snapshot
              \/ snap' = NoSnapshot /\ ~Held'
              \/ snap' = snap
    <2>1. CASE PrepareReconcile
      BY <1>1, <1>3, <2>1 DEF PrepareReconcile, GoTo, NeverBlocked
    <2>2. CASE ReserveReconcile
      BY <1>1, <1>3, <2>2 DEF ReserveReconcile, GoTo, NeverBlocked
    <2>3. CASE RetryReconcile
      <3>1. /\ op = "reconcile" /\ op' = "retry" /\ Reconcile(snap) /\ blocked' = blocked
            /\ snap' = NoSnapshot /\ pc' = pc
        BY <1>3, <2>3 DEF RetryReconcile
      <3>2. pc \in Boundary
        BY <1>1, <3>1 DEF TurnsOK
      <3>. QED  BY <1>1, <3>1, <3>2 DEF Held, Boundary, NeverBlocked
    <2>. QED  BY <2>1, <2>2, <2>3
  <1>5. CASE Failed /\ (PrepareReconcile \/ ReserveReconcile)
    <2>1. pc' = "idle" /\ snap' = NoSnapshot /\ ~blocked' /\ UNCHANGED journalVars
          /\ op = "none" /\ op' = op
      BY <1>1, <1>5, JobRunsAlone
         DEF Failed, Return, NeverBlocked, PrepareReconcile, ReserveReconcile, LoopOnly,
             operatorVars
    <2>2. ~Held'
      BY <2>1 DEF Held
    <2>. QED  BY <1>2, <2>1, <2>2, LoopStepKeepsFlow
  <1>6. CASE /\ Reconcile(snap) /\ ~blocked' /\ pc' # "off"
             /\ \/ snap' = Snapshot
                \/ snap' = NoSnapshot /\ ~Held'
                \/ snap' = snap
    <2>1. JournalInv' /\ UNCHANGED <<imported, seeded>>
      BY <1>1, <1>6, ReconcileFacts DEF Reconcile
    <2>2. /\ RowsFollow({}, {s \in DOMAIN work : AckCapable /\ s <= snap.ack},
                        DOMAIN work \ DOMAIN snap.rows)
          /\ enumerated' = enumerated
          /\ DOMAIN work' \subseteq DOMAIN work
      BY <1>1, <1>6, ReconcileRows
    <2>. QED  BY <1>2, <1>3, <1>6, <2>1, <2>2, StepKeepsFlow
  <1>. QED  BY <1>4, <1>5, <1>6

\* Closing an attempt: a delivery is recorded with it.
LEMMA CloseKeepsFlow ==
    ASSUME NotifierInv, FlowInv, RunReady \/ ResolveCall
    PROVE  FlowInv'
  <1>1. /\ JournalInv /\ TurnsOK /\ NeverBlocked
    BY DEF NotifierInv, FlowInv
  <1>2. /\ UNCHANGED inboxVars /\ op = "none" /\ op' = "none" /\ ~blocked'
        /\ pc' # "off"
        /\ \/ snap' = Snapshot
           \/ snap' = NoSnapshot /\ pc' \in {"idle", "prepare"}
    BY <1>1 DEF RunReady, ResolveCall, Return, GoTo, LoopOnly, operatorVars, NeverBlocked
  <1>3. \/ snap' = Snapshot
        \/ snap' = NoSnapshot /\ ~Held'
    BY <1>2 DEF Held
  <1>4. CASE UNCHANGED journalVars /\ done' = done
    BY <1>2, <1>3, <1>4, LoopStepKeepsFlow
  <1>5. ASSUME NEW result \in Outcome, Resolve(result),
               done' = IF result = "delivered" THEN done \cup attempt ELSE done
        PROVE  FlowInv'
    <2>1. JournalInv' /\ UNCHANGED <<imported, seeded>>
      BY <1>1, <1>5, ResolveFacts DEF Resolve
    <2>. DEFINE closed == IF result = "delivered" THEN attempt ELSE {}
    <2>2. /\ RowsFollow(closed, {}, {})
          /\ enumerated' = enumerated
          /\ DOMAIN work' \subseteq DOMAIN work
      BY <1>1, <1>5, ResolveRows
    <2>3. done \subseteq done' /\ closed \subseteq done'
      BY <1>5
    <2>. HIDE DEF closed
    <2>. QED  BY <1>2, <1>3, <2>1, <2>2, <2>3, StepKeepsFlow
  <1>6. "unknown" \in Outcome
    BY DEF Outcome
  <1>. QED  BY <1>1, <1>4, <1>5, <1>6
            DEF RunReady, ResolveCall, LoopOnly, ghostVars, TurnsOK

\* The rest of the loop, the operator, time and the failures settle nothing.
LEMMA OthersKeepFlow ==
    ASSUME NotifierInv, CallInv, FlowInv,
           \/ PrepareRead \/ ReserveRead \/ Render
           \/ (\E result \in Outcome, handed \in BOOLEAN : Deliver(result, handed))
           \/ RetryRead \/ RenderUnavailable \/ JobFails \/ RetryFails \/ Crash
           \/ (\E handed \in BOOLEAN : AdapterFault(handed))
    PROVE  FlowInv'
  <1>1. /\ JournalInv /\ TurnsOK /\ NeverBlocked
    BY DEF NotifierInv, FlowInv
  <1>2. UNCHANGED inboxVars /\ UNCHANGED journalVars /\ done' = done /\ ~blocked'
    BY <1>1 DEF PrepareRead, ReserveRead, Render, Deliver, RetryRead, RenderUnavailable,
       JobFails, RetryFails, Crash, AdapterFault, GoTo, Failed, Return, LoopOnly, ghostVars,
       NeverBlocked
  <1>3. CASE PrepareRead \/ ReserveRead \/ RetryRead
    <2>1. snap' = Snapshot /\ pc' # "off"
      BY <1>3 DEF PrepareRead, ReserveRead, RetryRead, GoTo, Boundary
    <2>. QED  BY <1>2, <2>1, LoopStepKeepsFlow
  <1>4. CASE \/ Render \/ RenderUnavailable
             \/ (\E result \in Outcome, handed \in BOOLEAN : Deliver(result, handed))
             \/ (\E handed \in BOOLEAN : AdapterFault(handed))
    <2>1. /\ op' = op /\ pc \in {"render", "deliver"} /\ pc' \in {"idle", "deliver", "resolve"}
          /\ snap' = NoSnapshot \/ snap' = snap
      BY <1>4 DEF Render, RenderUnavailable, Deliver, AdapterFault, GoTo, Failed, Return,
         operatorVars
    <2>2. ~Held'
      BY <1>1, <2>1 DEF Held, TurnsOK, CallInv, CallHasRows
    <2>. QED  BY <1>2, <2>1, <2>2, LoopStepKeepsFlow
  <1>5. CASE JobFails \/ Crash
    <2>1. op' = "none" /\ pc' = "idle" /\ snap' = NoSnapshot
      BY <1>5 DEF JobFails, Crash, Failed, Return, operatorVars
    <2>2. ~Held'
      BY <2>1 DEF Held
    <2>. QED  BY <1>2, <2>1, <2>2, LoopStepKeepsFlow
  <1>6. CASE RetryFails
    <2>1. op' = "none" /\ pc' = pc /\ snap' = NoSnapshot /\ pc \in Boundary
      BY <1>1, <1>6 DEF RetryFails, TurnsOK
    <2>2. ~Held' /\ pc' # "off"
      BY <2>1 DEF Held, Boundary
    <2>. QED  BY <1>2, <2>1, <2>2, LoopStepKeepsFlow
  <1>. QED  BY <1>3, <1>4, <1>5, <1>6

\* A reservation, a retry and the passing of time settle nothing either.
LEMMA RowsKeepFlow ==
    ASSUME NotifierInv, FlowInv, ReserveNext \/ RetryCommit \/ AckHealth \/ Tick
    PROVE  FlowInv'
  <1>1. /\ JournalInv /\ JournalInv' /\ TurnsOK /\ LoopTypeOK /\ NeverBlocked
    BY NotifierInvNext DEF NotifierInv, FlowInv, Next, Loop, Operator
  <1>2. UNCHANGED inboxVars /\ done' = done /\ ~blocked' /\ pc' # "off"
    BY <1>1 DEF ReserveNext, RetryCommit, AckHealth, Tick, LoopOnly, ghostVars, loopVars,
       Return, GoTo, NeverBlocked, TurnsOK, Boundary
  <1>3. \/ snap' = NoSnapshot /\ ~Held'
        \/ snap' = snap /\ (Held' => Held)
    <2>1. CASE ReserveNext
      <3>1. op = "none" /\ op' = op /\ pc' \in {"idle", "render"}
            /\ (snap' = NoSnapshot \/ snap' = snap)
        BY <2>1, JobRunsAlone DEF ReserveNext, LoopOnly, operatorVars, Return, GoTo
      <3>. QED  BY <3>1 DEF Held
    <2>2. CASE RetryCommit \/ AckHealth \/ Tick
      BY <2>2 DEF RetryCommit, AckHealth, Tick, loopVars, operatorVars, Held
    <2>. QED  BY <2>1, <2>2
  <1>4. /\ RowsFollow({}, {}, {}) /\ DOMAIN work' = DOMAIN work
        /\ UNCHANGED <<imported, enumerated, seeded>>
    <2>1. CASE ReserveNext
      <3>1. UNCHANGED journalVars \/ Reserve(Due)
        BY <2>1 DEF ReserveNext
      <3>. QED  BY <1>1, <3>1, ReserveRows, UntouchedRows DEF journalVars, Reserve
    <2>2. CASE RetryCommit
      <3>1. UNCHANGED journalVars \/ Retry(retrying)
        BY <2>2 DEF RetryCommit
      <3>. QED  BY <1>1, <3>1, RetryRows, UntouchedRows DEF journalVars, Retry
    <2>3. CASE AckHealth
      BY <1>1, <2>3, UntouchedRows DEF AckHealth, AcknowledgeHealth
    <2>4. CASE Tick
      BY <1>1, <2>4, ElapseRows DEF Tick, Elapse
    <2>. QED  BY <2>1, <2>2, <2>3, <2>4
  <1>. QED  BY <1>1, <1>2, <1>3, <1>4, StepKeepsFlow

\* Every step keeps the flow.
LEMMA FlowInvNext ==
    ASSUME NotifierInv, CallInv, FlowInv, [Next]_vars
    PROVE  FlowInv'
  <1>1. CASE Bridge
    BY <1>1, BridgeKeepsFlow
  <1>2. CASE Start \/ Seed \/ PrepareIngest
    BY <1>2, StartKeepsFlow, SeedKeepsFlow, IngestKeepsFlow
  <1>3. CASE PrepareReconcile \/ ReserveReconcile \/ RetryReconcile
    BY <1>3, ReconcileKeepsFlow
  <1>4. CASE RunReady \/ ResolveCall
    BY <1>4, CloseKeepsFlow
  <1>5. CASE \/ PrepareRead \/ ReserveRead \/ Render
             \/ (\E result \in Outcome, handed \in BOOLEAN : Deliver(result, handed))
             \/ RetryRead \/ Faults
    BY <1>5, OthersKeepFlow DEF Faults
  <1>6. CASE ReserveNext \/ RetryCommit \/ AckHealth \/ Tick
    BY <1>6, RowsKeepFlow
  <1>7. CASE UNCHANGED vars
    BY <1>7 DEF vars, inboxVars, journalVars, loopVars, operatorVars, ghostVars, FlowInv,
       TraceInv, WithinHead, InstancesAreOld, SnapshotIsTraced, WorkIsTraced, HeldIsComplete,
       SettledIsOver, StartsEmpty, NoLostMessage, NeverBlocked, Held, Agrees, Explained,
       Snapshot, Superseded, SnapshotInvalid
  <1>. QED  BY <1>1, <1>2, <1>3, <1>4, <1>5, <1>6, <1>7 DEF Next, Loop, Operator

\* The flow starts out empty.
LEMMA FlowInvInit ==
    ASSUME Init
    PROVE  FlowInv
  <1>1. /\ DOMAIN inbox = {} /\ DOMAIN work = {} /\ DOMAIN snap.rows = {}
        /\ snap.ack = 0 /\ ack = 0 /\ head = 0 /\ enumerated = 0
        /\ pc = "off" /\ op = "none" /\ ~blocked /\ instances = 0
        /\ \A b \in Binding : bound[b] = 0
    BY DEF Init, InboxInit, NoSnapshot
  <1>. QED  BY <1>1 DEF FlowInv, TraceInv, WithinHead, InstancesAreOld, SnapshotIsTraced,
            WorkIsTraced, Agrees, HeldIsComplete, Held, SettledIsOver, StartsEmpty, NoLostMessage,
            NeverBlocked

\* The flow's invariant holds in every behaviour.
LEMMA FlowInvariance == Spec => []FlowInv
  <1>1. Init => FlowInv
    BY FlowInvInit
  <1>2. NotifierInv /\ CallInv /\ FlowInv /\ [Next]_vars => FlowInv'
    BY FlowInvNext
  <1>. QED  BY <1>1, <1>2, NotifierInvariance, CallInvariance, PTL DEF Spec

\* Every message that the journal has enumerated is in its work or was delivered for
\* as long as the inbox retains it: no interleaving of the loop's jobs with the
\* bridge, an operator's retry, a failed job or a crash loses one, for every size
\* of the inbox, of the scan and of the journal.
THEOREM NoMessageIsLost == Spec => []NoLostMessage
  <1>1. FlowInv => NoLostMessage
    BY DEF FlowInv
  <1>. QED  BY <1>1, FlowInvariance, PTL

\* Nothing that the bridge can do between a snapshot and its use looks like damage to
\* reconcile() or to an insert: the notifier never refuses its source.
THEOREM BridgeNeverBlocks == Spec => []NeverBlocked
  <1>1. FlowInv => NeverBlocked
    BY DEF FlowInv
  <1>. QED  BY <1>1, FlowInvariance, PTL
----------------------------------------------------------------------------
(* Room in the journal.                                                     *)

\* The rows the journal holds beyond what it has enumerated: pointers only, from
\* the seeding.
Ahead == {s \in DOMAIN work : s > enumerated}

\* bind() keeps the bindings to their limit.
FewBound == IsFiniteSet(Bound) /\ Cardinality(Bound) <= MaxBindings

\* The bindings a snapshot shows bound.
BoundIn(view) == {b \in Binding : view.bound[b] # 0}

FewInSnapshot == IsFiniteSet(BoundIn(snap)) /\ Cardinality(BoundIn(snap)) <= MaxBindings

FewAhead ==
    /\ Cardinality(Ahead) <= MaxBindings
    /\ ~seeded => Ahead = {}

\* Between the reconciliation and the scan the table is folded.
ScanIsFolded ==
    pc = "ingest" =>
        /\ \A s \in DOMAIN work : s <= scan => work[s].disposition \notin Settled
        /\ (\A s \in DOMAIN work : work[s].disposition \in Settled) => scan = enumerated

RoomInv == FewBound /\ FewInSnapshot /\ FewAhead /\ ScanIsFolded

\* Only bind() adds a binding, and it counts first.
LEMMA FewBoundNext ==
    ASSUME InboxInv, FewBound, InboxNext
    PROVE  FewBound'
  <1>1. MaxBindings \in Nat /\ instances \in Nat /\ bound \in [Binding -> 0..MaxInstance]
    BY InboxAssumption DEF InboxInv, InboxTypeOK
  <1>2. CASE bound' = bound
    BY <1>2 DEF FewBound, Bound
  <1>3. CASE \E b \in Binding : Bind(b)
    <2>1. PICK b \in Binding : Bind(b)
      BY <1>3
    <2>2. Bound' = Bound \cup {b} /\ b \notin Bound
      BY <1>1, <2>1 DEF Bind, Bound
    <2>3. Cardinality(Bound) < MaxBindings /\ Cardinality(Bound) \in Nat
      BY <2>1, FS_CardinalityType DEF Bind, FewBound
    <2>4. IsFiniteSet(Bound \cup {b}) /\ Cardinality(Bound \cup {b}) = Cardinality(Bound) + 1
      BY <2>2, FS_AddElement DEF FewBound
    <2>. QED  BY <1>1, <2>2, <2>3, <2>4 DEF FewBound
  <1>4. CASE \E b \in Binding : Unbind(b)
    <2>1. Bound' \in SUBSET Bound
      BY <1>1, <1>4 DEF Unbind, Bound
    <2>2. /\ IsFiniteSet(Bound') /\ Cardinality(Bound') <= Cardinality(Bound)
          /\ Cardinality(Bound') \in Nat /\ Cardinality(Bound) \in Nat
      BY <2>1, FS_Subset, FS_CardinalityType DEF FewBound
    <2>. QED  BY <1>1, <2>2 DEF FewBound
  <1>. QED  BY <1>2, <1>3, <1>4 DEF InboxNext, Store, Acknowledge, Refresh

\* A scan returns at most its limit.
LEMMA ScanIsLimited ==
    ASSUME NEW view, SnapshotOK(view), NEW after \in 0..MaxSeq
    PROVE  Cardinality(ScanRows(view, after)) <= ScanLimit
  <1>. DEFINE rows == ScanRows(view, after)
  <1>1. rows \subseteq DOMAIN view.rows /\ DOMAIN view.rows \in SUBSET Sequence
    BY DEF ScanRows, SnapshotOK
  <1>2. ScanLimit \in Nat
    BY SourceAssumption
  <1>3. CASE rows = {}
    BY <1>2, <1>3, FS_EmptySet
  <1>4. CASE rows # {}
    <2>1. rows \in SUBSET (0..MaxSeq) /\ MaxSeq \in Nat
      BY <1>1, InboxAssumption DEF Sequence
    <2>2. PICK last \in rows : \A s \in rows : s <= last
      BY <1>4, <2>1, MaxOfRange
    <2>. DEFINE T == {t \in DOMAIN view.rows : after < t /\ t <= last}
    <2>3. Cardinality(T) <= ScanLimit
      BY DEF ScanRows
    <2>4. \A s \in rows : after < s
      BY DEF ScanRows
    <2>5. rows \in SUBSET T /\ T \in SUBSET Sequence
      BY <1>1, <2>2, <2>4
    <2>6. Cardinality(rows) <= Cardinality(T) /\ Cardinality(rows) \in Nat /\ Cardinality(T) \in Nat
      BY <2>5, SequencesFinite
    <2>. QED  BY <1>2, <2>3, <2>6
  <1>. QED  BY <1>3, <1>4

\* A valid snapshot holds one pointer per binding at most.
LEMMA PointersAreFew ==
    ASSUME SnapshotOK(snap), FewInSnapshot, PointerCapable, ~SnapshotInvalid(snap)
    PROVE  Cardinality({s \in DOMAIN snap.rows : snap.rows[s].kind = "memory-pointer"})
               <= MaxBindings
  <1>. DEFINE S == {s \in DOMAIN snap.rows : snap.rows[s].kind = "memory-pointer"}
              T == BoundIn(snap)
              f == [s \in S |-> snap.rows[s].binding]
  <1>1. \A s \in S : /\ snap.rows[s].binding \in Binding /\ snap.rows[s].instance # 0
                     /\ snap.bound[snap.rows[s].binding] = snap.rows[s].instance
                     /\ \A t \in S : snap.rows[t].binding = snap.rows[s].binding => t = s
    BY DEF SnapshotOK, SnapshotInvalid
  <1>2. \A s \in S : snap.rows[s].binding \in T
    BY <1>1 DEF BoundIn
  <1>3. f \in [S -> T] /\ \A s, t \in S : f[s] = f[t] => s = t
    BY <1>1, <1>2
  <1>4. f \in Injection(S, T)
    BY <1>3 DEF Injection, IsInjective
  <1>5. IsFiniteSet(T) /\ Cardinality(T) <= MaxBindings /\ Cardinality(T) \in Nat
    BY FS_CardinalityType DEF FewInSnapshot
  <1>6. IsFiniteSet(S) /\ Cardinality(S) <= Cardinality(T)
    BY <1>4, <1>5, FS_Injection
  <1>7. Cardinality(S) \in Nat
    BY <1>6, FS_CardinalityType
  <1>. QED  BY <1>5, <1>6, <1>7, InboxAssumption

\* The snapshot register holds a copy of the bindings, or nothing.
LEMMA FewInSnapshotNext ==
    ASSUME NotifierInv, RoomInv, [Next]_vars
    PROVE  FewInSnapshot'
  <1>1. snap' = snap \/ snap' = Snapshot \/ snap' = NoSnapshot
    BY DEF Next, Bridge, Loop, Operator, Faults, Start, RunReady, Seed, PrepareRead,
       PrepareReconcile, PrepareIngest, ReserveRead, ReserveReconcile, ReserveNext, Render,
       Deliver, ResolveCall, RetryRead, RetryReconcile, RetryCommit, AckHealth, Tick,
       RenderUnavailable, AdapterFault, JobFails, RetryFails, Crash, GoTo, Return, Failed,
       Refused, vars, loopVars
  <1>2. CASE snap' = snap
    BY <1>2 DEF RoomInv, FewInSnapshot, BoundIn
  <1>3. CASE snap' = Snapshot
    <2>1. BoundIn(snap)' = Bound
      BY <1>3 DEF BoundIn, Snapshot, Bound
    <2>. QED  BY <2>1 DEF RoomInv, FewBound, FewInSnapshot
  <1>4. CASE snap' = NoSnapshot
    <2>1. BoundIn(snap)' = {}
      BY <1>4 DEF BoundIn, NoSnapshot
    <2>. QED  BY <2>1, FS_EmptySet, InboxAssumption DEF FewInSnapshot
  <1>. QED  BY <1>1, <1>2, <1>3, <1>4

\* After the seeding only enumerated rows are admitted.
LEMMA AdmittedIsEnumerated ==
    ASSUME NotifierInv, [Next]_vars, pc \notin {"off", "seed"}
    PROVE  \A s \in DOMAIN work' \ DOMAIN work : s <= enumerated'
  <1>1. JournalInv /\ SnapshotOK(snap) /\ TurnsOK
    BY DEF NotifierInv
  <1>2. CASE UNCHANGED journalVars
    BY <1>2 DEF journalVars
  <1>3. CASE PrepareIngest
    <2>. DEFINE records == ScanRecords(snap, enumerated)
                through == ScannedThrough(snap, enumerated)
                ignored == IgnoredRows(snap, enumerated)
    <2>1. UNCHANGED journalVars \/ Ingest(records, ignored, through)
      BY <1>3 DEF PrepareIngest, Refused, RefusedScan
    <2>2. enumerated \in 0..MaxSeq
      BY <1>1 DEF JournalInv, JournalTypeOK
    <2>3. RecordsOK(records) /\ through \in 0..MaxSeq /\ ignored \in SUBSET Sequence
      BY <1>1, <2>2, ScanFacts
    <2>4. \A s \in DOMAIN records : s \in Nat /\ s <= through
      <3>1. DOMAIN records \subseteq ScanRows(snap, enumerated)
        BY RecordsAreRows
      <3>2. ScanRows(snap, enumerated) \cup {enumerated} \in SUBSET (0..MaxSeq)
        BY <1>1, <2>2, InboxAssumption DEF ScanRows, SnapshotOK, Sequence
      <3>3. \A s \in ScanRows(snap, enumerated) \cup {enumerated} : s <= through
        BY <3>2, MaxOfRange, InboxAssumption DEF ScannedThrough
      <3>. QED  BY <3>1, <3>2, <3>3
    <2>. HIDE DEF records, through, ignored
    <2>5. CASE Ingest(records, ignored, through)
      <3>1. enumerated' = Larger(enumerated, through)
            /\ \A s \in DOMAIN work' \ DOMAIN work : s \in DOMAIN records
        BY <1>1, <2>3, <2>5, IngestRows
      <3>. QED  BY <2>2, <2>3, <2>4, <3>1 DEF Larger
    <2>. QED  BY <1>2, <2>1, <2>5
  <1>4. CASE PrepareReconcile \/ ReserveReconcile \/ RetryReconcile
    <2>1. UNCHANGED journalVars \/ Reconcile(snap)
      BY <1>4 DEF PrepareReconcile, ReserveReconcile, RetryReconcile, Refused, Failed
    <2>2. DOMAIN work' \subseteq DOMAIN work
      BY <1>1, <2>1, ReconcileRows DEF journalVars
    <2>. QED  BY <2>2
  <1>5. CASE RunReady \/ ResolveCall
    <2>1. UNCHANGED journalVars \/ Resolve("unknown") \/ (Resolve(outcome) /\ outcome \in Outcome)
      BY <1>1, <1>5 DEF RunReady, ResolveCall, TurnsOK
    <2>2. "unknown" \in Outcome
      BY DEF Outcome
    <2>3. DOMAIN work' \subseteq DOMAIN work
      BY <1>1, <2>1, <2>2, ResolveRows DEF journalVars
    <2>. QED  BY <2>3
  <1>6. CASE ReserveNext \/ RetryCommit \/ AckHealth \/ Tick
    <2>1. UNCHANGED journalVars \/ Reserve(Due) \/ Retry(retrying) \/ AcknowledgeHealth \/ Elapse
      BY <1>6 DEF ReserveNext, RetryCommit, AckHealth, Tick
    <2>2. DOMAIN work' = DOMAIN work
      BY <2>1 DEF journalVars, Reserve, Retry, AcknowledgeHealth, Elapse
    <2>. QED  BY <2>2
  <1>7. CASE Bridge \/ UNCHANGED vars \/ PrepareRead \/ ReserveRead \/ Render \/ RetryRead \/ Faults
             \/ (\E result \in Outcome, handed \in BOOLEAN : Deliver(result, handed))
    BY <1>2, <1>7 DEF Bridge, vars, PrepareRead, ReserveRead, Render, Crash, JobFails, RetryFails,
         RenderUnavailable, RetryRead, AdapterFault, Deliver, Failed, Faults
  <1>8. ~Start /\ ~Seed
    BY DEF Start, Seed
  <1>. QED  BY <1>3, <1>4, <1>5, <1>6, <1>7, <1>8 DEF Next, Loop, Operator

\* Rows beyond the enumeration only become fewer.
LEMMA AheadShrinks ==
    ASSUME JournalInv, FewAhead, Ahead' \subseteq Ahead, seeded => seeded'
    PROVE  FewAhead'
  <1>1. Ahead \in SUBSET Sequence
    BY DEF Ahead, JournalInv, JournalTypeOK
  <1>2. Cardinality(Ahead') <= Cardinality(Ahead) /\ Cardinality(Ahead') \in Nat
        /\ Cardinality(Ahead) \in Nat
    BY <1>1, SequencesFinite
  <1>. QED  BY <1>2, InboxAssumption DEF FewAhead

\* The seeding admits at most one row per binding.
LEMMA FewAheadNext ==
    ASSUME NotifierInv, FlowInv, RoomInv, [Next]_vars
    PROVE  FewAhead'
  <1>1. /\ JournalInv /\ SnapshotOK(snap) /\ TurnsOK /\ FewAhead /\ FewInSnapshot /\ TraceInv
        /\ JournalInv'
    BY NotifierInvNext DEF NotifierInv, FlowInv, RoomInv
  <1>2. CASE UNCHANGED journalVars
    <2>1. Ahead' = Ahead /\ seeded' = seeded
      BY <1>2 DEF Ahead, journalVars
    <2>. QED  BY <1>1, <2>1, AheadShrinks
  <1>3. CASE Start
    <2>1. PICK through \in 0..head : CreateJournal(through)
      BY <1>3 DEF Start
    <2>2. DOMAIN work' = {}
      BY <2>1 DEF CreateJournal
    <2>3. Ahead' = {}
      BY <2>2 DEF Ahead
    <2>. QED  BY <2>3, FS_EmptySet, InboxAssumption DEF FewAhead
  <1>4. CASE Seed
    <2>. DEFINE records == SeedRecords(snap)
                pointers == {s \in DOMAIN snap.rows : snap.rows[s].kind = "memory-pointer"}
    <2>1. UNCHANGED journalVars \/ SeedPointers(records)
      BY <1>4 DEF Seed, Refused, Failed
    <2>2. CASE SeedPointers(records)
      <3>1. RecordsOK(records)
        BY <1>1, SnapshotRecords DEF SeedRecords
      <3>2. /\ enumerated' = enumerated
            /\ \A s \in DOMAIN work' \ DOMAIN work : s \in DOMAIN records
        BY <1>1, <2>2, <3>1, SeedRows
      <3>3. ~seeded /\ seeded' = TRUE
        BY <2>2 DEF SeedPointers
      <3>4. Ahead = {}
        BY <1>1, <3>3 DEF FewAhead
      <3>5. Ahead' \subseteq DOMAIN records
        BY <3>2, <3>4 DEF Ahead
      <3>6. DOMAIN records = {s \in pointers : PointerCapable}
        BY RecordsAreRows
      <3>7. CASE PointerCapable
        <4>1. Held
          BY <1>4 DEF Held, Seed
        <4>2. Cardinality(pointers) <= MaxBindings
          BY <1>1, <3>7, <4>1, PointersAreFew DEF TraceInv, HeldIsComplete
        <4>3. Ahead' \in SUBSET pointers /\ pointers \in SUBSET Sequence
          BY <1>1, <3>5, <3>6 DEF SnapshotOK
        <4>. HIDE DEF pointers
        <4>4. Cardinality(Ahead') <= Cardinality(pointers)
              /\ Cardinality(Ahead') \in Nat /\ Cardinality(pointers) \in Nat
          BY <4>3, SequencesFinite
        <4>. QED  BY <3>3, <4>2, <4>4, InboxAssumption DEF FewAhead
      <3>8. CASE ~PointerCapable
        <4>1. Ahead' = {}
          BY <3>5, <3>6, <3>8
        <4>. QED  BY <4>1, FS_EmptySet, InboxAssumption DEF FewAhead
      <3>. QED  BY <3>7, <3>8
    <2>. QED  BY <1>2, <2>1, <2>2
  <1>5. CASE pc \notin {"off", "seed"}
    <2>1. \A s \in DOMAIN work' \ DOMAIN work : s <= enumerated'
      BY <1>5, AdmittedIsEnumerated
    <2>2. enumerated <= enumerated'
      BY <1>5, BoundaryNext DEF BoundaryStep
    <2>3. enumerated \in Nat /\ enumerated' \in Nat /\ \A s \in DOMAIN work' : s \in Nat
      BY <1>1 DEF JournalInv, JournalTypeOK, Sequence
    <2>4. Ahead' \subseteq Ahead
      BY <2>1, <2>2, <2>3 DEF Ahead
    <2>5. seeded' = seeded
      BY <1>5 DEF Next, Bridge, Loop, Operator, Faults, Start, RunReady, Seed, PrepareRead,
         PrepareReconcile, PrepareIngest, ReserveRead, ReserveReconcile, ReserveNext, Render,
         Deliver, ResolveCall, RetryRead, RetryReconcile, RetryCommit, AckHealth, Tick,
         RenderUnavailable, AdapterFault, JobFails, RetryFails, Crash, Failed, Refused,
         RefusedScan, vars, journalVars, Resolve, Reconcile, Ingest, Reserve, Retry,
         AcknowledgeHealth, Elapse
    <2>. QED  BY <1>1, <2>4, <2>5, AheadShrinks
  <1>6. pc \in {"off", "seed"} => Start \/ Seed \/ UNCHANGED journalVars
    BY <1>1 DEF Next, Bridge, Loop, Operator, Faults, RunReady, PrepareRead,
         PrepareReconcile, PrepareIngest, ReserveRead, ReserveReconcile, ReserveNext, Render,
         Deliver, ResolveCall, RetryRead, RetryReconcile, RetryCommit, AckHealth, Tick,
         RenderUnavailable, AdapterFault, JobFails, RetryFails, Crash, Failed, vars, TurnsOK,
         Boundary
  <1>. QED  BY <1>2, <1>3, <1>4, <1>5, <1>6

\* prepare()'s reconciliation folds the table, and nothing runs before the scan.
LEMMA ScanIsFoldedNext ==
    ASSUME NotifierInv, FlowInv, RoomInv, [Next]_vars
    PROVE  ScanIsFolded'
  <1>1. JournalInv /\ TurnsOK /\ ScanIsFolded
    BY DEF NotifierInv, RoomInv
  <1>2. CASE pc' # "ingest"
    BY <1>2 DEF ScanIsFolded
  <1>3. CASE pc = "ingest" /\ UNCHANGED <<work, scan, enumerated>>
    BY <1>1, <1>3 DEF ScanIsFolded
  <1>4. CASE Reconcile(snap)
    BY <1>1, <1>4, ReconcileRows DEF ScanIsFolded
  <1>5. \/ pc' # "ingest"
        \/ pc = "ingest" /\ UNCHANGED <<work, scan, enumerated>>
        \/ Reconcile(snap)
    <2>1. CASE Bridge \/ UNCHANGED vars
      BY <2>1 DEF Bridge, vars, journalVars, loopVars
    <2>2. CASE RetryRead \/ RetryReconcile \/ RetryCommit \/ AckHealth \/ Tick \/ RetryFails
      <3>1. pc \in Boundary /\ pc' = pc
        BY <1>1, <2>2 DEF RetryRead, RetryReconcile, RetryCommit, AckHealth, Tick, RetryFails,
           TurnsOK, loopVars
      <3>. QED  BY <3>1 DEF Boundary
    <2>3. CASE PrepareReconcile
      BY <2>3 DEF PrepareReconcile, Refused, Failed, Return
    <2>4. CASE \/ Start \/ RunReady \/ Seed \/ PrepareRead \/ PrepareIngest \/ ReserveRead
               \/ ReserveReconcile \/ ReserveNext \/ Render \/ ResolveCall
               \/ (\E result \in Outcome, handed \in BOOLEAN : Deliver(result, handed))
               \/ RenderUnavailable \/ JobFails \/ Crash
               \/ (\E handed \in BOOLEAN : AdapterFault(handed))
      BY <2>4 DEF Start, RunReady, Seed, PrepareRead, PrepareIngest, ReserveRead,
         ReserveReconcile, ReserveNext, Render, ResolveCall, Deliver, RenderUnavailable, JobFails,
         Crash, AdapterFault, GoTo, Return, Failed, Refused
    <2>. QED  BY <2>1, <2>2, <2>3, <2>4 DEF Next, Loop, Operator, Faults
  <1>. QED  BY <1>2, <1>3, <1>4, <1>5

\* The journal's room holds in every behaviour.
LEMMA RoomInvariance == Spec => []RoomInv
  <1>1. ASSUME Init PROVE RoomInv
    <2>1. Bound = {} /\ BoundIn(snap) = {} /\ Ahead = {} /\ pc = "off"
      BY <1>1 DEF Init, InboxInit, NoSnapshot, Bound, BoundIn, Ahead
    <2>. QED  BY <2>1, FS_EmptySet, InboxAssumption
              DEF RoomInv, FewBound, FewInSnapshot, FewAhead, ScanIsFolded
  <1>2. ASSUME NotifierInv, FlowInv, RoomInv, [Next]_vars PROVE RoomInv'
    <2>1. FewBound'
      <3>1. InboxInv /\ FewBound
        BY <1>2 DEF NotifierInv, RoomInv
      <3>2. InboxNext \/ bound' = bound
        BY <1>2 DEF Next, Bridge, Loop, Operator, Faults, Start, RunReady, Seed, PrepareRead,
           PrepareReconcile, PrepareIngest, ReserveRead, ReserveReconcile, ReserveNext, Render,
           Deliver, ResolveCall, RetryRead, RetryReconcile, RetryCommit, AckHealth, Tick,
           RenderUnavailable, AdapterFault, JobFails, RetryFails, Crash, LoopOnly, vars, inboxVars
      <3>. QED  BY <3>1, <3>2, FewBoundNext DEF FewBound, Bound
    <2>. QED  BY <1>2, <2>1, FewInSnapshotNext, FewAheadNext, ScanIsFoldedNext DEF RoomInv
  <1>. QED  BY <1>1, <1>2, NotifierInvariance, FlowInvariance, PTL DEF Spec

\* Where nothing in the table waits, the table holds pointers beyond the enumeration
\* only, and a scan fits beside them.
LEMMA ScanFits ==
    ASSUME NotifierInv, RoomInv, MaxBindings + ScanLimit <= MaxWork
    PROVE  FullOfOpenWork
  <1>. SUFFICES ASSUME pc = "ingest", OverCapacity(ScanRecords(snap, enumerated), FALSE), Open = {}
                PROVE  FALSE
    BY DEF FullOfOpenWork
  <1>1. /\ JournalInv /\ SnapshotOK(snap) /\ FewAhead /\ ScanIsFolded
    BY DEF NotifierInv, RoomInv
  <1>2. enumerated \in 0..MaxSeq /\ DOMAIN work \in SUBSET Sequence
    BY <1>1 DEF JournalInv, JournalTypeOK
  <1>3. \A s \in DOMAIN work : work[s].disposition \in Settled
    BY DEF Open
  <1>4. DOMAIN work = Ahead
    <2>1. scan = enumerated /\ \A s \in DOMAIN work : ~(s <= scan)
      BY <1>1, <1>3 DEF ScanIsFolded
    <2>2. \A s \in DOMAIN work : s > enumerated
      BY <1>2, <2>1 DEF Sequence
    <2>. QED  BY <2>2 DEF Ahead
  <1>. DEFINE rows == ScanRows(snap, enumerated)
              new == Admitted(ScanRecords(snap, enumerated), FALSE)
  <1>5. Cardinality(rows) <= ScanLimit
    BY <1>1, <1>2, ScanIsLimited
  <1>6. new \in SUBSET rows /\ rows \in SUBSET Sequence
    <2>1. DOMAIN ScanRecords(snap, enumerated) \subseteq rows
      BY RecordsAreRows
    <2>2. new \subseteq DOMAIN ScanRecords(snap, enumerated)
      BY DEF Admitted, Admissible
    <2>3. rows \subseteq Sequence
      BY <1>1 DEF ScanRows, SnapshotOK
    <2>. QED  BY <2>1, <2>2, <2>3
  <1>7. Cardinality(DOMAIN work \cup new) > MaxWork
    BY DEF OverCapacity
  <1>. HIDE DEF rows, new
  <1>8. /\ Cardinality(new) <= Cardinality(rows)
        /\ Cardinality(new) \in Nat /\ Cardinality(rows) \in Nat /\ IsFiniteSet(new)
    BY <1>6, SequencesFinite
  <1>9. /\ Cardinality(DOMAIN work) \in Nat /\ IsFiniteSet(DOMAIN work)
        /\ Cardinality(DOMAIN work) <= MaxBindings
    BY <1>1, <1>2, <1>4, SequencesFinite DEF FewAhead
  <1>10. /\ Cardinality(DOMAIN work \cup new) =
               Cardinality(DOMAIN work) + Cardinality(new) - Cardinality(DOMAIN work \cap new)
    BY <1>8, <1>9, FS_Union
  <1>11. Cardinality(DOMAIN work \cap new) \in Nat
    BY <1>9, FS_Intersection, FS_CardinalityType
  <1>. QED  BY <1>5, <1>7, <1>8, <1>9, <1>10, <1>11, InboxAssumption, JournalAssumption,
            SourceAssumption

\* Where the table has room for one scan beside one pointer per binding (the code's
\* limits are 2048, 128 and 16), a scan is refused for capacity only while some row
\* waits: settled rows alone never bring the enumeration to a halt.
THEOREM FullMeansOpenWork ==
    ASSUME MaxBindings + ScanLimit <= MaxWork
    PROVE  Spec => []FullOfOpenWork
  <1>1. NotifierInv /\ RoomInv => FullOfOpenWork
    BY ScanFits
  <1>. QED  BY <1>1, NotifierInvariance, RoomInvariance, PTL
-----------------------------------------------------------------------------
(* The counter of deliveries.                                               *)

DeliveredIn(table) == {s \in DOMAIN table : table[s].disposition = "delivered"}

\* What is counted or still in the table was committed.
CountInv == DeliveredTotal <= Cardinality(done)

\* advance() counts what it folds away, exactly once, as long as the counter does not
\* saturate.
LEMMA AdvanceCounts ==
    ASSUME NEW table, DOMAIN table \subseteq Sequence, NEW high, NEW c, CountersOK(c), NEW gone,
           Advance(table, high, c, gone), gone \cap DeliveredIn(table) = {},
           c["delivered"] + Cardinality(DeliveredIn(table)) <= CounterMax
    PROVE  DeliveredTotal' = c["delivered"] + Cardinality(DeliveredIn(table))
  <1>. DEFINE through == ScanBoundary(table, high)
              folded == FoldedRows(table, through)
              dropped == {s \in gone : s <= through}
              D == DeliveredIn(table)
              F == {s \in folded : table[s].disposition = "delivered"}
  <1>1. /\ DOMAIN work' = DOMAIN table \ (folded \cup dropped)
        /\ \A s \in DOMAIN work' : work'[s] = table[s]
        /\ counters' = FoldedCounters(c, table, folded)
    BY DEF Advance, Restrict
  <1>2. D \cap F = F /\ F \in SUBSET D /\ D \in SUBSET Sequence
    BY DEF FoldedRows, DeliveredIn
  <1>3. {s \in DOMAIN work' : work'[s].disposition = "delivered"} = D \ F
    BY <1>1 DEF DeliveredIn
  <1>4. counters'["delivered"] = Smaller(CounterMax, c["delivered"] + Cardinality(F))
    BY <1>1 DEF FoldedCounters, Counter
  <1>. HIDE DEF folded, D, F
  <1>5. /\ IsFiniteSet(D) /\ Cardinality(D) \in Nat /\ Cardinality(F) \in Nat
        /\ Cardinality(F) <= Cardinality(D)
    BY <1>2, SequencesFinite
  <1>6. Cardinality(D \ F) = Cardinality(D) - Cardinality(F)
    BY <1>2, <1>5, FS_Difference
  <1>7. c["delivered"] \in Nat /\ c["delivered"] + Cardinality(D) <= CounterMax
    BY DEF CountersOK, Counter, D
  <1>8. counters'["delivered"] = c["delivered"] + Cardinality(F)
    BY <1>4, <1>5, <1>7, JournalAssumption DEF Smaller
  <1>9. DeliveredTotal' = counters'["delivered"] + Cardinality(D \ F)
    BY <1>3 DEF DeliveredTotal
  <1>. QED  BY <1>5, <1>6, <1>7, <1>8, <1>9 DEF D

\* A transaction that leaves the set of delivered rows and their counter alone.
LEMMA CountStays ==
    ASSUME DeliveredIn(work') = DeliveredIn(work), counters'["delivered"] = counters["delivered"]
    PROVE  DeliveredTotal' = DeliveredTotal
  BY DEF DeliveredTotal, DeliveredIn

\* add() and ingest(): new rows are pending.
LEMMA IngestCounts ==
    ASSUME JournalInv, DeliveredTotal <= CounterMax, NEW records, RecordsOK(records),
           NEW ignored \in SUBSET Sequence, NEW through, Ingest(records, ignored, through)
    PROVE  DeliveredTotal' = DeliveredTotal
  <1>. DEFINE table == WithAdmitted(records, FALSE)
              high == Larger(enumerated, through)
              c == Count(counters, "ignored", Cardinality({s \in ignored : s > enumerated}))
  <1>1. TableOK(work) /\ CountersOK(counters)
    BY JournalInvParts
  <1>2. Advance(table, high, c, {}) /\ ~OverCapacity(records, FALSE)
    BY DEF Ingest
  <1>3. /\ TableOK(table) /\ DOMAIN work \subseteq DOMAIN table
        /\ \A s \in DOMAIN work : table[s] = work[s]
        /\ \A s \in DOMAIN table \ DOMAIN work : table[s].disposition = "pending"
    BY <1>1, <1>2, AdmissionFacts
  <1>4. DeliveredIn(table) = DeliveredIn(work)
    BY <1>3 DEF DeliveredIn
  <1>5. Cardinality({s \in ignored : s > enumerated}) \in Nat
    BY SequencesFinite
  <1>6. CountersOK(c) /\ c["delivered"] = counters["delivered"]
    BY <1>1, <1>5, CountType DEF Count, CountersOK, Counter
  <1>7. DOMAIN table \subseteq Sequence
    BY <1>3 DEF TableOK
  <1>. HIDE DEF table, high, c
  <1>8. DeliveredTotal = counters["delivered"] + Cardinality(DeliveredIn(work))
    BY DEF DeliveredTotal, DeliveredIn
  <1>. QED  BY <1>2, <1>4, <1>6, <1>7, <1>8, AdvanceCounts

\* reconcile() writes open rows only, and makes none of them delivered.
LEMMA ReconcileCounts ==
    ASSUME JournalInv, DeliveredTotal <= CounterMax, NEW view, Reconcile(view)
    PROVE  DeliveredTotal' = DeliveredTotal
  <1>. DEFINE table == [s \in DOMAIN work |-> ReconciledRow(view, s)]
              lost == {s \in UnattributedRows(view) : work[s].disposition # "unknown"}
              c == Count(counters, "unknown", Cardinality(lost))
              gone == UnattributedRows(view)
  <1>1. TableOK(work) /\ CountersOK(counters)
    BY JournalInvParts
  <1>2. Advance(table, enumerated, c, gone)
    BY DEF Reconcile
  <1>3. ASSUME NEW s \in DOMAIN work
        PROVE  /\ s \notin Open => ReconciledRow(view, s) = work[s]
               /\ s \in Open => ReconciledRow(view, s).disposition # "delivered"
               /\ s \in Open <=> work[s].disposition \notin Settled
    <2>1. work[s] \in WorkRow
      BY <1>1 DEF TableOK
    <2>2. s \in Open <=> work[s].disposition \notin Settled
      BY DEF Open
    <2>3. s \notin Open => ReconciledRow(view, s) = work[s]
      BY DEF ReconciledRow, ObsoleteRows, UnattributedRows, Vanished
    <2>4. s \in Open => ReconciledRow(view, s).disposition # "delivered"
      BY <2>1, <2>2 DEF ReconciledRow, WorkRow, Settled
    <2>. QED  BY <2>2, <2>3, <2>4
  <1>4. DeliveredIn(table) = DeliveredIn(work)
    BY <1>3 DEF DeliveredIn, Settled
  <1>5. gone \subseteq Open /\ gone \cap DeliveredIn(table) = {} /\ lost \in SUBSET Sequence
    <2>1. gone \subseteq Open /\ Open \subseteq DOMAIN work
      BY DEF UnattributedRows, Vanished, Open
    <2>. QED  BY <1>1, <1>3, <1>4, <2>1 DEF DeliveredIn, Settled, TableOK
  <1>6. CountersOK(c) /\ c["delivered"] = counters["delivered"]
    <2>1. Cardinality(lost) \in Nat
      BY <1>5, SequencesFinite
    <2>. QED  BY <1>1, <2>1, CountType DEF Count, CountersOK, Counter
  <1>7. DOMAIN table \subseteq Sequence
    BY <1>1 DEF TableOK
  <1>. HIDE DEF table, lost, c, gone
  <1>8. DeliveredTotal = counters["delivered"] + Cardinality(DeliveredIn(work))
    BY DEF DeliveredTotal, DeliveredIn
  <1>. QED  BY <1>2, <1>4, <1>5, <1>6, <1>7, <1>8, AdvanceCounts

\* resolve() makes the rows of the attempt delivered on "delivered", and no row else.
LEMMA ResolveCounts ==
    ASSUME JournalInv, NEW result \in Outcome, Resolve(result),
           NEW new, new = (IF result = "delivered" THEN attempt ELSE {}),
           DeliveredTotal + Cardinality(new) <= CounterMax
    PROVE  DeliveredTotal' = DeliveredTotal + Cardinality(new)
  <1>. DEFINE table == [s \in DOMAIN work |->
                           IF s \in attempt THEN ResolvedRow(work[s], result) ELSE work[s]]
              ended(d) == Cardinality({s \in attempt \cap DOMAIN work : table[s].disposition = d})
              c1 == Count(counters, "failed", ended("failed"))
              c == Count(c1, "unknown", ended("unknown"))
  <1>1. TableOK(work) /\ CountersOK(counters) /\ AttemptValid
    BY JournalInvParts
  <1>2. Advance(table, enumerated, c, {})
    BY DEF Resolve
  <1>3. /\ attempt \subseteq DOMAIN work /\ \A s \in attempt : work[s].disposition = "reserved"
        /\ DOMAIN work \subseteq Sequence /\ \A s \in DOMAIN work : work[s] \in WorkRow /\ RowValid(work[s])
    BY <1>1 DEF AttemptValid, TableOK
  <1>4. \A s \in attempt : (ResolvedRow(work[s], result).disposition = "delivered") <=> (result = "delivered")
    BY <1>3, ResolvedRowFacts
  <1>5. DeliveredIn(table) = DeliveredIn(work) \cup new /\ DeliveredIn(work) \cap new = {}
    BY <1>3, <1>4 DEF DeliveredIn
  <1>6. CountersOK(c) /\ c["delivered"] = counters["delivered"]
    <2>1. ended("failed") \in Nat /\ ended("unknown") \in Nat
      <3>1. \A d : {s \in attempt \cap DOMAIN work : table[s].disposition = d} \in SUBSET Sequence
        BY <1>3
      <3>. QED  BY <3>1, SequencesFinite
    <2>. HIDE DEF ended
    <2>2. CountersOK(c1) /\ c1["delivered"] = counters["delivered"]
      BY <1>1, <2>1, CountType DEF Count, CountersOK, Counter
    <2>. HIDE DEF c1
    <2>. QED  BY <2>1, <2>2, CountType DEF Count, CountersOK, Counter
  <1>7. DOMAIN table \subseteq Sequence
    BY <1>3
  <1>. HIDE DEF table, c
  <1>8. DeliveredTotal = counters["delivered"] + Cardinality(DeliveredIn(work))
    BY DEF DeliveredTotal, DeliveredIn
  <1>9. Cardinality(DeliveredIn(table)) = Cardinality(DeliveredIn(work)) + Cardinality(new)
    <2>1. DeliveredIn(work) \in SUBSET Sequence /\ new \in SUBSET Sequence
      BY <1>3 DEF DeliveredIn
    <2>2. /\ IsFiniteSet(DeliveredIn(work)) /\ IsFiniteSet(new)
          /\ Cardinality(DeliveredIn(work)) \in Nat /\ Cardinality(new) \in Nat
      BY <2>1, SequencesFinite
    <2>3. Cardinality(DeliveredIn(work) \cup new)
            = Cardinality(DeliveredIn(work)) + Cardinality(new) - Cardinality(DeliveredIn(work) \cap new)
      BY <2>2, FS_Union
    <2>4. Cardinality(DeliveredIn(work) \cap new) = 0
      BY <1>5, FS_EmptySet
    <2>. QED  BY <1>5, <2>2, <2>3, <2>4
  <1>10. counters["delivered"] \in Nat /\ Cardinality(DeliveredIn(work)) \in Nat /\ Cardinality(new) \in Nat
    <2>1. DeliveredIn(work) \in SUBSET Sequence /\ new \in SUBSET Sequence
      BY <1>3 DEF DeliveredIn
    <2>. QED  BY <1>1, <2>1, SequencesFinite DEF CountersOK, Counter
  <1>11. {} \cap DeliveredIn(table) = {}
    OBVIOUS
  <1>12. c["delivered"] + Cardinality(DeliveredIn(table)) <= CounterMax
    BY <1>6, <1>8, <1>9, <1>10
  <1>. QED  BY <1>2, <1>6, <1>7, <1>8, <1>9, <1>10, <1>11, <1>12, AdvanceCounts

\* The transactions that begin a call, take rows back or let time pass.
LEMMA OthersCount ==
    ASSUME JournalInv,
           \/ Reserve(Due) \/ Elapse
           \/ (\E seqs : Retry(seqs))
           \/ \E records : SeedPointers(records) /\ RecordsOK(records)
    PROVE  DeliveredTotal' = DeliveredTotal
  <1>1. TableOK(work) /\ CountersOK(counters)
    BY JournalInvParts
  <1>2. CASE Reserve(Due)
    <2>1. \A s \in Due : s \in DOMAIN work /\ work[s].disposition = "pending" /\ work[s] \in WorkRow
      BY <1>1, DueFacts DEF TableOK
    <2>2. \A s \in Due : ReservedRow(work[s]).disposition = "reserved"
      BY <2>1 DEF ReservedRow, WorkRow
    <2>3. DeliveredIn(work') = DeliveredIn(work)
      BY <1>2, <2>1, <2>2 DEF DeliveredIn, Reserve
    <2>4. counters'["delivered"] = counters["delivered"]
      BY <1>1, <1>2 DEF Reserve, Count, CountersOK, Counter
    <2>. QED  BY <2>3, <2>4, CountStays
  <1>3. CASE Elapse
    <2>1. ASSUME NEW s \in DOMAIN work
          PROVE  work'[s].disposition = work[s].disposition
      BY <1>1, <1>3 DEF Elapse, TableOK, WorkRow
    <2>2. DOMAIN work' = DOMAIN work /\ counters' = counters
      BY <1>3 DEF Elapse
    <2>. QED  BY <2>1, <2>2, CountStays DEF DeliveredIn
  <1>4. CASE \E seqs : Retry(seqs)
    <2>1. PICK seqs : Retry(seqs)
      BY <1>4
    <2>2. /\ DOMAIN work' = DOMAIN work /\ counters' = counters
          /\ \A s \in DOMAIN work : \/ work'[s] = work[s]
                                    \/ work[s].disposition \in Exhausted /\ work'[s].disposition = "pending"
      BY <2>1, RetryFacts DEF Retry
    <2>. QED  BY <2>2, CountStays DEF DeliveredIn, Exhausted
  <1>5. CASE \E records : SeedPointers(records) /\ RecordsOK(records)
    <2>1. PICK records : SeedPointers(records) /\ RecordsOK(records)
      BY <1>5
    <2>2. /\ DOMAIN work \subseteq DOMAIN work' /\ counters' = counters
          /\ \A s \in DOMAIN work : work'[s] = work[s]
          /\ \A s \in DOMAIN work' \ DOMAIN work : work'[s].disposition = "pending"
      BY <1>1, <2>1, AdmissionFacts DEF SeedPointers
    <2>. QED  BY <2>2, CountStays DEF DeliveredIn
  <1>. QED  BY <1>2, <1>3, <1>4, <1>5

\* Every step counts the deliveries it commits, and no others.
LEMMA CountStep ==
    ASSUME MaxSeq <= CounterMax, NotifierInv, CountInv, [Next]_vars
    PROVE  /\ \/ DeliveredTotal' = DeliveredTotal + Cardinality(done' \ done)
              \/ pc = "off"
              \/ AcknowledgeHealth
           /\ CountInv'
  <1>1. JournalInv /\ SnapshotOK(snap) /\ TurnsOK /\ done \in SUBSET Sequence
    BY DEF NotifierInv, GhostTypeOK
  <1>2. /\ DeliveredTotal \in Nat /\ Cardinality(done) \in Nat /\ Cardinality(done) <= MaxSeq
        /\ DeliveredTotal <= CounterMax
    <2>1. TableOK(work) /\ CountersOK(counters)
      BY <1>1, JournalInvParts
    <2>2. {s \in DOMAIN work : work[s].disposition = "delivered"} \in SUBSET Sequence
      BY <2>1 DEF TableOK
    <2>3. DeliveredTotal \in Nat
      BY <2>1, <2>2, SequencesFinite DEF DeliveredTotal, CountersOK, Counter
    <2>4. Cardinality(Sequence) = MaxSeq
      BY FS_Interval, InboxAssumption DEF Sequence
    <2>5. Cardinality(done) \in Nat /\ Cardinality(done) <= MaxSeq
      BY <1>1, <2>4, SequencesFinite
    <2>. QED  BY <2>3, <2>5, InboxAssumption, JournalAssumption DEF CountInv
  <1>. DEFINE Goal == /\ \/ DeliveredTotal' = DeliveredTotal + Cardinality(done' \ done)
                         \/ pc = "off"
                         \/ AcknowledgeHealth
                      /\ CountInv'
  <1>3. ASSUME DeliveredTotal' = DeliveredTotal, UNCHANGED done PROVE Goal
    <2>1. done' \ done = {} /\ Cardinality({}) = 0
      BY <1>3, FS_EmptySet
    <2>. QED  BY <1>2, <1>3, <2>1 DEF CountInv
  <1>4. CASE Bridge \/ UNCHANGED vars \/ PrepareRead \/ ReserveRead \/ Render \/ Crash
             \/ JobFails \/ RetryFails \/ RenderUnavailable \/ RetryRead
             \/ (\E handed \in BOOLEAN : AdapterFault(handed))
             \/ (\E result \in Outcome, handed \in BOOLEAN : Deliver(result, handed))
    <2>1. UNCHANGED <<counters, work, done>>
      BY <1>4 DEF Bridge, vars, PrepareRead, ReserveRead, Render, Crash, JobFails, RetryFails,
         RenderUnavailable, RetryRead, AdapterFault, Deliver, Failed, journalVars, ghostVars, LoopOnly
    <2>2. DeliveredTotal' = DeliveredTotal
      BY <2>1 DEF DeliveredTotal
    <2>. QED  BY <1>3, <2>1, <2>2
  <1>5. CASE UNCHANGED <<journalVars, done>>
    <2>1. DeliveredTotal' = DeliveredTotal
      BY <1>5 DEF DeliveredTotal, journalVars
    <2>. QED  BY <1>3, <1>5, <2>1
  <1>6. CASE RunReady
    <2>1. UNCHANGED done /\ (UNCHANGED journalVars \/ Resolve("unknown"))
      BY <1>6 DEF RunReady, LoopOnly, ghostVars
    <2>2. CASE Resolve("unknown")
      <3>1. "unknown" \in Outcome /\ Cardinality({}) = 0
        BY FS_EmptySet DEF Outcome
      <3>2. DeliveredTotal' = DeliveredTotal + Cardinality({})
        BY <1>1, <1>2, <2>2, <3>1, ResolveCounts
      <3>. QED  BY <1>2, <1>3, <2>1, <3>1, <3>2
    <2>. QED  BY <1>5, <2>1, <2>2
  <1>7. CASE ResolveCall
    <2>. DEFINE new == IF outcome = "delivered" THEN attempt ELSE {}
    <2>1. Resolve(outcome) /\ outcome \in Outcome /\ done' = done \cup new
      BY <1>1, <1>7 DEF ResolveCall, TurnsOK
    <2>2. new \in SUBSET Sequence /\ new \cap done = {}
      <3>1. AttemptValid /\ TableOK(work) /\ NoResendAfterDelivered
        BY <1>1, JournalInvParts DEF NotifierInv, Ghosts
      <3>. QED  BY <3>1 DEF AttemptValid, TableOK, NoResendAfterDelivered
    <2>3. done' \ done = new /\ done \cap new = {}
      BY <2>1, <2>2
    <2>. HIDE DEF new
    <2>4. IsFiniteSet(new) /\ Cardinality(new) \in Nat /\ IsFiniteSet(done)
      BY <1>1, <2>2, SequencesFinite
    <2>5. Cardinality(done') = Cardinality(done) + Cardinality(new)
      <3>1. Cardinality(done \cup new) = Cardinality(done) + Cardinality(new) - Cardinality(done \cap new)
        BY <2>4, FS_Union
      <3>2. Cardinality(done \cap new) = 0
        BY <2>3, FS_EmptySet
      <3>. QED  BY <1>2, <2>1, <2>4, <3>1, <3>2
    <2>6. Cardinality(done') <= MaxSeq
      <3>1. done' \in SUBSET Sequence /\ Cardinality(Sequence) = MaxSeq
        BY <1>1, <2>1, <2>2, FS_Interval, InboxAssumption DEF Sequence
      <3>. QED  BY <3>1, SequencesFinite
    <2>7. DeliveredTotal + Cardinality(new) <= CounterMax
      BY <1>2, <2>4, <2>5, <2>6, InboxAssumption, JournalAssumption DEF CountInv
    <2>8. DeliveredTotal' = DeliveredTotal + Cardinality(new)
      BY <1>1, <2>1, <2>7, ResolveCounts DEF new
    <2>. QED  BY <1>2, <2>3, <2>4, <2>5, <2>8 DEF CountInv
  <1>8. CASE Seed
    <2>1. UNCHANGED done /\ (UNCHANGED journalVars \/ SeedPointers(SeedRecords(snap)))
      BY <1>8 DEF Seed, Refused, Failed, LoopOnly, ghostVars
    <2>2. RecordsOK(SeedRecords(snap))
      BY <1>1, SnapshotRecords DEF SeedRecords
    <2>3. CASE SeedPointers(SeedRecords(snap))
      BY <1>1, <1>3, <2>1, <2>2, <2>3, OthersCount
    <2>. QED  BY <1>5, <2>1, <2>3
  <1>9. CASE PrepareReconcile \/ ReserveReconcile \/ RetryReconcile
    <2>1. UNCHANGED done /\ (UNCHANGED journalVars \/ Reconcile(snap))
      BY <1>9 DEF PrepareReconcile, ReserveReconcile, RetryReconcile, Refused, Failed, LoopOnly, ghostVars
    <2>2. CASE Reconcile(snap)
      BY <1>1, <1>2, <1>3, <2>1, <2>2, ReconcileCounts
    <2>. QED  BY <1>5, <2>1, <2>2
  <1>10. CASE PrepareIngest
    <2>. DEFINE records == ScanRecords(snap, enumerated)
                through == ScannedThrough(snap, enumerated)
                ignored == IgnoredRows(snap, enumerated)
    <2>1. UNCHANGED done /\ (UNCHANGED journalVars \/ Ingest(records, ignored, through))
      BY <1>10 DEF PrepareIngest, Refused, RefusedScan, LoopOnly, ghostVars
    <2>2. enumerated \in 0..MaxSeq
      BY <1>1 DEF JournalInv, JournalTypeOK
    <2>3. RecordsOK(records) /\ ignored \in SUBSET Sequence
      BY <1>1, <2>2, ScanFacts
    <2>. HIDE DEF records, through, ignored
    <2>4. CASE Ingest(records, ignored, through)
      BY <1>1, <1>2, <1>3, <2>1, <2>3, <2>4, IngestCounts
    <2>. QED  BY <1>5, <2>1, <2>4
  <1>11. CASE ReserveNext \/ RetryCommit \/ Tick
    <2>1. UNCHANGED done /\ (UNCHANGED journalVars \/ Reserve(Due) \/ Retry(retrying) \/ Elapse)
      BY <1>11 DEF ReserveNext, RetryCommit, Tick, LoopOnly, ghostVars
    <2>2. CASE Reserve(Due) \/ Retry(retrying) \/ Elapse
      BY <1>1, <1>3, <2>1, <2>2, OthersCount
    <2>. QED  BY <1>5, <2>1, <2>2
  <1>12. CASE AckHealth
    <2>1. AcknowledgeHealth /\ UNCHANGED <<work, done>> /\ counters' = [k \in Counter |-> 0]
      BY <1>12 DEF AckHealth, AcknowledgeHealth, ghostVars
    <2>2. counters'["delivered"] = 0 /\ counters["delivered"] \in Nat
      BY <1>1, <2>1, JournalInvParts DEF CountersOK, Counter
    <2>3. {s \in DOMAIN work : work[s].disposition = "delivered"} \in SUBSET Sequence
      BY <1>1, JournalInvParts DEF TableOK
    <2>4. CountInv'
      BY <1>2, <2>1, <2>2, <2>3, SequencesFinite DEF CountInv, DeliveredTotal
    <2>. QED  BY <2>1, <2>4
  <1>13. CASE Start
    <2>1. pc = "off" /\ UNCHANGED done /\ DOMAIN work' = {} /\ counters' = [k \in Counter |-> 0]
      BY <1>13 DEF Start, CreateJournal, LoopOnly, ghostVars
    <2>2. {s \in DOMAIN work' : work'[s].disposition = "delivered"} = {} /\ counters'["delivered"] = 0
      BY <2>1 DEF Counter
    <2>3. CountInv'
      BY <1>2, <2>1, <2>2, FS_EmptySet DEF CountInv, DeliveredTotal
    <2>. QED  BY <2>1, <2>3
  <1>. QED  BY <1>4, <1>6, <1>7, <1>8, <1>9, <1>10, <1>11, <1>12, <1>13
            DEF Next, Loop, Operator, Faults

\* The health counter neither loses nor invents a delivery, over any number of faults and
\* retries, if it can hold as many as there are sequences (both end at 2^63 - 1 in the code).
THEOREM DeliveriesStayCounted ==
    ASSUME MaxSeq <= CounterMax
    PROVE  Spec => DeliveriesAreCounted
  <1>1. Init => CountInv
    <2>. SUFFICES ASSUME Init PROVE CountInv
      OBVIOUS
    <2>1. /\ {s \in DOMAIN work : work[s].disposition = "delivered"} = {} /\ done = {}
          /\ counters["delivered"] = 0
      BY DEF Init, Counter
    <2>. QED  BY <2>1, FS_EmptySet DEF CountInv, DeliveredTotal
  <1>2. NotifierInv /\ CountInv /\ [Next]_vars => CountInv'
    BY CountStep
  <1>3. NotifierInv /\ CountInv /\ [Next]_vars =>
          [\/ DeliveredTotal' = DeliveredTotal + Cardinality(done' \ done)
           \/ pc = "off"
           \/ AcknowledgeHealth]_vars
    BY CountStep
  <1>. QED  BY <1>1, <1>2, <1>3, NotifierInvariance, PTL DEF Spec, DeliveriesAreCounted
=============================================================================
