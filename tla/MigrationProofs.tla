-------------------------- MODULE MigrationProofs --------------------------
(***************************************************************************)
(* The migration's safety for every number of messages, of journals, of      *)
(* deaths and of options.                                                    *)
(***************************************************************************)
EXTENDS Migration, FiniteSetTheorems, FiniteSetsExt, WellFoundedInduction, TLAPS

\* A non-empty set of naturals has a least element.
LEMMA MinOfNat ==
    ASSUME NEW S \in SUBSET Nat, S # {}
    PROVE  Min(S) \in S /\ \A x \in S : Min(S) <= x
  <1>1. PICK m \in S : \A y \in S : ~(<<y, m>> \in OpToRel(<, Nat))
    BY WFMin, NatLessThanWellFounded
  <1>2. \A y \in S : m <= y
    <2>. SUFFICES ASSUME NEW y \in S, y < m PROVE FALSE
      OBVIOUS
    <2>1. <<y, m>> \in Nat \X Nat /\ <<y, m>>[1] < <<y, m>>[2]
      OBVIOUS
    <2>2. <<y, m>> \in OpToRel(<, Nat)
      BY <2>1, Zenon DEF OpToRel
    <2>. QED  BY <1>1, <2>2
  <1>. QED  BY <1>2 DEF Min

\* A non-empty set of naturals with a bound has a greatest element.
LEMMA MaxOfRange ==
    ASSUME NEW n \in Nat, NEW S \in SUBSET (0..n), S # {}
    PROVE  Max(S) \in S /\ \A x \in S : x <= Max(S)
  <1>. DEFINE T == {k \in 0..n : n - k \in S}
  <1>1. \A x \in S : n - x \in T
    OBVIOUS
  <1>2. T \in SUBSET Nat /\ T # {}
    <2>1. PICK x \in S : TRUE
      OBVIOUS
    <2>2. n - x \in T
      BY <1>1, <2>1
    <2>3. T \subseteq Nat
      OBVIOUS
    <2>. QED  BY <2>2, <2>3, Zenon
  <1>. HIDE DEF T
  <1>3. PICK m \in T : \A y \in T : m <= y
    BY <1>2, MinOfNat
  <1>4. n - m \in S /\ m \in 0..n
    BY DEF T
  <1>5. \A x \in S : x <= n - m
    BY <1>1, <1>3, <1>4
  <1>. QED  BY <1>4, <1>5 DEF Max

-----------------------------------------------------------------------------

Opening == {"marked", "created", "switching", "switched", "built", "opened", "gated",
            "activated", "ready"}

\* The records, with the ranges of the counters beside them.
RecordsOK ==
    /\ MigrationTypeOK
    /\ marker.state # "none" => marker.nonce <= nonces
    /\ losses \in 0..MaxLoss
    /\ told \in Nat
    /\ batch.through \in Nat

\* What each phase of a start has established: nothing else writes the records while
\* the notifier runs.
PhaseOK ==
    /\ pc \in {"off"} \cup LegacyPlaces \cup Opening
    /\ pc # "off" => refused = "none"
    /\ pc \in Opening => marker.state # "none"
    /\ pc \in {"created", "switching", "switched", "built"} => Bootstrap
    /\ pc \in {"created", "switched"} => db = EmptyFile
    /\ pc = "switching" => db = HotFile
    /\ pc = "built" => db = FreshJournal
    /\ pc \in {"opened", "gated", "activated", "ready"} =>
          marker.state = "ready" /\ db.state = "built" /\ SameIdentity
    /\ pc \in {"gated", "activated", "ready"} => cursor.present /\ cursor.required
    /\ pc \in LegacyPlaces => ~LocalEvidence

\* The pieces of local evidence that are left.
Pieces ==
    (IF marker.state # "none" THEN 1 ELSE 0) + (IF db.state # "none" THEN 1 ELSE 0)
      + (IF cursor.required THEN 1 ELSE 0)

\* Once something was delivered, three losses are needed to forget the journal, and
\* no journal without the history is opened unless it says so.
HistoryIsGuarded ==
    /\ pc \in LegacyPlaces => history = {}
    /\ history # {} =>
          /\ Pieces + losses >= 3
          /\ marker.state # "none" => marker.lost \/ marker.state = "ready"
          /\ db.state = "built" => history \subseteq db.sent \/ db.lost

\* What has been accounted for, on the way to a checkpoint as well.  The loop may be
\* behind the published cursor but never ahead of it, so ready() has nothing to refuse.
CheckpointsOK ==
    /\ NothingSkipped
    /\ pc \in LegacyPlaces /\ cursor.present => after <= cursor.through
    /\ pc = "legacy" => batch = NoBatch
    /\ batch.outcome # "none" => batch.rows # {}
    /\ pc \in LegacyPlaces /\ batch.rows # {} => after <= batch.through
    /\ batch.outcome = "delivered" => batch.rows \subseteq notified
    /\ \A m \in 1..batch.through :
          m <= told \/ m <= acked \/ m \in notified \cup Ignored \cup batch.rows

\* Without a loss the four records agree, in the order they are published.
RecordsAgree ==
    losses = 0 =>
        /\ marker.state # "none" => ~marker.lost
        /\ marker.state # "none" /\ cursor.present => cursor.through = marker.through
        /\ marker.state = "none" => db.state = "none"
        /\ db.state # "none" /\ db.state # "built" => Bootstrap
        /\ db.state = "built" =>
              /\ SameIdentity
              /\ Bootstrap => db = FreshJournal
              /\ db.confirmed => activation = marker.nonce
              /\ db.sent # {} => cursor.present
              /\ \A m \in db.sent : m > db.through
        /\ marker.state = "ready" => db.state = "built"
        /\ activation # 0 => marker.state = "ready" /\ activation = marker.nonce
        /\ cursor.required => marker.state = "ready"
        /\ DeathIsNotLoss

MigrationInv == RecordsOK /\ PhaseOK /\ CheckpointsOK /\ RecordsAgree

\* The larger of two.
LEMMA MaxOfTwo ==
    \A a, b \in Nat : Max({a, b}) \in {a, b} /\ a <= Max({a, b}) /\ b <= Max({a, b})
  <1>. SUFFICES ASSUME NEW a \in Nat, NEW b \in Nat
                PROVE  Max({a, b}) \in {a, b} /\ a <= Max({a, b}) /\ b <= Max({a, b})
    OBVIOUS
  <1>1. {a, b} \in SUBSET (0..(a + b)) /\ {a, b} # {} /\ a + b \in Nat
    OBVIOUS
  <1>. QED  BY <1>1, MaxOfRange

\* The first k of a set of positive numbers: with a number every smaller one of the set,
\* and at least one if there is any.
LEMMA FirstFacts ==
    ASSUME NEW n \in Nat, NEW U \in SUBSET (1..n), NEW k \in Nat \ {0}
    PROVE  /\ FirstOf(k, U) \subseteq U
           /\ FirstOf(k, U) = {} => U = {}
           /\ \A m \in FirstOf(k, U) : \A x \in U : x <= m => x \in FirstOf(k, U)
  <1>. DEFINE Before(m) == {x \in U : x < m}
              F == {m \in U : Cardinality(Before(m)) < k}
  <1>1. IsFiniteSet(U) /\ U \in SUBSET Nat
    <2>1. IsFiniteSet(1..n)
      BY FS_Interval
    <2>2. U \in SUBSET Nat
      OBVIOUS
    <2>. QED  BY <2>1, <2>2, FS_Subset
  <1>2. ASSUME NEW m \in U
        PROVE  IsFiniteSet(Before(m)) /\ Cardinality(Before(m)) \in Nat
    <2>1. Before(m) \in SUBSET U
      OBVIOUS
    <2>. QED  BY <1>1, <2>1, FS_Subset, FS_CardinalityType
  <1>3. ASSUME NEW m \in F, NEW x \in U, x <= m
        PROVE  x \in F
    <2>1. Before(x) \in SUBSET Before(m)
      <3>. SUFFICES ASSUME NEW y \in U, y < x PROVE y < m
        BY Zenon
      <3>1. y \in Nat /\ x \in Nat /\ m \in Nat /\ x <= m
        BY <1>1, <1>3
      <3>. QED  BY <3>1
    <2>2. Cardinality(Before(x)) <= Cardinality(Before(m))
      BY <1>2, <2>1, FS_Subset
    <2>3. Cardinality(Before(x)) \in Nat /\ Cardinality(Before(m)) \in Nat
      BY <1>2
    <2>4. Cardinality(Before(m)) < k
      OBVIOUS
    <2>. HIDE DEF Before
    <2>5. Cardinality(Before(x)) < k
      BY <2>2, <2>3, <2>4
    <2>. QED  BY <2>5
  <1>4. ASSUME U # {} PROVE F # {}
    <2>1. PICK least \in U : \A x \in U : least <= x
      BY <1>1, <1>4, MinOfNat
    <2>3. Before(least) = {}
      <3>. SUFFICES ASSUME NEW x \in U, x < least PROVE FALSE
        BY Zenon
      <3>1. x \in Nat /\ least \in Nat /\ least <= x
        BY <1>1, <2>1
      <3>. QED  BY <3>1
    <2>4. Cardinality(Before(least)) = 0
      BY <2>3, FS_EmptySet
    <2>5. Cardinality(Before(least)) < k
      BY <2>4
    <2>. QED  BY <2>5
  <1>5. FirstOf(k, U) = F
    BY DEF FirstOf
  <1>. HIDE DEF F
  <1>6. F \subseteq U
    BY DEF F
  <1>. QED  BY <1>3, <1>4, <1>5, <1>6

\* selection(): the rows of a notice are the first that wait in a scan that may be cut,
\* and everything up to where they reach is among them, acknowledged or never notified.
LEMMA SelectedFacts ==
    ASSUME RecordsOK
    PROVE  /\ Selected \subseteq 1..head
           /\ SelectedThrough \in Nat /\ after <= SelectedThrough
           /\ \A m \in 1..SelectedThrough :
                 m <= after \/ m <= acked \/ m \in Ignored \cup Selected
  <1>. DEFINE B == Beyond(after)
  <1>1. /\ head \in Nat /\ acked \in Nat /\ after \in Nat
        /\ Batch \in Nat \ {0} /\ ScanLimit \in Nat \ {0}
    BY MigrationAssumption DEF RecordsOK, MigrationTypeOK, Through
  <1>2. /\ B \in SUBSET (1..head)
        /\ \A m \in Nat : m \in B <=> m \in 1..head /\ m > after /\ m > acked
    BY <1>1 DEF Beyond
  <1>3. /\ Scanned \subseteq B
        /\ \A m \in Scanned : \A x \in B : x <= m => x \in Scanned
    BY <1>1, <1>2, FirstFacts DEF Scanned
  <1>4. Records \in SUBSET (1..head) /\ Records = Scanned \ Ignored
    BY <1>2, <1>3 DEF Records
  <1>5. /\ Selected \subseteq Records
        /\ Selected = {} => Records = {}
        /\ \A m \in Selected : \A x \in Records : x <= m => x \in Selected
    BY <1>1, <1>4, FirstFacts DEF Selected
  <1>. HIDE DEF B
  <1>6. /\ SelectedThrough \in Nat /\ after <= SelectedThrough
        /\ SelectedThrough # after => SelectedThrough \in Scanned
        /\ Selected # Records => SelectedThrough \in Selected
    <2>1. CASE Selected = Records
      <3>. DEFINE R == {after} \cup Scanned
      <3>1. R \in SUBSET (0..(after + head)) /\ R # {} /\ after + head \in Nat
        BY <1>1, <1>2, <1>3
      <3>2. Max(R) \in R /\ \A x \in R : x <= Max(R)
        BY <3>1, MaxOfRange
      <3>3. SelectedThrough = Max(R)
        BY <2>1 DEF SelectedThrough
      <3>4. after \in R /\ R \subseteq Nat
        BY <3>1
      <3>5. SelectedThrough \in Nat /\ after <= SelectedThrough
        BY <3>2, <3>3, <3>4
      <3>. QED  BY <2>1, <3>2, <3>3, <3>5
    <2>2. CASE Selected # Records
      <3>1. Selected \in SUBSET (0..head) /\ Selected # {}
        BY <1>1, <1>4, <1>5, <2>2
      <3>2. SelectedThrough = Max(Selected)
        BY <2>2 DEF SelectedThrough
      <3>3. SelectedThrough \in Selected
        BY <1>1, <3>1, <3>2, MaxOfRange
      <3>4. SelectedThrough \in Scanned /\ SelectedThrough \in B /\ SelectedThrough \in 1..head
        BY <1>2, <1>3, <1>4, <1>5, <3>3
      <3>5. SelectedThrough \in Nat /\ SelectedThrough > after
        BY <1>1, <1>2, <3>4
      <3>. QED  BY <1>1, <3>3, <3>4, <3>5
    <2>. QED  BY <2>1, <2>2
  <1>7. ASSUME NEW m \in 1..SelectedThrough, ~(m <= after), ~(m <= acked), m \notin Ignored
        PROVE  m \in Selected
    <2>1. m \in Nat /\ m > after /\ m > acked /\ m <= SelectedThrough /\ SelectedThrough # after
      BY <1>1, <1>6, <1>7
    <2>2. SelectedThrough \in Scanned /\ SelectedThrough \in 1..head
      BY <1>2, <1>3, <1>6, <2>1
    <2>3. m \in B
      BY <1>1, <1>2, <2>1, <2>2
    <2>4. m \in Records
      BY <1>3, <1>4, <1>7, <2>1, <2>2, <2>3
    <2>. QED  BY <1>5, <1>6, <2>1, <2>4
  <1>8. Selected \subseteq 1..head
    BY <1>4, <1>5
  <1>. QED  BY <1>6, <1>7, <1>8

\* A cursor that is published, or perhaps published, has its type.
LEMMA SaveKeepsTypes ==
    ASSUME RecordsOK, NEW through \in Nat, Save(through) \/ SaveFails(through)
    PROVE  /\ cursor' \in [present : BOOLEAN, through : Through, required : BOOLEAN]
           /\ after' \in Through
  <1>1. CursorAt(through) \in [present : BOOLEAN, through : Through, required : BOOLEAN]
    BY DEF CursorAt, Through
  <1>2. /\ cursor \in [present : BOOLEAN, through : Through, required : BOOLEAN]
        /\ after \in Through /\ through \in Through
    BY DEF RecordsOK, MigrationTypeOK, Through
  <1>. QED  BY <1>1, <1>2 DEF Save, SaveFails

\* Every step keeps the records in their ranges.
LEMMA RecordsNext ==
    ASSUME RecordsOK, PhaseOK, MigrationNext
    PROVE  RecordsOK'
  <1>1. CASE \E option \in Afters : StartLegacy(option)
    BY <1>1, MigrationAssumption, MaxOfTwo
       DEF StartLegacy, ImportedThrough, RecordsOK, MigrationTypeOK, Marker, Database,
           Through, PhaseOK, Opening, LegacyPlaces, FreshJournal, NoMarker, NoFile,
           EmptyFile, HotFile, NoCursor, NoBatch, evidence, bridge, process, bounds, ghosts,
           vars
  <1>2. CASE \E option \in Afters : PublishMarker(option)
    BY <1>2, MigrationAssumption, MaxOfTwo
       DEF PublishMarker, Draw, ImportedThrough, RecordsOK, MigrationTypeOK, Marker,
           Database, Through, PhaseOK, Opening, LegacyPlaces, FreshJournal, NoMarker,
           NoFile, EmptyFile, HotFile, NoCursor, NoBatch, evidence, bridge, process, bounds,
           ghosts, vars
  <1>3. CASE TakeUpMarker
    BY <1>3, MigrationAssumption
       DEF TakeUpMarker, RecordsOK, MigrationTypeOK, Marker, Database, Through, PhaseOK,
           Opening, LegacyPlaces, FreshJournal, NoMarker, NoFile, EmptyFile, HotFile,
           NoCursor, NoBatch, evidence, bridge, process, bounds, ghosts, vars
  <1>4. CASE Rebuild
    BY <1>4, MigrationAssumption
       DEF Rebuild, Draw, RebuiltMarker, RebuiltThrough, RecordsOK, MigrationTypeOK, Marker,
           Database, Through, PhaseOK, Opening, LegacyPlaces, FreshJournal, NoMarker,
           NoFile, EmptyFile, HotFile, NoCursor, NoBatch, evidence, bridge, process, bounds,
           ghosts, vars
  <1>5. CASE ResumeRebuild
    BY <1>5, MigrationAssumption
       DEF ResumeRebuild, RecordsOK, MigrationTypeOK, Marker, Database, Through, PhaseOK,
           Opening, LegacyPlaces, FreshJournal, NoMarker, NoFile, EmptyFile, HotFile,
           NoCursor, NoBatch, evidence, bridge, process, bounds, ghosts, vars
  <1>6. CASE CreateFile
    BY <1>6, MigrationAssumption
       DEF CreateFile, RecordsOK, MigrationTypeOK, Marker, Database, Through, PhaseOK,
           Opening, LegacyPlaces, FreshJournal, NoMarker, NoFile, EmptyFile, HotFile,
           NoCursor, NoBatch, evidence, bridge, process, bounds, ghosts, vars
  <1>7. CASE SwitchToWal
    BY <1>7, MigrationAssumption
       DEF SwitchToWal, RecordsOK, MigrationTypeOK, Marker, Database, Through, PhaseOK,
           Opening, LegacyPlaces, FreshJournal, NoMarker, NoFile, EmptyFile, HotFile,
           NoCursor, NoBatch, evidence, bridge, process, bounds, ghosts, vars
  <1>8. CASE EndSwitch
    BY <1>8, MigrationAssumption
       DEF EndSwitch, RecordsOK, MigrationTypeOK, Marker, Database, Through, PhaseOK,
           Opening, LegacyPlaces, FreshJournal, NoMarker, NoFile, EmptyFile, HotFile,
           NoCursor, NoBatch, evidence, bridge, process, bounds, ghosts, vars
  <1>9. CASE InitializeJournal
    BY <1>9, MigrationAssumption
       DEF InitializeJournal, FreshJournal, RecordsOK, MigrationTypeOK, Marker, Database,
           Through, PhaseOK, Opening, LegacyPlaces, NoMarker, NoFile, EmptyFile, HotFile,
           NoCursor, NoBatch, evidence, bridge, process, bounds, ghosts, vars
  <1>10. CASE AdoptJournal
    BY <1>10, MigrationAssumption
       DEF AdoptJournal, Adoptable, FreshJournal, RecordsOK, MigrationTypeOK, Marker,
           Database, Through, PhaseOK, Opening, LegacyPlaces, NoMarker, NoFile, EmptyFile,
           HotFile, NoCursor, NoBatch, evidence, bridge, process, bounds, ghosts, vars
  <1>11. CASE PublishReady
    BY <1>11, MigrationAssumption
       DEF PublishReady, RecordsOK, MigrationTypeOK, Marker, Database, Through, PhaseOK,
           Opening, LegacyPlaces, FreshJournal, NoMarker, NoFile, EmptyFile, HotFile,
           NoCursor, NoBatch, evidence, bridge, process, bounds, ghosts, vars
  <1>12. CASE OpenJournal
    BY <1>12, MigrationAssumption
       DEF OpenJournal, RecordsOK, MigrationTypeOK, Marker, Database, Through, PhaseOK,
           Opening, LegacyPlaces, FreshJournal, NoMarker, NoFile, EmptyFile, HotFile,
           NoCursor, NoBatch, evidence, bridge, process, bounds, ghosts, vars
  <1>13. CASE PassGate
    BY <1>13, MigrationAssumption
       DEF PassGate, CheckpointConflicts, ActivationConflicts, RecordsOK, MigrationTypeOK,
           Marker, Database, Through, PhaseOK, Opening, LegacyPlaces, FreshJournal,
           NoMarker, NoFile, EmptyFile, HotFile, NoCursor, NoBatch, evidence, bridge,
           process, bounds, ghosts, vars
  <1>14. CASE Activate
    BY <1>14, MigrationAssumption
       DEF Activate, RecordsOK, MigrationTypeOK, Marker, Database, Through, PhaseOK,
           Opening, LegacyPlaces, FreshJournal, NoMarker, NoFile, EmptyFile, HotFile,
           NoCursor, NoBatch, evidence, bridge, process, bounds, ghosts, vars
  <1>15. CASE Confirm
    BY <1>15, MigrationAssumption
       DEF Confirm, RecordsOK, MigrationTypeOK, Marker, Database, Through, PhaseOK, Opening,
           LegacyPlaces, FreshJournal, NoMarker, NoFile, EmptyFile, HotFile, NoCursor,
           NoBatch, evidence, bridge, process, bounds, ghosts, vars
  <1>16. CASE Deliver
    <2>1. PICK m \in 1..head : db' = [db EXCEPT !.sent = @ \cup {m}]
      BY <1>16 DEF Deliver, Unread, Beyond
    <2>2. db \in Database
      BY <1>16 DEF Deliver, RecordsOK, MigrationTypeOK, PhaseOK, NoFile, EmptyFile, HotFile
    <2>. m \in 1..MaxSeq
      BY MigrationAssumption DEF RecordsOK, MigrationTypeOK, Through
    <2>3. db' \in Database
      BY <2>1, <2>2 DEF Database
    <2>4. UNCHANGED <<marker, cursor, activation, bridge, process, bounds, told, notified>>
      BY <1>16 DEF Deliver
    <2>. QED  BY <2>3, <2>4 DEF RecordsOK, MigrationTypeOK, bridge, process, bounds
  <1>17. CASE RefuseWithoutMarker
    BY <1>17, MigrationAssumption
       DEF RefuseWithoutMarker, Refuse, SeenActivation, RecordsOK, MigrationTypeOK, Marker,
           Database, Through, PhaseOK, Opening, LegacyPlaces, FreshJournal, NoMarker,
           NoFile, EmptyFile, HotFile, NoCursor, NoBatch, evidence, bridge, process, bounds,
           ghosts, vars
  <1>18. CASE RefuseOldBridge
    BY <1>18, MigrationAssumption
       DEF RefuseOldBridge, Refuse, RecordsOK, MigrationTypeOK, Marker, Database, Through,
           PhaseOK, Opening, LegacyPlaces, FreshJournal, NoMarker, NoFile, EmptyFile,
           HotFile, NoCursor, NoBatch, evidence, bridge, process, bounds, ghosts, vars
  <1>19. CASE RefuseJournal
    BY <1>19, MigrationAssumption
       DEF RefuseJournal, Refuse, Adoptable, RecordsOK, MigrationTypeOK, Marker, Database,
           Through, PhaseOK, Opening, LegacyPlaces, FreshJournal, NoMarker, NoFile,
           EmptyFile, HotFile, NoCursor, NoBatch, evidence, bridge, process, bounds, ghosts,
           vars
  <1>20. CASE RefuseUnconfirmed
    BY <1>20, MigrationAssumption
       DEF RefuseUnconfirmed, Refuse, RecordsOK, MigrationTypeOK, Marker, Database, Through,
           PhaseOK, Opening, LegacyPlaces, FreshJournal, NoMarker, NoFile, EmptyFile,
           HotFile, NoCursor, NoBatch, evidence, bridge, process, bounds, ghosts, vars
  <1>21. CASE RefuseActivation
    BY <1>21, MigrationAssumption
       DEF RefuseActivation, Refuse, ActivationConflicts, CheckpointConflicts, RecordsOK,
           MigrationTypeOK, Marker, Database, Through, PhaseOK, Opening, LegacyPlaces,
           FreshJournal, NoMarker, NoFile, EmptyFile, HotFile, NoCursor, NoBatch, evidence,
           bridge, process, bounds, ghosts, vars
  <1>22. CASE SkipIgnored
    <2>1. SelectedThrough \in Nat /\ (Save(SelectedThrough) \/ SaveFails(SelectedThrough))
      BY <1>22, SelectedFacts DEF SkipIgnored
    <2>2. UNCHANGED <<marker, db, activation, bridge, batch, refused, bounds, ghosts>>
      BY <1>22 DEF SkipIgnored
    <2>. QED  BY <2>1, <2>2, SaveKeepsTypes
              DEF RecordsOK, MigrationTypeOK, bridge, bounds, ghosts
  <1>23. CASE FindRows
    BY <1>23, MigrationAssumption
       DEF FindRows, RecordsOK, MigrationTypeOK, Marker, Database, Through, PhaseOK,
           Opening, LegacyPlaces, FreshJournal, NoMarker, NoFile, EmptyFile, HotFile,
           NoCursor, NoBatch, evidence, bridge, process, bounds, ghosts, vars
  <1>24. CASE ReserveBatch
    BY <1>24, MigrationAssumption, SelectedFacts
       DEF ReserveBatch, RecordsOK, MigrationTypeOK, Marker, Database, Through, PhaseOK,
           Opening, LegacyPlaces, FreshJournal, NoMarker, NoFile, EmptyFile, HotFile,
           NoCursor, NoBatch, evidence, bridge, process, bounds, ghosts, vars
  <1>25. CASE ReserveNothing
    <2>1. /\ cursor' \in [present : BOOLEAN, through : Through, required : BOOLEAN]
          /\ after' \in Through
      <3>1. SelectedThrough \in Nat
        BY SelectedFacts
      <3>2. CASE UNCHANGED <<cursor, after>>
        BY <3>2 DEF RecordsOK, MigrationTypeOK
      <3>. QED  BY <1>25, <3>1, <3>2, SaveKeepsTypes DEF ReserveNothing
    <2>2. UNCHANGED <<marker, db, activation, bridge, batch, refused, bounds, ghosts>>
      BY <1>25 DEF ReserveNothing
    <2>. QED  BY <2>1, <2>2 DEF RecordsOK, MigrationTypeOK, bridge, bounds, ghosts
  <1>26. CASE CallProvider
    BY <1>26, MigrationAssumption
       DEF CallProvider, RecordsOK, MigrationTypeOK, Marker, Database, Through, PhaseOK,
           Opening, LegacyPlaces, FreshJournal, NoMarker, NoFile, EmptyFile, HotFile,
           NoCursor, NoBatch, evidence, bridge, process, bounds, ghosts, vars
  <1>27. CASE ResolveBatch
    <2>1. /\ cursor' \in [present : BOOLEAN, through : Through, required : BOOLEAN]
          /\ after' \in Through
      <3>1. batch.through \in Nat
        BY DEF RecordsOK
      <3>2. CASE UNCHANGED <<cursor, after>>
        BY <3>2 DEF RecordsOK, MigrationTypeOK
      <3>. QED  BY <1>27, <3>1, <3>2, SaveKeepsTypes DEF ResolveBatch
    <2>2. /\ UNCHANGED <<marker, db, activation, bridge, refused, bounds, ghosts>>
          /\ batch' \in {batch, NoBatch}
      BY <1>27 DEF ResolveBatch
    <2>. QED  BY <2>1, <2>2 DEF RecordsOK, MigrationTypeOK, NoBatch, bridge, bounds, ghosts
  <1>28. CASE StepFails
    BY <1>28, MigrationAssumption
       DEF StepFails, RecordsOK, MigrationTypeOK, Marker, Database, Through, PhaseOK,
           Opening, LegacyPlaces, FreshJournal, NoMarker, NoFile, EmptyFile, HotFile,
           NoCursor, NoBatch, evidence, bridge, process, bounds, ghosts, vars
  <1>29. CASE LegacyReady
    BY <1>29, MigrationAssumption
       DEF LegacyReady, RecordsOK, MigrationTypeOK, Marker, Database, Through, PhaseOK,
           Opening, LegacyPlaces, FreshJournal, NoMarker, NoFile, EmptyFile, HotFile,
           NoCursor, NoBatch, evidence, bridge, process, bounds, ghosts, vars
  <1>30. CASE Store
    BY <1>30, MigrationAssumption
       DEF Store, RecordsOK, MigrationTypeOK, Marker, Database, Through, PhaseOK, Opening,
           LegacyPlaces, FreshJournal, NoMarker, NoFile, EmptyFile, HotFile, NoCursor,
           NoBatch, evidence, bridge, process, bounds, ghosts, vars
  <1>31. CASE Acknowledge
    BY <1>31, MigrationAssumption
       DEF Acknowledge, RecordsOK, MigrationTypeOK, Marker, Database, Through, PhaseOK,
           Opening, LegacyPlaces, FreshJournal, NoMarker, NoFile, EmptyFile, HotFile,
           NoCursor, NoBatch, evidence, bridge, process, bounds, ghosts, vars
  <1>32. CASE Die
    BY <1>32, MigrationAssumption
       DEF Die, RecordsOK, MigrationTypeOK, Marker, Database, Through, PhaseOK, Opening,
           LegacyPlaces, FreshJournal, NoMarker, NoFile, EmptyFile, HotFile, NoCursor,
           NoBatch, evidence, bridge, process, bounds, ghosts, vars
  <1>33. CASE SwitchBridge
    BY <1>33, MigrationAssumption
       DEF SwitchBridge, RecordsOK, MigrationTypeOK, Marker, Database, Through, PhaseOK,
           Opening, LegacyPlaces, FreshJournal, NoMarker, NoFile, EmptyFile, HotFile,
           NoCursor, NoBatch, evidence, bridge, process, bounds, ghosts, vars
  <1>34. CASE Lose
    <2>1. /\ losses' \in 0..MaxLoss /\ UNCHANGED <<bridge, process, nonces, ghosts>>
          /\ marker' \in {marker, NoMarker} /\ db' \in {db, NoFile}
          /\ cursor' \in {cursor, NoCursor} /\ activation' \in {activation, 0}
      BY <1>34, MigrationAssumption DEF Lose, RecordsOK
    <2>2. /\ marker' \in Marker \cup {NoMarker}
          /\ marker'.state = "preparing" => ~marker'.lost
          /\ marker'.state = "rebuilding" => marker'.lost
          /\ marker'.state # "none" /\ ~marker'.lost => marker'.previous = 0
          /\ marker'.state # "none" => marker'.nonce <= nonces'
      BY <2>1 DEF RecordsOK, MigrationTypeOK, NoMarker
    <2>3. db' \in Database \cup {NoFile, EmptyFile, HotFile}
      BY <2>1 DEF RecordsOK, MigrationTypeOK
    <2>4. NoCursor \in [present : BOOLEAN, through : Through, required : BOOLEAN]
      BY DEF NoCursor, Through
    <2>5. cursor' \in [present : BOOLEAN, through : Through, required : BOOLEAN]
      BY <2>1, <2>4 DEF RecordsOK, MigrationTypeOK
    <2>6. activation' \in 0..nonces'
      BY <2>1, MigrationAssumption DEF RecordsOK, MigrationTypeOK
    <2>. QED  BY <2>1, <2>2, <2>3, <2>5, <2>6
              DEF RecordsOK, MigrationTypeOK, bridge, process, ghosts
  <1>. QED  BY <1>1, <1>2, <1>3, <1>4, <1>5, <1>6, <1>7, <1>8, <1>9, <1>10, <1>11, <1>12,
               <1>13, <1>14, <1>15, <1>16, <1>17, <1>18, <1>19, <1>20, <1>21, <1>22, <1>23,
               <1>24, <1>25, <1>26, <1>27, <1>28, <1>29, <1>30, <1>31, <1>32, <1>33, <1>34
            DEF MigrationNext, JournalSteps, Refusals, LegacySteps

\* Every step establishes what its phase stands for.
LEMMA PhaseNext ==
    ASSUME RecordsOK, PhaseOK, MigrationNext
    PROVE  PhaseOK'
  <1>1. CASE \E option \in Afters : StartLegacy(option)
    BY <1>1, MigrationAssumption, MaxOfTwo
       DEF StartLegacy, ImportedThrough, RecordsOK, MigrationTypeOK, Marker, Database,
           Through, PhaseOK, Opening, LegacyPlaces, Bootstrap, SameIdentity, LocalEvidence,
           FreshJournal, NoMarker, NoFile, EmptyFile, HotFile, NoCursor, NoBatch, evidence,
           bridge, process, bounds, ghosts, vars
  <1>2. CASE \E option \in Afters : PublishMarker(option)
    BY <1>2, MigrationAssumption, MaxOfTwo
       DEF PublishMarker, Draw, ImportedThrough, RecordsOK, MigrationTypeOK, Marker,
           Database, Through, PhaseOK, Opening, LegacyPlaces, Bootstrap, SameIdentity,
           LocalEvidence, FreshJournal, NoMarker, NoFile, EmptyFile, HotFile, NoCursor,
           NoBatch, evidence, bridge, process, bounds, ghosts, vars
  <1>3. CASE TakeUpMarker
    BY <1>3, MigrationAssumption
       DEF TakeUpMarker, RecordsOK, MigrationTypeOK, Marker, Database, Through, PhaseOK,
           Opening, LegacyPlaces, Bootstrap, SameIdentity, LocalEvidence, FreshJournal,
           NoMarker, NoFile, EmptyFile, HotFile, NoCursor, NoBatch, evidence, bridge,
           process, bounds, ghosts, vars
  <1>4. CASE Rebuild
    BY <1>4, MigrationAssumption
       DEF Rebuild, Draw, RebuiltMarker, RebuiltThrough, RecordsOK, MigrationTypeOK, Marker,
           Database, Through, PhaseOK, Opening, LegacyPlaces, Bootstrap, SameIdentity,
           LocalEvidence, FreshJournal, NoMarker, NoFile, EmptyFile, HotFile, NoCursor,
           NoBatch, evidence, bridge, process, bounds, ghosts, vars
  <1>5. CASE ResumeRebuild
    BY <1>5, MigrationAssumption
       DEF ResumeRebuild, RecordsOK, MigrationTypeOK, Marker, Database, Through, PhaseOK,
           Opening, LegacyPlaces, Bootstrap, SameIdentity, LocalEvidence, FreshJournal,
           NoMarker, NoFile, EmptyFile, HotFile, NoCursor, NoBatch, evidence, bridge,
           process, bounds, ghosts, vars
  <1>6. CASE CreateFile
    BY <1>6, MigrationAssumption
       DEF CreateFile, RecordsOK, MigrationTypeOK, Marker, Database, Through, PhaseOK,
           Opening, LegacyPlaces, Bootstrap, SameIdentity, LocalEvidence, FreshJournal,
           NoMarker, NoFile, EmptyFile, HotFile, NoCursor, NoBatch, evidence, bridge,
           process, bounds, ghosts, vars
  <1>7. CASE SwitchToWal
    BY <1>7, MigrationAssumption
       DEF SwitchToWal, RecordsOK, MigrationTypeOK, Marker, Database, Through, PhaseOK,
           Opening, LegacyPlaces, Bootstrap, SameIdentity, LocalEvidence, FreshJournal,
           NoMarker, NoFile, EmptyFile, HotFile, NoCursor, NoBatch, evidence, bridge,
           process, bounds, ghosts, vars
  <1>8. CASE EndSwitch
    BY <1>8, MigrationAssumption
       DEF EndSwitch, RecordsOK, MigrationTypeOK, Marker, Database, Through, PhaseOK,
           Opening, LegacyPlaces, Bootstrap, SameIdentity, LocalEvidence, FreshJournal,
           NoMarker, NoFile, EmptyFile, HotFile, NoCursor, NoBatch, evidence, bridge,
           process, bounds, ghosts, vars
  <1>9. CASE InitializeJournal
    BY <1>9, MigrationAssumption
       DEF InitializeJournal, FreshJournal, RecordsOK, MigrationTypeOK, Marker, Database,
           Through, PhaseOK, Opening, LegacyPlaces, Bootstrap, SameIdentity, LocalEvidence,
           NoMarker, NoFile, EmptyFile, HotFile, NoCursor, NoBatch, evidence, bridge,
           process, bounds, ghosts, vars
  <1>10. CASE AdoptJournal
    BY <1>10, MigrationAssumption
       DEF AdoptJournal, Adoptable, FreshJournal, RecordsOK, MigrationTypeOK, Marker,
           Database, Through, PhaseOK, Opening, LegacyPlaces, Bootstrap, SameIdentity,
           LocalEvidence, NoMarker, NoFile, EmptyFile, HotFile, NoCursor, NoBatch, evidence,
           bridge, process, bounds, ghosts, vars
  <1>11. CASE PublishReady
    BY <1>11, MigrationAssumption
       DEF PublishReady, RecordsOK, MigrationTypeOK, Marker, Database, Through, PhaseOK,
           Opening, LegacyPlaces, Bootstrap, SameIdentity, LocalEvidence, FreshJournal,
           NoMarker, NoFile, EmptyFile, HotFile, NoCursor, NoBatch, evidence, bridge,
           process, bounds, ghosts, vars
  <1>12. CASE OpenJournal
    BY <1>12, MigrationAssumption
       DEF OpenJournal, RecordsOK, MigrationTypeOK, Marker, Database, Through, PhaseOK,
           Opening, LegacyPlaces, Bootstrap, SameIdentity, LocalEvidence, FreshJournal,
           NoMarker, NoFile, EmptyFile, HotFile, NoCursor, NoBatch, evidence, bridge,
           process, bounds, ghosts, vars
  <1>13. CASE PassGate
    BY <1>13, MigrationAssumption
       DEF PassGate, CheckpointConflicts, ActivationConflicts, RecordsOK, MigrationTypeOK,
           Marker, Database, Through, PhaseOK, Opening, LegacyPlaces, Bootstrap,
           SameIdentity, LocalEvidence, FreshJournal, NoMarker, NoFile, EmptyFile, HotFile,
           NoCursor, NoBatch, evidence, bridge, process, bounds, ghosts, vars
  <1>14. CASE Activate
    BY <1>14, MigrationAssumption
       DEF Activate, RecordsOK, MigrationTypeOK, Marker, Database, Through, PhaseOK,
           Opening, LegacyPlaces, Bootstrap, SameIdentity, LocalEvidence, FreshJournal,
           NoMarker, NoFile, EmptyFile, HotFile, NoCursor, NoBatch, evidence, bridge,
           process, bounds, ghosts, vars
  <1>15. CASE Confirm
    BY <1>15, MigrationAssumption
       DEF Confirm, RecordsOK, MigrationTypeOK, Marker, Database, Through, PhaseOK, Opening,
           LegacyPlaces, Bootstrap, SameIdentity, LocalEvidence, FreshJournal, NoMarker,
           NoFile, EmptyFile, HotFile, NoCursor, NoBatch, evidence, bridge, process, bounds,
           ghosts, vars
  <1>16. CASE Deliver
    BY <1>16, MigrationAssumption
       DEF Deliver, Unread, Beyond, RecordsOK, MigrationTypeOK, Marker, Database, Through,
           PhaseOK, Opening, LegacyPlaces, Bootstrap, SameIdentity, LocalEvidence,
           FreshJournal, NoMarker, NoFile, EmptyFile, HotFile, NoCursor, NoBatch, evidence,
           bridge, process, bounds, ghosts, vars
  <1>17. CASE RefuseWithoutMarker
    BY <1>17, MigrationAssumption
       DEF RefuseWithoutMarker, Refuse, SeenActivation, RecordsOK, MigrationTypeOK, Marker,
           Database, Through, PhaseOK, Opening, LegacyPlaces, Bootstrap, SameIdentity,
           LocalEvidence, FreshJournal, NoMarker, NoFile, EmptyFile, HotFile, NoCursor,
           NoBatch, evidence, bridge, process, bounds, ghosts, vars
  <1>18. CASE RefuseOldBridge
    BY <1>18, MigrationAssumption
       DEF RefuseOldBridge, Refuse, RecordsOK, MigrationTypeOK, Marker, Database, Through,
           PhaseOK, Opening, LegacyPlaces, Bootstrap, SameIdentity, LocalEvidence,
           FreshJournal, NoMarker, NoFile, EmptyFile, HotFile, NoCursor, NoBatch, evidence,
           bridge, process, bounds, ghosts, vars
  <1>19. CASE RefuseJournal
    BY <1>19, MigrationAssumption
       DEF RefuseJournal, Refuse, Adoptable, RecordsOK, MigrationTypeOK, Marker, Database,
           Through, PhaseOK, Opening, LegacyPlaces, Bootstrap, SameIdentity, LocalEvidence,
           FreshJournal, NoMarker, NoFile, EmptyFile, HotFile, NoCursor, NoBatch, evidence,
           bridge, process, bounds, ghosts, vars
  <1>20. CASE RefuseUnconfirmed
    BY <1>20, MigrationAssumption
       DEF RefuseUnconfirmed, Refuse, RecordsOK, MigrationTypeOK, Marker, Database, Through,
           PhaseOK, Opening, LegacyPlaces, Bootstrap, SameIdentity, LocalEvidence,
           FreshJournal, NoMarker, NoFile, EmptyFile, HotFile, NoCursor, NoBatch, evidence,
           bridge, process, bounds, ghosts, vars
  <1>21. CASE RefuseActivation
    BY <1>21, MigrationAssumption
       DEF RefuseActivation, Refuse, ActivationConflicts, CheckpointConflicts, RecordsOK,
           MigrationTypeOK, Marker, Database, Through, PhaseOK, Opening, LegacyPlaces,
           Bootstrap, SameIdentity, LocalEvidence, FreshJournal, NoMarker, NoFile,
           EmptyFile, HotFile, NoCursor, NoBatch, evidence, bridge, process, bounds, ghosts,
           vars
  <1>22. CASE SkipIgnored
    BY <1>22, MigrationAssumption, SelectedFacts
       DEF SkipIgnored, Save, SaveFails, CursorAt, RecordsOK, MigrationTypeOK, Marker,
           Database, Through, PhaseOK, Opening, LegacyPlaces, Bootstrap, SameIdentity,
           LocalEvidence, FreshJournal, NoMarker, NoFile, EmptyFile, HotFile, NoCursor,
           NoBatch, evidence, bridge, process, bounds, ghosts, vars
  <1>23. CASE FindRows
    BY <1>23, MigrationAssumption
       DEF FindRows, RecordsOK, MigrationTypeOK, Marker, Database, Through, PhaseOK,
           Opening, LegacyPlaces, Bootstrap, SameIdentity, LocalEvidence, FreshJournal,
           NoMarker, NoFile, EmptyFile, HotFile, NoCursor, NoBatch, evidence, bridge,
           process, bounds, ghosts, vars
  <1>24. CASE ReserveBatch
    BY <1>24, MigrationAssumption, SelectedFacts
       DEF ReserveBatch, RecordsOK, MigrationTypeOK, Marker, Database, Through, PhaseOK,
           Opening, LegacyPlaces, Bootstrap, SameIdentity, LocalEvidence, FreshJournal,
           NoMarker, NoFile, EmptyFile, HotFile, NoCursor, NoBatch, evidence, bridge,
           process, bounds, ghosts, vars
  <1>25. CASE ReserveNothing
    BY <1>25, MigrationAssumption, SelectedFacts
       DEF ReserveNothing, Save, SaveFails, CursorAt, RecordsOK, MigrationTypeOK, Marker,
           Database, Through, PhaseOK, Opening, LegacyPlaces, Bootstrap, SameIdentity,
           LocalEvidence, FreshJournal, NoMarker, NoFile, EmptyFile, HotFile, NoCursor,
           NoBatch, evidence, bridge, process, bounds, ghosts, vars
  <1>26. CASE CallProvider
    BY <1>26, MigrationAssumption
       DEF CallProvider, RecordsOK, MigrationTypeOK, Marker, Database, Through, PhaseOK,
           Opening, LegacyPlaces, Bootstrap, SameIdentity, LocalEvidence, FreshJournal,
           NoMarker, NoFile, EmptyFile, HotFile, NoCursor, NoBatch, evidence, bridge,
           process, bounds, ghosts, vars
  <1>27. CASE ResolveBatch
    BY <1>27, MigrationAssumption
       DEF ResolveBatch, Advances, Save, SaveFails, CursorAt, RecordsOK, MigrationTypeOK,
           Marker, Database, Through, PhaseOK, Opening, LegacyPlaces, Bootstrap,
           SameIdentity, LocalEvidence, FreshJournal, NoMarker, NoFile, EmptyFile, HotFile,
           NoCursor, NoBatch, evidence, bridge, process, bounds, ghosts, vars
  <1>28. CASE StepFails
    BY <1>28, MigrationAssumption
       DEF StepFails, RecordsOK, MigrationTypeOK, Marker, Database, Through, PhaseOK,
           Opening, LegacyPlaces, Bootstrap, SameIdentity, LocalEvidence, FreshJournal,
           NoMarker, NoFile, EmptyFile, HotFile, NoCursor, NoBatch, evidence, bridge,
           process, bounds, ghosts, vars
  <1>29. CASE LegacyReady
    BY <1>29, MigrationAssumption
       DEF LegacyReady, RecordsOK, MigrationTypeOK, Marker, Database, Through, PhaseOK,
           Opening, LegacyPlaces, Bootstrap, SameIdentity, LocalEvidence, FreshJournal,
           NoMarker, NoFile, EmptyFile, HotFile, NoCursor, NoBatch, evidence, bridge,
           process, bounds, ghosts, vars
  <1>30. CASE Store
    BY <1>30, MigrationAssumption
       DEF Store, RecordsOK, MigrationTypeOK, Marker, Database, Through, PhaseOK, Opening,
           LegacyPlaces, Bootstrap, SameIdentity, LocalEvidence, FreshJournal, NoMarker,
           NoFile, EmptyFile, HotFile, NoCursor, NoBatch, evidence, bridge, process, bounds,
           ghosts, vars
  <1>31. CASE Acknowledge
    BY <1>31, MigrationAssumption
       DEF Acknowledge, RecordsOK, MigrationTypeOK, Marker, Database, Through, PhaseOK,
           Opening, LegacyPlaces, Bootstrap, SameIdentity, LocalEvidence, FreshJournal,
           NoMarker, NoFile, EmptyFile, HotFile, NoCursor, NoBatch, evidence, bridge,
           process, bounds, ghosts, vars
  <1>32. CASE Die
    BY <1>32, MigrationAssumption
       DEF Die, RecordsOK, MigrationTypeOK, Marker, Database, Through, PhaseOK, Opening,
           LegacyPlaces, Bootstrap, SameIdentity, LocalEvidence, FreshJournal, NoMarker,
           NoFile, EmptyFile, HotFile, NoCursor, NoBatch, evidence, bridge, process, bounds,
           ghosts, vars
  <1>33. CASE SwitchBridge
    BY <1>33, MigrationAssumption
       DEF SwitchBridge, RecordsOK, MigrationTypeOK, Marker, Database, Through, PhaseOK,
           Opening, LegacyPlaces, Bootstrap, SameIdentity, LocalEvidence, FreshJournal,
           NoMarker, NoFile, EmptyFile, HotFile, NoCursor, NoBatch, evidence, bridge,
           process, bounds, ghosts, vars
  <1>34. CASE Lose
    BY <1>34, MigrationAssumption
       DEF Lose, RecordsOK, MigrationTypeOK, Marker, Database, Through, PhaseOK, Opening,
           LegacyPlaces, Bootstrap, SameIdentity, LocalEvidence, FreshJournal, NoMarker,
           NoFile, EmptyFile, HotFile, NoCursor, NoBatch, evidence, bridge, process, bounds,
           ghosts, vars
  <1>. QED  BY <1>1, <1>2, <1>3, <1>4, <1>5, <1>6, <1>7, <1>8, <1>9, <1>10, <1>11, <1>12,
               <1>13, <1>14, <1>15, <1>16, <1>17, <1>18, <1>19, <1>20, <1>21, <1>22, <1>23,
               <1>24, <1>25, <1>26, <1>27, <1>28, <1>29, <1>30, <1>31, <1>32, <1>33, <1>34
            DEF MigrationNext, JournalSteps, Refusals, LegacySteps

\* Every step guards the history.
LEMMA HistoryNext ==
    ASSUME RecordsOK, PhaseOK, HistoryIsGuarded, MaxLoss <= 2, MigrationNext
    PROVE  HistoryIsGuarded'
  <1>1. CASE \E option \in Afters : StartLegacy(option)
    BY <1>1, MigrationAssumption, MaxOfTwo
       DEF StartLegacy, ImportedThrough, RecordsOK, MigrationTypeOK, Marker, Database,
           Through, PhaseOK, HistoryIsGuarded, Pieces, Opening, LegacyPlaces, Bootstrap,
           SameIdentity, LocalEvidence, FreshJournal, NoMarker, NoFile, EmptyFile, HotFile,
           NoCursor, NoBatch, evidence, bridge, process, bounds, ghosts, vars
  <1>2. CASE \E option \in Afters : PublishMarker(option)
    BY <1>2, MigrationAssumption, MaxOfTwo
       DEF PublishMarker, Draw, ImportedThrough, RecordsOK, MigrationTypeOK, Marker,
           Database, Through, PhaseOK, HistoryIsGuarded, Pieces, Opening, LegacyPlaces,
           Bootstrap, SameIdentity, LocalEvidence, FreshJournal, NoMarker, NoFile,
           EmptyFile, HotFile, NoCursor, NoBatch, evidence, bridge, process, bounds, ghosts,
           vars
  <1>3. CASE TakeUpMarker
    BY <1>3, MigrationAssumption
       DEF TakeUpMarker, RecordsOK, MigrationTypeOK, Marker, Database, Through, PhaseOK,
           HistoryIsGuarded, Pieces, Opening, LegacyPlaces, Bootstrap, SameIdentity,
           LocalEvidence, FreshJournal, NoMarker, NoFile, EmptyFile, HotFile, NoCursor,
           NoBatch, evidence, bridge, process, bounds, ghosts, vars
  <1>4. CASE Rebuild
    BY <1>4, MigrationAssumption
       DEF Rebuild, Draw, RebuiltMarker, RebuiltThrough, RecordsOK, MigrationTypeOK, Marker,
           Database, Through, PhaseOK, HistoryIsGuarded, Pieces, Opening, LegacyPlaces,
           Bootstrap, SameIdentity, LocalEvidence, FreshJournal, NoMarker, NoFile,
           EmptyFile, HotFile, NoCursor, NoBatch, evidence, bridge, process, bounds, ghosts,
           vars
  <1>5. CASE ResumeRebuild
    BY <1>5, MigrationAssumption
       DEF ResumeRebuild, RecordsOK, MigrationTypeOK, Marker, Database, Through, PhaseOK,
           HistoryIsGuarded, Pieces, Opening, LegacyPlaces, Bootstrap, SameIdentity,
           LocalEvidence, FreshJournal, NoMarker, NoFile, EmptyFile, HotFile, NoCursor,
           NoBatch, evidence, bridge, process, bounds, ghosts, vars
  <1>6. CASE CreateFile
    BY <1>6, MigrationAssumption
       DEF CreateFile, RecordsOK, MigrationTypeOK, Marker, Database, Through, PhaseOK,
           HistoryIsGuarded, Pieces, Opening, LegacyPlaces, Bootstrap, SameIdentity,
           LocalEvidence, FreshJournal, NoMarker, NoFile, EmptyFile, HotFile, NoCursor,
           NoBatch, evidence, bridge, process, bounds, ghosts, vars
  <1>7. CASE SwitchToWal
    BY <1>7, MigrationAssumption
       DEF SwitchToWal, RecordsOK, MigrationTypeOK, Marker, Database, Through, PhaseOK,
           HistoryIsGuarded, Pieces, Opening, LegacyPlaces, Bootstrap, SameIdentity,
           LocalEvidence, FreshJournal, NoMarker, NoFile, EmptyFile, HotFile, NoCursor,
           NoBatch, evidence, bridge, process, bounds, ghosts, vars
  <1>8. CASE EndSwitch
    BY <1>8, MigrationAssumption
       DEF EndSwitch, RecordsOK, MigrationTypeOK, Marker, Database, Through, PhaseOK,
           HistoryIsGuarded, Pieces, Opening, LegacyPlaces, Bootstrap, SameIdentity,
           LocalEvidence, FreshJournal, NoMarker, NoFile, EmptyFile, HotFile, NoCursor,
           NoBatch, evidence, bridge, process, bounds, ghosts, vars
  <1>9. CASE InitializeJournal
    BY <1>9, MigrationAssumption
       DEF InitializeJournal, FreshJournal, RecordsOK, MigrationTypeOK, Marker, Database,
           Through, PhaseOK, HistoryIsGuarded, Pieces, Opening, LegacyPlaces, Bootstrap,
           SameIdentity, LocalEvidence, NoMarker, NoFile, EmptyFile, HotFile, NoCursor,
           NoBatch, evidence, bridge, process, bounds, ghosts, vars
  <1>10. CASE AdoptJournal
    BY <1>10, MigrationAssumption
       DEF AdoptJournal, Adoptable, FreshJournal, RecordsOK, MigrationTypeOK, Marker,
           Database, Through, PhaseOK, HistoryIsGuarded, Pieces, Opening, LegacyPlaces,
           Bootstrap, SameIdentity, LocalEvidence, NoMarker, NoFile, EmptyFile, HotFile,
           NoCursor, NoBatch, evidence, bridge, process, bounds, ghosts, vars
  <1>11. CASE PublishReady
    BY <1>11, MigrationAssumption
       DEF PublishReady, RecordsOK, MigrationTypeOK, Marker, Database, Through, PhaseOK,
           HistoryIsGuarded, Pieces, Opening, LegacyPlaces, Bootstrap, SameIdentity,
           LocalEvidence, FreshJournal, NoMarker, NoFile, EmptyFile, HotFile, NoCursor,
           NoBatch, evidence, bridge, process, bounds, ghosts, vars
  <1>12. CASE OpenJournal
    BY <1>12, MigrationAssumption
       DEF OpenJournal, RecordsOK, MigrationTypeOK, Marker, Database, Through, PhaseOK,
           HistoryIsGuarded, Pieces, Opening, LegacyPlaces, Bootstrap, SameIdentity,
           LocalEvidence, FreshJournal, NoMarker, NoFile, EmptyFile, HotFile, NoCursor,
           NoBatch, evidence, bridge, process, bounds, ghosts, vars
  <1>13. CASE PassGate
    BY <1>13, MigrationAssumption
       DEF PassGate, CheckpointConflicts, ActivationConflicts, RecordsOK, MigrationTypeOK,
           Marker, Database, Through, PhaseOK, HistoryIsGuarded, Pieces, Opening,
           LegacyPlaces, Bootstrap, SameIdentity, LocalEvidence, FreshJournal, NoMarker,
           NoFile, EmptyFile, HotFile, NoCursor, NoBatch, evidence, bridge, process, bounds,
           ghosts, vars
  <1>14. CASE Activate
    BY <1>14, MigrationAssumption
       DEF Activate, RecordsOK, MigrationTypeOK, Marker, Database, Through, PhaseOK,
           HistoryIsGuarded, Pieces, Opening, LegacyPlaces, Bootstrap, SameIdentity,
           LocalEvidence, FreshJournal, NoMarker, NoFile, EmptyFile, HotFile, NoCursor,
           NoBatch, evidence, bridge, process, bounds, ghosts, vars
  <1>15. CASE Confirm
    BY <1>15, MigrationAssumption
       DEF Confirm, RecordsOK, MigrationTypeOK, Marker, Database, Through, PhaseOK,
           HistoryIsGuarded, Pieces, Opening, LegacyPlaces, Bootstrap, SameIdentity,
           LocalEvidence, FreshJournal, NoMarker, NoFile, EmptyFile, HotFile, NoCursor,
           NoBatch, evidence, bridge, process, bounds, ghosts, vars
  <1>16. CASE Deliver
    BY <1>16, MigrationAssumption
       DEF Deliver, Unread, Beyond, RecordsOK, MigrationTypeOK, Marker, Database, Through,
           PhaseOK, HistoryIsGuarded, Pieces, Opening, LegacyPlaces, Bootstrap,
           SameIdentity, LocalEvidence, FreshJournal, NoMarker, NoFile, EmptyFile, HotFile,
           NoCursor, NoBatch, evidence, bridge, process, bounds, ghosts, vars
  <1>17. CASE RefuseWithoutMarker
    BY <1>17, MigrationAssumption
       DEF RefuseWithoutMarker, Refuse, SeenActivation, RecordsOK, MigrationTypeOK, Marker,
           Database, Through, PhaseOK, HistoryIsGuarded, Pieces, Opening, LegacyPlaces,
           Bootstrap, SameIdentity, LocalEvidence, FreshJournal, NoMarker, NoFile,
           EmptyFile, HotFile, NoCursor, NoBatch, evidence, bridge, process, bounds, ghosts,
           vars
  <1>18. CASE RefuseOldBridge
    BY <1>18, MigrationAssumption
       DEF RefuseOldBridge, Refuse, RecordsOK, MigrationTypeOK, Marker, Database, Through,
           PhaseOK, HistoryIsGuarded, Pieces, Opening, LegacyPlaces, Bootstrap,
           SameIdentity, LocalEvidence, FreshJournal, NoMarker, NoFile, EmptyFile, HotFile,
           NoCursor, NoBatch, evidence, bridge, process, bounds, ghosts, vars
  <1>19. CASE RefuseJournal
    BY <1>19, MigrationAssumption
       DEF RefuseJournal, Refuse, Adoptable, RecordsOK, MigrationTypeOK, Marker, Database,
           Through, PhaseOK, HistoryIsGuarded, Pieces, Opening, LegacyPlaces, Bootstrap,
           SameIdentity, LocalEvidence, FreshJournal, NoMarker, NoFile, EmptyFile, HotFile,
           NoCursor, NoBatch, evidence, bridge, process, bounds, ghosts, vars
  <1>20. CASE RefuseUnconfirmed
    BY <1>20, MigrationAssumption
       DEF RefuseUnconfirmed, Refuse, RecordsOK, MigrationTypeOK, Marker, Database, Through,
           PhaseOK, HistoryIsGuarded, Pieces, Opening, LegacyPlaces, Bootstrap,
           SameIdentity, LocalEvidence, FreshJournal, NoMarker, NoFile, EmptyFile, HotFile,
           NoCursor, NoBatch, evidence, bridge, process, bounds, ghosts, vars
  <1>21. CASE RefuseActivation
    BY <1>21, MigrationAssumption
       DEF RefuseActivation, Refuse, ActivationConflicts, CheckpointConflicts, RecordsOK,
           MigrationTypeOK, Marker, Database, Through, PhaseOK, HistoryIsGuarded, Pieces,
           Opening, LegacyPlaces, Bootstrap, SameIdentity, LocalEvidence, FreshJournal,
           NoMarker, NoFile, EmptyFile, HotFile, NoCursor, NoBatch, evidence, bridge,
           process, bounds, ghosts, vars
  <1>22. CASE SkipIgnored
    BY <1>22, MigrationAssumption, SelectedFacts
       DEF SkipIgnored, Save, SaveFails, CursorAt, RecordsOK, MigrationTypeOK, Marker,
           Database, Through, PhaseOK, HistoryIsGuarded, Pieces, Opening, LegacyPlaces,
           Bootstrap, SameIdentity, LocalEvidence, FreshJournal, NoMarker, NoFile,
           EmptyFile, HotFile, NoCursor, NoBatch, evidence, bridge, process, bounds, ghosts,
           vars
  <1>23. CASE FindRows
    BY <1>23, MigrationAssumption
       DEF FindRows, RecordsOK, MigrationTypeOK, Marker, Database, Through, PhaseOK,
           HistoryIsGuarded, Pieces, Opening, LegacyPlaces, Bootstrap, SameIdentity,
           LocalEvidence, FreshJournal, NoMarker, NoFile, EmptyFile, HotFile, NoCursor,
           NoBatch, evidence, bridge, process, bounds, ghosts, vars
  <1>24. CASE ReserveBatch
    BY <1>24, MigrationAssumption, SelectedFacts
       DEF ReserveBatch, RecordsOK, MigrationTypeOK, Marker, Database, Through, PhaseOK,
           HistoryIsGuarded, Pieces, Opening, LegacyPlaces, Bootstrap, SameIdentity,
           LocalEvidence, FreshJournal, NoMarker, NoFile, EmptyFile, HotFile, NoCursor,
           NoBatch, evidence, bridge, process, bounds, ghosts, vars
  <1>25. CASE ReserveNothing
    BY <1>25, MigrationAssumption, SelectedFacts
       DEF ReserveNothing, Save, SaveFails, CursorAt, RecordsOK, MigrationTypeOK, Marker,
           Database, Through, PhaseOK, HistoryIsGuarded, Pieces, Opening, LegacyPlaces,
           Bootstrap, SameIdentity, LocalEvidence, FreshJournal, NoMarker, NoFile,
           EmptyFile, HotFile, NoCursor, NoBatch, evidence, bridge, process, bounds, ghosts,
           vars
  <1>26. CASE CallProvider
    BY <1>26, MigrationAssumption
       DEF CallProvider, RecordsOK, MigrationTypeOK, Marker, Database, Through, PhaseOK,
           HistoryIsGuarded, Pieces, Opening, LegacyPlaces, Bootstrap, SameIdentity,
           LocalEvidence, FreshJournal, NoMarker, NoFile, EmptyFile, HotFile, NoCursor,
           NoBatch, evidence, bridge, process, bounds, ghosts, vars
  <1>27. CASE ResolveBatch
    BY <1>27, MigrationAssumption
       DEF ResolveBatch, Advances, Save, SaveFails, CursorAt, RecordsOK, MigrationTypeOK,
           Marker, Database, Through, PhaseOK, HistoryIsGuarded, Pieces, Opening,
           LegacyPlaces, Bootstrap, SameIdentity, LocalEvidence, FreshJournal, NoMarker,
           NoFile, EmptyFile, HotFile, NoCursor, NoBatch, evidence, bridge, process, bounds,
           ghosts, vars
  <1>28. CASE StepFails
    BY <1>28, MigrationAssumption
       DEF StepFails, RecordsOK, MigrationTypeOK, Marker, Database, Through, PhaseOK,
           HistoryIsGuarded, Pieces, Opening, LegacyPlaces, Bootstrap, SameIdentity,
           LocalEvidence, FreshJournal, NoMarker, NoFile, EmptyFile, HotFile, NoCursor,
           NoBatch, evidence, bridge, process, bounds, ghosts, vars
  <1>29. CASE LegacyReady
    BY <1>29, MigrationAssumption
       DEF LegacyReady, RecordsOK, MigrationTypeOK, Marker, Database, Through, PhaseOK,
           HistoryIsGuarded, Pieces, Opening, LegacyPlaces, Bootstrap, SameIdentity,
           LocalEvidence, FreshJournal, NoMarker, NoFile, EmptyFile, HotFile, NoCursor,
           NoBatch, evidence, bridge, process, bounds, ghosts, vars
  <1>30. CASE Store
    BY <1>30, MigrationAssumption
       DEF Store, RecordsOK, MigrationTypeOK, Marker, Database, Through, PhaseOK,
           HistoryIsGuarded, Pieces, Opening, LegacyPlaces, Bootstrap, SameIdentity,
           LocalEvidence, FreshJournal, NoMarker, NoFile, EmptyFile, HotFile, NoCursor,
           NoBatch, evidence, bridge, process, bounds, ghosts, vars
  <1>31. CASE Acknowledge
    BY <1>31, MigrationAssumption
       DEF Acknowledge, RecordsOK, MigrationTypeOK, Marker, Database, Through, PhaseOK,
           HistoryIsGuarded, Pieces, Opening, LegacyPlaces, Bootstrap, SameIdentity,
           LocalEvidence, FreshJournal, NoMarker, NoFile, EmptyFile, HotFile, NoCursor,
           NoBatch, evidence, bridge, process, bounds, ghosts, vars
  <1>32. CASE Die
    BY <1>32, MigrationAssumption
       DEF Die, RecordsOK, MigrationTypeOK, Marker, Database, Through, PhaseOK,
           HistoryIsGuarded, Pieces, Opening, LegacyPlaces, Bootstrap, SameIdentity,
           LocalEvidence, FreshJournal, NoMarker, NoFile, EmptyFile, HotFile, NoCursor,
           NoBatch, evidence, bridge, process, bounds, ghosts, vars
  <1>33. CASE SwitchBridge
    BY <1>33, MigrationAssumption
       DEF SwitchBridge, RecordsOK, MigrationTypeOK, Marker, Database, Through, PhaseOK,
           HistoryIsGuarded, Pieces, Opening, LegacyPlaces, Bootstrap, SameIdentity,
           LocalEvidence, FreshJournal, NoMarker, NoFile, EmptyFile, HotFile, NoCursor,
           NoBatch, evidence, bridge, process, bounds, ghosts, vars
  <1>34. CASE Lose
    BY <1>34, MigrationAssumption
       DEF Lose, RecordsOK, MigrationTypeOK, Marker, Database, Through, PhaseOK,
           HistoryIsGuarded, Pieces, Opening, LegacyPlaces, Bootstrap, SameIdentity,
           LocalEvidence, FreshJournal, NoMarker, NoFile, EmptyFile, HotFile, NoCursor,
           NoBatch, evidence, bridge, process, bounds, ghosts, vars
  <1>. QED  BY <1>1, <1>2, <1>3, <1>4, <1>5, <1>6, <1>7, <1>8, <1>9, <1>10, <1>11, <1>12,
               <1>13, <1>14, <1>15, <1>16, <1>17, <1>18, <1>19, <1>20, <1>21, <1>22, <1>23,
               <1>24, <1>25, <1>26, <1>27, <1>28, <1>29, <1>30, <1>31, <1>32, <1>33, <1>34
            DEF MigrationNext, JournalSteps, Refusals, LegacySteps

\* Every step accounts for what it passes.
LEMMA CheckpointsNext ==
    ASSUME RecordsOK, PhaseOK, CheckpointsOK, MigrationNext
    PROVE  CheckpointsOK'
  <1>1. CASE \E option \in Afters : StartLegacy(option)
    BY <1>1, MigrationAssumption, MaxOfTwo
       DEF StartLegacy, ImportedThrough, RecordsOK, MigrationTypeOK, Marker, Database,
           Through, CheckpointsOK, NothingSkipped, Accounted, PhaseOK, Opening,
           LegacyPlaces, NoMarker, NoFile, EmptyFile, HotFile, NoCursor, NoBatch, evidence,
           bridge, process, bounds, ghosts, vars
  <1>2. CASE \E option \in Afters : PublishMarker(option)
    BY <1>2, MigrationAssumption, MaxOfTwo
       DEF PublishMarker, Draw, ImportedThrough, RecordsOK, MigrationTypeOK, Marker,
           Database, Through, CheckpointsOK, NothingSkipped, Accounted, PhaseOK, Opening,
           LegacyPlaces, NoMarker, NoFile, EmptyFile, HotFile, NoCursor, NoBatch, evidence,
           bridge, process, bounds, ghosts, vars
  <1>3. CASE TakeUpMarker
    BY <1>3, MigrationAssumption
       DEF TakeUpMarker, RecordsOK, MigrationTypeOK, Marker, Database, Through,
           CheckpointsOK, NothingSkipped, Accounted, PhaseOK, Opening, LegacyPlaces,
           NoMarker, NoFile, EmptyFile, HotFile, NoCursor, NoBatch, evidence, bridge,
           process, bounds, ghosts, vars
  <1>4. CASE Rebuild
    BY <1>4, MigrationAssumption
       DEF Rebuild, Draw, RebuiltMarker, RebuiltThrough, RecordsOK, MigrationTypeOK, Marker,
           Database, Through, CheckpointsOK, NothingSkipped, Accounted, PhaseOK, Opening,
           LegacyPlaces, NoMarker, NoFile, EmptyFile, HotFile, NoCursor, NoBatch, evidence,
           bridge, process, bounds, ghosts, vars
  <1>5. CASE ResumeRebuild
    BY <1>5, MigrationAssumption
       DEF ResumeRebuild, RecordsOK, MigrationTypeOK, Marker, Database, Through,
           CheckpointsOK, NothingSkipped, Accounted, PhaseOK, Opening, LegacyPlaces,
           NoMarker, NoFile, EmptyFile, HotFile, NoCursor, NoBatch, evidence, bridge,
           process, bounds, ghosts, vars
  <1>6. CASE CreateFile
    BY <1>6, MigrationAssumption
       DEF CreateFile, RecordsOK, MigrationTypeOK, Marker, Database, Through, CheckpointsOK,
           NothingSkipped, Accounted, PhaseOK, Opening, LegacyPlaces, NoMarker, NoFile,
           EmptyFile, HotFile, NoCursor, NoBatch, evidence, bridge, process, bounds, ghosts,
           vars
  <1>7. CASE SwitchToWal
    BY <1>7, MigrationAssumption
       DEF SwitchToWal, RecordsOK, MigrationTypeOK, Marker, Database, Through,
           CheckpointsOK, NothingSkipped, Accounted, PhaseOK, Opening, LegacyPlaces,
           NoMarker, NoFile, EmptyFile, HotFile, NoCursor, NoBatch, evidence, bridge,
           process, bounds, ghosts, vars
  <1>8. CASE EndSwitch
    BY <1>8, MigrationAssumption
       DEF EndSwitch, RecordsOK, MigrationTypeOK, Marker, Database, Through, CheckpointsOK,
           NothingSkipped, Accounted, PhaseOK, Opening, LegacyPlaces, NoMarker, NoFile,
           EmptyFile, HotFile, NoCursor, NoBatch, evidence, bridge, process, bounds, ghosts,
           vars
  <1>9. CASE InitializeJournal
    BY <1>9, MigrationAssumption
       DEF InitializeJournal, FreshJournal, RecordsOK, MigrationTypeOK, Marker, Database,
           Through, CheckpointsOK, NothingSkipped, Accounted, PhaseOK, Opening,
           LegacyPlaces, NoMarker, NoFile, EmptyFile, HotFile, NoCursor, NoBatch, evidence,
           bridge, process, bounds, ghosts, vars
  <1>10. CASE AdoptJournal
    BY <1>10, MigrationAssumption
       DEF AdoptJournal, Adoptable, FreshJournal, RecordsOK, MigrationTypeOK, Marker,
           Database, Through, CheckpointsOK, NothingSkipped, Accounted, PhaseOK, Opening,
           LegacyPlaces, NoMarker, NoFile, EmptyFile, HotFile, NoCursor, NoBatch, evidence,
           bridge, process, bounds, ghosts, vars
  <1>11. CASE PublishReady
    BY <1>11, MigrationAssumption
       DEF PublishReady, RecordsOK, MigrationTypeOK, Marker, Database, Through,
           CheckpointsOK, NothingSkipped, Accounted, PhaseOK, Opening, LegacyPlaces,
           NoMarker, NoFile, EmptyFile, HotFile, NoCursor, NoBatch, evidence, bridge,
           process, bounds, ghosts, vars
  <1>12. CASE OpenJournal
    BY <1>12, MigrationAssumption
       DEF OpenJournal, RecordsOK, MigrationTypeOK, Marker, Database, Through,
           CheckpointsOK, NothingSkipped, Accounted, PhaseOK, Opening, LegacyPlaces,
           NoMarker, NoFile, EmptyFile, HotFile, NoCursor, NoBatch, evidence, bridge,
           process, bounds, ghosts, vars
  <1>13. CASE PassGate
    BY <1>13, MigrationAssumption
       DEF PassGate, CheckpointConflicts, ActivationConflicts, RecordsOK, MigrationTypeOK,
           Marker, Database, Through, CheckpointsOK, NothingSkipped, Accounted, PhaseOK,
           Opening, LegacyPlaces, NoMarker, NoFile, EmptyFile, HotFile, NoCursor, NoBatch,
           evidence, bridge, process, bounds, ghosts, vars
  <1>14. CASE Activate
    BY <1>14, MigrationAssumption
       DEF Activate, RecordsOK, MigrationTypeOK, Marker, Database, Through, CheckpointsOK,
           NothingSkipped, Accounted, PhaseOK, Opening, LegacyPlaces, NoMarker, NoFile,
           EmptyFile, HotFile, NoCursor, NoBatch, evidence, bridge, process, bounds, ghosts,
           vars
  <1>15. CASE Confirm
    BY <1>15, MigrationAssumption
       DEF Confirm, RecordsOK, MigrationTypeOK, Marker, Database, Through, CheckpointsOK,
           NothingSkipped, Accounted, PhaseOK, Opening, LegacyPlaces, NoMarker, NoFile,
           EmptyFile, HotFile, NoCursor, NoBatch, evidence, bridge, process, bounds, ghosts,
           vars
  <1>16. CASE Deliver
    BY <1>16, MigrationAssumption
       DEF Deliver, Unread, Beyond, RecordsOK, MigrationTypeOK, Marker, Database, Through,
           CheckpointsOK, NothingSkipped, Accounted, PhaseOK, Opening, LegacyPlaces,
           NoMarker, NoFile, EmptyFile, HotFile, NoCursor, NoBatch, evidence, bridge,
           process, bounds, ghosts, vars
  <1>17. CASE RefuseWithoutMarker
    BY <1>17, MigrationAssumption
       DEF RefuseWithoutMarker, Refuse, SeenActivation, RecordsOK, MigrationTypeOK, Marker,
           Database, Through, CheckpointsOK, NothingSkipped, Accounted, PhaseOK, Opening,
           LegacyPlaces, NoMarker, NoFile, EmptyFile, HotFile, NoCursor, NoBatch, evidence,
           bridge, process, bounds, ghosts, vars
  <1>18. CASE RefuseOldBridge
    BY <1>18, MigrationAssumption
       DEF RefuseOldBridge, Refuse, RecordsOK, MigrationTypeOK, Marker, Database, Through,
           CheckpointsOK, NothingSkipped, Accounted, PhaseOK, Opening, LegacyPlaces,
           NoMarker, NoFile, EmptyFile, HotFile, NoCursor, NoBatch, evidence, bridge,
           process, bounds, ghosts, vars
  <1>19. CASE RefuseJournal
    BY <1>19, MigrationAssumption
       DEF RefuseJournal, Refuse, Adoptable, RecordsOK, MigrationTypeOK, Marker, Database,
           Through, CheckpointsOK, NothingSkipped, Accounted, PhaseOK, Opening,
           LegacyPlaces, NoMarker, NoFile, EmptyFile, HotFile, NoCursor, NoBatch, evidence,
           bridge, process, bounds, ghosts, vars
  <1>20. CASE RefuseUnconfirmed
    BY <1>20, MigrationAssumption
       DEF RefuseUnconfirmed, Refuse, RecordsOK, MigrationTypeOK, Marker, Database, Through,
           CheckpointsOK, NothingSkipped, Accounted, PhaseOK, Opening, LegacyPlaces,
           NoMarker, NoFile, EmptyFile, HotFile, NoCursor, NoBatch, evidence, bridge,
           process, bounds, ghosts, vars
  <1>21. CASE RefuseActivation
    BY <1>21, MigrationAssumption
       DEF RefuseActivation, Refuse, ActivationConflicts, CheckpointConflicts, RecordsOK,
           MigrationTypeOK, Marker, Database, Through, CheckpointsOK, NothingSkipped,
           Accounted, PhaseOK, Opening, LegacyPlaces, NoMarker, NoFile, EmptyFile, HotFile,
           NoCursor, NoBatch, evidence, bridge, process, bounds, ghosts, vars
  <1>22. CASE SkipIgnored
    BY <1>22, MigrationAssumption, SelectedFacts
       DEF SkipIgnored, Save, SaveFails, CursorAt, RecordsOK, MigrationTypeOK, Marker,
           Database, Through, CheckpointsOK, NothingSkipped, Accounted, PhaseOK, Opening,
           LegacyPlaces, NoMarker, NoFile, EmptyFile, HotFile, NoCursor, NoBatch, evidence,
           bridge, process, bounds, ghosts, vars
  <1>23. CASE FindRows
    BY <1>23, MigrationAssumption
       DEF FindRows, RecordsOK, MigrationTypeOK, Marker, Database, Through, CheckpointsOK,
           NothingSkipped, Accounted, PhaseOK, Opening, LegacyPlaces, NoMarker, NoFile,
           EmptyFile, HotFile, NoCursor, NoBatch, evidence, bridge, process, bounds, ghosts,
           vars
  <1>24. CASE ReserveBatch
    BY <1>24, MigrationAssumption, SelectedFacts
       DEF ReserveBatch, RecordsOK, MigrationTypeOK, Marker, Database, Through,
           CheckpointsOK, NothingSkipped, Accounted, PhaseOK, Opening, LegacyPlaces,
           NoMarker, NoFile, EmptyFile, HotFile, NoCursor, NoBatch, evidence, bridge,
           process, bounds, ghosts, vars
  <1>25. CASE ReserveNothing
    BY <1>25, MigrationAssumption, SelectedFacts
       DEF ReserveNothing, Save, SaveFails, CursorAt, RecordsOK, MigrationTypeOK, Marker,
           Database, Through, CheckpointsOK, NothingSkipped, Accounted, PhaseOK, Opening,
           LegacyPlaces, NoMarker, NoFile, EmptyFile, HotFile, NoCursor, NoBatch, evidence,
           bridge, process, bounds, ghosts, vars
  <1>26. CASE CallProvider
    BY <1>26, MigrationAssumption
       DEF CallProvider, RecordsOK, MigrationTypeOK, Marker, Database, Through,
           CheckpointsOK, NothingSkipped, Accounted, PhaseOK, Opening, LegacyPlaces,
           NoMarker, NoFile, EmptyFile, HotFile, NoCursor, NoBatch, evidence, bridge,
           process, bounds, ghosts, vars
  <1>27. CASE ResolveBatch
    BY <1>27, MigrationAssumption
       DEF ResolveBatch, Advances, Save, SaveFails, CursorAt, RecordsOK, MigrationTypeOK,
           Marker, Database, Through, CheckpointsOK, NothingSkipped, Accounted, PhaseOK,
           Opening, LegacyPlaces, NoMarker, NoFile, EmptyFile, HotFile, NoCursor, NoBatch,
           evidence, bridge, process, bounds, ghosts, vars
  <1>28. CASE StepFails
    BY <1>28, MigrationAssumption
       DEF StepFails, RecordsOK, MigrationTypeOK, Marker, Database, Through, CheckpointsOK,
           NothingSkipped, Accounted, PhaseOK, Opening, LegacyPlaces, NoMarker, NoFile,
           EmptyFile, HotFile, NoCursor, NoBatch, evidence, bridge, process, bounds, ghosts,
           vars
  <1>29. CASE LegacyReady
    BY <1>29, MigrationAssumption
       DEF LegacyReady, RecordsOK, MigrationTypeOK, Marker, Database, Through,
           CheckpointsOK, NothingSkipped, Accounted, PhaseOK, Opening, LegacyPlaces,
           NoMarker, NoFile, EmptyFile, HotFile, NoCursor, NoBatch, evidence, bridge,
           process, bounds, ghosts, vars
  <1>30. CASE Store
    BY <1>30, MigrationAssumption
       DEF Store, RecordsOK, MigrationTypeOK, Marker, Database, Through, CheckpointsOK,
           NothingSkipped, Accounted, PhaseOK, Opening, LegacyPlaces, NoMarker, NoFile,
           EmptyFile, HotFile, NoCursor, NoBatch, evidence, bridge, process, bounds, ghosts,
           vars
  <1>31. CASE Acknowledge
    BY <1>31, MigrationAssumption
       DEF Acknowledge, RecordsOK, MigrationTypeOK, Marker, Database, Through,
           CheckpointsOK, NothingSkipped, Accounted, PhaseOK, Opening, LegacyPlaces,
           NoMarker, NoFile, EmptyFile, HotFile, NoCursor, NoBatch, evidence, bridge,
           process, bounds, ghosts, vars
  <1>32. CASE Die
    BY <1>32, MigrationAssumption
       DEF Die, RecordsOK, MigrationTypeOK, Marker, Database, Through, CheckpointsOK,
           NothingSkipped, Accounted, PhaseOK, Opening, LegacyPlaces, NoMarker, NoFile,
           EmptyFile, HotFile, NoCursor, NoBatch, evidence, bridge, process, bounds, ghosts,
           vars
  <1>33. CASE SwitchBridge
    BY <1>33, MigrationAssumption
       DEF SwitchBridge, RecordsOK, MigrationTypeOK, Marker, Database, Through,
           CheckpointsOK, NothingSkipped, Accounted, PhaseOK, Opening, LegacyPlaces,
           NoMarker, NoFile, EmptyFile, HotFile, NoCursor, NoBatch, evidence, bridge,
           process, bounds, ghosts, vars
  <1>34. CASE Lose
    BY <1>34, MigrationAssumption
       DEF Lose, RecordsOK, MigrationTypeOK, Marker, Database, Through, CheckpointsOK,
           NothingSkipped, Accounted, PhaseOK, Opening, LegacyPlaces, NoMarker, NoFile,
           EmptyFile, HotFile, NoCursor, NoBatch, evidence, bridge, process, bounds, ghosts,
           vars
  <1>. QED  BY <1>1, <1>2, <1>3, <1>4, <1>5, <1>6, <1>7, <1>8, <1>9, <1>10, <1>11, <1>12,
               <1>13, <1>14, <1>15, <1>16, <1>17, <1>18, <1>19, <1>20, <1>21, <1>22, <1>23,
               <1>24, <1>25, <1>26, <1>27, <1>28, <1>29, <1>30, <1>31, <1>32, <1>33, <1>34
            DEF MigrationNext, JournalSteps, Refusals, LegacySteps

\* Every step keeps the records in agreement.
LEMMA RecordsAgreeNext ==
    ASSUME RecordsOK, PhaseOK, RecordsAgree, MigrationNext
    PROVE  RecordsAgree'
  <1>1. CASE \E option \in Afters : StartLegacy(option)
    BY <1>1, MigrationAssumption, MaxOfTwo
       DEF StartLegacy, ImportedThrough, RecordsOK, MigrationTypeOK, Marker, Database,
           Through, RecordsAgree, DeathIsNotLoss, PhaseOK, Opening, LegacyPlaces, Bootstrap,
           SameIdentity, LocalEvidence, FreshJournal, NoMarker, NoFile, EmptyFile, HotFile,
           NoCursor, NoBatch, evidence, bridge, process, bounds, ghosts, vars
  <1>2. CASE \E option \in Afters : PublishMarker(option)
    <2>. SUFFICES ASSUME losses' = 0 PROVE RecordsAgree'
      BY DEF RecordsAgree
    <2>1. PICK option \in Afters : PublishMarker(option)
      BY <1>2
    <2>2. /\ losses = 0 /\ marker.state = "none" /\ db.state = "none" /\ ~cursor.required
          /\ capable /\ SeenActivation = 0
          /\ marker' = [state |-> "preparing", nonce |-> nonces + 1,
                        through |-> ImportedThrough(option), lost |-> FALSE, previous |-> 0]
          /\ UNCHANGED <<db, cursor, activation>> /\ refused' = "none"
      BY <2>1 DEF PublishMarker, LocalEvidence
    <2>3. activation' = 0
      BY <2>2 DEF SeenActivation
    <2>4. cursor'.present => cursor'.through = marker'.through
      BY <2>2 DEF ImportedThrough
    <2>. QED  BY <2>2, <2>3, <2>4 DEF RecordsAgree, Bootstrap, DeathIsNotLoss
  <1>3. CASE TakeUpMarker
    BY <1>3, MigrationAssumption
       DEF TakeUpMarker, RecordsOK, MigrationTypeOK, Marker, Database, Through,
           RecordsAgree, DeathIsNotLoss, PhaseOK, Opening, LegacyPlaces, Bootstrap,
           SameIdentity, LocalEvidence, FreshJournal, NoMarker, NoFile, EmptyFile, HotFile,
           NoCursor, NoBatch, evidence, bridge, process, bounds, ghosts, vars
  <1>4. CASE Rebuild
    BY <1>4, MigrationAssumption
       DEF Rebuild, Draw, RebuiltMarker, RebuiltThrough, RecordsOK, MigrationTypeOK, Marker,
           Database, Through, RecordsAgree, DeathIsNotLoss, PhaseOK, Opening, LegacyPlaces,
           Bootstrap, SameIdentity, LocalEvidence, FreshJournal, NoMarker, NoFile,
           EmptyFile, HotFile, NoCursor, NoBatch, evidence, bridge, process, bounds, ghosts,
           vars
  <1>5. CASE ResumeRebuild
    BY <1>5, MigrationAssumption
       DEF ResumeRebuild, RecordsOK, MigrationTypeOK, Marker, Database, Through,
           RecordsAgree, DeathIsNotLoss, PhaseOK, Opening, LegacyPlaces, Bootstrap,
           SameIdentity, LocalEvidence, FreshJournal, NoMarker, NoFile, EmptyFile, HotFile,
           NoCursor, NoBatch, evidence, bridge, process, bounds, ghosts, vars
  <1>6. CASE CreateFile
    BY <1>6, MigrationAssumption
       DEF CreateFile, RecordsOK, MigrationTypeOK, Marker, Database, Through, RecordsAgree,
           DeathIsNotLoss, PhaseOK, Opening, LegacyPlaces, Bootstrap, SameIdentity,
           LocalEvidence, FreshJournal, NoMarker, NoFile, EmptyFile, HotFile, NoCursor,
           NoBatch, evidence, bridge, process, bounds, ghosts, vars
  <1>7. CASE SwitchToWal
    BY <1>7, MigrationAssumption
       DEF SwitchToWal, RecordsOK, MigrationTypeOK, Marker, Database, Through, RecordsAgree,
           DeathIsNotLoss, PhaseOK, Opening, LegacyPlaces, Bootstrap, SameIdentity,
           LocalEvidence, FreshJournal, NoMarker, NoFile, EmptyFile, HotFile, NoCursor,
           NoBatch, evidence, bridge, process, bounds, ghosts, vars
  <1>8. CASE EndSwitch
    BY <1>8, MigrationAssumption
       DEF EndSwitch, RecordsOK, MigrationTypeOK, Marker, Database, Through, RecordsAgree,
           DeathIsNotLoss, PhaseOK, Opening, LegacyPlaces, Bootstrap, SameIdentity,
           LocalEvidence, FreshJournal, NoMarker, NoFile, EmptyFile, HotFile, NoCursor,
           NoBatch, evidence, bridge, process, bounds, ghosts, vars
  <1>9. CASE InitializeJournal
    BY <1>9, MigrationAssumption
       DEF InitializeJournal, FreshJournal, RecordsOK, MigrationTypeOK, Marker, Database,
           Through, RecordsAgree, DeathIsNotLoss, PhaseOK, Opening, LegacyPlaces, Bootstrap,
           SameIdentity, LocalEvidence, NoMarker, NoFile, EmptyFile, HotFile, NoCursor,
           NoBatch, evidence, bridge, process, bounds, ghosts, vars
  <1>10. CASE AdoptJournal
    BY <1>10, MigrationAssumption
       DEF AdoptJournal, Adoptable, FreshJournal, RecordsOK, MigrationTypeOK, Marker,
           Database, Through, RecordsAgree, DeathIsNotLoss, PhaseOK, Opening, LegacyPlaces,
           Bootstrap, SameIdentity, LocalEvidence, NoMarker, NoFile, EmptyFile, HotFile,
           NoCursor, NoBatch, evidence, bridge, process, bounds, ghosts, vars
  <1>11. CASE PublishReady
    BY <1>11, MigrationAssumption
       DEF PublishReady, RecordsOK, MigrationTypeOK, Marker, Database, Through,
           RecordsAgree, DeathIsNotLoss, PhaseOK, Opening, LegacyPlaces, Bootstrap,
           SameIdentity, LocalEvidence, FreshJournal, NoMarker, NoFile, EmptyFile, HotFile,
           NoCursor, NoBatch, evidence, bridge, process, bounds, ghosts, vars
  <1>12. CASE OpenJournal
    BY <1>12, MigrationAssumption
       DEF OpenJournal, RecordsOK, MigrationTypeOK, Marker, Database, Through, RecordsAgree,
           DeathIsNotLoss, PhaseOK, Opening, LegacyPlaces, Bootstrap, SameIdentity,
           LocalEvidence, FreshJournal, NoMarker, NoFile, EmptyFile, HotFile, NoCursor,
           NoBatch, evidence, bridge, process, bounds, ghosts, vars
  <1>13. CASE PassGate
    BY <1>13, MigrationAssumption
       DEF PassGate, CheckpointConflicts, ActivationConflicts, RecordsOK, MigrationTypeOK,
           Marker, Database, Through, RecordsAgree, DeathIsNotLoss, PhaseOK, Opening,
           LegacyPlaces, Bootstrap, SameIdentity, LocalEvidence, FreshJournal, NoMarker,
           NoFile, EmptyFile, HotFile, NoCursor, NoBatch, evidence, bridge, process, bounds,
           ghosts, vars
  <1>14. CASE Activate
    BY <1>14, MigrationAssumption
       DEF Activate, RecordsOK, MigrationTypeOK, Marker, Database, Through, RecordsAgree,
           DeathIsNotLoss, PhaseOK, Opening, LegacyPlaces, Bootstrap, SameIdentity,
           LocalEvidence, FreshJournal, NoMarker, NoFile, EmptyFile, HotFile, NoCursor,
           NoBatch, evidence, bridge, process, bounds, ghosts, vars
  <1>15. CASE Confirm
    BY <1>15, MigrationAssumption
       DEF Confirm, RecordsOK, MigrationTypeOK, Marker, Database, Through, RecordsAgree,
           DeathIsNotLoss, PhaseOK, Opening, LegacyPlaces, Bootstrap, SameIdentity,
           LocalEvidence, FreshJournal, NoMarker, NoFile, EmptyFile, HotFile, NoCursor,
           NoBatch, evidence, bridge, process, bounds, ghosts, vars
  <1>16. CASE Deliver
    BY <1>16, MigrationAssumption
       DEF Deliver, Unread, Beyond, RecordsOK, MigrationTypeOK, Marker, Database, Through,
           RecordsAgree, DeathIsNotLoss, PhaseOK, Opening, LegacyPlaces, Bootstrap,
           SameIdentity, LocalEvidence, FreshJournal, NoMarker, NoFile, EmptyFile, HotFile,
           NoCursor, NoBatch, evidence, bridge, process, bounds, ghosts, vars
  <1>17. CASE RefuseWithoutMarker
    BY <1>17, MigrationAssumption
       DEF RefuseWithoutMarker, Refuse, SeenActivation, RecordsOK, MigrationTypeOK, Marker,
           Database, Through, RecordsAgree, DeathIsNotLoss, PhaseOK, Opening, LegacyPlaces,
           Bootstrap, SameIdentity, LocalEvidence, FreshJournal, NoMarker, NoFile,
           EmptyFile, HotFile, NoCursor, NoBatch, evidence, bridge, process, bounds, ghosts,
           vars
  <1>18. CASE RefuseOldBridge
    BY <1>18, MigrationAssumption
       DEF RefuseOldBridge, Refuse, RecordsOK, MigrationTypeOK, Marker, Database, Through,
           RecordsAgree, DeathIsNotLoss, PhaseOK, Opening, LegacyPlaces, Bootstrap,
           SameIdentity, LocalEvidence, FreshJournal, NoMarker, NoFile, EmptyFile, HotFile,
           NoCursor, NoBatch, evidence, bridge, process, bounds, ghosts, vars
  <1>19. CASE RefuseJournal
    BY <1>19, MigrationAssumption
       DEF RefuseJournal, Refuse, Adoptable, RecordsOK, MigrationTypeOK, Marker, Database,
           Through, RecordsAgree, DeathIsNotLoss, PhaseOK, Opening, LegacyPlaces, Bootstrap,
           SameIdentity, LocalEvidence, FreshJournal, NoMarker, NoFile, EmptyFile, HotFile,
           NoCursor, NoBatch, evidence, bridge, process, bounds, ghosts, vars
  <1>20. CASE RefuseUnconfirmed
    BY <1>20, MigrationAssumption
       DEF RefuseUnconfirmed, Refuse, RecordsOK, MigrationTypeOK, Marker, Database, Through,
           RecordsAgree, DeathIsNotLoss, PhaseOK, Opening, LegacyPlaces, Bootstrap,
           SameIdentity, LocalEvidence, FreshJournal, NoMarker, NoFile, EmptyFile, HotFile,
           NoCursor, NoBatch, evidence, bridge, process, bounds, ghosts, vars
  <1>21. CASE RefuseActivation
    BY <1>21, MigrationAssumption
       DEF RefuseActivation, Refuse, ActivationConflicts, CheckpointConflicts, RecordsOK,
           MigrationTypeOK, Marker, Database, Through, RecordsAgree, DeathIsNotLoss,
           PhaseOK, Opening, LegacyPlaces, Bootstrap, SameIdentity, LocalEvidence,
           FreshJournal, NoMarker, NoFile, EmptyFile, HotFile, NoCursor, NoBatch, evidence,
           bridge, process, bounds, ghosts, vars
  <1>22. CASE SkipIgnored
    BY <1>22, MigrationAssumption, SelectedFacts
       DEF SkipIgnored, Save, SaveFails, CursorAt, RecordsOK, MigrationTypeOK, Marker,
           Database, Through, RecordsAgree, DeathIsNotLoss, PhaseOK, Opening, LegacyPlaces,
           Bootstrap, SameIdentity, LocalEvidence, FreshJournal, NoMarker, NoFile,
           EmptyFile, HotFile, NoCursor, NoBatch, evidence, bridge, process, bounds, ghosts,
           vars
  <1>23. CASE FindRows
    BY <1>23, MigrationAssumption
       DEF FindRows, RecordsOK, MigrationTypeOK, Marker, Database, Through, RecordsAgree,
           DeathIsNotLoss, PhaseOK, Opening, LegacyPlaces, Bootstrap, SameIdentity,
           LocalEvidence, FreshJournal, NoMarker, NoFile, EmptyFile, HotFile, NoCursor,
           NoBatch, evidence, bridge, process, bounds, ghosts, vars
  <1>24. CASE ReserveBatch
    BY <1>24, MigrationAssumption, SelectedFacts
       DEF ReserveBatch, RecordsOK, MigrationTypeOK, Marker, Database, Through,
           RecordsAgree, DeathIsNotLoss, PhaseOK, Opening, LegacyPlaces, Bootstrap,
           SameIdentity, LocalEvidence, FreshJournal, NoMarker, NoFile, EmptyFile, HotFile,
           NoCursor, NoBatch, evidence, bridge, process, bounds, ghosts, vars
  <1>25. CASE ReserveNothing
    BY <1>25, MigrationAssumption, SelectedFacts
       DEF ReserveNothing, Save, SaveFails, CursorAt, RecordsOK, MigrationTypeOK, Marker,
           Database, Through, RecordsAgree, DeathIsNotLoss, PhaseOK, Opening, LegacyPlaces,
           Bootstrap, SameIdentity, LocalEvidence, FreshJournal, NoMarker, NoFile,
           EmptyFile, HotFile, NoCursor, NoBatch, evidence, bridge, process, bounds, ghosts,
           vars
  <1>26. CASE CallProvider
    BY <1>26, MigrationAssumption
       DEF CallProvider, RecordsOK, MigrationTypeOK, Marker, Database, Through,
           RecordsAgree, DeathIsNotLoss, PhaseOK, Opening, LegacyPlaces, Bootstrap,
           SameIdentity, LocalEvidence, FreshJournal, NoMarker, NoFile, EmptyFile, HotFile,
           NoCursor, NoBatch, evidence, bridge, process, bounds, ghosts, vars
  <1>27. CASE ResolveBatch
    BY <1>27, MigrationAssumption
       DEF ResolveBatch, Advances, Save, SaveFails, CursorAt, RecordsOK, MigrationTypeOK,
           Marker, Database, Through, RecordsAgree, DeathIsNotLoss, PhaseOK, Opening,
           LegacyPlaces, Bootstrap, SameIdentity, LocalEvidence, FreshJournal, NoMarker,
           NoFile, EmptyFile, HotFile, NoCursor, NoBatch, evidence, bridge, process, bounds,
           ghosts, vars
  <1>28. CASE StepFails
    BY <1>28, MigrationAssumption
       DEF StepFails, RecordsOK, MigrationTypeOK, Marker, Database, Through, RecordsAgree,
           DeathIsNotLoss, PhaseOK, Opening, LegacyPlaces, Bootstrap, SameIdentity,
           LocalEvidence, FreshJournal, NoMarker, NoFile, EmptyFile, HotFile, NoCursor,
           NoBatch, evidence, bridge, process, bounds, ghosts, vars
  <1>29. CASE LegacyReady
    BY <1>29, MigrationAssumption
       DEF LegacyReady, RecordsOK, MigrationTypeOK, Marker, Database, Through, RecordsAgree,
           DeathIsNotLoss, PhaseOK, Opening, LegacyPlaces, Bootstrap, SameIdentity,
           LocalEvidence, FreshJournal, NoMarker, NoFile, EmptyFile, HotFile, NoCursor,
           NoBatch, evidence, bridge, process, bounds, ghosts, vars
  <1>30. CASE Store
    BY <1>30, MigrationAssumption
       DEF Store, RecordsOK, MigrationTypeOK, Marker, Database, Through, RecordsAgree,
           DeathIsNotLoss, PhaseOK, Opening, LegacyPlaces, Bootstrap, SameIdentity,
           LocalEvidence, FreshJournal, NoMarker, NoFile, EmptyFile, HotFile, NoCursor,
           NoBatch, evidence, bridge, process, bounds, ghosts, vars
  <1>31. CASE Acknowledge
    BY <1>31, MigrationAssumption
       DEF Acknowledge, RecordsOK, MigrationTypeOK, Marker, Database, Through, RecordsAgree,
           DeathIsNotLoss, PhaseOK, Opening, LegacyPlaces, Bootstrap, SameIdentity,
           LocalEvidence, FreshJournal, NoMarker, NoFile, EmptyFile, HotFile, NoCursor,
           NoBatch, evidence, bridge, process, bounds, ghosts, vars
  <1>32. CASE Die
    BY <1>32, MigrationAssumption
       DEF Die, RecordsOK, MigrationTypeOK, Marker, Database, Through, RecordsAgree,
           DeathIsNotLoss, PhaseOK, Opening, LegacyPlaces, Bootstrap, SameIdentity,
           LocalEvidence, FreshJournal, NoMarker, NoFile, EmptyFile, HotFile, NoCursor,
           NoBatch, evidence, bridge, process, bounds, ghosts, vars
  <1>33. CASE SwitchBridge
    BY <1>33, MigrationAssumption
       DEF SwitchBridge, RecordsOK, MigrationTypeOK, Marker, Database, Through,
           RecordsAgree, DeathIsNotLoss, PhaseOK, Opening, LegacyPlaces, Bootstrap,
           SameIdentity, LocalEvidence, FreshJournal, NoMarker, NoFile, EmptyFile, HotFile,
           NoCursor, NoBatch, evidence, bridge, process, bounds, ghosts, vars
  <1>34. CASE Lose
    BY <1>34, MigrationAssumption
       DEF Lose, RecordsOK, MigrationTypeOK, Marker, Database, Through, RecordsAgree,
           DeathIsNotLoss, PhaseOK, Opening, LegacyPlaces, Bootstrap, SameIdentity,
           LocalEvidence, FreshJournal, NoMarker, NoFile, EmptyFile, HotFile, NoCursor,
           NoBatch, evidence, bridge, process, bounds, ghosts, vars
  <1>. QED  BY <1>1, <1>2, <1>3, <1>4, <1>5, <1>6, <1>7, <1>8, <1>9, <1>10, <1>11, <1>12,
               <1>13, <1>14, <1>15, <1>16, <1>17, <1>18, <1>19, <1>20, <1>21, <1>22, <1>23,
               <1>24, <1>25, <1>26, <1>27, <1>28, <1>29, <1>30, <1>31, <1>32, <1>33, <1>34
            DEF MigrationNext, JournalSteps, Refusals, LegacySteps
\* The empty state directory satisfies the invariants.
LEMMA MigrationInvInit ==
    ASSUME MigrationInit
    PROVE  RecordsOK /\ PhaseOK /\ HistoryIsGuarded /\ CheckpointsOK /\ RecordsAgree
  BY MigrationAssumption
     DEF MigrationInit, RecordsOK, MigrationTypeOK, PhaseOK, Opening, LegacyPlaces,
         HistoryIsGuarded, CheckpointsOK, NothingSkipped, Accounted, RecordsAgree,
         DeathIsNotLoss, Bootstrap, SameIdentity, LocalEvidence, Through, NoMarker, NoFile,
         NoCursor, NoBatch

\* A step that changes nothing keeps everything.
LEMMA MigrationStutters ==
    ASSUME RecordsOK, PhaseOK, CheckpointsOK, RecordsAgree, UNCHANGED vars
    PROVE  RecordsOK' /\ PhaseOK' /\ CheckpointsOK' /\ RecordsAgree'
  BY DEF RecordsOK, MigrationTypeOK, PhaseOK, LegacyPlaces, CheckpointsOK, NothingSkipped,
     Accounted,
     RecordsAgree, DeathIsNotLoss, Bootstrap, SameIdentity, LocalEvidence, FreshJournal, vars,
     evidence, bridge, process, bounds, ghosts

\* The migration's invariant holds in every behaviour.
LEMMA MigrationInvariance == MigrationSpec => []MigrationInv
  <1>1. MigrationInit => MigrationInv
    BY MigrationInvInit DEF MigrationInv
  <1>2. MigrationInv /\ [MigrationNext]_vars => MigrationInv'
    BY RecordsNext, PhaseNext, CheckpointsNext, RecordsAgreeNext, MigrationStutters
       DEF MigrationInv
  <1>. QED  BY <1>1, <1>2, PTL DEF MigrationSpec

\* The four records keep their shapes, and a marker stays one that validate_marker()
\* accepts.
THEOREM MigrationTypeInvariance == MigrationSpec => []MigrationTypeOK
  <1>1. MigrationInv => MigrationTypeOK
    BY DEF MigrationInv, RecordsOK
  <1>. QED  BY <1>1, MigrationInvariance, PTL

\* At most two losses, wherever the notifier died before and however often it is
\* started: what a journal has delivered is known to the running journal, or the
\* journal says that its history was lost.
THEOREM HistoryIsRemembered ==
    ASSUME MaxLoss <= 2
    PROVE  MigrationSpec => []HistoryIsNotForgotten
  <1>1. MigrationInit => HistoryIsGuarded
    BY MigrationInvInit
  <1>2. MigrationInv /\ HistoryIsGuarded /\ [MigrationNext]_vars => HistoryIsGuarded'
    <2>. SUFFICES ASSUME MigrationInv, HistoryIsGuarded, [MigrationNext]_vars
                  PROVE  HistoryIsGuarded'
      OBVIOUS
    <2>1. CASE MigrationNext
      BY <2>1, HistoryNext DEF MigrationInv
    <2>2. CASE UNCHANGED vars
      BY <2>2
         DEF HistoryIsGuarded, LegacyPlaces, Pieces, vars, evidence, bridge, process, bounds, ghosts
    <2>. QED  BY <2>1, <2>2
  <1>3. MigrationInv /\ HistoryIsGuarded => HistoryIsNotForgotten
    BY DEF MigrationInv, PhaseOK, HistoryIsGuarded, HistoryIsNotForgotten
  <1>. QED  BY <1>1, <1>2, <1>3, MigrationInvariance, PTL DEF MigrationSpec

\* No checkpoint passes a message that nobody was told of, for every limit of a scan and
\* every size of a legacy notice, and every interleaving of failed saves, of steps from
\* a checkpoint behind the file's, of deaths, losses and rebuilds.
THEOREM NothingIsSkipped == MigrationSpec => []NothingSkipped
  <1>1. MigrationInv => NothingSkipped
    BY DEF MigrationInv, CheckpointsOK
  <1>. QED  BY <1>1, MigrationInvariance, PTL

\* The journal never notifies again what the legacy cursor had committed.
THEOREM UpgradeResendsNothing == MigrationSpec => []NoResendAcrossUpgrade
  <1>1. MigrationInv => NoResendAcrossUpgrade
    <2>. SUFFICES ASSUME MigrationInv, losses = 0, db.state = "built"
                  PROVE  db.sent \cap 1..cursor.through = {}
      BY DEF NoResendAcrossUpgrade
    <2>1. /\ SameIdentity /\ marker.state # "none"
          /\ db.sent # {} => cursor.present
          /\ \A m \in db.sent : m > db.through
          /\ cursor.present => cursor.through = marker.through
      BY DEF MigrationInv, RecordsAgree
    <2>2. cursor.through \in Nat /\ db \in Database
      BY DEF MigrationInv, RecordsOK, MigrationTypeOK, NoFile, EmptyFile, HotFile, Through
    <2>3. CASE db.sent = {}
      BY <2>3
    <2>4. CASE db.sent # {}
      BY <2>1, <2>2, <2>4 DEF SameIdentity, Database, Through
    <2>. QED  BY <2>3, <2>4
  <1>. QED  BY <1>1, MigrationInvariance, PTL

\* Without a loss no start is refused for recovery, wherever the last one died, but
\* for a death inside the switch to WAL.
THEOREM DeathIsResumed == MigrationSpec => []DeathIsNotLoss
  <1>1. MigrationInv => DeathIsNotLoss
    BY DEF MigrationInv, RecordsAgree, DeathIsNotLoss
  <1>. QED  BY <1>1, MigrationInvariance, PTL
=============================================================================
