----------------------------- MODULE Migration -----------------------------
(***************************************************************************)
(* How a notifier finds the record of what it has already notified           *)
(* (notification_migration.py, notification_legacy.py, the start of          *)
(* notification_runtime.py).  Four places hold evidence of a journal: the     *)
(* migration marker, the journal's database, the legacy cursor and the        *)
(* bridge's activation record.  They are published one after another and the  *)
(* notifier may die between any two; an operator may lose any of them, run an *)
(* older bridge, or ask for a rebuild that gives the history up.              *)
(*                                                                           *)
(* With an older bridge that never had a journal the notifier keeps the       *)
(* legacy cursor only.  Delivery from the journal is one step here; Notifier  *)
(* has its detail.                                                            *)
(***************************************************************************)
EXTENDS Naturals, FiniteSets, FiniteSetsExt

CONSTANTS
    Ignored,     \* sequences of control frames, which are never notified
    Afters,      \* --after options
    Batch,       \* rows in a legacy notice (10)
    ScanLimit,   \* SCAN_LIMIT
    MaxSeq,      \* bound of the model: messages ever stored
    MaxNonce,    \* bound of the model: journals ever prepared
    MaxLoss      \* bound of the model: pieces of evidence ever lost

ASSUME MigrationAssumption ==
    /\ Ignored \subseteq Nat /\ Afters \subseteq Nat
    /\ {Batch, ScanLimit} \subseteq Nat \ {0}
    /\ {MaxSeq, MaxNonce, MaxLoss} \subseteq Nat

VARIABLES
    marker,      \* notify-migration.json
    db,          \* notify-journal.sqlite3
    cursor,      \* notify-cursor.json
    activation,  \* the bridge's journal_activation: a nonce, 0 for null
    capable,     \* the bridge that runs has the activation record and a watermark
    head,        \* messages stored by the bridge
    acked,       \* messages the participant has acknowledged
    watermark,   \* ack_through: acknowledgements a capable bridge recorded
    pc,          \* where the notifier is
    rebuilding,  \* it is the rebuild command, which stops once it is activated
    after,       \* LegacyState.after
    batch,       \* LegacyState.inflight with the outcome of the call
    refused,     \* why the last start was refused
    nonces,      \* nonces drawn so far
    losses       \* pieces of evidence lost so far

\* History.
VARIABLES
    told,        \* the highest --after
    notified,    \* messages handed over by a legacy notice
    history      \* messages whose delivery some journal has committed

evidence == <<marker, db, cursor, activation>>
bridge == <<capable, head, acked, watermark>>
process == <<pc, rebuilding, after, batch, refused>>
bounds == <<nonces, losses>>
ghosts == <<told, notified, history>>
vars == <<evidence, bridge, process, bounds, ghosts>>

NoMarker == [state |-> "none"]
NoFile == [state |-> "none"]
EmptyFile == [state |-> "empty"]
\* A rollback journal lies beside the file while it is switched to WAL.
HotFile == [state |-> "hot"]
NoCursor == [present |-> FALSE, through |-> 0, required |-> FALSE]
NoBatch == [rows |-> {}, through |-> 0, outcome |-> "none"]

\* The places of the legacy loop: between two steps, in a step that has set unresolved,
\* and after a step that failed with it.
LegacyPlaces == {"legacy", "unresolved", "unready"}

\* A checkpoint: --after may lie beyond every stored message.
Through == Nat
Marker == [state : {"preparing", "rebuilding", "ready"}, nonce : 1..MaxNonce,
           through : Through, lost : BOOLEAN, previous : 0..MaxNonce]
Database == [state : {"built"}, nonce : 1..MaxNonce, through : Through, lost : BOOLEAN,
             confirmed : BOOLEAN, sent : SUBSET (1..MaxSeq)]

\* The fields of the four records, and the consistency that validate_marker() asks of
\* a marker.
MigrationTypeOK ==
    /\ marker \in Marker \cup {NoMarker}
    /\ marker.state = "preparing" => ~marker.lost
    /\ marker.state = "rebuilding" => marker.lost
    /\ marker.state # "none" /\ ~marker.lost => marker.previous = 0
    /\ db \in Database \cup {NoFile, EmptyFile, HotFile}
    /\ cursor \in [present : BOOLEAN, through : Through, required : BOOLEAN]
    /\ activation \in 0..nonces
    /\ head \in 0..MaxSeq /\ acked \in 0..head /\ watermark \in 0..acked
    /\ after \in Through
    /\ batch.rows \subseteq 1..head
    /\ refused \in {"none", "upgrade", "recovery"}
    /\ nonces \in 0..MaxNonce

MigrationInit ==
    /\ marker = NoMarker /\ db = NoFile /\ cursor = NoCursor /\ activation = 0
    /\ capable \in BOOLEAN
    /\ head = 0 /\ acked = 0 /\ watermark = 0
    /\ pc = "off" /\ rebuilding = FALSE /\ after = 0 /\ batch = NoBatch /\ refused = "none"
    /\ nonces = 0 /\ losses = 0
    /\ told = 0 /\ notified = {} /\ history = {}
----------------------------------------------------------------------------
(* Starting.                                                                *)

\* Mutant.
LocalEvidenceFiles == marker.state # "none" \/ db.state # "none"

\* initialize_journal(): anything that says a journal was in use.
LocalEvidence == marker.state # "none" \/ db.state # "none" \/ cursor.required

\* The activation as the read-only source sees it: an older bridge's is unread.
SeenActivation == IF capable THEN activation ELSE 0

Refuse(code) ==
    /\ pc' = "off" /\ rebuilding' = FALSE
    /\ refused' = code
    /\ UNCHANGED <<evidence, bridge, after, batch, bounds, ghosts>>

\* A saved checkpoint wins over the option.
ImportedThrough(option) == IF cursor.present THEN cursor.through ELSE option

\* LegacyState(): no evidence of a journal and no bridge that could hold one.
StartLegacy(option) ==
    /\ pc = "off"
    /\ ~capable /\ ~LocalEvidence
    /\ pc' = "legacy"
    /\ after' = ImportedThrough(option)
    /\ batch' = NoBatch /\ refused' = "none"
    /\ told' = Max({told, option})
    /\ UNCHANGED <<evidence, bridge, rebuilding, bounds, notified, history>>

Draw == nonces < MaxNonce /\ nonces' = nonces + 1

\* A first migration: nothing anywhere, so the marker is published.
PublishMarker(option) ==
    /\ pc = "off"
    /\ capable
    /\ ~LocalEvidence /\ SeenActivation = 0
    /\ Draw
    /\ marker' = [state |-> "preparing", nonce |-> nonces + 1,
                  through |-> ImportedThrough(option), lost |-> FALSE, previous |-> 0]
    /\ pc' = "marked" /\ refused' = "none"
    /\ told' = Max({told, option})
    /\ UNCHANGED <<db, cursor, activation, bridge, rebuilding, after, batch, losses,
                   notified, history>>

\* A marker is taken up wherever the last start left it.
TakeUpMarker ==
    /\ pc = "off"
    /\ marker.state # "none"
    /\ pc' = "marked" /\ refused' = "none"
    /\ UNCHANGED <<evidence, bridge, rebuilding, after, batch, bounds, ghosts>>

\* A journal was in use and its marker is gone.
RefuseWithoutMarker ==
    /\ pc = "off"
    /\ marker.state = "none" /\ (LocalEvidence \/ SeenActivation # 0)
    /\ Refuse("recovery")
----------------------------------------------------------------------------
(* The journal's database.                                                  *)

Bootstrap == marker.state # "ready"

FreshJournal ==
    [state |-> "built", nonce |-> marker.nonce, through |-> marker.through,
     lost |-> marker.lost, confirmed |-> FALSE, sent |-> {}]

SameIdentity ==
    db.nonce = marker.nonce /\ db.through = marker.through /\ db.lost = marker.lost

\* Mutant.
AdoptableNever == FALSE

\* A bootstrap takes up only a journal without any history.
Adoptable == db = FreshJournal

RefuseOldBridge ==
    /\ pc = "marked"
    /\ Bootstrap /\ ~capable
    /\ Refuse("upgrade")

\* Journal(create=True): the file is created and switched to WAL, and the schema and
\* the identity are committed in one transaction.
CreateFile ==
    /\ pc = "marked"
    /\ Bootstrap /\ capable
    /\ db.state \in {"none", "empty"}
    /\ db' = EmptyFile
    /\ pc' = "created"
    /\ UNCHANGED <<marker, cursor, activation, bridge, rebuilding, after, batch, refused,
                   bounds, ghosts>>

SwitchToWal ==
    /\ pc = "created"
    /\ db' = HotFile
    /\ pc' = "switching"
    /\ UNCHANGED <<marker, cursor, activation, bridge, rebuilding, after, batch, refused,
                   bounds, ghosts>>

EndSwitch ==
    /\ pc = "switching"
    /\ db' = EmptyFile
    /\ pc' = "switched"
    /\ UNCHANGED <<marker, cursor, activation, bridge, rebuilding, after, batch, refused,
                   bounds, ghosts>>

InitializeJournal ==
    /\ pc = "switched"
    /\ db' = FreshJournal
    /\ pc' = "built"
    /\ UNCHANGED <<marker, cursor, activation, bridge, rebuilding, after, batch, refused,
                   bounds, ghosts>>

\* The journal a previous bootstrap has committed.
AdoptJournal ==
    /\ pc = "marked"
    /\ Bootstrap /\ capable
    /\ db.state = "built" /\ Adoptable
    /\ pc' = "built"
    /\ UNCHANGED <<evidence, bridge, rebuilding, after, batch, refused, bounds, ghosts>>

PublishReady ==
    /\ pc = "built"
    /\ marker' = [marker EXCEPT !.state = "ready"]
    /\ pc' = "opened"
    /\ UNCHANGED <<db, cursor, activation, bridge, rebuilding, after, batch, refused, bounds,
                   ghosts>>

OpenJournal ==
    /\ pc = "marked"
    /\ ~Bootstrap
    /\ db.state = "built" /\ SameIdentity
    /\ pc' = "opened"
    /\ UNCHANGED <<evidence, bridge, rebuilding, after, batch, refused, bounds, ghosts>>

\* A rollback journal beside the file, a missing or empty database under a ready
\* marker, another journal, or one with history under an unfinished marker.
RefuseJournal ==
    /\ pc = "marked"
    /\ Bootstrap => capable
    /\ \/ db.state = "hot"
       \/ Bootstrap /\ db.state = "built" /\ ~Adoptable
       \/ ~Bootstrap /\ (db.state = "built" => ~SameIdentity)
    /\ Refuse("recovery")
----------------------------------------------------------------------------
(* Activation.                                                              *)

\* activation_gate(): the evidence contradicts the journal.
ActivationConflicts ==
    /\ capable
    /\ activation # marker.nonce
    /\ \/ db.confirmed
       \/ activation # 0 /\ ~(marker.lost /\ marker.previous = activation)

CheckpointConflicts ==
    ~marker.lost /\ cursor.present /\ cursor.through # marker.through

\* An older bridge may go on with a journal that was activated before.
RefuseUnconfirmed ==
    /\ pc = "opened"
    /\ ~capable /\ ~db.confirmed
    /\ Refuse("upgrade")

RefuseActivation ==
    /\ pc = "opened"
    /\ capable \/ db.confirmed
    /\ ActivationConflicts \/ CheckpointConflicts
    /\ Refuse("recovery")

\* The gate is passed and the cursor says that it is history.
PassGate ==
    /\ pc = "opened"
    /\ capable \/ db.confirmed
    /\ ~ActivationConflicts /\ ~CheckpointConflicts
    /\ cursor' = [present |-> TRUE, required |-> TRUE,
                  through |-> IF cursor.present THEN cursor.through ELSE marker.through]
    /\ pc' = IF capable THEN "gated" ELSE "ready"
    /\ UNCHANGED <<marker, db, activation, bridge, rebuilding, after, batch, refused, bounds,
                   ghosts>>

\* activate() of the bridge, also when the same request is repeated.
ActivationAllowed ==
    activation \in {0, marker.nonce} \/ (marker.lost /\ activation = marker.previous)

Activate ==
    /\ pc = "gated"
    /\ ActivationAllowed
    /\ activation' = marker.nonce
    /\ pc' = "activated"
    /\ UNCHANGED <<marker, db, cursor, bridge, rebuilding, after, batch, refused, bounds, ghosts>>

\* confirm_activation(): what the bridge committed is read back.
Confirm ==
    /\ pc = "activated"
    /\ activation = marker.nonce
    /\ db' = [db EXCEPT !.confirmed = TRUE]
    /\ pc' = IF rebuilding THEN "off" ELSE "ready"
    /\ rebuilding' = FALSE
    /\ UNCHANGED <<marker, cursor, activation, bridge, after, batch, refused, bounds, ghosts>>

\* The rows the inbox retains beyond a checkpoint.
Beyond(through) == {m \in 1..head : m > through /\ m > acked}

\* Mutant.
UnreadFromStart(through) == Beyond(0) \ Ignored

\* Messages that wait for a notice from this checkpoint on.
Unread(through) == Beyond(through) \ Ignored

\* The journal commits a delivery.
Deliver ==
    /\ pc = "ready"
    /\ \E m \in Unread(db.through) \ db.sent :
          /\ db' = [db EXCEPT !.sent = @ \cup {m}]
          /\ history' = history \cup {m}
    /\ UNCHANGED <<marker, cursor, activation, bridge, process, bounds, told, notified>>
----------------------------------------------------------------------------
(* Rebuilding.                                                              *)

\* What the participant has acknowledged need not be notified again.
RebuiltThrough == watermark

RebuiltMarker ==
    [state |-> "rebuilding", nonce |-> nonces + 1, through |-> RebuiltThrough,
     lost |-> TRUE, previous |-> activation]

\* rebuild-journal: the history is given up explicitly, once the files are gone.
Rebuild ==
    /\ pc = "off"
    /\ capable
    /\ marker.state # "rebuilding"
    /\ db.state = "none"
    /\ activation # 0 \/ marker.state = "ready"
    /\ Draw
    /\ marker' = RebuiltMarker
    /\ pc' = "marked" /\ rebuilding' = TRUE /\ refused' = "none"
    /\ UNCHANGED <<db, cursor, activation, bridge, after, batch, losses, ghosts>>

ResumeRebuild ==
    /\ pc = "off"
    /\ capable
    /\ marker.state = "rebuilding"
    /\ pc' = "marked" /\ rebuilding' = TRUE /\ refused' = "none"
    /\ UNCHANGED <<evidence, bridge, after, batch, bounds, ghosts>>
----------------------------------------------------------------------------
(* Legacy delivery.                                                         *)

FirstOf(limit, rows) == {m \in rows : Cardinality({n \in rows : n < m}) < limit}

\* scan(): the first rows beyond the checkpoint, control frames included, and the
\* records among them.
Scanned == FirstOf(ScanLimit, Beyond(after))
Records == Scanned \ Ignored

\* selection(): the first records, and how far they reach.
Selected == FirstOf(Batch, Records)

\* Mutant.
SelectedThroughUncut == Max({after} \cup Beyond(after))

SelectedThrough ==
    IF Selected = Records THEN Max({after} \cup Scanned) ELSE Max(Selected)

CursorAt(through) == [present |-> TRUE, through |-> through, required |-> FALSE]

\* save(): the cursor is published.
Save(through) == cursor' = CursorAt(through) /\ after' = through

\* The publication raises: it is unknown whether the file was replaced, and the
\* checkpoint in memory stays.
SaveFails(through) == cursor' \in {cursor, CursorAt(through)} /\ UNCHANGED after

\* prepare() finds only control frames, which the checkpoint passes without a notice.
\* A failure is reported and no more: unresolved is not set yet, so the next step
\* selects from the old checkpoint without a ready().
SkipIgnored ==
    /\ pc = "legacy"
    /\ Selected = {} /\ SelectedThrough > after
    /\ Save(SelectedThrough) \/ SaveFails(SelectedThrough)
    /\ UNCHANGED <<marker, db, activation, bridge, pc, rebuilding, batch, refused, bounds,
                   ghosts>>

\* prepare() finds something to notify, and the step sets unresolved.
FindRows ==
    /\ pc = "legacy"
    /\ Selected # {}
    /\ pc' = "unresolved"
    /\ UNCHANGED <<evidence, bridge, rebuilding, after, batch, refused, bounds, ghosts>>

\* reserve_next() selects again.
ReserveBatch ==
    /\ pc = "unresolved" /\ batch = NoBatch
    /\ Selected # {}
    /\ batch' = [rows |-> Selected, through |-> SelectedThrough, outcome |-> "none"]
    /\ UNCHANGED <<evidence, bridge, pc, rebuilding, after, refused, bounds, ghosts>>

\* What prepare() found was acknowledged since, and nothing or control frames are left.
ReserveNothing ==
    /\ pc = "unresolved" /\ batch = NoBatch
    /\ Selected = {}
    /\ \/ SelectedThrough > after /\ Save(SelectedThrough) /\ pc' = "legacy"
       \/ SelectedThrough > after /\ SaveFails(SelectedThrough) /\ pc' = "unready"
       \/ SelectedThrough = after /\ pc' = "legacy" /\ UNCHANGED <<cursor, after>>
    /\ UNCHANGED <<marker, db, activation, bridge, rebuilding, batch, refused, bounds, ghosts>>

\* The provider: delivered only if the notice was handed over, failed only if not.
CallProvider ==
    /\ pc = "unresolved" /\ batch.rows # {} /\ batch.outcome = "none"
    /\ \E outcome \in {"delivered", "failed", "unknown"} :
          /\ batch' = [batch EXCEPT !.outcome = outcome]
          /\ notified' \in CASE outcome = "delivered" -> {notified \cup batch.rows}
                             [] outcome = "failed"    -> {notified}
                             [] OTHER                 -> {notified, notified \cup batch.rows}
    /\ UNCHANGED <<evidence, bridge, pc, rebuilding, after, refused, bounds, told, history>>

\* resolve(): which outcome moves the checkpoint.
Advances(outcome) == outcome = "delivered"

ResolveBatch ==
    /\ pc = "unresolved" /\ batch.outcome # "none"
    /\ \/ /\ Advances(batch.outcome) /\ Save(batch.through)
          /\ pc' = "legacy" /\ batch' = NoBatch
       \/ /\ Advances(batch.outcome) /\ SaveFails(batch.through)
          /\ pc' = "unready" /\ UNCHANGED batch
       \/ /\ ~Advances(batch.outcome)
          /\ pc' = "legacy" /\ batch' = NoBatch
          /\ UNCHANGED <<cursor, after>>
    /\ UNCHANGED <<marker, db, activation, bridge, rebuilding, refused, bounds, ghosts>>

\* Another call of the step fails: a full queue, an inbox that cannot be read, a
\* provider call that is cancelled.
StepFails ==
    /\ pc = "unresolved"
    /\ pc' = "unready"
    /\ UNCHANGED <<evidence, bridge, rebuilding, after, batch, refused, bounds, ghosts>>

\* ready(): after such a step the cursor that was really published counts; one behind the
\* checkpoint in memory would be refused.
LegacyReady ==
    /\ pc = "unready"
    /\ cursor.present => after <= cursor.through
    /\ pc' = "legacy"
    /\ batch' = NoBatch
    /\ after' = IF cursor.present THEN cursor.through ELSE after
    /\ UNCHANGED <<evidence, bridge, rebuilding, refused, bounds, ghosts>>
----------------------------------------------------------------------------
(* The world around the notifier.                                           *)

Store ==
    /\ head < MaxSeq
    /\ head' = head + 1
    /\ UNCHANGED <<evidence, capable, acked, watermark, process, bounds, ghosts>>

\* An older bridge deletes acknowledged rows and records no watermark.
Acknowledge ==
    /\ acked' \in (acked + 1)..head
    /\ watermark' = IF capable THEN acked' ELSE watermark
    /\ UNCHANGED <<evidence, capable, head, process, bounds, ghosts>>

\* The notifier dies or is stopped; only what was published survives.
Die ==
    /\ pc # "off"
    /\ pc' = "off" /\ rebuilding' = FALSE /\ batch' = NoBatch /\ after' = 0
    /\ UNCHANGED <<evidence, bridge, refused, bounds, ghosts>>

\* Another version of the bridge is started; a running notifier stops then.
SwitchBridge ==
    /\ pc = "off"
    /\ capable' = ~capable
    /\ UNCHANGED <<evidence, head, acked, watermark, process, bounds, ghosts>>

\* A file is deleted, or the inbox is restored from before the activation.
Lose ==
    /\ pc = "off"
    /\ losses < MaxLoss
    /\ losses' = losses + 1
    /\ \/ marker.state # "none" /\ marker' = NoMarker /\ UNCHANGED <<db, cursor, activation>>
       \/ db.state # "none" /\ db' = NoFile /\ UNCHANGED <<marker, cursor, activation>>
       \/ cursor.present /\ cursor' = NoCursor /\ UNCHANGED <<marker, db, activation>>
       \/ activation # 0 /\ activation' = 0 /\ UNCHANGED <<marker, db, cursor>>
    /\ UNCHANGED <<bridge, process, nonces, ghosts>>

JournalSteps ==
    \/ CreateFile \/ SwitchToWal \/ EndSwitch \/ InitializeJournal \/ AdoptJournal
    \/ PublishReady \/ OpenJournal \/ PassGate \/ Activate \/ Confirm \/ Deliver

Refusals ==
    \/ RefuseWithoutMarker \/ RefuseOldBridge \/ RefuseJournal \/ RefuseUnconfirmed
    \/ RefuseActivation

LegacySteps ==
    \/ SkipIgnored \/ FindRows \/ ReserveBatch \/ ReserveNothing \/ CallProvider
    \/ ResolveBatch \/ StepFails \/ LegacyReady

MigrationNext ==
    \/ \E option \in Afters : StartLegacy(option) \/ PublishMarker(option)
    \/ TakeUpMarker \/ Rebuild \/ ResumeRebuild
    \/ JournalSteps \/ Refusals \/ LegacySteps
    \/ Store \/ Acknowledge \/ Die \/ SwitchBridge \/ Lose

MigrationSpec == MigrationInit /\ [][MigrationNext]_vars
----------------------------------------------------------------------------
(* Properties.                                                              *)

\* Whatever two pieces of evidence are lost, and wherever the notifier died before, it
\* never runs as if nothing had been delivered: a running journal knows every
\* delivery a journal has committed or says that its history was lost, and the
\* legacy cursor runs only if no journal ever delivered (Migration(), LegacyState()).
HistoryIsNotForgotten ==
    /\ pc = "ready" => history \subseteq db.sent \/ db.lost
    /\ pc \in LegacyPlaces => history = {}

\* Every message up to through was excluded, acknowledged, handed over or never owed.
Accounted(through) ==
    \A m \in 1..through : m <= told \/ m <= acked \/ m \in notified \cup Ignored

\* No checkpoint passes a message that nobody was told of: everything up to it was
\* handed over, acknowledged, excluded by --after, or is a control frame, also when a
\* scan was cut, when the cursor's publication failed halfway and the loop went on with
\* another checkpoint than the file has, or when the journal was rebuilt (selection(),
\* save(), prepare(), rebuild()).
NothingSkipped ==
    /\ Accounted(cursor.through)
    /\ marker.state # "none" => Accounted(marker.through)
    /\ pc \in LegacyPlaces => Accounted(after)

\* The journal never notifies again what the legacy cursor had committed, however often
\* bridge and notifier are exchanged in between (the imported checkpoint).
NoResendAcrossUpgrade ==
    losses = 0 /\ db.state = "built" => db.sent \cap 1..cursor.through = {}

\* Without a loss a death at any point of the migration is not taken for one, and the next
\* start resumes it.  The exception is a death inside the switch to WAL, which
\* leaves a rollback journal that check_file_sizes() refuses.
DeathIsNotLoss == losses = 0 /\ db.state # "hot" => refused # "recovery"
=============================================================================
