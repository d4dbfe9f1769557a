------------------------------ MODULE Notifier ------------------------------
(***************************************************************************)
(* The notifier process: the delivery loop (notification_delivery.py), the  *)
(* jobs it submits to its database worker (notification_state.py), the       *)
(* provider call between them and the operator's requests                    *)
(* (notification_runtime.py), composed with the bridge that goes on changing *)
(* the inbox and with crashes of the notifier.                               *)
(*                                                                           *)
(* A job of the worker reads the inbox in one snapshot and commits to the    *)
(* journal afterwards; the bridge may act in between, so the two are         *)
(* separate steps.  The worker runs one job at a time: an operator's job     *)
(* starts only between jobs.  pc is where the loop stands:                   *)
(*   off           no journal yet                                            *)
(*   idle          between two calls of DeliveryLoop.step                    *)
(*   seed          ready(): the seed snapshot was read                       *)
(*   prepare       prepare() not yet started                                 *)
(*   reconcile     prepare(): the snapshot to reconcile with was read        *)
(*   ingest        prepare(): the snapshot to ingest was read                *)
(*   reserve_next  reserve_next() not yet started                            *)
(*   recheck       reserve_next(): its own snapshot was read                 *)
(*   reserve       reserve_next(): reconciled, nothing reserved yet          *)
(*   render        an attempt is reserved, no provider call yet              *)
(*   deliver       the provider call is running                              *)
(*   resolve       the call returned, its outcome is not committed           *)
(***************************************************************************)
EXTENDS NotificationJournal

CONSTANTS
    MaxFaults,   \* bound of the model: crashes, failed jobs, failed bridge calls
    MaxRetries   \* bound of the model: operator retry requests

ASSUME NotifierAssumption ==
    /\ MaxFaults \in Nat
    /\ MaxRetries \in Nat

VARIABLES
    pc,          \* where the loop stands
    snap,        \* the snapshot the running job works on
    outcome,     \* what the provider call returned
    started,     \* DeliveryLoop.started
    unresolved,  \* DeliveryLoop.unresolved
    fault,       \* internal_fault, with its cause
    blocked,     \* operator_blocked
    op,          \* the operator's retry job: none, reconcile or retry
    retrying,    \* the sequences of that request
    faults,      \* faults so far
    retries      \* retry requests so far

loopVars == <<pc, snap, outcome, started, unresolved, fault, blocked>>
operatorVars == <<op, retrying, retries>>

\* What really happened at the provider: the journal never sees these.
VARIABLES
    accepted,    \* rows whose notice some provider call handed over
    done,        \* rows whose delivery was committed to the journal
    calls        \* provider calls per row since its last operator retry

ghostVars == <<accepted, done, calls>>

vars == <<inboxVars, journalVars, loopVars, operatorVars, faults, ghostVars>>

Step == {"seed", "prepare", "reconcile", "ingest", "reserve_next", "recheck",
         "reserve", "render", "deliver", "resolve"}

\* Between two jobs of the database worker.
Boundary == {"idle", "prepare", "reserve_next", "render", "deliver", "resolve"}

\* The shapes of the loop's own state, on top of the inbox's and the journal's: the
\* fields of DeliveryLoop and of the runtime's latches.
NotifierTypeOK ==
    /\ InboxTypeOK
    /\ JournalTypeOK
    /\ pc \in {"off", "idle"} \cup Step
    /\ outcome \in Outcome \cup {"none"}
    /\ started \in BOOLEAN
    /\ unresolved \in BOOLEAN
    /\ fault \in {"none", "provider", "render"}
    /\ blocked \in BOOLEAN
    /\ op \in {"none", "reconcile", "retry"}
    /\ retrying \subseteq Sequence
    /\ faults \in 0..MaxFaults
    /\ retries \in 0..MaxRetries
    /\ accepted \subseteq Sequence
    /\ done \subseteq Sequence
    /\ calls \in [Sequence -> Nat]

Init ==
    /\ InboxInit
    /\ imported = 0 /\ scan = 0 /\ enumerated = 0
    /\ seeded = FALSE
    /\ work = [s \in {} |-> 0]
    /\ attempt = {}
    /\ counters = [k \in Counter |-> 0]
    /\ pc = "off"
    /\ snap = NoSnapshot
    /\ outcome = "none"
    /\ started = FALSE
    /\ unresolved = FALSE
    /\ fault = "none"
    /\ blocked = FALSE
    /\ op = "none"
    /\ retrying = {}
    /\ faults = 0
    /\ retries = 0
    /\ accepted = {}
    /\ done = {}
    /\ calls = [s \in Sequence |-> 0]
----------------------------------------------------------------------------
(* How a step ends.                                                         *)

Spend == faults < MaxFaults /\ faults' = faults + 1

\* step() returns or raises: the loop is back between two scans.
Return(still) ==
    /\ pc' = "idle"
    /\ snap' = NoSnapshot
    /\ outcome' = "none"
    /\ unresolved' = still

\* An error that asks for an operator: record_failure() sets operator_blocked.
Refused ==
    /\ Return(unresolved)
    /\ blocked' = TRUE
    /\ UNCHANGED <<journalVars, started, fault>>

\* An error the next scan retries.
Failed ==
    /\ Return(unresolved)
    /\ UNCHANGED <<journalVars, started, fault, blocked>>

GoTo(place, view) ==
    /\ pc' = place
    /\ snap' = view
    /\ UNCHANGED <<outcome, fault, blocked>>

LoopOnly == UNCHANGED <<inboxVars, operatorVars, faults, ghostVars>>

\* scan() calls step() only then.
Live == fault = "none" /\ ~blocked

SourceFault(view) == SnapshotInvalid(view) \/ SourceMissing(view) \/ SourceChanged(view)
----------------------------------------------------------------------------
(* The steps of one DeliveryLoop.step().                                    *)

\* initialize_journal(): the journal starts from the checkpoint of an earlier
\* notifier, or from --after.
Start ==
    /\ pc = "off"
    /\ \E through \in 0..head : CreateJournal(through)
    /\ pc' = "idle"
    /\ UNCHANGED <<snap, outcome, started, unresolved, fault, blocked>>
    /\ LoopOnly

\* Mutant.
NeedsReadyOnce == ~started

NeedsReady == ~started \/ unresolved

\* ready(): an attempt nobody resolved is closed as unknown before anything new
\* is reserved; the pointers are seeded the first time.
RunReady ==
    /\ pc = "idle" /\ op = "none" /\ Live /\ NeedsReady
    /\ IF attempt # {} THEN Resolve("unknown") ELSE UNCHANGED journalVars
    /\ IF seeded
       THEN GoTo("prepare", NoSnapshot) /\ started' = TRUE /\ unresolved' = FALSE
       ELSE GoTo("seed", Snapshot) /\ UNCHANGED <<started, unresolved>>
    /\ LoopOnly

Seed ==
    /\ pc = "seed"
    /\ CASE SnapshotInvalid(snap) \/ IdentityChanged(SeedRecords(snap), TRUE) -> Refused
         [] ~SnapshotInvalid(snap) /\ OverCapacity(SeedRecords(snap), TRUE) -> Failed
         [] OTHER ->
              /\ SeedPointers(SeedRecords(snap))
              /\ GoTo("prepare", NoSnapshot)
              /\ started' = TRUE
              /\ unresolved' = FALSE
    /\ LoopOnly

\* prepare() begins: reconcile() reads the inbox.
PrepareRead ==
    /\ \/ pc = "prepare"
       \/ pc = "idle" /\ Live /\ ~NeedsReady
    /\ op = "none"
    /\ GoTo("reconcile", Snapshot)
    /\ UNCHANGED <<journalVars, started, unresolved>>
    /\ LoopOnly

\* The reconciliation commits, and scan() reads the inbox again.
PrepareReconcile ==
    /\ pc = "reconcile"
    /\ IF attempt # {} THEN Failed
       ELSE IF SourceFault(snap) THEN Refused
       ELSE /\ Reconcile(snap)
            /\ GoTo("ingest", Snapshot)
            /\ UNCHANGED <<started, unresolved>>
    /\ LoopOnly

\* The transaction of a scan that does not fit is rolled back.
RefusedScan == UNCHANGED journalVars

\* ingest() and due(): a full journal refuses the whole scan and moves no
\* boundary, but the work it holds goes on.
PrepareIngest ==
    LET records == ScanRecords(snap, enumerated)
        through == ScannedThrough(snap, enumerated)
        ignored == IgnoredRows(snap, enumerated)
    IN
    /\ pc = "ingest"
    /\ IF SnapshotInvalid(snap) \/ IdentityChanged(records, FALSE) THEN Refused
       ELSE /\ IF OverCapacity(records, FALSE)
               THEN RefusedScan
               ELSE Ingest(records, ignored, through)
            /\ IF Due' = {}
               THEN Return(FALSE)
               ELSE pc' = "reserve_next" /\ snap' = NoSnapshot
                    /\ unresolved' = TRUE /\ UNCHANGED outcome
            /\ UNCHANGED <<started, fault, blocked>>
    /\ LoopOnly

\* reserve_next() reads the inbox a second time.
ReserveRead ==
    /\ pc = "reserve_next" /\ op = "none"
    /\ GoTo("recheck", Snapshot)
    /\ UNCHANGED <<journalVars, started, unresolved>>
    /\ LoopOnly

ReserveReconcile ==
    /\ pc = "recheck"
    /\ IF attempt # {} THEN Failed
       ELSE IF SourceFault(snap) THEN Refused
       ELSE /\ Reconcile(snap)
            /\ GoTo("reserve", snap)
            /\ UNCHANGED <<started, unresolved>>
    /\ LoopOnly

\* The attempt is durable before render() or deliver() runs.
ReserveNext ==
    /\ pc = "reserve"
    /\ IF Due = {}
       THEN Return(FALSE) /\ UNCHANGED <<journalVars, started, fault, blocked>>
       ELSE /\ Reserve(Due)
            /\ GoTo("render", snap)
            /\ UNCHANGED <<started, unresolved>>
    /\ LoopOnly

\* A pointer of the attempt whose binding changed since it was reserved: the
\* bridge is asked for its bindings only now.
StalePointers ==
    {s \in attempt : /\ work[s].kind = "memory-pointer"
                     /\ bound[work[s].binding] # work[s].instance}

CallsOf(seqs) == [s \in Sequence |-> IF s \in seqs THEN calls[s] + 1 ELSE calls[s]]

\* render(), then the provider call begins.  LookupError is no transport error:
\* record_failure() takes it for a defect and latches internal_fault.
Render ==
    /\ pc = "render"
    /\ IF StalePointers # {}
       THEN /\ Return(unresolved)
            /\ fault' = "render"
            /\ UNCHANGED <<blocked, calls>>
       ELSE /\ GoTo("deliver", NoSnapshot)
            /\ calls' = CallsOf(attempt)
            /\ UNCHANGED unresolved
    /\ UNCHANGED <<inboxVars, journalVars, started, operatorVars, faults, accepted, done>>

\* The bindings could not be listed: the attempt stays for ready() to close.
RenderUnavailable ==
    /\ pc = "render"
    /\ \E s \in attempt : work[s].kind = "memory-pointer"
    /\ Spend
    /\ Failed
    /\ UNCHANGED <<inboxVars, operatorVars, ghostVars>>

\* The provider adapter: "failed" is returned only where nothing was handed
\* over, "delivered" only on the child's success; "unknown" proves neither.
Deliver(result, handed) ==
    /\ pc = "deliver"
    /\ result = "delivered" => handed
    /\ result = "failed" => ~handed
    /\ outcome' = result
    /\ accepted' = IF handed THEN accepted \cup attempt ELSE accepted
    /\ pc' = "resolve"
    /\ UNCHANGED <<inboxVars, journalVars, snap, started, unresolved, fault, blocked,
                   operatorVars, faults, done, calls>>

\* The adapter breaks its contract: internal_fault.
AdapterFault(handed) ==
    /\ pc = "deliver"
    /\ Spend
    /\ Return(unresolved)
    /\ fault' = "provider"
    /\ accepted' = IF handed THEN accepted \cup attempt ELSE accepted
    /\ UNCHANGED <<inboxVars, journalVars, started, blocked, operatorVars, done, calls>>

ResolveCall ==
    /\ pc = "resolve" /\ op = "none"
    /\ Resolve(outcome)
    /\ done' = IF outcome = "delivered" THEN done \cup attempt ELSE done
    /\ Return(FALSE)
    /\ UNCHANGED <<inboxVars, started, fault, blocked, operatorVars, faults, accepted, calls>>
----------------------------------------------------------------------------
(* The operator, time and failures.                                         *)

\* retry begins: its own reconcile() reads the inbox.  While an attempt is
\* reserved the request is refused and nothing changes.
RetryRead ==
    /\ pc \in Boundary /\ op = "none" /\ attempt = {}
    /\ retries < MaxRetries
    /\ retries' = retries + 1
    /\ \E seqs \in SUBSET DOMAIN work :
        /\ seqs # {} /\ Cardinality(seqs) <= MaxMembers
        /\ retrying' = seqs
    /\ op' = "reconcile"
    /\ snap' = Snapshot
    /\ UNCHANGED <<inboxVars, journalVars, pc, outcome, started, unresolved, fault,
                   blocked, faults, ghostVars>>

RetryReconcile ==
    /\ op = "reconcile"
    /\ snap' = NoSnapshot
    /\ IF SourceFault(snap)
       THEN op' = "none" /\ retrying' = {} /\ blocked' = TRUE /\ UNCHANGED journalVars
       ELSE op' = "retry" /\ Reconcile(snap) /\ UNCHANGED <<retrying, blocked>>
    /\ UNCHANGED <<inboxVars, pc, outcome, started, unresolved, fault, retries, faults,
                   ghostVars>>

RetryCommit ==
    /\ op = "retry"
    /\ op' = "none"
    /\ retrying' = {}
    /\ IF Retriable(retrying)
       THEN /\ Retry(retrying)
            /\ calls' = [s \in Sequence |-> IF s \in retrying THEN 0 ELSE calls[s]]
       ELSE UNCHANGED <<journalVars, calls>>
    /\ UNCHANGED <<inboxVars, loopVars, retries, faults, accepted, done>>

AckHealth ==
    /\ pc \in Boundary /\ op = "none"
    /\ AcknowledgeHealth
    /\ UNCHANGED <<inboxVars, loopVars, operatorVars, faults, ghostVars>>

\* A job takes its time when it is submitted, so 30 s pass between jobs only.
Tick ==
    /\ pc \in Boundary /\ op = "none"
    /\ Elapse
    /\ UNCHANGED <<inboxVars, loopVars, operatorVars, faults, ghostVars>>

\* The worker's job fails on a busy or broken database: its transaction is
\* rolled back and step() raises.
JobFails ==
    /\ pc \in Step \ {"render", "deliver"} /\ op = "none"
    /\ Spend
    /\ Failed
    /\ UNCHANGED <<inboxVars, operatorVars, ghostVars>>

RetryFails ==
    /\ op # "none"
    /\ Spend
    /\ op' = "none" /\ retrying' = {} /\ snap' = NoSnapshot
    /\ UNCHANGED <<inboxVars, journalVars, pc, outcome, started, unresolved, fault,
                   blocked, retries, ghostVars>>

\* The notifier stops or dies and is started again: only the databases are left.
\* A call cut off in the middle may have handed the notice over.
Crash ==
    /\ pc # "off"
    /\ Spend
    /\ pc' = "idle"
    /\ snap' = NoSnapshot
    /\ outcome' = "none"
    /\ started' = FALSE
    /\ unresolved' = FALSE
    /\ fault' = "none"
    /\ blocked' = FALSE
    /\ op' = "none"
    /\ retrying' = {}
    /\ accepted' \in {accepted} \cup (IF pc = "deliver" THEN {accepted \cup attempt} ELSE {})
    /\ UNCHANGED <<inboxVars, journalVars, retries, done, calls>>

\* The bridge serves its peers and its participant whatever the notifier does.
Bridge ==
    /\ InboxNext
    /\ UNCHANGED <<journalVars, loopVars, operatorVars, faults, ghostVars>>

Loop ==
    \/ Start \/ RunReady \/ Seed
    \/ PrepareRead \/ PrepareReconcile \/ PrepareIngest
    \/ ReserveRead \/ ReserveReconcile \/ ReserveNext
    \/ Render
    \/ \E result \in Outcome, handed \in BOOLEAN : Deliver(result, handed)
    \/ ResolveCall

Operator == RetryRead \/ RetryReconcile \/ RetryCommit \/ AckHealth

Faults ==
    \/ RenderUnavailable
    \/ \E handed \in BOOLEAN : AdapterFault(handed)
    \/ JobFails \/ RetryFails \/ Crash

Next == Bridge \/ Loop \/ Operator \/ Tick \/ Faults

Spec == Init /\ [][Next]_vars

\* The rescan timer calls step() again and again, the worker runs every job it
\* accepted, the provider adapter has a deadline, and time passes (strong
\* fairness: Tick is only written down between jobs, time does not wait there).
Fairness ==
    /\ WF_vars(Loop)
    /\ WF_vars(RetryReconcile)
    /\ WF_vars(RetryCommit)
    /\ SF_vars(Tick)

FairSpec == Spec /\ Fairness
----------------------------------------------------------------------------
(* Properties.                                                              *)

\* A row is reported "failed" only when no provider call ever handed its notice
\* over: neither an operator retry, nor a crash in the middle of a call, nor an
\* outcome lost before it was committed may turn "may have been delivered" into
\* "was not delivered" (resolve(), recover_attempt(), retry()).
FailedMeansNeverAccepted ==
    \A s \in DOMAIN work : work[s].disposition = "failed" => s \notin accepted

\* No row is given to the provider more often than MaxAttempts between two
\* operator retries, whatever crashes or lost outcomes make the loop start over:
\* reserve() commits the attempt before the call.
CallBudget ==
    \A s \in Sequence : calls[s] <= MaxAttempts

\* Once a delivery was committed the row never waits again: rows that were folded
\* away behind scan_through are not admitted a second time, and a seeded pointer
\* ahead of enumerated_through is kept until the scan has passed it (advance(),
\* add()).
NoResendAfterDelivered ==
    \A s \in done \cap DOMAIN work : work[s].disposition = "delivered"

\* Whatever the inbox still holds and the journal has read is accounted for: a
\* message behind enumerated_through is a row of work or was delivered.  Pointers
\* below the imported checkpoint count too once they are seeded.
NoLostMessage ==
    \A s \in DOMAIN inbox :
        /\ inbox[s].kind = "user" /\ imported < s /\ s <= enumerated
              => s \in DOMAIN work \cup done
        /\ inbox[s].kind = "memory-pointer" /\ PointerCapable /\ seeded /\ s <= enumerated
              => s \in DOMAIN work \cup done

\* Nothing the bridge may legally do between a snapshot and the next one makes
\* the notifier stop for an operator: every disappearance is explained by the
\* watermark, the binding's instance or a newer pointer (reconcile(), add(),
\* snapshot()).
NeverBlocked == ~blocked

\* What is reserved was neither acknowledged nor gone in the snapshot that
\* reserve_next() read: the second read closes the window that prepare() leaves.
ReservesOnlyCurrent ==
    pc = "render" =>
        \A s \in attempt :
            /\ s \in DOMAIN snap.rows
            /\ AckCapable => s > snap.ack

\* Notices go out in the order of the inbox: while a call is prepared or runs,
\* no row that waits for one precedes the rows of the attempt (due()).
HeadOfLine ==
    pc \in {"render", "deliver", "resolve"} =>
        \A s \in attempt, t \in Ready : s < t

\* The deliveries the health report can see: counted ones and rows still in work.
DeliveredTotal ==
    counters["delivered"]
      + Cardinality({s \in DOMAIN work : work[s].disposition = "delivered"})

\* The health counter never loses a delivery: committed deliveries are either
\* still rows of work or counted, and folding a row away counts it exactly once.
\* Only the operator's acknowledgement resets it (advance(), count()).
DeliveriesAreCounted ==
    [][ \/ DeliveredTotal' = DeliveredTotal + Cardinality(done' \ done)
        \/ pc = "off"
        \/ AcknowledgeHealth ]_vars

\* The journal's boundaries only move forward, and scan_through never passes a row
\* that still waits for its notice; rows leave the table only behind it.
BoundariesHold ==
    [][ pc # "off" =>
          /\ scan <= scan' /\ enumerated <= enumerated'
          /\ \A s \in DOMAIN work :
                /\ s > scan /\ s <= scan' => s \notin DOMAIN work' \/ work'[s].disposition \notin Waiting
                /\ s \notin DOMAIN work' => s <= scan' ]_vars

\* A full journal is full of work: some row of the table still waits for its
\* notice or for the operator.  Rows that nobody waits for never bring the scan to
\* a halt by themselves (prepare(): "existing admitted work can still complete and
\* free capacity").
FullOfOpenWork ==
    pc = "ingest" /\ OverCapacity(ScanRecords(snap, enumerated), FALSE) => Open # {}

\* A message is closed when its delivery was committed, when it was acknowledged,
\* or when its attempts are used up.
Closed(s) ==
    \/ s \in done
    \/ s \notin DOMAIN inbox
    \/ s \in DOMAIN work /\ work[s].disposition \in Exhausted

\* With finitely many faults every retained user message after the checkpoint is
\* closed, unless the notifier has latched an internal fault: no order of lost
\* outcomes, failed jobs, retries and crashes leaves the loop waiting for ever on
\* an attempt it does not resolve.
EveryMessageCloses ==
    \A s \in Sequence :
        (s \in DOMAIN inbox /\ inbox[s].kind = "user" /\ pc # "off" /\ s > imported)
            ~> (Closed(s) \/ fault # "none")

\* The documented rule for a binding that goes away (docs/STAGE4-IMPLEMENTATION-
\* DESIGN.md): its pointer is obsolete, so work on it closes.
UnboundPointerCloses ==
    \A s \in Sequence :
        (s \in Open /\ work[s].kind = "memory-pointer" /\ bound[work[s].binding] # work[s].instance)
            ~> (s \notin Open)
=============================================================================
