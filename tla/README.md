# TLA+ model of the peer bridge: notifications and shared memory

The repository connects coding agents that run side by side on one machine. A
**bridge** receives messages from peers and keeps them in an inbox, a **notifier**
tells the participant's agent that something arrived, and a **memory service** keeps
shared notes. This directory holds TLA+ modules for the parts of the program whose
correctness depends on the order in which several processes act, the configurations
that check them with TLC, and proofs checked by TLAPS.

Line numbers below refer to the repository's files; `PROJECT.json` maps every
definition that stands for code to its lines.

## 1. Inventory

| Component | State | Operations | Correct when |
|---|---|---|---|
| Bridge inbox (`bridge.py`, `inbox_schema.py`) | `inbox` rows, allocated head, acknowledgement watermark | store, acknowledge, list, activate journal | a reader in another process can explain every row that is there and every row that is not |
| Memory bindings (`memory_bindings.py`) | binding lifetimes, last observed head, one pointer row per binding | bind, unbind, two-phase refresh | every pointer row belongs to the lifetime bound now; a refresh of an old lifetime writes nothing |
| Notification source (`notification_source.py`) | none: read-only snapshots of the inbox database | snapshot, scan, seed_pointers, retained | a snapshot is consistent; a scan stops at the last row it returned |
| Notification journal (`notification_journal.py`) | work rows, at most one reserved attempt, `imported/scan/enumerated_through`, counters | ingest, seed, due, reserve, resolve, recover, retry, reconcile, acknowledge_health | no message is lost, notified beyond its budget, resent after a committed delivery, or reported failed when it may have arrived |
| Delivery loop and runtime (`notification_delivery.py`, `notification_state.py`, `notification_runtime.py`) | place of the loop, `started`, `unresolved`, the latches `internal_fault` and `operator_blocked` | `step()`, operator retry and health acknowledgement, start, cleanup | the loop makes progress after every fault it may survive and stops only for a real defect |
| Provider adapters (`notification_provider.py`, `dsh_delivery.py`) | a child process or an HTTP session | deliver | `failed` only when nothing was handed over, `delivered` only on success |
| Migration and activation (`notification_migration.py`, `durable_state.py`) | marker file, legacy cursor, activation record | prepare, rebuild, confirm | a crash between two publications never makes a lost journal look like a new one |
| Legacy delivery (`notification_legacy.py`) | cursor file, in-memory batch | prepare, reserve, resolve | at-least-once with a bridge that never had a journal |
| Subscriptions (`subscriptions.py`) | hint hub, one-slot queue per subscriber | publish, serve, watch_changes | a change is noticed at the latest by the next rescan |
| Database worker, admission, bridge process (`database_worker.py`, `service_runtime.py`, `bridge.py`) | two bounded queues, fault latch; slot counts; control and peer endpoint | submit, run, close; enter, leave; bind, serve, drain, unlink | accepted jobs run in order and are settled once, control requests get through, one bridge at a time has the inbox open |
| Memory store (`memory.py`, class `Store`) | notes, head, floor, idempotency rows, search index, storage block | note, expire, reconcile index, recover | a retried request stores one note; no gap above the floor; a trusted index is exact |
| Memory protocol (`memory.py`, class `MemoryCommands`) | consumers' cursors, tombstones, frozen snapshots | register, touch, sync, snapshot_page, ack, retirement | a consumer receives, or is told to reread, everything between its cursor and the head |
| Memory service lifecycle (`memory.py`) | `start.lock`, owner record, endpoint, the open store | start, stop, release | one owner; a predecessor never removes its successor's files; "stopped" means drained |
| Memory watches (`notification_memory.py`) | one watch per binding | watch, refresh request | a bound repository's change leads to a refresh |
| Health file (`notification_health.py`) | one published file | publish, load | a reader never takes a stale or foreign file for a live notifier |
| Sessions and locks (`session.py`, `session_observation.py`, `participant_lock.py`) | lock files, registered name, systemd unit, two child processes | run, ensure, stop, rename, status | one supervisor per session, one lock order; "stopped" is said only of a session without processes |
| Transport, command lines, names, platform, installer | none worth a model | | |

How they interact. Peers call the bridge over a socket; the bridge writes the inbox
and publishes a hint. The notifier opens the *same* database file read-only, so
everything it knows about the inbox is a snapshot that may be old when it is used. It
commits its own decisions to a second database, the journal; no transaction spans the
two. All journal access goes through one worker thread, which runs one job at a time;
the delivery loop and the operator's control socket both submit jobs to it. Between
two jobs the loop asks the bridge for its bindings and runs a provider child process.
Consumers of the memory service write notes and read them by snapshot and deltas; the
service handles one request at a time but a request commits several transactions.
A bridge, a memory service and a notifier each own their database through one worker
thread, and own the right to open it through an endpoint or a lock that others respect.
`session.py` starts and stops a bridge and a notifier together, by hand or as a systemd
unit, and has only locks, endpoints and a status request to find out whether they run.
Any of the processes may die at any point.

What is hard: the window between reading the inbox and committing to the journal; a
provider call whose outcome is lost; a memory request cut off between two of its
transactions; retries that mix outcomes; a pointer row that is
replaced or removed while it is worked on; a journal at its capacity; the boundary
arithmetic that decides which rows may be forgotten; a process that stops while its
successor starts, and what a killed one leaves behind. `PROJECT.json` lists these as
hazards at their lines.

## 2. Modules

```
Inbox  <-  InboxSource  <-  NotificationJournal  <-  Notifier  <-  MCNotifier
  ^ ^                                                   ^
  | |                                                   |
  | InboxProofs  <---------------------------  NotifierProofs
  |      ^
  |      |---  MemoryWatchProofs
  |                   |
Bindings  <-  MemoryWatch  <-  MCWatch

MemoryNotes  <-  MemorySync  <-  MemoryNotesProofs      MCNotes, MCSync

Migration  <-  MigrationProofs
MemoryService  <-  MemoryServiceProofs
Session  <-  SessionProofs

Executor  <- (implements) -  DatabaseWorker  <-  BridgeService  <-  MCService
                                                      ^
                                              BridgeServiceProofs
```

An arrow is EXTENDS. The proofs of the notifier, the migration and the notes begin with the
facts about the least and the greatest element of a set of numbers that they need.

**Inbox**: the bridge's table as the bridge changes it. `inbox` maps a sequence to
its row, `head` is the allocated head (`sqlite_sequence`), `ack` the watermark of
`inbox_schema.acknowledge`, `bound[b]` the instance of binding `b` or 0. Actions:
`Store`, `Acknowledge`, `Bind`, `Unbind`, `Refresh`. A message's body is left out; its
kind decides whether a notifier reads it. A random binding instance is the next
unused number.

**Bindings**: what `Inbox` takes as the one step `Refresh`, as the bridge carries it out.
A handler reads the binding's row in one job (`Ask`), asks the memory service outside any
transaction (`Observe`), and commits in a second job, if the lifetime, the observation and
the anomalies of the row are still those it read (`Commit`, else `RefuseStale`). The
handlers in `Handler` run side by side, with bind, unbind and `ack-binding-health`
between any two of their jobs. `GiveUp` is the request's deadline and a failed job. The
memory service is external: up, down or broken (an answer only an operator can mend), a
store identity, a head, and the number of its starts, which stands for its owner record. Refusal
codes are reduced to the policy `RECOVERY` gives them, and `failure` for the codes it
does not list. The observation that `bind-memory` makes is only a gate and nothing of it
is kept. The result of the last check that the bridge keeps for its listing is left out.
`happened` is a history variable: the replacements and restorations since the binding was
created. The module's refinement mapping to `Inbox` is the identity on `inbox`, `head`,
`ack`, `bound` and `instances`.

**MemoryWatch**: the notifier's watch of a bound repository, with the hub of the memory
service. A watch is a loop (`watch.run`) that answers a signal or its timer with a
`refresh-memory` request, and a pump (`link`) that keeps the subscription. Hints carry
nothing and queues have one slot, so `hint` (in the hub's queue or on the socket) and
`changed` (the signal) are Booleans. A subscription is `registered` from the moment the hub has its
queue until the client has read the answer. A refusal that needs an operator blocks
the watch; the owner's stamp is read in a step of its own after it (`ReadStamp`,
`ReadStampPump`). Cancelling a watch leaves its request to the bridge without a reader
(`Abandoned`). A refusal with a code that `RECOVERY` does not list ends the task (`dead`).
When the listing of the bindings unblocks a watch depends on the time of the last check
and is left open (`UnblockWatch`).

**InboxSource**: one operator per query of `Source`, over a snapshot value
`Snapshot` (rows, head, watermark, bindings). A bridge without the watermark or
without pointers is described by `AckCapable` and `PointerCapable`.

**NotificationJournal**: one operator per transaction of `Journal`. Each includes the
trailing `advance()`, because the code commits them together. `work` is the table,
`attempt` the rows of the reserved attempt. `retry_at` is the time
a row still has to wait in units of 30 s (`RetryDelay`: one unit after the first
attempt, two later; 0 is due), and `Elapse` is one unit passing. `RowValid` and `AttemptValid` are
`_validate()`.

**Notifier**: `DeliveryLoop.step()` split at every point where another process can
act: after a snapshot is read, after a job, before, during and after the provider
call. `pc` names the place; the module's head comment lists them. `RetryRead`,
`RetryReconcile`, `RetryCommit` are the operator's job, which holds the worker while it
runs. Faults are actions of their own: `JobFails` (a transaction rolled back, the
step raises), `RenderUnavailable` (the bridge does not answer), `AdapterFault` (the
adapter breaks its contract, `internal_fault`), `RetryFails`, and `Crash` (stop or
death at any place followed by a start; only the databases survive, a call cut off in
the middle may have handed over its notice). Three history variables record what no
process can see: `accepted` (the provider took the notice), `done` (a delivery was
committed), `calls` (provider calls since the last operator retry).

**MemoryNotes**: the store of notes. `entries` maps a sequence to its note; `head`,
`floor` and `through` are the rows of `meta` (`indexed_through`); `idem` holds the
retained retries; `index` is the content of the search table and `fts` says whether
this runtime has one. Time is the counter `now`, and every lifetime and deadline is
compared with it as the code does. `supersedes` and `revokes` differ only in the
column that holds the link, so a note has one `replaced_by`. `phase` is `started`
while `expired_at` is 0, `swept` once `expire()` has run in this process, and `down`
after a death. `Note` is the transaction of `note()`; `ExpireNotes` a whole
`expire()`, `DieExpiring` one cut off after some of its batches or between the two
transactions of its fallback, the index given up and the rows still there; `Restart` opens the
store, with or without a search table, through `_reconcile_index()`; `Block` and
`Recover` are the storage block. A request that is refused or answered as a
duplicate changes nothing and is a stutter. The byte and page budgets appear as such
refusals only, and as the free choice `maintained` in `_unindex()` and in `Reopen`:
whether the work fits. The history variable `stored` counts the notes of each request.

**MemorySync**: the consumers. It extends `MemoryNotes` with `cursors`, `retired` and
`snapshots`. `job` is the request that runs; each transaction of it is an action
(`Enter` for register and touch, `ClearSnapshot`, `Freeze`, `SendPage`, `SendDelta`,
`AckSnapshot`, `AckThrough`), and `Abort` or `RestartService` may end it between any
two. A caller may send any argument at any time: old page tokens, snapshots that are
not its own, acknowledgements that come late or twice. Pages of a snapshot are cut
from its order by rank, `PageLimit` notes each. `view` and `received` record what a
consumer holds that applies every reply it acknowledges.

**Migration**: how a notifier finds the record of what it has notified, before the loop
of `Notifier` starts. Four places hold evidence: `marker` (`notify-migration.json`),
`db` (the journal's file), `cursor` (the legacy cursor with its `journal_required`)
and `activation` (the bridge's record, which an older bridge does not show). They are
published in the order marker, database, marker `ready`, cursor, activation,
confirmation; `pc` names the last publication done, and `Die` may come after any of
them. Each way `Migration()` refuses is an action, with its codes
reduced to `upgrade` (start a newer bridge) and `recovery` (evidence is missing or
contradicts itself). `Rebuild` is the operator's command that gives the history up.
`Lose` deletes one of the files or restores the inbox from before the activation;
`SwitchBridge` starts another version of the bridge. A notifier without any evidence
in front of an older bridge delivers from the legacy cursor, whose batch is only in
memory. A step of its loop (`DeliveryLoop.step()`) is `SkipIgnored` or `FindRows` for
`prepare()`, then `ReserveBatch` or `ReserveNothing`, `CallProvider` and `ResolveBatch`;
`pc` is `legacy` as long as `unresolved` is not set, `unresolved` inside the step after
that, and `unready` when such a step has failed (`StepFails`, or a save). Messages come
and are acknowledged between any two of them. What is selected is the head of a scan that
`ScanLimit` may cut (`Scanned`, `Records`, `Selected`). `SaveFails` leaves the file with
either content and the checkpoint in memory as it was. In `reserve_next()` and
`resolve()` this makes the next step begin with `LegacyReady`, which takes the file's
checkpoint; in `prepare()` it does not, and the loop goes on from the old checkpoint
while the file may hold the new one. Delivery from the journal is
one step: what matters here is which deliveries a later start knows of. `told`,
`notified` and `history` are history variables.

**Executor**: what a database worker promises, without its queues: jobs are accepted
while it is open, begun one at a time (urgent ones first, each class in the order of
acceptance), settled once, and the database is closed only when nothing accepted is left.
Only the death of the thread abandons jobs, and it tells every waiter. Its fairness says
that the thread goes on while it has work.

**DatabaseWorker**: the two deques, the condition variable and the thread of
`database_worker.py`. A sleeping thread is a state (`asleep`) that only a notification
ends, so a lost one would be seen. `Call` and `StopAccepting` are the callers' critical
sections, `Take`, `Settle`, `Die`, `EndLoop` and `CloseOwner` the thread's. What a method
does to its object is left out; that it may fail, latch a fault or kill the thread is not.
`ahead` is a history variable: the jobs that were queued when a job was accepted. The
refinement to `Executor` (`INSTANCE Executor WITH`) takes each job's fate from its future
and the popped job, and the phase from `closing` and the thread.

**BridgeService**: one bridge process around that worker. A connection's handler is a
state machine cut at its awaits: handshake, waiting for a job, waiting for something
outside the database, subscribed, gone; a timeout, a refusal or a cancellation may end
it at each of them (`GiveUp`, `Drain`), and the job it submitted stays accepted. `counts`
is `Admission.counts`, `slot` what each handler holds. `run()` binds the control and the
peer endpoint, opens the inbox, serves, and on its way out drains handlers, closes the
worker, closes the servers (which removes their paths on Python 3.13 only: both are
possible) and removes what is still its own. Another bridge of the same session wants the
same control endpoint; peer endpoints carry the process id, so only a leftover of a killed
bridge with the same id can be in the way of one. A signal before the handlers are
installed is in `Session`.

**MemoryService**: several `serve` and `stop` commands of one state directory. A server is
one process and one generation, `pc` its place in `start()`, `run()` and `release()`;
`spc` is the place of a stop command. `lock` is `start.lock`, `store` the exclusive lock
of the open store, `sock` the socket at the endpoint's path (whether its process listens
is in `pc`), `owner` the generation that `owner.json` names. `Crash` and `StopCrash` may
come between any two steps. A socket whose process ended stays until somebody removes it.
What `verify_running()` compares is reduced to: nobody listens, the recorded healthy
service answers, or something else does, which refuses the start. `orphaned` records the
one death that leaves nothing to judge a socket by.

**Session**: ensure, stop and rename of one session (`status` reports and leaves, as an
ensure that finds the session running), `run` processes started by hand, by ensure or by
systemd again, and the bridge and notifier of each. The four locks have holders; a lock is
free when its process has left or died. `lifecycle()` is five steps, one for each place it
looks at, and its probe holds the lock it asks about until the next step. `StopUnit` is
`systemctl stop`: it signals everything in the unit and waits; a run that has not installed
its handlers dies of the signal. Deadlines are actions that may happen and are never
needed. Endpoints stay when their process is killed, and nobody removes them. `late`
records the runs that were killed while a child had nothing to show yet or during an observation. Names
are numbers, a rename takes the next; the search for a name free among all sessions is
left out. Processes start in the order of their numbers, which loses nothing as they
differ in nothing else.

**Mutant** definitions, marked so, sit in front of the definition they vary. They are
plausible mistakes in the same code; substituting one makes TLC report the property
that `PROJECT.json` pairs it with.

Assumptions of the model: the checkpoint a journal is created from lies in `0..head`;
the bridge's capabilities do not change while the notifier runs; the journal's
activation is already confirmed (`Migration` models how it gets there); the worker runs
jobs one at a time (what `Executor` promises and `DatabaseWorker` keeps). `compat` is reachable: a journal is activated under a capable
bridge and an older bridge is started afterwards (`SwitchBridge` and `PassGate` of
`Migration`).

## 3. What TLC checks

| Run | Instance | Shows |
|---|---|---|
| `bindings` | 1 binding, 2 lifetimes, 2 requests at a time, 2 stores with 1 note, 2 starts | Overlapping refreshes never take their own disorder for a replaced or restored store (`AnomaliesAreReal`); while a subscription is open every change the bridge does not know has a hint or a request underway (`NoLostWakeup`); the bridge with its two-phase refresh implements `Inbox` (`ImplementsInbox`), which is what the notifier's modules rely on. |
| `peers` | 2 messages, scan limit 1, 2 attempts, 2 faults, 1 retry | Journal always valid, `failed` is never a lie, nothing lost, order of the inbox kept; a peer row vanishes only under a watermark that explains it, and no row is stored or kept under one (`AckExplainsPeers`); under `FairSpec` every message is delivered, acknowledged or exhausted, unless `internal_fault` is latched (`EveryMessageCloses`). |
| `pointers` | 3 sequences, 1 binding, 2 lifetimes, table of 2, 1 fault | Unbind, rebind and refresh between any two steps of the loop: never blocked, nothing lost, nothing resent; a scan that a full table refuses loses nothing, and the table is never full of rows nobody waits for (`FullOfOpenWork`). |
| `compat` | 3 messages, no watermark, no pointers, 1 fault, counters on | Rows that vanish without evidence are never sent; calls stay within the budget; each delivery is counted exactly once when its row is folded away; the boundaries only move forward and never pass a waiting row. |
| `notes` | 3 notes, 1 key, clock 0 to 3, batches of 1 | Retries before and after their deadline, cleanup, deaths in `expire()`, restarts with and without a search table: one note per request, nothing missing above the floor, a trusted index is exact. |
| `sync` | 1 consumer, 3 notes, 3 snapshots, clock 0 to 2, pages of 1 | A reader that is given deltas has everything in force up to its cursor (`ViewIsComplete`), keeps nothing that was replaced (`ViewHasNoZombie`), and its cursor never moves back (`CursorsAdvance`). |
| `readers` | 2 consumers, 2 notes of 2 kinds, 2 snapshots | The same completeness with foreign snapshots, retirement and the cap on findings. |
| `migration` | 4 messages, scans of 2, notices of 1, 2 journals, 2 losses | A notifier that dies between any two publications, rebuilds, and bridges exchanged in between, and a legacy loop whose scans are cut and whose saves fail: no journal runs as if nothing had been delivered (`HistoryIsNotForgotten`), no checkpoint passes a message nobody was told of (`NothingSkipped`), an upgrade resends nothing (`NoResendAcrossUpgrade`), and a death alone is not taken for a loss (`DeathIsNotLoss`). |
| `service` | 4 connections (peer, refresh, command, control), 5 jobs, 1 ordinary slot, deques of 2 and 1 | The worker implements `Executor`; while another bridge has the control endpoint this one has closed the inbox (`OneInboxOwner`); slots come back whichever way a handler ends (`SlotsAreReturned`); no endpoint of another process is removed (`OthersEndpointSurvives`); a stop ends (`StopEnds`). |
| `lifecycle` | 3 services, 2 stop commands, any of them killed | A listener keeps endpoint and record (`ListenerKeepsEndpoint`); "stopped" means that the generation has drained and closed the store (`StoppedMeansDrained`); a leftover can be reclaimed (`LeftoverIsReclaimable`); a stop that was heard does not need its deadline (`StopReturns`). |
| `session` | 2 commands, 2 supervisors with their children, 2 names, 1 killed process | A session that is observed stopped has no process left (`ObservedStopped`), the name of a managed start stays the registered one (`ManagedStartKeepsName`), and ensure, which holds lifecycle while its run needs registration, does not wait for ever (`EnsureCompletes`). Deadlock is checked. |
| `unbound` | 2 sequences, 1 binding | A violation, see section 5. |

The type invariants (`InboxTypeOK`, `NotifierTypeOK`, `NotesTypeOK`, `SyncTypeOK`,
`MigrationTypeOK`, `WatchTypeOK`, `ServiceTypeOK`, `LifecycleTypeOK`, `SessionTypeOK`) document the
state and are not among the runs' properties; they are proved, except for one conjunct of
`SyncTypeOK`: that no more notes of a snapshot are counted as issued than it has, which
needs a count of the positions in a page.

Bounds. `MaxSeq` is 2 or 3: two rows make every ordering question possible, a third
fills the table or waits behind the first two. `ScanLimit` 1 or 2 makes a scan stop
short, as 128 does with 129 rows. `MaxWork` keeps the code's relation to the inbox:
2048 rows against at most 1000 peer rows and 16 bindings with two pointers each, so a full table can
only come from rows that left the inbox. (With `MaxWork` below
`MaxPeer + 2 * MaxBindings` a full journal could wedge; the code's numbers exclude
it.) `MaxAttempts` 2 separates "one attempt left" from "used up"; the code's value is
3. Two faults let a crash hit the recovery of another fault. `CounterMax = 0` turns
the counters off where they only multiply states; `compat` turns them on. `pointers` has
a table below that bound on purpose: only then is a scan refused within three sequences.

`sync` and `readers` use `WithoutIndex`, which drops
the search index: only `recall()` reads it, and `notes` checks it. Consumers are
interchangeable in `readers` (symmetry); nothing orders them and the run checks only
an invariant. Pages and batches of one note make every snapshot of two notes and
every expiry of two rows take several steps; time limits of 0 and 1 let a
snapshot, an acknowledgement and a consumer outlive or miss each other in a clock of
three values. Three notes are a note, its replacement and one more.

In `migration`, two losses leave at least one of the three local files (an older bridge does
not show the fourth piece); with all three gone nothing local can tell a lost journal
from a first start, and the code does not claim to. Two nonces are a journal and its
rebuild. Messages 1 and 4 are control frames and `--after` is 0 or 1, so a checkpoint can be
moved by each of its causes: a scan of two rows is cut with user messages behind it, holds
a control frame and a message, holds two messages of which a notice takes one, or holds
control frames only, whose save may fail with the loop going on from the old checkpoint.

In `bindings` no peer sends anything (`MaxPeer` 0): the two tables meet only in the
sequence, which pointers alone advance too. One note and two stores give an observation
everything it can differ in; two starts are a failure and a repair, and a service fails only
while it may be started again. The two handlers are the watch's request and an
operator's, or the leftover of a cancelled watch and its successor's; they are
interchangeable (symmetry), as no action or property orders them.

In `service` four connections fill every queue and slot: three ordinary jobs against a
deque of two (a connection that gives up leaves its job queued), three connections
against one handshake slot. The refresh has two jobs with an await between them. In
`lifecycle` the third service may start while the first still stops and the second has
crashed; two stop commands may aim at different generations. In `session` two commands
are what lifecycle.lock has to keep apart, two supervisors are a managed one and one by
hand, or a unit and its restart; one kill, at any place, of any of the processes.

Deadlock is not checked where the system really may stop: a notifier with a latched
`internal_fault`, and a bounded bridge or memory service that has run out of sequences.
It is checked in `service`, `lifecycle` and `session`, whose final states are explicit.

Fairness (`FairSpec`). `WF(Loop)`: `watch_changes` rescans at least every 2 s and
`scan()` calls `step()` again whatever the last call raised; a provider call has a
deadline. `WF(RetryReconcile)`, `WF(RetryCommit)`: the worker runs each job it
accepted. `SF(Tick)`: time passes. It is strong fairness because the model writes the
clock step only between jobs (a job takes its time when it is submitted), so it is
enabled again and again but not continuously. Nothing is assumed of the bridge, the
operator or the faults; faults are finitely many.

In `service` the worker's thread and the task that runs `run()` are weakly fair: a
database operation ends, and `drain_handlers()` has a deadline of its own; connections,
the signal and the other bridge owe nothing. In `lifecycle` each process is weakly fair
in the steps it takes by itself; deadlines, signals and deaths are not, so `StopReturns`
holds without the 20 seconds. In `session` commands are weakly fair together, since
lifecycle.lock lets one of them run at a time, and so are the runs with their children,
which take finitely many steps: that is fairness to each. No deadline is fair, so
`EnsureCompletes` does not rest on the 5 seconds after which ensure gives up.

## 4. What is proved

The proofs hold for every value of the constants allowed by the modules' assumptions:
any number of sequences, bindings, rows, attempts, consumers, processes and faults. Three
theorems have a hypothesis on constants, named below with the code's reason for it. Each
invariant that was strengthened to become inductive was checked by TLC first, under the
configuration of the run it belongs to.

*InboxProofs.* `InboxInv` is the type invariant with `RetainedAboveAck` and
`PointersAreCurrent`; it is inductive as it stands because a stored row gets
`head + 1` and the watermark is cut at `head`. From it `PointersStayCurrent`,
`NothingAcknowledgedIsRetained`, and the action property `WatermarkExplainsPeers`.

*MemoryWatchProofs* (`WatchInv`, 2,587,888 states). `AnomaliesAreReal` is not inductive: a
request carries a row and an observation that were read earlier, and the comparison is
made with them. `RowsArePast` and `RequestsArePast` say in what order things were seen.
`Follows(p, o, befell)` holds if p is not an older state of the same store than o unless
`befell` records why; the present follows the row, the row and the observation of every request of
the present lifetime, and the observation follows the row. Requests of an earlier
lifetime are out because an instance is never used again. The refresh writes what it saw
only if it still finds the row it read, so the comparison is one between two states in
their true order (`NoFalseAlarm`). `NoLostWakeup` needs two more parts.
`BlockedIsRefused`: a blocked watch, which swallows a signal, either has no subscription or
was refused. `HintsArePending` also covers a watch that is asking after a refusal, since
its answer may be the one that ends the refusal. The interesting step is `Commit`: if it records something
older than the present, then the present was not recorded before either, because two
observations that follow each other are the same. `RefreshImplementsInbox` is the refinement
of `Inbox`: each step maps to a `Refresh`, `Bind`, `Unbind` or a stutter. To prove the type
invariant, a service that is down is known to have a start left; the bounds on stores and
starts are positive, as the service's first state is one of them.

*NotifierProofs*, first part. One lemma per transaction of the journal, stated without
reference to the loop: from `JournalInv` (types and `_validate()`'s conditions) and a
well-formed snapshot, the transaction keeps `JournalInv`, and what it does to a row's
uncertainty, attempts and disposition. `AdvanceFacts` is the core: folding removes settled rows
behind the new boundary only.

*NotifierProofs*, second part. None of the interesting properties is inductive alone.
`NotifierInv` adds to the invariants of the parts:

- `SnapshotOK`: the snapshot in use was once a legal table, with nothing about how
  old it is;
- `TurnsOK`: which places of the loop go with a reserved attempt, an operator's job
  and an outcome in hand;
- `AcceptedIsVisible`: a row of the journal whose notice the provider took is
  uncertain, settled, or in an attempt whose outcome is not committed and will not be
  `failed`. This is what makes `failed` honest, and it is why
  `uncertain` has to survive operator retries;
- `CallsArePaid`: calls since the last retry never exceed the attempts the row has
  paid, which links the history to the journal's own count;
- `AdmitsClean`: what is not in `work` and may still be admitted has neither been
  accepted nor committed nor called, so that a new row starts with a clean record;
- `NoResendAfterDelivered` itself.

Each action has a lemma; the theorems `NotifierTypes`, `JournalStaysValid`,
`FailedWasNeverAccepted`, `CallsStayWithinBudget` and `DeliveredIsNeverResent` follow.
`JournalStaysValid` says more than a type: no order of stale snapshots, retries and
crashes builds a table the code's own check would refuse, which would stop delivery
until an operator rebuilds the journal.

Three further invariants stand on it (the runs `peers`, `pointers` and `compat` with all of
them: 133,272, 1,701,905 and 934,638 states).

- `CallInv`, for `NoticesKeepOrder` and `OnlyCurrentIsReserved`. `ReadyIsCurrent` carries
  what reconciliation found from `reconcile()` to `reserve_next()`: every row that is ready
  is in the snapshot and above its watermark. The run `compat` checks `ReservesOnlyCurrent`
  where rows vanish without a watermark; for a bridge that records one the theorem is the
  evidence.
- `FlowInv`, for `NoMessageIsLost` and `BridgeNeverBlocks`. Both relate the inbox of now to a
  snapshot of any age, so `TraceInv` says how the two hang together: no sequence beyond
  the head is known anywhere, a row that is in snapshot or journal and in the inbox is the same
  row, a pointer's instance is older than every later one, a row of snapshot or journal
  that is gone was acknowledged, or was a pointer whose lifetime is over or that a later one replaced, and a settled row is settled
  for a reason that lasts (`SettledIsOver`).
- `RoomInv`, for `FullMeansOpenWork`, under the hypothesis
  `MaxBindings + ScanLimit <= MaxWork` (16 + 128 and 2048 in the code; the
  passing runs satisfy it). After the reconciliation the settled rows at or below `scan` are folded away
  (`ScanIsFolded`), and what the table holds beyond the rows it has enumerated are the pointers
  of one snapshot, at most one for each binding (`FewAhead`).

`BoundariesOnlyAdvance` is an action property and follows from `NotifierInv` step by step.

`DeliveriesStayCounted` is the action property of the health counter: a step adds exactly the
deliveries it commits to the folded counter and the delivered rows of the table together.
Folding moves a row from one summand to the other, and that is exact only while the
counter does not saturate. `CountInv` bounds the sum by the number of committed
sequences, so the hypothesis `MaxSeq <= CounterMax` is enough; in the code both end at
2^63 - 1, and the run `compat` has both at 3.

*MigrationProofs* (`MigrationInv` and `HistoryIsGuarded`, 2,432,224 states). `PhaseOK` says what `start()` has in hand at each of
its places, `RecordsAgree` how marker, journal, cursor and the bridge's activation go
together as long as nothing was lost, `CheckpointsOK` that every number on its way to a
checkpoint is accounted for, and that the legacy loop may be behind the published cursor
but never ahead of it, so that `ready()` never has to refuse it. `SelectedFacts` carries
`NothingIsSkipped`: the rows of a notice are a prefix of the records of a scan, which is a
prefix of what is retained (`FirstFacts`, used twice), so everything up to the checkpoint
is among them, acknowledged or a control frame. `HistoryIsGuarded` counts: once a delivery was committed, the
local pieces of evidence and the losses together are at least three. So
`HistoryIsRemembered` has the hypothesis `MaxLoss <= 2`: the code keeps three local pieces,
and with all of them gone it does not claim to tell a lost journal from a first start.
`NothingIsSkipped`, `UpgradeResendsNothing` and `DeathIsResumed` hold without it.

*MemoryNotesProofs.* `OneNotePerRequest` is not inductive: after cleanup nothing in the
store remembers the request. `RequestsAreSettled` says why it is safe: a request that
stored its note is still retained under its key, or its deadline has passed and the
clock alone refuses it. `IndexIsExact` needs `IndexIsHonest`: `indexed_through` is either -1 or equal
to the head with an exact index and a search table present, so no runtime can write
past an index it cannot see. `ForgetFacts` shows that removing any set of rows with
the floor raised to the highest of them leaves no gap above it. The theorems
`RequestsStoreOnce`, `FloorCoversRemoved` and `TrustedIndexIsExact` follow.

The second half is about `MemorySync` (`SyncInv`, 1,063,311 states in `sync` and 478,098 in
`readers`). A consumer's view is right at its cursor only if what it is about to acknowledge
was sent to it, so the invariant follows the pages: a frozen snapshot holds all that
was in force at its head and stays `Faithful` while notes are replaced and removed, because a
replacement always has a later sequence (`LinksForward`); its pages have been sent without a gap
(`PagedInOrder`); and a reader of deltas has received everything between its cursor and
what was issued (`ViewOK`). `PositionsRise` is the lemma about pages: positions in a
snapshot grow with the sequence, one by one. `ViewsAreComplete`, `ViewsHoldNoZombie`
and the action property `CursorsOnlyAdvance` follow. `RosterIsBounded` is about the consumers
themselves: registrations and tombstones stay within `MAX_CONSUMERS` and
`MAX_CONSUMERS + MAX_RETIRED`, because `register()` checks both before it adds one and
`expire()` only moves consumers from one table to the other.

*MemoryServiceProofs* (`LifecycleInv`, 67,257 states). The invariant ties each place in
`start()` and `release()` to the holder of `start.lock` (`LockIsHeld`) and of the store's lock
(`StoreIsHeld`), and the two files to the life of one server (`FilesFollow`).
`EndpointIsKept` is then a matter of exclusion; `StoppedIsDrained` also needs that a stop
command aims only at a generation that has published (`TargetsPublished`), and
`LeftoverReclaimed` that a socket without a record belongs to a server that is about to write one.

*BridgeServiceProofs* (`ServiceInv`, 257,590 states). `WorkerInv` is the database worker
alone: a pending job is in exactly one queue, queues keep the order of submission, and a
thread that ended left nothing behind. From it `WorkerIsExecutor`: every step of the
worker inside the bridge is a step of `Executor` or a stutter, which is the safety part of
`ImplementsExecutor`. `EndpointFollows` and `WorkerFollows` relate the phase of `run()` to the
endpoint and the thread, whence `InboxHasOneOwner`; `SlotsAreFew` keeps the sets that are
counted finite, so that `NoSlotLeaks` can speak of cardinalities for any number of
connections. `EndpointsOfOthersSurvive` is an action property.

*SessionProofs* (`SessionInv`, 1,327,623 states). `ObservedStopped` is about looks that are
taken one after the other, so it is not inductive: what was seen first has to hold
still until the last one. `Looked` carries it from look to look: once the endpoint and the
notifier's lock were found free, no bridge and no notifier of a run that has ended is
left. That needs `ChildrenShow`: a run at an early place has no child, a bound bridge has the
endpoint and a live notifier the lock, and an ended run leaves no child that has
nothing to show, unless it was killed then or in the middle of an observation (`late`, the exception that
`ObservedStopped` names). `Places` and `LocksHeld` tie lifecycle, registration and supervisor
locks to the places of their holders, which makes the last look, at supervisor.lock,
exclude every supervisor that lives (`StoppedIsTrue`), and is stated by itself as `OneAtATime`. `NamesRead`: a run has a
name only after it registered, so nothing is compared before; with lifecycle.lock that gives `NameIsKept`.
`StopReachesUnit` is the reason why a stop that waits for the unit with registration.lock in its hand does
not block it: the unit's run is over, or was signalled at a place where it no longer asks for
that lock, and its children were told (`StopWaitsForTheSignalled`). The assumption is
that there is a name at all (`MaxName >= 1`), since the first registration takes one.

Only model-checked: liveness (`EveryMessageCloses`, `StopEnds`, `StopReturns`,
`EnsureCompletes`, and the fairness in `ImplementsExecutor`). Fairness and ENABLED are out of
the prover's reach. Every safety property of the passing runs is proved.

## 5. Findings and observations

**A binding removed during a delivery stops the notifier** (run `unbound`). `render()`
raises `LookupError` when a reserved pointer's binding has been removed or recreated
(`notification_notices.py:41`); `record_failure()` takes it for a defect and latches
`internal_fault`, so the attempt is never resolved and no later message is notified
until a restart. `docs/STAGE4-IMPLEMENTATION-DESIGN.md:492-493` calls such a pointer
"obsolete, not unexplained loss", and reconciliation treats it so everywhere else.

**A retry may reopen a row that has just been acknowledged**: an acknowledgement
between the read of the retry's reconciliation and its commit is not seen. It is
harmless: `reserve_next()` reads the inbox again, and `ReservesOnlyCurrent` holds.

**The flag `resnapshot` is implied**: the comment at `memory.py:1512` gives it the task of
keeping a consumer whose snapshot expired from taking deltas. With the other guards
as they are (the floor never falls, a number acknowledges nothing while a snapshot is
open) such a consumer is below the floor or not bootstrapped anyway; the flag is a
second line of defence.

**A death inside the switch to WAL needs an operator**: SQLite changes the journal mode of
the new, empty database under a rollback journal, so `notify-journal.sqlite3-journal`
exists for an instant. A death there makes `check_file_sizes()`
(`notification_journal.py:152-158`) refuse every later start with
`journal_recovery_required`, although nothing was lost and the marker still says
`preparing`, which permits completion of an empty journal. `DeathIsNotLoss` states
the exception.

**Subscription request**: `notification_runtime.py:290` sends the operation
`subscribe`, the bridge serves hints only for `subscribe-inbox` (`bridge.py:222`). The
rescan timer hides it. `MemoryWatch` models the subscription to the memory service, which
takes `subscribe`.

**A failed bridge database reaches the delivery loop through a watch**: `refused()` looks
every code up in `RECOVERY` (`notification_memory.py:56`), which has no entry for
`storage_error` and `internal_error`, the codes of a failed job in the bridge. The
`KeyError` ends the watch's task, `reasons()` raises it again, and
`record_failure()` latches `internal_fault`, which stops all delivery. The comment at
`notification_runtime.py:300` says "Optional memory observation does not stop ordinary
delivery." `TakeAnswer` has the dead watch; its effect on the loop needs the composition in
section 6.

**A repair before the stamp is read is missed**: the stamp that a blocked watch compares
with is read after the refusal, so a service that is started again in between counts as
the broken one. The watch stays blocked until another start or an
explicit refresh that the listing shows as new; a refresh within 30 s of the last verified
check is not seen as one (`notification_memory.py:148-149` needs a transition).

**An old observation may be committed after a regression**: the comparison in `refresh()` is
by value. When a restored store brings the row back to the observation a slow refresh
had read, and the anomaly was acknowledged meanwhile, the slow refresh commits.
The next refresh corrects it; `NoLostWakeup` is therefore said of stores that were not
replaced or restored.

**A removed endpoint is recognised by its inode**: `run()` of the bridge compares
`(st_dev, st_ino)` before it removes a path (`bridge.py:451`). On Python 3.13
`Server.close()` has removed the path already; a successor may bind it and be given the
same inode number, and would then lose its endpoint. The model takes identities for exact.

**Endpoints of a bridge that is signalled early stay**: SIGTERM between `bind` and
`add_signal_handler()` (`bridge.py:392-420`) ends the process without its `finally`. Every
later start is refused, and `session.py` reports `unknown`, until they are removed by
hand, as the comment at `bridge.py:387` asks.

**A memory service that dies between bind and its first record** leaves a socket nobody may
remove (`memory.py:2011-2014`). A start that meets a predecessor after its worker has
closed and before `release()` fails with `socket_in_use` on Python before 3.13. "Stopped"
with `superseded`, and "stopped" seen between the removal of the record and the exit, are said of a process
that has drained but not exited.

**An observation may refuse a start**: `lock_held()` takes the lock it asks about
(`session_observation.py:21`); a supervisor or notifier that starts in that moment is
refused as if another were there.

**An independent run may keep an old name**: `run` reads its name under registration.lock and
takes supervisor.lock later (`session.py:356-358`); a rename in between is not seen. For
the run that ensure waits for this cannot happen (`ManagedStartKeepsName`); it can after
ensure has given up, and for a restart by systemd.

**A stop may be confirmed before an orphan appears**: a supervisor killed while its child starts
leaves a process without lock or endpoint; `ObservedStopped` excepts it.

**A worker whose thread died** leaves a bridge that answers `internal_error` and keeps its
endpoints: `run()` waits for the stop event only.

**A reason may be cleared too early**: a refresh that succeeds sets `reason` to None although the
pump has just blocked the watch for an operator (`notification_memory.py:89`), so
the health report shows no reason while the watch is blocked.

## 6. Not modelled, and the plan

Not worth a model: socket framing (`peer_transport.py`), command lines, guidance text,
names, platform calls and the installer. They keep no state that several steps share. The
health file (`notification_health.py`) is a report that is replaced every few seconds; the one decision taken
by it, `verify_owner()`, is the operator `Ready` of `Session`. The HTTP session of
`dsh_delivery.py` is behind the contract of `Deliver`. The inbox's schema migration is one
transaction. The byte and page budgets of the store appear as refusals only. The search
for a free name over all sessions and the account-wide participant lock can only refuse a
start.

Planned: a composition of `MemoryWatch` with `Notifier`: a watch that dies must not stop
ordinary delivery; a repaired service is watched again.
