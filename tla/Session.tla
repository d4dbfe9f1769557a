------------------------------ MODULE Session ------------------------------
(***************************************************************************)
(* The managed session of one participant: session.py's commands and the   *)
(* supervisors that `run` becomes, with the bridge and the notifier each   *)
(* of them spawns.  They share four file locks (lifecycle, registration,   *)
(* supervisor, notifier), the registered name, and the two endpoints by    *)
(* whose presence a session is observed.  Locks die with their process;    *)
(* endpoints do not.                                                       *)
(***************************************************************************)
EXTENDS Naturals

CONSTANTS Command,    \* ensure, stop and rename commands, by number
          Run,        \* `run` processes, by systemd or by hand
          None,
          MaxName,    \* bound on renames
          MaxKills    \* bound on killed processes

ASSUME SessionAssumption ==
    /\ Command \subseteq Nat /\ Run \subseteq Nat /\ Command \cap Run = {}
    /\ None \notin Command \cup Run
    /\ MaxName \in Nat \ {0} /\ MaxKills \in Nat

Process == Command \cup Run
Ops == {"ensure", "stop", "rename"}

VARIABLES pc,         \* where each process is
          op,         \* what each command does; a stop turns to "confirm"
          life, reg, sup, nlock,   \* the holders of the four locks
          name,       \* the registered name, 0 before the first registration
          runName,    \* the name each run has read
          unit,       \* the run that the systemd unit started
          stopped,    \* the supervisors that were signalled
          bridge, notifier,        \* the children of each run
          told,       \* the children that were asked to stop, or signalled
          serves,     \* the run whose bridge each notifier found
          bridgeEnd, notifierEnd,  \* whose endpoint is in place
          kills,
          late        \* history: runs killed with a child not yet visible,
                      \* or under a running observation

locks == <<life, reg, sup, nlock>>
names == <<name, runName>>
managed == <<unit, stopped>>
children == <<bridge, notifier, told, serves, bridgeEnd, notifierEnd>>
faults == <<kills, late>>
vars == <<pc, op, locks, names, managed, children, faults>>

Decided == {"not stopped", "stopped"}
Observing == {"bridge", "notifier", "nlock", "slock", "seen"}
Supervising == {"check", "wait bridge", "wait notifier", "running",
                "end notifier", "end bridge"}

SessionTypeOK ==
    /\ pc \in [Process -> {"off", "reg", "status", "not stopped", "stopped", "unit wait",
                           "tell notifier", "tell bridge", "start", "wait", "join", "sup", "ended"}
                           \cup Observing \cup Supervising]
    /\ op \in [Process -> Ops \cup {"none", "confirm"}]
    /\ life \in Command \cup {None}
    /\ {reg, sup, nlock} \subseteq Process \cup {None}
    /\ name \in 0..MaxName /\ runName \in [Run -> 0..MaxName]
    /\ unit \in Run \cup {None}
    /\ stopped \subseteq Run
    /\ bridge \in [Run -> {"none", "starting", "bound", "up", "gone"}]
    /\ notifier \in [Run -> {"none", "starting", "locked", "up", "closing", "gone"}]
    /\ told \subseteq {"bridge", "notifier"} \X Run
    /\ serves \in [Run -> Run \cup {None}]
    /\ {bridgeEnd, notifierEnd} \subseteq Run \cup {None}
    /\ kills \in 0..MaxKills /\ late \subseteq Run

Init ==
    /\ pc = [x \in Process |-> "off"]
    /\ op = [x \in Process |-> "none"]
    /\ life = None /\ reg = None /\ sup = None /\ nlock = None
    /\ name = 0 /\ runName = [r \in Run |-> 0]
    /\ unit = None
    /\ stopped = {}
    /\ bridge = [r \in Run |-> "none"] /\ notifier = [r \in Run |-> "none"]
    /\ told = {} /\ serves = [r \in Run |-> None]
    /\ bridgeEnd = None /\ notifierEnd = None
    /\ kills = 0 /\ late = {}

Over == {"none", "gone"}

(* Processes are numbered in the order in which they start.                *)
IsNext(x, set) == pc[x] = "off" /\ \A y \in set : y < x => pc[y] # "off"

Goto(x, l) == pc' = [pc EXCEPT ![x] = l]
Freed(held, x) == IF held = x THEN None ELSE held

(* Closing its lock files, or its death, frees what x holds: notifier.lock *)
(* only while it probes it, not when its notifier has it.                  *)
Release(x) ==
    /\ life' = Freed(life, x) /\ reg' = Freed(reg, x) /\ sup' = Freed(sup, x)
    /\ nlock' = IF pc[x] = "slock" THEN None ELSE nlock
    /\ op' = [op EXCEPT ![x] = "none"]
Leave(x) == Goto(x, "ended") /\ Release(x)

BridgeUp == \E r \in Run : bridge[r] = "up"

(* notifier_ready(): a living notifier, for the bridge that answers.       *)
Ready == \E q \in Run : notifier[q] = "up" /\ bridge[serves[q]] = "up"

-----------------------------------------------------------------------------
(* main(): lifecycle, then registration.  `run` skips lifecycle.           *)

\* A mutant.
BeginRenameUnlocked(c, o) ==
    /\ IsNext(c, Command)
    /\ \/ o = "rename" /\ UNCHANGED life
       \/ o # "rename" /\ life = None /\ life' = c
    /\ op' = [op EXCEPT ![c] = o]
    /\ Goto(c, "reg")
    /\ UNCHANGED <<reg, sup, nlock, names, managed, children, faults>>

Begin(c, o) ==
    /\ IsNext(c, Command) /\ life = None
    /\ life' = c
    /\ op' = [op EXCEPT ![c] = o]
    /\ Goto(c, "reg")
    /\ UNCHANGED <<reg, sup, nlock, names, managed, children, faults>>

(* `run` by hand, or by systemd after a unit that failed by itself.        *)
BeginRun(r) ==
    /\ IsNext(r, Run)
    /\ Goto(r, "reg")
    /\ \/ UNCHANGED unit
       \/ /\ unit # None /\ pc[unit] = "ended"
          /\ \A c \in Command : pc[c] # "unit wait"
          /\ unit' = r
    /\ UNCHANGED <<op, locks, names, stopped, children, faults>>

(* The saved identity is read, or created.                                 *)
Register(x) ==
    /\ pc[x] = "reg" /\ reg = None
    /\ reg' = x
    /\ name' = IF name = 0 THEN 1 ELSE name
    /\ runName' = IF x \in Run THEN [runName EXCEPT ![x] = name'] ELSE runName
    /\ Goto(x, "status")
    /\ UNCHANGED <<op, life, sup, nlock, managed, children, faults>>

-----------------------------------------------------------------------------
(* lifecycle(): evidence of life, in the order in which it is looked for.  *)
(* The probe of a lock takes it for a moment.  Running and unknown are one *)
(* answer here: nothing but the words of a report tells them apart.        *)

(* bridge_status(): a bridge that is there may also fail to answer.        *)
AskBridge(x) ==
    /\ pc[x] = "status"
    /\ \/ BridgeUp /\ Goto(x, "not stopped")
       \/ Goto(x, "bridge")
    /\ UNCHANGED <<op, locks, names, managed, children, faults>>

LookAt(x, from, end, to) ==
    /\ pc[x] = from
    /\ \/ end # None /\ Goto(x, "not stopped")
       \/ end = None /\ Goto(x, to)
    /\ UNCHANGED <<op, locks, names, managed, children, faults>>

LookBridge(x) == LookAt(x, "bridge", bridgeEnd, "notifier")
LookNotifier(x) == LookAt(x, "notifier", notifierEnd, "nlock")

\* A mutant.
ProbeNotifierUnlocked(x) ==
    /\ pc[x] = "nlock"
    /\ Goto(x, "slock")
    /\ UNCHANGED <<op, locks, names, managed, children, faults>>

ProbeNotifier(x) ==
    /\ pc[x] = "nlock"
    /\ \/ nlock # None /\ Goto(x, "not stopped") /\ UNCHANGED nlock
       \/ nlock = None /\ nlock' = x /\ Goto(x, "slock")
    /\ UNCHANGED <<op, life, reg, sup, names, managed, children, faults>>

ProbeSupervisor(x) ==
    /\ pc[x] = "slock"
    /\ nlock' = Freed(nlock, x)
    /\ \/ sup # None /\ Goto(x, "not stopped") /\ UNCHANGED sup
       \/ sup = None /\ sup' = x /\ Goto(x, "seen")
    /\ UNCHANGED <<op, life, reg, names, managed, children, faults>>

Seen(x) ==
    /\ pc[x] = "seen"
    /\ sup' = None
    /\ Goto(x, "stopped")
    /\ UNCHANGED <<op, life, reg, nlock, names, managed, children, faults>>

Observe(x) == AskBridge(x) \/ LookBridge(x) \/ LookNotifier(x)
              \/ ProbeNotifier(x) \/ ProbeSupervisor(x) \/ Seen(x)

-----------------------------------------------------------------------------
(* What each command does with the observation.                            *)

(* rename: refused unless stopped; without a free name nothing is saved.   *)
Rename(c) ==
    /\ pc[c] \in Decided /\ op[c] = "rename"
    /\ name' = IF pc[c] = "stopped" /\ name < MaxName THEN name + 1 ELSE name
    /\ Leave(c)
    /\ UNCHANGED <<runName, managed, children, faults>>

(* An ensure that finds anything but a stopped session; an ensure without  *)
(* systemd, which names the command to run by hand; and so every status.   *)
Report(c) ==
    /\ pc[c] \in Decided /\ op[c] = "ensure"
    /\ Leave(c)
    /\ UNCHANGED <<names, managed, children, faults>>

\* A mutant.
EnsureUnlocksLate(c) ==
    /\ pc[c] = "stopped" /\ op[c] = "ensure"
    /\ Goto(c, "start")
    /\ UNCHANGED <<op, locks, names, managed, children, faults>>

(* ensure gives registration back before it starts the unit: `run` needs   *)
(* it.  It keeps lifecycle until both children are ready.                  *)
EnsureUnlocks(c) ==
    /\ pc[c] = "stopped" /\ op[c] = "ensure"
    /\ reg' = None
    /\ Goto(c, "start")
    /\ UNCHANGED <<op, life, sup, nlock, names, managed, children, faults>>

(* A request or a signal; it reaches only a child that lives.              *)
Tell(kinds, r) ==
    told' = told \cup {t \in kinds \X {r} : IF t[1] = "bridge" THEN bridge[r] \notin Over
                                            ELSE notifier[r] \notin Over}

UnitActive == unit # None /\ pc[unit] # "ended"

(* systemctl start: a new run, nothing when the unit is active, or failure.*)
StartUnit(c) ==
    /\ pc[c] = "start"
    /\ \/ /\ ~UnitActive
          /\ \E r \in Run :
               /\ IsNext(r, Run)
               /\ pc' = [pc EXCEPT ![c] = "wait", ![r] = "reg"]
               /\ unit' = r
          /\ UNCHANGED <<op, locks>>
       \/ UnitActive /\ Goto(c, "join") /\ UNCHANGED <<op, locks, unit>>
       \/ Leave(c) /\ UNCHANGED unit
    /\ UNCHANGED <<names, stopped, children, faults>>

EnsureReady(c) ==
    /\ pc[c] \in {"wait", "join"} /\ Ready
    /\ Leave(c)
    /\ UNCHANGED <<names, managed, children, faults>>

EnsureDeadline(c) ==
    /\ pc[c] \in {"wait", "join"}
    /\ Leave(c)
    /\ UNCHANGED <<names, managed, children, faults>>

(* systemctl stop signals the unit's processes and waits for them: a run   *)
(* that has not installed its handlers dies, and frees what it holds.  A   *)
(* unit that was stopped is not restarted.  Without systemd the command    *)
(* goes on to the requests; a systemctl that fails ends it.                *)
StopUnit(c) ==
    /\ pc[c] \in Decided /\ op[c] = "stop"
    /\ \/ /\ UnitActive
          /\ Tell({"bridge", "notifier"}, unit)
          /\ \/ /\ pc[unit] \in Supervising \ {"check"}
                /\ stopped' = stopped \cup {unit}
                /\ Goto(c, "unit wait")
                /\ UNCHANGED <<op, locks>>
             \/ /\ pc[unit] \notin Supervising \ {"check"}
                /\ pc' = [pc EXCEPT ![unit] = "ended", ![c] = "unit wait"]
                /\ Release(unit)
                /\ UNCHANGED stopped
          /\ UNCHANGED unit
       \/ /\ unit' \in IF UnitActive THEN {unit} ELSE {unit, None}
          /\ Goto(c, "tell notifier")
          /\ UNCHANGED <<op, told, stopped, locks>>
       \/ /\ UnitActive
          /\ Leave(c)
          /\ UNCHANGED <<told, stopped, unit>>
    /\ UNCHANGED <<names, bridge, notifier, serves,
                   bridgeEnd, notifierEnd, faults>>

UnitStopped(c) ==
    /\ pc[c] = "unit wait"
    /\ ~UnitActive
    /\ bridge[unit] \in Over /\ notifier[unit] \in Over
    /\ unit' = None
    /\ Goto(c, "tell notifier")
    /\ UNCHANGED <<op, locks, names, stopped, children, faults>>

(* Requests to whoever listens; either may be lost.                        *)
TellNotifier(c) ==
    /\ pc[c] = "tell notifier"
    /\ \/ \E r \in Run : notifier[r] = "up" /\ Tell({"notifier"}, r)
       \/ UNCHANGED told
    /\ Goto(c, "tell bridge")
    /\ UNCHANGED <<op, locks, names, managed, bridge, notifier, serves,
                   bridgeEnd, notifierEnd, faults>>

TellBridge(c) ==
    /\ pc[c] = "tell bridge"
    /\ \/ \E r \in Run : bridge[r] = "up" /\ Tell({"bridge"}, r)
       \/ UNCHANGED told
    /\ op' = [op EXCEPT ![c] = "confirm"]
    /\ Goto(c, "status")
    /\ UNCHANGED <<locks, names, managed, bridge, notifier, serves,
                   bridgeEnd, notifierEnd, faults>>

Confirm(c) ==
    /\ op[c] = "confirm"
    /\ \/ pc[c] = "stopped" /\ Leave(c)
       \/ pc[c] = "not stopped" /\ Goto(c, "status") /\ UNCHANGED <<op, locks>>
    /\ UNCHANGED <<names, managed, children, faults>>

StopDeadline(c) ==
    /\ pc[c] = "not stopped" /\ op[c] = "confirm"
    /\ Leave(c)
    /\ UNCHANGED <<names, managed, children, faults>>

-----------------------------------------------------------------------------
(* supervisor().                                                           *)

RunUnlocks(r) ==
    /\ pc[r] \in Decided
    /\ reg' = None
    /\ Goto(r, "sup")
    /\ UNCHANGED <<op, life, sup, nlock, names, managed, children, faults>>

TakeSupervisor(r) ==
    /\ pc[r] = "sup"
    /\ \/ sup = None /\ sup' = r /\ Goto(r, "check")
       \/ sup # None /\ Goto(r, "ended") /\ UNCHANGED sup
    /\ UNCHANGED <<op, life, reg, nlock, names, managed, children, faults>>

SpawnBridge(r) ==
    /\ pc[r] = "check"
    /\ \/ BridgeUp /\ Leave(r) /\ UNCHANGED bridge
       \/ /\ bridge' = [bridge EXCEPT ![r] = "starting"]
          /\ Goto(r, "wait bridge")
          /\ UNCHANGED <<op, locks>>
    /\ UNCHANGED <<names, managed, notifier, told, serves,
                   bridgeEnd, notifierEnd, faults>>

SpawnNotifier(r) ==
    /\ pc[r] = "wait bridge" /\ r \notin stopped
    /\ bridge[r] # "gone" /\ BridgeUp
    /\ notifier' = [notifier EXCEPT ![r] = "starting"]
    /\ Goto(r, "wait notifier")
    /\ UNCHANGED <<op, locks, names, managed, bridge, told, serves,
                   bridgeEnd, notifierEnd, faults>>

Running(r) ==
    /\ pc[r] = "wait notifier" /\ r \notin stopped
    /\ notifier[r] # "gone" /\ Ready
    /\ Goto(r, "running")
    /\ UNCHANGED <<op, locks, names, managed, children, faults>>

(* Signalled, or a child has exited: the finally ends the notifier, then   *)
(* the bridge, and waits for each before supervisor.lock is freed.         *)
Unwinds(r) ==
    /\ pc[r] \in {"wait bridge", "wait notifier", "running"}
    /\ Tell({"notifier"}, r)
    /\ Goto(r, "end notifier")
    /\ UNCHANGED <<op, locks, names, managed, bridge, notifier, serves,
                   bridgeEnd, notifierEnd, faults>>

Unwind(r) ==
    /\ r \in stopped \/ bridge[r] = "gone" \/ notifier[r] = "gone"
    /\ Unwinds(r)

(* A child that is not ready in time.                                      *)
StartDeadline(r) == pc[r] # "running" /\ Unwinds(r)

EndNotifier(r) ==
    /\ pc[r] = "end notifier" /\ notifier[r] \in Over
    /\ Tell({"bridge"}, r)
    /\ Goto(r, "end bridge")
    /\ UNCHANGED <<op, locks, names, managed, bridge, notifier, serves,
                   bridgeEnd, notifierEnd, faults>>

EndBridge(r) ==
    /\ pc[r] = "end bridge" /\ bridge[r] \in Over
    /\ Leave(r)
    /\ stopped' = stopped \ {r}
    /\ UNCHANGED <<names, unit, children, faults>>

-----------------------------------------------------------------------------
(* The children.  A bridge binds before it installs its handlers, and its  *)
(* endpoint is the last thing it gives up; a notifier holds its lock from  *)
(* the start to the end of its cleanup.                                    *)

BridgeAt(r, l) ==
    /\ bridge' = [bridge EXCEPT ![r] = l]
    /\ told' = IF l = "gone" THEN told \ {<<"bridge", r>>} ELSE told
NotifierAt(r, l) ==
    /\ notifier' = [notifier EXCEPT ![r] = l]
    /\ serves' = [serves EXCEPT ![r] = IF l = "up" THEN bridgeEnd ELSE None]
    /\ told' = IF l = "gone" THEN told \ {<<"notifier", r>>} ELSE told

BridgeStep(r) ==
    /\ \/ /\ bridge[r] = "starting"
          /\ \/ /\ bridgeEnd = None
                /\ bridgeEnd' = r
                /\ BridgeAt(r, "bound")
             \/ /\ bridgeEnd # None \/ <<"bridge", r>> \in told
                /\ BridgeAt(r, "gone")
                /\ UNCHANGED bridgeEnd
       \/ /\ bridge[r] = "bound"
          /\ \/ BridgeAt(r, "up")
             \/ <<"bridge", r>> \in told /\ BridgeAt(r, "gone")
          /\ UNCHANGED bridgeEnd
       \/ /\ bridge[r] = "up" /\ <<"bridge", r>> \in told
          /\ bridgeEnd' = None
          /\ BridgeAt(r, "gone")
    /\ UNCHANGED <<pc, op, locks, names, managed, notifier, serves, notifierEnd, faults>>

(* The bridge a notifier has found is gone: it stops itself.               *)
Bereft(r) == bridge[serves[r]] = "gone"

NotifierStep(r) ==
    /\ \/ /\ notifier[r] = "starting"
          /\ \/ /\ nlock = None
                /\ nlock' = r
                /\ NotifierAt(r, "locked")
             \/ /\ nlock # None \/ <<"notifier", r>> \in told
                /\ NotifierAt(r, "gone")
                /\ UNCHANGED nlock
          /\ UNCHANGED notifierEnd
       \/ /\ notifier[r] = "locked"
          /\ \/ /\ notifierEnd = None /\ BridgeUp
                /\ notifierEnd' = r
                /\ NotifierAt(r, "up")
             \/ /\ NotifierAt(r, "closing")
                /\ UNCHANGED notifierEnd
          /\ UNCHANGED nlock
       \/ /\ notifier[r] = "up"
          /\ <<"notifier", r>> \in told \/ Bereft(r)
          /\ notifierEnd' \in {notifierEnd, None}
          /\ NotifierAt(r, "closing")
          /\ UNCHANGED nlock
       \/ /\ notifier[r] = "closing"
          /\ notifierEnd' = Freed(notifierEnd, r)
          /\ nlock' = None
          /\ NotifierAt(r, "gone")
    /\ UNCHANGED <<pc, op, life, reg, sup, names, managed, bridge, bridgeEnd, faults>>

-----------------------------------------------------------------------------
(* A killed process frees its locks and leaves its endpoint and children;  *)
(* systemd ends what is left of its unit.                                  *)

Orphan(r) == bridge[r] \notin Over \/ notifier[r] \notin Over
Unseen(r) == "starting" \in {bridge[r], notifier[r]}
Observation == \E x \in Process : pc[x] \in Observing

Kill(x) ==
    /\ kills < MaxKills /\ kills' = kills + 1
    /\ pc[x] \notin {"off", "ended"}
    /\ Leave(x)
    /\ stopped' = stopped \ {x}
    /\ \/ /\ x \in Run
          /\ Tell(IF x = unit THEN {"bridge", "notifier"} ELSE {}, x)
          /\ late' = late \cup {r \in {x} : Unseen(r) \/ (Orphan(r) /\ Observation)}
       \/ /\ x \in Command
          /\ UNCHANGED <<told, late>>
    /\ UNCHANGED <<names, unit, bridge, notifier, serves, bridgeEnd, notifierEnd>>

KillChild(r) ==
    /\ kills < MaxKills /\ kills' = kills + 1
    /\ \/ /\ bridge[r] \notin Over
          /\ BridgeAt(r, "gone")
          /\ UNCHANGED <<notifier, serves, nlock>>
       \/ /\ notifier[r] \notin Over
          /\ NotifierAt(r, "gone")
          /\ nlock' = IF notifier[r] = "starting" THEN nlock ELSE None
          /\ UNCHANGED bridge
    /\ UNCHANGED <<pc, op, life, reg, sup, names, managed, bridgeEnd, notifierEnd, late>>

-----------------------------------------------------------------------------
CommandStep(c) ==
    \/ Register(c) \/ Observe(c)
    \/ Rename(c) \/ Report(c)
    \/ EnsureUnlocks(c) \/ StartUnit(c) \/ EnsureReady(c)
    \/ StopUnit(c) \/ UnitStopped(c)
    \/ TellNotifier(c) \/ TellBridge(c) \/ Confirm(c)

RunStep(r) ==
    \/ Register(r) \/ Observe(r) \/ RunUnlocks(r) \/ TakeSupervisor(r)
    \/ SpawnBridge(r) \/ SpawnNotifier(r) \/ Running(r) \/ Unwind(r)
    \/ EndNotifier(r) \/ EndBridge(r)

Family(r) == RunStep(r) \/ BridgeStep(r) \/ NotifierStep(r)

Terminated ==
    /\ \A c \in Command : pc[c] = "ended"
    /\ \A r \in Run : pc[r] \in {"running", "ended"}
    /\ UNCHANGED vars

Next ==
    \/ \E c \in Command : \/ \E o \in Ops : Begin(c, o)
                          \/ CommandStep(c)
                          \/ EnsureDeadline(c) \/ StopDeadline(c)
    \/ \E r \in Run : BeginRun(r) \/ Family(r) \/ StartDeadline(r) \/ KillChild(r)
    \/ \E x \in Process : Kill(x)
    \/ Terminated

(* Processes run, and blocking requests and waits for a process end.  One  *)
(* command at a time has lifecycle.lock, and runs and their children take  *)
(* finitely many steps: fairness to all of them together is fairness to    *)
(* each.  Nothing obliges a command, a start by hand, a death or a         *)
(* deadline.                                                               *)
Spec ==
    /\ Init /\ [][Next]_vars
    /\ WF_vars(\E c \in Command : CommandStep(c))
    /\ WF_vars(\E r \in Run : Family(r))

-----------------------------------------------------------------------------
(* A session is taken for stopped only when none of its processes is left: *)
(* supervisor.lock is free and still held by the probe, so every           *)
(* supervisor is over, and so are its children, those of a killed          *)
(* supervisor included.  The exception is a supervisor killed while a      *)
(* child had nothing to show yet, or in the middle of the observation.     *)
ObservedStopped ==
    \A x \in Process, r \in Run : pc[x] = "seen" =>
        /\ pc[r] \notin Supervising
        /\ r \notin late => bridge[r] \in Over /\ notifier[r] \in Over

Waiting == \E c \in Command : pc[c] \in {"wait", "join"}

(* An ensure that waits is not what its own unit waits for: without its    *)
(* deadline it still ends, or the unit's run does.                         *)
EnsureCompletes == Waiting ~> (~Waiting \/ ~UnitActive)

(* While ensure waits for the run it started, that run's name stays the    *)
(* registered one: no rename gets between its registration and its start.  *)
ManagedStartKeepsName ==
    \A c \in Command : pc[c] = "wait" => runName[unit] \in {0, name}
=============================================================================
