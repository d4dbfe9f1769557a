--------------------------- MODULE SessionProofs ---------------------------
(***************************************************************************)
(* Proofs about the managed session: who holds which lock is decided by    *)
(* where each process is, and what an observer has already looked at stays *)
(* true until it has seen everything.                                      *)
(***************************************************************************)
EXTENDS Session, TLAPS

(* The places of a process that has registration.lock, of a command, of a  *)
(* run, and of a run that has no child yet.                                *)
Registered == {"status", "unit wait", "tell notifier", "tell bridge"} \cup Observing \cup Decided
CommandPlaces == {"off", "reg", "start", "wait", "join", "ended"} \cup Registered
Early == {"off", "reg", "status", "sup", "check"} \cup Observing \cup Decided
RunPlaces == Early \cup Supervising \cup {"ended"}

Places ==
    /\ \A c \in Command : pc[c] \in CommandPlaces
    /\ \A r \in Run : pc[r] \in RunPlaces

(* Each lock is held exactly at the places of its protocol.                *)
LocksHeld ==
    /\ \A c \in Command : life = c <=> pc[c] \notin {"off", "ended"}
    /\ \A x \in Process : reg = x <=> pc[x] \in Registered
    /\ \A x \in Process : sup = x <=> pc[x] \in Supervising \cup {"seen"}

(* Which children a run can have, and what shows of them.                  *)
ChildrenShow ==
    \A r \in Run :
        /\ pc[r] \in Early => bridge[r] = "none"
        /\ pc[r] \in Early \cup {"wait bridge"} => notifier[r] = "none"
        /\ pc[r] = "end bridge" => notifier[r] \in Over
        /\ bridge[r] \in {"bound", "up"} => bridgeEnd = r
        /\ notifier[r] \in {"locked", "up", "closing"} => nlock = r
        /\ pc[r] = "ended" /\ r \notin late => ~Unseen(r)

(* What an observer has looked at so far.                                  *)
Looked ==
    \A x \in Process :
        /\ pc[x] = "slock" => nlock = x
        /\ pc[x] \in {"notifier", "nlock", "slock", "seen"} =>
             \A r \in Run : pc[r] = "ended" /\ r \notin late => bridge[r] \in Over
        /\ pc[x] \in {"slock", "seen"} =>
             \A r \in Run : pc[r] = "ended" /\ r \notin late => notifier[r] \in Over

(* A run reads the name when it registers, and an ensure waits for a run.  *)
NamesRead ==
    /\ name = 0 => \A r \in Run : runName[r] = 0
    /\ \A r \in Run : pc[r] \in {"off", "reg"} => runName[r] = 0
    /\ \A c \in Command : pc[c] = "wait" => unit \in Run

(* A stop that waits for the unit waits only for processes that know of    *)
(* it: the supervisor was signalled or is over, and so is each child.      *)
StopReachesUnit ==
    \A c \in Command : pc[c] = "unit wait" =>
        /\ unit \in Run
        /\ pc[unit] = "ended" \/ (unit \in stopped /\ pc[unit] \in Supervising \ {"check"})
        /\ bridge[unit] \in Over \/ <<"bridge", unit>> \in told
        /\ notifier[unit] \in Over \/ <<"notifier", unit>> \in told

SessionInv ==
    /\ SessionTypeOK /\ Places /\ LocksHeld /\ ChildrenShow /\ Looked
    /\ NamesRead /\ ManagedStartKeepsName /\ StopReachesUnit

-----------------------------------------------------------------------------
\* Every place of a command or a run is one that pc may have.
LEMMA PlacesTyped ==
    ASSUME NEW f \in [Process -> CommandPlaces \cup RunPlaces]
    PROVE  f \in [Process -> {"off", "reg", "status", "not stopped", "stopped", "unit wait",
                              "tell notifier", "tell bridge", "start", "wait", "join", "sup", "ended"}
                              \cup Observing \cup Supervising]
  BY ZenonT(40) DEF CommandPlaces, RunPlaces, Registered, Early, Decided, Observing, Supervising

\* The session invariant holds before any process has started.
LEMMA SessionStarts == Init => SessionInv
  <1>. SUFFICES ASSUME Init PROVE SessionInv
    OBVIOUS
  <1>. USE SessionAssumption DEF Init
  <1>1. /\ \A x \in Process : pc[x] = "off" /\ x # None
        /\ \A r \in Run : r \in Process /\ bridge[r] = "none" /\ notifier[r] = "none" /\ runName[r] = 0
        /\ \A c \in Command : c \in Process
    BY DEF Process
  <1>2. SessionTypeOK
    BY DEF SessionTypeOK, Process
  <1>3. Places /\ LocksHeld
    BY <1>1 DEF Places, LocksHeld, CommandPlaces, RunPlaces, Early, Registered, Observing, Decided,
                Supervising
  <1>4. ChildrenShow /\ Looked
    BY <1>1 DEF ChildrenShow, Looked, Unseen
  <1>5. NamesRead /\ ManagedStartKeepsName /\ StopReachesUnit
    BY <1>1 DEF NamesRead, ManagedStartKeepsName, StopReachesUnit
  <1>. QED
    BY <1>2, <1>3, <1>4, <1>5 DEF SessionInv

\* A process walks on: no lock changes hands, no child changes, and what it has
\* looked at on its way is so.  A command may have told children to stop and, since
\* no other command is under way, may have given up the unit.
LEMMA WalkKeeps ==
    ASSUME SessionInv, NEW x \in Process, NEW q,
           pc[x] \notin {"off", "reg", "ended"}, Goto(x, q),
           q \notin {"off", "reg", "wait", "unit wait", "slock", "seen", "ended"},
           x \in Command => q \in CommandPlaces,
           x \in Run => q \in Supervising \/ (pc[x] \in Early /\ q \in Early),
           x \in Run /\ q = "end bridge" => notifier[x] \in Over,
           x \in Run /\ q = "wait bridge" => notifier[x] = "none",
           x \in Run /\ pc[x] \in Supervising \ {"check"} => q \in Supervising \ {"check"},
           pc[x] \in Registered <=> q \in Registered,
           pc[x] \in Supervising \cup {"seen"} <=> q \in Supervising,
           q \in {"notifier", "nlock"} =>
               \A r \in Run : pc[r] = "ended" /\ r \notin late => bridge[r] \in Over,
           op' \in [Process -> Ops \cup {"none", "confirm"}],
           told \subseteq told', told' \subseteq {"bridge", "notifier"} \X Run,
           unit' \in Run \cup {None}, x \in Run => unit' = unit,
           UNCHANGED <<locks, names, stopped, bridge, notifier, serves, bridgeEnd,
                       notifierEnd, faults>>
    PROVE  SessionInv'
  <1>. USE SessionAssumption DEF Process
  <1>0. /\ pc \in [Process -> CommandPlaces \cup RunPlaces]
        /\ q \in CommandPlaces \cup RunPlaces
    BY DEF SessionInv, SessionTypeOK, Places, CommandPlaces, RunPlaces, Registered, Early,
           Observing, Decided, Supervising
  <1>1. /\ pc' \in [Process -> CommandPlaces \cup RunPlaces] /\ pc'[x] = q
        /\ \A y \in Process : y # x => pc'[y] = pc[y]
    BY <1>0 DEF Goto
  <1>2. SessionTypeOK'
    BY <1>1, PlacesTyped DEF SessionInv, SessionTypeOK, locks, names, faults
  <1>3. Places'
    BY <1>1 DEF SessionInv, Places, RunPlaces
  <1>4. LocksHeld'
    BY <1>1 DEF SessionInv, LocksHeld, locks
  <1>5. ChildrenShow'
    BY ZenonT(40), <1>1 DEF SessionInv, ChildrenShow, Unseen, locks, faults, Supervising, Early, Observing, Decided
  <1>6. Looked'
    BY <1>1 DEF SessionInv, Looked, locks, faults
  <1>7. \A c \in Command : pc'[c] \in {"wait", "unit wait"} => pc[c] = pc'[c] /\ unit' = unit
    BY <1>1 DEF SessionInv, LocksHeld
  <1>8. NamesRead' /\ ManagedStartKeepsName'
    BY <1>1, <1>7 DEF SessionInv, NamesRead, ManagedStartKeepsName, names
  <1>9. StopReachesUnit'
    BY <1>1, <1>7 DEF SessionInv, StopReachesUnit
  <1>. QED
    BY <1>2, <1>3, <1>4, <1>5, <1>6, <1>8, <1>9 DEF SessionInv

\* A command leaves, or is killed: it frees what it holds, and nobody waits any more.
\* A rename may have saved another name first.
LEMMA CommandLeaves ==
    ASSUME SessionInv, NEW c \in Command, pc[c] \notin {"off", "ended"}, Leave(c),
           name' \in 0..MaxName, name' = 0 => name = 0, kills' \in 0..MaxKills,
           UNCHANGED <<runName, managed, children, late>>
    PROVE  SessionInv'
  <1>. USE SessionAssumption DEF Process
  <1>0. pc \in [Process -> CommandPlaces \cup RunPlaces]
    BY DEF SessionInv, SessionTypeOK, Places
  <1>1. /\ pc' \in [Process -> CommandPlaces \cup RunPlaces] /\ pc'[c] = "ended"
        /\ \A y \in Process : y # c => pc'[y] = pc[y]
    BY <1>0 DEF Leave, Goto, CommandPlaces
  <1>2. /\ life' = None
        /\ reg' = Freed(reg, c) /\ sup' = Freed(sup, c)
        /\ nlock' = IF pc[c] = "slock" THEN None ELSE nlock
        /\ op' \in [Process -> Ops \cup {"none", "confirm"}]
    BY DEF Leave, Release, Freed, SessionInv, SessionTypeOK, LocksHeld
  <1>3. SessionTypeOK'
    BY <1>1, <1>2, PlacesTyped DEF SessionInv, SessionTypeOK, managed, children, Freed
  <1>4. Places'
    BY <1>1 DEF SessionInv, Places, CommandPlaces
  <1>5. \A d \in Command : pc'[d] \in {"off", "ended"}
    BY <1>1 DEF SessionInv, LocksHeld
  <1>6. LocksHeld'
    <2>1. \A d \in Command : (life = d <=> pc[d] \notin {"off", "ended"})'
      BY <1>2, <1>5
    <2>2. \A y \in Process : (reg = y <=> pc[y] \in Registered)'
      BY <1>1, <1>2 DEF SessionInv, LocksHeld, Freed, Registered, Observing, Decided
    <2>3. \A y \in Process : (sup = y <=> pc[y] \in Supervising \cup {"seen"})'
      BY <1>1, <1>2 DEF SessionInv, LocksHeld, Freed, Supervising
    <2>. QED  BY <2>1, <2>2, <2>3 DEF LocksHeld
  <1>7. ChildrenShow'
    BY <1>1, <1>2 DEF SessionInv, ChildrenShow, Looked, Unseen, children
  <1>8. Looked'
    BY <1>1, <1>2 DEF SessionInv, Looked, children
  <1>9. NamesRead' /\ ManagedStartKeepsName' /\ StopReachesUnit'
    BY <1>1, <1>5 DEF SessionInv, NamesRead, ManagedStartKeepsName, StopReachesUnit
  <1>. QED
    BY <1>3, <1>4, <1>6, <1>7, <1>8, <1>9 DEF SessionInv

\* A run ends: it frees what it holds.  It leaves no child, or counts as late, or it
\* leaves children that show while nobody observes.
LEMMA RunLeaves ==
    ASSUME SessionInv, NEW r \in Run, pc[r] \notin {"off", "ended"}, Goto(r, "ended"),
           life' = Freed(life, r), reg' = Freed(reg, r), sup' = Freed(sup, r),
           nlock' = (IF pc[r] = "slock" THEN None ELSE nlock),
           op' \in [Process -> Ops \cup {"none", "confirm"}],
           late \subseteq late', late' \subseteq Run, kills' \in 0..MaxKills,
           r \in late' \/ (bridge[r] \in Over /\ notifier[r] \in Over)
                       \/ (~Unseen(r) /\ ~Observation),
           stopped' \in {stopped, stopped \ {r}},
           told \subseteq told', told' \subseteq {"bridge", "notifier"} \X Run,
           UNCHANGED <<names, unit, bridge, notifier, serves, bridgeEnd, notifierEnd>>
    PROVE  SessionInv'
  <1>. USE SessionAssumption DEF Process
  <1>0. pc \in [Process -> CommandPlaces \cup RunPlaces]
    BY DEF SessionInv, SessionTypeOK, Places
  <1>1. /\ pc' \in [Process -> CommandPlaces \cup RunPlaces] /\ pc'[r] = "ended"
        /\ \A y \in Process : y # r => pc'[y] = pc[y]
    BY <1>0 DEF Goto, CommandPlaces
  <1>2. life' = life
    BY DEF Freed, SessionInv, SessionTypeOK
  <1>3. SessionTypeOK'
    BY ZenonT(40), <1>1, <1>2, PlacesTyped DEF SessionInv, SessionTypeOK, names, Freed
  <1>4. Places'
    BY <1>1 DEF SessionInv, Places, RunPlaces
  <1>5. LocksHeld'
    <2>1. \A d \in Command : (life = d <=> pc[d] \notin {"off", "ended"})'
      BY <1>1, <1>2 DEF SessionInv, LocksHeld
    <2>2. \A y \in Process : (reg = y <=> pc[y] \in Registered)'
      BY <1>1, <1>2 DEF SessionInv, LocksHeld, Freed, Registered, Observing, Decided
    <2>3. \A y \in Process : (sup = y <=> pc[y] \in Supervising \cup {"seen"})'
      BY <1>1, <1>2 DEF SessionInv, LocksHeld, Freed, Supervising
    <2>. QED  BY <2>1, <2>2, <2>3 DEF LocksHeld
  <1>6. pc[r] = "slock" => \A q \in Run : notifier[q] \notin {"locked", "up", "closing"}
    BY DEF SessionInv, ChildrenShow, Looked, Early, Observing
  <1>7. ChildrenShow'
    BY <1>1, <1>2, <1>6
    DEF SessionInv, ChildrenShow, Unseen, Over, Early, Observing, Decided
  <1>8. Looked'
    <2>1. \A y \in Process : pc'[y] \in Observing => y # r /\ pc[y] = pc'[y] /\ pc[r] \notin Observing
      BY <1>1 DEF SessionInv, LocksHeld, Registered, Observing
    <2>2. (\E y \in Process : pc'[y] \in Observing) => r \in late' \/ (bridge[r] \in Over /\ notifier[r] \in Over)
      BY <2>1 DEF Observation
    <2>3. \A y \in Process : pc'[y] = "slock" => nlock' = y
      BY <1>2, <2>1 DEF SessionInv, Looked, Observing
    <2>4. ASSUME NEW y \in Process, pc'[y] \in {"notifier", "nlock", "slock", "seen"}, NEW q \in Run,
                 pc'[q] = "ended", q \notin late'
          PROVE  bridge'[q] \in Over /\ (pc'[y] \in {"slock", "seen"} => notifier'[q] \in Over)
      <3>1. pc[y] = pc'[y] /\ (r \in late' \/ (bridge[r] \in Over /\ notifier[r] \in Over))
        BY <2>1, <2>2, <2>4 DEF Observing
      <3>2. CASE q = r
        BY <2>4, <3>1, <3>2
      <3>3. CASE q # r
        BY <1>1, <2>4, <3>1, <3>3 DEF SessionInv, Looked
      <3>. QED  BY <3>2, <3>3
    <2>. QED  BY <2>3, <2>4 DEF Looked
  <1>9. NamesRead' /\ ManagedStartKeepsName'
    BY <1>1 DEF SessionInv, NamesRead, ManagedStartKeepsName, names
  <1>10. StopReachesUnit'
    BY <1>1 DEF SessionInv, StopReachesUnit
  <1>. QED
    BY <1>3, <1>4, <1>5, <1>7, <1>8, <1>9, <1>10 DEF SessionInv

\* A bridge moves on: it takes the endpoint when nobody has it, or keeps it, or is over.
LEMMA BridgeMoves ==
    ASSUME SessionInv, NEW r \in Run, NEW l \in {"bound", "up", "gone"},
           bridge[r] \notin Over, BridgeAt(r, l),
           bridgeEnd' \in Run \cup {None}, l # "gone" => bridgeEnd' = r,
           \A q \in Run \ {r} : bridge[q] \in {"bound", "up"} => bridgeEnd' = bridgeEnd,
           kills' \in 0..MaxKills,
           l # "gone" => \A q \in Run \ {r} : bridge[q] \notin {"bound", "up"},
           UNCHANGED <<pc, op, locks, names, managed, notifier, serves, notifierEnd, late>>
    PROVE  SessionInv'
  <1>. USE SessionAssumption DEF Process
  <1>1. /\ bridge' \in [Run -> {"none", "starting", "bound", "up", "gone"}] /\ bridge'[r] = l
        /\ \A q \in Run : q # r => bridge'[q] = bridge[q]
        /\ told' \subseteq told
        /\ \A t \in told : t # <<"bridge", r>> => t \in told'
        /\ <<"bridge", r>> \in told => l = "gone" \/ <<"bridge", r>> \in told'
    BY DEF SessionInv, SessionTypeOK, BridgeAt
  <1>2. SessionTypeOK'
    BY <1>1 DEF SessionInv, SessionTypeOK, locks, names, managed
  <1>3. Places' /\ LocksHeld' /\ NamesRead' /\ ManagedStartKeepsName'
    BY DEF SessionInv, Places, LocksHeld, NamesRead, ManagedStartKeepsName, locks, names, managed
  <1>4. ChildrenShow'
    BY <1>1 DEF SessionInv, ChildrenShow, Unseen, Over, locks
  <1>5. Looked'
    BY <1>1 DEF SessionInv, Looked, Over, locks
  <1>6. StopReachesUnit'
    <2>. SUFFICES ASSUME NEW c \in Command, pc[c] = "unit wait"
                  PROVE  /\ bridge'[unit] \in Over \/ <<"bridge", unit>> \in told'
                         /\ notifier[unit] \in Over \/ <<"notifier", unit>> \in told'
      BY DEF SessionInv, StopReachesUnit, managed
    <2>1. /\ unit \in Run
          /\ bridge[unit] \in Over \/ <<"bridge", unit>> \in told
          /\ notifier[unit] \in Over \/ <<"notifier", unit>> \in told
      BY DEF SessionInv, StopReachesUnit
    <2>2. <<"notifier", unit>> # <<"bridge", r>> /\ (unit # r => <<"bridge", unit>> # <<"bridge", r>>)
      OBVIOUS
    <2>. QED  BY <1>1, <2>1, <2>2 DEF Over
  <1>. QED
    BY <1>2, <1>3, <1>4, <1>5, <1>6 DEF SessionInv

\* A notifier moves on: it takes notifier.lock when nobody has it, keeps it, or is over.
LEMMA NotifierMoves ==
    ASSUME SessionInv, NEW r \in Run, NEW l \in {"locked", "up", "closing", "gone"},
           notifier[r] \notin Over, NotifierAt(r, l),
           nlock' \in Process \cup {None}, l # "gone" => nlock' = r,
           nlock' = nlock \/ nlock \in {None, r},
           notifierEnd' \in Run \cup {None}, kills' \in 0..MaxKills,
           UNCHANGED <<pc, op, life, reg, sup, names, managed, bridge, bridgeEnd, late>>
    PROVE  SessionInv'
  <1>. USE SessionAssumption DEF Process
  <1>1. /\ notifier' \in [Run -> {"none", "starting", "locked", "up", "closing", "gone"}]
        /\ notifier'[r] = l
        /\ \A q \in Run : q # r => notifier'[q] = notifier[q]
        /\ serves' \in [Run -> Run \cup {None}]
        /\ told' \subseteq told
        /\ \A t \in told : t # <<"notifier", r>> => t \in told'
        /\ <<"notifier", r>> \in told => l = "gone" \/ <<"notifier", r>> \in told'
    BY DEF SessionInv, SessionTypeOK, NotifierAt
  <1>2. SessionTypeOK'
    BY ZenonT(40), <1>1 DEF SessionInv, SessionTypeOK, names, managed
  <1>3. Places' /\ LocksHeld' /\ NamesRead' /\ ManagedStartKeepsName'
    BY DEF SessionInv, Places, LocksHeld, NamesRead, ManagedStartKeepsName, names, managed
  <1>4. pc[r] \notin Early
    BY DEF SessionInv, ChildrenShow, Over
  <1>5. ChildrenShow'
    BY <1>1 DEF SessionInv, ChildrenShow, Unseen, Over
  <1>6. Looked'
    BY <1>1, <1>4 DEF SessionInv, Looked, Over, Early, Observing
  <1>7. StopReachesUnit'
    <2>. SUFFICES ASSUME NEW c \in Command, pc[c] = "unit wait"
                  PROVE  /\ bridge[unit] \in Over \/ <<"bridge", unit>> \in told'
                         /\ notifier'[unit] \in Over \/ <<"notifier", unit>> \in told'
      BY DEF SessionInv, StopReachesUnit, managed
    <2>1. /\ unit \in Run
          /\ bridge[unit] \in Over \/ <<"bridge", unit>> \in told
          /\ notifier[unit] \in Over \/ <<"notifier", unit>> \in told
      BY DEF SessionInv, StopReachesUnit
    <2>2. <<"bridge", unit>> # <<"notifier", r>> /\ (unit # r => <<"notifier", unit>> # <<"notifier", r>>)
      OBVIOUS
    <2>. QED  BY <1>1, <2>1, <2>2 DEF Over
  <1>. QED
    BY <1>2, <1>3, <1>5, <1>6, <1>7 DEF SessionInv

-----------------------------------------------------------------------------
\* A command takes lifecycle.lock.
LEMMA BeginKeeps ==
    ASSUME SessionInv, NEW c \in Command, NEW o \in Ops, Begin(c, o)
    PROVE  SessionInv'
  <1>. USE SessionAssumption DEF Process
  <1>1. /\ pc' \in [Process -> CommandPlaces \cup RunPlaces] /\ pc[c] = "off" /\ pc'[c] = "reg"
        /\ \A y \in Process : y # c => pc'[y] = pc[y]
    BY DEF Begin, IsNext, Goto, CommandPlaces, SessionInv, SessionTypeOK, Places
  <1>2. UNCHANGED <<reg, sup, nlock, names, managed, children, faults>> /\ life' = c /\ life = None
    BY DEF Begin
  <1>3. SessionTypeOK'
    BY <1>1, PlacesTyped DEF Begin, SessionInv, SessionTypeOK, names, managed, children, faults
  <1>4. Places'
    BY <1>1 DEF SessionInv, Places, CommandPlaces
  <1>5. LocksHeld'
    <2>1. \A d \in Command : (life = d <=> pc[d] \notin {"off", "ended"})'
      BY <1>1, <1>2 DEF SessionInv, LocksHeld
    <2>2. \A y \in Process : (reg = y <=> pc[y] \in Registered)'
      BY <1>1, <1>2 DEF SessionInv, LocksHeld, Registered, Observing, Decided
    <2>3. \A y \in Process : (sup = y <=> pc[y] \in Supervising \cup {"seen"})'
      BY <1>1, <1>2 DEF SessionInv, LocksHeld, Supervising
    <2>. QED  BY <2>1, <2>2, <2>3 DEF LocksHeld
  <1>6. ChildrenShow' /\ Looked'
    BY <1>1, <1>2 DEF SessionInv, ChildrenShow, Looked, Unseen, children, faults
  <1>7. NamesRead' /\ ManagedStartKeepsName' /\ StopReachesUnit'
    BY <1>1, <1>2 DEF SessionInv, NamesRead, ManagedStartKeepsName, StopReachesUnit, names, managed, children
  <1>. QED
    BY <1>3, <1>4, <1>5, <1>6, <1>7 DEF SessionInv

\* A run that begins holds nothing yet; it may be the unit's next run.
LEMMA BeginRunKeeps ==
    ASSUME SessionInv, NEW r \in Run, BeginRun(r)
    PROVE  SessionInv'
  <1>. USE SessionAssumption DEF Process
  <1>1. /\ pc' \in [Process -> CommandPlaces \cup RunPlaces] /\ pc[r] = "off" /\ pc'[r] = "reg"
        /\ \A y \in Process : y # r => pc'[y] = pc[y]
    BY DEF BeginRun, IsNext, Goto, CommandPlaces, SessionInv, SessionTypeOK, Places
  <1>2. /\ UNCHANGED <<op, locks, names, stopped, children, faults>>
        /\ unit' = unit \/ (unit' = r /\ \A c \in Command : pc[c] # "unit wait")
    BY Zenon DEF BeginRun
  <1>3. SessionTypeOK'
    BY <1>1, <1>2, PlacesTyped DEF SessionInv, SessionTypeOK, locks, names, children, faults
  <1>4. Places'
    BY <1>1 DEF SessionInv, Places, RunPlaces, Early
  <1>5. LocksHeld'
    <2>1. \A d \in Command : (life = d <=> pc[d] \notin {"off", "ended"})'
      BY <1>1, <1>2 DEF SessionInv, LocksHeld, locks
    <2>2. \A y \in Process : (reg = y <=> pc[y] \in Registered)'
      BY <1>1, <1>2 DEF SessionInv, LocksHeld, Registered, Observing, Decided, locks
    <2>3. \A y \in Process : (sup = y <=> pc[y] \in Supervising \cup {"seen"})'
      BY <1>1, <1>2 DEF SessionInv, LocksHeld, Supervising, locks
    <2>. QED  BY <2>1, <2>2, <2>3 DEF LocksHeld
  <1>6. ChildrenShow' /\ Looked'
    BY <1>1, <1>2 DEF SessionInv, ChildrenShow, Looked, Unseen, locks, children, faults, Early
  <1>7. NamesRead' /\ ManagedStartKeepsName'
    BY <1>1, <1>2 DEF SessionInv, NamesRead, ManagedStartKeepsName, names
  <1>8. StopReachesUnit'
    BY <1>1, <1>2 DEF SessionInv, StopReachesUnit, children, Supervising
  <1>. QED
    BY <1>3, <1>4, <1>5, <1>6, <1>7, <1>8 DEF SessionInv

\* Registration: the lock is taken, and a run reads the name.
LEMMA RegisterKeeps ==
    ASSUME SessionInv, NEW x \in Process, Register(x)
    PROVE  SessionInv'
  <1>. USE SessionAssumption DEF Process
  <1>1. /\ pc' \in [Process -> CommandPlaces \cup RunPlaces] /\ pc[x] = "reg" /\ pc'[x] = "status"
        /\ \A y \in Process : y # x => pc'[y] = pc[y]
    BY DEF Register, Goto, CommandPlaces, Registered, SessionInv, SessionTypeOK, Places
  <1>2. /\ op' = op /\ life' = life /\ sup' = sup /\ nlock' = nlock /\ reg = None /\ reg' = x
        /\ UNCHANGED <<managed, children, faults>>
    BY Zenon DEF Register
  <1>3. name \in 0..MaxName /\ name' \in 0..MaxName /\ name' # 0 /\ (name # 0 => name' = name)
    <2>1. name \in 0..MaxName /\ name' = IF name = 0 THEN 1 ELSE name
      BY Zenon DEF Register, SessionInv, SessionTypeOK
    <2>. QED  BY <2>1
  <1>4. /\ runName' \in [Run -> 0..MaxName]
        /\ \A r \in Run : r # x => runName'[r] = runName[r]
        /\ x \in Run => runName'[x] = name'
    <2>1. runName \in [Run -> 0..MaxName] /\ runName' = IF x \in Run THEN [runName EXCEPT ![x] = name'] ELSE runName
      BY Zenon DEF Register, SessionInv, SessionTypeOK
    <2>. QED  BY <1>3, <2>1
  <1>5. SessionTypeOK'
    BY <1>1, <1>2, <1>3, <1>4, PlacesTyped DEF SessionInv, SessionTypeOK, managed, children, faults
  <1>6. Places'
    BY <1>1 DEF SessionInv, Places, CommandPlaces, Registered, RunPlaces, Early
  <1>7. LocksHeld'
    <2>1. \A d \in Command : (life = d <=> pc[d] \notin {"off", "ended"})'
      BY <1>1, <1>2 DEF SessionInv, LocksHeld
    <2>2. \A y \in Process : (reg = y <=> pc[y] \in Registered)'
      BY <1>1, <1>2 DEF SessionInv, LocksHeld, Registered
    <2>3. \A y \in Process : (sup = y <=> pc[y] \in Supervising \cup {"seen"})'
      BY <1>1, <1>2 DEF SessionInv, LocksHeld, Supervising
    <2>. QED  BY <2>1, <2>2, <2>3 DEF LocksHeld
  <1>8. ChildrenShow' /\ Looked'
    BY <1>1, <1>2 DEF SessionInv, ChildrenShow, Looked, Unseen, children, faults, Early
  <1>9. ASSUME NEW r \in Run, runName[r] \in {0, name}
        PROVE  runName'[r] \in {0, name'}
    <2>1. CASE name = 0
      <3>1. runName[r] = 0
        BY <2>1 DEF SessionInv, NamesRead
      <3>. QED  BY <1>4, <3>1, Zenon
    <2>2. CASE name # 0
      <3>1. name' = name
        BY <1>3, <2>2
      <3>. QED  BY <1>4, <1>9, <3>1, Zenon
    <2>. QED  BY <2>1, <2>2
  <1>10. NamesRead'
    <2>1. \A r \in Run : pc'[r] \in {"off", "reg"} => runName'[r] = 0
      <3>1. \A r \in Run : pc'[r] \in {"off", "reg"} => r # x /\ pc[r] \in {"off", "reg"}
        BY <1>1
      <3>. QED  BY <1>4, <3>1, Zenon DEF SessionInv, NamesRead
    <2>2. \A c \in Command : pc'[c] = "wait" => unit' \in Run
      BY <1>1, <1>2 DEF SessionInv, NamesRead, managed
    <2>. QED  BY <1>3, <2>1, <2>2 DEF NamesRead
  <1>11. ManagedStartKeepsName'
    <2>1. \A c \in Command : pc'[c] = "wait" => unit \in Run /\ runName[unit] \in {0, name}
      BY <1>1 DEF SessionInv, NamesRead, ManagedStartKeepsName
    <2>2. unit' = unit
      BY <1>2 DEF managed
    <2>. QED  BY <1>9, <2>1, <2>2 DEF ManagedStartKeepsName
  <1>12. StopReachesUnit'
    BY <1>1, <1>2 DEF SessionInv, StopReachesUnit, managed, children, Supervising
  <1>. QED
    BY <1>5, <1>6, <1>7, <1>8, <1>12, <1>10, <1>11 DEF SessionInv

\* The first looks: the bridge, then its endpoint.  Without an endpoint no bridge is left
\* that could still show.
LEMMA LooksKeep ==
    ASSUME SessionInv, NEW x \in Process, AskBridge(x) \/ LookBridge(x) \/ LookNotifier(x)
    PROVE  SessionInv'
  <1>. USE SessionAssumption DEF Process
  <1>1. /\ op' \in [Process -> Ops \cup {"none", "confirm"}]
        /\ told \subseteq told' /\ told' \subseteq {"bridge", "notifier"} \X Run
        /\ unit' \in Run \cup {None} /\ unit' = unit
        /\ UNCHANGED <<locks, names, stopped, bridge, notifier, serves, bridgeEnd, notifierEnd, faults>>
    BY DEF AskBridge, LookBridge, LookNotifier, LookAt, managed, children, SessionInv, SessionTypeOK
  <1>2. PICK q : Goto(x, q) /\ \/ pc[x] = "status" /\ q \in {"not stopped", "bridge"}
                               \/ pc[x] = "bridge" /\ q = "not stopped"
                               \/ pc[x] = "bridge" /\ q = "notifier" /\ bridgeEnd = None
                               \/ pc[x] = "notifier" /\ q \in {"not stopped", "nlock"}
    BY Zenon DEF AskBridge, LookBridge, LookNotifier, LookAt
  <1>3. q = "notifier" => \A r \in Run : pc[r] = "ended" /\ r \notin late => bridge[r] \in Over
    BY ZenonT(40), <1>2 DEF SessionInv, SessionTypeOK, ChildrenShow, Unseen, Over
  <1>4. q = "nlock" => \A r \in Run : pc[r] = "ended" /\ r \notin late => bridge[r] \in Over
    BY <1>2 DEF SessionInv, Looked
  <1>. QED
    BY <1>1, <1>2, <1>3, <1>4, WalkKeeps
    DEF CommandPlaces, Registered, Early, Observing, Decided, Supervising

\* The probe of notifier.lock: a process that gets it has seen that no notifier holds it.
LEMMA ProbeNotifierKeeps ==
    ASSUME SessionInv, NEW x \in Process, ProbeNotifier(x)
    PROVE  SessionInv'
  <1>. USE SessionAssumption DEF Process
  <1>1. CASE Goto(x, "not stopped") /\ UNCHANGED nlock
    <2>1. /\ op' \in [Process -> Ops \cup {"none", "confirm"}]
          /\ told \subseteq told' /\ told' \subseteq {"bridge", "notifier"} \X Run
          /\ unit' \in Run \cup {None} /\ unit' = unit
          /\ UNCHANGED <<locks, names, stopped, bridge, notifier, serves, bridgeEnd, notifierEnd, faults>>
      BY <1>1 DEF ProbeNotifier, managed, children, locks, SessionInv, SessionTypeOK
    <2>. QED
      BY <1>1, <2>1, WalkKeeps
      DEF ProbeNotifier, CommandPlaces, Registered, Early, Observing, Decided, Supervising
  <1>2. CASE nlock = None /\ nlock' = x /\ Goto(x, "slock")
    <2>1. /\ pc' \in [Process -> CommandPlaces \cup RunPlaces] /\ pc[x] = "nlock" /\ pc'[x] = "slock"
          /\ \A y \in Process : y # x => pc'[y] = pc[y]
      BY <1>2 DEF ProbeNotifier, Goto, CommandPlaces, Registered, Observing, SessionInv, SessionTypeOK, Places
    <2>2. UNCHANGED <<op, life, reg, sup, names, managed, children, faults>>
      BY DEF ProbeNotifier
    <2>3. SessionTypeOK'
      BY ZenonT(40), <1>2, <2>1, <2>2, PlacesTyped DEF SessionInv, SessionTypeOK, names, managed, children, faults
    <2>4. Places' /\ LocksHeld'
      BY <2>1, <2>2 DEF SessionInv, Places, LocksHeld, CommandPlaces, Registered, Observing, RunPlaces,
                        Early, Supervising
    <2>5. \A r \in Run : notifier[r] \notin {"locked", "up", "closing"}
      BY <1>2 DEF SessionInv, ChildrenShow
    <2>6. ChildrenShow'
      BY <2>1, <2>2, <2>5 DEF SessionInv, ChildrenShow, Unseen, children, faults, Early, Observing
    <2>7. \A y \in Process : pc'[y] \in Observing => y = x
      BY <2>1 DEF SessionInv, LocksHeld, Registered, Observing
    <2>8. \A r \in Run : pc[r] = "ended" /\ r \notin late => bridge[r] \in Over /\ notifier[r] \in Over
      BY <2>1, <2>5 DEF SessionInv, SessionTypeOK, Looked, ChildrenShow, Unseen, Over
    <2>9. Looked'
      BY <1>2, <2>1, <2>2, <2>7, <2>8 DEF Looked, children, faults, Observing
    <2>10. NamesRead' /\ ManagedStartKeepsName' /\ StopReachesUnit'
      BY <2>1, <2>2 DEF SessionInv, NamesRead, ManagedStartKeepsName, StopReachesUnit, names, managed,
                        children, Supervising
    <2>. QED
      BY <2>3, <2>4, <2>6, <2>9, <2>10 DEF SessionInv
  <1>. QED
    BY <1>1, <1>2 DEF ProbeNotifier

\* The probe of supervisor.lock: what was found before stays so, since nothing observed
\* can come back and a supervisor that dies meanwhile counts as late.
LEMMA ProbeSupervisorKeeps ==
    ASSUME SessionInv, NEW x \in Process, ProbeSupervisor(x)
    PROVE  SessionInv'
  <1>. USE SessionAssumption DEF Process
  <1>1. PICK q \in {"not stopped", "seen"} :
             /\ Goto(x, q)
             /\ \/ q = "not stopped" /\ sup' = sup
                \/ q = "seen" /\ sup = None /\ sup' = x
    BY Zenon DEF ProbeSupervisor
  <1>2. /\ pc' \in [Process -> CommandPlaces \cup RunPlaces] /\ pc[x] = "slock" /\ pc'[x] = q
        /\ \A y \in Process : y # x => pc'[y] = pc[y]
    BY <1>1 DEF ProbeSupervisor, Goto, CommandPlaces, Registered, Observing, Decided,
                SessionInv, SessionTypeOK, Places
  <1>3. /\ UNCHANGED <<op, life, reg, names, managed, children, faults>>
        /\ nlock = x /\ nlock' = None
    BY <1>2 DEF ProbeSupervisor, SessionInv, Looked, Freed
  <1>4. SessionTypeOK'
    <2>1. {reg', sup', nlock'} \subseteq Process \cup {None}
      BY <1>1, <1>3 DEF SessionInv, SessionTypeOK
    <2>. QED
      BY <1>1, <1>2, <1>3, <2>1 DEF SessionInv, SessionTypeOK, names, managed, children, faults, CommandPlaces,
                      RunPlaces, Registered, Early, Observing, Decided, Supervising
  <1>5. Places'
    BY <1>2 DEF SessionInv, Places, CommandPlaces, Registered, Observing, Decided, RunPlaces, Early
  <1>6. LocksHeld'
    <2>1. \A d \in Command : (life = d <=> pc[d] \notin {"off", "ended"})'
      BY <1>2, <1>3 DEF SessionInv, LocksHeld
    <2>2. \A y \in Process : (reg = y <=> pc[y] \in Registered)'
      BY <1>2, <1>3 DEF SessionInv, LocksHeld, Registered, Observing, Decided
    <2>3. \A y \in Process : (sup = y <=> pc[y] \in Supervising \cup {"seen"})'
      BY <1>1, <1>2, <1>3 DEF SessionInv, LocksHeld, Supervising
    <2>. QED  BY <2>1, <2>2, <2>3 DEF LocksHeld
  <1>7. \A r \in Run : notifier[r] \notin {"locked", "up", "closing"}
    BY <1>2, <1>3 DEF SessionInv, ChildrenShow, Early, Observing
  <1>8. ChildrenShow'
    BY <1>2, <1>3, <1>7 DEF SessionInv, ChildrenShow, Unseen, children, faults, Early, Observing, Decided
  <1>9. Looked'
    <2>1. \A y \in Process : pc'[y] \in Observing => y = x
      BY <1>2 DEF SessionInv, LocksHeld, Registered, Observing
    <2>. QED
      BY <1>2, <1>3, <2>1 DEF SessionInv, Looked, children, faults, Observing
  <1>10. NamesRead' /\ ManagedStartKeepsName' /\ StopReachesUnit'
    BY <1>2, <1>3 DEF SessionInv, NamesRead, ManagedStartKeepsName, StopReachesUnit, names, managed,
                      children, Supervising
  <1>. QED
    BY <1>4, <1>5, <1>6, <1>8, <1>9, <1>10 DEF SessionInv

\* A process gives registration.lock or the probe of supervisor.lock back.
LEMMA UnlocksKeep ==
    ASSUME SessionInv, NEW x \in Process, NEW q,
           \/ Seen(x) /\ q = "stopped"
           \/ EnsureUnlocks(x) /\ x \in Command /\ q = "start"
           \/ RunUnlocks(x) /\ x \in Run /\ q = "sup"
    PROVE  SessionInv'
  <1>. USE SessionAssumption DEF Process
  <1>1. /\ Goto(x, q) /\ pc[x] \in Decided \cup {"seen"}
        /\ op' = op /\ life' = life /\ nlock' = nlock
        /\ UNCHANGED <<names, managed, children, faults>>
    BY Zenon DEF Seen, EnsureUnlocks, RunUnlocks, Decided
  <1>2. /\ pc' \in [Process -> CommandPlaces \cup RunPlaces] /\ pc'[x] = q
        /\ \A y \in Process : y # x => pc'[y] = pc[y]
    BY <1>1 DEF Goto, CommandPlaces, RunPlaces, Early, Registered, Decided, SessionInv, SessionTypeOK, Places
  <1>3. /\ \/ q = "stopped" /\ pc[x] = "seen" /\ sup' = None /\ reg' = reg
           \/ q \in {"start", "sup"} /\ pc[x] \in Decided /\ reg' = None /\ sup' = sup
        /\ q = "start" => x \in Command
        /\ q = "sup" => x \in Run
    BY Zenon DEF Seen, EnsureUnlocks, RunUnlocks, Decided
  <1>4. SessionTypeOK'
    <2>1. {reg', sup', nlock'} \subseteq Process \cup {None}
      BY <1>1, <1>3 DEF SessionInv, SessionTypeOK
    <2>. QED
      BY <1>1, <1>2, <1>3, <2>1 DEF SessionInv, SessionTypeOK, names, managed, children, faults, CommandPlaces,
                      RunPlaces, Registered, Early, Observing, Decided, Supervising
  <1>5. Places'
    BY <1>2, <1>3 DEF SessionInv, Places, CommandPlaces, Registered, Decided, RunPlaces, Early
  <1>6. LocksHeld'
    <2>1. \A d \in Command : (life = d <=> pc[d] \notin {"off", "ended"})'
      BY <1>1, <1>2, <1>3 DEF SessionInv, LocksHeld, Decided
    <2>2. \A y \in Process : (reg = y <=> pc[y] \in Registered)'
      BY <1>2, <1>3 DEF SessionInv, LocksHeld, Registered, Observing, Decided
    <2>3. \A y \in Process : (sup = y <=> pc[y] \in Supervising \cup {"seen"})'
      BY <1>2, <1>3 DEF SessionInv, LocksHeld, Supervising, Decided
    <2>. QED  BY <2>1, <2>2, <2>3 DEF LocksHeld
  <1>7. ChildrenShow'
    BY <1>1, <1>2, <1>3 DEF SessionInv, ChildrenShow, Unseen, children, faults, Early, Observing, Decided
  <1>8. Looked'
    BY <1>1, <1>2, <1>3 DEF SessionInv, Looked, children, faults
  <1>9. NamesRead' /\ ManagedStartKeepsName' /\ StopReachesUnit'
    BY <1>1, <1>2, <1>3 DEF SessionInv, NamesRead, ManagedStartKeepsName, StopReachesUnit, names, managed,
                      children, Supervising, Decided
  <1>. QED
    BY <1>4, <1>5, <1>6, <1>7, <1>8, <1>9 DEF SessionInv

-----------------------------------------------------------------------------
\* The commands that end with their answer.
LEMMA AnswersKeep ==
    ASSUME SessionInv, NEW c \in Command,
           Rename(c) \/ Report(c) \/ EnsureReady(c) \/ EnsureDeadline(c) \/ StopDeadline(c)
    PROVE  SessionInv'
  <1>. USE SessionAssumption
  <1>1. pc[c] \notin {"off", "ended"} /\ Leave(c) /\ UNCHANGED <<runName, managed, children, faults>>
    BY DEF Rename, Report, EnsureReady, EnsureDeadline, StopDeadline, Decided, names
  <1>2. name' = name \/ (name' = name + 1 /\ name < MaxName)
    BY Zenon DEF Rename, Report, EnsureReady, EnsureDeadline, StopDeadline, names
  <1>3. name' \in 0..MaxName /\ (name' = 0 => name = 0)
    <2>1. name \in 0..MaxName
      BY DEF SessionInv, SessionTypeOK
    <2>. QED  BY <1>2, <2>1
  <1>4. kills' \in 0..MaxKills /\ late' = late
    BY <1>1 DEF SessionInv, SessionTypeOK, faults
  <1>. QED
    BY <1>1, <1>3, <1>4, CommandLeaves

\* A request or a signal is recorded for the children that live, and for no other.
LEMMA TellAdds ==
    ASSUME SessionInv, NEW kinds \in SUBSET {"bridge", "notifier"}, NEW r \in Run, Tell(kinds, r)
    PROVE  /\ told \subseteq told' /\ told' \subseteq {"bridge", "notifier"} \X Run
           /\ "bridge" \in kinds => bridge[r] \in Over \/ <<"bridge", r>> \in told'
           /\ "notifier" \in kinds => notifier[r] \in Over \/ <<"notifier", r>> \in told'
  BY DEF Tell, SessionInv, SessionTypeOK

\* What a stop does besides waiting: it gives the unit up, tells the children and looks again.
LEMMA StopGoesOn ==
    ASSUME SessionInv, NEW c \in Command, NEW q \in {"tell notifier", "tell bridge", "status"},
           \/ /\ pc[c] \in Decided \cup {"unit wait"} /\ q = "tell notifier"
              /\ unit' \in {unit, None} /\ UNCHANGED <<op, told>>
           \/ q = "tell bridge" /\ TellNotifier(c)
           \/ q = "status" /\ TellBridge(c)
           \/ pc[c] = "not stopped" /\ q = "status" /\ UNCHANGED <<op, unit, told>>,
           Goto(c, q),
           UNCHANGED <<locks, names, stopped, bridge, notifier, serves, bridgeEnd, notifierEnd, faults>>
    PROVE  SessionInv'
  <1>. USE SessionAssumption DEF Process
  <1>1. /\ pc[c] \in Registered /\ pc[c] \notin {"off", "reg", "ended", "seen"} \cup Supervising
    BY DEF TellNotifier, TellBridge, Decided, Registered, Supervising
  <1>2. op' \in [Process -> Ops \cup {"none", "confirm"}]
    <2>1. op \in [Process -> Ops \cup {"none", "confirm"}]
      BY DEF SessionInv, SessionTypeOK
    <2>2. op' = op \/ op' = [op EXCEPT ![c] = "confirm"]
      BY Zenon DEF TellNotifier, TellBridge
    <2>. QED  BY <2>1, <2>2
  <1>3. unit' \in Run \cup {None}
    BY DEF TellNotifier, TellBridge, managed, SessionInv, SessionTypeOK
  <1>4. told \subseteq told' /\ told' \subseteq {"bridge", "notifier"} \X Run
    <2>1. CASE UNCHANGED told
      BY <2>1 DEF SessionInv, SessionTypeOK
    <2>2. CASE TellNotifier(c)
      BY <2>1, <2>2, TellAdds DEF TellNotifier
    <2>3. CASE TellBridge(c)
      BY <2>1, <2>3, TellAdds DEF TellBridge
    <2>. QED  BY <2>1, <2>2, <2>3
  <1>5. q \in CommandPlaces /\ q \in Registered /\ q \notin Supervising
    BY DEF CommandPlaces, Registered, Supervising
  <1>. QED
    BY <1>1, <1>2, <1>3, <1>4, <1>5, WalkKeeps

\* systemctl stop: the unit's processes are signalled before the stop waits for them, and a
\* run that dies of it has no children, and did not hold registration.lock.
LEMMA StopUnitKeeps ==
    ASSUME SessionInv, NEW c \in Command, StopUnit(c)
    PROVE  SessionInv'
  <1>. USE SessionAssumption
  <1>0. /\ pc[c] \in Decided
        /\ UNCHANGED <<names, bridge, notifier, serves, bridgeEnd, notifierEnd, faults>>
    BY DEF StopUnit
  <1>1. CASE Leave(c) /\ UNCHANGED <<told, stopped, unit>>
    BY <1>0, <1>1, CommandLeaves DEF Decided, names, managed, children, faults, SessionInv, SessionTypeOK
  <1>2. CASE /\ unit' \in {unit, None} /\ Goto(c, "tell notifier")
             /\ UNCHANGED <<op, told, stopped, locks>>
    BY <1>0, <1>2, StopGoesOn
  <1>3. ASSUME NEW u \in Run, u = unit, pc[u] # "ended", unit' = unit,
               Tell({"bridge", "notifier"}, u),
               \/ /\ pc[u] \in Supervising \ {"check"}
                  /\ stopped' = stopped \cup {u}
                  /\ Goto(c, "unit wait")
                  /\ UNCHANGED <<op, locks>>
               \/ /\ pc[u] \notin Supervising \ {"check"}
                  /\ pc' = [pc EXCEPT ![u] = "ended", ![c] = "unit wait"]
                  /\ Release(u)
                  /\ stopped' = stopped
        PROVE  SessionInv'
    <2>. USE DEF Process
    <2>0. pc \in [Process -> CommandPlaces \cup RunPlaces]
      BY DEF SessionInv, SessionTypeOK, Places
    <2>1. /\ pc' \in [Process -> CommandPlaces \cup RunPlaces] /\ pc'[c] = "unit wait"
          /\ \A y \in Process : y # c /\ y # u => pc'[y] = pc[y]
      BY <1>3, <2>0 DEF Goto, CommandPlaces, Registered
    <2>2. pc[c] \in Registered /\ reg = c /\ pc[u] \notin Registered /\ u # c
      <3>1. pc[c] \in Registered /\ u # c
        BY <1>0 DEF Registered
      <3>2. (reg = c <=> pc[c] \in Registered) /\ (reg = u <=> pc[u] \in Registered)
        BY DEF SessionInv, LocksHeld
      <3>. QED  BY <3>1, <3>2
    <2>3. /\ life' = life /\ reg' = reg /\ nlock' = nlock
          /\ op' \in [Process -> Ops \cup {"none", "confirm"}]
          /\ stopped' \subseteq Run
      <3>1. life \in Command \cup {None} /\ op \in [Process -> Ops \cup {"none", "confirm"}]
            /\ stopped \subseteq Run
        BY DEF SessionInv, SessionTypeOK
      <3>2. life # u /\ reg # u /\ pc[u] # "slock"
        BY <2>2, <3>1 DEF Registered, Observing
      <3>3. CASE UNCHANGED <<op, locks>> /\ stopped' = stopped \cup {u}
        BY <3>1, <3>3 DEF locks
      <3>4. CASE Release(u) /\ stopped' = stopped
        BY <3>1, <3>2, <3>4 DEF Release, Freed
      <3>. QED  BY <1>3, <3>3, <3>4
    <2>4. \/ /\ pc[u] \in Supervising \ {"check"} /\ pc'[u] = pc[u]
             /\ sup' = sup /\ u \in stopped'
          \/ /\ pc[u] \in Early /\ pc'[u] = "ended"
             /\ sup' = Freed(sup, u)
      BY <1>3, <2>0, <2>2 DEF Release, Goto, locks, SessionInv, Places, RunPlaces, Supervising, Early
    <2>5. sup' \in Process \cup {None}
      BY <2>4 DEF SessionInv, SessionTypeOK, Freed
    <2>6. /\ told \subseteq told' /\ told' \subseteq {"bridge", "notifier"} \X Run
          /\ bridge[u] \in Over \/ <<"bridge", u>> \in told'
          /\ notifier[u] \in Over \/ <<"notifier", u>> \in told'
      BY ZenonT(40), <1>3, TellAdds
    <2>7. SessionTypeOK'
      <3>1. unit' \in Run \cup {None}
        BY <1>3
      <3>2. {reg', sup', nlock'} \subseteq Process \cup {None}
        BY <2>3, <2>5 DEF SessionInv, SessionTypeOK
      <3>. QED
      BY <1>0, <2>1, <2>3, <2>6, <3>1, <3>2
      DEF SessionInv, SessionTypeOK, names, faults, CommandPlaces, RunPlaces, Registered, Early,
          Observing, Decided, Supervising
    <2>8. Places'
      BY <2>1, <2>2, <2>4 DEF SessionInv, Places, CommandPlaces, Registered, RunPlaces
    <2>9. LocksHeld'
      <3>1. \A d \in Command : (life = d <=> pc[d] \notin {"off", "ended"})'
        BY <1>0, <2>1, <2>3 DEF SessionInv, LocksHeld, Decided
      <3>2. \A y \in Process : (reg = y <=> pc[y] \in Registered)'
        BY <2>1, <2>2, <2>3, <2>4 DEF SessionInv, LocksHeld, Registered, Observing, Decided
      <3>3. \A y \in Process : (sup = y <=> pc[y] \in Supervising \cup {"seen"})'
        BY <1>0, <2>1, <2>2, <2>4 DEF SessionInv, LocksHeld, Freed, Supervising, Decided
      <3>. QED  BY <3>1, <3>2, <3>3 DEF LocksHeld
    <2>10. ChildrenShow'
      BY ZenonT(40), <1>0, <2>1, <2>3, <2>4 DEF SessionInv, ChildrenShow, Unseen, faults, Early, Supervising, Over
    <2>11. Looked'
      <3>1. \A y \in Process : pc'[y] \notin Observing
        BY <2>1, <2>2, <2>4 DEF SessionInv, LocksHeld, Registered, Observing, Supervising
      <3>. QED  BY <3>1 DEF Looked, Observing
    <2>12. \A d \in Command : pc'[d] \in {"wait", "unit wait"} => d = c
      BY <1>0, <2>1 DEF SessionInv, LocksHeld, Decided
    <2>13. NamesRead' /\ ManagedStartKeepsName'
      BY <1>0, <2>1, <2>4, <2>12 DEF SessionInv, NamesRead, ManagedStartKeepsName, names, Supervising
    <2>14. StopReachesUnit'
      BY <1>0, <1>3, <2>4, <2>6, <2>12 DEF StopReachesUnit
    <2>. QED
      BY <2>7, <2>8, <2>9, <2>10, <2>11, <2>13, <2>14 DEF SessionInv
  <1>4. unit \in Run \cup {None}
    BY DEF SessionInv, SessionTypeOK
  <1>. QED
    BY <1>1, <1>2, <1>3, <1>4, Zenon DEF StopUnit, UnitActive

\* systemctl start: the new run is the unit, and it has read no name yet.
LEMMA StartUnitKeeps ==
    ASSUME SessionInv, NEW c \in Command, StartUnit(c)
    PROVE  SessionInv'
  <1>. USE SessionAssumption
  <1>0. pc[c] = "start" /\ UNCHANGED <<names, stopped, children, faults>>
    BY DEF StartUnit
  <1>1. CASE Leave(c) /\ UNCHANGED unit
    BY <1>0, <1>1, CommandLeaves DEF names, managed, children, faults, SessionInv, SessionTypeOK
  <1>2. CASE Goto(c, "join") /\ UNCHANGED <<op, locks, unit>>
    BY <1>0, <1>2, WalkKeeps
    DEF Process, children, SessionInv, SessionTypeOK, CommandPlaces, Registered, Observing, Decided, Supervising
  <1>3. ASSUME NEW r \in Run, IsNext(r, Run), pc' = [pc EXCEPT ![c] = "wait", ![r] = "reg"],
               unit' = r, UNCHANGED <<op, locks>>
        PROVE  SessionInv'
    <2>. USE DEF Process
    <2>0. pc \in [Process -> CommandPlaces \cup RunPlaces] /\ pc[r] = "off" /\ r # c
      BY <1>3 DEF SessionInv, SessionTypeOK, Places, IsNext
    <2>1. /\ pc' \in [Process -> CommandPlaces \cup RunPlaces] /\ pc'[c] = "wait" /\ pc'[r] = "reg"
          /\ \A y \in Process : y # c /\ y # r => pc'[y] = pc[y]
      BY <1>3, <2>0 DEF CommandPlaces
    <2>2. SessionTypeOK'
      BY <1>0, <1>3, <2>1
      DEF SessionInv, SessionTypeOK, locks, names, children, faults, CommandPlaces, RunPlaces, Registered,
          Early, Observing, Decided, Supervising
    <2>3. Places'
      BY <2>0, <2>1 DEF SessionInv, Places, CommandPlaces, RunPlaces, Early
    <2>4. LocksHeld'
      <3>1. \A d \in Command : (life = d <=> pc[d] \notin {"off", "ended"})'
        BY <1>0, <1>3, <2>1 DEF SessionInv, LocksHeld, locks
      <3>2. \A y \in Process : (reg = y <=> pc[y] \in Registered)'
        BY <1>0, <1>3, <2>0, <2>1 DEF SessionInv, LocksHeld, Registered, Observing, Decided, locks
      <3>3. \A y \in Process : (sup = y <=> pc[y] \in Supervising \cup {"seen"})'
        BY <1>0, <1>3, <2>0, <2>1 DEF SessionInv, LocksHeld, Supervising, locks
      <3>. QED  BY <3>1, <3>2, <3>3 DEF LocksHeld
    <2>5. ChildrenShow' /\ Looked'
      BY <1>0, <1>3, <2>0, <2>1 DEF SessionInv, ChildrenShow, Looked, Unseen, locks, children, faults, Early
    <2>6. \A d \in Command : pc'[d] \in {"wait", "unit wait"} => d = c
      BY <1>0, <2>1 DEF SessionInv, LocksHeld
    <2>7. NamesRead' /\ ManagedStartKeepsName' /\ StopReachesUnit'
      BY <1>0, <1>3, <2>0, <2>1, <2>6
      DEF SessionInv, NamesRead, ManagedStartKeepsName, StopReachesUnit, names
    <2>. QED
      BY <2>2, <2>3, <2>4, <2>5, <2>7 DEF SessionInv
  <1>. QED
    BY <1>1, <1>2, <1>3, Zenon DEF StartUnit

\* The other steps of a stop.
LEMMA StopKeeps ==
    ASSUME SessionInv, NEW c \in Command,
           UnitStopped(c) \/ TellNotifier(c) \/ TellBridge(c) \/ Confirm(c)
    PROVE  SessionInv'
  <1>. USE DEF managed, children
  <1>1. CASE UnitStopped(c)
    BY <1>1, StopGoesOn DEF UnitStopped
  <1>2. CASE TellNotifier(c)
    BY <1>2, StopGoesOn DEF TellNotifier
  <1>3. CASE TellBridge(c)
    BY <1>3, StopGoesOn DEF TellBridge
  <1>4. CASE Confirm(c)
    <2>1. CASE pc[c] = "stopped" /\ Leave(c)
      BY <1>4, <2>1, CommandLeaves DEF Confirm, names, faults, SessionInv, SessionTypeOK
    <2>2. CASE pc[c] = "not stopped" /\ Goto(c, "status") /\ UNCHANGED <<op, locks>>
      BY <1>4, <2>2, StopGoesOn DEF Confirm
    <2>. QED  BY <1>4, <2>1, <2>2 DEF Confirm
  <1>. QED
    BY <1>1, <1>2, <1>3, <1>4

-----------------------------------------------------------------------------
\* A run takes supervisor.lock, or ends because another supervisor or a probe has it.
LEMMA TakeSupervisorKeeps ==
    ASSUME SessionInv, NEW r \in Run, TakeSupervisor(r)
    PROVE  SessionInv'
  <1>. USE SessionAssumption
  <1>0. /\ pc[r] = "sup" /\ r \in Process
        /\ UNCHANGED <<op, life, reg, nlock, names, managed, children, faults>>
    BY DEF TakeSupervisor, Process
  <1>1. CASE Goto(r, "ended") /\ UNCHANGED sup
    <2>1. reg # r /\ sup # r /\ life # r
      <3>1. /\ reg = r <=> pc[r] \in Registered
            /\ sup = r <=> pc[r] \in Supervising \cup {"seen"}
            /\ life \in Command \cup {None}
        BY <1>0 DEF SessionInv, LocksHeld, SessionTypeOK
      <3>. QED  BY <1>0, <3>1 DEF Registered, Observing, Decided, Supervising
    <2>2. bridge[r] \in Over /\ notifier[r] \in Over
      BY <1>0 DEF SessionInv, ChildrenShow, Early, Over
    <2>. QED
      BY <1>0, <1>1, <2>1, <2>2, RunLeaves DEF Freed, managed, children, faults, SessionInv, SessionTypeOK
  <1>2. CASE sup = None /\ sup' = r /\ Goto(r, "check")
    <2>. USE DEF Process
    <2>1. /\ pc' \in [Process -> CommandPlaces \cup RunPlaces] /\ pc'[r] = "check"
          /\ \A y \in Process : y # r => pc'[y] = pc[y]
      BY <1>2 DEF Goto, RunPlaces, Early, SessionInv, SessionTypeOK, Places
    <2>2. SessionTypeOK'
      BY ZenonT(40), <1>0, <1>2, <2>1, PlacesTyped DEF SessionInv, SessionTypeOK, names, managed, children, faults
    <2>3. Places'
      BY <2>1 DEF SessionInv, Places, RunPlaces, Early
    <2>4. LocksHeld'
      <3>1. \A d \in Command : (life = d <=> pc[d] \notin {"off", "ended"})'
        BY <1>0, <2>1 DEF SessionInv, LocksHeld
      <3>2. \A y \in Process : (reg = y <=> pc[y] \in Registered)'
        BY <1>0, <2>1 DEF SessionInv, LocksHeld, Registered, Observing, Decided
      <3>3. \A y \in Process : (sup = y <=> pc[y] \in Supervising \cup {"seen"})'
        BY <1>2, <2>1 DEF SessionInv, LocksHeld, Supervising
      <3>. QED  BY <3>1, <3>2, <3>3 DEF LocksHeld
    <2>5. ChildrenShow' /\ Looked'
      BY <1>0, <2>1 DEF SessionInv, ChildrenShow, Looked, Unseen, children, faults, Early
    <2>6. NamesRead' /\ ManagedStartKeepsName' /\ StopReachesUnit'
      BY <1>0, <2>1 DEF SessionInv, NamesRead, ManagedStartKeepsName, StopReachesUnit, names, managed,
                        children, Supervising
    <2>. QED
      BY <2>2, <2>3, <2>4, <2>5, <2>6 DEF SessionInv
  <1>. QED
    BY <1>1, <1>2 DEF TakeSupervisor

\* A supervisor spawns a child.  It is no run that a stop waits for: that one does not spawn.
LEMMA SpawnKeeps ==
    ASSUME SessionInv, NEW r \in Run, NEW q \in {"wait bridge", "wait notifier"}, Goto(r, q),
           bridge' \in [Run -> {"none", "starting", "bound", "up", "gone"}],
           notifier' \in [Run -> {"none", "starting", "locked", "up", "closing", "gone"}],
           \A p \in Run : p # r => bridge'[p] = bridge[p] /\ notifier'[p] = notifier[p],
           bridge'[r] \in {bridge[r], "starting"}, notifier'[r] \in {notifier[r], "starting"},
           q = "wait bridge" => pc[r] = "check" /\ notifier'[r] = "none",
           q = "wait notifier" => pc[r] = "wait bridge" /\ r \notin stopped,
           UNCHANGED <<op, locks, names, managed, told, serves, bridgeEnd, notifierEnd, faults>>
    PROVE  SessionInv'
  <1>. USE SessionAssumption DEF Process
  <1>1. /\ pc' \in [Process -> CommandPlaces \cup RunPlaces] /\ pc'[r] = q
        /\ \A y \in Process : y # r => pc'[y] = pc[y]
        /\ pc[r] \in {"check", "wait bridge"}
    BY DEF Goto, RunPlaces, Supervising, SessionInv, SessionTypeOK, Places
  <1>2. SessionTypeOK'
    BY <1>1
    DEF SessionInv, SessionTypeOK, locks, names, managed, faults, CommandPlaces, RunPlaces,
        Registered, Early, Observing, Decided, Supervising
  <1>3. Places'
    BY <1>1 DEF SessionInv, Places, RunPlaces, Supervising
  <1>4. LocksHeld'
    <2>1. \A d \in Command : (life = d <=> pc[d] \notin {"off", "ended"})'
      BY <1>1 DEF SessionInv, LocksHeld, locks
    <2>2. \A y \in Process : (reg = y <=> pc[y] \in Registered)'
      BY <1>1 DEF SessionInv, LocksHeld, Registered, Observing, Decided, locks
    <2>3. \A y \in Process : (sup = y <=> pc[y] \in Supervising \cup {"seen"})'
      BY <1>1 DEF SessionInv, LocksHeld, Supervising, locks
    <2>. QED  BY <2>1, <2>2, <2>3 DEF LocksHeld
  <1>5. ChildrenShow'
    <2>1. q \notin Early /\ q # "ended" /\ q # "end bridge"
      BY DEF Early, Observing, Decided
    <2>. QED
      BY <1>1, <2>1 DEF SessionInv, ChildrenShow, Unseen, locks, faults
  <1>6. Looked'
    BY <1>1 DEF SessionInv, Looked, locks, faults
  <1>7. NamesRead' /\ ManagedStartKeepsName'
    BY ZenonT(40), <1>1 DEF SessionInv, NamesRead, ManagedStartKeepsName, names, managed
  <1>8. StopReachesUnit'
    <2>1. \A c \in Command : pc'[c] = "unit wait" => pc[c] = "unit wait" /\ unit # r
      BY <1>1 DEF SessionInv, StopReachesUnit
    <2>. QED
      BY <1>1, <2>1 DEF SessionInv, StopReachesUnit, managed
  <1>. QED
    BY <1>2, <1>3, <1>4, <1>5, <1>6, <1>7, <1>8 DEF SessionInv

\* A supervisor at work, and while it unwinds.
LEMMA SupervisorKeeps ==
    ASSUME SessionInv, NEW r \in Run,
           \/ SpawnBridge(r) \/ SpawnNotifier(r) \/ Running(r) \/ Unwinds(r)
           \/ EndNotifier(r) \/ EndBridge(r)
    PROVE  SessionInv'
  <1>. USE SessionAssumption
  <1>0. r \in Process /\ r \notin Command
    BY DEF Process
  <1>1. CASE SpawnBridge(r)
    <2>1. CASE Leave(r) /\ UNCHANGED bridge
      <3>1. pc[r] = "check" /\ bridge[r] \in Over /\ notifier[r] \in Over
        BY <1>1 DEF SpawnBridge, SessionInv, ChildrenShow, Early, Over
      <3>2. op' \in [Process -> Ops \cup {"none", "confirm"}]
        BY <2>1 DEF Leave, Release, SessionInv, SessionTypeOK
      <3>. QED
        BY <1>1, <2>1, <3>1, <3>2, RunLeaves
        DEF SpawnBridge, Leave, Release, managed, faults, SessionInv, SessionTypeOK
    <2>2. CASE /\ bridge' = [bridge EXCEPT ![r] = "starting"] /\ Goto(r, "wait bridge")
               /\ UNCHANGED <<op, locks>>
      <3>1. notifier[r] = "none"
        BY <1>1 DEF SpawnBridge, SessionInv, ChildrenShow, Early
      <3>. QED
        BY <1>1, <2>2, <3>1, SpawnKeeps DEF SpawnBridge, SessionInv, SessionTypeOK
    <2>. QED  BY <1>1, <2>1, <2>2 DEF SpawnBridge
  <1>2. CASE SpawnNotifier(r)
    BY <1>2, SpawnKeeps DEF SpawnNotifier, SessionInv, SessionTypeOK
  <1>3. ASSUME NEW q \in {"running", "end notifier", "end bridge"}, Goto(r, q),
               pc[r] \in Supervising \ {"check"}, q = "end bridge" => notifier[r] \in Over,
               told \subseteq told', told' \subseteq {"bridge", "notifier"} \X Run,
               UNCHANGED <<op, locks, names, managed, bridge, notifier, serves, bridgeEnd,
                           notifierEnd, faults>>
        PROVE  SessionInv'
    <2>1. q \in Supervising \ {"check"} /\ q \notin Registered /\ pc[r] \notin Registered
      BY <1>3 DEF Supervising, Registered, Observing, Decided
    <2>2. pc[r] \notin {"off", "reg", "ended"}
      BY <1>3 DEF Supervising
    <2>3. op' \in [Process -> Ops \cup {"none", "confirm"}] /\ unit' \in Run \cup {None} /\ unit' = unit
          /\ stopped' = stopped
      BY <1>3 DEF managed, SessionInv, SessionTypeOK
    <2>. QED
      BY <1>0, <1>3, <2>1, <2>2, <2>3, WalkKeeps
  <1>4. CASE Running(r)
    BY <1>3, <1>4 DEF Running, children, Supervising, SessionInv, SessionTypeOK
  <1>5. CASE Unwinds(r)
    <2>1. told \subseteq told' /\ told' \subseteq {"bridge", "notifier"} \X Run
      BY <1>5, TellAdds DEF Unwinds
    <2>. QED  BY <1>3, <1>5, <2>1 DEF Unwinds, Supervising
  <1>6. CASE EndNotifier(r)
    <2>1. told \subseteq told' /\ told' \subseteq {"bridge", "notifier"} \X Run
      BY <1>6, TellAdds DEF EndNotifier
    <2>. QED  BY <1>3, <1>6, <2>1 DEF EndNotifier, Supervising
  <1>7. CASE EndBridge(r)
    <2>1. pc[r] = "end bridge" /\ bridge[r] \in Over /\ notifier[r] \in Over
      BY <1>7 DEF EndBridge, SessionInv, ChildrenShow
    <2>2. op' \in [Process -> Ops \cup {"none", "confirm"}]
      BY <1>7 DEF EndBridge, Leave, Release, SessionInv, SessionTypeOK
    <2>. QED
      BY <1>7, <2>1, <2>2, RunLeaves
      DEF EndBridge, Leave, Release, children, faults, SessionInv, SessionTypeOK
  <1>. QED
    BY <1>1, <1>2, <1>4, <1>5, <1>6, <1>7

\* The bridge of a run, whether the run lives or not.
LEMMA BridgeStepKeeps ==
    ASSUME SessionInv, NEW r \in Run, BridgeStep(r)
    PROVE  SessionInv'
  <1>. USE SessionAssumption
  <1>1. /\ UNCHANGED <<pc, op, locks, names, managed, notifier, serves, notifierEnd, late>>
        /\ kills' \in 0..MaxKills /\ bridgeEnd \in Run \cup {None}
    BY DEF BridgeStep, faults, SessionInv, SessionTypeOK
  <1>2. \A q \in Run : bridge[q] \in {"bound", "up"} => bridgeEnd = q
    BY DEF SessionInv, ChildrenShow
  <1>3. PICK l \in {"bound", "up", "gone"} :
             /\ bridge[r] \in {"starting", "bound", "up"} /\ BridgeAt(r, l)
             /\ \/ l = "bound" /\ bridgeEnd = None /\ bridgeEnd' = r
                \/ l = "up" /\ bridge[r] = "bound" /\ bridgeEnd' = bridgeEnd
                \/ l = "gone" /\ bridgeEnd' = bridgeEnd
                \/ l = "gone" /\ bridge[r] = "up" /\ bridgeEnd' = None
    BY Zenon DEF BridgeStep
  <1>4. /\ bridgeEnd' \in Run \cup {None} /\ (l # "gone" => bridgeEnd' = r)
        /\ \A q \in Run \ {r} : bridge[q] \in {"bound", "up"} => bridgeEnd' = bridgeEnd
        /\ l # "gone" => \A q \in Run \ {r} : bridge[q] \notin {"bound", "up"}
    BY <1>1, <1>2, <1>3
  <1>. QED
    BY <1>1, <1>3, <1>4, BridgeMoves DEF Over

\* The notifier of a run, whether the run lives or not.
LEMMA NotifierStepKeeps ==
    ASSUME SessionInv, NEW r \in Run, NotifierStep(r)
    PROVE  SessionInv'
  <1>. USE SessionAssumption
  <1>1. /\ UNCHANGED <<pc, op, life, reg, sup, names, managed, bridge, bridgeEnd, late>>
        /\ kills' \in 0..MaxKills /\ notifierEnd \in Run \cup {None} /\ nlock \in Process \cup {None}
        /\ r \in Process
    BY DEF NotifierStep, faults, SessionInv, SessionTypeOK, Process
  <1>2. notifier[r] \in {"locked", "up", "closing"} => nlock = r
    BY DEF SessionInv, ChildrenShow
  <1>3. notifierEnd' \in {notifierEnd, None, r}
    BY DEF NotifierStep, Freed
  <1>4. PICK l \in {"locked", "up", "closing", "gone"} :
             /\ notifier[r] \in {"starting", "locked", "up", "closing"} /\ NotifierAt(r, l)
             /\ \/ l = "locked" /\ nlock = None /\ nlock' = r
                \/ l \in {"up", "closing"} /\ notifier[r] \in {"locked", "up"} /\ nlock' = nlock
                \/ l = "gone" /\ nlock' = nlock
                \/ l = "gone" /\ notifier[r] = "closing" /\ nlock' = None
    BY Zenon DEF NotifierStep
  <1>5. /\ nlock' \in Process \cup {None} /\ (l # "gone" => nlock' = r)
        /\ nlock' = nlock \/ nlock \in {None, r}
    BY <1>1, <1>2, <1>4
  <1>. QED
    BY <1>1, <1>3, <1>4, <1>5, NotifierMoves DEF Over

\* A killed child leaves its endpoint, and frees notifier.lock if it held it.
LEMMA KillChildKeeps ==
    ASSUME SessionInv, NEW r \in Run, KillChild(r)
    PROVE  SessionInv'
  <1>. USE SessionAssumption
  <1>1. kills' \in 0..MaxKills
    <2>1. kills \in 0..MaxKills /\ kills < MaxKills /\ kills' = kills + 1
      BY Zenon DEF KillChild, SessionInv, SessionTypeOK
    <2>. QED  BY <2>1
  <1>2. /\ UNCHANGED <<pc, op, life, reg, sup, names, managed, bridgeEnd, notifierEnd, late>>
        /\ bridgeEnd \in Run \cup {None} /\ notifierEnd \in Run \cup {None} /\ nlock \in Process \cup {None}
    BY DEF KillChild, SessionInv, SessionTypeOK
  <1>3. CASE bridge[r] \notin Over /\ BridgeAt(r, "gone") /\ UNCHANGED <<notifier, serves, nlock>>
    BY <1>1, <1>2, <1>3, BridgeMoves DEF locks
  <1>4. CASE /\ notifier[r] \notin Over /\ NotifierAt(r, "gone") /\ UNCHANGED bridge
             /\ nlock' = IF notifier[r] = "starting" THEN nlock ELSE None
    <2>1. nlock' = nlock \/ (nlock = r /\ nlock' = None)
      BY <1>4 DEF SessionInv, SessionTypeOK, ChildrenShow, Over
    <2>. QED  BY <1>1, <1>2, <1>4, <2>1, NotifierMoves
  <1>. QED
    BY <1>3, <1>4 DEF KillChild

\* A killed process.  A run that leaves a child counts as late unless the child shows and
\* nobody observes.
LEMMA KillKeeps ==
    ASSUME SessionInv, NEW x \in Process, Kill(x)
    PROVE  SessionInv'
  <1>. USE SessionAssumption
  <1>1. kills' \in 0..MaxKills
    <2>1. kills \in 0..MaxKills /\ kills < MaxKills /\ kills' = kills + 1
      BY Zenon DEF Kill, SessionInv, SessionTypeOK
    <2>. QED  BY <2>1
  <1>2. /\ pc[x] \notin {"off", "ended"} /\ Leave(x) /\ stopped' = stopped \ {x}
        /\ UNCHANGED <<names, unit, bridge, notifier, serves, bridgeEnd, notifierEnd>>
    BY DEF Kill
  <1>3. CASE x \in Command
    <2>1. UNCHANGED <<told, late>> /\ stopped' = stopped
      <3>1. x \notin Run /\ stopped \subseteq Run
        BY <1>3 DEF SessionInv, SessionTypeOK
      <3>2. UNCHANGED <<told, late>>
        BY <3>1, Zenon DEF Kill
      <3>. QED  BY <1>2, <3>1, <3>2
    <2>. QED
      BY <1>1, <1>2, <1>3, <2>1, CommandLeaves DEF names, managed, children, SessionInv, SessionTypeOK
  <1>4. CASE x \in Run
    <2>1. PICK kinds \in SUBSET {"bridge", "notifier"} : Tell(kinds, x)
      BY <1>4 DEF Kill
    <2>2. told \subseteq told' /\ told' \subseteq {"bridge", "notifier"} \X Run
      BY <1>4, <2>1, TellAdds
    <2>3. late' = late \cup {r \in {x} : Unseen(r) \/ (Orphan(r) /\ Observation)}
      BY <1>4 DEF Kill
    <2>4. /\ late \subseteq late' /\ late' \subseteq Run
          /\ x \in late' \/ (bridge[x] \in Over /\ notifier[x] \in Over) \/ (~Unseen(x) /\ ~Observation)
      BY <1>4, <2>3 DEF Orphan, SessionInv, SessionTypeOK
    <2>5. op' \in [Process -> Ops \cup {"none", "confirm"}]
      BY <1>2 DEF Leave, Release, SessionInv, SessionTypeOK
    <2>. QED
      BY <1>1, <1>2, <1>4, <2>2, <2>4, <2>5, RunLeaves DEF Leave, Release
  <1>. QED
    BY <1>3, <1>4 DEF Process

-----------------------------------------------------------------------------
\* Every step keeps the session invariant.
LEMMA SessionStep ==
    ASSUME SessionInv, [Next]_vars
    PROVE  SessionInv'
  <1>. USE SessionAssumption
  <1>1. ASSUME NEW c \in Command, NEW o \in Ops, Begin(c, o) PROVE SessionInv'
    BY <1>1, BeginKeeps
  <1>2. ASSUME NEW x \in Process, Register(x) \/ Observe(x) PROVE SessionInv'
    BY <1>2, RegisterKeeps, LooksKeep, ProbeNotifierKeeps, ProbeSupervisorKeeps, UnlocksKeep DEF Observe
  <1>3. ASSUME NEW c \in Command, CommandStep(c) \/ EnsureDeadline(c) \/ StopDeadline(c)
        PROVE  SessionInv'
    <2>1. c \in Process
      BY DEF Process
    <2>2. CASE EnsureUnlocks(c)
      BY <2>1, <2>2, UnlocksKeep
    <2>. QED
      BY <1>2, <1>3, <2>1, <2>2, AnswersKeep, StartUnitKeeps, StopUnitKeeps, StopKeeps DEF CommandStep
  <1>4. ASSUME NEW r \in Run, RunStep(r) \/ StartDeadline(r) PROVE SessionInv'
    <2>1. r \in Process
      BY DEF Process
    <2>2. CASE RunUnlocks(r)
      BY <2>1, <2>2, UnlocksKeep
    <2>. QED
      BY <1>2, <1>4, <2>1, <2>2, TakeSupervisorKeeps, SupervisorKeeps DEF RunStep, Unwind, StartDeadline
  <1>5. ASSUME NEW r \in Run, BeginRun(r) \/ Family(r) \/ StartDeadline(r) \/ KillChild(r)
        PROVE  SessionInv'
    BY <1>4, <1>5, BeginRunKeeps, BridgeStepKeeps, NotifierStepKeeps, KillChildKeeps DEF Family
  <1>6. ASSUME NEW x \in Process, Kill(x) PROVE SessionInv'
    BY <1>6, KillKeeps
  <1>7. CASE UNCHANGED vars
    BY <1>7 DEF vars, locks, names, managed, children, faults, SessionInv, SessionTypeOK, Places, LocksHeld,
                ChildrenShow, Looked, NamesRead, ManagedStartKeepsName, StopReachesUnit, Unseen
  <1>. QED
    BY <1>1, <1>3, <1>5, <1>6, <1>7 DEF Next, Terminated

\* The session invariant: locks follow the places of their holders, what an observer has
\* looked at stays so, and a run's name is the registered one while its ensure waits.
THEOREM SessionInvariance == Spec => []SessionInv
  BY SessionStarts, SessionStep, PTL DEF Spec

\* Every variable of the session keeps its type.
THEOREM SessionTypeInvariance == Spec => []SessionTypeOK
  <1>1. SessionInv => SessionTypeOK
    BY DEF SessionInv
  <1>. QED  BY <1>1, SessionInvariance, PTL

\* No rename gets between the registration of a started run and its readiness: rename
\* needs lifecycle.lock, which ensure() keeps until both children answer.
THEOREM NameIsKept == Spec => []ManagedStartKeepsName
  <1>1. SessionInv => ManagedStartKeepsName
    BY DEF SessionInv
  <1>. QED  BY <1>1, SessionInvariance, PTL

\* lifecycle() says "stopped" only of a session without processes.  The probe of
\* supervisor.lock excludes every supervisor, and the endpoint and notifier.lock, looked
\* at before it, show the children that a dead supervisor has left.
THEOREM StoppedIsTrue == Spec => []ObservedStopped
  <1>1. SessionInv => ObservedStopped
    <2>. SUFFICES ASSUME SessionInv, NEW x \in Process, NEW r \in Run, pc[x] = "seen"
                  PROVE  /\ pc[r] \notin Supervising
                         /\ r \notin late => bridge[r] \in Over /\ notifier[r] \in Over
      BY DEF ObservedStopped
    <2>0. r \in Process
      BY DEF Process
    <2>1. pc[r] \notin Supervising
      BY <2>0 DEF SessionInv, LocksHeld, Supervising
    <2>2. CASE pc[r] = "ended"
      BY <2>1, <2>2 DEF SessionInv, Looked
    <2>3. CASE pc[r] \in Early
      BY <2>1, <2>3 DEF SessionInv, ChildrenShow, Over
    <2>. QED
      BY <2>1, <2>2, <2>3 DEF SessionInv, Places, RunPlaces
  <1>. QED  BY <1>1, SessionInvariance, PTL

\* A stop that waits for the unit with registration.lock in its hand does not wait for a
\* run that wants this lock: every process it waits for was signalled, or is over.
THEOREM StopWaitsForTheSignalled == Spec => []StopReachesUnit
  <1>1. SessionInv => StopReachesUnit
    BY DEF SessionInv
  <1>. QED  BY <1>1, SessionInvariance, PTL

\* One command at a time is past main()'s lifecycle.lock, one process at a time works on
\* the registration, and one run at a time supervises.
THEOREM OneAtATime ==
    Spec => [](/\ \A c, d \in Command : {pc[c], pc[d]} \cap {"off", "ended"} = {} => c = d
               /\ \A x, y \in Process : {pc[x], pc[y]} \subseteq Registered => x = y
               /\ \A q, r \in Run : {pc[q], pc[r]} \subseteq Supervising => q = r)
  <1>. DEFINE Exclusive ==
               /\ \A c, d \in Command : {pc[c], pc[d]} \cap {"off", "ended"} = {} => c = d
               /\ \A x, y \in Process : {pc[x], pc[y]} \subseteq Registered => x = y
               /\ \A q, r \in Run : {pc[q], pc[r]} \subseteq Supervising => q = r
  <1>1. SessionInv => Exclusive
    <2>. SUFFICES ASSUME SessionInv PROVE Exclusive
      OBVIOUS
    <2>1. \A c, d \in Command : {pc[c], pc[d]} \cap {"off", "ended"} = {} => c = d
      BY DEF SessionInv, LocksHeld
    <2>2. \A x, y \in Process : {pc[x], pc[y]} \subseteq Registered => x = y
      BY DEF SessionInv, LocksHeld
    <2>3. \A q, r \in Run : {pc[q], pc[r]} \subseteq Supervising => q = r
      BY DEF SessionInv, LocksHeld, Process
    <2>. QED  BY <2>1, <2>2, <2>3
  <1>. HIDE DEF Exclusive
  <1>2. Spec => []Exclusive
    BY <1>1, SessionInvariance, PTL
  <1>. QED  BY <1>2 DEF Exclusive
=============================================================================
