------------------------ MODULE MemoryServiceProofs ------------------------
(***************************************************************************)
(* Any number of services and stop commands on one state directory, killed *)
(* anywhere: start.lock and the store's own lock keep the endpoint and the *)
(* record of a listening service from everybody else.                      *)
(***************************************************************************)
EXTENDS MemoryService, TLAPS

(* Where a server holds start.lock, and where it has the store open.       *)
Locked == {"verify", "open", "bind", "rebind", "publish", "check", "unlink"}
Opened == {"bind", "rebind", "publish", "starting", "serving", "closing"}

(* A server has written its record.                                        *)
Recorded == {"starting", "serving", "closing", "release", "check", "unlink"} \cup Ended

(* start.lock is held exactly by the process that is in a section under it. *)
LockIsHeld ==
    /\ \A p \in Server : pc[p] \in Locked <=> lock = p
    /\ \A s \in Stopper : spc[s] \in {"check", "unlink"} <=> lock = s

(* The store is open in exactly the server that is past opening and before *)
(* the end of its drain.                                                   *)
StoreIsHeld == \A p \in Server : pc[p] \in Opened <=> store = p

(* The endpoint and the record along the life of one server.               *)
FilesFollow ==
    \A p \in Server :
        /\ pc[p] \in {"publish", "starting", "serving"} => sock = p
        /\ pc[p] \in {"starting", "serving", "closing"} => owner = p
        /\ pc[p] = "unlink" => owner = p /\ sock = None

(* A stop command removes the record of a dead generation, endpoint first. *)
RemovesDead ==
    \A s \in Stopper :
        spc[s] = "unlink" => owner = target[s] /\ pc[owner] \in Ended /\ sock = None

(* Only a generation that has published is recorded, and so aimed at.      *)
TargetsPublished ==
    /\ owner # None => pc[owner] \in Recorded
    /\ \A s \in Stopper : spc[s] \notin {"off", "not running"} =>
           target[s] \in Server /\ pc[target[s]] \in Recorded

(* A socket without any record belongs to a server about to write one.     *)
SocketIsExplained ==
    sock # None /\ ~orphaned => owner # None \/ pc[sock] = "publish"

LifecycleInv ==
    /\ LifecycleTypeOK
    /\ LockIsHeld
    /\ StoreIsHeld
    /\ FilesFollow
    /\ RemovesDead
    /\ TargetsPublished
    /\ SocketIsExplained
    /\ StoppedMeansDrained

USE LifecycleAssumption

-----------------------------------------------------------------------------
(* One server, or one stop command, takes a step and the others stay.      *)

Moves(p, l) ==
    /\ pc'[p] = l
    /\ \A q \in Server : q # p => pc'[q] = pc[q]
    /\ UNCHANGED stopVars

StopMoves(s, l) ==
    /\ spc'[s] = l
    /\ \A r \in Stopper : r # s => spc'[r] = spc[r]
    /\ UNCHANGED <<pc, orphaned>>

(* What Goto does to one server's place and to the others'.                *)
LEMMA GotoMoves ==
    ASSUME LifecycleTypeOK, NEW p \in Server, NEW l, Goto(p, l), UNCHANGED stopVars
    PROVE  Moves(p, l)
BY DEF LifecycleTypeOK, Goto, Moves

(* What StopAt does to one stop command's place and to the others'.        *)
LEMMA StopAtMoves ==
    ASSUME LifecycleTypeOK, NEW s \in Stopper, NEW l, StopAt(s, l),
           UNCHANGED <<pc, orphaned>>
    PROVE  StopMoves(s, l)
BY DEF LifecycleTypeOK, StopAt, StopMoves

(* The variables that name a server name one.                              *)
LEMMA NamesAreServers ==
    ASSUME LifecycleTypeOK
    PROVE  /\ {lock, store, sock, owner} \subseteq Server \cup Stopper \cup {None}
           /\ {store, sock, owner} \subseteq Server \cup {None}
BY DEF LifecycleTypeOK

(* A start ends without a service: it gives back what it holds and leaves  *)
(* the files alone.                                                        *)
StartEnds(p, l) ==
    /\ pc[p] \in {"verify", "open", "bind", "rebind"}
    /\ l \in {"reused", "failed"} /\ Goto(p, l)
    /\ lock' = None
    /\ store' = Freed(store, p)
    /\ UNCHANGED <<sock, owner, stop, stopVars, orphaned>>

(* The endings of a start that leaves no service keep the invariant.       *)
LEMMA StartEndsKeeps ==
    ASSUME LifecycleInv, NEW p \in Server, NEW l, StartEnds(p, l)
    PROVE  LifecycleInv'
<1>1. Moves(p, l)
    BY GotoMoves DEF LifecycleInv, StartEnds, stopVars
<1>2. /\ pc[p] \in {"verify", "open", "bind", "rebind"}
      /\ l \in {"reused", "failed"} /\ lock' = None /\ store' = Freed(store, p)
      /\ sock' = sock /\ owner' = owner /\ orphaned' = orphaned
    BY SMT DEF StartEnds
<1>3. LifecycleTypeOK'
    BY <1>2 DEF LifecycleInv, LifecycleTypeOK, StartEnds, Freed, Goto, stopVars, Ended, StopEnded
<1>4. LockIsHeld' /\ StoreIsHeld'
    BY <1>1, <1>2, NamesAreServers DEF LifecycleInv, LockIsHeld, StoreIsHeld, Locked, Opened,
       Moves, Freed, stopVars, Ended
<1>5. FilesFollow' /\ RemovesDead'
    BY ZenonT(60), <1>1, <1>2, NamesAreServers DEF LifecycleInv, FilesFollow, RemovesDead,
       TargetsPublished, LockIsHeld, StoreIsHeld, Locked, Opened, Moves, Freed, stopVars, Ended
<1>6. SocketIsExplained'
    BY <1>1, <1>2, NamesAreServers DEF LifecycleInv, SocketIsExplained, FilesFollow,
       LockIsHeld, RemovesDead, Locked, Moves, Freed, stopVars, Ended
<1>7. TargetsPublished' /\ StoppedMeansDrained'
    BY <1>1, <1>2, NamesAreServers DEF LifecycleInv, StoppedMeansDrained, TargetsPublished,
       FilesFollow, RemovesDead, StoreIsHeld, Recorded, Opened, Moves, Freed, stopVars, Ended
<1> QED BY <1>3, <1>4, <1>5, <1>6, <1>7 DEF LifecycleInv

(* A start takes start.lock, which nobody held.                            *)
LEMMA ServeKeeps ==
    ASSUME LifecycleInv, NEW p \in Server, Serve(p)
    PROVE  LifecycleInv'
<1>1. Moves(p, "verify")
    BY GotoMoves DEF LifecycleInv, Serve, stopVars
<1>2. /\ pc[p] = "off" /\ lock = None /\ lock' = p /\ store' = store
      /\ sock' = sock /\ owner' = owner /\ orphaned' = orphaned
    BY SMT DEF Serve
<1>3. LifecycleTypeOK'
    BY <1>2 DEF LifecycleInv, LifecycleTypeOK, Serve, Goto, stopVars, Ended, StopEnded
<1>4. LockIsHeld' /\ StoreIsHeld'
    BY <1>1, <1>2, NamesAreServers DEF LifecycleInv, LockIsHeld, StoreIsHeld, Locked, Opened,
       Moves, stopVars, Ended
<1>5. FilesFollow' /\ RemovesDead'
    BY <1>1, <1>2, NamesAreServers DEF LifecycleInv, FilesFollow, RemovesDead,
       TargetsPublished, LockIsHeld, StoreIsHeld, Locked, Opened, Moves, stopVars, Ended
<1>6. SocketIsExplained'
    BY <1>1, <1>2, NamesAreServers DEF LifecycleInv, SocketIsExplained, FilesFollow,
       LockIsHeld, RemovesDead, Locked, Moves, stopVars, Ended
<1>7. TargetsPublished' /\ StoppedMeansDrained'
    BY <1>1, <1>2, NamesAreServers DEF LifecycleInv, StoppedMeansDrained, TargetsPublished,
       FilesFollow, RemovesDead, StoreIsHeld, Recorded, Opened, Moves, stopVars, Ended
<1> QED BY <1>3, <1>4, <1>5, <1>6, <1>7 DEF LifecycleInv

(* A start that looks for a running service touches no file.               *)
LEMMA VerifyRunningKeeps ==
    ASSUME LifecycleInv, NEW p \in Server, VerifyRunning(p)
    PROVE  LifecycleInv'
<1>1. CASE Goto(p, "open") /\ lock' = lock
  <2>1. Moves(p, "open")
      BY <1>1, GotoMoves DEF LifecycleInv, VerifyRunning, stopVars
  <2>2. /\ pc[p] = "verify" /\ lock' = lock /\ store' = store /\ sock' = sock
        /\ owner' = owner /\ orphaned' = orphaned
      BY <1>1, SMT DEF VerifyRunning, Answers, Listening
  <2>3. LifecycleTypeOK'
      BY <1>1, <2>2 DEF LifecycleInv, LifecycleTypeOK, VerifyRunning, Goto, stopVars, Ended,
         StopEnded, Answers, Listening
  <2>4. LockIsHeld' /\ StoreIsHeld'
      BY <2>1, <2>2, NamesAreServers DEF LifecycleInv, LockIsHeld, StoreIsHeld, Locked,
         Opened, Moves, stopVars, Ended
  <2>5. FilesFollow' /\ RemovesDead'
      BY <2>1, <2>2, NamesAreServers DEF LifecycleInv, FilesFollow, RemovesDead,
         TargetsPublished, LockIsHeld, StoreIsHeld, Locked, Opened, Moves, stopVars, Ended
  <2>6. SocketIsExplained'
      BY <2>1, <2>2, NamesAreServers DEF LifecycleInv, SocketIsExplained, FilesFollow,
         LockIsHeld, RemovesDead, Locked, Moves, stopVars, Ended
  <2>7. TargetsPublished' /\ StoppedMeansDrained'
      BY <2>1, <2>2, NamesAreServers DEF LifecycleInv, StoppedMeansDrained, TargetsPublished,
         FilesFollow, RemovesDead, StoreIsHeld, Recorded, Opened, Moves, stopVars, Ended
  <2> QED BY <2>3, <2>4, <2>5, <2>6, <2>7 DEF LifecycleInv
<1>2. CASE (Goto(p, "reused") \/ Goto(p, "failed")) /\ lock' = None
    BY <1>2, StartEndsKeeps DEF LifecycleInv, StoreIsHeld, Opened, VerifyRunning, Freed,
       StartEnds
<1> QED BY <1>1, <1>2 DEF VerifyRunning, Answers, Listening

(* The store was closed, so nobody listens, publishes or drains.           *)
LEMMA OpenStoreKeeps ==
    ASSUME LifecycleInv, NEW p \in Server, OpenStore(p)
    PROVE  LifecycleInv'
<1>1. CASE store = None /\ store' = p /\ Goto(p, "bind") /\ lock' = lock
  <2>1. Moves(p, "bind")
      BY <1>1, GotoMoves DEF LifecycleInv, OpenStore, stopVars
  <2>2. /\ pc[p] = "open" /\ store = None /\ store' = p /\ lock' = lock
        /\ sock' = sock /\ owner' = owner /\ orphaned' = orphaned
      BY <1>1, SMT DEF OpenStore
  <2>3. LifecycleTypeOK'
      BY <1>1, <2>2 DEF LifecycleInv, LifecycleTypeOK, OpenStore, Goto, stopVars, Ended,
         StopEnded
  <2>4. LockIsHeld' /\ StoreIsHeld'
      BY <2>1, <2>2, NamesAreServers DEF LifecycleInv, LockIsHeld, StoreIsHeld, Locked,
         Opened, Moves, stopVars, Ended
  <2>5. FilesFollow'
      BY <2>1, <2>2, NamesAreServers DEF LifecycleInv, FilesFollow, LockIsHeld, StoreIsHeld,
         Locked, Opened, Moves, stopVars, Ended
  <2>6. RemovesDead'
      BY <2>1, <2>2, NamesAreServers DEF LifecycleInv, RemovesDead, TargetsPublished,
         LockIsHeld, Locked, Moves, stopVars, Ended
  <2>7. SocketIsExplained'
      BY <2>1, <2>2, NamesAreServers DEF LifecycleInv, SocketIsExplained, FilesFollow,
         LockIsHeld, RemovesDead, Locked, Moves, stopVars, Ended
  <2>8. TargetsPublished' /\ StoppedMeansDrained'
      BY <2>1, <2>2, NamesAreServers DEF LifecycleInv, StoppedMeansDrained, TargetsPublished,
         FilesFollow, RemovesDead, StoreIsHeld, Recorded, Opened, Moves, stopVars, Ended
  <2> QED BY <2>3, <2>4, <2>5, <2>6, <2>7, <2>8 DEF LifecycleInv
<1>2. CASE store # None /\ Goto(p, "failed") /\ lock' = None /\ store' = store
    BY <1>2, StartEndsKeeps DEF LifecycleInv, StoreIsHeld, Opened, OpenStore, Freed, StartEnds
<1> QED BY <1>1, <1>2 DEF OpenStore

(* The binder has the store: a socket in its way belongs to nobody who     *)
(* listens or publishes, and a service that listens keeps its own.         *)
LEMMA BindExclusiveKeeps ==
    ASSUME LifecycleInv, NEW p \in Server, BindExclusive(p)
    PROVE  LifecycleInv'
<1>1. CASE sock' = p /\ Goto(p, "publish") /\ UNCHANGED <<lock, store>>
  <2>1. Moves(p, "publish")
      BY <1>1, GotoMoves DEF LifecycleInv, BindExclusive, stopVars
  <2>2. /\ pc[p] \in {"bind", "rebind"} /\ sock' = p /\ lock' = lock
        /\ store' = store /\ owner' = owner /\ orphaned' = orphaned
      BY <1>1, SMT DEF BindExclusive, StartFails, Recoverable, OwnerIsDead
  <2>3. LifecycleTypeOK'
      BY <1>1, <2>2 DEF LifecycleInv, LifecycleTypeOK, BindExclusive, Goto, stopVars, Ended,
         StopEnded, StartFails, Recoverable, OwnerIsDead
  <2>4. LockIsHeld' /\ StoreIsHeld'
      BY <2>1, <2>2, NamesAreServers DEF LifecycleInv, LockIsHeld, StoreIsHeld, Locked,
         Opened, Moves, stopVars, Ended
  <2>5. FilesFollow'
      BY <2>1, <2>2, NamesAreServers DEF LifecycleInv, FilesFollow, LockIsHeld, StoreIsHeld,
         Locked, Opened, Moves, stopVars, Ended
  <2>6. RemovesDead'
      BY <2>1, <2>2, NamesAreServers DEF LifecycleInv, RemovesDead, TargetsPublished,
         LockIsHeld, Locked, Moves, stopVars, Ended
  <2>7. SocketIsExplained'
      BY <2>1, <2>2, NamesAreServers DEF LifecycleInv, SocketIsExplained, FilesFollow,
         LockIsHeld, RemovesDead, Locked, Moves, stopVars, Ended
  <2>8. TargetsPublished' /\ StoppedMeansDrained'
      BY <2>1, <2>2, NamesAreServers DEF LifecycleInv, StoppedMeansDrained, TargetsPublished,
         FilesFollow, RemovesDead, StoreIsHeld, Recorded, Opened, Moves, stopVars, Ended
  <2> QED BY <2>3, <2>4, <2>5, <2>6, <2>7, <2>8 DEF LifecycleInv
<1>2. CASE sock' = None /\ Goto(p, "rebind") /\ UNCHANGED <<lock, store>>
  <2>1. Moves(p, "rebind")
      BY <1>2, GotoMoves DEF LifecycleInv, BindExclusive, stopVars
  <2>2. /\ pc[p] = "bind" /\ sock' = None /\ lock' = lock /\ store' = store
        /\ owner' = owner /\ orphaned' = orphaned
      BY <1>2, SMT DEF BindExclusive, StartFails, Recoverable, OwnerIsDead
  <2>3. LifecycleTypeOK'
      BY <1>2, <2>2 DEF LifecycleInv, LifecycleTypeOK, BindExclusive, Goto, stopVars, Ended,
         StopEnded, StartFails, Recoverable, OwnerIsDead
  <2>4. LockIsHeld' /\ StoreIsHeld'
      BY <2>1, <2>2, NamesAreServers DEF LifecycleInv, LockIsHeld, StoreIsHeld, Locked,
         Opened, Moves, stopVars, Ended
  <2>5. FilesFollow'
      BY <2>1, <2>2, NamesAreServers DEF LifecycleInv, FilesFollow, LockIsHeld, StoreIsHeld,
         Locked, Opened, Moves, stopVars, Ended
  <2>6. RemovesDead'
      BY <2>1, <2>2, NamesAreServers DEF LifecycleInv, RemovesDead, TargetsPublished,
         LockIsHeld, Locked, Moves, stopVars, Ended
  <2>7. SocketIsExplained'
      BY <2>1, <2>2, NamesAreServers DEF LifecycleInv, SocketIsExplained, FilesFollow,
         LockIsHeld, RemovesDead, Locked, Moves, stopVars, Ended
  <2>8. TargetsPublished' /\ StoppedMeansDrained'
      BY <2>1, <2>2, NamesAreServers DEF LifecycleInv, StoppedMeansDrained, TargetsPublished,
         FilesFollow, RemovesDead, StoreIsHeld, Recorded, Opened, Moves, stopVars, Ended
  <2> QED BY <2>3, <2>4, <2>5, <2>6, <2>7, <2>8 DEF LifecycleInv
<1>3. CASE StartFails(p)
    BY <1>3, StartEndsKeeps DEF LifecycleInv, StoreIsHeld, Opened, BindExclusive, Freed,
       StartEnds, StartFails
<1> QED BY <1>1, <1>2, <1>3 DEF BindExclusive, StartFails, Recoverable, OwnerIsDead

(* The record that is replaced belongs to no service that still works: the *)
(* store is the publisher's.                                               *)
LEMMA WriteOwnerKeeps ==
    ASSUME LifecycleInv, NEW p \in Server, WriteOwner(p)
    PROVE  LifecycleInv'
<1>1. Moves(p, "starting")
    BY GotoMoves DEF LifecycleInv, WriteOwner, stopVars
<1>2. /\ pc[p] = "publish" /\ owner' = p /\ lock' = None /\ store' = store
      /\ sock' = sock /\ orphaned' = orphaned
    BY SMT DEF WriteOwner
<1>3. LifecycleTypeOK'
    BY <1>2 DEF LifecycleInv, LifecycleTypeOK, WriteOwner, Goto, stopVars, Ended, StopEnded
<1>4. LockIsHeld' /\ StoreIsHeld'
    BY <1>1, <1>2, NamesAreServers DEF LifecycleInv, LockIsHeld, StoreIsHeld, Locked, Opened,
       Moves, stopVars, Ended
<1>5. FilesFollow' /\ RemovesDead'
    BY <1>1, <1>2, NamesAreServers DEF LifecycleInv, FilesFollow, RemovesDead,
       TargetsPublished, LockIsHeld, StoreIsHeld, Locked, Opened, Moves, stopVars, Ended
<1>6. SocketIsExplained'
    BY <1>1, <1>2, NamesAreServers DEF LifecycleInv, SocketIsExplained, FilesFollow,
       LockIsHeld, RemovesDead, Locked, Moves, stopVars, Ended
<1>7. TargetsPublished' /\ StoppedMeansDrained'
    BY <1>1, <1>2, NamesAreServers DEF LifecycleInv, StoppedMeansDrained, TargetsPublished,
       FilesFollow, RemovesDead, StoreIsHeld, Recorded, Opened, Moves, stopVars, Ended
<1> QED BY <1>3, <1>4, <1>5, <1>6, <1>7 DEF LifecycleInv

(* A service begins to serve; its files are in place.                      *)
LEMMA RunKeeps ==
    ASSUME LifecycleInv, NEW p \in Server, Run(p)
    PROVE  LifecycleInv'
<1>1. Moves(p, "serving")
    BY GotoMoves DEF LifecycleInv, Run, stopVars
<1>2. /\ pc[p] = "starting" /\ lock' = lock /\ store' = store /\ sock' = sock
      /\ owner' = owner /\ orphaned' = orphaned
    BY SMT DEF Run
<1>3. LifecycleTypeOK'
    BY <1>2 DEF LifecycleInv, LifecycleTypeOK, Run, Goto, stopVars, Ended, StopEnded
<1>4. LockIsHeld' /\ StoreIsHeld'
    BY <1>1, <1>2, NamesAreServers DEF LifecycleInv, LockIsHeld, StoreIsHeld, Locked, Opened,
       Moves, stopVars, Ended
<1>5. FilesFollow' /\ RemovesDead'
    BY <1>1, <1>2, NamesAreServers DEF LifecycleInv, FilesFollow, RemovesDead,
       TargetsPublished, LockIsHeld, StoreIsHeld, Locked, Opened, Moves, stopVars, Ended
<1>6. SocketIsExplained'
    BY <1>1, <1>2, NamesAreServers DEF LifecycleInv, SocketIsExplained, FilesFollow,
       LockIsHeld, RemovesDead, Locked, Moves, stopVars, Ended
<1>7. TargetsPublished' /\ StoppedMeansDrained'
    BY <1>1, <1>2, NamesAreServers DEF LifecycleInv, StoppedMeansDrained, TargetsPublished,
       FilesFollow, RemovesDead, StoreIsHeld, Recorded, Opened, Moves, stopVars, Ended
<1> QED BY <1>3, <1>4, <1>5, <1>6, <1>7 DEF LifecycleInv

(* The listener closes, and perhaps its path goes with it.                 *)
LEMMA CloseListenerKeeps ==
    ASSUME LifecycleInv, NEW p \in Server, CloseListener(p)
    PROVE  LifecycleInv'
<1>1. Moves(p, "closing")
    BY GotoMoves DEF LifecycleInv, CloseListener, stopVars
<1>2. /\ pc[p] = "serving" /\ sock' \in {sock, None} /\ lock' = lock
      /\ store' = store /\ owner' = owner /\ orphaned' = orphaned
    BY SMT DEF CloseListener
<1>3. LifecycleTypeOK'
    BY <1>2 DEF LifecycleInv, LifecycleTypeOK, CloseListener, Goto, stopVars, Ended, StopEnded
<1>4. LockIsHeld' /\ StoreIsHeld'
    BY <1>1, <1>2, NamesAreServers DEF LifecycleInv, LockIsHeld, StoreIsHeld, Locked, Opened,
       Moves, stopVars, Ended
<1>5. FilesFollow' /\ RemovesDead'
    BY <1>1, <1>2, NamesAreServers DEF LifecycleInv, FilesFollow, RemovesDead,
       TargetsPublished, LockIsHeld, StoreIsHeld, Locked, Opened, Moves, stopVars, Ended
<1>6. SocketIsExplained'
    BY <1>1, <1>2, NamesAreServers DEF LifecycleInv, SocketIsExplained, FilesFollow,
       LockIsHeld, RemovesDead, Locked, Moves, stopVars, Ended
<1>7. TargetsPublished' /\ StoppedMeansDrained'
    BY <1>1, <1>2, NamesAreServers DEF LifecycleInv, StoppedMeansDrained, TargetsPublished,
       FilesFollow, RemovesDead, StoreIsHeld, Recorded, Opened, Moves, stopVars, Ended
<1> QED BY <1>3, <1>4, <1>5, <1>6, <1>7 DEF LifecycleInv

(* A drained service has closed the store: a successor may now take its    *)
(* endpoint and its record.                                                *)
LEMMA DrainedKeeps ==
    ASSUME LifecycleInv, NEW p \in Server, Drained(p)
    PROVE  LifecycleInv'
<1>1. Moves(p, "release")
    BY GotoMoves DEF LifecycleInv, Drained, stopVars
<1>2. /\ pc[p] = "closing" /\ store' = None /\ lock' = lock /\ sock' = sock
      /\ owner' = owner /\ orphaned' = orphaned
    BY SMT DEF Drained
<1>3. LifecycleTypeOK'
    BY <1>2 DEF LifecycleInv, LifecycleTypeOK, Drained, Goto, stopVars, Ended, StopEnded
<1>4. LockIsHeld' /\ StoreIsHeld'
    BY <1>1, <1>2, NamesAreServers DEF LifecycleInv, LockIsHeld, StoreIsHeld, Locked, Opened,
       Moves, stopVars, Ended
<1>5. FilesFollow' /\ RemovesDead'
    BY <1>1, <1>2, NamesAreServers DEF LifecycleInv, FilesFollow, RemovesDead,
       TargetsPublished, LockIsHeld, StoreIsHeld, Locked, Opened, Moves, stopVars, Ended
<1>6. SocketIsExplained'
    BY <1>1, <1>2, NamesAreServers DEF LifecycleInv, SocketIsExplained, FilesFollow,
       LockIsHeld, RemovesDead, Locked, Moves, stopVars, Ended
<1>7. TargetsPublished' /\ StoppedMeansDrained'
    BY <1>1, <1>2, NamesAreServers DEF LifecycleInv, StoppedMeansDrained, TargetsPublished,
       FilesFollow, RemovesDead, StoreIsHeld, Recorded, Opened, Moves, stopVars, Ended
<1> QED BY <1>3, <1>4, <1>5, <1>6, <1>7 DEF LifecycleInv

(* A leaving service takes start.lock again.                               *)
LEMMA AcquireReleaseKeeps ==
    ASSUME LifecycleInv, NEW p \in Server, AcquireRelease(p)
    PROVE  LifecycleInv'
<1>1. Moves(p, "check")
    BY GotoMoves DEF LifecycleInv, AcquireRelease, stopVars
<1>2. /\ pc[p] = "release" /\ lock = None /\ lock' = p /\ store' = store
      /\ sock' = sock /\ owner' = owner /\ orphaned' = orphaned
    BY SMT DEF AcquireRelease
<1>3. LifecycleTypeOK'
    BY <1>2 DEF LifecycleInv, LifecycleTypeOK, AcquireRelease, Goto, stopVars, Ended, StopEnded
<1>4. LockIsHeld' /\ StoreIsHeld'
    BY <1>1, <1>2, NamesAreServers DEF LifecycleInv, LockIsHeld, StoreIsHeld, Locked, Opened,
       Moves, stopVars, Ended
<1>5. FilesFollow' /\ RemovesDead'
    BY <1>1, <1>2, NamesAreServers DEF LifecycleInv, FilesFollow, RemovesDead,
       TargetsPublished, LockIsHeld, StoreIsHeld, Locked, Opened, Moves, stopVars, Ended
<1>6. SocketIsExplained'
    BY <1>1, <1>2, NamesAreServers DEF LifecycleInv, SocketIsExplained, FilesFollow,
       LockIsHeld, RemovesDead, Locked, Moves, stopVars, Ended
<1>7. TargetsPublished' /\ StoppedMeansDrained'
    BY <1>1, <1>2, NamesAreServers DEF LifecycleInv, StoppedMeansDrained, TargetsPublished,
       FilesFollow, RemovesDead, StoreIsHeld, Recorded, Opened, Moves, stopVars, Ended
<1> QED BY <1>3, <1>4, <1>5, <1>6, <1>7 DEF LifecycleInv

(* The endpoint is removed by the generation that the record names, under  *)
(* the lock that a publisher would need.                                   *)
LEMMA ReleaseCheckKeeps ==
    ASSUME LifecycleInv, NEW p \in Server, ReleaseCheck(p)
    PROVE  LifecycleInv'
<1>1. CASE owner = p /\ sock' = None /\ Goto(p, "unlink") /\ lock' = lock
  <2>1. Moves(p, "unlink")
      BY <1>1, GotoMoves DEF LifecycleInv, ReleaseCheck, stopVars
  <2>2. /\ pc[p] = "check" /\ owner = p /\ sock' = None /\ lock' = lock
        /\ store' = store /\ owner' = owner /\ orphaned' = orphaned
      BY <1>1, SMT DEF ReleaseCheck
  <2>3. LifecycleTypeOK'
      BY <1>1, <2>2 DEF LifecycleInv, LifecycleTypeOK, ReleaseCheck, Goto, stopVars, Ended,
         StopEnded
  <2>4. LockIsHeld' /\ StoreIsHeld'
      BY <2>1, <2>2, NamesAreServers DEF LifecycleInv, LockIsHeld, StoreIsHeld, Locked,
         Opened, Moves, stopVars, Ended
  <2>5. FilesFollow' /\ RemovesDead'
      BY <2>1, <2>2, NamesAreServers DEF LifecycleInv, FilesFollow, RemovesDead,
         TargetsPublished, LockIsHeld, StoreIsHeld, Locked, Opened, Moves, stopVars, Ended
  <2>6. SocketIsExplained'
      BY <2>1, <2>2, NamesAreServers DEF LifecycleInv, SocketIsExplained, FilesFollow,
         LockIsHeld, RemovesDead, Locked, Moves, stopVars, Ended
  <2>7. TargetsPublished' /\ StoppedMeansDrained'
      BY <2>1, <2>2, NamesAreServers DEF LifecycleInv, StoppedMeansDrained, TargetsPublished,
         FilesFollow, RemovesDead, StoreIsHeld, Recorded, Opened, Moves, stopVars, Ended
  <2> QED BY <2>3, <2>4, <2>5, <2>6, <2>7 DEF LifecycleInv
<1>2. CASE owner # p /\ lock' = None /\ Goto(p, "gone") /\ sock' = sock
  <2>1. Moves(p, "gone")
      BY <1>2, GotoMoves DEF LifecycleInv, ReleaseCheck, stopVars
  <2>2. /\ pc[p] = "check" /\ lock' = None /\ store' = store /\ sock' = sock
        /\ owner' = owner /\ orphaned' = orphaned
      BY <1>2, SMT DEF ReleaseCheck
  <2>3. LifecycleTypeOK'
      BY <1>2, <2>2 DEF LifecycleInv, LifecycleTypeOK, ReleaseCheck, Goto, stopVars, Ended,
         StopEnded
  <2>4. LockIsHeld' /\ StoreIsHeld'
      BY <2>1, <2>2, NamesAreServers DEF LifecycleInv, LockIsHeld, StoreIsHeld, Locked,
         Opened, Moves, stopVars, Ended
  <2>5. FilesFollow' /\ RemovesDead'
      BY <2>1, <2>2, NamesAreServers DEF LifecycleInv, FilesFollow, RemovesDead,
         TargetsPublished, LockIsHeld, StoreIsHeld, Locked, Opened, Moves, stopVars, Ended
  <2>6. SocketIsExplained'
      BY <2>1, <2>2, NamesAreServers DEF LifecycleInv, SocketIsExplained, FilesFollow,
         LockIsHeld, RemovesDead, Locked, Moves, stopVars, Ended
  <2>7. TargetsPublished' /\ StoppedMeansDrained'
      BY <2>1, <2>2, NamesAreServers DEF LifecycleInv, StoppedMeansDrained, TargetsPublished,
         FilesFollow, RemovesDead, StoreIsHeld, Recorded, Opened, Moves, stopVars, Ended
  <2> QED BY <2>3, <2>4, <2>5, <2>6, <2>7 DEF LifecycleInv
<1> QED BY <1>1, <1>2 DEF ReleaseCheck

(* The record that is removed is the one that was checked: nobody else had *)
(* start.lock in between.                                                  *)
LEMMA ReleaseRecordKeeps ==
    ASSUME LifecycleInv, NEW p \in Server, ReleaseRecord(p)
    PROVE  LifecycleInv'
<1>1. Moves(p, "gone")
    BY GotoMoves DEF LifecycleInv, ReleaseRecord, stopVars
<1>2. /\ pc[p] = "unlink" /\ owner' = None /\ lock' = None /\ store' = store
      /\ sock' = sock /\ orphaned' = orphaned
    BY SMT DEF ReleaseRecord
<1>3. LifecycleTypeOK'
    BY <1>2 DEF LifecycleInv, LifecycleTypeOK, ReleaseRecord, Goto, stopVars, Ended, StopEnded
<1>4. LockIsHeld' /\ StoreIsHeld'
    BY <1>1, <1>2, NamesAreServers DEF LifecycleInv, LockIsHeld, StoreIsHeld, Locked, Opened,
       Moves, stopVars, Ended
<1>5. FilesFollow'
    BY <1>1, <1>2, NamesAreServers DEF LifecycleInv, FilesFollow, LockIsHeld, StoreIsHeld,
       Locked, Opened, Moves, stopVars, Ended
<1>6. RemovesDead'
    BY <1>1, <1>2, NamesAreServers DEF LifecycleInv, RemovesDead, TargetsPublished,
       LockIsHeld, Locked, Moves, stopVars, Ended
<1>7. SocketIsExplained'
    BY <1>1, <1>2, NamesAreServers DEF LifecycleInv, SocketIsExplained, FilesFollow,
       LockIsHeld, RemovesDead, Locked, Moves, stopVars, Ended
<1>8. TargetsPublished' /\ StoppedMeansDrained'
    BY <1>1, <1>2, NamesAreServers DEF LifecycleInv, StoppedMeansDrained, TargetsPublished,
       FilesFollow, RemovesDead, StoreIsHeld, Recorded, Opened, Moves, stopVars, Ended
<1> QED BY <1>3, <1>4, <1>5, <1>6, <1>7, <1>8 DEF LifecycleInv

(* A death frees both locks and leaves the files as they were.             *)
LEMMA CrashKeeps ==
    ASSUME LifecycleInv, NEW p \in Server, Crash(p)
    PROVE  LifecycleInv'
<1>1. Moves(p, "dead")
    BY GotoMoves DEF LifecycleInv, Crash, stopVars
<1>2. /\ pc[p] \notin {"off"} \cup Ended /\ lock' = Freed(lock, p)
      /\ store' = Freed(store, p)
      /\ orphaned' = (orphaned \/ (pc[p] = "publish" /\ owner = None))
      /\ sock' = sock /\ owner' = owner
    BY SMT DEF Crash
<1>3. LifecycleTypeOK'
    BY <1>2 DEF LifecycleInv, LifecycleTypeOK, Crash, Goto, stopVars, Ended, StopEnded, Freed
<1>4. LockIsHeld' /\ StoreIsHeld'
    BY <1>1, <1>2, NamesAreServers DEF LifecycleInv, LockIsHeld, StoreIsHeld, Locked, Opened,
       Moves, stopVars, Ended, Freed
<1>5. FilesFollow'
    BY <1>1, <1>2, NamesAreServers DEF LifecycleInv, FilesFollow, LockIsHeld, StoreIsHeld,
       Locked, Opened, Moves, stopVars, Ended, Freed
<1>6. RemovesDead'
    BY ZenonT(60), <1>1, <1>2, NamesAreServers DEF LifecycleInv, RemovesDead, TargetsPublished,
       LockIsHeld, Locked, Moves, stopVars, Ended, Freed
<1>7. SocketIsExplained'
    BY <1>1, <1>2, NamesAreServers DEF LifecycleInv, SocketIsExplained, FilesFollow,
       LockIsHeld, RemovesDead, Locked, Moves, stopVars, Ended, Freed
<1>8. TargetsPublished' /\ StoppedMeansDrained'
    BY ZenonT(60), <1>1, <1>2, NamesAreServers DEF LifecycleInv, StoppedMeansDrained, TargetsPublished,
       FilesFollow, RemovesDead, StoreIsHeld, Recorded, Opened, Moves, stopVars, Ended, Freed
<1> QED BY <1>3, <1>4, <1>5, <1>6, <1>7, <1>8 DEF LifecycleInv

(* A stop command that another generation refuses: that one has the store, *)
(* so the target has closed it.                                            *)
LEMMA SendStopKeeps ==
    ASSUME LifecycleInv, NEW s \in Stopper, SendStop(s)
    PROVE  LifecycleInv'
<1>1. CASE StopAt(s, "wait")
  <2>1. StopMoves(s, "wait")
      BY <1>1, StopAtMoves DEF LifecycleInv, SendStop
  <2>2. /\ spc[s] = "send" /\ store' = store /\ target' = target /\ lock' = lock
        /\ sock' = sock /\ owner' = owner
      BY <1>1, SMT DEF SendStop, Answers, Listening
  <2>3. LifecycleTypeOK'
      BY <1>1, <2>2 DEF LifecycleInv, LifecycleTypeOK, SendStop, StopAt, Ended, StopEnded,
         Answers, Listening
  <2>4. LockIsHeld' /\ StoreIsHeld'
      BY <2>1, <2>2, NamesAreServers DEF LifecycleInv, LockIsHeld, StoreIsHeld, Locked,
         Opened, StopMoves, Ended
  <2>5. FilesFollow' /\ RemovesDead'
      BY <2>1, <2>2, NamesAreServers DEF LifecycleInv, FilesFollow, RemovesDead,
         TargetsPublished, LockIsHeld, StoreIsHeld, Locked, Opened, StopMoves, Ended
  <2>6. SocketIsExplained'
      BY <2>1, <2>2, NamesAreServers DEF LifecycleInv, SocketIsExplained, FilesFollow,
         LockIsHeld, RemovesDead, Locked, StopMoves, Ended
  <2>7. TargetsPublished' /\ StoppedMeansDrained'
      BY <2>1, <2>2, NamesAreServers DEF LifecycleInv, StoppedMeansDrained, TargetsPublished,
         FilesFollow, RemovesDead, StoreIsHeld, Recorded, Opened, StopMoves, Ended
  <2> QED BY <2>3, <2>4, <2>5, <2>6, <2>7 DEF LifecycleInv
<1>2. CASE StopAt(s, "error")
  <2>1. StopMoves(s, "error")
      BY <1>2, StopAtMoves DEF LifecycleInv, SendStop
  <2>2. /\ spc[s] = "send" /\ store' = store /\ target' = target /\ lock' = lock
        /\ sock' = sock /\ owner' = owner
      BY <1>2, SMT DEF SendStop, Answers, Listening
  <2>3. LifecycleTypeOK'
      BY <1>2, <2>2 DEF LifecycleInv, LifecycleTypeOK, SendStop, StopAt, Ended, StopEnded,
         Answers, Listening
  <2>4. LockIsHeld' /\ StoreIsHeld'
      BY <2>1, <2>2, NamesAreServers DEF LifecycleInv, LockIsHeld, StoreIsHeld, Locked,
         Opened, StopMoves, Ended
  <2>5. FilesFollow' /\ RemovesDead'
      BY <2>1, <2>2, NamesAreServers DEF LifecycleInv, FilesFollow, RemovesDead,
         TargetsPublished, LockIsHeld, StoreIsHeld, Locked, Opened, StopMoves, Ended
  <2>6. SocketIsExplained'
      BY <2>1, <2>2, NamesAreServers DEF LifecycleInv, SocketIsExplained, FilesFollow,
         LockIsHeld, RemovesDead, Locked, StopMoves, Ended
  <2>7. TargetsPublished' /\ StoppedMeansDrained'
      BY <2>1, <2>2, NamesAreServers DEF LifecycleInv, StoppedMeansDrained, TargetsPublished,
         FilesFollow, RemovesDead, StoreIsHeld, Recorded, Opened, StopMoves, Ended
  <2> QED BY <2>3, <2>4, <2>5, <2>6, <2>7 DEF LifecycleInv
<1>3. CASE sock # None /\ pc[sock] = "serving" /\ sock # target[s] /\ StopAt(s, "stopped")
  <2>1. StopMoves(s, "stopped")
      BY <1>3, StopAtMoves DEF LifecycleInv, SendStop
  <2>2. /\ spc[s] = "send" /\ sock # None /\ pc[sock] = "serving"
        /\ sock # target[s] /\ store' = store /\ target' = target /\ lock' = lock
        /\ sock' = sock /\ owner' = owner
      BY <1>3, SMT DEF SendStop, Answers, Listening
  <2>3. LifecycleTypeOK'
      BY <1>3, <2>2 DEF LifecycleInv, LifecycleTypeOK, SendStop, StopAt, Ended, StopEnded,
         Answers, Listening
  <2>4. LockIsHeld' /\ StoreIsHeld'
      BY <2>1, <2>2, NamesAreServers DEF LifecycleInv, LockIsHeld, StoreIsHeld, Locked,
         Opened, StopMoves, Ended
  <2>5. FilesFollow' /\ RemovesDead'
      BY <2>1, <2>2, NamesAreServers DEF LifecycleInv, FilesFollow, RemovesDead,
         TargetsPublished, LockIsHeld, StoreIsHeld, Locked, Opened, StopMoves, Ended
  <2>6. SocketIsExplained'
      BY <2>1, <2>2, NamesAreServers DEF LifecycleInv, SocketIsExplained, FilesFollow,
         LockIsHeld, RemovesDead, Locked, StopMoves, Ended
  <2>7. TargetsPublished' /\ StoppedMeansDrained'
      BY <2>1, <2>2, NamesAreServers DEF LifecycleInv, StoppedMeansDrained, TargetsPublished,
         FilesFollow, RemovesDead, StoreIsHeld, Recorded, Opened, StopMoves, Ended
  <2> QED BY <2>3, <2>4, <2>5, <2>6, <2>7 DEF LifecycleInv
<1> QED BY <1>1, <1>2, <1>3 DEF SendStop, Answers, Listening

(* A published target that the record does not name any more has drained.  *)
LEMMA WaitGoneKeeps ==
    ASSUME LifecycleInv, NEW s \in Stopper, WaitGone(s)
    PROVE  LifecycleInv'
<1>1. CASE owner # target[s] /\ StopAt(s, "stopped")
  <2>1. StopMoves(s, "stopped")
      BY <1>1, StopAtMoves DEF LifecycleInv, WaitGone
  <2>2. /\ spc[s] = "wait" /\ owner # target[s] /\ store' = store
        /\ target' = target /\ lock' = lock /\ sock' = sock /\ owner' = owner
      BY <1>1, SMT DEF WaitGone, OwnerIsDead
  <2>3. LifecycleTypeOK'
      BY <1>1, <2>2 DEF LifecycleInv, LifecycleTypeOK, WaitGone, StopAt, Ended, StopEnded,
         OwnerIsDead
  <2>4. LockIsHeld' /\ StoreIsHeld'
      BY <2>1, <2>2, NamesAreServers DEF LifecycleInv, LockIsHeld, StoreIsHeld, Locked,
         Opened, StopMoves, Ended
  <2>5. FilesFollow' /\ RemovesDead'
      BY ZenonT(60), <2>1, <2>2, NamesAreServers DEF LifecycleInv, FilesFollow, RemovesDead,
         TargetsPublished, LockIsHeld, StoreIsHeld, Locked, Opened, StopMoves, Ended
  <2>6. SocketIsExplained'
      BY <2>1, <2>2, NamesAreServers DEF LifecycleInv, SocketIsExplained, FilesFollow,
         LockIsHeld, RemovesDead, Locked, StopMoves, Ended
  <2>7. TargetsPublished' /\ StoppedMeansDrained'
      BY <2>1, <2>2, NamesAreServers DEF LifecycleInv, StoppedMeansDrained, TargetsPublished,
         FilesFollow, RemovesDead, StoreIsHeld, Recorded, Opened, StopMoves, Ended
  <2> QED BY <2>3, <2>4, <2>5, <2>6, <2>7 DEF LifecycleInv
<1>2. CASE StopAt(s, "lock")
  <2>1. StopMoves(s, "lock")
      BY <1>2, StopAtMoves DEF LifecycleInv, WaitGone
  <2>2. /\ spc[s] = "wait" /\ store' = store /\ target' = target /\ lock' = lock
        /\ sock' = sock /\ owner' = owner
      BY <1>2, SMT DEF WaitGone, OwnerIsDead
  <2>3. LifecycleTypeOK'
      BY <1>2, <2>2 DEF LifecycleInv, LifecycleTypeOK, WaitGone, StopAt, Ended, StopEnded,
         OwnerIsDead
  <2>4. LockIsHeld' /\ StoreIsHeld'
      BY <2>1, <2>2, NamesAreServers DEF LifecycleInv, LockIsHeld, StoreIsHeld, Locked,
         Opened, StopMoves, Ended
  <2>5. FilesFollow' /\ RemovesDead'
      BY <2>1, <2>2, NamesAreServers DEF LifecycleInv, FilesFollow, RemovesDead,
         TargetsPublished, LockIsHeld, StoreIsHeld, Locked, Opened, StopMoves, Ended
  <2>6. SocketIsExplained'
      BY <2>1, <2>2, NamesAreServers DEF LifecycleInv, SocketIsExplained, FilesFollow,
         LockIsHeld, RemovesDead, Locked, StopMoves, Ended
  <2>7. TargetsPublished' /\ StoppedMeansDrained'
      BY <2>1, <2>2, NamesAreServers DEF LifecycleInv, StoppedMeansDrained, TargetsPublished,
         FilesFollow, RemovesDead, StoreIsHeld, Recorded, Opened, StopMoves, Ended
  <2> QED BY <2>3, <2>4, <2>5, <2>6, <2>7 DEF LifecycleInv
<1> QED BY <1>1, <1>2 DEF WaitGone, OwnerIsDead

(* The wait ends and nothing is concluded from it.                         *)
LEMMA DeadlineKeeps ==
    ASSUME LifecycleInv, NEW s \in Stopper, Deadline(s)
    PROVE  LifecycleInv'
<1>1. StopMoves(s, "lock")
    BY StopAtMoves DEF LifecycleInv, Deadline
<1>2. /\ spc[s] = "wait" /\ store' = store /\ target' = target /\ lock' = lock
      /\ sock' = sock /\ owner' = owner
    BY SMT DEF Deadline
<1>3. LifecycleTypeOK'
    BY <1>2 DEF LifecycleInv, LifecycleTypeOK, Deadline, StopAt, Ended, StopEnded
<1>4. LockIsHeld' /\ StoreIsHeld'
    BY <1>1, <1>2, NamesAreServers DEF LifecycleInv, LockIsHeld, StoreIsHeld, Locked, Opened,
       StopMoves, Ended
<1>5. FilesFollow' /\ RemovesDead'
    BY <1>1, <1>2, NamesAreServers DEF LifecycleInv, FilesFollow, RemovesDead,
       TargetsPublished, LockIsHeld, StoreIsHeld, Locked, Opened, StopMoves, Ended
<1>6. SocketIsExplained'
    BY <1>1, <1>2, NamesAreServers DEF LifecycleInv, SocketIsExplained, FilesFollow,
       LockIsHeld, RemovesDead, Locked, StopMoves, Ended
<1>7. TargetsPublished' /\ StoppedMeansDrained'
    BY <1>1, <1>2, NamesAreServers DEF LifecycleInv, StoppedMeansDrained, TargetsPublished,
       FilesFollow, RemovesDead, StoreIsHeld, Recorded, Opened, StopMoves, Ended
<1> QED BY <1>3, <1>4, <1>5, <1>6, <1>7 DEF LifecycleInv

(* A stop command takes start.lock, which nobody held.                     *)
LEMMA AcquireStopKeeps ==
    ASSUME LifecycleInv, NEW s \in Stopper, AcquireStop(s)
    PROVE  LifecycleInv'
<1>1. StopMoves(s, "check")
    BY StopAtMoves DEF LifecycleInv, AcquireStop
<1>2. /\ spc[s] = "lock" /\ lock = None /\ lock' = s /\ sock' = sock
      /\ owner' = owner /\ store' = store /\ target' = target
    BY SMT DEF AcquireStop
<1>3. LifecycleTypeOK'
    BY <1>2 DEF LifecycleInv, LifecycleTypeOK, AcquireStop, StopAt, Ended, StopEnded
<1>4. LockIsHeld' /\ StoreIsHeld'
    BY <1>1, <1>2, NamesAreServers DEF LifecycleInv, LockIsHeld, StoreIsHeld, Locked, Opened,
       StopMoves, Ended
<1>5. FilesFollow' /\ RemovesDead'
    BY <1>1, <1>2, NamesAreServers DEF LifecycleInv, FilesFollow, RemovesDead,
       TargetsPublished, LockIsHeld, StoreIsHeld, Locked, Opened, StopMoves, Ended
<1>6. SocketIsExplained'
    BY <1>1, <1>2, NamesAreServers DEF LifecycleInv, SocketIsExplained, FilesFollow,
       LockIsHeld, RemovesDead, Locked, StopMoves, Ended
<1>7. TargetsPublished' /\ StoppedMeansDrained'
    BY <1>1, <1>2, NamesAreServers DEF LifecycleInv, StoppedMeansDrained, TargetsPublished,
       FilesFollow, RemovesDead, StoreIsHeld, Recorded, Opened, StopMoves, Ended
<1> QED BY <1>3, <1>4, <1>5, <1>6, <1>7 DEF LifecycleInv

(* Under start.lock the endpoint is removed for a dead target only.        *)
LEMMA StopCheckKeeps ==
    ASSUME LifecycleInv, NEW s \in Stopper, StopCheck(s)
    PROVE  LifecycleInv'
<1>1. CASE owner # target[s] /\ StopAt(s, "stopped") /\ lock' = None /\ sock' = sock
  <2>1. StopMoves(s, "stopped")
      BY <1>1, StopAtMoves DEF LifecycleInv, StopCheck
  <2>2. /\ spc[s] = "check" /\ owner # target[s] /\ lock' = None /\ sock' = sock
        /\ owner' = owner /\ store' = store /\ target' = target
      BY <1>1, SMT DEF StopCheck, OwnerIsDead
  <2>3. LifecycleTypeOK'
      BY <1>1, <2>2 DEF LifecycleInv, LifecycleTypeOK, StopCheck, StopAt, Ended, StopEnded,
         OwnerIsDead
  <2>4. LockIsHeld' /\ StoreIsHeld'
      BY <2>1, <2>2, NamesAreServers DEF LifecycleInv, LockIsHeld, StoreIsHeld, Locked,
         Opened, StopMoves, Ended
  <2>5. FilesFollow' /\ RemovesDead'
      BY <2>1, <2>2, NamesAreServers DEF LifecycleInv, FilesFollow, RemovesDead,
         TargetsPublished, LockIsHeld, StoreIsHeld, Locked, Opened, StopMoves, Ended
  <2>6. SocketIsExplained'
      BY <2>1, <2>2, NamesAreServers DEF LifecycleInv, SocketIsExplained, FilesFollow,
         LockIsHeld, RemovesDead, Locked, StopMoves, Ended
  <2>7. TargetsPublished' /\ StoppedMeansDrained'
      BY <2>1, <2>2, NamesAreServers DEF LifecycleInv, StoppedMeansDrained, TargetsPublished,
         FilesFollow, RemovesDead, StoreIsHeld, Recorded, Opened, StopMoves, Ended
  <2> QED BY <2>3, <2>4, <2>5, <2>6, <2>7 DEF LifecycleInv
<1>2. CASE owner = target[s] /\ OwnerIsDead /\ sock' = None /\ StopAt(s, "unlink") /\ lock' =
   lock
  <2>1. StopMoves(s, "unlink")
      BY <1>2, StopAtMoves DEF LifecycleInv, StopCheck
  <2>2. /\ spc[s] = "check" /\ owner = target[s] /\ owner # None
        /\ pc[owner] \in Ended /\ sock' = None /\ lock' = lock /\ owner' = owner
        /\ store' = store /\ target' = target
      BY <1>2, SMT DEF StopCheck, OwnerIsDead
  <2>3. LifecycleTypeOK'
      BY <1>2, <2>2 DEF LifecycleInv, LifecycleTypeOK, StopCheck, StopAt, Ended, StopEnded,
         OwnerIsDead
  <2>4. LockIsHeld' /\ StoreIsHeld'
      BY <2>1, <2>2, NamesAreServers DEF LifecycleInv, LockIsHeld, StoreIsHeld, Locked,
         Opened, StopMoves, Ended
  <2>5. FilesFollow' /\ RemovesDead'
      BY ZenonT(60), <2>1, <2>2, NamesAreServers DEF LifecycleInv, FilesFollow, RemovesDead,
         TargetsPublished, LockIsHeld, StoreIsHeld, Locked, Opened, StopMoves, Ended
  <2>6. SocketIsExplained'
      BY <2>1, <2>2, NamesAreServers DEF LifecycleInv, SocketIsExplained, FilesFollow,
         LockIsHeld, RemovesDead, Locked, StopMoves, Ended
  <2>7. TargetsPublished' /\ StoppedMeansDrained'
      BY <2>1, <2>2, NamesAreServers DEF LifecycleInv, StoppedMeansDrained, TargetsPublished,
         FilesFollow, RemovesDead, StoreIsHeld, Recorded, Opened, StopMoves, Ended
  <2> QED BY <2>3, <2>4, <2>5, <2>6, <2>7 DEF LifecycleInv
<1>3. CASE StopAt(s, "requested") /\ lock' = None /\ sock' = sock
  <2>1. StopMoves(s, "requested")
      BY <1>3, StopAtMoves DEF LifecycleInv, StopCheck
  <2>2. /\ spc[s] = "check" /\ lock' = None /\ sock' = sock /\ owner' = owner
        /\ store' = store /\ target' = target
      BY <1>3, SMT DEF StopCheck, OwnerIsDead
  <2>3. LifecycleTypeOK'
      BY <1>3, <2>2 DEF LifecycleInv, LifecycleTypeOK, StopCheck, StopAt, Ended, StopEnded,
         OwnerIsDead
  <2>4. LockIsHeld' /\ StoreIsHeld'
      BY <2>1, <2>2, NamesAreServers DEF LifecycleInv, LockIsHeld, StoreIsHeld, Locked,
         Opened, StopMoves, Ended
  <2>5. FilesFollow' /\ RemovesDead'
      BY <2>1, <2>2, NamesAreServers DEF LifecycleInv, FilesFollow, RemovesDead,
         TargetsPublished, LockIsHeld, StoreIsHeld, Locked, Opened, StopMoves, Ended
  <2>6. SocketIsExplained'
      BY <2>1, <2>2, NamesAreServers DEF LifecycleInv, SocketIsExplained, FilesFollow,
         LockIsHeld, RemovesDead, Locked, StopMoves, Ended
  <2>7. TargetsPublished' /\ StoppedMeansDrained'
      BY <2>1, <2>2, NamesAreServers DEF LifecycleInv, StoppedMeansDrained, TargetsPublished,
         FilesFollow, RemovesDead, StoreIsHeld, Recorded, Opened, StopMoves, Ended
  <2> QED BY <2>3, <2>4, <2>5, <2>6, <2>7 DEF LifecycleInv
<1> QED BY <1>1, <1>2, <1>3 DEF StopCheck, OwnerIsDead

(* The record of a dead target goes, and its endpoint went before it.      *)
LEMMA StopRecordKeeps ==
    ASSUME LifecycleInv, NEW s \in Stopper, StopRecord(s)
    PROVE  LifecycleInv'
<1>1. StopMoves(s, "stopped")
    BY StopAtMoves DEF LifecycleInv, StopRecord
<1>2. /\ spc[s] = "unlink" /\ owner' = None /\ lock' = None /\ sock' = sock
      /\ store' = store /\ target' = target
    BY SMT DEF StopRecord
<1>3. LifecycleTypeOK'
    BY <1>2 DEF LifecycleInv, LifecycleTypeOK, StopRecord, StopAt, Ended, StopEnded
<1>4. LockIsHeld' /\ StoreIsHeld'
    BY <1>1, <1>2, NamesAreServers DEF LifecycleInv, LockIsHeld, StoreIsHeld, Locked, Opened,
       StopMoves, Ended
<1>5. FilesFollow' /\ RemovesDead'
    BY ZenonT(60), <1>1, <1>2, NamesAreServers DEF LifecycleInv, FilesFollow, RemovesDead,
       TargetsPublished, LockIsHeld, StoreIsHeld, Locked, Opened, StopMoves, Ended
<1>6. SocketIsExplained'
    BY <1>1, <1>2, NamesAreServers DEF LifecycleInv, SocketIsExplained, FilesFollow,
       LockIsHeld, RemovesDead, Locked, StopMoves, Ended
<1>7. TargetsPublished' /\ StoppedMeansDrained'
    BY <1>1, <1>2, NamesAreServers DEF LifecycleInv, StoppedMeansDrained, TargetsPublished,
       FilesFollow, RemovesDead, StoreIsHeld, Recorded, Opened, StopMoves, Ended
<1> QED BY <1>3, <1>4, <1>5, <1>6, <1>7 DEF LifecycleInv

(* A killed stop command frees start.lock.                                 *)
LEMMA StopCrashKeeps ==
    ASSUME LifecycleInv, NEW s \in Stopper, StopCrash(s)
    PROVE  LifecycleInv'
<1>1. StopMoves(s, "dead")
    BY StopAtMoves DEF LifecycleInv, StopCrash
<1>2. /\ spc[s] \notin {"off"} \cup StopEnded /\ lock' = Freed(lock, s)
      /\ sock' = sock /\ owner' = owner /\ store' = store /\ target' = target
    BY SMT DEF StopCrash
<1>3. LifecycleTypeOK'
    BY <1>2 DEF LifecycleInv, LifecycleTypeOK, StopCrash, StopAt, Ended, StopEnded, Freed
<1>4. LockIsHeld' /\ StoreIsHeld'
    BY <1>1, <1>2, NamesAreServers DEF LifecycleInv, LockIsHeld, StoreIsHeld, Locked, Opened,
       StopMoves, Ended, Freed, StopEnded
<1>5. FilesFollow' /\ RemovesDead'
    BY ZenonT(60), <1>1, <1>2, NamesAreServers DEF LifecycleInv, FilesFollow, RemovesDead,
       TargetsPublished, LockIsHeld, StoreIsHeld, Locked, Opened, StopMoves, Ended, Freed,
       StopEnded
<1>6. SocketIsExplained'
    BY <1>1, <1>2, NamesAreServers DEF LifecycleInv, SocketIsExplained, FilesFollow,
       LockIsHeld, RemovesDead, Locked, StopMoves, Ended, Freed, StopEnded
<1>7. TargetsPublished' /\ StoppedMeansDrained'
    BY <1>1, <1>2, NamesAreServers DEF LifecycleInv, StoppedMeansDrained, TargetsPublished,
       FilesFollow, RemovesDead, StoreIsHeld, Recorded, Opened, StopMoves, Ended, Freed,
       StopEnded
<1> QED BY <1>3, <1>4, <1>5, <1>6, <1>7 DEF LifecycleInv

-----------------------------------------------------------------------------
(* Before the first start there is nothing to keep.                        *)
LEMMA InitLifecycle == Init => LifecycleInv
<1> SUFFICES ASSUME Init PROVE LifecycleInv
    OBVIOUS
<1>1. /\ \A p \in Server : pc[p] = "off"
      /\ \A s \in Stopper : spc[s] = "off"
      /\ lock = None /\ store = None /\ sock = None /\ owner = None
    BY DEF Init
<1>2. LifecycleTypeOK
    BY DEF Init, LifecycleTypeOK, Ended, StopEnded
<1>3. LockIsHeld /\ StoreIsHeld
    BY <1>1 DEF LockIsHeld, StoreIsHeld, Locked, Opened
<1>4. FilesFollow /\ RemovesDead /\ SocketIsExplained
    BY <1>1 DEF FilesFollow, RemovesDead, SocketIsExplained
<1>5. TargetsPublished /\ StoppedMeansDrained
    BY <1>1 DEF TargetsPublished, StoppedMeansDrained
<1> QED BY <1>2, <1>3, <1>4, <1>5 DEF LifecycleInv

(* A signal, and a step that changes no variable the invariant is about.   *)
LEMMA OtherwiseKeeps ==
    ASSUME LifecycleInv, UNCHANGED <<pc, lock, store, sock, owner, spc, target, orphaned>>,
           stop' \subseteq Server
    PROVE  LifecycleInv'
<1>1. LifecycleTypeOK'
    BY DEF LifecycleInv, LifecycleTypeOK
<1>2. LockIsHeld' /\ StoreIsHeld' /\ FilesFollow' /\ RemovesDead'
    BY DEF LifecycleInv, LockIsHeld, StoreIsHeld, FilesFollow, RemovesDead
<1>3. TargetsPublished' /\ SocketIsExplained' /\ StoppedMeansDrained'
    BY DEF LifecycleInv, TargetsPublished, SocketIsExplained, StoppedMeansDrained
<1> QED BY <1>1, <1>2, <1>3 DEF LifecycleInv

(* ReadTarget aims only at a generation that the record names.             *)
LEMMA ReadTargetKeeps ==
    ASSUME LifecycleInv, NEW s \in Stopper, ReadTarget(s)
    PROVE  LifecycleInv'
<1>1. /\ spc[s] = "off"
      /\ spc'[s] = IF owner = None THEN "not running" ELSE "send"
      /\ target'[s] = owner
      /\ \A r \in Stopper : r # s => spc'[r] = spc[r] /\ target'[r] = target[r]
      /\ UNCHANGED <<pc, lock, store, sock, owner, orphaned>>
    BY DEF LifecycleInv, LifecycleTypeOK, ReadTarget, StopAt
<1>2. LifecycleTypeOK'
    BY DEF LifecycleInv, LifecycleTypeOK, ReadTarget, StopAt, StopEnded
<1>3. LockIsHeld' /\ StoreIsHeld'
    BY <1>1 DEF LifecycleInv, LockIsHeld, StoreIsHeld
<1>4. FilesFollow' /\ RemovesDead' /\ SocketIsExplained'
    BY <1>1 DEF LifecycleInv, FilesFollow, RemovesDead, SocketIsExplained
<1>5. TargetsPublished'
    BY <1>1, NamesAreServers DEF LifecycleInv, TargetsPublished
<1>6. StoppedMeansDrained'
    BY <1>1 DEF LifecycleInv, StoppedMeansDrained
<1> QED BY <1>2, <1>3, <1>4, <1>5, <1>6 DEF LifecycleInv

(* Every step keeps the invariant.                                         *)
LEMMA NextLifecycle == LifecycleInv /\ [Next]_vars => LifecycleInv'
<1> SUFFICES ASSUME LifecycleInv, [Next]_vars PROVE LifecycleInv'
    OBVIOUS
<1>1. ASSUME NEW p \in Server, Serve(p) \/ ServerStep(p) \/ Crash(p)
      PROVE  LifecycleInv'
    BY <1>1, ServeKeeps, VerifyRunningKeeps, OpenStoreKeeps, BindExclusiveKeeps,
       WriteOwnerKeeps, RunKeeps, CloseListenerKeeps, DrainedKeeps, AcquireReleaseKeeps,
       ReleaseCheckKeeps, ReleaseRecordKeeps, CrashKeeps DEF ServerStep
<1>2. ASSUME NEW p \in Server, Signal(p)
      PROVE  LifecycleInv'
    BY <1>2, OtherwiseKeeps DEF Signal, stopVars, LifecycleInv, LifecycleTypeOK
<1>3. ASSUME NEW s \in Stopper, ReadTarget(s) \/ StopStep(s) \/ Deadline(s) \/ StopCrash(s)
      PROVE  LifecycleInv'
    BY <1>3, ReadTargetKeeps, SendStopKeeps, WaitGoneKeeps, DeadlineKeeps, AcquireStopKeeps,
       StopCheckKeeps, StopRecordKeeps, StopCrashKeeps DEF StopStep
<1>4. CASE UNCHANGED vars
    BY <1>4, OtherwiseKeeps DEF vars, LifecycleInv, LifecycleTypeOK
<1> QED BY <1>1, <1>2, <1>3, <1>4 DEF Next, Terminated

-----------------------------------------------------------------------------
(* Whatever servers and stop commands run side by side, and wherever any   *)
(* of them is killed: start.lock and the store have the holders that the   *)
(* places of the processes say, and the files follow them.                 *)
THEOREM LifecycleInvariance == Spec => []LifecycleInv
BY InitLifecycle, NextLifecycle, PTL DEF Spec

(* Every variable of the service's life stays in its type.                 *)
THEOREM LifecycleTypeInvariance == Spec => []LifecycleTypeOK
<1>1. LifecycleInv => LifecycleTypeOK
    BY DEF LifecycleInv
<1> QED BY <1>1, LifecycleInvariance, PTL

(* No start, no release of a predecessor and no stop command removes or    *)
(* replaces the endpoint or the record of a service that listens.          *)
THEOREM EndpointIsKept == Spec => []ListenerKeepsEndpoint
<1>1. LifecycleInv => ListenerKeepsEndpoint
    BY DEF LifecycleInv, FilesFollow, ListenerKeepsEndpoint, Listening
<1> QED BY <1>1, LifecycleInvariance, PTL

(* "stopped" is reported only of a generation that has drained its work    *)
(* and closed the store, by whichever of its four ways stop_service() came *)
(* to say so.                                                              *)
THEOREM StoppedIsDrained == Spec => []StoppedMeansDrained
<1>1. LifecycleInv => StoppedMeansDrained
    BY DEF LifecycleInv
<1> QED BY <1>1, LifecycleInvariance, PTL

(* What a killed service leaves can be reclaimed, unless it died between   *)
(* its bind and the first record.                                          *)
THEOREM LeftoverReclaimed == Spec => []LeftoverIsReclaimable
<1>1. LifecycleInv => LeftoverIsReclaimable
    BY NamesAreServers
       DEF LifecycleInv, FilesFollow, SocketIsExplained, LeftoverIsReclaimable, Listening, Ended
<1> QED BY <1>1, LifecycleInvariance, PTL
=============================================================================
