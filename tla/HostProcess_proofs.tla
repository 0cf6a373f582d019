-------------------------- MODULE HostProcess_proofs --------------------------
(***************************************************************************)
(* Safety of HostProcess for every set of clients and every bound.         *)
(*                                                                         *)
(* All of it rests on who holds the lock of a root: exactly the hosts      *)
(* between taking it and dying, each of its own root, and a client in the  *)
(* middle of its probe (LockOK).  No host locks a root that is not there   *)
(* yet (RootOK).  Whoever the files name has been far enough to make them, *)
(* in this root, and a host that goes on to remove them saw its state file *)
(* where it made it (FilesOK); until a root is removed nobody else touches *)
(* them (RecordOK).  What a client looked for is either gone for good or   *)
(* still found by the client's probe (LookOK).                             *)
(***************************************************************************)
EXTENDS HostProcess, WellFoundedInduction, TLAPS

Holding == {"locked", "stale", "probed", "bound", "named", "ready", "undo", "leaving",
            "closed", "owner", "unlink", "forget", "draining"}

(* Before it publishes its state file, and before it binds. *)
Unpublished == {"locking", "locked", "stale", "probed", "bound", "named", "undo"}
Unbound     == {"unborn", "spawned", "locking", "locked", "stale", "probed"}

(* The lock of a root is held by a host from acquire_lock to its end, by a
   client from try_lock to unlock, and by nobody else. *)
LockOK ==
  /\ \A h \in Host : host[h].pc \in Holding => lock[host[h].root] = h
  /\ \A r \in Root, h \in Host : lock[r] = h => host[h].pc \in Holding /\ host[h].root = r
  /\ \A c \in Client : client[c].pc = "unlock" => lock[client[c].root] = c
  /\ \A r \in Root, c \in Client : lock[r] = c => client[c].pc = "unlock" /\ client[c].root = r

(* No root is locked before it is made, and what a host saw while it starts is
   the root it locks. *)
RootOK ==
  \A h \in Host :
    /\ host[h].root <= root
    /\ host[h].pc \in Unpublished => host[h].saw = host[h].root

(* What is in a root was made there, and who removes its files found them where
   it made them. *)
FilesOK ==
  \A h \in Host :
    /\ endpoint = h /\ host[h].pc # "dead" => host[h].made = root /\ host[h].pc \notin Unbound
    /\ state = h /\ host[h].pc # "dead" =>
         host[h].made = root /\ host[h].pc \notin Unbound \cup Unpublished
    /\ host[h].pc \in {"owner", "unlink", "forget"} => host[h].saw = host[h].made

(* In a root nobody removed, a host's files are there until it removes them. *)
RecordOK ==
  root = 0 =>
    \A h \in Host :
      /\ host[h].pc \in {"bound", "named", "ready", "undo", "leaving", "closed", "owner", "unlink"}
           => endpoint = h
      /\ host[h].pc \in {"ready", "leaving", "closed", "owner", "unlink", "forget"} => state = h

(* A host that held the lock holds it or is dead; a client that found the lock
   free does not overlook one. *)
LookOK ==
  \A c \in Client :
    client[c].before \in Host =>
      /\ host[client[c].before].pc \in Holding \cup {"dead"}
      /\ \/ client[c].pc = "unlock"
         \/ client[c].pc = "judge" /\ ~client[c].held
         \/ client[c].pc = "start"
         => lock[root] # client[c].before

IInv == TypeOK /\ LockOK /\ RootOK /\ FilesOK /\ RecordOK /\ LookOK

-----------------------------------------------------------------------------
(* What a step may do to a host and to the lock. *)

(* A host opens the lock of the root that is there, takes it when it is free,
   keeps it while it works, and loses it and its life together. *)
Dead == [NewHost EXCEPT !.pc = "dead"]

Moves(h) ==
  /\ host' \in [Host -> HostState] /\ \A g \in Host : g # h => host'[g] = host[g]
  /\ \/ /\ host[h].pc = "spawned" /\ host'[h].pc = "locking"
        /\ host'[h].root = root /\ host'[h].saw = root /\ lock' = lock
     \/ /\ host[h].pc = "locking" /\ host'[h].pc = "locked"
        /\ host'[h].root = host[h].root /\ host'[h].saw = host[h].saw
        /\ lock[host[h].root] = None /\ lock' = [lock EXCEPT ![host[h].root] = h]
     \/ /\ host[h].pc \in Holding /\ host'[h].pc \in Holding /\ host'[h].root = host[h].root
        /\ host'[h].pc \in Unpublished => host[h].pc \in Unpublished /\ host'[h].saw = host[h].saw
        /\ lock' = lock
     \/ host[h].pc = "locking" /\ host'[h] = Dead /\ lock' = lock
     \/ host[h].pc \notin {"unborn", "dead"} /\ host'[h] = Dead /\ lock' = Unlocked(h)

HostMove(h) == HostStep(h) \/ PublishFails(h) \/ IdleExit(h) \/ Crash(h)

HostPc == {"unborn", "spawned", "locking", "locked", "stale", "probed", "bound", "named",
           "ready", "undo", "leaving", "closed", "owner", "unlink", "forget", "draining", "dead"}

(* The records that hosts are set to are of their type. *)
LEMMA HostFields ==
  ASSUME NEW x \in HostState, NEW pc \in HostPc
  PROVE  /\ [x EXCEPT !.pc = pc] \in HostState
         /\ [x EXCEPT !.pc = pc].pc = pc
         /\ [x EXCEPT !.pc = pc].root = x.root
         /\ [x EXCEPT !.pc = pc].made = x.made
         /\ [x EXCEPT !.pc = pc].saw = x.saw
BY DEF HostState, HostPc

LEMMA DeadType == Dead \in HostState /\ Dead.pc = "dead"
BY HostProcessAssumption DEF Dead, NewHost, HostState, Root

(* What a step of a host does to its own record: `Sets` with what it is set to. *)
Sets(h, y) == host' = [host EXCEPT ![h] = y]

LEMMA HostSet ==
  ASSUME TypeOK, NEW h \in Host, NEW y \in HostState, Sets(h, y)
  PROVE  /\ host' \in [Host -> HostState] /\ host'[h] = y
         /\ \A g \in Host : g # h => host'[g] = host[g]
BY DEF TypeOK, Sets

(* What a step of a host does to the files: it stays away from them but to
   clear the endpoint it found stale, to bind, to publish, to undo its binding
   and to remove what it found to be its own. *)
Goes(h, a, b) ==
  host[h].pc = a /\ host'[h].pc = b /\ host'[h].made = host[h].made /\ host'[h].saw = host[h].saw
Makes(h, a, b) ==
  host[h].pc = a /\ host'[h].pc = b /\ host'[h].made = root /\ host'[h].saw = host[h].saw

Writes(h) ==
  \/ /\ endpoint' = endpoint /\ state' = state
     /\ \/ host[h].pc = "spawned" /\ host'[h].pc = "locking"
        \/ Goes(h, "locking", "locked") \/ Goes(h, "locked", "stale") \/ Goes(h, "bound", "named")
        \/ Goes(h, "named", "undo")
        \/ host'[h].pc = "dead" /\ host[h].pc # "unborn"
        \/ Goes(h, "ready", "leaving") \/ Goes(h, "leaving", "closed")
        \/ host[h].pc = "closed" /\ host'[h].pc = "draining" /\ host'[h].made = host[h].made
        \/ /\ host[h].pc = "closed" /\ host'[h].pc = "owner" /\ state = h
           /\ host'[h].saw = root /\ host'[h].made = host[h].made
        \/ Goes(h, "owner", "unlink") \/ Goes(h, "owner", "forget")
  \/ state' = state /\ endpoint' = None /\ (Goes(h, "stale", "probed") \/ Goes(h, "unlink", "forget"))
  \/ state' = state /\ endpoint' = h /\ Makes(h, "probed", "bound")
  \/ state' = h /\ endpoint' = endpoint /\ Makes(h, "named", "ready")
  \/ state' = state /\ endpoint' = None /\ host[h].pc = "undo" /\ host'[h].pc = "dead"
  \/ state' = None /\ endpoint' = endpoint /\ Goes(h, "forget", "draining")

LEMMA HostMoves ==
  ASSUME TypeOK, NEW h \in Host, HostMove(h)
  PROVE  Moves(h) /\ Writes(h) /\ root' = root /\ client' = client
<1> DEFINE x == host[h]
<1>0. /\ host \in [Host -> HostState] /\ x \in HostState /\ root \in Root
      /\ endpoint \in Host \cup {None}
  BY DEF TypeOK
<1>1. CASE OpenLock(h)
  <2> DEFINE y == [pc |-> "locking", root |-> root, bound |-> None, made |-> root, saw |-> root]
  <2>1. Sets(h, y)
    BY <1>1, <1>0 DEF OpenLock, Sets, HostAt, Dies, Dead
  <2>2. y \in HostState /\ y.pc = "locking" /\ y.root = root /\ y.made = root /\ y.saw = root
    BY <1>0 DEF HostState
  <2> HIDE DEF y
  <2>3. host' \in [Host -> HostState] /\ host'[h] = y /\ \A g \in Host : g # h => host'[g] = host[g]
    BY <2>1, <2>2, HostSet
  <2> QED
    BY <1>1, <2>2, <2>3 DEF OpenLock, Moves, Writes, Goes, Makes, Holding, Unpublished, Serving, Alive
<1>2. CASE AcquireLock(h)
  <2> DEFINE y == [x EXCEPT !.pc = "locked"]
  <2>1. Sets(h, y)
    BY <1>2, <1>0 DEF AcquireLock, Sets, HostAt, Dies, Dead
  <2>2. y \in HostState /\ y.pc = "locked" /\ y.root = x.root /\ y.made = x.made /\ y.saw = x.saw
    BY <1>0, HostFields DEF HostPc
  <2> HIDE DEF y
  <2>3. host' \in [Host -> HostState] /\ host'[h] = y /\ \A g \in Host : g # h => host'[g] = host[g]
    BY <2>1, <2>2, HostSet
  <2> QED
    BY <1>2, <2>2, <2>3 DEF AcquireLock, Moves, Writes, Goes, Makes, Holding, Unpublished, Serving, Alive
<1>3. CASE LoseLock(h)
  <2>1. Sets(h, Dead)
    BY <1>3, <1>0 DEF LoseLock, Sets, HostAt, Dies, Dead
  <2>2. Dead \in HostState /\ Dead.pc = "dead"
    BY DeadType
  <2>3. host' \in [Host -> HostState] /\ host'[h] = Dead /\ \A g \in Host : g # h => host'[g] = host[g]
    BY <2>1, <2>2, HostSet
  <2> QED
    BY <1>3, <2>2, <2>3 DEF LoseLock, Moves, Writes, Goes, Makes, Holding, Unpublished, Serving, Alive
<1>4. CASE ProbeEndpoint(h)
  <2>1. CASE endpoint # None /\ Listening(endpoint)
    <3>1. Sets(h, Dead)
      BY <1>4, <2>1, <1>0 DEF ProbeEndpoint, Sets, HostAt, Dies, Dead
    <3>2. Dead \in HostState /\ Dead.pc = "dead"
      BY DeadType
    <3>3. host' \in [Host -> HostState] /\ host'[h] = Dead /\ \A g \in Host : g # h => host'[g] = host[g]
      BY <3>1, <3>2, HostSet
    <3> QED
      BY <1>4, <2>1, <3>2, <3>3 DEF ProbeEndpoint, Moves, Writes, Goes, Makes, Holding, Unpublished, Serving, Alive
  <2>2. CASE ~(endpoint # None /\ Listening(endpoint))
    <3> DEFINE y == [x EXCEPT !.pc = "stale"]
    <3>1. Sets(h, y)
      BY <1>4, <2>2, <1>0 DEF ProbeEndpoint, Sets, HostAt, Dies, Dead
    <3>2. y \in HostState /\ y.pc = "stale" /\ y.root = x.root /\ y.made = x.made /\ y.saw = x.saw
      BY <1>0, HostFields DEF HostPc
    <3> HIDE DEF y
    <3>3. host' \in [Host -> HostState] /\ host'[h] = y /\ \A g \in Host : g # h => host'[g] = host[g]
      BY <3>1, <3>2, HostSet
    <3> QED
      BY <1>4, <2>2, <3>2, <3>3 DEF ProbeEndpoint, Moves, Writes, Goes, Makes, Holding, Unpublished, Serving, Alive
  <2> QED
    BY <2>1, <2>2
<1>5. CASE RemoveStale(h)
  <2> DEFINE y == [x EXCEPT !.pc = "probed"]
  <2>1. Sets(h, y)
    BY <1>5, <1>0 DEF RemoveStale, Sets, HostAt, Dies, Dead
  <2>2. y \in HostState /\ y.pc = "probed" /\ y.root = x.root /\ y.made = x.made /\ y.saw = x.saw
    BY <1>0, HostFields DEF HostPc
  <2> HIDE DEF y
  <2>3. host' \in [Host -> HostState] /\ host'[h] = y /\ \A g \in Host : g # h => host'[g] = host[g]
    BY <2>1, <2>2, HostSet
  <2> QED
    BY <1>5, <2>2, <2>3 DEF RemoveStale, Moves, Writes, Goes, Makes, Holding, Unpublished, Serving, Alive
<1>6. CASE Bind(h)
  <2> DEFINE y == [x EXCEPT !.pc = "bound", !.made = root]
  <2>1. Sets(h, y)
    BY <1>6, <1>0 DEF Bind, Sets, HostAt, Dies, Dead
  <2>2. y \in HostState /\ y.pc = "bound" /\ y.root = x.root /\ y.made = root /\ y.saw = x.saw
    BY <1>0 DEF HostState
  <2> HIDE DEF y
  <2>3. host' \in [Host -> HostState] /\ host'[h] = y /\ \A g \in Host : g # h => host'[g] = host[g]
    BY <2>1, <2>2, HostSet
  <2> QED
    BY <1>6, <2>2, <2>3 DEF Bind, Moves, Writes, Goes, Makes, Holding, Unpublished, Serving, Alive
<1>7. CASE Identify(h)
  <2> DEFINE y == [x EXCEPT !.pc = "named", !.bound = endpoint]
  <2>1. Sets(h, y)
    BY <1>7, <1>0 DEF Identify, Sets, HostAt, Dies, Dead
  <2>2. y \in HostState /\ y.pc = "named" /\ y.root = x.root /\ y.made = x.made /\ y.saw = x.saw
    BY <1>0 DEF HostState
  <2> HIDE DEF y
  <2>3. host' \in [Host -> HostState] /\ host'[h] = y /\ \A g \in Host : g # h => host'[g] = host[g]
    BY <2>1, <2>2, HostSet
  <2> QED
    BY <1>7, <2>2, <2>3 DEF Identify, Moves, Writes, Goes, Makes, Holding, Unpublished, Serving, Alive
<1>8. CASE Publish(h)
  <2> DEFINE y == [x EXCEPT !.pc = "ready", !.made = root]
  <2>1. Sets(h, y)
    BY <1>8, <1>0 DEF Publish, Sets, HostAt, Dies, Dead
  <2>2. y \in HostState /\ y.pc = "ready" /\ y.root = x.root /\ y.made = root /\ y.saw = x.saw
    BY <1>0 DEF HostState
  <2> HIDE DEF y
  <2>3. host' \in [Host -> HostState] /\ host'[h] = y /\ \A g \in Host : g # h => host'[g] = host[g]
    BY <2>1, <2>2, HostSet
  <2> QED
    BY <1>8, <2>2, <2>3 DEF Publish, Moves, Writes, Goes, Makes, Holding, Unpublished, Serving, Alive
<1>9. CASE UndoBind(h)
  <2>1. Sets(h, Dead)
    BY <1>9, <1>0 DEF UndoBind, Sets, HostAt, Dies, Dead
  <2>2. Dead \in HostState /\ Dead.pc = "dead"
    BY DeadType
  <2>3. host' \in [Host -> HostState] /\ host'[h] = Dead /\ \A g \in Host : g # h => host'[g] = host[g]
    BY <2>1, <2>2, HostSet
  <2> QED
    BY <1>9, <2>2, <2>3 DEF UndoBind, Moves, Writes, Goes, Makes, Holding, Unpublished, Serving, Alive
<1>10. CASE StopAccepting(h)
  <2> DEFINE y == [x EXCEPT !.pc = "closed"]
  <2>1. Sets(h, y)
    BY <1>10, <1>0 DEF StopAccepting, Sets, HostAt, Dies, Dead
  <2>2. y \in HostState /\ y.pc = "closed" /\ y.root = x.root /\ y.made = x.made /\ y.saw = x.saw
    BY <1>0, HostFields DEF HostPc
  <2> HIDE DEF y
  <2>3. host' \in [Host -> HostState] /\ host'[h] = y /\ \A g \in Host : g # h => host'[g] = host[g]
    BY <2>1, <2>2, HostSet
  <2> QED
    BY <1>10, <2>2, <2>3 DEF StopAccepting, Moves, Writes, Goes, Makes, Holding, Unpublished, Serving, Alive
<1>11. CASE ReadOwnState(h)
  <2>1. CASE state = h
    <3> DEFINE y == [x EXCEPT !.pc = "owner", !.saw = root]
    <3>1. Sets(h, y)
      BY <1>11, <2>1, <1>0 DEF ReadOwnState, Sets, HostAt, Dies, Dead
    <3>2. y \in HostState /\ y.pc = "owner" /\ y.root = x.root /\ y.made = x.made /\ y.saw = root
      BY <1>0 DEF HostState
    <3> HIDE DEF y
    <3>3. host' \in [Host -> HostState] /\ host'[h] = y /\ \A g \in Host : g # h => host'[g] = host[g]
      BY <3>1, <3>2, HostSet
    <3> QED
      BY <1>11, <2>1, <3>2, <3>3 DEF ReadOwnState, Moves, Writes, Goes, Makes, Holding, Unpublished, Serving, Alive
  <2>2. CASE state # h
    <3> DEFINE y == [x EXCEPT !.pc = "draining", !.saw = root]
    <3>1. Sets(h, y)
      BY <1>11, <2>2, <1>0 DEF ReadOwnState, Sets, HostAt, Dies, Dead
    <3>2. y \in HostState /\ y.pc = "draining" /\ y.root = x.root /\ y.made = x.made /\ y.saw = root
      BY <1>0 DEF HostState
    <3> HIDE DEF y
    <3>3. host' \in [Host -> HostState] /\ host'[h] = y /\ \A g \in Host : g # h => host'[g] = host[g]
      BY <3>1, <3>2, HostSet
    <3> QED
      BY <1>11, <2>2, <3>2, <3>3 DEF ReadOwnState, Moves, Writes, Goes, Makes, Holding, Unpublished, Serving, Alive
  <2> QED
    BY <2>1, <2>2
<1>12. CASE CompareEndpoint(h)
  <2>1. CASE IsBound(h)
    <3> DEFINE y == [x EXCEPT !.pc = "unlink"]
    <3>1. Sets(h, y)
      BY <1>12, <2>1, <1>0 DEF CompareEndpoint, Sets, HostAt, Dies, Dead
    <3>2. y \in HostState /\ y.pc = "unlink" /\ y.root = x.root /\ y.made = x.made /\ y.saw = x.saw
      BY <1>0, HostFields DEF HostPc
    <3> HIDE DEF y
    <3>3. host' \in [Host -> HostState] /\ host'[h] = y /\ \A g \in Host : g # h => host'[g] = host[g]
      BY <3>1, <3>2, HostSet
    <3> QED
      BY <1>12, <2>1, <3>2, <3>3 DEF CompareEndpoint, Moves, Writes, Goes, Makes, Holding, Unpublished, Serving, Alive
  <2>2. CASE ~IsBound(h)
    <3> DEFINE y == [x EXCEPT !.pc = "forget"]
    <3>1. Sets(h, y)
      BY <1>12, <2>2, <1>0 DEF CompareEndpoint, Sets, HostAt, Dies, Dead
    <3>2. y \in HostState /\ y.pc = "forget" /\ y.root = x.root /\ y.made = x.made /\ y.saw = x.saw
      BY <1>0, HostFields DEF HostPc
    <3> HIDE DEF y
    <3>3. host' \in [Host -> HostState] /\ host'[h] = y /\ \A g \in Host : g # h => host'[g] = host[g]
      BY <3>1, <3>2, HostSet
    <3> QED
      BY <1>12, <2>2, <3>2, <3>3 DEF CompareEndpoint, Moves, Writes, Goes, Makes, Holding, Unpublished, Serving, Alive
  <2> QED
    BY <2>1, <2>2
<1>13. CASE RemoveEndpoint(h)
  <2> DEFINE y == [x EXCEPT !.pc = "forget"]
  <2>1. Sets(h, y)
    BY <1>13, <1>0 DEF RemoveEndpoint, Sets, HostAt, Dies, Dead
  <2>2. y \in HostState /\ y.pc = "forget" /\ y.root = x.root /\ y.made = x.made /\ y.saw = x.saw
    BY <1>0, HostFields DEF HostPc
  <2> HIDE DEF y
  <2>3. host' \in [Host -> HostState] /\ host'[h] = y /\ \A g \in Host : g # h => host'[g] = host[g]
    BY <2>1, <2>2, HostSet
  <2> QED
    BY <1>13, <2>2, <2>3 DEF RemoveEndpoint, Moves, Writes, Goes, Makes, Holding, Unpublished, Serving, Alive
<1>14. CASE RemoveState(h)
  <2> DEFINE y == [x EXCEPT !.pc = "draining"]
  <2>1. Sets(h, y)
    BY <1>14, <1>0 DEF RemoveState, Sets, HostAt, Dies, Dead
  <2>2. y \in HostState /\ y.pc = "draining" /\ y.root = x.root /\ y.made = x.made /\ y.saw = x.saw
    BY <1>0, HostFields DEF HostPc
  <2> HIDE DEF y
  <2>3. host' \in [Host -> HostState] /\ host'[h] = y /\ \A g \in Host : g # h => host'[g] = host[g]
    BY <2>1, <2>2, HostSet
  <2> QED
    BY <1>14, <2>2, <2>3 DEF RemoveState, Moves, Writes, Goes, Makes, Holding, Unpublished, Serving, Alive
<1>15. CASE Exit(h)
  <2>1. Sets(h, Dead)
    BY <1>15, <1>0 DEF Exit, Sets, HostAt, Dies, Dead
  <2>2. Dead \in HostState /\ Dead.pc = "dead"
    BY DeadType
  <2>3. host' \in [Host -> HostState] /\ host'[h] = Dead /\ \A g \in Host : g # h => host'[g] = host[g]
    BY <2>1, <2>2, HostSet
  <2> QED
    BY <1>15, <2>2, <2>3 DEF Exit, Moves, Writes, Goes, Makes, Holding, Unpublished, Serving, Alive
<1>16. CASE PublishFails(h)
  <2>1. CASE IsBound(h)
    <3> DEFINE y == [x EXCEPT !.pc = "undo"]
    <3>1. Sets(h, y)
      BY <1>16, <2>1, <1>0 DEF PublishFails, Sets, HostAt, Dies, Dead
    <3>2. y \in HostState /\ y.pc = "undo" /\ y.root = x.root /\ y.made = x.made /\ y.saw = x.saw
      BY <1>0, HostFields DEF HostPc
    <3> HIDE DEF y
    <3>3. host' \in [Host -> HostState] /\ host'[h] = y /\ \A g \in Host : g # h => host'[g] = host[g]
      BY <3>1, <3>2, HostSet
    <3> QED
      BY <1>16, <2>1, <3>2, <3>3 DEF PublishFails, Moves, Writes, Goes, Makes, Holding, Unpublished, Serving, Alive
  <2>2. CASE ~IsBound(h)
    <3>1. Sets(h, Dead)
      BY <1>16, <2>2, <1>0 DEF PublishFails, Sets, HostAt, Dies, Dead
    <3>2. Dead \in HostState /\ Dead.pc = "dead"
      BY DeadType
    <3>3. host' \in [Host -> HostState] /\ host'[h] = Dead /\ \A g \in Host : g # h => host'[g] = host[g]
      BY <3>1, <3>2, HostSet
    <3> QED
      BY <1>16, <2>2, <3>2, <3>3 DEF PublishFails, Moves, Writes, Goes, Makes, Holding, Unpublished, Serving, Alive
  <2> QED
    BY <2>1, <2>2
<1>17. CASE IdleExit(h)
  <2> DEFINE y == [x EXCEPT !.pc = "leaving"]
  <2>1. Sets(h, y)
    BY <1>17, <1>0 DEF IdleExit, Sets, HostAt, Dies, Dead
  <2>2. y \in HostState /\ y.pc = "leaving" /\ y.root = x.root /\ y.made = x.made /\ y.saw = x.saw
    BY <1>0, HostFields DEF HostPc
  <2> HIDE DEF y
  <2>3. host' \in [Host -> HostState] /\ host'[h] = y /\ \A g \in Host : g # h => host'[g] = host[g]
    BY <2>1, <2>2, HostSet
  <2> QED
    BY <1>17, <2>2, <2>3 DEF IdleExit, Moves, Writes, Goes, Makes, Holding, Unpublished, Serving, Alive
<1>18. CASE Crash(h)
  <2>1. Sets(h, Dead)
    BY <1>18, <1>0 DEF Crash, Sets, HostAt, Dies, Dead
  <2>2. Dead \in HostState /\ Dead.pc = "dead"
    BY DeadType
  <2>3. host' \in [Host -> HostState] /\ host'[h] = Dead /\ \A g \in Host : g # h => host'[g] = host[g]
    BY <2>1, <2>2, HostSet
  <2> QED
    BY <1>18, <2>2, <2>3 DEF Crash, Moves, Writes, Goes, Makes, Holding, Unpublished, Serving, Alive
<1> QED
  BY <1>1, <1>2, <1>3, <1>4, <1>5, <1>6, <1>7, <1>8, <1>9, <1>10, <1>11, <1>12, <1>13, <1>14, <1>15, <1>16, <1>17, <1>18 DEF HostMove, HostStep

(* The host a client starts is one that was not started yet. *)
LEMMA LeastUnborn ==
  ASSUME Unborn # {}
  PROVE  (CHOOSE h \in Unborn : \A g \in Unborn : h <= g) \in Unborn
<1>1. Unborn \subseteq Nat
  BY HostProcessAssumption DEF Unborn, Host
<1>2. PICK h \in Unborn : \A g \in Unborn : ~(<<g, h>> \in OpToRel(<, Nat))
  BY <1>1, NatLessThanWellFounded, WFMin
<1>3. ASSUME NEW g \in Unborn PROVE h <= g
  <2>1. <<g, h>> \in Nat \X Nat /\ ~(<<g, h>> \in OpToRel(<, Nat))
    BY <1>1, <1>2
  <2>2. ~(g < h)
    BY <2>1, Zenon DEF OpToRel
  <2> QED
    BY <1>1, <2>2
<1> QED
  BY <1>3

(* A client works on its own record, and starts at most one host; it takes the
   lock of the root that is there when it is free, and lets go of its own. *)
ClientMove(c) == ClientStep(c) \/ Ensure(c) \/ GiveUp(c) \/ Quit(c)

Starts(h) == host[h].pc = "unborn" /\ host' = HostAt(h, "spawned")

Probes(c) ==
  \/ lock' = lock /\ client[c].pc # "unlock" /\ client'[c].pc # "unlock"
  \/ /\ lock[root] = None /\ lock' = [lock EXCEPT ![root] = c]
     /\ client[c].pc = "probe" /\ client'[c].pc = "unlock" /\ client'[c].root = root
  \/ /\ client[c].pc = "unlock" /\ client'[c].pc = "judge"
     /\ lock' = [lock EXCEPT ![client[c].root] = None]

Looks(c) ==
  \/ client'[c].before = None
  \/ client[c].pc = "observe" /\ client'[c].pc = "ask" /\ client'[c].before = lock[root]
  \/ /\ client'[c].before = client[c].before
     /\ \/ client'[c].pc = "probe"
        \/ client[c].pc = "probe" /\ client'[c].pc = "unlock" /\ lock' = [lock EXCEPT ![root] = c]
        \/ client[c].pc = "probe" /\ client'[c].pc = "judge" /\ client'[c].held
        \/ client[c].pc = "unlock" /\ client'[c].pc = "judge"
        \/ client[c].pc = "judge" /\ ~client[c].held /\ client'[c].pc = "start"

LEMMA ClientFields ==
  ASSUME NEW x \in ClientState,
         NEW pc \in {"idle", "observe", "ask", "probe", "unlock", "judge", "connect", "start",
                     "await", "session"}
  PROVE  /\ [x EXCEPT !.pc = pc] \in ClientState
         /\ [x EXCEPT !.pc = pc].pc = pc /\ [x EXCEPT !.pc = pc].before = x.before
         /\ [x EXCEPT !.pc = pc].host = x.host
BY DEF ClientState

LEMMA IdleType == IdleClient \in ClientState
BY HostProcessAssumption DEF IdleClient, ClientState, Root

(* A client that forgets what it saw, that starts a candidate, that has met a host. *)
LEMMA Forgets ==
  ASSUME NEW pc \in {"observe", "connect", "await"}
  PROVE  /\ [IdleClient EXCEPT !.pc = pc] \in ClientState
         /\ [IdleClient EXCEPT !.pc = pc].pc = pc
         /\ [IdleClient EXCEPT !.pc = pc].before = None
<1>1. IdleClient \in ClientState /\ IdleClient.before = None
  BY IdleType DEF IdleClient
<1>2. \A z \in ClientState :
        /\ [z EXCEPT !.pc = pc] \in ClientState
        /\ [z EXCEPT !.pc = pc].pc = pc
        /\ [z EXCEPT !.pc = pc].before = z.before
  BY DEF ClientState
<1> QED
  BY <1>1, <1>2, Zenon

LEMMA StartsWith ==
  ASSUME NEW b \in Host \cup Client \cup {None}
  PROVE  /\ [IdleClient EXCEPT !.pc = "start", !.before = b] \in ClientState
         /\ [IdleClient EXCEPT !.pc = "start", !.before = b].pc = "start"
         /\ [IdleClient EXCEPT !.pc = "start", !.before = b].before = b
<1>1. IdleClient \in ClientState /\ IdleClient.before = None
  BY IdleType DEF IdleClient
<1>2. \A z \in ClientState :
        /\ [z EXCEPT !.pc = "start", !.before = b] \in ClientState
        /\ [z EXCEPT !.pc = "start", !.before = b].pc = "start"
        /\ [z EXCEPT !.pc = "start", !.before = b].before = b
  BY DEF ClientState
<1> QED
  BY <1>1, <1>2, Zenon

LEMMA Met ==
  ASSUME NEW h \in Host
  PROVE  /\ [IdleClient EXCEPT !.pc = "session", !.host = h] \in ClientState
         /\ [IdleClient EXCEPT !.pc = "session", !.host = h].pc = "session"
         /\ [IdleClient EXCEPT !.pc = "session", !.host = h].before = None
         /\ [IdleClient EXCEPT !.pc = "session", !.host = h].host = h
<1>1. IdleClient \in ClientState /\ IdleClient.before = None
  BY IdleType DEF IdleClient
<1>2. \A z \in ClientState :
        /\ [z EXCEPT !.pc = "session", !.host = h] \in ClientState
        /\ [z EXCEPT !.pc = "session", !.host = h].pc = "session"
        /\ [z EXCEPT !.pc = "session", !.host = h].before = z.before
        /\ [z EXCEPT !.pc = "session", !.host = h].host = h
  BY DEF ClientState
<1> QED
  BY <1>1, <1>2, Zenon

LEMMA HostIsSomeone == \A h \in Host : h # None
BY HostProcessAssumption DEF Host

(* A client's record is set to one of its type. *)
LEMMA ClientSet ==
  ASSUME TypeOK, NEW c \in Client, NEW x \in ClientState, client' = [client EXCEPT ![c] = x]
  PROVE  /\ client' \in [Client -> ClientState] /\ client'[c] = x
         /\ \A d \in Client : d # c => client'[d] = client[d]
BY DEF TypeOK

LEMMA ClientMoves ==
  ASSUME TypeOK, NEW c \in Client, ClientMove(c)
  PROVE  /\ client' \in [Client -> ClientState] /\ \A d \in Client : d # c => client'[d] = client[d]
         /\ client'[c].pc = "session" => client'[c].host # None
         /\ Probes(c) /\ Looks(c)
         /\ host' = host \/ \E h \in Host : Starts(h)
         /\ root' = root /\ endpoint' = endpoint /\ state' = state
<1>0. client \in [Client -> ClientState] /\ client[c] \in ClientState
      /\ root \in Root /\ lock \in [Root -> Host \cup Client \cup {None}]
      /\ endpoint \in Host \cup {None} /\ state \in Host \cup {None}
  BY DEF TypeOK
<1> DEFINE x == client[c]
<1>b. x.before \in Host \cup Client \cup {None}
  BY <1>0 DEF ClientState
<1>1. CASE ReadState(c)
  <2> DEFINE y == [IdleClient EXCEPT !.pc = "ask", !.seen = state, !.before = lock[root]]
  <2>1. client' = [client EXCEPT ![c] = y]
    BY <1>1, <1>0 DEF ReadState, ClientAt
  <2>2. y \in ClientState /\ y.pc = "ask" /\ y.before = lock[root]
    <3>1. lock[root] \in Host \cup Client \cup {None}
      BY <1>0
    <3>2. IdleClient \in ClientState
      BY IdleType
    <3>3. state \in Host \cup {None}
      BY <1>0
    <3>4. \A z \in ClientState :
            /\ [z EXCEPT !.pc = "ask", !.seen = state, !.before = lock[root]] \in ClientState
            /\ [z EXCEPT !.pc = "ask", !.seen = state, !.before = lock[root]].pc = "ask"
            /\ [z EXCEPT !.pc = "ask", !.seen = state, !.before = lock[root]].before = lock[root]
      <4> DEFINE b == lock[root]
      <4>1. b \in Host \cup Client \cup {None}
        BY <3>1
      <4> HIDE DEF b
      <4>2. \A z \in ClientState :
              /\ [z EXCEPT !.pc = "ask", !.seen = state, !.before = b] \in ClientState
              /\ [z EXCEPT !.pc = "ask", !.seen = state, !.before = b].pc = "ask"
              /\ [z EXCEPT !.pc = "ask", !.seen = state, !.before = b].before = b
        BY <4>1, <3>3 DEF ClientState
      <4> QED
        BY <4>2 DEF b
    <3> QED
      BY <3>2, <3>4, Zenon
  <2> HIDE DEF y
  <2>3. client' \in [Client -> ClientState] /\ client'[c] = y
       /\ \A d \in Client : d # c => client'[d] = client[d]
    BY <2>1, <2>2, ClientSet
  <2> QED
    BY <1>1, <2>2, <2>3 DEF ReadState, Probes, Looks
<1>2. CASE Ask(c)
  <2>0. PICK b \in BOOLEAN : client' = [client EXCEPT ![c].pc = "probe", ![c].answered = b]
    BY <1>2 DEF Ask, Answers, Serving
  <2> DEFINE y == [x EXCEPT !.pc = "probe", !.answered = b]
  <2>1. client' = [client EXCEPT ![c] = y]
    BY <1>2, <2>0, <1>0 DEF Ask, ClientAt
  <2>2. y \in ClientState /\ y.pc = "probe" /\ y.before = x.before
    BY <1>2, <2>0, <1>0, HostProcessAssumption DEF Ask, ClientState, IdleClient, Root
  <2> HIDE DEF y
  <2>3. client' \in [Client -> ClientState] /\ client'[c] = y
       /\ \A d \in Client : d # c => client'[d] = client[d]
    BY <2>1, <2>2, ClientSet
  <2> QED
    BY <1>2, <2>0, <2>2, <2>3 DEF Ask, Probes, Looks
<1>3. CASE ProbeLock(c)
  <2>1. CASE lock[root] = None
    <3> DEFINE y == [x EXCEPT !.pc = "unlock", !.root = root]
    <3>1. client' = [client EXCEPT ![c] = y]
      BY <1>3, <2>1, <1>0 DEF ProbeLock, ClientAt
    <3>2. y \in ClientState /\ y.pc = "unlock" /\ y.before = x.before /\ y.root = root
      BY <1>3, <2>1, <1>0, HostProcessAssumption DEF ProbeLock, ClientState, IdleClient, Root
    <3> HIDE DEF y
    <3>3. client' \in [Client -> ClientState] /\ client'[c] = y
         /\ \A d \in Client : d # c => client'[d] = client[d]
      BY <3>1, <3>2, ClientSet
    <3> QED
      BY <1>3, <2>1, <3>2, <3>3 DEF ProbeLock, Probes, Looks
  <2>2. CASE lock[root] # None
    <3> DEFINE y == [x EXCEPT !.pc = "judge", !.held = TRUE]
    <3>1. client' = [client EXCEPT ![c] = y]
      BY <1>3, <2>2, <1>0 DEF ProbeLock, ClientAt
    <3>2. y \in ClientState /\ y.pc = "judge" /\ y.before = x.before /\ y.held
      BY <1>3, <2>2, <1>0, HostProcessAssumption DEF ProbeLock, ClientState, IdleClient, Root
    <3> HIDE DEF y
    <3>3. client' \in [Client -> ClientState] /\ client'[c] = y
         /\ \A d \in Client : d # c => client'[d] = client[d]
      BY <3>1, <3>2, ClientSet
    <3> QED
      BY <1>3, <2>2, <3>2, <3>3 DEF ProbeLock, Probes, Looks
  <2> QED
    BY <2>1, <2>2
<1>4. CASE ReleaseProbe(c)
  <2> DEFINE y == [x EXCEPT !.pc = "judge"]
  <2>1. client' = [client EXCEPT ![c] = y]
    BY <1>4, <1>0 DEF ReleaseProbe, ClientAt
  <2>2. y \in ClientState /\ y.pc = "judge" /\ y.before = x.before
    BY <1>4, <1>0, HostProcessAssumption DEF ReleaseProbe, ClientState, IdleClient, Root
  <2> HIDE DEF y
  <2>3. client' \in [Client -> ClientState] /\ client'[c] = y
       /\ \A d \in Client : d # c => client'[d] = client[d]
    BY <2>1, <2>2, ClientSet
  <2> QED
    BY <1>4, <2>2, <2>3 DEF ReleaseProbe, Probes, Looks
<1>5. CASE Judge(c)
  <2>1. CASE Verdict(c) = "Live"
    <3> DEFINE y == [IdleClient EXCEPT !.pc = "connect"]
    <3>1. client' = [client EXCEPT ![c] = y]
      BY <1>5, <2>1, <1>0 DEF Judge, Restarts, Meets, ClientAt
    <3>2. y \in ClientState /\ y.pc = "connect" /\ y.before = None
      BY Forgets
    <3> HIDE DEF y
    <3>3. client' \in [Client -> ClientState] /\ client'[c] = y
         /\ \A d \in Client : d # c => client'[d] = client[d]
      BY <3>1, <3>2, ClientSet
    <3> QED
      BY <1>5, <2>1, <3>2, <3>3 DEF Judge, Probes, Looks
  <2>2. CASE Verdict(c) = "Unverifiable"
    <3> DEFINE y == [IdleClient EXCEPT !.pc = "observe"]
    <3>1. client' = [client EXCEPT ![c] = y]
      BY <1>5, <2>2, <1>0 DEF Judge, Restarts, Meets, ClientAt
    <3>2. y \in ClientState /\ y.pc = "observe" /\ y.before = None
      BY Forgets
    <3> HIDE DEF y
    <3>3. client' \in [Client -> ClientState] /\ client'[c] = y
         /\ \A d \in Client : d # c => client'[d] = client[d]
      BY <3>1, <3>2, ClientSet
    <3> QED
      BY <1>5, <2>2, <3>2, <3>3 DEF Judge, Probes, Looks
  <2>3. CASE Verdict(c) = "Absent"
    <3> DEFINE y == [IdleClient EXCEPT !.pc = "start", !.before = x.before]
    <3>1. client' = [client EXCEPT ![c] = y]
      BY <1>5, <2>3, <1>0 DEF Judge, Restarts, Meets, ClientAt
    <3>2. y \in ClientState /\ y.pc = "start" /\ y.before = x.before /\ ~x.held
      BY <1>b, <2>3, StartsWith DEF Verdict
    <3> HIDE DEF y
    <3>3. client' \in [Client -> ClientState] /\ client'[c] = y
         /\ \A d \in Client : d # c => client'[d] = client[d]
      BY <3>1, <3>2, ClientSet
    <3> QED
      BY <1>5, <2>3, <3>2, <3>3 DEF Judge, Probes, Looks
  <2> QED
    BY <2>1, <2>2, <2>3 DEF Verdict
<1>6. CASE Connect(c)
  <2>1. CASE Answers
    <3> DEFINE y == [IdleClient EXCEPT !.pc = "session", !.host = endpoint]
    <3>1. client' = [client EXCEPT ![c] = y]
      BY <1>6, <2>1, <1>0 DEF Connect, Restarts, Meets, ClientAt
    <3>2. y \in ClientState /\ y.pc = "session" /\ y.before = None /\ y.host # None
      BY <2>1, <1>0, Met, HostIsSomeone DEF Answers
    <3> HIDE DEF y
    <3>3. client' \in [Client -> ClientState] /\ client'[c] = y
         /\ \A d \in Client : d # c => client'[d] = client[d]
      BY <3>1, <3>2, ClientSet
    <3> QED
      BY <1>6, <2>1, <3>2, <3>3 DEF Connect, Probes, Looks
  <2>2. CASE ~Answers
    <3> DEFINE y == [IdleClient EXCEPT !.pc = "observe"]
    <3>1. client' = [client EXCEPT ![c] = y]
      BY <1>6, <2>2, <1>0 DEF Connect, Restarts, Meets, ClientAt
    <3>2. y \in ClientState /\ y.pc = "observe" /\ y.before = None
      BY Forgets
    <3> HIDE DEF y
    <3>3. client' \in [Client -> ClientState] /\ client'[c] = y
         /\ \A d \in Client : d # c => client'[d] = client[d]
      BY <3>1, <3>2, ClientSet
    <3> QED
      BY <1>6, <2>2, <3>2, <3>3 DEF Connect, Probes, Looks
  <2> QED
    BY <2>1, <2>2
<1>7. CASE Start(c)
  <2>0. PICK h \in Unborn : host' = HostAt(h, "spawned")
    BY <1>7, LeastUnborn DEF Start
  <2>00. \E g \in Host : Starts(g)
    BY <2>0 DEF Unborn, Starts
  <2> DEFINE y == [IdleClient EXCEPT !.pc = "await"]
  <2>1. client' = [client EXCEPT ![c] = y]
    BY <1>7, <2>00, <1>0 DEF Start, Restarts, Meets, ClientAt
  <2>2. y \in ClientState /\ y.pc = "await" /\ y.before = None
    BY Forgets
  <2> HIDE DEF y
  <2>3. client' \in [Client -> ClientState] /\ client'[c] = y
       /\ \A d \in Client : d # c => client'[d] = client[d]
    BY <2>1, <2>2, ClientSet
  <2> QED
    BY <1>7, <2>00, <2>2, <2>3 DEF Start, Probes, Looks
<1>8. CASE Adopt(c)
  <2> DEFINE y == [IdleClient EXCEPT !.pc = "session", !.host = endpoint]
  <2>1. client' = [client EXCEPT ![c] = y]
    BY <1>8, <1>0 DEF Adopt, Restarts, Meets, ClientAt
  <2>2. y \in ClientState /\ y.pc = "session" /\ y.before = None /\ y.host # None
    BY <1>8, <1>0, Met, HostIsSomeone DEF Adopt, Answers
  <2> HIDE DEF y
  <2>3. client' \in [Client -> ClientState] /\ client'[c] = y
       /\ \A d \in Client : d # c => client'[d] = client[d]
    BY <2>1, <2>2, ClientSet
  <2> QED
    BY <1>8, <2>2, <2>3 DEF Adopt, Probes, Looks
<1>9. CASE Ensure(c)
  <2> DEFINE y == [IdleClient EXCEPT !.pc = "observe"]
  <2>1. client' = [client EXCEPT ![c] = y]
    BY <1>9, <1>0 DEF Ensure, Restarts, Meets, ClientAt
  <2>2. y \in ClientState /\ y.pc = "observe" /\ y.before = None
    BY Forgets
  <2> HIDE DEF y
  <2>3. client' \in [Client -> ClientState] /\ client'[c] = y
       /\ \A d \in Client : d # c => client'[d] = client[d]
    BY <2>1, <2>2, ClientSet
  <2> QED
    BY <1>9, <2>2, <2>3 DEF Ensure, Probes, Looks
<1>10. CASE GiveUp(c)
  <2> DEFINE y == IdleClient
  <2>1. client' = [client EXCEPT ![c] = y]
    BY <1>10, <1>0 DEF GiveUp, ClientAt
  <2>2. y \in ClientState /\ y.pc = "idle" /\ y.before = None
    BY <1>10, <1>0, HostProcessAssumption DEF GiveUp, ClientState, IdleClient, Root
  <2> HIDE DEF y
  <2>3. client' \in [Client -> ClientState] /\ client'[c] = y
       /\ \A d \in Client : d # c => client'[d] = client[d]
    BY <2>1, <2>2, ClientSet
  <2> QED
    BY <1>10, <2>2, <2>3 DEF GiveUp, Probes, Looks
<1>11. CASE Quit(c)
  <2> DEFINE y == IdleClient
  <2>1. client' = [client EXCEPT ![c] = y]
    BY <1>11, <1>0 DEF Quit, ClientAt
  <2>2. y \in ClientState /\ y.pc = "idle" /\ y.before = None
    BY <1>11, <1>0, HostProcessAssumption DEF Quit, ClientState, IdleClient, Root
  <2> HIDE DEF y
  <2>3. client' \in [Client -> ClientState] /\ client'[c] = y
       /\ \A d \in Client : d # c => client'[d] = client[d]
    BY <2>1, <2>2, ClientSet
  <2> QED
    BY <1>11, <2>2, <2>3 DEF Quit, Probes, Looks
<1> QED
  BY <1>1, <1>2, <1>3, <1>4, <1>5, <1>6, <1>7, <1>8, <1>9, <1>10, <1>11 DEF ClientMove, ClientStep

-----------------------------------------------------------------------------
(* Each part of the invariant. *)

LEMMA TypeStep ==
  ASSUME TypeOK, [Next]_vars
  PROVE  TypeOK'
<1> USE HostProcessAssumption DEF TypeOK
<1>1. ASSUME NEW h \in Host, HostMove(h) PROVE TypeOK'
  <2>1. host' \in [Host -> HostState] /\ root' = root /\ client' = client
    BY <1>1, HostMoves DEF Moves
  <2>2. lock' \in [Root -> Host \cup Client \cup {None}]
    <3>1. CASE lock' = lock \/ lock' = [lock EXCEPT ![host[h].root] = h]
      BY <3>1
    <3>2. CASE lock' = Unlocked(h)
      BY <3>2 DEF Unlocked
    <3> QED
      BY <1>1, <3>1, <3>2, HostMoves DEF Moves
  <2>3. endpoint' \in Host \cup {None} /\ state' \in Host \cup {None}
    BY <1>1, HostMoves DEF Writes
  <2>4. ensures' = ensures /\ silences' = silences
        /\ (crashes' = crashes \/ (crashes' = crashes + 1 /\ FaultLeft))
    BY <1>1 DEF HostMove, HostStep, OpenLock, AcquireLock, LoseLock, ProbeEndpoint, RemoveStale, Bind,
         Identify, Publish, UndoBind, StopAccepting, ReadOwnState, CompareEndpoint, RemoveEndpoint, RemoveState, Exit,
         PublishFails, IdleExit, Crash
  <2>5. crashes' \in 0..MaxFault
    BY <2>4 DEF FaultLeft, Root
  <2> QED
    BY <2>1, <2>2, <2>3, <2>4, <2>5
<1>2. ASSUME NEW c \in Client, ClientMove(c) PROVE TypeOK'
  <2>1. /\ client' \in [Client -> ClientState] /\ \A d \in Client : d # c => client'[d] = client[d]
        /\ client'[c].pc = "session" => client'[c].host # None
        /\ root' = root /\ endpoint' = endpoint /\ state' = state
    BY <1>2, ClientMoves, Zenon
  <2>2. host' \in [Host -> HostState]
    <3>1. ASSUME NEW h \in Host, Starts(h) PROVE host' \in [Host -> HostState]
      <4>1. host[h] \in HostState /\ Sets(h, [host[h] EXCEPT !.pc = "spawned"])
        BY <3>1 DEF Starts, HostAt, Sets
      <4>2. [host[h] EXCEPT !.pc = "spawned"] \in HostState
        BY <4>1, HostFields DEF HostPc
      <4> QED
        BY <4>1, <4>2, HostSet
    <3> QED
      BY <1>2, <3>1, ClientMoves, Zenon
  <2>3. lock' \in [Root -> Host \cup Client \cup {None}]
    BY <1>2, ClientMoves DEF Probes
  <2>4. ensures' \in 0..MaxEnsure /\ crashes' = crashes /\ silences' \in 0..MaxFault
    BY <1>2 DEF ClientMove, ClientStep, ReadState, Ask, ProbeLock, ReleaseProbe, Judge, Connect,
         Start, Adopt, Ensure, GiveUp, Quit, FaultLeft, Root
  <2>5. \A d \in Client : client'[d].pc = "session" => client'[d].host # None
    BY <2>1
  <2> QED
    BY <2>1, <2>2, <2>3, <2>4, <2>5
<1>3. CASE Wipe
  BY <1>3 DEF Wipe, FaultLeft, Root
<1>4. CASE UNCHANGED vars
  BY <1>4 DEF vars
<1> QED
  BY <1>1, <1>2, <1>3, <1>4, Zenon DEF Next, HostMove, ClientMove

(* Hosts that did not move, or were only started, hold what they held. *)
LEMMA LockStep ==
  ASSUME TypeOK, LockOK, [Next]_vars
  PROVE  LockOK'
<1> USE HostProcessAssumption
<1>d. /\ \A h \in Host, c \in Client : h # c
      /\ (\A h \in Host : h # None) /\ (\A c \in Client : c # None)
  BY DEF Host
<1>t. /\ host \in [Host -> HostState] /\ client \in [Client -> ClientState]
      /\ lock \in [Root -> Host \cup Client \cup {None}] /\ root \in Root
      /\ \A h \in Host : host[h].root \in Root
      /\ \A c \in Client : client[c].root \in Root
  BY DEF TypeOK, HostState, ClientState
<1>1. ASSUME NEW h \in Host, HostMove(h) PROVE LockOK'
  <2>1. /\ client' = client /\ \A g \in Host : g # h => host'[g] = host[g]
        /\ Moves(h)
    BY <1>1, HostMoves, Zenon DEF Moves
  <2>2. CASE host[h].pc = "spawned" /\ host'[h].pc = "locking" /\ lock' = lock
    BY <1>t, <1>d, <2>1, <2>2 DEF LockOK, Holding
  <2>3. CASE /\ host[h].pc = "locking" /\ host'[h].pc = "locked" /\ host'[h].root = host[h].root
             /\ lock[host[h].root] = None /\ lock' = [lock EXCEPT ![host[h].root] = h]
    <3>1. \A g \in Host : /\ host'[g].root = host[g].root
                          /\ host'[g].pc \in Holding <=> g = h \/ host[g].pc \in Holding
      BY <2>1, <2>3 DEF Holding
    <3>2. \A r \in Root : lock'[r] = IF r = host[h].root THEN h ELSE lock[r]
      BY <1>t, <2>3
    <3>3. \A g \in Host : host'[g].pc \in Holding => lock'[host'[g].root] = g
      BY <1>t, <1>d, <2>3, <3>1, <3>2 DEF LockOK
    <3>4. \A r \in Root, g \in Host : lock'[r] = g => host'[g].pc \in Holding /\ host'[g].root = r
      BY <1>d, <3>1, <3>2 DEF LockOK
    <3>5. \A d \in Client : client'[d].pc = "unlock" => lock'[client'[d].root] = d
      BY <1>t, <1>d, <2>1, <2>3, <3>2 DEF LockOK
    <3>6. \A r \in Root, d \in Client : lock'[r] = d => client'[d].pc = "unlock" /\ client'[d].root = r
      BY <1>d, <2>1, <3>2 DEF LockOK
    <3> QED
      BY <3>3, <3>4, <3>5, <3>6 DEF LockOK
  <2>4. CASE /\ host[h].pc \in Holding /\ host'[h].pc \in Holding /\ host'[h].root = host[h].root
             /\ lock' = lock
    BY <1>t, <1>d, <2>1, <2>4 DEF LockOK
  <2>7. host'[h] = Dead => host'[h].pc = "dead"
    BY DeadType
  <2>5. CASE host[h].pc = "locking" /\ host'[h].pc = "dead" /\ lock' = lock
    BY <1>t, <1>d, <2>1, <2>5 DEF LockOK, Holding
  <2>6. CASE host'[h].pc = "dead" /\ lock' = Unlocked(h)
    <3>1. host'[h].pc \notin Holding /\ \A g \in Host : g # h => host'[g] = host[g]
      BY <2>1, <2>6 DEF Holding
    <3>2. \A r \in Root : lock'[r] = IF lock[r] = h THEN None ELSE lock[r]
      BY <2>6 DEF Unlocked
    <3>3. \A g \in Host : host'[g].pc \in Holding => g # h /\ lock'[host'[g].root] = g
      BY <1>t, <1>d, <3>1, <3>2 DEF LockOK
    <3>4. ASSUME NEW r \in Root, NEW g \in Host, lock'[r] = g
          PROVE  host'[g].pc \in Holding /\ host'[g].root = r
      <4>1. lock[r] = g /\ g # h
        BY <1>d, <3>2, <3>4
      <4> QED
        BY <3>1, <4>1 DEF LockOK
    <3>5. \A d \in Client : client'[d].pc = "unlock" => lock'[client'[d].root] = d
      BY <1>t, <1>d, <2>1, <3>2 DEF LockOK
    <3>6. \A r \in Root, d \in Client : lock'[r] = d => client'[d].pc = "unlock" /\ client'[d].root = r
      BY <1>d, <2>1, <3>2 DEF LockOK
    <3> QED
      BY <3>3, <3>4, <3>5, <3>6 DEF LockOK
  <2> QED
    BY <2>1, <2>2, <2>3, <2>4, <2>5, <2>6, <2>7 DEF Moves
<1>2. ASSUME NEW c \in Client, ClientMove(c) PROVE LockOK'
  <2>1. /\ \A d \in Client : d # c => client'[d] = client[d]
        /\ Probes(c) /\ root' = root /\ (host' = host \/ \E h \in Host : Starts(h))
    BY <1>2, ClientMoves, Zenon
  <2>2. \A h \in Host : /\ host'[h].root = host[h].root
                        /\ host'[h].pc \in Holding <=> host[h].pc \in Holding
    <3>1. ASSUME NEW g \in Host, Starts(g)
          PROVE  \A h \in Host : /\ host'[h].root = host[h].root
                                 /\ host'[h].pc \in Holding <=> host[h].pc \in Holding
      BY <1>t, <3>1 DEF Starts, HostAt, Holding, HostState
    <3>2. CASE host' = host
      BY <3>2
    <3> QED
      BY <2>1, <3>1, <3>2, Zenon
  <2>3. CASE lock' = lock /\ client[c].pc # "unlock" /\ client'[c].pc # "unlock"
    BY <1>t, <1>d, <2>1, <2>2, <2>3 DEF LockOK
  <2>4. CASE /\ lock[root] = None /\ lock' = [lock EXCEPT ![root] = c]
             /\ client[c].pc = "probe" /\ client'[c].pc = "unlock" /\ client'[c].root = root
    BY <1>t, <1>d, <2>1, <2>2, <2>4 DEF LockOK
  <2>5. CASE /\ client[c].pc = "unlock" /\ client'[c].pc = "judge"
             /\ lock' = [lock EXCEPT ![client[c].root] = None]
    BY <1>t, <1>d, <2>1, <2>2, <2>5 DEF LockOK
  <2>6. Probes(c)
    BY <2>1
  <2> QED
    BY <2>3, <2>4, <2>5, <2>6, Zenon DEF Probes
<1>3. CASE Wipe
  BY <1>3 DEF Wipe, LockOK
<1>4. CASE UNCHANGED vars
  BY <1>4 DEF vars, LockOK
<1> QED
  BY <1>1, <1>2, <1>3, <1>4, Zenon DEF Next, HostMove, ClientMove

LEMMA RootStep ==
  ASSUME TypeOK, RootOK, [Next]_vars
  PROVE  RootOK'
<1> USE HostProcessAssumption
<1>t. /\ host \in [Host -> HostState] /\ root \in Nat
      /\ \A h \in Host : host[h].root \in Nat
  BY DEF TypeOK, HostState, Root
<1>1. ASSUME NEW h \in Host, HostMove(h) PROVE RootOK'
  <2>1. root' = root /\ Moves(h)
    BY <1>1, HostMoves, Zenon
  <2>2. host'[h].root <= root /\ (host'[h].pc \in Unpublished => host'[h].saw = host'[h].root)
    <3>1. CASE host'[h] = Dead
      BY <1>t, <3>1 DEF Dead, NewHost, Unpublished
    <3>2. CASE host'[h] # Dead
      BY <1>t, <2>1, <3>2 DEF Moves, RootOK, Holding, Unpublished
    <3> QED
      BY <3>1, <3>2
  <2>3. \A g \in Host : g # h => host'[g] = host[g]
    BY <2>1 DEF Moves
  <2> QED
    BY <2>1, <2>2, <2>3 DEF RootOK
<1>2. ASSUME NEW c \in Client, ClientMove(c) PROVE RootOK'
  <2>1. root' = root /\ (host' = host \/ \E h \in Host : Starts(h))
    BY <1>2, ClientMoves, Zenon
  <2>2. ASSUME NEW g \in Host, Starts(g) PROVE RootOK'
    BY <1>t, <2>1, <2>2 DEF Starts, HostAt, RootOK, HostState, Unpublished
  <2> QED
    BY <2>1, <2>2 DEF RootOK
<1>3. CASE Wipe
  BY <1>t, <1>3 DEF Wipe, RootOK
<1>4. CASE UNCHANGED vars
  BY <1>4 DEF vars, RootOK
<1> QED
  BY <1>1, <1>2, <1>3, <1>4, Zenon DEF Next, HostMove, ClientMove

(* Each change of the files is one the order of run and remove_own_files
   allows. *)
LEMMA FilesStep ==
  ASSUME TypeOK, RootOK, FilesOK, [Next]_vars
  PROVE  FilesOK'
<1> USE HostProcessAssumption
<1>t. /\ host \in [Host -> HostState] /\ \A h \in Host : h # None
      /\ root \in Nat /\ \A h \in Host : host[h].root \in Nat
  BY DEF TypeOK, HostState, Root, Host
<1>1. ASSUME NEW h \in Host, HostMove(h) PROVE FilesOK'
  <2>1. root' = root /\ (\A g \in Host : g # h => host'[g] = host[g]) /\ Writes(h)
    BY <1>1, HostMoves, Zenon DEF Moves
  <2>2. endpoint' \in {None, endpoint, h} /\ state' \in {None, state, h}
    BY <2>1 DEF Writes
  <2>3. ASSUME NEW g \in Host, g # h
        PROVE  /\ endpoint' = g => endpoint = g
               /\ state' = g => state = g
    BY <1>t, <2>2, <2>3
  <2>4. /\ endpoint' = h /\ host'[h].pc # "dead" => host'[h].made = root /\ host'[h].pc \notin Unbound
        /\ state' = h /\ host'[h].pc # "dead" =>
             host'[h].made = root /\ host'[h].pc \notin Unbound \cup Unpublished
        /\ host'[h].pc \in {"owner", "unlink", "forget"} => host'[h].saw = host'[h].made
    <3>0. /\ endpoint = h /\ host[h].pc # "dead" => host[h].made = root /\ host[h].pc \notin Unbound
          /\ state = h /\ host[h].pc # "dead" =>
               host[h].made = root /\ host[h].pc \notin Unbound \cup Unpublished
          /\ host[h].pc \in {"owner", "unlink", "forget"} => host[h].saw = host[h].made
      BY DEF FilesOK
    <3>1. CASE endpoint' = endpoint /\ state' = state
      BY <1>t, <2>1, <3>0, <3>1 DEF Writes, Goes, Makes, Unbound, Unpublished
    <3>2. CASE ~(endpoint' = endpoint /\ state' = state)
      BY <1>t, <2>1, <3>0, <3>2 DEF Writes, Goes, Makes, Unbound, Unpublished
    <3> QED
      BY <3>1, <3>2
  <2> QED
    BY <2>1, <2>3, <2>4 DEF FilesOK
<1>2. ASSUME NEW c \in Client, ClientMove(c) PROVE FilesOK'
  <2>1. /\ root' = root /\ endpoint' = endpoint /\ state' = state
        /\ (host' = host \/ \E h \in Host : Starts(h))
    BY <1>2, ClientMoves, Zenon
  <2>2. ASSUME NEW g \in Host, Starts(g) PROVE FilesOK'
    BY <1>t, <2>1, <2>2 DEF Starts, HostAt, FilesOK, HostState, Unbound, Unpublished
  <2> QED
    BY <2>1, <2>2 DEF FilesOK
<1>3. CASE Wipe
  BY <1>t, <1>3 DEF Wipe, FilesOK
<1>4. CASE UNCHANGED vars
  BY <1>4 DEF vars, FilesOK
<1> QED
  BY <1>1, <1>2, <1>3, <1>4, Zenon DEF Next, HostMove, ClientMove

(* Whoever holds the lock of a root is the only one of that root to do so. *)
LEMMA OneHolder ==
  ASSUME LockOK, NEW h \in Host, NEW g \in Host,
         host[h].pc \in Holding, host[g].pc \in Holding, host[h].root = host[g].root
  PROVE  h = g
BY DEF LockOK

LEMMA RecordStep ==
  ASSUME TypeOK, LockOK, RootOK, RecordOK, [Next]_vars
  PROVE  RecordOK'
<1> USE HostProcessAssumption
<1>t. /\ host \in [Host -> HostState] /\ \A h \in Host : h # None
      /\ root \in Nat /\ \A h \in Host : host[h].root \in Nat
  BY DEF TypeOK, HostState, Root, Host
<1>h. root = 0 => \A h, g \in Host : host[h].pc \in Holding /\ host[g].pc \in Holding => h = g
  BY <1>t, OneHolder DEF RootOK
<1>1. ASSUME NEW h \in Host, HostMove(h), root = 0 PROVE RecordOK'
  <2>1. root' = root /\ \A g \in Host : g # h => host'[g] = host[g]
    BY <1>1, HostMoves, Zenon DEF Moves
  <2>2. CASE host[h].pc \notin Holding
    <3>1. endpoint' = endpoint /\ state' = state /\ host'[h].pc \in {"locking", "locked", "dead"}
      BY <1>1, <2>2, HostMoves DEF Writes, Goes, Makes, Holding
    <3> QED
      BY <1>1, <2>1, <3>1 DEF RecordOK
  <2>4. CASE host[h].pc \in Holding
    <3>1. \A g \in Host : host'[g].pc \in Holding => g = h
      BY <1>1, <1>h, <2>1, <2>4
    <3>2. /\ host'[h].pc \in {"bound", "named", "ready", "undo", "leaving", "closed", "owner", "unlink"}
               => endpoint' = h
          /\ host'[h].pc \in {"ready", "leaving", "closed", "owner", "unlink", "forget"} => state' = h
      BY <1>1, <2>4, HostMoves DEF Writes, Goes, Makes, Holding, RecordOK
    <3> QED
      BY <3>1, <3>2 DEF RecordOK, Holding
  <2> QED
    BY <2>2, <2>4
<1>2. ASSUME NEW c \in Client, ClientMove(c) PROVE RecordOK'
  <2>1. /\ root' = root /\ endpoint' = endpoint /\ state' = state
        /\ (host' = host \/ \E h \in Host : Starts(h))
    BY <1>2, ClientMoves, Zenon
  <2>2. ASSUME NEW g \in Host, Starts(g) PROVE RecordOK'
    BY <1>t, <2>1, <2>2 DEF Starts, HostAt, RecordOK, HostState
  <2> QED
    BY <2>1, <2>2 DEF RecordOK
<1>3. CASE root' # 0
  BY <1>3 DEF RecordOK
<1>4. CASE Wipe
  BY <1>t, <1>3, <1>4 DEF Wipe
<1>5. CASE UNCHANGED vars
  BY <1>5 DEF vars, RecordOK
<1>6. ASSUME NEW h \in Host, HostMove(h) PROVE RecordOK'
  BY <1>1, <1>3, <1>6, HostMoves
<1> QED
  BY <1>2, <1>4, <1>5, <1>6, Zenon DEF Next, HostMove, ClientMove

(* A host whose root is gone has nothing of the new one, and none that died
   takes a lock again. *)
LEMMA LookStep ==
  ASSUME TypeOK, LockOK, RootOK, LookOK, [Next]_vars
  PROVE  LookOK'
<1> USE HostProcessAssumption
<1>t. /\ host \in [Host -> HostState] /\ client \in [Client -> ClientState]
      /\ lock \in [Root -> Host \cup Client \cup {None}] /\ root \in Root
      /\ \A h \in Host : host[h].root \in Root
  BY DEF TypeOK, HostState
<1>d. /\ \A h \in Host, c \in Client : h # c
      /\ \A h \in Host : h # None
  BY DEF Host
<1>1. ASSUME NEW h \in Host, HostMove(h) PROVE LookOK'
  <2>1. /\ client' = client /\ root' = root /\ \A g \in Host : g # h => host'[g] = host[g]
        /\ Moves(h)
    BY <1>1, HostMoves, Zenon DEF Moves
  <2>2. \A g \in Host : host[g].pc \in Holding \cup {"dead"} => host'[g].pc \in Holding \cup {"dead"}
    BY <2>1, DeadType DEF Moves, Holding
  <2>3. \A g \in Host : host[g].pc \in Holding \cup {"dead"} /\ lock[root] # g => lock'[root] # g
    BY <1>t, <1>d, <2>1, DeadType DEF Moves, Holding, Unlocked
  <2> QED
    BY <2>1, <2>2, <2>3 DEF LookOK
<1>2. ASSUME NEW c \in Client, ClientMove(c) PROVE LookOK'
  <2>1. /\ \A d \in Client : d # c => client'[d] = client[d]
        /\ Probes(c) /\ Looks(c) /\ root' = root /\ (host' = host \/ \E h \in Host : Starts(h))
    BY <1>2, ClientMoves, Zenon
  <2>2. \A g \in Host : host[g].pc \in Holding \cup {"dead"} => host'[g].pc \in Holding \cup {"dead"}
    <3>1. ASSUME NEW h \in Host, Starts(h)
          PROVE  \A g \in Host : host[g].pc \in Holding \cup {"dead"} => host'[g].pc \in Holding \cup {"dead"}
      BY <1>t, <3>1 DEF Starts, HostAt, Holding, HostState
    <3>2. CASE host' = host
      BY <3>2
    <3> QED
      BY <2>1, <3>1, <3>2
  <2>3. \A g \in Host : lock[root] # g => lock'[root] # g
    BY <1>t, <1>d, <2>1 DEF Probes
  <2>4. \A d \in Client : d # c /\ client'[d].before \in Host =>
          /\ host'[client'[d].before].pc \in Holding \cup {"dead"}
          /\ \/ client'[d].pc = "unlock"
             \/ client'[d].pc = "judge" /\ ~client'[d].held
             \/ client'[d].pc = "start"
             => lock'[root'] # client'[d].before
    BY <2>1, <2>2, <2>3 DEF LookOK
  <2>5. client'[c].before \in Host =>
          /\ host'[client'[c].before].pc \in Holding \cup {"dead"}
          /\ \/ client'[c].pc = "unlock"
             \/ client'[c].pc = "judge" /\ ~client'[c].held
             \/ client'[c].pc = "start"
             => lock'[root'] # client'[c].before
    <3>1. CASE client'[c].before = None
      BY <1>d, <3>1
    <3>2. CASE client[c].pc = "observe" /\ client'[c].pc = "ask" /\ client'[c].before = lock[root]
      BY <1>t, <2>2, <3>2 DEF LockOK
    <3>3. CASE client'[c].before = client[c].before /\
               client'[c].pc \in {"idle", "observe", "probe", "connect", "await", "session"}
      BY <2>2, <3>3 DEF LookOK
    <3>4. CASE client'[c].before = client[c].before /\ client'[c].pc = "unlock" /\ lock' = [lock EXCEPT ![root] = c]
      BY <1>t, <1>d, <2>1, <2>2, <3>4 DEF LookOK
    <3>5. CASE client'[c].before = client[c].before /\ client'[c].pc = "judge" /\ client'[c].held
      BY <2>2, <3>5 DEF LookOK
    <3>6. CASE client'[c].before = client[c].before /\ client[c].pc = "unlock" /\ client'[c].pc = "judge"
      BY <2>1, <2>2, <2>3, <3>6 DEF LookOK
    <3>7. CASE client'[c].before = client[c].before /\ client[c].pc = "judge" /\ ~client[c].held
               /\ client'[c].pc = "start"
      BY <2>1, <2>2, <2>3, <3>7 DEF LookOK
    <3> QED
      BY <2>1, <3>1, <3>2, <3>3, <3>4, <3>5, <3>6, <3>7 DEF Looks
  <2> QED
    BY <2>4, <2>5 DEF LookOK
<1>3. CASE Wipe
  <2>1. /\ host' = host /\ lock' = lock /\ client' = client /\ root' = root + 1 /\ root + 1 \in Root
    BY <1>3 DEF Wipe, FaultLeft, TypeOK, Root
  <2>2. \A h \in Host : lock[root + 1] # h
    BY <1>t, <2>1 DEF LockOK, RootOK, Root
  <2> QED
    BY <2>1, <2>2 DEF LookOK
<1>4. CASE UNCHANGED vars
  BY <1>4 DEF vars, LookOK
<1> QED
  BY <1>1, <1>2, <1>3, <1>4, Zenon DEF Next, HostMove, ClientMove

-----------------------------------------------------------------------------
LEMMA InitOK == Init => IInv
<1> SUFFICES ASSUME Init PROVE IInv
  OBVIOUS
<1> USE HostProcessAssumption
<1>1. /\ root = 0 /\ lock = [r \in Root |-> None] /\ endpoint = None /\ state = None
      /\ \A h \in Host : host[h] = NewHost
      /\ \A c \in Client : client[c] = IdleClient
  BY DEF Init
<1>2. 0 \in Root /\ NewHost \in HostState
  BY DEF NewHost, HostState, Root, Host
<1>3. TypeOK
  BY <1>1, <1>2, IdleType DEF Init, TypeOK, IdleClient
<1>d. (\A h \in Host : h # None) /\ (\A c \in Client : c # None)
  BY DEF Host
<1>4. LockOK
  BY <1>1, <1>2, <1>d DEF LockOK, NewHost, IdleClient, Holding
<1>5. RootOK /\ FilesOK /\ RecordOK
  BY <1>1, <1>d DEF RootOK, FilesOK, RecordOK, NewHost, Unpublished
<1>6. LookOK
  BY <1>1, <1>d DEF LookOK, IdleClient
<1> QED
  BY <1>3, <1>4, <1>5, <1>6 DEF IInv

(* The inductive invariant. *)
THEOREM IInvHolds == Spec => []IInv
<1>1. IInv /\ [Next]_vars => IInv'
  BY TypeStep, LockStep, RootStep, FilesStep, RecordStep, LookStep DEF IInv
<1> QED
  BY <1>1, InitOK, PTL DEF Spec

(* Type correctness: among others, ensure_host never ends with a session and
   no host it is with. *)
THEOREM TypeCorrect == Spec => []TypeOK
<1>1. IInv => TypeOK
  BY DEF IInv
<1> QED
  BY <1>1, IInvHolds, PTL

(* Two hosts that listen hold the locks of different roots (run binds after
   acquire_lock and keeps the lock until it returns), whenever roots are removed:
   where two listen in one root, one of them holds the lock of another. *)
THEOREM OneServerHolds == Spec => []OneServer
<1>1. IInv => OneServer
  <2> SUFFICES ASSUME IInv, NEW h \in Host, NEW g \in Host, Listening(h), Listening(g), h # g
               PROVE  host[h].root # host[g].root
    BY DEF OneServer
  <2> QED
    BY OneHolder DEF IInv, Listening, Holding
<1> QED
  BY <1>1, IInvHolds, PTL

(* Until the root is removed, the host that serves it is found by its socket
   and by its state file (Publish, remove_own_files). *)
THEOREM ServerIsRecordedHolds == Spec => []ServerIsRecorded
<1>1. IInv => ServerIsRecorded
  BY DEF IInv, RecordOK, ServerIsRecorded, Serving
<1> QED
  BY <1>1, IInvHolds, PTL

(* A client that is about to start a candidate has not overlooked a host that
   held the lock all along (observe, verdict). *)
THEOREM SilentIsNotAbsentHolds == Spec => []SilentIsNotAbsent
<1>1. IInv => SilentIsNotAbsent
  BY DEF IInv, LookOK, SilentIsNotAbsent
<1> QED
  BY <1>1, IInvHolds, PTL

(* What a host that serves in its root has there is touched by no client and by
   no other host that has not overlooked a removal (remove_own_files compares,
   and the lock is held). *)
THEOREM ServedFilesStayHolds == Spec => ServedFilesStay
<1> DEFINE Stay ==
      \A h \in Host :
        /\ Serving(h) /\ Serving(h)' /\ AtHome(h) /\ root' = root
        /\ \A g \in Host : host'[g] # host[g] => AtHome(g) /\ host[g].saw = root
        => (endpoint = h => endpoint' = h) /\ (state = h => state' = h)
<1>1. IInv /\ [Next]_vars => [Stay]_vars
  <2> SUFFICES ASSUME IInv, Next, NEW h \in Host,
                      Serving(h), Serving(h)', AtHome(h), root' = root,
                      \A g \in Host : host'[g] # host[g] => AtHome(g) /\ host[g].saw = root
               PROVE  (endpoint = h => endpoint' = h) /\ (state = h => state' = h)
    OBVIOUS
  <2>1. ASSUME NEW g \in Host, HostMove(g), endpoint' # endpoint \/ state' # state, endpoint = h \/ state = h
        PROVE  FALSE
    <3>1. /\ Writes(g) /\ host'[g].pc # host[g].pc
          /\ host[g].pc \in {"stale", "probed", "named", "undo", "unlink", "forget"}
      BY <2>1, HostMoves DEF Writes, Goes, Makes, IInv
    <3>2. AtHome(g) /\ host[g].saw = root
      BY <3>1
    <3>3. host[g].root = root
      BY <3>1, <3>2 DEF AtHome, IInv, RootOK, FilesOK, Unpublished
    <3>4. host[h].root = root
      BY <2>1 DEF AtHome, IInv, FilesOK, Serving
    <3>5. g = h
      BY <3>1, <3>3, <3>4, OneHolder DEF IInv, Holding, Serving
    <3> QED
      BY <3>1, <3>5 DEF Serving
  <2>2. ASSUME NEW c \in Client, ClientMove(c) PROVE endpoint' = endpoint /\ state' = state
    BY <2>2, ClientMoves DEF IInv
  <2>3. ~Wipe
    BY HostProcessAssumption DEF Wipe, IInv, TypeOK, Root
  <2> QED
    BY <2>1, <2>2, <2>3, Zenon DEF Next, HostMove, ClientMove
<1> QED
  BY <1>1, IInvHolds, PTL DEF Spec, ServedFilesStay
=============================================================================
