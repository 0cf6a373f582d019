--------------------------- MODULE HostCore_proofs ---------------------------
(***************************************************************************)
(* Safety of HostCore for every set of clients and ids and every bound.    *)
(*                                                                         *)
(* The three invariants are not inductive by themselves.  That a leaving   *)
(* host holds no live session rests on the gate: a create that holds it    *)
(* began before the decision, so `shutdown` and gate.op = "create" exclude *)
(* each other.  That no process is forgotten rests on what each operation  *)
(* keeps while it holds the gate: the id being created is free until the   *)
(* insert, a forced shutdown works on an empty table.  GateOK says so.     *)
(* That none but a child the host gave up on outlives the host rests on    *)
(* LeavingOK: what a leaving host still lists, or still closes, has        *)
(* exited, and an exit is seen of a dead child only (SessionsOK).          *)
(* The second half goes on to what the host publishes (TopicInv).          *)
(***************************************************************************)
EXTENDS HostCore, TLAPS

(* What the operation that holds HostCore::lifecycle has established. *)
GateOK ==
  /\ gate.op = "free" => gate = Free
  /\ gate.op = "create" =>
       /\ ~shutdown /\ gate.id \in Id /\ gate.rest = {}
       /\ gate.step = "spawn" => gate.inc = None /\ entries[gate.id] = None
       /\ gate.step = "insert" => gate.inc \in Inc /\ entries[gate.id] = None
       /\ gate.step = "publish" => gate.inc \in Inc /\ entries[gate.id] = gate.inc
       /\ gate.step \in {"insert", "publish"} => session[gate.inc].id = gate.id
  /\ gate.op = "close" => gate.id \in Id /\ gate.inc \in Inc /\ gate.rest = {}
  /\ gate.op = "shutdown" =>
       /\ \A id \in Id : entries[id] = None
       /\ gate.step = "wait" => gate.id \in Id /\ gate.inc \in Inc
  /\ gate.op \in {"close", "shutdown"} /\ gate.step = "wait" => session[gate.inc].close

(* An exit is sent, kept and published in this order, of a child that is dead. *)
SessionsOK ==
  \A i \in Inc : /\ session[i].pumped => session[i].exit
                 /\ session[i].exit => session[i].sent
                 /\ session[i].sent => session[i].child = "dead"

(* A host that decided to leave closes only sessions that have exited. *)
LeavingOK ==
  /\ gate.step = "wait" => gate.op \in {"close", "shutdown"}
  /\ shutdown => /\ \A e \in gate.rest : session[e[2]].exit
                 /\ gate.step = "wait" => session[gate.inc].exit

(* A session whose events are published has the name it was created with. *)
PumpedAreNamed == \A i \in Inc : session[i].pump => session[i].id \in Id

IInv ==
  /\ TypeOK /\ GateOK /\ PumpedAreNamed /\ SessionsOK /\ LeavingOK
  /\ NoLiveSessionWhileLeaving /\ NoProcessForgotten

(* The snapshot of a typed state is an announcement. *)
LEMMA SnapshotType ==
  ASSUME NEW c \in SUBSET Client, NEW h \in 0..MaxHeld, NEW l \in SUBSET Inc, NEW d \in BOOLEAN
  PROVE  Snapshot(c, h, l, d) \in Announcement
  BY DEF Snapshot, Announcement

LEMMA LiveType == Live \subseteq Listed /\ (TypeOK => Listed \subseteq Inc)
  BY DEF Live, Listed, TypeOK

(* A session keeps its type when one of its threads writes a field. *)
LEMMA SessionFields ==
  ASSUME NEW r \in SessionState,
         NEW c \in {"none", "alive", "termed", "dead"},
         NEW o \in {"none", "starting", "running", "stalled", "ended"},
         NEW b \in BOOLEAN
  PROVE  /\ [r EXCEPT !.child = c] \in SessionState
         /\ [r EXCEPT !.owner = o] \in SessionState
         /\ [r EXCEPT !.child = c, !.owner = o] \in SessionState
         /\ [r EXCEPT !.exit = b] \in SessionState
         /\ [r EXCEPT !.close = b] \in SessionState
         /\ [r EXCEPT !.pump = b] \in SessionState
         /\ [r EXCEPT !.sent = b] \in SessionState
         /\ [r EXCEPT !.pumped = b] \in SessionState
         /\ [r EXCEPT !.givenUp = b] \in SessionState
  BY DEF SessionState

(* A close that is over changes nothing of the sessions but that the host gave
   up on the owner. *)
LEMMA GoneOnSame ==
  ASSUME TypeOK, NEW k \in Inc
  PROVE  \A j \in Inc :
           /\ GoneOn(k)[j].id = session[j].id /\ GoneOn(k)[j].child = session[j].child
           /\ GoneOn(k)[j].owner = session[j].owner /\ GoneOn(k)[j].sent = session[j].sent
           /\ GoneOn(k)[j].exit = session[j].exit /\ GoneOn(k)[j].close = session[j].close
           /\ GoneOn(k)[j].pump = session[j].pump /\ GoneOn(k)[j].pumped = session[j].pumped
           /\ session[j].givenUp => GoneOn(k)[j].givenUp
           /\ j = k /\ session[j].owner # "ended" => GoneOn(k)[j].givenUp
<1>1. session[k] \in SessionState
  BY DEF TypeOK
<1>2. /\ GoneOn(k)[k] = [session[k] EXCEPT !.givenUp = @ \/ session[k].owner # "ended"]
      /\ \A j \in Inc \ {k} : GoneOn(k)[j] = session[j]
  BY DEF GoneOn, TypeOK
<1>3. /\ GoneOn(k)[k].id = session[k].id /\ GoneOn(k)[k].child = session[k].child
      /\ GoneOn(k)[k].owner = session[k].owner /\ GoneOn(k)[k].sent = session[k].sent
      /\ GoneOn(k)[k].exit = session[k].exit /\ GoneOn(k)[k].close = session[k].close
      /\ GoneOn(k)[k].pump = session[k].pump /\ GoneOn(k)[k].pumped = session[k].pumped
      /\ GoneOn(k)[k].givenUp = (session[k].givenUp \/ session[k].owner # "ended")
  BY <1>1, <1>2 DEF SessionState
<1> QED
  BY <1>2, <1>3

(* The session the gate waits for. *)
LEMMA WaitsForOne ==
  ASSUME GateOK, CloseDone \/ ShutdownCloseDone
  PROVE  /\ gate.inc \in Inc /\ session' = GoneOn(gate.inc) /\ session[gate.inc].close
         /\ gate.step = "wait" /\ gate.op \in {"close", "shutdown"}
         /\ UNCHANGED <<entries, left, shutdown>>
  BY DEF GateOK, CloseDone, ShutdownCloseDone

LEMMA InitIInv == Init => IInv
<1> SUFFICES ASSUME Init PROVE IInv
  OBVIOUS
<1> USE HostCoreAssumption DEF Init
<1>1. TypeOK
  <2>1. NoSession \in SessionState
    BY DEF NoSession, SessionState
  <2>2. Free \in GateState
    BY DEF Free, GateState
  <2>3. announced \in Announcement
    BY DEF Snapshot, Announcement
  <2>4. topic \in Seq(TopicEvent)
    OBVIOUS
  <2>5. entries \in [Id -> Inc \cup {None}]
    OBVIOUS
  <2>6. session \in [Inc -> SessionState]
    BY <2>1
  <2>7. held \in 0..MaxHeld /\ idle \in 0..Grace /\ spawned \in 0..MaxInc /\ workers \in 0..MaxWorkers
    BY DEF HostCoreAssumption
  <2> QED
    BY <2>2, <2>3, <2>4, <2>5, <2>6, <2>7 DEF TypeOK
<1>2. GateOK
  BY DEF GateOK, Free
<1>3. NoProcessForgotten
  BY DEF NoProcessForgotten, NoSession
<1>4. PumpedAreNamed
  BY DEF PumpedAreNamed, NoSession
<1>5. SessionsOK
  BY DEF SessionsOK, NoSession
<1>6. LeavingOK
  BY DEF LeavingOK, Free
<1> QED
  BY <1>1, <1>2, <1>3, <1>4, <1>5, <1>6 DEF IInv, NoLiveSessionWhileLeaving

LEMMA TypeStep == IInv /\ [Next]_vars => TypeOK'
<1> SUFFICES ASSUME IInv, [Next]_vars PROVE TypeOK'
  OBVIOUS
<1>live. Live \in SUBSET Inc
  BY LiveType DEF IInv
<1>rec. \A i \in Inc : session[i] \in SessionState
  BY DEF IInv, TypeOK
<1>gone. ASSUME NEW i \in Inc PROVE GoneOn(i) \in [Inc -> SessionState]
  <2>1. [session[i] EXCEPT !.givenUp = @ \/ session[i].owner # "ended"] \in SessionState
    BY <1>rec DEF SessionState
  <2> QED
    BY <2>1 DEF GoneOn, IInv, TypeOK
<1>gate. gate.step = "wait" => gate.inc \in Inc
  BY DEF IInv, GateOK, LeavingOK
<1> USE HostCoreAssumption DEF IInv, TypeOK, vars, coreVars
<1>1. CASE CreateRequested
  BY <1>1 DEF CreateRequested
<1>2. CASE ShutdownAsked
  <2>1. announced' \in Announcement
    BY <1>2, <1>live, SnapshotType DEF ShutdownAsked
  <2> QED
    BY <1>2, <2>1 DEF ShutdownAsked
<1>3. CASE ShutdownForced
  <2>1. gate' \in GateState
    <3>1. { <<id, entries[id]>> : id \in {x \in Id : entries[x] # None} } \in SUBSET (Id \X Inc)
      OBVIOUS
    <3> QED
      BY <1>3, <3>1 DEF ShutdownForced, GateState, Free
  <2>2. entries' \in [Id -> Inc \cup {None}]
    BY <1>3 DEF ShutdownForced
  <2> QED
    BY <1>3, <2>1, <2>2 DEF ShutdownForced
<1>4. ASSUME NEW c \in Client, ClientConnected(c) PROVE TypeOK'
  <2>1. announced' \in Announcement
    BY <1>4, <1>live, SnapshotType DEF ClientConnected
  <2> QED
    BY <1>4, <2>1 DEF ClientConnected
<1>5. ASSUME NEW c \in Client, ClientDisconnected(c) PROVE TypeOK'
  <2>1. announced' \in Announcement
    BY <1>5, <1>live, SnapshotType DEF ClientDisconnected
  <2> QED
    BY <1>5, <2>1 DEF ClientDisconnected
<1>6. ASSUME NEW h \in BOOLEAN, HoldSession(h) PROVE TypeOK'
  <2>1. announced' \in Announcement
    BY <1>6, <1>live, SnapshotType DEF HoldSession
  <2> QED
    BY <1>6, <2>1 DEF HoldSession
<1>7. ASSUME NEW id \in Id, CloseBegin(id) PROVE TypeOK'
  <2>1. entries' \in [Id -> Inc \cup {None}]
    BY <1>7 DEF CloseBegin
  <2>2. session' \in [Inc -> SessionState]
    BY <1>7, <1>rec, SessionFields DEF CloseBegin
  <2>3. gate' \in GateState
    BY <1>7 DEF CloseBegin, GateState, Free
  <2> QED
    BY <1>7, <2>1, <2>2, <2>3 DEF CloseBegin
<1>8. ASSUME NEW id \in Id, CreateRefused(id) PROVE TypeOK'
  BY <1>8 DEF CreateRefused
<1>9. ASSUME NEW id \in Id, CreateBegin(id) PROVE TypeOK'
  <2>1. gate' \in GateState
    BY <1>9 DEF CreateBegin, GateState, Free
  <2> QED
    BY <1>9, <2>1 DEF CreateBegin
<1>10. CASE CreateSpawnFailed
  <2>1. gate' \in GateState
    BY <1>10 DEF CreateSpawnFailed, GateState, Free
  <2> QED
    BY <1>10, <2>1 DEF CreateSpawnFailed
<1>11. CASE CreateSpawn
  <2>1. session' \in [Inc -> SessionState]
    <3>1. [NoSession EXCEPT !.id = gate.id, !.child = "alive", !.owner = "running"] \in SessionState
      <4>1. gate.id \in Id \cup {None}
        BY DEF GateState
      <4> QED
        BY <4>1 DEF NoSession, SessionState
    <3>2. spawned' \in Inc
      BY <1>11 DEF CreateSpawn, Inc
    <3> QED
      BY <1>11, <3>1, <3>2 DEF CreateSpawn
  <2>2. gate' \in GateState
    <3>1. spawned' \in Inc
      BY <1>11 DEF CreateSpawn, Inc
    <3> QED
      BY <1>11, <3>1 DEF CreateSpawn, GateState
  <2> QED
    BY <1>11, <2>1, <2>2 DEF CreateSpawn
<1>12. CASE CreateInsert
  <2>1. entries' \in [Id -> Inc \cup {None}]
    BY <1>12 DEF CreateInsert, GateOK
  <2>2. gate' \in GateState
    BY <1>12 DEF CreateInsert, GateState, Free
  <2> QED
    BY <1>12, <2>1, <2>2 DEF CreateInsert
<1>13. CASE CreatePublish
  <2>1. topic' \in Seq(TopicEvent)
    BY <1>13 DEF CreatePublish, TopicEvent, GateOK
  <2>2. session' \in [Inc -> SessionState]
    BY <1>13, <1>rec, SessionFields DEF CreatePublish, GateOK
  <2>3. announced' \in Announcement
    BY <1>13, <1>live, SnapshotType DEF CreatePublish
  <2>4. gate' \in GateState
    BY <1>13 DEF CreatePublish, GateState, Free
  <2>5. /\ clients' = clients /\ held' = held /\ shutdown' = shutdown /\ left' = left
        /\ entries' = entries /\ workers' = workers /\ spawned' = spawned
        /\ idle' = 0
    BY <1>13 DEF CreatePublish
  <2> QED
    BY <2>1, <2>2, <2>3, <2>4, <2>5
<1>14. CASE CloseDone
  <2>1. topic' \in Seq(TopicEvent)
    BY <1>14 DEF CloseDone, TopicEvent, GateOK
  <2>2. announced' \in Announcement
    BY <1>14, <1>live, SnapshotType DEF CloseDone
  <2>3. gate' \in GateState
    BY <1>14 DEF CloseDone, GateState, Free
  <2>4. session' \in [Inc -> SessionState]
    BY <1>14, <1>gone, <1>gate DEF CloseDone
  <2> QED
    BY <1>14, <2>1, <2>2, <2>3, <2>4 DEF CloseDone
<1>15. ASSUME NEW e \in gate.rest, ShutdownCloseNext(e) PROVE TypeOK'
  <2>1. session' \in [Inc -> SessionState]
    BY <1>15, <1>rec, SessionFields DEF ShutdownCloseNext
  <2>2. gate' \in GateState
    BY <1>15 DEF ShutdownCloseNext, GateState, Free
  <2> QED
    BY <1>15, <2>1, <2>2 DEF ShutdownCloseNext
<1>16. CASE ShutdownCloseDone
  <2>1. topic' \in Seq(TopicEvent)
    BY <1>16 DEF ShutdownCloseDone, TopicEvent, GateOK
  <2>2. gate' \in GateState
    BY <1>16 DEF ShutdownCloseDone, GateState, Free
  <2>3. session' \in [Inc -> SessionState]
    BY <1>16, <1>gone, <1>gate DEF ShutdownCloseDone
  <2> QED
    BY <1>16, <2>1, <2>2, <2>3 DEF ShutdownCloseDone
<1>17. CASE ShutdownFinish
  <2>1. announced' \in Announcement
    BY <1>17, <1>live, SnapshotType DEF ShutdownFinish
  <2>2. gate' \in GateState
    BY <1>17 DEF ShutdownFinish, GateState, Free
  <2>3. /\ clients' = clients /\ held' = held /\ left' = left /\ entries' = entries
        /\ workers' = workers /\ topic' = topic /\ spawned' = spawned /\ session' = session
        /\ shutdown' = TRUE /\ idle' = 0
    BY <1>17 DEF ShutdownFinish
  <2> QED
    BY <2>1, <2>2, <2>3
<1>18. CASE Tick
  BY <1>18 DEF Tick
<1>19. CASE TryBeginIdleExit
  <2>1. announced' \in Announcement
    BY <1>19, <1>live, SnapshotType DEF TryBeginIdleExit
  <2> QED
    BY <1>19, <2>1 DEF TryBeginIdleExit
<1>20. CASE Leave
  BY <1>20 DEF Leave
<1>21. ASSUME NEW i \in Inc, ChildExits(i) PROVE TypeOK'
  <2>1. session' \in [Inc -> SessionState]
    BY <1>21, <1>rec, SessionFields DEF ChildExits
  <2> QED
    BY <1>21, <2>1 DEF ChildExits
<1>22. ASSUME NEW i \in Inc, OwnerStalls(i) PROVE TypeOK'
  <2>1. session' \in [Inc -> SessionState]
    BY <1>22, <1>rec, SessionFields DEF OwnerStalls
  <2> QED
    BY <1>22, <2>1 DEF OwnerStalls
<1>23. ASSUME NEW i \in Inc, OwnerResumes(i) PROVE TypeOK'
  <2>1. session' \in [Inc -> SessionState]
    BY <1>23, <1>rec, SessionFields DEF OwnerResumes
  <2> QED
    BY <1>23, <2>1 DEF OwnerResumes
<1>24. ASSUME NEW i \in Inc, OwnerStarts(i) PROVE TypeOK'
  <2>1. session' \in [Inc -> SessionState]
    BY <1>24, <1>rec, SessionFields DEF OwnerStarts
  <2> QED
    BY <1>24, <2>1 DEF OwnerStarts
<1>25. ASSUME NEW i \in Inc, OwnerSeesExit(i) PROVE TypeOK'
  <2>1. session' \in [Inc -> SessionState]
    BY <1>25, <1>rec, SessionFields DEF OwnerSeesExit
  <2> QED
    BY <1>25, <2>1 DEF OwnerSeesExit
<1>26. ASSUME NEW i \in Inc, OwnerCloses(i) PROVE TypeOK'
  <2>1. session' \in [Inc -> SessionState]
    <3>1. PICK after \in {"dead", "termed"} :
            session' = [session EXCEPT ![i].child = after, ![i].owner = "ended"]
      BY <1>26 DEF OwnerCloses
    <3>2. session' = [session EXCEPT ![i] = [session[i] EXCEPT !.child = after, !.owner = "ended"]]
      BY <3>1
    <3> QED
      BY <3>2, <1>rec, SessionFields
  <2> QED
    BY <1>26, <2>1 DEF OwnerCloses
<1>27. ASSUME NEW i \in Inc, Escalate(i) PROVE TypeOK'
  <2>1. session' \in [Inc -> SessionState]
    BY <1>27, <1>rec, SessionFields DEF Escalate
  <2> QED
    BY <1>27, <2>1 DEF Escalate
<1>28. ASSUME NEW i \in Inc, PumpPublishes(i) PROVE TypeOK'
  <2>1. session' \in [Inc -> SessionState]
    BY <1>28, <1>rec, SessionFields DEF PumpPublishes
  <2>2. topic' \in Seq(TopicEvent)
    BY <1>28 DEF PumpPublishes, TopicEvent, PumpedAreNamed
  <2>3. announced' \in Announcement
    BY <1>28, <1>live, SnapshotType DEF PumpPublishes
  <2> QED
    BY <1>28, <2>1, <2>2, <2>3 DEF PumpPublishes
<1>30. CASE CreateSpawnTimesOut
  <2>1. session' \in [Inc -> SessionState]
    <3>1. [NoSession EXCEPT !.id = gate.id, !.child = "alive", !.owner = "starting",
                            !.close = TRUE, !.givenUp = TRUE] \in SessionState
      <4>1. gate.id \in Id \cup {None}
        BY DEF GateState
      <4> QED
        BY <4>1 DEF NoSession, SessionState
    <3>2. spawned' \in Inc
      BY <1>30 DEF CreateSpawnTimesOut, Inc
    <3> QED
      BY <1>30, <3>1, <3>2 DEF CreateSpawnTimesOut
  <2>2. gate' \in GateState
    BY <1>30 DEF CreateSpawnTimesOut, GateState, Free
  <2> QED
    BY <1>30, <2>1, <2>2 DEF CreateSpawnTimesOut
<1>31. ASSUME NEW i \in Inc, OwnerKeepsExit(i) PROVE TypeOK'
  <2>1. session' \in [Inc -> SessionState]
    BY <1>31, <1>rec, SessionFields DEF OwnerKeepsExit
  <2> QED
    BY <1>31, <2>1 DEF OwnerKeepsExit
<1>29. CASE UNCHANGED vars
  BY <1>29
<1> QED
  BY <1>1, <1>2, <1>3, <1>4, <1>5, <1>6, <1>7, <1>8, <1>9, <1>10, <1>11, <1>12, <1>13, <1>14, <1>15, <1>16, <1>17, <1>18, <1>19, <1>20, <1>21, <1>22, <1>23, <1>24, <1>25, <1>26, <1>27, <1>28, <1>29, <1>30, <1>31 DEF Next, Request, GateStep, OwnerStep

LEMMA GateStepOK == IInv /\ [Next]_vars => GateOK'
<1> SUFFICES ASSUME TypeOK, GateOK, [Next]_vars PROVE GateOK'
  BY DEF IInv
<1> USE HostCoreAssumption DEF TypeOK, GateOK, vars, coreVars, GateState
<1>1. CASE CreateRequested
  BY <1>1 DEF CreateRequested, Free
<1>2. CASE ShutdownAsked
  BY <1>2 DEF ShutdownAsked, Free
<1>3. CASE ShutdownForced
  BY <1>3 DEF ShutdownForced, Free
<1>4. ASSUME NEW c \in Client, ClientConnected(c) PROVE GateOK'
  BY <1>4 DEF ClientConnected, Free
<1>5. ASSUME NEW c \in Client, ClientDisconnected(c) PROVE GateOK'
  BY <1>5 DEF ClientDisconnected, Free
<1>6. ASSUME NEW h \in BOOLEAN, HoldSession(h) PROVE GateOK'
  BY <1>6 DEF HoldSession, Free
<1>7. ASSUME NEW id \in Id, CloseBegin(id) PROVE GateOK'
  BY <1>7 DEF CloseBegin, Free
<1>8. ASSUME NEW id \in Id, CreateRefused(id) PROVE GateOK'
  BY <1>8 DEF CreateRefused, Free
<1>9. ASSUME NEW id \in Id, CreateBegin(id) PROVE GateOK'
  BY <1>9 DEF CreateBegin, Free
<1>10. CASE CreateSpawnFailed
  BY <1>10 DEF CreateSpawnFailed, Free
<1>11. CASE CreateSpawn
  <2>1. spawned' \in Inc
    BY <1>11 DEF CreateSpawn, Inc
  <2>2. session'[spawned'].id = gate.id
    BY <1>11, <2>1 DEF CreateSpawn, NoSession
  <2>3. gate' = [gate EXCEPT !.step = "insert", !.inc = spawned'] /\ shutdown' = shutdown /\ entries' = entries
    BY <1>11 DEF CreateSpawn
  <2>4. gate.op = "create" /\ gate.step = "spawn"
    BY <1>11 DEF CreateSpawn
  <2> QED
    BY <2>1, <2>2, <2>3, <2>4
<1>12. CASE CreateInsert
  BY <1>12 DEF CreateInsert, Free
<1>13. CASE CreatePublish
  BY <1>13 DEF CreatePublish, Free
<1>14. CASE CloseDone
  BY <1>14 DEF CloseDone, Free
<1>15. ASSUME NEW e \in gate.rest, ShutdownCloseNext(e) PROVE GateOK'
  BY <1>15 DEF ShutdownCloseNext, Free
<1>16. CASE ShutdownCloseDone
  BY <1>16 DEF ShutdownCloseDone, Free
<1>17. CASE ShutdownFinish
  BY <1>17 DEF ShutdownFinish, Free
<1>18. CASE Tick
  BY <1>18 DEF Tick, Free
<1>19. CASE TryBeginIdleExit
  BY <1>19 DEF TryBeginIdleExit, Free
<1>20. CASE Leave
  BY <1>20 DEF Leave, Free
<1>21. ASSUME NEW i \in Inc, ChildExits(i) PROVE GateOK'
  BY <1>21 DEF ChildExits, Free
<1>22. ASSUME NEW i \in Inc, OwnerStalls(i) PROVE GateOK'
  BY <1>22 DEF OwnerStalls, Free
<1>23. ASSUME NEW i \in Inc, OwnerResumes(i) PROVE GateOK'
  BY <1>23 DEF OwnerResumes, Free
<1>24. ASSUME NEW i \in Inc, OwnerStarts(i) PROVE GateOK'
  BY <1>24 DEF OwnerStarts, Free
<1>25. ASSUME NEW i \in Inc, OwnerSeesExit(i) PROVE GateOK'
  BY <1>25 DEF OwnerSeesExit, Free
<1>26. ASSUME NEW i \in Inc, OwnerCloses(i) PROVE GateOK'
  BY <1>26 DEF OwnerCloses, Free
<1>27. ASSUME NEW i \in Inc, Escalate(i) PROVE GateOK'
  BY <1>27 DEF Escalate, Free
<1>28. ASSUME NEW i \in Inc, PumpPublishes(i) PROVE GateOK'
  BY <1>28 DEF PumpPublishes, Free
<1>30. CASE CreateSpawnTimesOut
  BY <1>30 DEF CreateSpawnTimesOut, Free
<1>31. ASSUME NEW i \in Inc, OwnerKeepsExit(i) PROVE GateOK'
  BY <1>31 DEF OwnerKeepsExit, Free
<1>29. CASE UNCHANGED vars
  BY <1>29 DEF Free
<1> QED
  BY <1>1, <1>2, <1>3, <1>4, <1>5, <1>6, <1>7, <1>8, <1>9, <1>10, <1>11, <1>12, <1>13, <1>14, <1>15, <1>16, <1>17, <1>18, <1>19, <1>20, <1>21, <1>22, <1>23, <1>24, <1>25, <1>26, <1>27, <1>28, <1>29, <1>30, <1>31 DEF Next, Request, GateStep, OwnerStep

LEMMA PumpStep == IInv /\ [Next]_vars => PumpedAreNamed'
<1> SUFFICES ASSUME TypeOK, GateOK, PumpedAreNamed, [Next]_vars PROVE PumpedAreNamed'
  BY DEF IInv
<1> USE HostCoreAssumption DEF TypeOK, PumpedAreNamed, vars, coreVars
<1>1. CASE CreateRequested
  BY <1>1 DEF CreateRequested
<1>2. CASE ShutdownAsked
  BY <1>2 DEF ShutdownAsked
<1>3. CASE ShutdownForced
  BY <1>3 DEF ShutdownForced
<1>4. ASSUME NEW c \in Client, ClientConnected(c) PROVE PumpedAreNamed'
  BY <1>4 DEF ClientConnected
<1>5. ASSUME NEW c \in Client, ClientDisconnected(c) PROVE PumpedAreNamed'
  BY <1>5 DEF ClientDisconnected
<1>6. ASSUME NEW h \in BOOLEAN, HoldSession(h) PROVE PumpedAreNamed'
  BY <1>6 DEF HoldSession
<1>7. ASSUME NEW id \in Id, CloseBegin(id) PROVE PumpedAreNamed'
  BY <1>7 DEF CloseBegin
<1>8. ASSUME NEW id \in Id, CreateRefused(id) PROVE PumpedAreNamed'
  BY <1>8 DEF CreateRefused
<1>9. ASSUME NEW id \in Id, CreateBegin(id) PROVE PumpedAreNamed'
  BY <1>9 DEF CreateBegin
<1>10. CASE CreateSpawnFailed
  BY <1>10 DEF CreateSpawnFailed
<1>11. CASE CreateSpawn
  <2>1. \A j \in Inc : session'[j].pump => session'[j] = session[j]
    BY <1>11 DEF CreateSpawn, NoSession
  <2> QED
    BY <2>1
<1>12. CASE CreateInsert
  BY <1>12 DEF CreateInsert
<1>13. CASE CreatePublish
  BY <1>13 DEF CreatePublish, GateOK
<1>14. CASE CloseDone
  <2>1. \A j \in Inc : session'[j].id = session[j].id /\ session'[j].pump = session[j].pump
    BY <1>14, WaitsForOne, GoneOnSame
  <2> QED
    BY <2>1
<1>15. ASSUME NEW e \in gate.rest, ShutdownCloseNext(e) PROVE PumpedAreNamed'
  BY <1>15 DEF ShutdownCloseNext
<1>16. CASE ShutdownCloseDone
  <2>1. \A j \in Inc : session'[j].id = session[j].id /\ session'[j].pump = session[j].pump
    BY <1>16, WaitsForOne, GoneOnSame
  <2> QED
    BY <2>1
<1>17. CASE ShutdownFinish
  BY <1>17 DEF ShutdownFinish
<1>18. CASE Tick
  BY <1>18 DEF Tick
<1>19. CASE TryBeginIdleExit
  BY <1>19 DEF TryBeginIdleExit
<1>20. CASE Leave
  BY <1>20 DEF Leave
<1>21. ASSUME NEW i \in Inc, ChildExits(i) PROVE PumpedAreNamed'
  BY <1>21 DEF ChildExits
<1>22. ASSUME NEW i \in Inc, OwnerStalls(i) PROVE PumpedAreNamed'
  BY <1>22 DEF OwnerStalls
<1>23. ASSUME NEW i \in Inc, OwnerResumes(i) PROVE PumpedAreNamed'
  BY <1>23 DEF OwnerResumes
<1>24. ASSUME NEW i \in Inc, OwnerStarts(i) PROVE PumpedAreNamed'
  BY <1>24 DEF OwnerStarts
<1>25. ASSUME NEW i \in Inc, OwnerSeesExit(i) PROVE PumpedAreNamed'
  BY <1>25 DEF OwnerSeesExit
<1>26. ASSUME NEW i \in Inc, OwnerCloses(i) PROVE PumpedAreNamed'
  BY <1>26 DEF OwnerCloses
<1>27. ASSUME NEW i \in Inc, Escalate(i) PROVE PumpedAreNamed'
  BY <1>27 DEF Escalate
<1>28. ASSUME NEW i \in Inc, PumpPublishes(i) PROVE PumpedAreNamed'
  BY <1>28 DEF PumpPublishes
<1>30. CASE CreateSpawnTimesOut
  <2>1. \A j \in Inc : session'[j].pump => session'[j] = session[j]
    BY <1>30 DEF CreateSpawnTimesOut, NoSession
  <2> QED
    BY <2>1
<1>31. ASSUME NEW i \in Inc, OwnerKeepsExit(i) PROVE PumpedAreNamed'
  BY <1>31 DEF OwnerKeepsExit
<1>29. CASE UNCHANGED vars
  BY <1>29 
<1> QED
  BY <1>1, <1>2, <1>3, <1>4, <1>5, <1>6, <1>7, <1>8, <1>9, <1>10, <1>11, <1>12, <1>13, <1>14, <1>15, <1>16, <1>17, <1>18, <1>19, <1>20, <1>21, <1>22, <1>23, <1>24, <1>25, <1>26, <1>27, <1>28, <1>29, <1>30, <1>31 DEF Next, Request, GateStep, OwnerStep

LEMMA LeavingStep == IInv /\ [Next]_vars => NoLiveSessionWhileLeaving'
<1> SUFFICES ASSUME TypeOK, GateOK, NoLiveSessionWhileLeaving, [Next]_vars
             PROVE  NoLiveSessionWhileLeaving'
  BY DEF IInv
<1> USE HostCoreAssumption DEF TypeOK, NoLiveSessionWhileLeaving, vars, coreVars
<1>1. CASE CreateRequested
  BY <1>1 DEF CreateRequested, Live, Listed, GateOK
<1>2. CASE ShutdownAsked
  BY <1>2 DEF ShutdownAsked, Live, Listed, GateOK
<1>3. CASE ShutdownForced
  BY <1>3 DEF ShutdownForced, Live, Listed, GateOK
<1>4. ASSUME NEW c \in Client, ClientConnected(c) PROVE NoLiveSessionWhileLeaving'
  BY <1>4 DEF ClientConnected, Live, Listed, GateOK
<1>5. ASSUME NEW c \in Client, ClientDisconnected(c) PROVE NoLiveSessionWhileLeaving'
  BY <1>5 DEF ClientDisconnected, Live, Listed, GateOK
<1>6. ASSUME NEW h \in BOOLEAN, HoldSession(h) PROVE NoLiveSessionWhileLeaving'
  BY <1>6 DEF HoldSession, Live, Listed, GateOK
<1>7. ASSUME NEW id \in Id, CloseBegin(id) PROVE NoLiveSessionWhileLeaving'
  BY <1>7 DEF CloseBegin, Live, Listed, GateOK
<1>8. ASSUME NEW id \in Id, CreateRefused(id) PROVE NoLiveSessionWhileLeaving'
  BY <1>8 DEF CreateRefused, Live, Listed, GateOK
<1>9. ASSUME NEW id \in Id, CreateBegin(id) PROVE NoLiveSessionWhileLeaving'
  BY <1>9 DEF CreateBegin, Live, Listed, GateOK
<1>10. CASE CreateSpawnFailed
  BY <1>10 DEF CreateSpawnFailed, Live, Listed, GateOK
<1>11. CASE CreateSpawn
  BY <1>11 DEF CreateSpawn, Live, Listed, GateOK
<1>12. CASE CreateInsert
  BY <1>12 DEF CreateInsert, Live, Listed, GateOK
<1>13. CASE CreatePublish
  BY <1>13 DEF CreatePublish, Live, Listed, GateOK
<1>14. CASE CloseDone
  <2>1. /\ \A j \in Inc : session'[j].exit = session[j].exit
        /\ entries' = entries /\ shutdown' = shutdown /\ Listed \subseteq Inc
    BY <1>14, WaitsForOne, GoneOnSame, LiveType
  <2> QED
    BY <2>1 DEF Live, Listed
<1>15. ASSUME NEW e \in gate.rest, ShutdownCloseNext(e) PROVE NoLiveSessionWhileLeaving'
  BY <1>15 DEF ShutdownCloseNext, Live, Listed, GateOK
<1>16. CASE ShutdownCloseDone
  <2>1. /\ \A j \in Inc : session'[j].exit = session[j].exit
        /\ entries' = entries /\ shutdown' = shutdown /\ Listed \subseteq Inc
    BY <1>16, WaitsForOne, GoneOnSame, LiveType
  <2> QED
    BY <2>1 DEF Live, Listed
<1>17. CASE ShutdownFinish
  BY <1>17 DEF ShutdownFinish, Live, Listed, GateOK
<1>18. CASE Tick
  BY <1>18 DEF Tick, Live, Listed, GateOK
<1>19. CASE TryBeginIdleExit
  BY <1>19 DEF TryBeginIdleExit, Live, Listed, GateOK
<1>20. CASE Leave
  BY <1>20 DEF Leave, Live, Listed, GateOK
<1>21. ASSUME NEW i \in Inc, ChildExits(i) PROVE NoLiveSessionWhileLeaving'
  BY <1>21 DEF ChildExits, Live, Listed, GateOK
<1>22. ASSUME NEW i \in Inc, OwnerStalls(i) PROVE NoLiveSessionWhileLeaving'
  BY <1>22 DEF OwnerStalls, Live, Listed, GateOK
<1>23. ASSUME NEW i \in Inc, OwnerResumes(i) PROVE NoLiveSessionWhileLeaving'
  BY <1>23 DEF OwnerResumes, Live, Listed, GateOK
<1>24. ASSUME NEW i \in Inc, OwnerStarts(i) PROVE NoLiveSessionWhileLeaving'
  BY <1>24 DEF OwnerStarts, Live, Listed, GateOK
<1>25. ASSUME NEW i \in Inc, OwnerSeesExit(i) PROVE NoLiveSessionWhileLeaving'
  BY <1>25 DEF OwnerSeesExit, Live, Listed, GateOK
<1>26. ASSUME NEW i \in Inc, OwnerCloses(i) PROVE NoLiveSessionWhileLeaving'
  BY <1>26 DEF OwnerCloses, Live, Listed, GateOK
<1>27. ASSUME NEW i \in Inc, Escalate(i) PROVE NoLiveSessionWhileLeaving'
  BY <1>27 DEF Escalate, Live, Listed, GateOK
<1>28. ASSUME NEW i \in Inc, PumpPublishes(i) PROVE NoLiveSessionWhileLeaving'
  BY <1>28 DEF PumpPublishes, Live, Listed, GateOK
<1>30. CASE CreateSpawnTimesOut
  BY <1>30 DEF CreateSpawnTimesOut, GateOK
<1>31. ASSUME NEW i \in Inc, OwnerKeepsExit(i) PROVE NoLiveSessionWhileLeaving'
  BY <1>31 DEF OwnerKeepsExit, Live, Listed, GateOK
<1>29. CASE UNCHANGED vars
  BY <1>29 DEF Live, Listed, GateOK
<1> QED
  BY <1>1, <1>2, <1>3, <1>4, <1>5, <1>6, <1>7, <1>8, <1>9, <1>10, <1>11, <1>12, <1>13, <1>14, <1>15, <1>16, <1>17, <1>18, <1>19, <1>20, <1>21, <1>22, <1>23, <1>24, <1>25, <1>26, <1>27, <1>28, <1>29, <1>30, <1>31 DEF Next, Request, GateStep, OwnerStep

(* What a step does to the order in which an exit is sent, kept and published. *)
LEMMA SessionsStep == IInv /\ [Next]_vars => SessionsOK'
<1> SUFFICES ASSUME TypeOK, GateOK, LeavingOK, SessionsOK, [Next]_vars PROVE SessionsOK'
  BY DEF IInv
<1>gate. gate.step = "wait" => gate.inc \in Inc
  BY DEF GateOK, LeavingOK
<1> USE DEF SessionsOK, TypeOK, SessionState
<1>1. CASE UNCHANGED session
  BY <1>1
<1>2. CASE CreateSpawn
  BY <1>2 DEF CreateSpawn, NoSession
<1>3. CASE CreateSpawnTimesOut
  BY <1>3 DEF CreateSpawnTimesOut, NoSession
<1>4. CASE CreatePublish
  BY <1>4 DEF CreatePublish
<1>5. ASSUME NEW id \in Id, CloseBegin(id) PROVE SessionsOK'
  BY <1>5 DEF CloseBegin
<1>6. CASE CloseDone \/ ShutdownCloseDone
  <2>1. \A j \in Inc : /\ session'[j].child = session[j].child /\ session'[j].exit = session[j].exit
                       /\ session'[j].sent = session[j].sent /\ session'[j].pumped = session[j].pumped
    BY <1>6, WaitsForOne, GoneOnSame
  <2> QED
    BY <2>1
<1>7. ASSUME NEW e \in gate.rest, ShutdownCloseNext(e) PROVE SessionsOK'
  BY <1>7 DEF ShutdownCloseNext
<1>8. ASSUME NEW i \in Inc, ChildExits(i) PROVE SessionsOK'
  BY <1>8 DEF ChildExits
<1>9. ASSUME NEW i \in Inc, OwnerStarts(i) \/ OwnerStalls(i) \/ OwnerResumes(i) PROVE SessionsOK'
  BY <1>9 DEF OwnerStarts, OwnerStalls, OwnerResumes
<1>10. ASSUME NEW i \in Inc, OwnerSeesExit(i) PROVE SessionsOK'
  BY <1>10 DEF OwnerSeesExit
<1>11. ASSUME NEW i \in Inc, OwnerKeepsExit(i) PROVE SessionsOK'
  BY <1>11 DEF OwnerKeepsExit, Keeping
<1>12. ASSUME NEW i \in Inc, OwnerCloses(i) PROVE SessionsOK'
  BY <1>12 DEF OwnerCloses
<1>13. ASSUME NEW i \in Inc, Escalate(i) PROVE SessionsOK'
  BY <1>13 DEF Escalate
<1>14. ASSUME NEW i \in Inc, PumpPublishes(i) PROVE SessionsOK'
  BY <1>14 DEF PumpPublishes
<1>15. CASE \/ CreateRequested \/ ShutdownAsked \/ ShutdownForced \/ CreateSpawnFailed \/ CreateInsert
            \/ ShutdownFinish \/ Tick \/ TryBeginIdleExit \/ Leave
            \/ \E c \in Client : ClientConnected(c) \/ ClientDisconnected(c)
            \/ \E h \in BOOLEAN : HoldSession(h)
            \/ \E id \in Id : CreateRefused(id) \/ CreateBegin(id)
            \/ UNCHANGED vars
  BY <1>1, <1>15 DEF CreateRequested, ShutdownAsked, ShutdownForced, CreateSpawnFailed, CreateInsert,
     ShutdownFinish, Tick, TryBeginIdleExit, Leave, ClientConnected, ClientDisconnected,
     HoldSession, CreateRefused, CreateBegin, vars
<1> QED
  BY <1>2, <1>3, <1>4, <1>5, <1>6, <1>7, <1>8, <1>9, <1>10, <1>11, <1>12, <1>13, <1>14, <1>15
     DEF Next, Request, GateStep, OwnerStep

(* A leaving host spawns nothing, so what it closes stays exited; what it
   starts to close is listed, and nothing it lists is live. *)
LEMMA LeavingOKStep == IInv /\ [Next]_vars => LeavingOK'
<1> SUFFICES ASSUME IInv, [Next]_vars PROVE LeavingOK'
  OBVIOUS
<1> USE DEF IInv
<1>gate. gate.step = "wait" => gate.inc \in Inc
  BY DEF GateOK, LeavingOK
<1>live. ASSUME NEW id \in Id, entries[id] # None, shutdown PROVE session[entries[id]].exit
  BY <1>live DEF NoLiveSessionWhileLeaving, Live, Listed
<1>same. ASSUME gate' = gate, shutdown' = shutdown, \A i \in Inc : session[i].exit => session'[i].exit
         PROVE  LeavingOK'
  <2>1. \A e \in gate.rest : e[2] \in Inc
    BY DEF TypeOK, GateState
  <2> QED
    BY <1>same, <1>gate, <2>1 DEF LeavingOK
<1>free. ASSUME gate' = Free PROVE LeavingOK'
  BY <1>free DEF LeavingOK, Free
<1>1. CASE ShutdownAsked \/ TryBeginIdleExit
  <2>1. gate' = Free
    BY <1>1 DEF ShutdownAsked, TryBeginIdleExit
  <2> QED
    BY <2>1, <1>free
<1>2. CASE CreateSpawnFailed \/ CreateSpawnTimesOut \/ CreatePublish \/ CloseDone \/ ShutdownFinish
  BY <1>2, <1>free DEF CreateSpawnFailed, CreateSpawnTimesOut, CreatePublish, CloseDone, ShutdownFinish
<1>3. CASE ShutdownForced
  <2>1. /\ gate'.step = "next" /\ shutdown' = shutdown /\ session' = session
        /\ \A e \in gate'.rest : \E id \in Id : entries[id] # None /\ e[2] = entries[id]
    BY <1>3 DEF ShutdownForced, Free
  <2> QED
    BY <1>live, <2>1 DEF LeavingOK
<1>4. ASSUME NEW id \in Id, CloseBegin(id) PROVE LeavingOK'
  <2>1. /\ gate'.op = "close" /\ gate'.rest = {} /\ gate'.inc = entries[id] /\ entries[id] \in Inc
        /\ shutdown' = shutdown /\ \A i \in Inc : session'[i].exit = session[i].exit
    BY <1>4 DEF CloseBegin, Free, TypeOK, SessionState
  <2>2. entries[id] # None
    BY <1>4 DEF CloseBegin
  <2> QED
    BY <1>live, <2>1, <2>2 DEF LeavingOK
<1>5. ASSUME NEW id \in Id, CreateBegin(id) PROVE LeavingOK'
  BY <1>5 DEF CreateBegin, LeavingOK, Free
<1>6. CASE CreateSpawn \/ CreateInsert
  BY <1>6 DEF CreateSpawn, CreateInsert, LeavingOK, GateOK, TypeOK, GateState
<1>7. ASSUME NEW e \in gate.rest, ShutdownCloseNext(e) PROVE LeavingOK'
  <2>1. /\ e[2] \in Inc /\ gate'.op = "shutdown" /\ gate'.rest = gate.rest \ {e} /\ gate'.inc = e[2]
        /\ shutdown' = shutdown /\ \A i \in Inc : session'[i].exit = session[i].exit
    BY <1>7 DEF ShutdownCloseNext, TypeOK, GateState, SessionState
  <2>2. \A f \in gate.rest : f[2] \in Inc
    BY DEF TypeOK, GateState
  <2> QED
    BY <2>1, <2>2 DEF LeavingOK
<1>8. CASE ShutdownCloseDone
  <2>1. /\ gate'.op = "shutdown" /\ gate'.step = "next" /\ gate'.rest = gate.rest
        /\ shutdown' = shutdown /\ \A i \in Inc : session'[i].exit = session[i].exit
    BY <1>8, <1>gate DEF ShutdownCloseDone, GoneOn, TypeOK, GateState, SessionState
  <2>2. \A f \in gate.rest : f[2] \in Inc
    BY DEF TypeOK, GateState
  <2> QED
    BY <2>1, <2>2 DEF LeavingOK
<1>9. CASE \/ CreateRequested \/ Tick \/ Leave
           \/ \E c \in Client : ClientConnected(c) \/ ClientDisconnected(c)
           \/ \E h \in BOOLEAN : HoldSession(h)
           \/ \E id \in Id : CreateRefused(id)
           \/ UNCHANGED vars
  <2>1. gate' = gate /\ shutdown' = shutdown /\ session' = session
    BY <1>9 DEF CreateRequested, Tick, Leave, ClientConnected, ClientDisconnected,
       HoldSession, CreateRefused, vars, coreVars
  <2> QED
    BY <2>1, <1>same
<1>10. ASSUME NEW i \in Inc,
             \/ ChildExits(i) \/ OwnerStarts(i) \/ OwnerStalls(i) \/ OwnerResumes(i) \/ OwnerSeesExit(i)
             \/ OwnerKeepsExit(i) \/ Escalate(i) \/ PumpPublishes(i)
      PROVE  LeavingOK'
  <2>1. gate' = gate /\ shutdown' = shutdown
    BY <1>10 DEF ChildExits, OwnerStarts, OwnerStalls, OwnerResumes, OwnerSeesExit, OwnerKeepsExit,
       Escalate, PumpPublishes, coreVars
  <2>2. \A j \in Inc : session[j].exit => session'[j].exit
    BY <1>10 DEF ChildExits, OwnerStarts, OwnerStalls, OwnerResumes, OwnerSeesExit, OwnerKeepsExit,
       Escalate, PumpPublishes, TypeOK, SessionState
  <2> QED
    BY <2>1, <2>2, <1>same
<1>11. ASSUME NEW i \in Inc, OwnerCloses(i) PROVE LeavingOK'
  <2>1. gate' = gate /\ shutdown' = shutdown
    BY <1>11 DEF OwnerCloses, coreVars
  <2>2. \A j \in Inc : session[j].exit => session'[j].exit
    BY <1>11 DEF OwnerCloses, TypeOK, SessionState
  <2> QED
    BY <2>1, <2>2, <1>same
<1> QED
  BY <1>1, <1>2, <1>3, <1>4, <1>5, <1>6, <1>7, <1>8, <1>9, <1>10, <1>11
     DEF Next, Request, GateStep, OwnerStep

(* Who has the session in hand, of NoProcessForgotten. *)
InHand(i) ==
  \/ i \in Listed
  \/ gate.op = "create" /\ gate.inc = i
  \/ \E e \in gate.rest : e[2] = i
  \/ gate.step = "wait" /\ gate.inc = i /\ session[i].close
  \/ session[i].givenUp /\ session[i].close

LEMMA ForgottenStep == IInv /\ [Next]_vars => NoProcessForgotten'
<1> SUFFICES ASSUME TypeOK, GateOK, SessionsOK, LeavingOK, NoLiveSessionWhileLeaving,
                    NoProcessForgotten, [Next]_vars
             PROVE  NoProcessForgotten'
  BY DEF IInv
<1>none. None \notin Inc
  BY HostCoreAssumption DEF HostCoreAssumption, Inc
<1>gate. gate.step = "wait" => gate.inc \in Inc
  BY DEF GateOK, LeavingOK
<1>in. \A j \in Inc : session[j].child = "alive" =>
          session[j].owner # "ended" /\ InHand(j) /\ (left => session[j].givenUp)
  BY DEF NoProcessForgotten, InHand
<1>out. ASSUME \A j \in Inc : session'[j].child = "alive" =>
                 session'[j].owner # "ended" /\ InHand(j)' /\ (left' => session'[j].givenUp)
        PROVE  NoProcessForgotten'
  BY <1>out DEF NoProcessForgotten, InHand
<1> DEFINE Kept(j) ==
             session'[j].child = "alive" =>
               /\ session[j].child = "alive"
               /\ session[j].owner # "ended" => session'[j].owner # "ended"
               /\ session[j].close => session'[j].close
               /\ session[j].givenUp => session'[j].givenUp
<1>quiet. ASSUME entries' = entries, gate' = gate, left' = left, \A j \in Inc : Kept(j)
          PROVE  NoProcessForgotten'
  <2>1. Listed' = Listed
    BY <1>quiet DEF Listed
  <2> SUFFICES ASSUME NEW j \in Inc, session'[j].child = "alive"
               PROVE  session'[j].owner # "ended" /\ InHand(j)' /\ (left' => session'[j].givenUp)
    BY <1>out
  <2>2. Kept(j)
    BY <1>quiet
  <2>3. session[j].owner # "ended" /\ InHand(j) /\ (left => session[j].givenUp)
    BY <2>2, <1>in
  <2>4. InHand(j)'
    BY <2>1, <2>2, <2>3, <1>quiet DEF InHand
  <2> QED
    BY <2>2, <2>3, <2>4, <1>quiet
<1>hand. ASSUME left' = left, \A j \in Inc : Kept(j),
                \A j \in Inc : session[j].owner # "ended" /\ InHand(j) => InHand(j)'
         PROVE  NoProcessForgotten'
  <2> SUFFICES ASSUME NEW j \in Inc, session'[j].child = "alive"
               PROVE  session'[j].owner # "ended" /\ InHand(j)' /\ (left' => session'[j].givenUp)
    BY <1>out
  <2>1. Kept(j)
    BY <1>hand
  <2>2. session[j].owner # "ended" /\ InHand(j) /\ (left => session[j].givenUp)
    BY <2>1, <1>in
  <2>3. InHand(j)'
    BY <2>2, <1>hand
  <2> QED
    BY <2>1, <2>2, <2>3, <1>hand
<1>same. ASSUME entries' = entries, gate' = gate, left' = left, session' = session
         PROVE  NoProcessForgotten'
  BY <1>same, <1>quiet
<1> HIDE DEF Kept
<1>1. CASE CreateRequested \/ ShutdownAsked \/ Tick \/ TryBeginIdleExit
  <2>1. entries' = entries /\ gate' = gate /\ left' = left /\ session' = session
    BY <1>1 DEF CreateRequested, ShutdownAsked, Tick, TryBeginIdleExit
  <2> QED
    BY <2>1, <1>same
<1>2. CASE UNCHANGED vars
  BY <1>2, <1>same DEF vars, coreVars
<1>3. CASE ShutdownForced
  <2>1. session' = session /\ gate = Free /\ left' = left /\ entries \in [Id -> Inc \cup {None}]
    BY <1>3 DEF ShutdownForced, TypeOK
  <2>2. gate'.rest = { <<id, entries[id]>> : id \in {x \in Id : entries[x] # None} }
    BY <1>3 DEF ShutdownForced, Free
  <2>3. ASSUME NEW j \in Inc, j \in Listed PROVE \E e \in gate'.rest : e[2] = j
    <3>1. PICK id \in Id : entries[id] = j /\ entries[id] # None
      BY <2>3 DEF Listed
    <3>2. <<id, j>> \in gate'.rest
      BY <2>2, <3>1
    <3> QED
      BY <3>2
  <2>4. \A j \in Inc : InHand(j) => InHand(j)'
    BY <2>1, <2>3 DEF InHand, Free
  <2> QED
    BY <2>1, <2>4, <1>in, <1>out
<1>4. ASSUME NEW c \in Client, ClientConnected(c) \/ ClientDisconnected(c) PROVE NoProcessForgotten'
  <2>1. entries' = entries /\ gate' = gate /\ left' = left /\ session' = session
    BY <1>4 DEF ClientConnected, ClientDisconnected
  <2> QED
    BY <2>1, <1>same
<1>5. ASSUME NEW h \in BOOLEAN, HoldSession(h) PROVE NoProcessForgotten'
  <2>1. entries' = entries /\ gate' = gate /\ left' = left /\ session' = session
    BY <1>5 DEF HoldSession
  <2> QED
    BY <2>1, <1>same
<1>6. ASSUME NEW id \in Id, CreateRefused(id) PROVE NoProcessForgotten'
  <2>1. entries' = entries /\ gate' = gate /\ left' = left /\ session' = session
    BY <1>6 DEF CreateRefused
  <2> QED
    BY <2>1, <1>same
<1>7. ASSUME NEW id \in Id, CloseBegin(id) PROVE NoProcessForgotten'
  <2> DEFINE k == entries[id]
  <2>1. /\ k \in Inc /\ gate.op = "free" /\ gate.rest = {} /\ gate.step = "free"
        /\ entries' = [entries EXCEPT ![id] = None]
        /\ gate'.step = "wait" /\ gate'.inc = k /\ left' = left
    BY <1>7 DEF CloseBegin, TypeOK, Free
  <2>2. /\ session'[k] = [session[k] EXCEPT !.close = TRUE]
        /\ \A j \in Inc \ {k} : session'[j] = session[j]
    BY <1>7, <2>1 DEF CloseBegin, TypeOK
  <2>3. session[k] \in SessionState
    BY <2>1 DEF TypeOK
  <2>4. /\ session'[k].close /\ session'[k].child = session[k].child
        /\ session'[k].owner = session[k].owner /\ session'[k].givenUp = session[k].givenUp
    BY <2>2, <2>3 DEF SessionState
  <2>5. Listed \ {k} \subseteq Listed'
    BY <2>1 DEF Listed, TypeOK
  <2> HIDE DEF k
  <2>6. \A j \in Inc : InHand(j) => InHand(j)'
    BY <2>1, <2>2, <2>4, <2>5 DEF InHand
  <2>7. \A j \in Inc : Kept(j)
    BY <2>2, <2>4 DEF Kept
  <2> QED
    BY <2>1, <2>6, <2>7, <1>hand
<1>8. ASSUME NEW id \in Id, CreateBegin(id) PROVE NoProcessForgotten'
  <2>1. /\ session' = session /\ entries' = entries /\ left' = left
        /\ gate.op = "free" /\ gate.rest = {} /\ gate.step = "free"
    BY <1>8 DEF CreateBegin, Free
  <2>2. \A j \in Inc : InHand(j) => InHand(j)'
    BY <2>1 DEF InHand, Listed
  <2> QED
    BY <2>1, <2>2, <1>in, <1>out
<1>9. CASE CreateSpawnFailed
  <2>1. /\ session' = session /\ entries' = entries /\ left' = left
        /\ gate.op = "create" /\ gate.rest = {} /\ gate.step = "spawn" /\ gate.inc = None
    BY <1>9 DEF CreateSpawnFailed, GateOK
  <2>2. \A j \in Inc : InHand(j) => InHand(j)'
    BY <2>1, <1>none DEF InHand, Listed
  <2> QED
    BY <2>1, <2>2, <1>in, <1>out
<1>10. CASE CreateSpawn \/ CreateSpawnTimesOut
  <2>0. PICK n \in Nat : n = spawned'
    BY <1>10, HostCoreAssumption DEF CreateSpawn, CreateSpawnTimesOut, TypeOK, HostCoreAssumption
  <2>1. /\ entries' = entries /\ left' = left /\ ~left
        /\ gate.op = "create" /\ gate.rest = {} /\ gate.step = "spawn" /\ gate.inc = None
    BY <1>10 DEF CreateSpawn, CreateSpawnTimesOut, GateOK
  <2>2. /\ \A j \in Inc \ {n} : session'[j] = session[j]
        /\ n \in Inc => session'[n].owner # "ended" /\ InHand(n)'
    <3>1. CASE CreateSpawn
      <4>1. /\ session' = [session EXCEPT ![n] = [NoSession EXCEPT !.id = gate.id, !.child = "alive",
                                                                  !.owner = "running"]]
            /\ gate'.op = "create" /\ gate'.inc = n
        BY <2>0, <3>1 DEF CreateSpawn, TypeOK, GateState
      <4>2. n \in Inc => session'[n].owner = "running"
        BY <4>1 DEF TypeOK, NoSession
      <4> QED
        BY <4>1, <4>2 DEF InHand, TypeOK
    <3>2. CASE CreateSpawnTimesOut
      <4>1. session' = [session EXCEPT ![n] = [NoSession EXCEPT !.id = gate.id, !.child = "alive",
                                                 !.owner = "starting", !.close = TRUE, !.givenUp = TRUE]]
        BY <2>0, <3>2 DEF CreateSpawnTimesOut
      <4>2. n \in Inc => session'[n].owner = "starting" /\ session'[n].close /\ session'[n].givenUp
        BY <4>1 DEF TypeOK, NoSession
      <4>3. n \in Inc => InHand(n)'
        BY <4>2 DEF InHand
      <4> QED
        BY <4>1, <4>2, <4>3 DEF TypeOK
    <3> QED
      BY <1>10, <3>1, <3>2
  <2>3. \A j \in Inc \ {n} : InHand(j) => InHand(j)'
    BY <2>1, <2>2, <1>none DEF InHand, Listed
  <2> SUFFICES ASSUME NEW j \in Inc, session'[j].child = "alive"
               PROVE  session'[j].owner # "ended" /\ InHand(j)' /\ (left' => session'[j].givenUp)
    BY <1>out
  <2>4. CASE j = n
    BY <2>1, <2>2, <2>4
  <2>5. CASE j # n
    BY <2>1, <2>2, <2>3, <2>5, <1>in
  <2> QED
    BY <2>4, <2>5
<1>11. CASE CreateInsert
  <2>1. /\ session' = session /\ left' = left /\ gate.op = "create" /\ gate.rest = {}
        /\ gate.step = "insert" /\ entries[gate.id] = None /\ gate.id \in Id
        /\ entries' = [entries EXCEPT ![gate.id] = gate.inc]
        /\ gate'.op = "create" /\ gate'.inc = gate.inc
    BY <1>11 DEF CreateInsert, GateOK, TypeOK, GateState
  <2>2. Listed \subseteq Listed'
    BY <2>1, <1>none DEF Listed, TypeOK
  <2>3. \A j \in Inc : InHand(j) => InHand(j)'
    BY <2>1, <2>2 DEF InHand
  <2> QED
    BY <2>1, <2>3, <1>in, <1>out
<1>12. CASE CreatePublish
  <2>1. /\ gate.inc \in Inc /\ gate.inc \in Listed /\ gate.rest = {} /\ Listed' = Listed
        /\ gate.step = "publish" /\ left' = left
    BY <1>12, <1>none DEF CreatePublish, GateOK, Listed
  <2>2. \A j \in Inc : /\ session'[j].child = session[j].child /\ session'[j].close = session[j].close
                       /\ session'[j].owner = session[j].owner /\ session'[j].givenUp = session[j].givenUp
    BY <1>12 DEF CreatePublish, TypeOK, SessionState
  <2>3. \A j \in Inc : InHand(j) => InHand(j)'
    BY <2>1, <2>2 DEF InHand
  <2> QED
    BY <2>1, <2>2, <2>3, <1>in, <1>out
<1>13. CASE CloseDone \/ ShutdownCloseDone
  <2> DEFINE k == gate.inc
  <2>1. /\ gate.step = "wait" /\ k \in Inc /\ gate.op # "create" /\ session[k].close
        /\ entries' = entries /\ left' = left /\ session' = GoneOn(k)
    BY <1>13, WaitsForOne
  <2>2. gate'.rest = gate.rest
    <3>1. CASE CloseDone
      BY <3>1 DEF CloseDone, GateOK, Free
    <3>2. CASE ShutdownCloseDone
      BY <3>2 DEF ShutdownCloseDone, TypeOK, GateState
    <3> QED
      BY <1>13, <3>1, <3>2
  <2>3. /\ \A j \in Inc : Kept(j) /\ session'[j].close = session[j].close
        /\ \A j \in Inc : session[j].givenUp => session'[j].givenUp
        /\ session[k].owner # "ended" => session'[k].givenUp
    BY <2>1, GoneOnSame DEF Kept
  <2>4. Listed' = Listed
    BY <2>1 DEF Listed
  <2>5. ASSUME NEW j \in Inc, session[j].owner # "ended", InHand(j) PROVE InHand(j)'
    <3>1. CASE j = k
      BY <2>1, <2>3, <2>5, <3>1 DEF InHand
    <3>2. CASE j # k
      BY <2>1, <2>2, <2>3, <2>4, <2>5, <3>2 DEF InHand
    <3> QED
      BY <3>1, <3>2
  <2> HIDE DEF k
  <2> QED
    BY <2>1, <2>3, <2>5, <1>hand
<1>15. ASSUME NEW e \in gate.rest, ShutdownCloseNext(e) PROVE NoProcessForgotten'
  <2> DEFINE k == e[2]
  <2>1. /\ k \in Inc /\ gate.op = "shutdown" /\ gate.step = "next" /\ entries' = entries /\ left' = left
        /\ gate'.step = "wait" /\ gate'.inc = k /\ gate'.rest = gate.rest \ {e}
    BY <1>15 DEF ShutdownCloseNext, TypeOK, GateState
  <2>2. /\ session'[k] = [session[k] EXCEPT !.close = TRUE]
        /\ \A j \in Inc \ {k} : session'[j] = session[j]
    BY <1>15, <2>1 DEF ShutdownCloseNext, TypeOK
  <2>3. session[k] \in SessionState
    BY <2>1 DEF TypeOK
  <2>4. /\ session'[k].close /\ session'[k].child = session[k].child
        /\ session'[k].owner = session[k].owner /\ session'[k].givenUp = session[k].givenUp
    BY <2>2, <2>3 DEF SessionState
  <2>5. Listed' = Listed
    BY <2>1 DEF Listed
  <2>6. \A j \in Inc \ {k} : InHand(j) => InHand(j)'
    BY <2>1, <2>2, <2>5 DEF InHand
  <2>7. InHand(k)'
    BY <2>1, <2>4 DEF InHand
  <2> HIDE DEF k
  <2>8. \A j \in Inc : Kept(j)
    BY <2>2, <2>4 DEF Kept
  <2>9. \A j \in Inc : InHand(j) => InHand(j)'
    BY <2>6, <2>7
  <2> QED
    BY <2>1, <2>8, <2>9, <1>hand
<1>17. CASE ShutdownFinish
  <2>1. /\ session' = session /\ entries' = entries /\ left' = left
        /\ gate.op = "shutdown" /\ gate.step = "next" /\ gate.rest = {}
    BY <1>17 DEF ShutdownFinish
  <2>2. \A j \in Inc : InHand(j) => InHand(j)'
    BY <2>1 DEF InHand, Listed
  <2> QED
    BY <2>1, <2>2, <1>in, <1>out
<1>20. CASE Leave
  <2>1. session' = session /\ entries' = entries /\ gate' = gate /\ shutdown
    BY <1>20 DEF Leave
  <2>2. \A j \in Inc : InHand(j) => InHand(j)'
    BY <2>1 DEF InHand, Listed
  <2>3. ASSUME NEW j \in Inc, session[j].child = "alive", InHand(j) PROVE session[j].givenUp
    <3>1. ~session[j].exit
      BY <2>3 DEF SessionsOK
    <3>2. j \notin Listed
      BY <2>1, <3>1 DEF NoLiveSessionWhileLeaving, Live
    <3>3. gate.op # "create"
      BY <2>1 DEF GateOK
    <3>4. /\ \A e \in gate.rest : e[2] # j
          /\ ~(gate.step = "wait" /\ gate.inc = j)
      BY <2>1, <3>1 DEF LeavingOK
    <3> QED
      BY <2>3, <3>2, <3>3, <3>4 DEF InHand
  <2> QED
    BY <2>1, <2>2, <2>3, <1>in, <1>out
<1>21. ASSUME NEW i \in Inc,
             \/ ChildExits(i) \/ OwnerStarts(i) \/ OwnerStalls(i) \/ OwnerResumes(i) \/ OwnerSeesExit(i)
             \/ OwnerKeepsExit(i) \/ Escalate(i) \/ PumpPublishes(i)
      PROVE  NoProcessForgotten'
  <2>1. entries' = entries /\ gate' = gate /\ left' = left
    BY <1>21 DEF ChildExits, OwnerStarts, OwnerStalls, OwnerResumes, OwnerSeesExit, OwnerKeepsExit,
       Escalate, PumpPublishes, coreVars
  <2>2. \A j \in Inc : Kept(j)
    <3>1. CASE ChildExits(i) \/ Escalate(i)
      BY <3>1 DEF ChildExits, Escalate, TypeOK, SessionState, Kept
    <3>2. CASE OwnerStarts(i) \/ OwnerStalls(i) \/ OwnerResumes(i)
      BY <3>2 DEF OwnerStarts, OwnerStalls, OwnerResumes, TypeOK, SessionState, Kept
    <3>3. CASE OwnerSeesExit(i) \/ OwnerKeepsExit(i) \/ PumpPublishes(i)
      BY <3>3 DEF OwnerSeesExit, OwnerKeepsExit, PumpPublishes, TypeOK, SessionState, Kept
    <3> QED
      BY <1>21, <3>1, <3>2, <3>3
  <2> QED
    BY <2>1, <2>2, <1>quiet
<1>26. ASSUME NEW i \in Inc, OwnerCloses(i) PROVE NoProcessForgotten'
  <2>1. entries' = entries /\ gate' = gate /\ left' = left
    BY <1>26 DEF OwnerCloses, coreVars
  <2>2. \A j \in Inc : Kept(j)
    <3>1. PICK after \in {"dead", "termed"} :
            session' = [session EXCEPT ![i].child = after, ![i].owner = "ended"]
      BY <1>26 DEF OwnerCloses
    <3> QED
      BY <3>1 DEF TypeOK, SessionState, Kept
  <2> QED
    BY <2>1, <2>2, <1>quiet
<1> QED
  BY <1>1, <1>2, <1>3, <1>4, <1>5, <1>6, <1>7, <1>8, <1>9, <1>10, <1>11, <1>12, <1>13, <1>15, <1>17, <1>20,
     <1>21, <1>26 DEF Next, Request, GateStep, OwnerStep

LEMMA IInvariant == Spec => []IInv
<1>1. IInv /\ [Next]_vars => IInv'
  BY TypeStep, GateStepOK, PumpStep, SessionsStep, LeavingOKStep, LeavingStep, ForgottenStep DEF IInv
<1> QED
  BY <1>1, InitIInv, PTL DEF Spec

(* The host's state keeps its type: every set the model draws values from is
   the one the code's types and limits allow. *)
THEOREM TypeCorrect == Spec => []TypeOK
<1>1. IInv => TypeOK
  BY DEF IInv
<1> QED
  BY <1>1, IInvariant, PTL

(* A host that decided to leave, by host.shutdown with or without force or by
   the idle clock, holds no live session, however creations, closes and
   clients interleave with the decision. *)
THEOREM LeavingIsSafe == Spec => []NoLiveSessionWhileLeaving
<1>1. IInv => NoLiveSessionWhileLeaving
  BY DEF IInv
<1> QED
  BY <1>1, IInvariant, PTL

(* Every running child has an owner thread that can end it and is listed, or in
   the hands of the operation that holds the gate, or was told to end by a host
   that gave up waiting for its owner; and only such a one outlives the host. *)
THEOREM ProcessesAreKept == Spec => []NoProcessForgotten
<1>1. IInv => NoProcessForgotten
  BY DEF IInv
<1> QED
  BY <1>1, IInvariant, PTL

(* The decision to leave is final: no client, session or hold after it. *)
THEOREM LeavingIsFinal == Spec => LeavingTakesNothing
<1> DEFINE Final == shutdown => shutdown' /\ clients' \subseteq clients
                              /\ spawned' = spawned /\ held' <= held
<1>1. IInv /\ [Next]_vars => [Final]_vars
  <2> SUFFICES ASSUME TypeOK, GateOK, [Next]_vars PROVE [Final]_vars
    BY DEF IInv
<2>1. CASE CreateRequested
  BY <2>1 DEF CreateRequested, GateOK, TypeOK, coreVars
<2>2. CASE ShutdownAsked
  BY <2>2 DEF ShutdownAsked, GateOK, TypeOK, coreVars
<2>3. CASE ShutdownForced
  BY <2>3 DEF ShutdownForced, GateOK, TypeOK, coreVars
<2>4. ASSUME NEW c \in Client, ClientConnected(c) PROVE [Final]_vars
  BY <2>4 DEF ClientConnected, GateOK, TypeOK, coreVars
<2>5. ASSUME NEW c \in Client, ClientDisconnected(c) PROVE [Final]_vars
  BY <2>5 DEF ClientDisconnected, GateOK, TypeOK, coreVars
<2>6. ASSUME NEW h \in BOOLEAN, HoldSession(h) PROVE [Final]_vars
  BY <2>6 DEF HoldSession, GateOK, TypeOK, coreVars
<2>7. ASSUME NEW id \in Id, CloseBegin(id) PROVE [Final]_vars
  BY <2>7 DEF CloseBegin, GateOK, TypeOK, coreVars
<2>8. ASSUME NEW id \in Id, CreateRefused(id) PROVE [Final]_vars
  BY <2>8 DEF CreateRefused, GateOK, TypeOK, coreVars
<2>9. ASSUME NEW id \in Id, CreateBegin(id) PROVE [Final]_vars
  BY <2>9 DEF CreateBegin, GateOK, TypeOK, coreVars
<2>10. CASE CreateSpawnFailed
  BY <2>10 DEF CreateSpawnFailed, GateOK, TypeOK, coreVars
<2>11. CASE CreateSpawn
  BY <2>11 DEF CreateSpawn, GateOK, TypeOK, coreVars
<2>12. CASE CreateInsert
  BY <2>12 DEF CreateInsert, GateOK, TypeOK, coreVars
<2>13. CASE CreatePublish
  BY <2>13 DEF CreatePublish, GateOK, TypeOK, coreVars
<2>14. CASE CloseDone
  BY <2>14 DEF CloseDone, GateOK, TypeOK, coreVars
<2>15. ASSUME NEW e \in gate.rest, ShutdownCloseNext(e) PROVE [Final]_vars
  BY <2>15 DEF ShutdownCloseNext, GateOK, TypeOK, coreVars
<2>16. CASE ShutdownCloseDone
  BY <2>16 DEF ShutdownCloseDone, GateOK, TypeOK, coreVars
<2>17. CASE ShutdownFinish
  BY <2>17 DEF ShutdownFinish, GateOK, TypeOK, coreVars
<2>18. CASE Tick
  BY <2>18 DEF Tick, GateOK, TypeOK, coreVars
<2>19. CASE TryBeginIdleExit
  BY <2>19 DEF TryBeginIdleExit, GateOK, TypeOK, coreVars
<2>20. CASE Leave
  BY <2>20 DEF Leave, GateOK, TypeOK, coreVars
<2>21. ASSUME NEW i \in Inc, ChildExits(i) PROVE [Final]_vars
  BY <2>21 DEF ChildExits, GateOK, TypeOK, coreVars
<2>22. ASSUME NEW i \in Inc, OwnerStalls(i) PROVE [Final]_vars
  BY <2>22 DEF OwnerStalls, GateOK, TypeOK, coreVars
<2>23. ASSUME NEW i \in Inc, OwnerResumes(i) PROVE [Final]_vars
  BY <2>23 DEF OwnerResumes, GateOK, TypeOK, coreVars
<2>24. ASSUME NEW i \in Inc, OwnerStarts(i) PROVE [Final]_vars
  BY <2>24 DEF OwnerStarts, GateOK, TypeOK, coreVars
<2>25. ASSUME NEW i \in Inc, OwnerSeesExit(i) PROVE [Final]_vars
  BY <2>25 DEF OwnerSeesExit, GateOK, TypeOK, coreVars
<2>26. ASSUME NEW i \in Inc, OwnerCloses(i) PROVE [Final]_vars
  BY <2>26 DEF OwnerCloses, GateOK, TypeOK, coreVars
<2>27. ASSUME NEW i \in Inc, Escalate(i) PROVE [Final]_vars
  BY <2>27 DEF Escalate, GateOK, TypeOK, coreVars
<2>28. ASSUME NEW i \in Inc, PumpPublishes(i) PROVE [Final]_vars
  BY <2>28 DEF PumpPublishes, GateOK, TypeOK, coreVars
<2>30. CASE CreateSpawnTimesOut
  BY <2>30 DEF CreateSpawnTimesOut, GateOK, TypeOK, coreVars
<2>31. ASSUME NEW i \in Inc, OwnerKeepsExit(i) PROVE [Final]_vars
  BY <2>31 DEF OwnerKeepsExit, GateOK, TypeOK, coreVars
<2>29. CASE UNCHANGED vars
  BY <2>29 DEF GateOK, TypeOK, coreVars
<2> QED
  BY <2>1, <2>2, <2>3, <2>4, <2>5, <2>6, <2>7, <2>8, <2>9, <2>10, <2>11, <2>12, <2>13, <2>14, <2>15, <2>16, <2>17, <2>18, <2>19, <2>20, <2>21, <2>22, <2>23, <2>24, <2>25, <2>26, <2>27, <2>28, <2>29, <2>30, <2>31 DEF Next, Request, GateStep, OwnerStep
<1> QED
  BY <1>1, IInvariant, PTL DEF Spec, LeavingTakesNothing

-----------------------------------------------------------------------------
(***************************************************************************)
(* What a HostCore tells its subscribers: the order of term.sessions       *)
(* (EventsInOrder) and the currency of host.state (AnnouncedIsCurrent).    *)
(*                                                                         *)
(* The order of the events of a session rests on where the session can be: *)
(* its pump starts after Created (PumpOK), its exit is sent once and is    *)
(* either on its way or published (ExitOK), and once Closed is out neither *)
(* table nor gate holds it (ClosedOK), because a session is found under    *)
(* its own id only (NamesOK) and incarnations are never used again         *)
(* (NewOK).  An announcement is wrong only about sessions whose exit is on *)
(* its way or that the gate's operation is still to announce (StateOK).    *)
(***************************************************************************)

(* An event of a type about an incarnation is on a topic; an exit was sent and
   its pump has not published it. *)
Said(t, type, i) == \E k \in 1..Len(t) : t[k].type = type /\ t[k].inc = i
Pending(i) == session[i].sent /\ ~session[i].pumped

(* EventsInOrder, of a topic. *)
InOrder(t) ==
  \A k \in 1..Len(t) :
    /\ t[k].type # "Created" =>
         \E j \in 1..(k - 1) : t[j].type = "Created" /\ t[j].inc = t[k].inc
    /\ t[k].type \in {"Exited", "Closed"} => \A j \in 1..(k - 1) : t[j] # t[k]

EventType == {"Created", "Exited", "Closed"}

(* The gate's operation waits for a session it took from the table. *)
Closing == gate.op \in {"close", "shutdown"} /\ gate.step = "wait"

(* A session is listed, or taken to be closed, under its own id. *)
NamesOK ==
  /\ \A id \in Id : entries[id] # None => session[entries[id]].id = id
  /\ \A e \in gate.rest : session[e[2]].id = e[1]

(* Nothing is known of a session before it is spawned. *)
NewOK ==
  \A i \in Inc : i > spawned =>
    /\ session[i].id = None /\ session[i].owner = "none" /\ ~session[i].pump
    /\ gate.inc # i /\ \A type \in EventType : ~Said(topic, type, i)

(* A pump runs after Created, and for every session but the one in creation. *)
PumpOK ==
  /\ \A i \in Inc : session[i].pump => Said(topic, "Created", i)
  /\ \A id \in Id : entries[id] # None /\ ~(gate.op = "create" /\ gate.inc = entries[id])
                      => session[entries[id]].pump
  /\ \A e \in gate.rest : session[e[2]].pump
  /\ Closing => session[gate.inc].pump

(* An exit that was published is not on its way any more. *)
ExitOK == \A i \in Inc : Said(topic, "Exited", i) => session[i].pumped

(* A session that was taken from the table is in one hand, and in none once
   its Closed is published. *)
ClosedOK ==
  /\ Closing => gate.inc \notin Listed /\ \A e \in gate.rest : e[2] # gate.inc
  /\ \A i \in Inc : Said(topic, "Closed", i) =>
       /\ i \notin Listed /\ \A e \in gate.rest : e[2] # i
       /\ ~(Closing /\ gate.inc = i) /\ ~(gate.op = "create" /\ gate.inc = i)

(* What host.state last said, before the gate's operation changes the table:
   every live session, and besides them only exits that are on their way. *)
StateOK ==
  /\ announced.clients = clients /\ announced.held = held /\ announced.draining = shutdown
  /\ gate.op = "free" \/ (gate.op = "create" /\ gate.step # "publish") =>
       /\ Live \subseteq announced.live
       /\ \A i \in announced.live : i \in Live \/ (i \in Listed /\ Pending(i))

TopicInv == NamesOK /\ NewOK /\ PumpOK /\ ExitOK /\ ClosedOK /\ InOrder(topic) /\ StateOK

-----------------------------------------------------------------------------
(* Sequences. *)

(* What is said once one more event is published. *)
LEMMA SaidAppend ==
  ASSUME NEW t \in Seq(TopicEvent), NEW e \in TopicEvent, NEW type, NEW i
  PROVE  Said(Append(t, e), type, i) <=> Said(t, type, i) \/ (e.type = type /\ e.inc = i)
<1>1. /\ Len(Append(t, e)) = Len(t) + 1 /\ Append(t, e)[Len(t) + 1] = e
      /\ \A k \in 1..Len(t) : Append(t, e)[k] = t[k]
  OBVIOUS
<1>2. 1..(Len(t) + 1) = 1..Len(t) \cup {Len(t) + 1} /\ Len(t) \in Nat
  OBVIOUS
<1> QED
  BY <1>1, <1>2, Zenon DEF Said

(* An event keeps the order where its session was created, and where it is a
   Created, or new. *)
LEMMA OrderAppend ==
  ASSUME NEW t \in Seq(TopicEvent), NEW e \in TopicEvent, InOrder(t),
         e.type # "Created" => Said(t, "Created", e.inc),
         e.type \in {"Exited", "Closed"} => ~Said(t, e.type, e.inc)
  PROVE  InOrder(Append(t, e))
<1> DEFINE u == Append(t, e)
<1>1. Len(u) = Len(t) + 1 /\ u[Len(t) + 1] = e /\ \A k \in 1..Len(t) : u[k] = t[k]
  OBVIOUS
<1>len. Len(t) \in Nat
  OBVIOUS
<1> SUFFICES ASSUME NEW k \in 1..Len(u)
             PROVE  /\ u[k].type # "Created" =>
                         \E j \in 1..(k - 1) : u[j].type = "Created" /\ u[j].inc = u[k].inc
                    /\ u[k].type \in {"Exited", "Closed"} => \A j \in 1..(k - 1) : u[j] # u[k]
  BY DEF InOrder
<1>2. CASE k \in 1..Len(t)
  <2>1. u[k] = t[k] /\ \A j \in 1..(k - 1) : u[j] = t[j]
    BY <1>1, <1>2
  <2> HIDE DEF u
  <2> QED
    BY <1>2, <2>1 DEF InOrder
<1>3. CASE k = Len(t) + 1
  <2>1. u[k] = e /\ \A j \in 1..(k - 1) : j \in 1..Len(t) /\ u[j] = t[j]
    BY <1>1, <1>3
  <2>2. 1..(k - 1) = 1..Len(t)
    BY <1>3, <1>len
  <2> HIDE DEF u
  <2> QED
    BY <2>1, <2>2 DEF Said
<1> QED
  BY <1>1, <1>2, <1>3, <1>len

-----------------------------------------------------------------------------
(* Steps. *)

LEMMA IncFacts == None \notin Inc /\ None \notin Id /\ Inc \subseteq Nat
  BY HostCoreAssumption DEF HostCoreAssumption, Inc

(* A session under an id, or about to be closed, was spawned. *)
LEMMA KnownIsSpawned ==
  ASSUME TypeOK, NamesOK, NewOK
  PROVE  /\ \A id \in Id : entries[id] # None => entries[id] \in Inc /\ entries[id] <= spawned
         /\ \A e \in gate.rest : e[1] \in Id /\ e[2] \in Inc /\ e[2] <= spawned
<1>1. spawned \in Nat
  BY HostCoreAssumption DEF TypeOK, HostCoreAssumption
<1>2. \A i \in Inc : session[i].id # None => i <= spawned
  BY <1>1, IncFacts DEF NewOK
<1>3. \A e \in gate.rest : e[1] \in Id /\ e[2] \in Inc
  BY DEF TypeOK, GateState
<1>4. \A id \in Id : entries[id] # None => entries[id] \in Inc
  BY DEF TypeOK
<1> QED
  BY <1>2, <1>3, <1>4, IncFacts DEF NamesOK

(* The session the gate's operation waits for was spawned. *)
LEMMA ClosingIsSpawned ==
  ASSUME TypeOK, GateOK, NewOK, Closing
  PROVE  gate.inc \in Inc /\ gate.id \in Id /\ gate.inc <= spawned
<1>1. gate.inc \in Inc /\ gate.id \in Id
  BY DEF GateOK, Closing
<1>2. spawned \in Nat
  BY HostCoreAssumption DEF TypeOK, HostCoreAssumption
<1>3. \A i \in Inc : i > spawned => gate.inc # i
  BY DEF NewOK
<1>4. gate.inc \in Nat /\ ~(gate.inc > spawned)
  BY <1>1, <1>3, IncFacts
<1> QED
  BY <1>1, <1>2, <1>4

(* The step leaves alone the table, the gate and the topic, and of every
   session its name, its pump, its exit and what was published. *)
Quiet ==
  /\ UNCHANGED <<entries, gate, topic, spawned>>
  /\ \A i \in Inc : /\ session'[i].id = session[i].id /\ session'[i].pump = session[i].pump
                    /\ session'[i].exit = session[i].exit /\ session'[i].pumped = session[i].pumped
                    /\ session[i].sent => session'[i].sent
                    /\ session[i].owner = "none" => session'[i].owner = "none"

LEMMA QuietListed ==
  ASSUME TypeOK, entries' = entries, \A i \in Inc : session'[i].exit = session[i].exit
  PROVE  Listed' = Listed /\ Live' = Live /\ Listed \subseteq Inc
<1>1. Listed' = Listed /\ Listed \subseteq Inc
  BY DEF Listed, TypeOK
<1> QED
  BY <1>1 DEF Live

LEMMA QuietStep ==
  ASSUME TypeOK, GateOK, TopicInv, Quiet
  PROVE  /\ NamesOK' /\ NewOK' /\ PumpOK' /\ ExitOK' /\ ClosedOK' /\ InOrder(topic')
<1> USE DEF TopicInv, Quiet
<1>1. Listed' = Listed
  BY QuietListed
<1>2. NamesOK'
  BY KnownIsSpawned DEF NamesOK, TypeOK
<1>3. NewOK'
  BY DEF NewOK
<1>4. PumpOK'
  <2>1. Closing' <=> Closing
    BY DEF Closing
  <2> QED
    BY <2>1, KnownIsSpawned, ClosingIsSpawned DEF PumpOK
<1>5. ExitOK'
  BY DEF ExitOK
<1>6. ClosedOK'
  BY <1>1 DEF ClosedOK, Closing
<1>7. InOrder(topic')
  OBVIOUS
<1> QED
  BY <1>2, <1>3, <1>4, <1>5, <1>6, <1>7

(* What a step announces of the state it leaves is current. *)
LEMMA AnnouncedStep ==
  ASSUME announced' = Snapshot(clients', held', Live', shutdown')
  PROVE  StateOK'
  BY DEF StateOK, Snapshot

(* What was announced stays current where the table and the exits do. *)
LEMMA KeptStep ==
  ASSUME StateOK, UNCHANGED <<clients, held, shutdown, announced>>,
         Listed' = Listed, Live' = Live, \A i \in Listed : Pending(i) => Pending(i)',
         \/ gate.op = "free" \/ (gate.op = "create" /\ gate.step # "publish")
         \/ ~(gate'.op = "free" \/ (gate'.op = "create" /\ gate'.step # "publish"))
  PROVE  StateOK'
  BY DEF StateOK

(* An announcement, or no change of what is announced, in a quiet step. *)
LEMMA QuietAnnounces ==
  ASSUME TypeOK, GateOK, TopicInv, Quiet,
         \/ announced' = Snapshot(clients', held', Live', shutdown')
         \/ UNCHANGED <<clients, held, shutdown, announced>>
  PROVE  TopicInv'
<1>1. NamesOK' /\ NewOK' /\ PumpOK' /\ ExitOK' /\ ClosedOK' /\ InOrder(topic')
  BY QuietStep
<1>2. CASE announced' = Snapshot(clients', held', Live', shutdown')
  BY <1>1, <1>2, AnnouncedStep DEF TopicInv
<1>3. CASE UNCHANGED <<clients, held, shutdown, announced>>
  <2>1. Listed' = Listed /\ Live' = Live
    BY QuietListed DEF Quiet
  <2>2. StateOK'
    <3>1. \A i \in Listed : Pending(i) => Pending(i)'
      BY <2>1, QuietListed DEF Quiet, Pending
    <3> QED
      BY <1>3, <2>1, <3>1 DEF Quiet, TopicInv, StateOK
  <2> QED
    BY <1>1, <2>2 DEF TopicInv
<1> QED
  BY <1>2, <1>3

-----------------------------------------------------------------------------
(* Creation. *)

LEMMA CreateBeginStep ==
  ASSUME TypeOK, GateOK, TopicInv, NEW id \in Id, CreateBegin(id)
  PROVE  TopicInv'
<1>1. /\ gate = Free /\ gate' = [Free EXCEPT !.op = "create", !.step = "spawn", !.id = id]
      /\ UNCHANGED <<clients, held, shutdown, entries, announced, topic, spawned, session>>
  BY DEF CreateBegin
<1>2. /\ gate.op = "free" /\ gate'.op = "create" /\ gate'.step = "spawn" /\ gate'.inc = None
      /\ gate'.rest = {} /\ ~Closing'
  BY <1>1 DEF Free, Closing
<1>3. Listed' = Listed /\ Live' = Live
  BY <1>1 DEF Listed, Live
<1> HIDE DEF CreateBegin
<1> USE DEF TopicInv
<1>4. NamesOK'
  BY <1>1, <1>2 DEF NamesOK
<1>5. NewOK'
  BY <1>1, <1>2, IncFacts DEF NewOK
<1>6. PumpOK'
  BY <1>1, <1>2 DEF PumpOK
<1>7. ExitOK'
  BY <1>1 DEF ExitOK
<1>8. ClosedOK'
  BY <1>1, <1>2, <1>3, IncFacts DEF ClosedOK
<1>9. StateOK'
  BY <1>1, <1>2, <1>3, KeptStep DEF Pending
<1> QED
  BY <1>1, <1>4, <1>5, <1>6, <1>7, <1>8, <1>9

LEMMA CreateSpawnFailedStep ==
  ASSUME TypeOK, GateOK, TopicInv, CreateSpawnFailed
  PROVE  TopicInv'
<1>1. /\ gate.op = "create" /\ gate.step = "spawn" /\ gate' = Free
      /\ UNCHANGED <<clients, held, shutdown, entries, announced, topic, spawned, session>>
  BY DEF CreateSpawnFailed
<1>2. /\ gate.inc = None /\ gate'.op = "free" /\ gate'.inc = None /\ gate'.rest = {} /\ ~Closing'
  BY <1>1 DEF Free, Closing, GateOK
<1>3. Listed' = Listed /\ Live' = Live
  BY <1>1 DEF Listed, Live
<1> USE DEF TopicInv
<1>4. NamesOK'
  BY <1>1, <1>2 DEF NamesOK
<1>5. NewOK'
  BY <1>1, <1>2, IncFacts DEF NewOK
<1>6. PumpOK'
  BY <1>1, <1>2 DEF PumpOK
<1>7. ExitOK'
  BY <1>1 DEF ExitOK
<1>8. ClosedOK'
  BY <1>1, <1>2, <1>3 DEF ClosedOK
<1>9. StateOK'
  BY <1>1, <1>2, <1>3, KeptStep DEF Pending
<1> QED
  BY <1>1, <1>4, <1>5, <1>6, <1>7, <1>8, <1>9

LEMMA CreateSpawnStep ==
  ASSUME TypeOK, GateOK, TopicInv, CreateSpawn \/ CreateSpawnTimesOut
  PROVE  TopicInv'
<1> DEFINE n == spawned + 1
<1> USE DEF TopicInv
<1>1. /\ gate.op = "create" /\ gate.step = "spawn" /\ spawned' = n
      /\ UNCHANGED <<clients, held, shutdown, entries, announced, topic>>
  BY DEF CreateSpawn, CreateSpawnTimesOut
<1>2. /\ n \in Inc /\ n > spawned /\ spawned \in Nat
      /\ \A i \in Inc : i > n => i > spawned
  BY HostCoreAssumption, IncFacts DEF CreateSpawn, CreateSpawnTimesOut, TypeOK, HostCoreAssumption, Inc
<1>3. /\ gate'.op = "free" \/ (gate'.op = "create" /\ gate'.step = "insert")
      /\ gate'.inc \in {n, None} /\ gate'.rest = {} /\ gate.inc = None /\ gate.rest = {} /\ ~Closing'
  <2>1. gate.inc = None /\ gate.rest = {}
    BY <1>1 DEF GateOK
  <2>2. CASE CreateSpawn
    BY <1>1, <2>1, <2>2 DEF CreateSpawn, TypeOK, GateState, Closing
  <2>3. CASE CreateSpawnTimesOut
    BY <1>1, <2>1, <2>3 DEF CreateSpawnTimesOut, Free, Closing
  <2> QED
    BY <2>2, <2>3
<1>4. /\ ~session'[n].exit /\ ~session'[n].pump
      /\ \A i \in Inc \ {n} : session'[i] = session[i]
  <2>1. CASE CreateSpawn
    BY <1>1, <1>2, <2>1 DEF CreateSpawn, TypeOK, NoSession
  <2>2. CASE CreateSpawnTimesOut
    BY <1>1, <1>2, <2>2 DEF CreateSpawnTimesOut, TypeOK, NoSession
  <2> QED
    BY <2>1, <2>2
<1>5. /\ session[n].id = None
      /\ \A type \in EventType : ~Said(topic, type, n)
  BY <1>2 DEF NewOK
<1>6. \A id \in Id : entries[id] # n
  BY <1>2, <1>5, IncFacts DEF NamesOK
<1>7. Listed' = Listed /\ n \notin Listed /\ Listed \subseteq Inc
  BY <1>1, <1>6 DEF Listed, TypeOK
<1>8. Live' = Live
  BY <1>4, <1>7 DEF Live
<1> HIDE DEF n
<1>9. NamesOK'
  BY <1>1, <1>3, <1>4, <1>6 DEF NamesOK, TypeOK
<1>10. NewOK'
  <2>1. \A i \in Inc : i > n => i # n /\ i # None
    BY <1>2, IncFacts DEF n
  <2> QED
    BY <1>1, <1>2, <1>3, <1>4, <2>1 DEF NewOK
<1>11. PumpOK'
  BY <1>1, <1>3, <1>4, <1>6, IncFacts DEF PumpOK, TypeOK
<1>12. ExitOK'
  BY <1>1, <1>2, <1>4, <1>5 DEF ExitOK, EventType
<1>13. ClosedOK'
  BY <1>1, <1>3, <1>5, <1>7, IncFacts DEF ClosedOK, EventType
<1>14. StateOK'
  <2>1. \A i \in Listed : Pending(i) => Pending(i)'
    BY <1>4, <1>7 DEF Pending
  <2> QED
    BY <1>1, <1>3, <1>7, <1>8, <2>1, KeptStep
<1> QED
  BY <1>1, <1>9, <1>10, <1>11, <1>12, <1>13, <1>14

LEMMA CreateInsertStep ==
  ASSUME TypeOK, GateOK, TopicInv, CreateInsert
  PROVE  TopicInv'
<1> USE DEF TopicInv
<1>1. /\ gate.op = "create" /\ gate.step = "insert"
      /\ entries' = [entries EXCEPT ![gate.id] = gate.inc]
      /\ UNCHANGED <<clients, held, shutdown, announced, topic, spawned, session>>
  BY DEF CreateInsert
<1>2. /\ gate.inc \in Inc /\ gate.id \in Id /\ gate.rest = {} /\ session[gate.inc].id = gate.id
      /\ gate'.op = "create" /\ gate'.step = "publish" /\ gate'.inc = gate.inc
      /\ gate'.rest = {} /\ ~Closing'
  BY <1>1 DEF CreateInsert, GateOK, TypeOK, GateState, Closing
<1>3. /\ entries'[gate.id] = gate.inc /\ \A id \in Id \ {gate.id} : entries'[id] = entries[id]
  BY <1>1, <1>2 DEF TypeOK
<1>4. Listed' \subseteq Listed \cup {gate.inc}
  BY <1>2, <1>3 DEF Listed
<1>5. NamesOK'
  BY <1>1, <1>2, <1>3 DEF NamesOK
<1>6. NewOK'
  BY <1>1, <1>2 DEF NewOK
<1>7. PumpOK'
  BY <1>1, <1>2, <1>3 DEF PumpOK
<1>8. ExitOK'
  BY <1>1 DEF ExitOK
<1>9. ClosedOK'
  BY <1>1, <1>2, <1>4 DEF ClosedOK
<1>10. StateOK'
  BY <1>1, <1>2 DEF StateOK
<1> QED
  BY <1>1, <1>5, <1>6, <1>7, <1>8, <1>9, <1>10

LEMMA CreatePublishStep ==
  ASSUME TypeOK, GateOK, TopicInv, CreatePublish
  PROVE  TopicInv'
<1> USE DEF TopicInv
<1> DEFINE e == [type |-> "Created", id |-> gate.id, inc |-> gate.inc]
<1>1. /\ gate.op = "create" /\ gate.step = "publish" /\ gate' = Free
      /\ topic' = Append(topic, e) /\ session' = [session EXCEPT ![gate.inc].pump = TRUE]
      /\ announced' = Snapshot(clients, held, Live, shutdown)
      /\ UNCHANGED <<clients, held, shutdown, entries, spawned>>
  BY DEF CreatePublish
<1>2. /\ gate.inc \in Inc /\ gate.id \in Id /\ gate.rest = {} /\ entries[gate.id] = gate.inc
      /\ gate'.op = "free" /\ gate'.inc = None /\ gate'.rest = {} /\ ~Closing'
  BY <1>1 DEF GateOK, Free, Closing
<1>3. e \in TopicEvent /\ e.type = "Created" /\ e.inc = gate.inc /\ topic \in Seq(TopicEvent)
  BY <1>2 DEF TopicEvent, TypeOK
<1> HIDE DEF e
<1>4. \A type, i : Said(topic', type, i) <=> Said(topic, type, i) \/ (type = "Created" /\ i = gate.inc)
  BY <1>1, <1>3, SaidAppend
<1>5. \A i \in Inc : /\ session'[i].id = session[i].id /\ session'[i].exit = session[i].exit
                     /\ session'[i].pumped = session[i].pumped
                     /\ session'[i].owner = session[i].owner
                     /\ session'[i].pump <=> session[i].pump \/ i = gate.inc
  BY <1>1, <1>2 DEF TypeOK, SessionState
<1>6. Listed' = Listed /\ Live' = Live /\ Listed \subseteq Inc
  BY <1>1, <1>5, QuietListed
<1>7. NamesOK'
  BY <1>1, <1>2, <1>5 DEF NamesOK, TypeOK
<1>8. NewOK'
  BY <1>1, <1>2, <1>4, <1>5, IncFacts DEF NewOK, EventType
<1>9. PumpOK'
  BY <1>1, <1>2, <1>4, <1>5 DEF PumpOK, TypeOK
<1>10. ExitOK'
  BY <1>1, <1>4, <1>5 DEF ExitOK
<1>11. ClosedOK'
  BY <1>2, <1>4, <1>6 DEF ClosedOK
<1>12. InOrder(topic')
  BY <1>1, <1>3, OrderAppend
<1>13. StateOK'
  BY <1>1, <1>6, AnnouncedStep
<1> QED
  BY <1>7, <1>8, <1>9, <1>10, <1>11, <1>12, <1>13

-----------------------------------------------------------------------------
(* Ends. *)

LEMMA CloseBeginStep ==
  ASSUME TypeOK, GateOK, TopicInv, NEW id \in Id, CloseBegin(id)
  PROVE  TopicInv'
<1> USE DEF TopicInv
<1> DEFINE n == entries[id]
<1>1. /\ gate = Free /\ n # None /\ entries' = [entries EXCEPT ![id] = None]
      /\ session' = [session EXCEPT ![n].close = TRUE]
      /\ gate' = [Free EXCEPT !.op = "close", !.step = "wait", !.id = id, !.inc = n]
      /\ UNCHANGED <<clients, held, shutdown, announced, topic, spawned>>
  BY DEF CloseBegin
<1>2. /\ n \in Inc /\ n <= spawned /\ session[n].id = id /\ spawned \in Nat
  BY <1>1, KnownIsSpawned, HostCoreAssumption DEF NamesOK, TypeOK, HostCoreAssumption
<1>3. /\ gate.op = "free" /\ gate.rest = {} /\ gate'.op = "close" /\ gate'.step = "wait"
      /\ gate'.inc = n /\ gate'.rest = {} /\ Closing'
  BY <1>1 DEF Free, Closing
<1>4. \A i \in Inc : /\ session'[i].id = session[i].id /\ session'[i].exit = session[i].exit
                     /\ session'[i].pumped = session[i].pumped
                     /\ session'[i].owner = session[i].owner /\ session'[i].pump = session[i].pump
  BY <1>1, <1>2 DEF TypeOK, SessionState
<1>5. entries'[id] = None /\ \A x \in Id \ {id} : entries'[x] = entries[x]
  BY <1>1 DEF TypeOK
<1>6. \A x \in Id \ {id} : entries[x] # n
  BY <1>1, <1>2 DEF NamesOK
<1> HIDE DEF n
<1>7. Listed' \subseteq Listed /\ n \notin Listed'
  BY <1>1, <1>5, <1>6 DEF Listed
<1>8. NamesOK'
  BY <1>3, <1>4, <1>5 DEF NamesOK, TypeOK
<1>9. NewOK'
  <2>1. \A i \in Inc : i > spawned => n # i
    BY <1>2, IncFacts
  <2> QED
    BY <1>1, <1>3, <1>4, <2>1 DEF NewOK
<1>10. PumpOK'
  <2>1. session[n].pump
    BY <1>1, <1>3 DEF PumpOK, n
  <2> QED
    BY <1>1, <1>2, <1>3, <1>4, <1>5, <2>1 DEF PumpOK, TypeOK
<1>11. ExitOK'
  BY <1>1, <1>4 DEF ExitOK
<1>12. ClosedOK'
  <2>1. n \in Listed
    BY <1>1 DEF Listed, n
  <2> QED
    BY <1>1, <1>3, <1>7, <2>1 DEF ClosedOK
<1>13. StateOK'
  BY <1>1, <1>3 DEF StateOK
<1> QED
  BY <1>1, <1>8, <1>9, <1>10, <1>11, <1>12, <1>13

LEMMA CloseDoneStep ==
  ASSUME TypeOK, GateOK, TopicInv, CloseDone \/ ShutdownCloseDone
  PROVE  TopicInv'
<1> USE DEF TopicInv
<1> DEFINE e == [type |-> "Closed", id |-> gate.id, inc |-> gate.inc]
<1>1. /\ Closing /\ topic' = Append(topic, e)
      /\ UNCHANGED <<clients, held, shutdown, entries, spawned>> /\ session' = GoneOn(gate.inc)
  BY DEF CloseDone, ShutdownCloseDone, Closing
<1>2. /\ gate.inc \in Inc /\ gate.id \in Id /\ gate.inc <= spawned
  BY <1>1, ClosingIsSpawned
<1>3. /\ gate'.op # "create" /\ ~Closing'
      /\ gate'.inc \in {None, gate.inc} /\ gate'.rest \subseteq gate.rest
  <2>1. CASE CloseDone
    BY <2>1 DEF CloseDone, Closing, Free
  <2>2. CASE ShutdownCloseDone
    BY <2>2 DEF ShutdownCloseDone, Closing, TypeOK, GateState
  <2> QED
    BY <2>1, <2>2
<1>4. e \in TopicEvent /\ e.type = "Closed" /\ e.inc = gate.inc /\ topic \in Seq(TopicEvent)
  BY <1>2 DEF TopicEvent, TypeOK
<1> HIDE DEF e
<1>5. \A type, i : Said(topic', type, i) <=> Said(topic, type, i) \/ (type = "Closed" /\ i = gate.inc)
  BY <1>1, <1>4, SaidAppend
<1>same. \A i \in Inc : /\ session'[i].id = session[i].id /\ session'[i].exit = session[i].exit
                        /\ session'[i].owner = session[i].owner /\ session'[i].pump = session[i].pump
                        /\ session'[i].pumped = session[i].pumped
  BY <1>1, <1>2 DEF GoneOn, TypeOK, SessionState
<1>6. Listed' = Listed /\ Live' = Live /\ Listed \subseteq Inc
  BY <1>1, <1>same, QuietListed
<1>7. NamesOK'
  BY <1>1, <1>3, <1>same, KnownIsSpawned DEF NamesOK
<1>8. NewOK'
  <2>1. \A i \in Inc : i > spawned => i # gate.inc /\ i # None
    BY <1>2, IncFacts, HostCoreAssumption DEF TypeOK, HostCoreAssumption
  <2> QED
    BY <1>1, <1>3, <1>5, <1>same, <2>1 DEF NewOK
<1>9. PumpOK'
  <2>1. gate.op # "create"
    BY <1>1 DEF Closing
  <2> QED
    BY <1>1, <1>3, <1>5, <1>same, <2>1, KnownIsSpawned DEF PumpOK
<1>10. ExitOK'
  BY <1>1, <1>5, <1>same DEF ExitOK
<1>11. ClosedOK'
  BY <1>1, <1>3, <1>5, <1>6 DEF ClosedOK
<1>12. InOrder(topic')
  <2>1. Said(topic, "Created", gate.inc)
    BY <1>1, <1>2 DEF PumpOK
  <2>2. ~Said(topic, "Closed", gate.inc)
    BY <1>1, <1>2 DEF ClosedOK
  <2> QED
    BY <1>1, <1>4, <2>1, <2>2, OrderAppend
<1>13. StateOK'
  <2>1. CASE CloseDone
    <3>1. announced' = Snapshot(clients', held', Live', shutdown')
      BY <1>1, <1>6, <2>1 DEF CloseDone
    <3> QED
      BY <3>1, AnnouncedStep
  <2>2. CASE ShutdownCloseDone
    <3>1. gate'.op = "shutdown" /\ UNCHANGED announced
      BY <2>2 DEF ShutdownCloseDone, TypeOK, GateState
    <3> QED
      BY <1>1, <3>1 DEF StateOK
  <2> QED
    BY <2>1, <2>2
<1> QED
  BY <1>7, <1>8, <1>9, <1>10, <1>11, <1>12, <1>13

LEMMA ShutdownForcedStep ==
  ASSUME TypeOK, GateOK, TopicInv, ShutdownForced
  PROVE  TopicInv'
<1> USE DEF TopicInv
<1>1. /\ gate = Free /\ entries' = [id \in Id |-> None]
      /\ UNCHANGED <<clients, held, shutdown, announced, topic, spawned, session>>
  BY DEF ShutdownForced
<1>2. /\ gate.op = "free" /\ gate.rest = {} /\ gate'.op = "shutdown" /\ gate'.inc = None /\ ~Closing'
  BY <1>1 DEF ShutdownForced, Free, Closing
<1>3. \A e \in gate'.rest : e[1] \in Id /\ e[2] = entries[e[1]] /\ e[2] # None /\ e[2] \in Listed
  <2>1. gate'.rest = { <<id, entries[id]>> : id \in {x \in Id : entries[x] # None} }
    BY DEF ShutdownForced, Free
  <2> QED
    BY <2>1 DEF Listed
<1>4. Listed' = {} /\ Listed \subseteq Inc
  BY <1>1 DEF Listed, TypeOK
<1>5. NamesOK'
  BY <1>1, <1>3 DEF NamesOK
<1>6. NewOK'
  BY <1>1, <1>2, IncFacts DEF NewOK
<1>7. PumpOK'
  BY <1>1, <1>2, <1>3 DEF PumpOK
<1>8. ExitOK'
  BY <1>1 DEF ExitOK
<1>9. ClosedOK'
  BY <1>1, <1>2, <1>3, <1>4 DEF ClosedOK
<1>10. StateOK'
  BY <1>1, <1>2 DEF StateOK
<1> QED
  BY <1>1, <1>5, <1>6, <1>7, <1>8, <1>9, <1>10

LEMMA ShutdownCloseNextStep ==
  ASSUME TypeOK, GateOK, TopicInv, NEW e \in gate.rest, ShutdownCloseNext(e)
  PROVE  TopicInv'
<1> USE DEF TopicInv
<1>1. /\ gate.op = "shutdown" /\ session' = [session EXCEPT ![e[2]].close = TRUE]
      /\ UNCHANGED <<clients, held, shutdown, entries, announced, topic, spawned>>
  BY DEF ShutdownCloseNext
<1>2. /\ e \in Id \X Inc /\ e[1] \in Id /\ e[2] \in Inc /\ e[2] <= spawned /\ spawned \in Nat
  BY KnownIsSpawned, HostCoreAssumption DEF TypeOK, GateState, HostCoreAssumption
<1>3. /\ gate'.op = "shutdown" /\ gate'.step = "wait" /\ gate'.inc = e[2]
      /\ gate'.rest = gate.rest \ {e} /\ Closing'
  BY <1>1 DEF ShutdownCloseNext, TypeOK, GateState, Closing
<1>4. \A i \in Inc : /\ session'[i].id = session[i].id /\ session'[i].exit = session[i].exit
                     /\ session'[i].pumped = session[i].pumped
                     /\ session'[i].owner = session[i].owner /\ session'[i].pump = session[i].pump
  BY <1>1, <1>2 DEF TypeOK, SessionState
<1>5. Listed' = {} /\ \A id \in Id : entries[id] = None
  BY <1>1 DEF Listed, GateOK
<1>6. \A f \in gate.rest \ {e} : f \in Id \X Inc /\ f[2] # e[2]
  <2>1. gate.rest \subseteq Id \X Inc
    BY DEF TypeOK, GateState
  <2>2. \A f \in gate.rest : f[2] = e[2] => f[1] = e[1]
    BY DEF NamesOK
  <2> QED
    BY <1>2, <2>1, <2>2
<1>7. NamesOK'
  BY <1>1, <1>3, <1>4, <1>5, KnownIsSpawned DEF NamesOK
<1>8. NewOK'
  <2>1. \A i \in Inc : i > spawned => e[2] # i
    BY <1>2, IncFacts
  <2> QED
    BY <1>1, <1>3, <1>4, <2>1 DEF NewOK
<1>9. PumpOK'
  BY <1>1, <1>2, <1>3, <1>4, <1>5, KnownIsSpawned DEF PumpOK
<1>10. ExitOK'
  BY <1>1, <1>4 DEF ExitOK
<1>11. ClosedOK'
  BY <1>1, <1>3, <1>5, <1>6 DEF ClosedOK
<1>12. StateOK'
  BY <1>1, <1>3 DEF StateOK
<1> QED
  BY <1>1, <1>7, <1>8, <1>9, <1>10, <1>11, <1>12

LEMMA ShutdownFinishStep ==
  ASSUME TypeOK, GateOK, TopicInv, ShutdownFinish
  PROVE  TopicInv'
<1> USE DEF TopicInv
<1>1. /\ gate.op = "shutdown" /\ gate' = Free /\ shutdown' = TRUE
      /\ announced' = Snapshot(clients, held, Live, TRUE)
      /\ UNCHANGED <<clients, held, entries, topic, spawned, session>>
  BY DEF ShutdownFinish
<1>2. /\ gate'.op = "free" /\ gate'.inc = None /\ gate'.rest = {} /\ ~Closing'
  BY <1>1 DEF Free, Closing
<1>3. Listed' = Listed /\ Live' = Live
  BY <1>1 DEF Listed, Live
<1>4. NamesOK'
  BY <1>1, <1>2 DEF NamesOK
<1>5. NewOK'
  BY <1>1, <1>2, IncFacts DEF NewOK
<1>6. PumpOK'
  BY <1>1, <1>2 DEF PumpOK
<1>7. ExitOK'
  BY <1>1 DEF ExitOK
<1>8. ClosedOK'
  BY <1>1, <1>2, <1>3 DEF ClosedOK
<1>9. StateOK'
  BY <1>1, <1>3, AnnouncedStep
<1> QED
  BY <1>1, <1>4, <1>5, <1>6, <1>7, <1>8, <1>9

-----------------------------------------------------------------------------
(* What owners send and pumps publish. *)

LEMMA OwnerKeepsExitStep ==
  ASSUME TypeOK, GateOK, SessionsOK, TopicInv, NEW i \in Inc, OwnerKeepsExit(i)
  PROVE  TopicInv'
<1> USE DEF TopicInv
<1>1. /\ session[i].owner = "running" /\ ~session[i].exit /\ session[i].sent /\ ~session[i].pumped
      /\ session' = [session EXCEPT ![i].exit = TRUE]
      /\ UNCHANGED <<clients, held, shutdown, entries, gate, announced, topic, spawned>>
  BY DEF OwnerKeepsExit, coreVars, Keeping, SessionsOK
<1>2. \A j \in Inc : /\ session'[j].id = session[j].id
                     /\ session'[j].exit <=> session[j].exit \/ j = i
                     /\ session'[j].owner = session[j].owner /\ session'[j].pump = session[j].pump
                     /\ session'[j].sent = session[j].sent /\ session'[j].pumped = session[j].pumped
  BY <1>1 DEF TypeOK, SessionState
<1>3. \A j \in Inc : Pending(j)' <=> Pending(j)
  BY <1>2 DEF Pending
<1>4. Pending(i)
  BY <1>1 DEF Pending
<1>5. /\ Listed' = Listed /\ Listed \subseteq Inc /\ Live' = Live \ {i} /\ (Closing' <=> Closing)
  <2>1. Listed' = Listed /\ Listed \subseteq Inc
    BY <1>1 DEF Listed, TypeOK
  <2> QED
    BY <1>1, <1>2, <2>1 DEF Live, Closing
<1>6. NamesOK'
  BY <1>1, <1>2, KnownIsSpawned DEF NamesOK
<1>7. NewOK'
  BY <1>1, <1>2 DEF NewOK
<1>8. PumpOK'
  BY <1>1, <1>2, <1>5, KnownIsSpawned, ClosingIsSpawned DEF PumpOK
<1>9. ExitOK'
  BY <1>1, <1>2 DEF ExitOK
<1>10. ClosedOK'
  BY <1>1, <1>5 DEF ClosedOK
<1>11. StateOK'
  <2>1. \A j \in Live : j \in Live' \/ (j \in Listed' /\ Pending(j)')
    BY <1>3, <1>4, <1>5 DEF Live
  <2>2. \A j \in Listed : Pending(j) => j \in Listed' /\ Pending(j)'
    BY <1>3, <1>5
  <2> QED
    BY <1>1, <1>5, <2>1, <2>2 DEF StateOK
<1> QED
  BY <1>1, <1>6, <1>7, <1>8, <1>9, <1>10, <1>11

LEMMA PumpPublishesStep ==
  ASSUME TypeOK, GateOK, PumpedAreNamed, TopicInv, NEW i \in Inc, PumpPublishes(i)
  PROVE  TopicInv'
<1> USE DEF TopicInv
<1> DEFINE e == [type |-> "Exited", id |-> session[i].id, inc |-> i]
<1>1. /\ session[i].pump /\ ~session[i].pumped /\ topic' = Append(topic, e)
      /\ session' = [session EXCEPT ![i].pumped = TRUE]
      /\ announced' = Snapshot(clients, held, Live, shutdown)
      /\ UNCHANGED <<clients, held, shutdown, entries, gate, spawned>>
  BY DEF PumpPublishes
<1>2. /\ \A j \in Inc : /\ session'[j].id = session[j].id /\ session'[j].exit = session[j].exit
                        /\ session'[j].owner = session[j].owner /\ session'[j].pump = session[j].pump
                        /\ session'[j].pumped <=> session[j].pumped \/ j = i
      /\ topic \in Seq(TopicEvent)
  BY <1>1 DEF TypeOK, SessionState
<1>3. e \in TopicEvent /\ e.type = "Exited" /\ e.inc = i
  BY <1>1 DEF TopicEvent, PumpedAreNamed
<1> HIDE DEF e
<1>5. \A type, j : Said(topic', type, j) <=> Said(topic, type, j) \/ (type = "Exited" /\ j = i)
  BY <1>1, <1>2, <1>3, SaidAppend
<1>6. Listed' = Listed /\ Live' = Live /\ (Closing' <=> Closing)
  BY <1>1, <1>2, QuietListed DEF Closing
<1>7. NamesOK'
  BY <1>1, <1>2, KnownIsSpawned DEF NamesOK
<1>8. NewOK'
  <2>1. \A j \in Inc : j > spawned => j # i
    BY <1>1 DEF NewOK
  <2> QED
    BY <1>1, <1>2, <1>5, <2>1 DEF NewOK
<1>9. PumpOK'
  BY <1>1, <1>2, <1>5, <1>6, KnownIsSpawned, ClosingIsSpawned DEF PumpOK
<1>10. ExitOK'
  BY <1>1, <1>2, <1>5 DEF ExitOK
<1>11. ClosedOK'
  BY <1>1, <1>5, <1>6 DEF ClosedOK
<1>12. InOrder(topic')
  <2>1. Said(topic, "Created", i) /\ ~Said(topic, "Exited", i)
    BY <1>1 DEF PumpOK, ExitOK
  <2> QED
    BY <1>1, <1>2, <1>3, <2>1, OrderAppend
<1>13. StateOK'
  BY <1>1, <1>6, AnnouncedStep
<1> QED
  BY <1>7, <1>8, <1>9, <1>10, <1>11, <1>12, <1>13

-----------------------------------------------------------------------------
LEMMA InitTopicInv == Init => TopicInv
<1> SUFFICES ASSUME Init PROVE TopicInv
  OBVIOUS
<1> USE IncFacts DEF Init, Free
<1>1. /\ \A i \in Inc : session[i] = NoSession
      /\ \A id \in Id : entries[id] = None
      /\ topic = << >> /\ gate.rest = {} /\ gate.op = "free" /\ gate.inc = None /\ ~Closing
  BY DEF Closing
<1>2. Listed = {} /\ Live = {}
  BY <1>1 DEF Listed, Live
<1>3. \A type, i : ~Said(topic, type, i)
  BY <1>1 DEF Said
<1>4. NamesOK
  BY <1>1 DEF NamesOK
<1>5. NewOK
  BY <1>1, <1>3 DEF NewOK, NoSession
<1>6. PumpOK
  BY <1>1 DEF PumpOK, NoSession
<1>7. ExitOK
  BY <1>1, <1>3 DEF ExitOK, NoSession
<1>8. ClosedOK
  BY <1>1, <1>2, <1>3 DEF ClosedOK
<1>9. InOrder(topic)
  BY <1>1 DEF InOrder
<1>10. StateOK
  BY <1>2 DEF StateOK, Snapshot
<1> QED
  BY <1>4, <1>5, <1>6, <1>7, <1>8, <1>9, <1>10 DEF TopicInv

(* Requests, clocks and decisions leave the table, the gate and the topic
   alone, and announce what they change. *)
LEMMA OtherRequestsStep ==
  ASSUME TypeOK, GateOK, TopicInv,
         \/ CreateRequested \/ ShutdownAsked \/ Tick \/ TryBeginIdleExit \/ Leave
         \/ \E c \in Client : ClientConnected(c) \/ ClientDisconnected(c)
         \/ \E h \in BOOLEAN : HoldSession(h)
         \/ \E id \in Id : CreateRefused(id)
  PROVE  TopicInv'
<1>1. UNCHANGED <<entries, gate, topic, spawned, session>>
  BY DEF CreateRequested, ShutdownAsked, Tick, TryBeginIdleExit, Leave, ClientConnected,
         ClientDisconnected, HoldSession, CreateRefused
<1>2. \/ announced' = Snapshot(clients', held', Live, shutdown')
      \/ UNCHANGED <<clients, held, shutdown, announced>>
  BY DEF CreateRequested, ShutdownAsked, Tick, TryBeginIdleExit, Leave, ClientConnected,
         ClientDisconnected, HoldSession, CreateRefused
<1>3. Quiet
  BY <1>1 DEF Quiet
<1>4. Live' = Live
  BY <1>3, QuietListed DEF Quiet
<1> QED
  BY <1>2, <1>3, <1>4, QuietAnnounces

(* What happens to a session's processes, and an owner that starts, blocks, goes
   on, sends an exit or ends, is seen by nobody before the exit is kept. *)
LEMMA SessionThreadsStep ==
  ASSUME TypeOK, GateOK, TopicInv, NEW i \in Inc,
         \/ ChildExits(i) \/ OwnerStarts(i) \/ OwnerStalls(i) \/ OwnerResumes(i)
         \/ OwnerSeesExit(i) \/ OwnerCloses(i) \/ Escalate(i)
  PROVE  TopicInv'
<1>1. UNCHANGED <<entries, gate, topic, spawned, clients, held, shutdown, announced>>
  BY DEF ChildExits, OwnerStarts, OwnerStalls, OwnerResumes, OwnerSeesExit, OwnerCloses, Escalate, coreVars
<1>2. \A j \in Inc : /\ session'[j].id = session[j].id /\ session'[j].pump = session[j].pump
                     /\ session'[j].exit = session[j].exit /\ session'[j].pumped = session[j].pumped
                     /\ session[j].sent => session'[j].sent
                     /\ session[j].owner = "none" => session'[j].owner = "none"
  <2>1. CASE ChildExits(i) \/ Escalate(i) \/ OwnerStarts(i) \/ OwnerStalls(i)
    BY <2>1 DEF ChildExits, Escalate, OwnerStarts, OwnerStalls, TypeOK, SessionState
  <2>2. CASE OwnerResumes(i) \/ OwnerSeesExit(i)
    BY <2>2 DEF OwnerResumes, OwnerSeesExit, TypeOK, SessionState
  <2>3. CASE OwnerCloses(i)
    <3>1. PICK after \in {"dead", "termed"} :
            session' = [session EXCEPT ![i].child = after, ![i].owner = "ended"]
      BY <2>3 DEF OwnerCloses
    <3>2. session[i].owner # "none"
      BY <2>3 DEF OwnerCloses
    <3> QED
      BY <3>1, <3>2 DEF TypeOK, SessionState
  <2> QED
    BY <2>1, <2>2, <2>3
<1>3. Quiet
  BY <1>1, <1>2 DEF Quiet
<1> QED
  BY <1>1, <1>3, QuietAnnounces

LEMMA NextTopicInv == IInv /\ TopicInv /\ [Next]_vars => TopicInv'
<1> SUFFICES ASSUME TypeOK, GateOK, PumpedAreNamed, SessionsOK, TopicInv, [Next]_vars PROVE TopicInv'
  BY DEF IInv
<1>1. CASE Request
  BY <1>1, OtherRequestsStep, ShutdownForcedStep, CloseBeginStep DEF Request
<1>2. CASE GateStep
  BY <1>2, OtherRequestsStep, CreateBeginStep, CreateSpawnFailedStep, CreateSpawnStep,
     CreateInsertStep, CreatePublishStep, CloseDoneStep, ShutdownCloseNextStep,
     ShutdownFinishStep DEF GateStep
<1>3. CASE Tick \/ TryBeginIdleExit \/ Leave
  BY <1>3, OtherRequestsStep
<1>4. ASSUME NEW i \in Inc,
             \/ ChildExits(i) \/ OwnerStarts(i) \/ OwnerStalls(i) \/ OwnerResumes(i)
             \/ OwnerStep(i) \/ Escalate(i) \/ PumpPublishes(i)
      PROVE  TopicInv'
  BY <1>4, SessionThreadsStep, OwnerKeepsExitStep, PumpPublishesStep DEF OwnerStep
<1>5. CASE UNCHANGED vars
  <2>1. Quiet /\ UNCHANGED <<clients, held, shutdown, announced>>
    BY <1>5 DEF Quiet, vars, coreVars
  <2> QED
    BY <2>1, QuietAnnounces
<1> QED
  BY <1>1, <1>2, <1>3, <1>4, <1>5 DEF Next

LEMMA TopicInvariant == Spec => [](IInv /\ TopicInv)
<1>1. Init => IInv /\ TopicInv
  BY InitIInv, InitTopicInv
<1>2. IInv /\ TopicInv /\ [Next]_vars => (IInv /\ TopicInv)'
  <2>1. IInv /\ [Next]_vars => IInv'
    BY TypeStep, GateStepOK, PumpStep, SessionsStep, LeavingOKStep, LeavingStep, ForgottenStep DEF IInv
  <2> QED
    BY <2>1, NextTopicInv
<1> QED
  BY <1>1, <1>2, PTL DEF Spec

(* On term.sessions nothing about a session precedes its Created, and it has
   at most one Exited and one Closed (SessionTable::create starts the pump
   last; the owner sends an exit once; a session is taken from the table once). *)
THEOREM TopicIsInOrder == Spec => []EventsInOrder
<1>1. IInv /\ TopicInv => EventsInOrder
  BY DEF TopicInv, InOrder, EventsInOrder
<1> QED
  BY <1>1, TopicInvariant, PTL

(* host.state says what is true once no operation is half done and every exit
   was pumped: each change ends in broadcast_locked. *)
THEOREM AnnouncementIsCurrent == Spec => []AnnouncedIsCurrent
<1>1. IInv /\ TopicInv => AnnouncedIsCurrent
  <2> SUFFICES ASSUME TypeOK, TopicInv, gate = Free,
                      \A i \in Listed : session[i].sent => session[i].pumped
               PROVE  announced = Snapshot(clients, held, Live, shutdown)
    BY DEF IInv, AnnouncedIsCurrent
  <2>1. gate.op = "free"
    BY DEF Free
  <2>2. \A i \in Listed : ~Pending(i)
    BY DEF Pending
  <2>3. /\ announced.live = Live /\ announced.clients = clients /\ announced.held = held
        /\ announced.draining = shutdown
    BY <2>1, <2>2 DEF TopicInv, StateOK
  <2>4. announced \in Announcement
    BY DEF TypeOK
  <2> QED
    BY <2>3, <2>4 DEF Announcement, Snapshot
<1> QED
  BY <1>1, TopicInvariant, PTL
=============================================================================
