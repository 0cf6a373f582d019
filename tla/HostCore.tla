------------------------------ MODULE HostCore ------------------------------
(***************************************************************************)
(* The state one sirio-host process keeps about its clients and sessions   *)
(* (crates/sirio_host: core.rs, sessions.rs, and the serving half of       *)
(* lifecycle.rs), with the part of a session's owner thread that decides   *)
(* how the session ends (crates/sirio_term_session/src/owner.rs).          *)
(*                                                                         *)
(* Threads and what serialises them.  `gate` is the mutex                  *)
(* HostCore::lifecycle together with the operation that holds it: session  *)
(* creation, a close, a forced shutdown.  Everything else runs between its *)
(* steps: clients come and go (under the counters mutex), owner threads    *)
(* see their child exit or block in a PTY write, pump threads publish what *)
(* the owners sent, SIGKILL timers fire, and the main thread leaves.       *)
(*                                                                         *)
(* A session id can be used again after a close, so ids are kept apart     *)
(* from incarnations: incarnation i is the i-th session ever spawned.      *)
(* A counter in the code (clients, live sessions) is here the set it       *)
(* counts.                                                                 *)
(***************************************************************************)
EXTENDS Naturals, Sequences

CONSTANTS
  Client,          \* connections that may be opened to this host
  Id,              \* session ids clients may ask for
  None,            \* "no incarnation", "no id"
  MaxInc,          \* bound: sessions spawned over the host's life
  MaxHeld,         \* bound: sessions held by host.debug.hold_session
  MaxWorkers,      \* bound: term.create requests in flight
  Grace,           \* the idle grace, in ticks of the idle clock
  OnDemand,        \* HostMode::OnDemand (TRUE) or HostMode::Service (FALSE)
  CanStall,        \* an owner may block in a PTY write (a child that stopped reading)
  CanIgnoreTerm    \* a session's process groups may ignore SIGTERM and SIGHUP

ASSUME HostCoreAssumption ==
  /\ MaxInc \in Nat /\ MaxHeld \in Nat
  /\ MaxWorkers \in Nat /\ Grace \in Nat
  /\ OnDemand \in BOOLEAN /\ CanStall \in BOOLEAN /\ CanIgnoreTerm \in BOOLEAN
  /\ None \notin Id /\ None \notin Nat

VARIABLES
  clients,    \* Counters.clients: the connections counted
  held,       \* Counters.held_sessions
  idle,       \* ticks since Counters.last_activity, at most Grace
  shutdown,   \* HostCore.shutdown
  left,       \* the process is gone
  entries,    \* SessionTable.entries: id -> incarnation
  spawned,    \* sessions spawned so far
  session,    \* incarnation -> its owner thread and its child
  workers,    \* term.create requests whose thread has not entered the gate
  gate,       \* HostCore.lifecycle: who holds it and how far it is
  announced,  \* the last host.state event
  topic       \* every term.sessions event published, in order

coreVars == <<clients, held, idle, shutdown, left, entries, workers, gate, announced, topic>>
vars == <<coreVars, spawned, session>>

Inc == 1..MaxInc

(***************************************************************************)
(* A session: `id` names it, `child` is its process groups ("termed": told *)
(* to end with SIGTERM, the SIGKILL timer running), `owner` its owner      *)
(* thread, `sent` whether the owner sent Event::Exited and `exit` whether  *)
(* wait_state holds the exit, `close` whether the owner has a reason to    *)
(* end the session (Command::Close, or the handle was dropped), `pump`     *)
(* whether its pump thread was started, `pumped` whether that published    *)
(* the exit.  `givenUp` is a history: the host went on, after 5 s, without *)
(* an answer of this owner (Session::spawn, Session::close).  An owner     *)
(* sends its pump other events too (title, foreground, program, status):   *)
(* they pass in the same order, change nothing here and are left out.      *)
(***************************************************************************)
SessionState == [ id     : Id \cup {None},
                  child  : {"none", "alive", "termed", "dead"},
                  owner  : {"none", "starting", "running", "stalled", "ended"},
                  sent   : BOOLEAN,
                  exit   : BOOLEAN,
                  close  : BOOLEAN,
                  givenUp : BOOLEAN,
                  pump   : BOOLEAN,
                  pumped : BOOLEAN ]

NoSession == [ id |-> None, child |-> "none", owner |-> "none", sent |-> FALSE, exit |-> FALSE,
               close |-> FALSE, givenUp |-> FALSE, pump |-> FALSE, pumped |-> FALSE ]

TopicEvent == [ type : {"Created", "Exited", "Closed"}, id : Id, inc : Inc ]

GateState == [ op   : {"free", "create", "close", "shutdown"},
               step : {"free", "spawn", "insert", "publish", "wait", "next"},
               id   : Id \cup {None},
               inc  : Inc \cup {None},
               rest : SUBSET (Id \X Inc) ]

Free == [ op |-> "free", step |-> "free", id |-> None, inc |-> None, rest |-> {} ]

(* SessionTable::live: the listed sessions whose wait(0) answers None. *)
Listed == { entries[id] : id \in Id } \ {None}
Live   == { i \in Listed : ~session[i].exit }

(* HostCore::snapshot, what a host.state event says. *)
Snapshot(c, h, live, draining) ==
  [ clients |-> c, held |-> h, live |-> live, draining |-> draining ]

Announcement == [ clients : SUBSET Client, held : 0..MaxHeld,
                  live : SUBSET Inc, draining : BOOLEAN ]

Init ==
  /\ clients = {} /\ held = 0 /\ idle = 0 /\ shutdown = FALSE /\ left = FALSE
  /\ entries = [id \in Id |-> None]
  /\ spawned = 0
  /\ session = [i \in Inc |-> NoSession]
  /\ workers = 0
  /\ gate = Free
  /\ announced = Snapshot({}, 0, {}, FALSE)
  /\ topic = << >>

-----------------------------------------------------------------------------
(* Clients. *)

(* Mutated: connecting does not look at the shutdown flag. *)
ClientConnected_Late(c) ==
  /\ ~left /\ c \notin clients
  /\ clients' = clients \cup {c}
  /\ idle' = 0
  /\ announced' = Snapshot(clients', held, Live, shutdown)
  /\ UNCHANGED <<held, shutdown, left, entries, workers, gate, topic, spawned, session>>

(* HostCore::client_connected: a connection is counted, and is activity,
   unless the host has decided to leave. *)
ClientConnected(c) ==
  /\ ~left /\ ~shutdown
  /\ c \notin clients
  /\ clients' = clients \cup {c}
  /\ idle' = 0
  /\ announced' = Snapshot(clients', held, Live, shutdown)
  /\ UNCHANGED <<held, shutdown, left, entries, workers, gate, topic, spawned, session>>

(* HostCore::client_disconnected: the end of serve, whatever ended it. *)
ClientDisconnected(c) ==
  /\ ~left
  /\ c \in clients
  /\ clients' = clients \ {c}
  /\ idle' = 0
  /\ announced' = Snapshot(clients', held, Live, shutdown)
  /\ UNCHANGED <<held, shutdown, left, entries, workers, gate, topic, spawned, session>>

(* Mutated: releasing subtracts without saturating. *)
HoldSession_Underflow(holding) ==
  /\ ~left /\ gate = Free /\ clients # {}
  /\ IF holding
       THEN ~shutdown /\ held < MaxHeld /\ held' = held + 1
       ELSE held' = held - 1
  /\ idle' = 0
  /\ announced' = Snapshot(clients, held', Live, shutdown)
  /\ UNCHANGED <<clients, shutdown, left, entries, workers, gate, topic, spawned, session>>

(* HostCore::hold_session, the debug stand-in for a session. *)
HoldSession(holding) ==
  /\ ~left /\ gate = Free /\ clients # {}
  /\ IF holding
       THEN ~shutdown /\ held < MaxHeld /\ held' = held + 1
       ELSE held' = IF held = 0 THEN 0 ELSE held - 1
  /\ idle' = 0
  /\ announced' = Snapshot(clients, held', Live, shutdown)
  /\ UNCHANGED <<clients, shutdown, left, entries, workers, gate, topic, spawned, session>>

-----------------------------------------------------------------------------
(* Session creation, SessionTable::create.  serve_off_thread gives the      *)
(* request a thread of its own, which outlives the connection.              *)

CreateRequested ==
  /\ ~left /\ clients # {} /\ workers < MaxWorkers
  /\ workers' = workers + 1
  /\ UNCHANGED <<clients, held, idle, shutdown, left, entries, gate, announced, topic,
                 spawned, session>>

(* The host is leaving, or the id is taken: the request is refused. *)
CreateRefused(id) ==
  /\ ~left /\ gate = Free /\ workers > 0
  /\ shutdown \/ entries[id] # None
  /\ workers' = workers - 1
  /\ UNCHANGED <<clients, held, idle, shutdown, left, entries, gate, announced, topic,
                 spawned, session>>

(* Mutated: draining is not looked at once the gate is got. *)
CreateBegin_WhileLeaving(id) ==
  /\ ~left /\ gate = Free /\ workers > 0
  /\ entries[id] = None
  /\ workers' = workers - 1
  /\ gate' = [Free EXCEPT !.op = "create", !.step = "spawn", !.id = id]
  /\ UNCHANGED <<clients, held, idle, shutdown, left, entries, announced, topic,
                 spawned, session>>

CreateBegin(id) ==
  /\ ~left /\ gate = Free /\ workers > 0
  /\ ~shutdown /\ entries[id] = None
  /\ workers' = workers - 1
  /\ gate' = [Free EXCEPT !.op = "create", !.step = "spawn", !.id = id]
  /\ UNCHANGED <<clients, held, idle, shutdown, left, entries, announced, topic,
                 spawned, session>>

(* Session::spawn failed before there was an owner: a bad working directory,
   no PTY, no program. *)
CreateSpawnFailed ==
  /\ ~left /\ gate.op = "create" /\ gate.step = "spawn"
  /\ gate' = Free
  /\ UNCHANGED <<clients, held, idle, shutdown, left, entries, workers, announced, topic,
                 spawned, session>>

(* Mutated: the pump is started with the session, before Created is out. *)
CreateSpawn_PumpsEarly ==
  /\ ~left /\ gate.op = "create" /\ gate.step = "spawn"
  /\ spawned < MaxInc
  /\ spawned' = spawned + 1
  /\ session' = [session EXCEPT ![spawned'] =
                   [NoSession EXCEPT !.id = gate.id, !.child = "alive", !.owner = "running",
                                     !.pump = TRUE]]
  /\ gate' = [gate EXCEPT !.step = "insert", !.inc = spawned']
  /\ UNCHANGED <<clients, held, idle, shutdown, left, entries, workers, announced, topic>>

CreateSpawn ==
  /\ ~left /\ gate.op = "create" /\ gate.step = "spawn"
  /\ spawned < MaxInc
  /\ spawned' = spawned + 1
  /\ session' = [session EXCEPT ![spawned'] =
                   [NoSession EXCEPT !.id = gate.id, !.child = "alive", !.owner = "running"]]
  /\ gate' = [gate EXCEPT !.step = "insert", !.inc = spawned']
  /\ UNCHANGED <<clients, held, idle, shutdown, left, entries, workers, announced, topic>>

(* Mutated: the caller's error path keeps the command sender alive. *)
CreateSpawnTimesOut_Leaks ==
  /\ ~left /\ gate.op = "create" /\ gate.step = "spawn"
  /\ spawned < MaxInc
  /\ spawned' = spawned + 1
  /\ session' = [session EXCEPT ![spawned'] =
                   [NoSession EXCEPT !.id = gate.id, !.child = "alive", !.owner = "starting",
                                     !.givenUp = TRUE]]
  /\ gate' = Free
  /\ UNCHANGED <<clients, held, idle, shutdown, left, entries, workers, announced, topic>>

(* Session::spawn failed with "session owner did not start": the child runs,
   the owner thread has not finished its start after 5 s.  The error drops the
   command sender and nothing is listed; once the owner is in its loop it finds
   the channel disconnected, which ends the session as a Close does. *)
CreateSpawnTimesOut ==
  /\ ~left /\ gate.op = "create" /\ gate.step = "spawn"
  /\ spawned < MaxInc
  /\ spawned' = spawned + 1
  /\ session' = [session EXCEPT ![spawned'] =
                   [NoSession EXCEPT !.id = gate.id, !.child = "alive", !.owner = "starting",
                                     !.close = TRUE, !.givenUp = TRUE]]
  /\ gate' = Free
  /\ UNCHANGED <<clients, held, idle, shutdown, left, entries, workers, announced, topic>>

CreateInsert ==
  /\ ~left /\ gate.op = "create" /\ gate.step = "insert"
  /\ entries' = [entries EXCEPT ![gate.id] = gate.inc]
  /\ gate' = [gate EXCEPT !.step = "publish"]
  /\ UNCHANGED <<clients, held, idle, shutdown, left, workers, announced, topic,
                 spawned, session>>

(* Mutated: a session that has exited by now gets no pump. *)
CreatePublish_SkipsExited ==
  /\ ~left /\ gate.op = "create" /\ gate.step = "publish"
  /\ topic' = Append(topic, [type |-> "Created", id |-> gate.id, inc |-> gate.inc])
  /\ session' = [session EXCEPT ![gate.inc].pump = ~session[gate.inc].exit]
  /\ idle' = 0
  /\ announced' = Snapshot(clients, held, Live, shutdown)
  /\ gate' = Free
  /\ UNCHANGED <<clients, held, shutdown, left, entries, workers, spawned>>

(* Created goes out, sessions_changed counts it as activity, and the pump
   thread of the session starts. *)
CreatePublish ==
  /\ ~left /\ gate.op = "create" /\ gate.step = "publish"
  /\ topic' = Append(topic, [type |-> "Created", id |-> gate.id, inc |-> gate.inc])
  /\ session' = [session EXCEPT ![gate.inc].pump = TRUE]
  /\ idle' = 0
  /\ announced' = Snapshot(clients, held, Live, shutdown)
  /\ gate' = Free
  /\ UNCHANGED <<clients, held, shutdown, left, entries, workers, spawned>>

-----------------------------------------------------------------------------
(* Ending a session, SessionTable::close and Session::close.                *)

CloseBegin(id) ==
  /\ ~left /\ gate = Free /\ clients # {}
  /\ entries[id] # None
  /\ entries' = [entries EXCEPT ![id] = None]
  /\ session' = [session EXCEPT ![entries[id]].close = TRUE]
  /\ gate' = [Free EXCEPT !.op = "close", !.step = "wait", !.id = id, !.inc = entries[id]]
  /\ UNCHANGED <<clients, held, idle, shutdown, left, workers, announced, topic, spawned>>

(* Mutated: Session::close waits without a limit. *)
CloseAnswered_Unbounded(i) == session[i].owner = "ended"

(* Session::close returns: the owner answered, or 5 s passed because the
   owner is blocked in a write and has not read the command. *)
CloseAnswered(i) == session[i].owner \in {"ended", "stalled"}

(* Session::close does not tell its caller which of the two it was. *)
GoneOn(i) == [session EXCEPT ![i].givenUp = @ \/ session[i].owner # "ended"]

CloseDone ==
  /\ ~left /\ gate.op = "close" /\ gate.step = "wait"
  /\ CloseAnswered(gate.inc)
  /\ session' = GoneOn(gate.inc)
  /\ topic' = Append(topic, [type |-> "Closed", id |-> gate.id, inc |-> gate.inc])
  /\ idle' = 0
  /\ announced' = Snapshot(clients, held, Live, shutdown)
  /\ gate' = Free
  /\ UNCHANGED <<clients, held, shutdown, left, entries, workers, spawned>>

-----------------------------------------------------------------------------
(* Leaving: HostCore::try_shutdown, try_begin_idle_exit, the end of         *)
(* lifecycle::run.                                                          *)

(* host.shutdown without force, refused while a session is live or held. *)
ShutdownAsked ==
  /\ ~left /\ gate = Free /\ clients # {}
  /\ Live = {} /\ held = 0
  /\ shutdown' = TRUE
  /\ announced' = Snapshot(clients, held, Live, TRUE)
  /\ UNCHANGED <<clients, held, idle, left, entries, workers, gate, topic, spawned, session>>

(* host.shutdown {force: true}: close_all empties the table, then closes
   the sessions one by one. *)
ShutdownForced ==
  /\ ~left /\ gate = Free /\ clients # {}
  /\ entries' = [id \in Id |-> None]
  /\ gate' = [Free EXCEPT !.op = "shutdown", !.step = "next",
                          !.rest = { <<id, entries[id]>> : id \in {x \in Id : entries[x] # None} }]
  /\ UNCHANGED <<clients, held, idle, shutdown, left, workers, announced, topic,
                 spawned, session>>

ShutdownCloseNext(e) ==
  /\ ~left /\ gate.op = "shutdown" /\ gate.step = "next"
  /\ e \in gate.rest
  /\ session' = [session EXCEPT ![e[2]].close = TRUE]
  /\ gate' = [gate EXCEPT !.step = "wait", !.id = e[1], !.inc = e[2], !.rest = @ \ {e}]
  /\ UNCHANGED <<clients, held, idle, shutdown, left, entries, workers, announced, topic,
                 spawned>>

ShutdownCloseDone ==
  /\ ~left /\ gate.op = "shutdown" /\ gate.step = "wait"
  /\ CloseAnswered(gate.inc)
  /\ session' = GoneOn(gate.inc)
  /\ topic' = Append(topic, [type |-> "Closed", id |-> gate.id, inc |-> gate.inc])
  /\ gate' = [gate EXCEPT !.step = "next"]
  /\ UNCHANGED <<clients, held, idle, shutdown, left, entries, workers, announced,
                 spawned>>

(* close_all's sessions_changed and the store of the flag. *)
ShutdownFinish ==
  /\ ~left /\ gate.op = "shutdown" /\ gate.step = "next" /\ gate.rest = {}
  /\ shutdown' = TRUE
  /\ idle' = 0
  /\ announced' = Snapshot(clients, held, Live, TRUE)
  /\ gate' = Free
  /\ UNCHANGED <<clients, held, left, entries, workers, topic, spawned, session>>

(* The idle clock.  One tick of it is far longer than the 500 ms after
   which a closed session's groups are killed (60 s against 0.5 s). *)
Tick ==
  /\ ~left /\ ~shutdown /\ idle < Grace
  /\ \A i \in Inc : session[i].child # "termed"
  /\ idle' = idle + 1
  /\ UNCHANGED <<clients, held, shutdown, left, entries, workers, gate, announced, topic,
                 spawned, session>>

(* Mutated: an exited session that nobody closed keeps the host up. *)
TryBeginIdleExit_CountsExited ==
  /\ OnDemand
  /\ ~left /\ gate = Free
  /\ ~shutdown /\ clients = {} /\ held = 0 /\ Listed = {} /\ idle >= Grace
  /\ shutdown' = TRUE
  /\ announced' = Snapshot(clients, held, Live, TRUE)
  /\ UNCHANGED <<clients, held, idle, left, entries, workers, gate, topic, spawned, session>>

TryBeginIdleExit ==
  /\ OnDemand
  /\ ~left /\ gate = Free
  /\ ~shutdown /\ clients = {} /\ held = 0 /\ Live = {} /\ idle >= Grace
  /\ shutdown' = TRUE
  /\ announced' = Snapshot(clients, held, Live, TRUE)
  /\ UNCHANGED <<clients, held, idle, left, entries, workers, gate, topic, spawned, session>>

(* The accept thread has joined and the connections had their 250 ms to
   drain: the process exits, whatever its other threads were doing. *)
Leave ==
  /\ shutdown /\ ~left
  /\ left' = TRUE
  /\ UNCHANGED <<clients, held, idle, shutdown, entries, workers, gate, announced, topic,
                 spawned, session>>

-----------------------------------------------------------------------------
(* A session's own threads. *)

ChildExits(i) ==
  /\ ~left /\ session[i].child = "alive"
  /\ session' = [session EXCEPT ![i].child = "dead"]
  /\ UNCHANGED <<coreVars, spawned>>

(* The owner thread has its terminal, fed the prelude and enters its loop. *)
OwnerStarts(i) ==
  /\ ~left /\ session[i].owner = "starting"
  /\ session' = [session EXCEPT ![i].owner = "running"]
  /\ UNCHANGED <<coreVars, spawned>>

(* The owner blocks in writer.write_all: the child stopped reading its
   terminal and the PTY's buffer is full. *)
OwnerStalls(i) ==
  /\ CanStall
  /\ ~left /\ session[i].owner = "running" /\ session[i].child = "alive"
  /\ session' = [session EXCEPT ![i].owner = "stalled"]
  /\ UNCHANGED <<coreVars, spawned>>

(* The child reads again, or is gone and the write fails. *)
OwnerResumes(i) ==
  /\ ~left /\ session[i].owner = "stalled"
  /\ session' = [session EXCEPT ![i].owner = "running"]
  /\ UNCHANGED <<coreVars, spawned>>

(* The owner is between the two halves of an exit: sent, not yet kept. *)
Keeping(i) == session[i].sent /\ ~session[i].exit

(* The tick that finds try_wait's answer, also the last tick of a session
   told to close: the exit is sent to the pump first... *)
OwnerSeesExit(i) ==
  /\ ~left /\ session[i].owner = "running"
  /\ session[i].child = "dead" /\ ~session[i].sent
  /\ session' = [session EXCEPT ![i].sent = TRUE]
  /\ UNCHANGED <<coreVars, spawned>>

(* ... and kept in wait_state afterwards. *)
OwnerKeepsExit(i) ==
  /\ ~left /\ session[i].owner = "running" /\ Keeping(i)
  /\ session' = [session EXCEPT ![i].exit = TRUE]
  /\ UNCHANGED <<coreVars, spawned>>

(* The owner serves Command::Close, or the dropped handle, after looking for
   an exit a last time: close_session tells every group to end and the thread
   returns. *)
OwnerCloses(i) ==
  /\ ~left /\ session[i].owner = "running" /\ session[i].close
  /\ session[i].child = "dead" => session[i].exit
  /\ \E after \in (IF session[i].child = "dead" THEN {"dead"}
                   ELSE IF CanIgnoreTerm THEN {"dead", "termed"} ELSE {"dead"}) :
       session' = [session EXCEPT ![i].child = after, ![i].owner = "ended"]
  /\ UNCHANGED <<coreVars, spawned>>

(* terminate_process_group's timer: SIGKILL after 500 ms.  The timer is a
   thread of the host. *)
Escalate(i) ==
  /\ ~left /\ session[i].child = "termed"
  /\ session' = [session EXCEPT ![i].child = "dead"]
  /\ UNCHANGED <<coreVars, spawned>>

(* Mutated: an exit is announced without waiting for the wait state. *)
PumpPublishes_Hasty(i) ==
  /\ ~left /\ session[i].pump /\ session[i].sent /\ ~session[i].pumped
  /\ session' = [session EXCEPT ![i].pumped = TRUE]
  /\ idle' = 0
  /\ announced' = Snapshot(clients, held, Live, shutdown)
  /\ topic' = Append(topic, [type |-> "Exited", id |-> session[i].id, inc |-> i])
  /\ UNCHANGED <<clients, held, shutdown, left, entries, workers, gate, spawned>>

(* pump_events takes Exited: it waits for wait_state (a matter of the owner's
   next instructions: the 5 s of the wait do not run out), announces the count
   on host.state, then publishes the exit. *)
PumpPublishes(i) ==
  /\ ~left /\ session[i].pump /\ session[i].sent /\ ~session[i].pumped
  /\ session[i].exit
  /\ session' = [session EXCEPT ![i].pumped = TRUE]
  /\ idle' = 0
  /\ announced' = Snapshot(clients, held, Live, shutdown)
  /\ topic' = Append(topic, [type |-> "Exited", id |-> session[i].id, inc |-> i])
  /\ UNCHANGED <<clients, held, shutdown, left, entries, workers, gate, spawned>>

-----------------------------------------------------------------------------
Request ==
  \/ CreateRequested \/ ShutdownAsked \/ ShutdownForced
  \/ \E c \in Client : ClientConnected(c) \/ ClientDisconnected(c)
  \/ \E h \in BOOLEAN : HoldSession(h)
  \/ \E id \in Id : CloseBegin(id)

GateStep ==
  \/ \E id \in Id : CreateRefused(id) \/ CreateBegin(id)
  \/ CreateSpawnFailed \/ CreateSpawn \/ CreateSpawnTimesOut \/ CreateInsert \/ CreatePublish
  \/ CloseDone
  \/ \E e \in gate.rest : ShutdownCloseNext(e)
  \/ ShutdownCloseDone \/ ShutdownFinish

OwnerStep(i) == OwnerSeesExit(i) \/ OwnerKeepsExit(i) \/ OwnerCloses(i)

Next ==
  \/ Request \/ GateStep \/ Tick \/ TryBeginIdleExit \/ Leave
  \/ \E i \in Inc :
       \/ ChildExits(i) \/ OwnerStarts(i) \/ OwnerStalls(i) \/ OwnerResumes(i)
       \/ OwnerStep(i) \/ Escalate(i) \/ PumpPublishes(i)

(***************************************************************************)
(* Fairness: the threads of the host are scheduled.  A mutex that is free  *)
(* again and again is got by a request that waits for it; the main thread  *)
(* looks at the idle clock every 100 ms, time passes, and it leaves once   *)
(* the flag is set; timers fire and pumps run.  An owner that blocks and   *)
(* is released again and again works through the finite queue in front of  *)
(* a Close (strong fairness).  Nothing is assumed of clients, of the       *)
(* children, or of a write or a start that blocks for good.  That some     *)
(* owner, some pump runs is enough: each has finitely many steps to take.  *)
(***************************************************************************)
Fairness ==
  /\ WF_vars(GateStep)
  /\ WF_vars(Tick \/ TryBeginIdleExit \/ Leave)
  /\ WF_vars(\E i \in Inc : Escalate(i) \/ PumpPublishes(i))
  /\ SF_vars(\E i \in Inc : OwnerStep(i))

Spec == Init /\ [][Next]_vars
FairSpec == Spec /\ Fairness

-----------------------------------------------------------------------------
(* Type invariant of the host's state: the counters are sets of connections and
   listed sessions, and every listed or pumped session was spawned (core.rs). *)
TypeOK ==
  /\ clients \subseteq Client /\ held \in 0..MaxHeld /\ idle \in 0..Grace
  /\ shutdown \in BOOLEAN /\ left \in BOOLEAN
  /\ entries \in [Id -> Inc \cup {None}]
  /\ spawned \in 0..MaxInc
  /\ session \in [Inc -> SessionState]
  /\ workers \in 0..MaxWorkers
  /\ gate \in GateState
  /\ announced \in Announcement
  /\ topic \in Seq(TopicEvent)

(* A host that has decided to leave holds no live session: the decision is
   serialised with session creation, forced or not (core.rs try_shutdown,
   try_begin_idle_exit; sessions.rs create). *)
NoLiveSessionWhileLeaving == shutdown => Live = {}

(* No process is forgotten.  While a session's child runs its owner thread is
   there to end it, and somebody has it in hand: the table lists the session,
   the operation that holds the gate is about to list it, to close it or waits
   for its close - or the host gave up on its owner after 5 s, and then the
   owner was told to end it when it can (spawn drops the handle, close leaves
   its command queued).  Only such a child can outlive the host. *)
NoProcessForgotten ==
  \A i \in Inc : session[i].child = "alive" =>
    /\ session[i].owner # "ended"
    /\ \/ i \in Listed
       \/ gate.op = "create" /\ gate.inc = i
       \/ \E e \in gate.rest : e[2] = i
       \/ gate.step = "wait" /\ gate.inc = i /\ session[i].close
       \/ session[i].givenUp /\ session[i].close
    /\ left => session[i].givenUp

(* What host.state last said is what is true now, once no operation is half
   done and every exit has been pumped: no subscriber is left with an old
   count (every change ends in broadcast_locked). *)
AnnouncedIsCurrent ==
  (gate = Free /\ \A i \in Listed : session[i].sent => session[i].pumped)
    => announced = Snapshot(clients, held, Live, shutdown)

(* On term.sessions nothing about a session precedes its Created, and it has
   at most one Exited and one Closed (create starts the pump last; the owner
   sends an exit once; a session is taken from the table once). *)
EventsInOrder ==
  \A k \in 1..Len(topic) :
    /\ topic[k].type # "Created" =>
         \E j \in 1..(k - 1) : topic[j].type = "Created" /\ topic[j].inc = topic[k].inc
    /\ topic[k].type \in {"Exited", "Closed"} =>
         \A j \in 1..(k - 1) : topic[j] # topic[k]

(* The decision to leave is final, and after it the host takes no client, no
   session and no hold. *)
LeavingTakesNothing ==
  [][shutdown => /\ shutdown'
                 /\ clients' \subseteq clients
                 /\ spawned' = spawned
                 /\ held' <= held]_vars

(* The lifecycle gate is always released: no create, close or shutdown waits
   for ever, not even on owners blocked in a write one after the other (the
   5 s of Session::close), unless the process leaves first. *)
GateIsReleased == []<>(gate = Free \/ left)

(* An on-demand host that stays without clients, holds and live sessions
   leaves (lifecycle::run's idle watcher): it is used again and again, or gone. *)
Unused == clients = {} /\ held = 0 /\ Live = {} /\ workers = 0
UnusedHostLeaves == []<>(~Unused \/ left)

(* An exit that an owner saw is published in the end for whoever heard of the
   session, unless the process leaves first (pump_events).  What was sent or
   published stays so. *)
Published(type, i) == \E k \in 1..Len(topic) : topic[k].type = type /\ topic[k].inc = i
ExitIsPublished ==
  []<>(left \/ \A i \in Inc : session[i].sent /\ Published("Created", i) => Published("Exited", i))

=============================================================================
