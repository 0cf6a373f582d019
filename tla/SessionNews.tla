----------------------------- MODULE SessionNews -----------------------------
(***************************************************************************)
(* How the app learns what a host session does: the events its owner sends *)
(* and its pump publishes on term.sessions (crates/sirio_host/src/         *)
(* sessions.rs), the listing, and the two kinds of subscribers.  A Link is *)
(* a terminal's forward_host (crates/sirio_terminal/src/link.rs), which    *)
(* attaches to the session; a Listener is the app's host_programs thread   *)
(* (crates/sirio/src/host_programs.rs), which only listens.                *)
(*                                                                         *)
(* One id is followed.  It can be used again after a close, so its         *)
(* sessions are numbered; a subscriber sees the id only, and the number an *)
(* event carries here is history.  The program stands for all that a       *)
(* listing and an event both tell (program, status, title).                *)
(***************************************************************************)
EXTENDS Naturals, Sequences

CONSTANTS
  Link, Listener, \* subscribers
  Program,        \* what can hold the terminal besides the shell
  MaxInc,         \* bound: sessions under the id
  MaxChange,      \* bound: changes of the foreground program
  MaxDrop,        \* bound: connections that drop
  None            \* the shell, no session

Consumer == Link \cup Listener

ASSUME SessionNewsAssumption ==
  /\ MaxInc \in Nat /\ MaxChange \in Nat /\ MaxDrop \in Nat
  /\ Link \cap Listener = {} /\ None \notin Program \cup Nat

VARIABLES
  session,   \* session number -> its owner and its pump
  listed,    \* SessionTable.entries: the session the id names
  closing,   \* the session taken from the table whose Closed is not out
  consumer,  \* subscriber -> where it is and what it has told the app
  behind,    \* history: a pump has published after its session was closed
  changes, drops

vars == <<session, listed, closing, consumer, behind, changes, drops>>

Inc == 1..MaxInc

Event == [ type : {"Created", "Program", "Exited", "Closed"}, inc : Inc,
           program : Program \cup {None} ]
News(type, i, program) == [type |-> type, inc |-> i, program |-> program]

(* `exit`: its child has exited.  `pump`: its pump thread was started.
   `sent`: what the owner sent and the pump has not published. *)
SessionState == [ state : {"unborn", "open", "closed"}, exit : BOOLEAN, pump : BOOLEAN,
                  program : Program \cup {None}, sent : Seq(Event) ]
Unborn ==
  [state |-> "unborn", exit |-> FALSE, pump |-> FALSE, program |-> None, sent |-> << >>]
Running(i) == session[i].state = "open" /\ ~session[i].exit

(* What a listing says of the id. *)
Summary == [ program : Program \cup {None}, exit : BOOLEAN ]
NoSummary == [program |-> None, exit |-> FALSE]

(***************************************************************************)
(* `sub`: the host publishes to it.  `queue`: events on their way to it.   *)
(* `open`: a link that has attached before.  `summary`: its last listing.  *)
(* `snapshot`: one is on its way.  `due`: exit_pending.  `ended`: a link's *)
(* exited, a listener's ended.  `shown`: the program the app was told.     *)
(* `at` (the session attached to, or the last one known), `told` (how      *)
(* often the end of each session was told), `late` (an event came that was *)
(* older than the listing) and `revived` (a program came after the end)    *)
(* are history.                                                            *)
(***************************************************************************)
ConsumerState ==
  [ phase : {"off", "subscribed", "listing", "listed", "up", "dropped", "over"}, sub : BOOLEAN,
    queue : Seq(Event), open : BOOLEAN, summary : Summary, snapshot : BOOLEAN,
    due : BOOLEAN, ended : BOOLEAN, shown : Program \cup {None},
    at : Inc \cup {None}, told : [Inc -> 0..2], late : BOOLEAN, revived : BOOLEAN ]
NewConsumer ==
  [ phase |-> "off", sub |-> FALSE, queue |-> << >>, open |-> FALSE, summary |-> NoSummary,
    snapshot |-> FALSE, due |-> FALSE, ended |-> FALSE, shown |-> None, at |-> None,
    told |-> [i \in Inc |-> 0], late |-> FALSE, revived |-> FALSE ]

Init ==
  /\ session = [i \in Inc |-> Unborn] /\ listed = None /\ closing = None
  /\ consumer = [c \in Consumer |-> NewConsumer]
  /\ behind = FALSE /\ changes = 0 /\ drops = 0

(* TopicSinks::publish. *)
Published(e) ==
  [ c \in Consumer |-> IF consumer[c].sub THEN [consumer[c] EXCEPT !.queue = Append(@, e)]
                       ELSE consumer[c] ]

-----------------------------------------------------------------------------
(* The session: sessions.rs create, close and pump_events; owner.rs. *)

(* SessionTable::create puts a session under the id once a close that holds the
   gate has said so, whoever has still to hear of it, *)
Unused == { i \in Inc : session[i].state = "unborn" }
CanInsert == listed = None /\ closing = None /\ Unused # {}
NewSession == CHOOSE i \in Unused : \A j \in Unused : i <= j

Insert ==
  /\ CanInsert
  /\ listed' = NewSession
  /\ session' = [session EXCEPT ![NewSession].state = "open"]
  /\ UNCHANGED <<closing, consumer, behind, changes, drops>>

(* says so, and starts the pump. *)
Announce ==
  /\ listed # None /\ ~session[listed].pump
  /\ session' = [session EXCEPT ![listed].pump = TRUE]
  /\ consumer' = Published(News("Created", listed, None))
  /\ UNCHANGED <<listed, closing, behind, changes, drops>>

(* The tracker names, drops or replaces the program: Update. *)
Change(i, p) ==
  /\ Running(i) /\ session[i].program # p /\ changes < MaxChange
  /\ changes' = changes + 1
  /\ LET over  == IF session[i].program # None /\ p # None
                    THEN <<News("Program", i, None)>> ELSE << >>
     IN session' = [session EXCEPT ![i].program = p,
                                   ![i].sent = @ \o over \o <<News("Program", i, p)>>]
  /\ UNCHANGED <<listed, closing, consumer, behind, drops>>

(* The exit ends the program without an event of its own. *)
Exit(i) ==
  /\ Running(i)
  /\ session' = [session EXCEPT ![i].exit = TRUE, ![i].program = None,
                                ![i].sent = Append(@, News("Exited", i, None))]
  /\ UNCHANGED <<listed, closing, consumer, behind, changes, drops>>

Pump(i) ==
  /\ session[i].pump /\ session[i].sent # << >>
  /\ consumer' = Published(Head(session[i].sent))
  /\ session' = [session EXCEPT ![i].sent = Tail(@)]
  /\ behind' = (behind \/ session[i].state = "closed")
  /\ UNCHANGED <<listed, closing, changes, drops>>

(* close_one: out of the table; closed; said. *)
Remove ==
  /\ listed # None /\ session[listed].pump
  /\ closing' = listed /\ listed' = None
  /\ UNCHANGED <<session, consumer, behind, changes, drops>>

Closed ==
  /\ closing # None
  /\ session' = [session EXCEPT ![closing].state = "closed"]
  /\ consumer' = Published(News("Closed", closing, None))
  /\ closing' = None
  /\ UNCHANGED <<listed, behind, changes, drops>>

-----------------------------------------------------------------------------
(* Subscribers.  What the app is told: an end once, and with it the program's,
   and the program. *)

Told(k, i) ==
  [k EXCEPT !.told[i] = IF @ < 2 THEN @ + 1 ELSE @, !.ended = TRUE, !.shown = None]

(* Mutated: a Closed after an Exited is another end. *)
ToldOnce_Always(k, i) == Told(k, i)

ToldOnce(k, i) == IF k.ended THEN k ELSE Told(k, i)

(* A connection, new or made again, and TermClient::events on it. *)
Subscribe(c) ==
  /\ consumer[c].phase \in {"off", "dropped"} /\ consumer[c].queue = << >>
  /\ consumer' = [consumer EXCEPT ![c].phase = "subscribed", ![c].sub = TRUE]
  /\ UNCHANGED <<session, listed, closing, behind, changes, drops>>

Off(k)  == [k EXCEPT !.phase = "off", !.sub = FALSE, !.queue = << >>]
Over(k) == [k EXCEPT !.phase = "over", !.sub = FALSE, !.queue = << >>]

(* SessionTable::list takes the entries, *)
Lists(c) ==
  /\ consumer[c].phase = "subscribed" /\ listed # None
  /\ consumer' = [consumer EXCEPT ![c].phase = "listing", ![c].at = listed]
  /\ UNCHANGED <<session, listed, closing, behind, changes, drops>>

(* and asks each session: its owner answers, or what it published last does. *)
Says(i) == [program |-> session[i].program, exit |-> session[i].exit]

(* HostLink::open and reconnect_until_attached list before they attach. *)
LinkLists(c) ==
  /\ consumer[c].phase = "listing"
  /\ consumer' = [consumer EXCEPT ![c].phase = "listed", ![c].summary = Says(consumer[c].at)]
  /\ UNCHANGED <<session, listed, closing, behind, changes, drops>>

(* An attach-only open of a session that is gone fails.  A view that had it
   shows an end the subscription brought meanwhile, or that it is lost. *)
LinkMisses(c) ==
  /\ consumer[c].phase = "subscribed" /\ listed = None
  /\ LET k    == consumer[c]
         ends == { n \in 1..Len(k.queue) : k.queue[n].type \in {"Exited", "Closed"} }
     IN consumer' = [consumer EXCEPT ![c] =
          IF ~k.open THEN Off(k)
          ELSE IF ends = {} THEN Over(k)
          ELSE Over(ToldOnce(k, k.queue[CHOOSE n \in ends : \A m \in ends : n <= m].inc))]
  /\ UNCHANGED <<session, listed, closing, behind, changes, drops>>

(* OpenPlan::Create: a session of its own, which has nothing to seed. *)
LinkCreates(c) ==
  /\ consumer[c].phase = "subscribed" /\ ~consumer[c].open /\ CanInsert
  /\ listed' = NewSession
  /\ session' = [session EXCEPT ![NewSession].state = "open"]
  /\ consumer' = [consumer EXCEPT ![c].phase = "listed", ![c].summary = NoSummary]
  /\ UNCHANGED <<closing, behind, changes, drops>>

(* Mutated: a link reports the exit of its listing only from events. *)
Attached_NoExit(k, i) ==
  [k EXCEPT !.phase = "up", !.at = i, !.open = TRUE, !.snapshot = TRUE,
            !.shown = IF @ = None \/ k.open THEN k.summary.program ELSE @]

(* Mutated: after a reconnection only what is there is sent. *)
Attached_SeedsPresent(k, i) ==
  [k EXCEPT !.phase = "up", !.at = i, !.open = TRUE, !.snapshot = TRUE,
            !.due = IF k.open THEN @ ELSE k.summary.exit,
            !.shown = IF k.summary.program # None THEN k.summary.program ELSE @]

(* seed_chunks at the open, with the exit kept for the first snapshot;
   reseed_chunks after a reconnection. *)
Attached(k, i) ==
  [k EXCEPT !.phase = "up", !.at = i, !.open = TRUE, !.snapshot = TRUE,
            !.due = IF k.open THEN @ ELSE k.summary.exit,
            !.shown = IF k.open \/ k.summary.program # None THEN k.summary.program ELSE @]

(* Attached, to whatever the id names by now.  A resumed stream may begin
   without a snapshot. *)
LinkAttaches(c) ==
  /\ consumer[c].phase = "listed" /\ listed # None /\ session[listed].pump
  /\ \E snapshot \in (IF consumer[c].open THEN BOOLEAN ELSE {TRUE}) :
       consumer' = [consumer EXCEPT ![c] =
                      [Attached(consumer[c], listed) EXCEPT !.snapshot = snapshot]]
  /\ UNCHANGED <<session, listed, closing, behind, changes, drops>>

(* Gone between the listing and the attach: tried again from the beginning. *)
LinkRefused(c) ==
  /\ consumer[c].phase = "listed" /\ listed = None
  /\ consumer' = [consumer EXCEPT ![c] = Off(@)]
  /\ UNCHANGED <<session, listed, closing, behind, changes, drops>>

(* The snapshot, and the exit that waited for it. *)
LinkShows(c) ==
  /\ consumer[c].phase = "up" /\ consumer[c].snapshot
  /\ LET k == [consumer[c] EXCEPT !.snapshot = FALSE, !.due = FALSE]
     IN consumer' = [consumer EXCEPT ![c] =
          IF consumer[c].due THEN ToldOnce(k, k.at) ELSE k]
  /\ UNCHANGED <<session, listed, closing, behind, changes, drops>>

(* forward_session_events: Closed is the last a link hears. *)
LinkHears(c) ==
  /\ consumer[c].phase \in {"up", "dropped"} /\ consumer[c].queue # << >>
  /\ LET e == Head(consumer[c].queue)
         k == [consumer[c] EXCEPT !.queue = Tail(@)]
     IN consumer' = [consumer EXCEPT ![c] =
          CASE e.type = "Program" -> [k EXCEPT !.shown = e.program]
            [] e.type = "Exited"  -> ToldOnce(k, e.inc)
            [] e.type = "Closed"  -> Over(ToldOnce(k, e.inc))
            [] e.type = "Created" -> k]
  /\ UNCHANGED <<session, listed, closing, behind, changes, drops>>

(* Mutated: a listing tells no end. *)
Seeded_NoExit(k, i) ==
  [k EXCEPT !.phase = "up", !.shown = Says(i).program, !.ended = @ /\ Says(i).exit]

(* host_programs.rs seed, of the id. *)
Seeded(k, i) ==
  LET s == Says(i)
  IN [ IF s.exit THEN ToldOnce(k, i) ELSE [k EXCEPT !.ended = FALSE]
         EXCEPT !.phase = "up", !.shown = s.program ]

(* The app acts on the listing: what it was told of a session that is not listed
   is lost (apply_host_program_messages). *)
ListenerSeeds(c) ==
  /\ \/ /\ consumer[c].phase = "listing"
        /\ consumer' = [consumer EXCEPT ![c] = Seeded(@, @.at)]
     \/ /\ consumer[c].phase = "subscribed" /\ listed = None
        /\ consumer' = [consumer EXCEPT ![c].phase = "up", ![c].shown = None]
  /\ UNCHANGED <<session, listed, closing, behind, changes, drops>>

(* An event older than what a listing or a creation has told before. *)
Overtaken(k, e) ==
  k.at # None /\ (e.inc < k.at \/ (e.inc = k.at /\ e.type = "Created"))

(* subscribed: only Created lets the id end again. *)
ListenerHears(c) ==
  /\ consumer[c].phase \in {"up", "dropped"} /\ consumer[c].queue # << >>
  /\ LET e == Head(consumer[c].queue)
         k == [consumer[c] EXCEPT !.queue = Tail(@),
                 !.late = @ \/ Overtaken(consumer[c], e),
                 !.revived = @ \/ (e.type = "Program" /\ consumer[c].ended)]
     IN consumer' = [consumer EXCEPT ![c] =
          CASE e.type = "Program"              -> [k EXCEPT !.shown = e.program]
            [] e.type \in {"Exited", "Closed"} -> ToldOnce(k, e.inc)
            [] e.type = "Created"              -> [k EXCEPT !.ended = FALSE, !.at = e.inc]]
  /\ UNCHANGED <<session, listed, closing, behind, changes, drops>>

(* The connection goes, and with it what had not arrived. *)
Drop(c) ==
  /\ consumer[c].sub /\ drops < MaxDrop
  /\ drops' = drops + 1
  /\ IF consumer[c].phase = "up"
       THEN \E n \in 0..Len(consumer[c].queue) :
              consumer' = [consumer EXCEPT ![c].phase = "dropped", ![c].sub = FALSE,
                                           ![c].queue = SubSeq(@, 1, n),
                                           ![c].snapshot = FALSE]
       ELSE consumer' = [consumer EXCEPT ![c] = Off(@)]
  /\ UNCHANGED <<session, listed, closing, behind, changes>>

(* HOST_RECONNECT_GRACE is over: Lost. *)
GivesUp(c) ==
  /\ consumer[c].phase \in {"off", "dropped"} /\ consumer[c].queue = << >> /\ drops > 0
  /\ consumer' = [consumer EXCEPT ![c] = Over(@)]
  /\ UNCHANGED <<session, listed, closing, behind, changes, drops>>

HostStep == Announce \/ Closed \/ \E i \in Inc : Pump(i)

ConsumerStep(c) ==
  \/ Subscribe(c) \/ Lists(c)
  \/ c \in Link /\ (\/ LinkLists(c) \/ LinkMisses(c) \/ LinkAttaches(c) \/ LinkRefused(c)
                    \/ LinkShows(c) \/ LinkHears(c))
  \/ c \in Listener /\ (ListenerSeeds(c) \/ ListenerHears(c))

Next ==
  \/ HostStep \/ Insert \/ Remove
  \/ \E i \in Inc : Exit(i) \/ \E p \in Program \cup {None} : Change(i, p)
  \/ \E c \in Consumer : ConsumerStep(c) \/ Drop(c) \/ GivesUp(c)
  \/ \E c \in Link : LinkCreates(c)

(* Fairness: the host's threads, each of which has finitely many of these steps
   to take, and the subscribers' run.  Nobody has to create, close or exit, and
   no connection has to drop. *)
Fairness ==
  /\ WF_vars(HostStep)
  /\ \A c \in Consumer : WF_vars(ConsumerStep(c))

Spec == Init /\ [][Next]_vars
FairSpec == Spec /\ Fairness

-----------------------------------------------------------------------------
(* Type invariant: nothing is queued for a subscriber without a subscription,
   and a link that is up is attached to a session. *)
TypeOK ==
  /\ session \in [Inc -> SessionState]
  /\ listed \in Inc \cup {None} /\ closing \in Inc \cup {None}
  /\ consumer \in [Consumer -> ConsumerState]
  /\ \A c \in Consumer : consumer[c].phase \in {"off", "over"} => consumer[c].queue = << >>
  /\ \A c \in Link : consumer[c].phase = "up" => consumer[c].at # None
  /\ behind \in BOOLEAN /\ changes \in 0..MaxChange /\ drops \in 0..MaxDrop

(* The app hears one end of a session at most, from whichever of the listing,
   an Exited event or a Closed event comes first (link.rs exited,
   host_programs.rs ended), unless a listing overtook an event of the id: a
   Created that is older than the listing lets the id end again. *)
OneEndPerSession ==
  \A c \in Consumer, i \in Inc :
    ~consumer[c].late => consumer[c].told[i] <= 1

(* Nothing is under way to a subscriber that is up. *)
Quiet(c) ==
  /\ consumer[c].phase = "up" /\ consumer[c].queue = << >> /\ ~consumer[c].snapshot
  /\ \A i \in Inc : session[i].sent = << >>

(* A subscriber that has heard everything has told the app the program that
   holds the terminal, through listings that overtake events and through
   reconnections (reseed_chunks, seed), as long as no pump published after its
   session was closed and no listing told an end ahead of a queued program.  A
   link that told an end has nothing more to say. *)
ProgramIsCurrent ==
  \A c \in Consumer, i \in Inc :
    Quiet(c) /\ ~behind /\ ~consumer[c].revived /\ listed = i /\ Running(i) /\ session[i].pump
    /\ (c \in Link => consumer[c].at = i /\ ~consumer[c].ended)
      => consumer[c].shown = session[i].program

(* A subscriber that has heard everything and whose session has exited has told
   the app, since it last knew the id alive, that it ended: a listener always, a
   link as long as its connection held. *)
EndIsTold ==
  \A c \in Consumer, i \in Inc :
    Quiet(c) /\ listed = i /\ session[i].exit /\ (c \in Link => drops = 0 /\ consumer[c].at = i)
      => consumer[c].ended

(* link.rs: the exit is sent "once, from whichever of the listing, an Exited
   event or a Closed event comes first"; "one before it is in the listing".  A
   link that has heard everything has shown the end of its session. *)
LinkTellsTheEnd ==
  \A c \in Link, i \in Inc :
    Quiet(c) /\ listed = i /\ session[i].exit /\ consumer[c].at = i => consumer[c].ended

(* The end of a session that stays listed reaches the app, unless the listener
   gave up: it is never without it from some point on. *)
EndReachesTheApp ==
  \A c \in Listener, i \in Inc :
    []<>(listed = i /\ session[i].exit => consumer[c].ended \/ consumer[c].phase = "over")
=============================================================================
