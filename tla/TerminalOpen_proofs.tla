------------------------- MODULE TerminalOpen_proofs -------------------------
(***************************************************************************)
(* Safety of TerminalOpen for every set of panes and every bound.          *)
(*                                                                         *)
(* None of the properties is inductive by itself.  Who is still to wake a  *)
(* view rests on slots and workers going together (SlotOK), the one start  *)
(* of a burst on the ensure lock (BurstOK), the absence of a shell beside  *)
(* a session on what a failed ensure knew of the host (NoHostOK), and that *)
(* another's session meets nothing that acts on its id unseen (OthersOK),  *)
(* and what ends a session is under way only where it was asked for        *)
(* (AskedOK).  That a closed tab's session goes rests on who holds its     *)
(* intent (LinkOK, EndOK).                                                 *)
(***************************************************************************)
EXTENDS TerminalOpen, TLAPS

(* A slot is in flight exactly while its worker runs. *)
SlotOK == \A p \in Pane : slots[p].state = "flight" <=> open[p].at # "none"

(* Nothing is opened, and nothing is known of a host, before the startup ends. *)
StartOK ==
  /\ factory = "startup" => /\ route.starts = 0 /\ route.failed = None
                            /\ \A p \in Pane : slots[p].state = "none"
  /\ \A p \in Pane : view[p].state = "taken" \/ view[p].on = "sessions" => factory = "sessions"

(* One worker at a time ensures, and none does while a failed start is fresh. *)
BurstOK ==
  /\ \A p \in Pane : open[p].at = "ensure" => route.lock = p /\ route.starts = 0
  /\ route.starts = 0 \/ (route.starts = 1 /\ BackedOff)

(* An ensure that finds no host answers so when there is none, and then there
   are no sessions; what was answered so has none of its own until it is opened
   again. *)
NoHostOK ==
  /\ route.failed = "nohost" => host = "none"
  /\ host = "none" => late = {} /\ \A p \in Pane : list[p] = "none"
  /\ \A p \in Pane :
       /\ \/ view[p].state = "local"
          \/ slots[p].state = "ready" /\ slots[p].result = "nohost"
          \/ open[p].at = "store" /\ open[p].result = "nohost"
          => list[p] # "ours" /\ p \notin late
       /\ view[p].state \in {"local", "beside"} => slots[p].state = "none"

(* Nothing acts unseen on an id another worktree's session holds, unless that
   session came while something was to. *)
OthersOK ==
  /\ \A l \in links : l.of = "ours" \/ l.pane \in usurped
  /\ \A p \in Pane : list[p] = "others" /\ ActsUnseen(p) => p \in usurped

(* What ends a session is under way only for a pane the user asked it for. *)
AskedOK ==
  /\ \A l \in links : l.ends => l.pane \in asked
  /\ \A p \in Pane :
       /\ view[p].recreate \/ open[p].recreate \/ slots[p].abandoned = "end" => p \in asked
       /\ open[p].at = "close" => open[p].recreate

(* Among `held`, a link of the pane whose owner goes on, and one whose owner is
   to end it. *)
Alive(held, p) == \E l \in held : l.pane = p /\ ~l.ends
Ending(held, p) == \E l \in held : l.pane = p /\ l.ends

(* What was linked has its link until somebody is told, and a slot that is
   empty was not left with one. *)
LinkAt(p) ==
  /\ \/ open[p].at = "store" /\ open[p].result = "linked"
     \/ slots[p].state = "ready" /\ slots[p].result = "linked"
     \/ view[p].state = "running"
     => Alive(links, p)
  /\ view[p].state = "running" => slots[p].state = "none"
  /\ slots[p].state = "none" => slots[p].result # "linked"
LinkOK == \A p \in Pane : LinkAt(p)

(* The intent of a closed tab is with its worker, with a link's owner, or its
   session is gone. *)
EndAt(p) ==
  view[p].state \in {"closed", "ended"} /\ p \notin missed =>
    /\ slots[p].state = "flight" => slots[p].abandoned = "end"
    /\ list[p] = "ours" => slots[p].state = "flight" \/ Ending(links, p)
EndOK == late \subseteq missed /\ \A p \in Pane : EndAt(p)

IInv == /\ TypeOK /\ SlotOK /\ StartOK /\ BurstOK /\ NoHostOK /\ OthersOK /\ AskedOK
        /\ LinkOK /\ EndOK /\ WaitersAreWoken

-----------------------------------------------------------------------------
(* The records that views, slots and workers are set to are of their types. *)
LEMMA GoneType ==
  /\ \A how \in {"absent", "pending", "connecting", "running", "local", "beside",
                 "failed", "taken", "moved", "ended", "closed"} : Gone(how) \in ViewState
  /\ Restored \in ViewState
<1>1. \A how \in {"absent", "pending", "connecting", "running", "local", "beside",
                  "failed", "taken", "moved", "ended", "closed"} : Gone(how) \in ViewState
  BY DEF Gone, ViewState
<1>2. Restored \in ViewState
  BY DEF Restored, Gone, ViewState
<1> QED
  BY <1>1, <1>2

LEMMA NoneType == NoSlot \in Slot /\ NoWorker \in Worker
  BY DEF NoSlot, NoWorker, Slot, Worker, Result

LEMMA TakenType ==
  ASSUME NEW v \in ViewState, NEW r \in Result
  PROVE  Taken(v, r) \in ViewState
  BY DEF Taken, Gone, ViewState, Result

(* What asking the factory leaves is of the types declared. *)
LEMMA AsksType ==
  ASSUME TypeOK, NEW p \in Pane, NEW v \in ViewState, Asks(p, v)
  PROVE  view' \in [Pane -> ViewState] /\ slots' \in [Pane -> Slot] /\ open' \in [Pane -> Worker]
<1>1. Waits(v) \in ViewState
  BY DEF TypeOK, Waits, ViewState
<1>2. CASE view' = [view EXCEPT ![p] = Waits(v)] /\ UNCHANGED <<slots, open>>
  BY <1>1, <1>2 DEF TypeOK
<1>3. CASE /\ view' = [view EXCEPT ![p] = Taken(v, slots[p].result)]
           /\ slots' = [slots EXCEPT ![p] = NoSlot] /\ UNCHANGED open
  <2>1. slots[p].result \in Result
    BY DEF TypeOK, Slot
  <2> QED
    BY <1>3, <2>1, TakenType, NoneType DEF TypeOK
<1>4. CASE view' = [view EXCEPT ![p] = Waits(v)] /\ Spawned(p, v)
  <2>1. /\ [NoSlot EXCEPT !.state = "flight"] \in Slot
        /\ [NoWorker EXCEPT !.at = "connect", !.restore = v.restore, !.recreate = v.recreate] \in Worker
    BY DEF NoSlot, NoWorker, Slot, Worker, Result, ViewState
  <2> QED
    BY <1>1, <1>4, <2>1 DEF TypeOK, Spawned
<1> QED
  BY <1>2, <1>3, <1>4 DEF Asks

LEMMA ToldType ==
  ASSUME links \subseteq Link, NEW p \in Pane, NEW op \in Intent
  PROVE  Told(p, op) \subseteq Link
  BY DEF Told, Link

LEMMA AbandonedType ==
  ASSUME TypeOK, NEW p \in Pane, NEW i \in Intent, Abandoned(p, i)
  PROVE  slots' \in [Pane -> Slot] /\ links' \subseteq Link /\ missed' \subseteq Pane
<1>1. [slots[p] EXCEPT !.abandoned = Merged(slots[p].abandoned, i)] \in Slot
  BY DEF TypeOK, Slot, Merged, Intent
<1>2. Told(p, i) \subseteq Link
  BY ToldType DEF TypeOK
<1> QED
  BY <1>1, <1>2, NoneType DEF TypeOK, Abandoned

(* The views a listing is adopted into, or that are woken, keep their type. *)
LEMMA AdoptedType ==
  ASSUME TypeOK, NEW s \in SUBSET Pane
  PROVE  Adopted(s) \in [Pane -> ViewState]
  BY GoneType DEF TypeOK, Adopted

LEMMA WokenType ==
  ASSUME NEW v \in [Pane -> ViewState]
  PROVE  Woken(v) \in [Pane -> ViewState]
  BY DEF Woken, ViewState

LEMMA WorkerFields ==
  ASSUME NEW w \in Worker,
         NEW a \in {"none", "connect", "wait", "ensure", "close", "list", "create", "attach", "store"},
         NEW b \in BOOLEAN, NEW u \in BOOLEAN
  PROVE  /\ [w EXCEPT !.at = a] \in Worker
         /\ [w EXCEPT !.at = a, !.shares = b, !.up = u] \in Worker
         /\ [w EXCEPT !.shares = b] \in Worker
         /\ [w EXCEPT !.up = u] \in Worker
         /\ \A r \in Result : [w EXCEPT !.at = a, !.result = r] \in Worker
  BY DEF Worker

(* What a worker does next keeps its type. *)
LEMMA GoesType ==
  ASSUME TypeOK, NEW p \in Pane
  PROVE  /\ \A a \in {"wait", "ensure", "list", "create", "attach"} : Goes(p, a) => open' \in [Pane -> Worker]
         /\ \A r \in Result : Answers(p, r) => open' \in [Pane -> Worker]
         /\ Connected(p) => open' \in [Pane -> Worker]
<1> open[p] \in Worker
  BY DEF TypeOK
<1>1. ASSUME NEW a \in {"wait", "ensure", "list", "create", "attach"}, Goes(p, a)
      PROVE  open' \in [Pane -> Worker]
  <2>1. [open[p] EXCEPT !.at = a] \in Worker
    BY WorkerFields
  <2> QED
    BY <1>1, <2>1 DEF TypeOK, Goes
<1>2. ASSUME NEW r \in Result, Answers(p, r)
      PROVE  open' \in [Pane -> Worker]
  <2>1. [open[p] EXCEPT !.at = "store", !.result = r] \in Worker
    BY DEF Worker
  <2> QED
    BY <1>2, <2>1 DEF TypeOK, Answers
<1>3. ASSUME Connected(p)
      PROVE  open' \in [Pane -> Worker]
  <2>1. [open[p] EXCEPT !.at = IF open[p].recreate THEN "close" ELSE "list",
                        !.shares = FALSE, !.up = TRUE] \in Worker
    BY DEF Worker
  <2> QED
    BY <1>3, <2>1 DEF TypeOK, Connected
<1> QED
  BY <1>1, <1>2, <1>3

(* What an ensure leaves of the route. *)
LEMMA RouteType ==
  ASSUME TypeOK
  PROVE  /\ Succeeds => route' \in Route
         /\ \A why \in {"failed"} \cup NoHost : Fails(why) => route' \in Route
<1>1. \A r \in Route : \A b \in BOOLEAN : \A n \in Nat : [r EXCEPT !.fresh = b, !.starts = n] \in Route
  BY DEF Route
<1>2. \A r \in Route : \A f \in {None, "failed"} \cup NoHost : [r EXCEPT !.lock = None, !.failed = f] \in Route
  BY DEF Route
<1>3. \A r \in Route : [r EXCEPT !.current = TRUE] \in Route
  BY DEF Route
<1>4. route \in Route /\ route.starts \in Nat
  BY DEF TypeOK, Route
<1>5. Succeeds => route' \in Route
  <2>1. [route EXCEPT !.current = TRUE] \in Route
    BY <1>3, <1>4
  <2>2. [[route EXCEPT !.current = TRUE] EXCEPT !.lock = None, !.failed = None] \in Route
    BY <1>2, <2>1
  <2>3. [[[route EXCEPT !.current = TRUE] EXCEPT !.lock = None, !.failed = None]
           EXCEPT !.fresh = FALSE, !.starts = 0] \in Route
    BY <1>1, <2>2
  <2> QED
    BY <2>3 DEF Succeeds
<1>6. ASSUME NEW why \in {"failed"} \cup NoHost, Fails(why)
      PROVE  route' \in Route
  <2>1. [route EXCEPT !.lock = None, !.failed = why] \in Route
    BY <1>2, <1>4
  <2>2. /\ (why \in NoHost) \in BOOLEAN
        /\ route.starts + (IF why \in NoHost THEN 1 ELSE 0) \in Nat
    BY <1>4
  <2>3. [[route EXCEPT !.lock = None, !.failed = why]
           EXCEPT !.fresh = why \in NoHost,
                  !.starts = route.starts + (IF why \in NoHost THEN 1 ELSE 0)] \in Route
    BY <1>1, <2>1, <2>2
  <2> QED
    BY <1>6, <2>3 DEF Fails
<1> QED
  BY <1>5, <1>6

(* Every step keeps the types. *)
LEMMA TypeStep == TypeOK /\ [Next]_vars => TypeOK'
<1> SUFFICES ASSUME TypeOK, [Next]_vars PROVE TypeOK'
  OBVIOUS
<1> USE TerminalOpenAssumption DEF TerminalOpenAssumption
<1>1. ASSUME NEW p \in Pane, NewTab(p) PROVE TypeOK'
  BY <1>1, GoneType DEF TypeOK, hostVars, histVars, NewTab, Task
<1>2. ASSUME NEW p \in Pane, Show(p) PROVE TypeOK'
  <2>1. view[p] \in ViewState
    BY DEF TypeOK
  <2> QED
    BY <1>2, <2>1, AsksType DEF TypeOK, Show, hostVars, histVars
<1>3. ASSUME NEW p \in Pane, AsksAgain(p) PROVE TypeOK'
  <2>1. view[p] \in ViewState
    BY DEF TypeOK
  <2> QED
    BY <1>3, <2>1, AsksType DEF TypeOK, AsksAgain, hostVars, histVars
<1>4. ASSUME NEW p \in Pane, Retry(p) PROVE TypeOK'
  <2>1. \A r \in {view[p].recreate, FALSE} : [view[p] EXCEPT !.recreate = r] \in ViewState
    BY DEF TypeOK, ViewState
  <2>2. PICK r \in {view[p].recreate, FALSE} : Asks(p, [view[p] EXCEPT !.recreate = r])
    BY <1>4 DEF Retry
  <2>3. view' \in [Pane -> ViewState] /\ slots' \in [Pane -> Slot] /\ open' \in [Pane -> Worker]
    BY <2>1, <2>2, AsksType
  <2> QED
    BY <1>4, <2>3 DEF TypeOK, Retry, Task, hostVars, histVars
<1>5. ASSUME NEW p \in Pane, Restart(p) PROVE TypeOK'
  <2>1. [view[p] EXCEPT !.recreate = TRUE] \in ViewState
    BY DEF TypeOK, ViewState
  <2>2. Told(p, "end") \subseteq Link
    BY ToldType DEF TypeOK, Intent
  <2> QED
    BY <1>5, <2>1, <2>2, AsksType DEF TypeOK, Restart, Task, hostVars, histVars
<1>6. ASSUME NEW p \in Pane, CloseTab(p) PROVE TypeOK'
  <2>1. view' \in [Pane -> ViewState]
    BY <1>6, GoneType DEF TypeOK, CloseTab
  <2>2. slots' \in [Pane -> Slot] /\ links' \subseteq Link /\ missed' \subseteq Pane
    <3>1. CASE view[p].state = "connecting" /\ view[p].on = "sessions"
      BY <1>6, <3>1, AbandonedType DEF CloseTab, Intent
    <3>2. CASE ~(view[p].state = "connecting" /\ view[p].on = "sessions")
      BY <1>6, <3>2, ToldType DEF TypeOK, CloseTab, Intent
    <3> QED
      BY <3>1, <3>2
  <2> QED
    BY <1>6, <2>1, <2>2 DEF TypeOK, CloseTab, Task, hostVars
<1>7. ASSUME NEW p \in Pane, Drops(p) PROVE TypeOK'
  <2>1. slots' \in [Pane -> Slot] /\ links' \subseteq Link /\ missed' \subseteq Pane
    BY <1>7, AbandonedType DEF Drops, Intent
  <2> QED
    BY <1>7, <2>1, GoneType DEF TypeOK, Drops, hostVars
<1>8. ASSUME NEW p \in Pane, Evict(p) PROVE TypeOK'
  <2>1. slots' \in [Pane -> Slot] /\ links' \subseteq Link /\ missed' \subseteq Pane
    <3>1. CASE view[p].state = "connecting" /\ view[p].on = "sessions"
      BY <1>8, <3>1, AbandonedType DEF Evict, Intent
    <3>2. CASE ~(view[p].state = "connecting" /\ view[p].on = "sessions")
      BY <1>8, <3>2, ToldType DEF TypeOK, Evict, Intent
    <3> QED
      BY <3>1, <3>2
  <2>2. view' \in [Pane -> ViewState]
    BY <1>8, GoneType DEF TypeOK, Evict
  <2>3. tasks' \in 0..MaxTask
    BY <1>8 DEF TypeOK, Evict, Task
  <2> QED
    BY <1>8, <2>1, <2>2, <2>3 DEF TypeOK, Evict, hostVars
<1>9. ASSUME NEW p \in Pane, CreatesLate(p) PROVE TypeOK'
  BY <1>9 DEF TypeOK, hostVars, histVars, CreatesLate
<1>10. ASSUME NEW p \in Pane, Connects(p) PROVE TypeOK'
  <2>1. open' \in [Pane -> Worker]
    BY <1>10, GoesType DEF Connects
  <2> QED
    BY <1>10, <2>1 DEF TypeOK, Connects, hostVars, histVars
<1>11. ASSUME NEW p \in Pane, Locks(p) PROVE TypeOK'
  <2>1. open' \in [Pane -> Worker]
    <3>1. Held(p) => route.failed \in Result
      BY DEF TypeOK, Held, BackedOff, NoHost, Route, Result
    <3> QED
      BY <1>11, <3>1, GoesType DEF Locks
  <2>2. [route EXCEPT !.lock = p] \in Route
    BY DEF TypeOK, Route
  <2> QED
    BY <1>11, <2>1, <2>2 DEF TypeOK, Locks, hostVars, histVars
<1>12. ASSUME NEW p \in Pane, NEW kind \in Result, Ensures(p, kind) PROVE TypeOK'
  <2>1. host' \in {"up", "none", "silent"} /\ kind \in {"linked", "nohost", "half", "failed"}
    BY <1>12 DEF TypeOK, Ensures, Ensured
  <2>2. route' \in Route
    BY <1>12, <2>1, RouteType DEF Ensures, NoHost
  <2>3. open' \in [Pane -> Worker]
    <3>1. CASE kind = "linked"
      BY <1>12, <3>1, GoesType DEF Ensures
    <3>2. CASE kind # "linked"
      <4>1. Shared \in [Pane -> Worker]
        BY DEF TypeOK, Shared, Worker
      <4>2. [Shared[p] EXCEPT !.at = "store", !.result = kind] \in Worker
        BY <4>1 DEF Worker
      <4> QED
        BY <1>12, <3>2, <4>1, <4>2 DEF Ensures
    <3> QED
      BY <3>1, <3>2
  <2>4. news' \in Seq(SUBSET Pane)
    <3>1. Mine \in SUBSET Pane
      BY DEF Mine
    <3>2. Append(news, Mine) \in Seq(SUBSET Pane)
      BY <3>1 DEF TypeOK
    <3> QED
      BY <1>12, <3>2 DEF TypeOK, Ensures
  <2> QED
    BY <1>12, <2>1, <2>2, <2>3, <2>4 DEF TypeOK, Ensures, histVars
<1>13. ASSUME NEW p \in Pane, Closes(p) PROVE TypeOK'
  <2>1. open' \in [Pane -> Worker]
    BY <1>13, GoesType DEF Closes
  <2> QED
    BY <1>13, <2>1 DEF TypeOK, Closes, histVars
<1>14. ASSUME NEW p \in Pane, Lists(p) PROVE TypeOK'
  <2>1. open' \in [Pane -> Worker]
    BY <1>14, GoesType DEF Lists, Result
  <2> QED
    BY <1>14, <2>1 DEF TypeOK, Lists, hostVars, histVars
<1>15. ASSUME NEW p \in Pane, Creates(p) PROVE TypeOK'
  <2>1. open' \in [Pane -> Worker]
    BY <1>15, GoesType DEF Creates, Result
  <2> QED
    BY <1>15, <2>1 DEF TypeOK, Creates
<1>16. ASSUME NEW p \in Pane, Attaches(p) PROVE TypeOK'
  <2>1. open' \in [Pane -> Worker]
    BY <1>16, GoesType DEF Attaches, Result
  <2>2. list[p] # "none" => [pane |-> p, of |-> list[p], conn |-> "up", ends |-> FALSE] \in Link
    BY DEF TypeOK, Link
  <2> QED
    BY <1>16, <2>1, <2>2 DEF TypeOK, Attaches, hostVars, histVars
<1>17. ASSUME NEW p \in Pane, Stores(p) PROVE TypeOK'
  <2>1. [NoSlot EXCEPT !.state = "ready", !.result = open[p].result] \in Slot
    BY DEF TypeOK, Worker, NoSlot, Slot
  <2>2. slots[p].abandoned # None => Told(p, slots[p].abandoned) \subseteq Link
    BY ToldType DEF TypeOK, Slot
  <2> QED
    BY <1>17, <2>1, <2>2, NoneType, WokenType DEF TypeOK, Stores, hostVars
<1>18. ASSUME NEW p \in Pane, NEW q \in Pane, Rebind(p, q) PROVE TypeOK'
  <2> view[p] \in ViewState
    BY <1>18 DEF TypeOK
  <2>1. Waits(view[p]) \in ViewState /\ Gone("moved") \in ViewState
    <3>1. Waits(view[p]) \in ViewState
      BY DEF TypeOK, Waits, ViewState
    <3> QED
      BY <3>1, GoneType
  <2>2. /\ [NoSlot EXCEPT !.state = "flight"] \in Slot
        /\ [NoWorker EXCEPT !.at = "connect", !.restore = view[p].restore,
                             !.recreate = view[p].recreate] \in Worker
    BY DEF TypeOK, NoSlot, NoWorker, Slot, Worker, Result, ViewState
  <2> QED
    BY <1>18, <2>1, <2>2 DEF TypeOK, Rebind, Spawned, hostVars
<1>19. ASSUME NEW kind \in Result, StartupEnds(kind) PROVE TypeOK'
  <2>1. host' \in {"up", "none", "silent"} /\ kind \in {"linked", "nohost", "half", "failed"}
    BY <1>19 DEF TypeOK, StartupEnds, Ensured
  <2>2. route' \in Route
    BY <1>19, <2>1, RouteType DEF TypeOK, StartupEnds, NoHost
  <2>3. view' \in [Pane -> ViewState]
    <3>1. Adopted(Mine) \in [Pane -> ViewState]
      BY AdoptedType DEF Mine
    <3> QED
      BY <1>19, <3>1, WokenType DEF TypeOK, StartupEnds
  <2> QED
    BY <1>19, <2>1, <2>2, <2>3 DEF TypeOK, StartupEnds, histVars
<1>20. CASE Adopts
  <2>1. Head(news) \in SUBSET Pane /\ Tail(news) \in Seq(SUBSET Pane)
    BY <1>20 DEF TypeOK, Adopts
  <2> QED
    BY <1>20, <2>1, AdoptedType DEF TypeOK, Adopts, hostVars, histVars
<1>21. CASE Lapses
  BY <1>21 DEF TypeOK, hostVars, histVars, Lapses, Route
<1>22. ASSUME NEW l \in links, OwnerEnds(l) PROVE TypeOK'
  BY <1>22 DEF TypeOK, hostVars, histVars, OwnerEnds, Link
<1>23. ASSUME NEW l \in links, Reconnects(l) PROVE TypeOK'
  <2>1. /\ [l EXCEPT !.conn = "lost"] \in Link
        /\ list[l.pane] # "none" => [l EXCEPT !.conn = "up", !.of = list[l.pane]] \in Link
    BY DEF TypeOK, Link
  <2> QED
    BY <1>23, <2>1 DEF TypeOK, Reconnects, hostVars, histVars
<1>24. ASSUME NEW dies \in BOOLEAN, Cut(dies) PROVE TypeOK'
  <2>1. open' \in [Pane -> Worker]
    BY <1>24, WorkerFields DEF TypeOK, Cut
  <2>2. links' \subseteq Link
    <3>1. \A l \in Link : [l EXCEPT !.conn = "down"] \in Link
      BY DEF Link
    <3> QED
      BY <1>24, <3>1 DEF TypeOK, Cut
  <2>3. route' \in Route
    BY <1>24 DEF TypeOK, Cut, Route
  <2> QED
    BY <1>24, <2>1, <2>2, <2>3 DEF TypeOK, Cut, Fault, hostVars, histVars
<1>25. CASE FallsSilent
  BY <1>25 DEF TypeOK, hostVars, histVars, FallsSilent, Fault
<1>26. CASE AnswersAgain
  BY <1>26 DEF TypeOK, hostVars, histVars, AnswersAgain
<1>27. CASE UNCHANGED vars
  BY <1>27 DEF TypeOK, vars, hostVars, histVars
<1>28. ASSUME NEW p \in Pane, AnotherCreates(p) PROVE TypeOK'
  BY <1>28 DEF TypeOK, AnotherCreates, Fault
<1> QED
  BY <1>1, <1>2, <1>3, <1>4, <1>5, <1>6, <1>7, <1>8, <1>9, <1>10, <1>11, <1>12, <1>13, <1>14,
     <1>15, <1>16, <1>17, <1>18, <1>19, <1>20, <1>21, <1>22, <1>23, <1>24, <1>25, <1>26, <1>27,
     <1>28
     DEF Next, WorkerStep

-----------------------------------------------------------------------------
(* What a step does to the fields the invariants speak of. *)
LEMMA NoneFields ==
  /\ NoSlot.state = "none" /\ NoSlot.abandoned = None
  /\ NoWorker.at = "none" /\ ~NoWorker.recreate
  BY DEF NoSlot, NoWorker

LEMMA GoneFields ==
  /\ \A how \in {"absent", "pending", "running", "local", "beside", "moved", "ended", "closed"} :
                         /\ Gone(how).state = how /\ ~Gone(how).recreate
                         /\ Gone(how).on = None /\ ~Gone(how).woken
  /\ Restored.state = "pending" /\ ~Restored.recreate /\ Restored.on = None
  BY DEF Gone, Restored

LEMMA AsksFields ==
  ASSUME TypeOK, NEW p \in Pane, NEW v \in ViewState, Asks(p, v)
  PROVE  /\ \A q \in Pane \ {p} : view'[q] = view[q] /\ slots'[q] = slots[q] /\ open'[q] = open[q]
         /\ \/ /\ factory = "startup" \/ slots[p].state = "flight"
               /\ view'[p].state = "connecting" /\ view'[p].on = factory
               /\ (view'[p].recreate <=> v.recreate)
               /\ slots' = slots /\ open' = open
            \/ /\ factory = "sessions" /\ slots[p].state = "ready"
               /\ view'[p].state = IF slots[p].result = "linked" THEN "running"
                                   ELSE IF slots[p].result = "nohost" THEN "local"
                                   ELSE IF slots[p].result = "half" THEN "beside" ELSE slots[p].result
               /\ slots[p].result \in {"linked", "nohost", "half", "failed", "taken"}
               /\ view'[p].on = None /\ (view'[p].recreate => v.recreate)
               /\ slots'[p] = NoSlot /\ open' = open
            \/ /\ factory = "sessions" /\ slots[p].state = "none"
               /\ view'[p].state = "connecting" /\ view'[p].on = factory
               /\ (view'[p].recreate <=> v.recreate)
               /\ slots'[p].state = "flight" /\ slots'[p].abandoned = None
               /\ open'[p].at = "connect" /\ (open'[p].recreate <=> v.recreate)
<1>1. /\ Waits(v).state = "connecting" /\ Waits(v).on = factory /\ (Waits(v).recreate <=> v.recreate)
  BY DEF Waits, ViewState
<1>2. CASE /\ factory = "startup" \/ slots[p].state = "flight"
           /\ view' = [view EXCEPT ![p] = Waits(v)] /\ UNCHANGED <<slots, open>>
  BY <1>1, <1>2 DEF TypeOK
<1>3. CASE /\ factory = "sessions" /\ slots[p].state = "ready"
           /\ view' = [view EXCEPT ![p] = Taken(v, slots[p].result)]
           /\ slots' = [slots EXCEPT ![p] = NoSlot] /\ UNCHANGED open
  <2>1. slots[p].result \in Result
    BY DEF TypeOK, Slot
  <2>2. \A r \in Result :
          /\ Taken(v, r).state = IF r = "linked" THEN "running" ELSE IF r = "nohost" THEN "local"
                                  ELSE IF r = "half" THEN "beside" ELSE r
          /\ Taken(v, r).on = None /\ (Taken(v, r).recreate => v.recreate)
    BY DEF Taken, Gone, ViewState, Result
  <2> QED
    BY <1>3, <2>1, <2>2 DEF TypeOK, Result
<1>4. CASE /\ factory = "sessions" /\ slots[p].state = "none"
           /\ view' = [view EXCEPT ![p] = Waits(v)] /\ Spawned(p, v)
  <2>1. /\ [NoSlot EXCEPT !.state = "flight"].state = "flight"
        /\ [NoSlot EXCEPT !.state = "flight"].abandoned = None
        /\ [NoWorker EXCEPT !.at = "connect", !.restore = v.restore, !.recreate = v.recreate].at = "connect"
        /\ [NoWorker EXCEPT !.at = "connect", !.restore = v.restore, !.recreate = v.recreate].recreate
             <=> v.recreate
    BY DEF NoSlot, NoWorker
  <2> QED
    BY <1>1, <1>4, <2>1 DEF TypeOK, Spawned
<1> QED
  BY <1>2, <1>3, <1>4 DEF Asks

LEMMA AbandonedFields ==
  ASSUME TypeOK, NEW p \in Pane, NEW i \in Intent, Abandoned(p, i)
  PROVE  /\ \A q \in Pane \ {p} : slots'[q] = slots[q]
         /\ slots'[p].state = IF slots[p].state = "flight" THEN "flight" ELSE "none"
         /\ slots'[p].abandoned = "end" => i = "end" \/ slots[p].abandoned = "end"
<1>1. CASE slots[p].state = "flight"
  <2>1. /\ [slots[p] EXCEPT !.abandoned = Merged(slots[p].abandoned, i)].state = slots[p].state
        /\ [slots[p] EXCEPT !.abandoned = Merged(slots[p].abandoned, i)].abandoned
             = Merged(slots[p].abandoned, i)
    BY DEF TypeOK, Slot
  <2>2. Merged(slots[p].abandoned, i) = "end" => i = "end" \/ slots[p].abandoned = "end"
    BY DEF Merged
  <2> QED
    BY <1>1, <2>1, <2>2 DEF TypeOK, Abandoned
<1>2. CASE slots[p].state # "flight"
  BY <1>2, NoneFields, TerminalOpenAssumption DEF TypeOK, Abandoned, TerminalOpenAssumption
<1> QED
  BY <1>1, <1>2

LEMMA ToldFields ==
  ASSUME TypeOK, NEW p \in Pane, NEW op
  PROVE  \A l \in Told(p, op) : \/ l \in links
                                \/ op = "end" /\ l.pane = p /\ \E k \in links : k.pane = p /\ k.of = l.of
  BY DEF TypeOK, Told, Link

LEMMA AdoptedFields ==
  ASSUME TypeOK, NEW s, NEW p \in Pane
  PROVE  \/ Adopted(s)[p] = view[p]
         \/ view[p].state \in {"absent", "moved", "closed"} /\ Adopted(s)[p] = Restored
  BY DEF Adopted

LEMMA WokenFields ==
  ASSUME NEW v \in [Pane -> ViewState], NEW p \in Pane
  PROVE  /\ Woken(v)[p].state = v[p].state /\ Woken(v)[p].on = v[p].on
         /\ (Woken(v)[p].recreate <=> v[p].recreate)
         /\ v[p].state = "connecting" \/ v[p].woken => Woken(v)[p].woken
  BY DEF Woken, ViewState

LEMMA GoesFields ==
  ASSUME TypeOK, NEW p \in Pane
  PROVE  /\ \A a \in {"wait", "ensure", "list", "create", "attach"} : Goes(p, a) =>
              /\ open'[p].at = a /\ (open'[p].recreate <=> open[p].recreate)
              /\ \A q \in Pane \ {p} : open'[q] = open[q]
         /\ \A r \in Result : Answers(p, r) =>
              /\ open'[p].at = "store" /\ open'[p].result = r /\ (open'[p].recreate <=> open[p].recreate)
              /\ \A q \in Pane \ {p} : open'[q] = open[q]
         /\ Connected(p) =>
              /\ open'[p].at = IF open[p].recreate THEN "close" ELSE "list"
              /\ (open'[p].recreate <=> open[p].recreate)
              /\ \A q \in Pane \ {p} : open'[q] = open[q]
<1> open[p] \in Worker
  BY DEF TypeOK
<1>1. ASSUME NEW a \in {"wait", "ensure", "list", "create", "attach"}, Goes(p, a)
      PROVE  /\ open'[p].at = a /\ (open'[p].recreate <=> open[p].recreate)
             /\ \A q \in Pane \ {p} : open'[q] = open[q]
  BY <1>1 DEF TypeOK, Goes, Worker
<1>2. ASSUME NEW r \in Result, Answers(p, r)
      PROVE  /\ open'[p].at = "store" /\ open'[p].result = r /\ (open'[p].recreate <=> open[p].recreate)
             /\ \A q \in Pane \ {p} : open'[q] = open[q]
  BY <1>2 DEF TypeOK, Answers, Worker
<1>3. ASSUME Connected(p)
      PROVE  /\ open'[p].at = IF open[p].recreate THEN "close" ELSE "list"
             /\ (open'[p].recreate <=> open[p].recreate)
             /\ \A q \in Pane \ {p} : open'[q] = open[q]
  BY <1>3 DEF TypeOK, Connected, Worker
<1> QED
  BY <1>1, <1>2, <1>3

LEMMA EnsuresFields ==
  ASSUME TypeOK, NEW p \in Pane, NEW kind \in Result, Ensures(p, kind)
  PROVE  /\ \A q \in Pane \ {p} : /\ open'[q].at = open[q].at /\ open'[q].result = open[q].result
                                  /\ (open'[q].recreate <=> open[q].recreate)
         /\ (open'[p].recreate <=> open[p].recreate)
         /\ kind = "linked" => open'[p].at = IF open[p].recreate THEN "close" ELSE "list"
         /\ kind # "linked" => open'[p].at = "store" /\ open'[p].result = kind
<1>1. CASE kind = "linked"
  BY <1>1, GoesFields DEF Ensures
<1>2. CASE kind # "linked"
  <2>1. Shared \in [Pane -> Worker]
    BY DEF TypeOK, Shared, Worker
  <2>2. \A q \in Pane : /\ Shared[q].at = open[q].at /\ Shared[q].result = open[q].result
                        /\ (Shared[q].recreate <=> open[q].recreate)
    BY DEF TypeOK, Shared, Worker
  <2>3. open' = [Shared EXCEPT ![p].at = "store", ![p].result = kind]
    BY <1>2 DEF Ensures
  <2>4. \A q \in Pane \ {p} : open'[q] = Shared[q]
    BY <2>1, <2>3
  <2>5. open'[p].at = "store" /\ open'[p].result = kind /\ (open'[p].recreate <=> Shared[p].recreate)
    BY <2>1, <2>3 DEF Worker
  <2> QED
    BY <1>2, <2>2, <2>4, <2>5
<1> QED
  BY <1>1, <1>2

LEMMA CutFields ==
  ASSUME TypeOK, NEW dies \in BOOLEAN, Cut(dies)
  PROVE  /\ \A p \in Pane : /\ open'[p].at = open[p].at /\ open'[p].result = open[p].result
                            /\ (open'[p].recreate <=> open[p].recreate)
         /\ \A l \in links' : \E k \in links : l.pane = k.pane /\ l.of = k.of /\ l.ends = k.ends
         /\ route'.starts = route.starts /\ route'.failed = route.failed
         /\ route'.fresh = route.fresh /\ route'.lock = route.lock
<1>1. \A p \in Pane : /\ open'[p].at = open[p].at /\ open'[p].result = open[p].result
                      /\ (open'[p].recreate <=> open[p].recreate)
  BY DEF TypeOK, Cut, Worker
<1>2. \A l \in links' : \E k \in links : l.pane = k.pane /\ l.of = k.of /\ l.ends = k.ends
  <2>1. \A k \in Link : LET l == [k EXCEPT !.conn = "down"]
                        IN  l.pane = k.pane /\ l.of = k.of /\ l.ends = k.ends
    BY DEF Link
  <2> TAKE l \in links'
  <2>2. PICK k \in links : l = IF k.conn = "up" THEN [k EXCEPT !.conn = "down"] ELSE k
    BY DEF Cut
  <2> WITNESS k \in links
  <2> QED
    BY <2>1, <2>2 DEF TypeOK
<1>3. /\ route'.starts = route.starts /\ route'.failed = route.failed
      /\ route'.fresh = route.fresh /\ route'.lock = route.lock
  BY DEF TypeOK, Cut, Route
<1> QED
  BY <1>1, <1>2, <1>3

LEMMA StoresFields ==
  ASSUME TypeOK, NEW p \in Pane, Stores(p)
  PROVE  /\ \A q \in Pane \ {p} : open'[q] = open[q] /\ slots'[q] = slots[q]
         /\ open'[p] = NoWorker
         /\ \A q \in Pane : /\ view'[q].state = view[q].state /\ view'[q].on = view[q].on
                            /\ (view'[q].recreate <=> view[q].recreate)
                            /\ view[q].state = "connecting" => view'[q].woken
         /\ \/ slots'[p].state = "ready" /\ slots'[p].result = open[p].result /\ links' = links
            \/ slots'[p] = NoSlot /\ links' = Told(p, slots[p].abandoned)
         /\ slots'[p].abandoned = None
<1>1. /\ [NoSlot EXCEPT !.state = "ready", !.result = open[p].result].state = "ready"
      /\ [NoSlot EXCEPT !.state = "ready", !.result = open[p].result].result = open[p].result
      /\ [NoSlot EXCEPT !.state = "ready", !.result = open[p].result].abandoned = None
  BY DEF NoSlot
<1>2. \A q \in Pane : /\ view'[q].state = view[q].state /\ view'[q].on = view[q].on
                      /\ (view'[q].recreate <=> view[q].recreate)
                      /\ view[q].state = "connecting" => view'[q].woken
  BY WokenFields DEF TypeOK, Stores
<1> QED
  BY <1>1, <1>2, NoneFields DEF TypeOK, Stores

LEMMA ReopenFields ==
  ASSUME TypeOK, NEW p \in Pane, NEW b \in BOOLEAN
  PROVE  [view[p] EXCEPT !.recreate = b] \in ViewState /\ ([view[p] EXCEPT !.recreate = b].recreate <=> b)
  BY DEF TypeOK, ViewState

LEMMA RouteFields ==
  ASSUME TypeOK
  PROVE  /\ Succeeds => /\ route'.starts = 0 /\ route'.failed = None /\ route'.lock = None
         /\ \A why \in NoHost : Fails(why) =>
              /\ route'.starts = route.starts + 1 /\ route'.failed = why
              /\ route'.fresh /\ route'.lock = None
         /\ Fails("failed") => /\ route'.starts = route.starts /\ route'.failed = "failed"
                               /\ route'.lock = None
<1>1. route \in Route /\ route.starts \in Nat
  BY DEF TypeOK, Route
<1>2. Succeeds => /\ route'.starts = 0 /\ route'.failed = None /\ route'.lock = None
  BY <1>1 DEF Succeeds, Route
<1>3. ASSUME NEW why \in NoHost, Fails(why)
      PROVE  /\ route'.starts = route.starts + 1 /\ route'.failed = why
             /\ route'.fresh /\ route'.lock = None
  <2>1. route' = [route EXCEPT !.lock = None, !.failed = why, !.fresh = TRUE,
                               !.starts = route.starts + 1]
    BY <1>3 DEF Fails
  <2> QED
    BY <1>1, <2>1 DEF Route, NoHost
<1>4. ASSUME Fails("failed")
      PROVE  /\ route'.starts = route.starts /\ route'.failed = "failed" /\ route'.lock = None
  <2>1. route' = [route EXCEPT !.lock = None, !.failed = "failed", !.fresh = "failed" \in NoHost,
                               !.starts = route.starts + IF "failed" \in NoHost THEN 1 ELSE 0]
        /\ "failed" \notin NoHost
    BY <1>4 DEF Fails, NoHost
  <2> QED
    BY <1>1, <2>1 DEF Route
<1> QED
  BY <1>2, <1>3, <1>4

LEMMA RetryAsks ==
  ASSUME TypeOK, NEW p \in Pane, Retry(p)
  PROVE  \E v \in ViewState : Asks(p, v) /\ (v.recreate => view[p].recreate)
<1>1. PICK r \in {view[p].recreate, FALSE} : Asks(p, [view[p] EXCEPT !.recreate = r])
  BY DEF Retry
<1>2. r \in BOOLEAN /\ (r => view[p].recreate)
  BY DEF TypeOK, ViewState
<1>3. /\ [view[p] EXCEPT !.recreate = r] \in ViewState
      /\ [view[p] EXCEPT !.recreate = r].recreate <=> r
  BY <1>2, ReopenFields
<1> QED
  BY <1>1, <1>2, <1>3

LEMMA RebindFields ==
  ASSUME TypeOK, NEW p \in Pane, NEW q \in Pane, Rebind(p, q)
  PROVE  /\ view[p].state = "taken" /\ view[q].state = "absent"
         /\ view'[q].state = "connecting" /\ view'[q].on = factory
         /\ (view'[q].recreate <=> view[p].recreate)
         /\ view'[p] = IF p = q THEN view'[q] ELSE Gone("moved")
         /\ \A o \in Pane \ {p, q} : view'[o] = view[o]
         /\ slots'[q].state = "flight" /\ slots'[q].abandoned = None
         /\ open'[q].at = "connect" /\ (open'[q].recreate <=> view[p].recreate)
         /\ \A o \in Pane \ {q} : open'[o] = open[o] /\ slots'[o] = slots[o]
         /\ factory' = factory /\ list' = list /\ late' = late /\ host' = host
         /\ links' = links /\ route' = route
         /\ asked' = IF p \in asked THEN asked \cup {q} ELSE asked
         /\ usurped' = IF view[p].recreate /\ list[q] = "others" THEN usurped \cup {q} ELSE usurped
<1>1. /\ [NoSlot EXCEPT !.state = "flight"].state = "flight"
      /\ [NoSlot EXCEPT !.state = "flight"].abandoned = None
      /\ [NoWorker EXCEPT !.at = "connect", !.restore = view[p].restore,
                            !.recreate = view[p].recreate].at = "connect"
      /\ [NoWorker EXCEPT !.at = "connect", !.restore = view[p].restore,
                            !.recreate = view[p].recreate].recreate <=> view[p].recreate
  BY DEF NoSlot, NoWorker
<1>2. /\ Waits(view[p]).state = "connecting" /\ Waits(view[p]).on = factory
      /\ (Waits(view[p]).recreate <=> view[p].recreate)
  BY DEF TypeOK, Waits, ViewState
<1> QED
  BY <1>1, <1>2 DEF TypeOK, Rebind, Spawned, hostVars

LEMMA StartupFields ==
  ASSUME TypeOK, NEW kind \in Result, StartupEnds(kind)
  PROVE  \A p \in Pane :
           \/ /\ view'[p].state = view[p].state /\ view'[p].on = view[p].on
              /\ (view'[p].recreate <=> view[p].recreate)
              /\ view[p].state = "connecting" => view'[p].woken
           \/ view'[p].state = "pending" /\ ~view'[p].recreate /\ view'[p].on = None
<1> DEFINE V == IF kind = "linked" THEN Adopted(Mine) ELSE view
<1>1. V \in [Pane -> ViewState] /\ \A p \in Pane : V[p] = view[p] \/ V[p] = Restored
  BY AdoptedType, AdoptedFields DEF Mine, TypeOK
<1>2. view' = Woken(V)
  BY DEF StartupEnds
<1> HIDE DEF V
<1> QED
  BY <1>1, <1>2, WokenFields, GoneFields

LEMMA HeldFields ==
  ASSUME TypeOK, NEW p \in Pane, Held(p)
  PROVE  route.failed \in Result /\ route.failed # "linked"
  BY TerminalOpenAssumption DEF TypeOK, Held, BackedOff, NoHost, Route, Result, TerminalOpenAssumption

-----------------------------------------------------------------------------
(* Slots and workers come and go together. *)
LEMMA SlotStep == TypeOK /\ SlotOK /\ [Next]_vars => SlotOK'
<1> SUFFICES ASSUME TypeOK, SlotOK, [Next]_vars PROVE SlotOK'
  OBVIOUS
<1> USE DEF SlotOK
<1>1. ASSUME NEW p \in Pane, NewTab(p) PROVE SlotOK'
  BY <1>1 DEF NewTab, hostVars, histVars
<1>2. ASSUME NEW p \in Pane, Show(p) PROVE SlotOK'
  <2>1. view[p] \in ViewState /\ Asks(p, view[p])
    BY <1>2 DEF TypeOK, Show
  <2> QED
    BY <1>2, <2>1, AsksFields, NoneFields DEF Show, SlotOK
<1>3. ASSUME NEW p \in Pane, AsksAgain(p) PROVE SlotOK'
  <2>1. view[p] \in ViewState /\ Asks(p, view[p])
    BY <1>3 DEF TypeOK, AsksAgain
  <2> QED
    BY <1>3, <2>1, AsksFields, NoneFields DEF AsksAgain, SlotOK
<1>4. ASSUME NEW p \in Pane, Retry(p) PROVE SlotOK'
  <2>1. PICK v \in ViewState : Asks(p, v) /\ (v.recreate => view[p].recreate)
    BY <1>4, RetryAsks
  <2> QED
    BY <1>4, <2>1, AsksFields, NoneFields DEF Retry, SlotOK
<1>5. ASSUME NEW p \in Pane, Restart(p) PROVE SlotOK'
  <2>1. PICK v \in ViewState : Asks(p, v)
    BY <1>5, ReopenFields DEF Restart
  <2> QED
    BY <1>5, <2>1, AsksFields, NoneFields DEF Restart, SlotOK
<1>6. ASSUME NEW p \in Pane, CloseTab(p) PROVE SlotOK'
  <2>1. CASE view[p].state = "connecting" /\ view[p].on = "sessions"
    BY <1>6, <2>1, AbandonedFields DEF CloseTab, Intent
  <2>2. CASE ~(view[p].state = "connecting" /\ view[p].on = "sessions")
    BY <1>6, <2>2 DEF CloseTab
  <2> QED
    BY <2>1, <2>2
<1>7. ASSUME NEW p \in Pane, Drops(p) PROVE SlotOK'
  BY <1>7, AbandonedFields DEF Drops, Intent
<1>8. ASSUME NEW p \in Pane, Evict(p) PROVE SlotOK'
  <2>1. CASE view[p].state = "connecting" /\ view[p].on = "sessions"
    BY <1>8, <2>1, AbandonedFields DEF Evict, Intent
  <2>2. CASE ~(view[p].state = "connecting" /\ view[p].on = "sessions")
    BY <1>8, <2>2 DEF Evict
  <2> QED
    BY <2>1, <2>2
<1>9. ASSUME NEW p \in Pane, CreatesLate(p) PROVE SlotOK'
  BY <1>9 DEF CreatesLate, hostVars, histVars
<1>10. ASSUME NEW p \in Pane, Connects(p) PROVE SlotOK'
  BY <1>10, GoesFields, TerminalOpenAssumption DEF Connects, Result
<1>11. ASSUME NEW p \in Pane, Locks(p) PROVE SlotOK'
  <2>1. Held(p) => route.failed \in Result
    BY HeldFields
  <2> QED
    BY <1>11, <2>1, GoesFields DEF Locks
<1>12. ASSUME NEW p \in Pane, NEW kind \in Result, Ensures(p, kind) PROVE SlotOK'
  BY <1>12, EnsuresFields DEF Ensures
<1>13. ASSUME NEW p \in Pane, Closes(p) PROVE SlotOK'
  BY <1>13, GoesFields, TerminalOpenAssumption DEF Closes, Result
<1>14. ASSUME NEW p \in Pane, Lists(p) PROVE SlotOK'
  BY <1>14, GoesFields, TerminalOpenAssumption DEF Lists, Result
<1>15. ASSUME NEW p \in Pane, Creates(p) PROVE SlotOK'
  BY <1>15, GoesFields, TerminalOpenAssumption DEF Creates, Result
<1>16. ASSUME NEW p \in Pane, Attaches(p) PROVE SlotOK'
  BY <1>16, GoesFields, TerminalOpenAssumption DEF Attaches, Result
<1>17. ASSUME NEW p \in Pane, Stores(p) PROVE SlotOK'
  BY <1>17, StoresFields, NoneFields, TerminalOpenAssumption DEF TerminalOpenAssumption
<1>18. ASSUME NEW p \in Pane, NEW q \in Pane, Rebind(p, q) PROVE SlotOK'
  BY <1>18, RebindFields
<1>19. ASSUME NEW kind \in Result, StartupEnds(kind) PROVE SlotOK'
  BY <1>19 DEF StartupEnds, hostVars, histVars
<1>20. ASSUME Adopts PROVE SlotOK'
  BY <1>20 DEF Adopts, hostVars, histVars
<1>21. ASSUME Lapses PROVE SlotOK'
  BY <1>21 DEF Lapses, hostVars, histVars
<1>22. ASSUME NEW l \in links, OwnerEnds(l) PROVE SlotOK'
  BY <1>22 DEF OwnerEnds, hostVars, histVars
<1>23. ASSUME NEW l \in links, Reconnects(l) PROVE SlotOK'
  BY <1>23 DEF Reconnects, hostVars, histVars
<1>24. ASSUME NEW dies \in BOOLEAN, Cut(dies) PROVE SlotOK'
  <2>1. slots' = slots /\ \A p \in Pane : open'[p].at = open[p].at
    BY <1>24, CutFields DEF Cut
  <2> QED
    BY <2>1
<1>25. ASSUME FallsSilent PROVE SlotOK'
  BY <1>25 DEF FallsSilent, hostVars, histVars
<1>26. ASSUME AnswersAgain PROVE SlotOK'
  BY <1>26 DEF AnswersAgain, hostVars, histVars
<1>27. ASSUME UNCHANGED vars PROVE SlotOK'
  BY <1>27 DEF vars, hostVars, histVars
<1>28. ASSUME NEW p \in Pane, AnotherCreates(p) PROVE SlotOK'
  BY <1>28 DEF AnotherCreates
<1> QED
  BY <1>1, <1>2, <1>3, <1>4, <1>5, <1>6, <1>7, <1>8, <1>9, <1>10, <1>11, <1>12, <1>13, <1>14,
     <1>15, <1>16, <1>17, <1>18, <1>19, <1>20, <1>21, <1>22, <1>23, <1>24, <1>25, <1>26, <1>27,
     <1>28
     DEF Next, WorkerStep

(* Until the startup ends nothing is opened and nothing is known of a host. *)
LEMMA StartStep == TypeOK /\ SlotOK /\ StartOK /\ [Next]_vars => StartOK'
<1> SUFFICES ASSUME TypeOK, SlotOK, StartOK, [Next]_vars PROVE StartOK'
  OBVIOUS
<1> USE DEF SlotOK, StartOK
<1>1. ASSUME NEW p \in Pane, NewTab(p) PROVE StartOK'
  BY <1>1, GoneFields, TerminalOpenAssumption DEF NewTab, TypeOK, hostVars, histVars,
     TerminalOpenAssumption
<1>2. ASSUME NEW p \in Pane, Show(p) PROVE StartOK'
  <2>1. view[p] \in ViewState /\ Asks(p, view[p])
    BY <1>2 DEF TypeOK, Show
  <2> QED
    BY <1>2, <2>1, AsksFields, NoneFields, TerminalOpenAssumption DEF Show, hostVars, histVars,
       TerminalOpenAssumption
<1>3. ASSUME NEW p \in Pane, AsksAgain(p) PROVE StartOK'
  <2>1. view[p] \in ViewState /\ Asks(p, view[p])
    BY <1>3 DEF TypeOK, AsksAgain
  <2> QED
    BY <1>3, <2>1, AsksFields, NoneFields, TerminalOpenAssumption DEF AsksAgain, hostVars, histVars,
       TerminalOpenAssumption
<1>4. ASSUME NEW p \in Pane, Retry(p) PROVE StartOK'
  <2>1. PICK v \in ViewState : Asks(p, v) /\ (v.recreate => view[p].recreate)
    BY <1>4, RetryAsks
  <2> QED
    BY <1>4, <2>1, AsksFields, NoneFields, TerminalOpenAssumption DEF Retry, hostVars, histVars,
       TerminalOpenAssumption
<1>5. ASSUME NEW p \in Pane, Restart(p) PROVE StartOK'
  <2>1. PICK v \in ViewState : Asks(p, v)
    BY <1>5, ReopenFields DEF Restart
  <2> QED
    BY <1>5, <2>1, AsksFields, NoneFields, TerminalOpenAssumption DEF Restart, hostVars, histVars,
       TerminalOpenAssumption
<1>6. ASSUME NEW p \in Pane, CloseTab(p) PROVE StartOK'
  <2>1. CASE view[p].state = "connecting" /\ view[p].on = "sessions"
    BY <1>6, <2>1, AbandonedFields, GoneFields, TerminalOpenAssumption DEF CloseTab, Intent,
       hostVars, histVars, TerminalOpenAssumption
  <2>2. CASE ~(view[p].state = "connecting" /\ view[p].on = "sessions")
    BY <1>6, <2>2, GoneFields, TerminalOpenAssumption DEF CloseTab, hostVars, histVars,
       TerminalOpenAssumption
  <2> QED
    BY <2>1, <2>2
<1>7. ASSUME NEW p \in Pane, Drops(p) PROVE StartOK'
  BY <1>7, AbandonedFields, GoneFields, TerminalOpenAssumption DEF Drops, Intent, hostVars,
     TerminalOpenAssumption
<1>8. ASSUME NEW p \in Pane, Evict(p) PROVE StartOK'
  <2>1. CASE view[p].state = "connecting" /\ view[p].on = "sessions"
    BY <1>8, <2>1, AbandonedFields, GoneFields, TerminalOpenAssumption DEF Evict, Intent, hostVars,
       histVars, TerminalOpenAssumption
  <2>2. CASE ~(view[p].state = "connecting" /\ view[p].on = "sessions")
    BY <1>8, <2>2, GoneFields, TerminalOpenAssumption DEF Evict, hostVars, histVars,
       TerminalOpenAssumption
  <2> QED
    BY <2>1, <2>2
<1>9. ASSUME NEW p \in Pane, CreatesLate(p) PROVE StartOK'
  BY <1>9 DEF CreatesLate, hostVars, histVars
<1>10. ASSUME NEW p \in Pane, Connects(p) PROVE StartOK'
  BY <1>10 DEF Connects, TypeOK, hostVars, histVars
<1>11. ASSUME NEW p \in Pane, Locks(p) PROVE StartOK'
  BY <1>11 DEF Locks, TypeOK, hostVars, histVars
<1>12. ASSUME NEW p \in Pane, NEW kind \in Result, Ensures(p, kind) PROVE StartOK'
  BY <1>12 DEF Ensures, TypeOK, hostVars, histVars
<1>13. ASSUME NEW p \in Pane, Closes(p) PROVE StartOK'
  BY <1>13 DEF Closes, TypeOK, hostVars, histVars
<1>14. ASSUME NEW p \in Pane, Lists(p) PROVE StartOK'
  BY <1>14 DEF Lists, TypeOK, hostVars, histVars
<1>15. ASSUME NEW p \in Pane, Creates(p) PROVE StartOK'
  BY <1>15 DEF Creates, TypeOK, hostVars, histVars
<1>16. ASSUME NEW p \in Pane, Attaches(p) PROVE StartOK'
  BY <1>16 DEF Attaches, TypeOK, hostVars, histVars
<1>17. ASSUME NEW p \in Pane, Stores(p) PROVE StartOK'
  BY <1>17, StoresFields DEF Stores, TypeOK, hostVars, histVars
<1>18. ASSUME NEW p \in Pane, NEW q \in Pane, Rebind(p, q) PROVE StartOK'
  BY <1>18, RebindFields, GoneFields, TerminalOpenAssumption DEF TerminalOpenAssumption
<1>19. ASSUME NEW kind \in Result, StartupEnds(kind) PROVE StartOK'
  BY <1>19 DEF StartupEnds
<1>20. ASSUME Adopts PROVE StartOK'
  BY <1>20, AdoptedFields, GoneFields, TerminalOpenAssumption DEF Adopts, hostVars, histVars,
     TerminalOpenAssumption
<1>21. ASSUME Lapses PROVE StartOK'
  BY <1>21 DEF Lapses, TypeOK, Route, hostVars
<1>22. ASSUME NEW l \in links, OwnerEnds(l) PROVE StartOK'
  BY <1>22 DEF OwnerEnds, hostVars, histVars
<1>23. ASSUME NEW l \in links, Reconnects(l) PROVE StartOK'
  BY <1>23 DEF Reconnects, hostVars, histVars
<1>24. ASSUME NEW dies \in BOOLEAN, Cut(dies) PROVE StartOK'
  BY <1>24, CutFields DEF Cut, histVars, hostVars
<1>25. ASSUME FallsSilent PROVE StartOK'
  BY <1>25 DEF FallsSilent, hostVars, histVars
<1>26. ASSUME AnswersAgain PROVE StartOK'
  BY <1>26 DEF AnswersAgain, hostVars, histVars
<1>27. ASSUME UNCHANGED vars PROVE StartOK'
  BY <1>27 DEF vars, hostVars, histVars
<1>28. ASSUME NEW p \in Pane, AnotherCreates(p) PROVE StartOK'
  BY <1>28 DEF AnotherCreates
<1> QED
  BY <1>1, <1>2, <1>3, <1>4, <1>5, <1>6, <1>7, <1>8, <1>9, <1>10, <1>11, <1>12, <1>13, <1>14,
     <1>15, <1>16, <1>17, <1>18, <1>19, <1>20, <1>21, <1>22, <1>23, <1>24, <1>25, <1>26, <1>27,
     <1>28
     DEF Next, WorkerStep

(* One worker ensures at a time, and none while a failed start is fresh. *)
LEMMA BurstStep == TypeOK /\ SlotOK /\ StartOK /\ BurstOK /\ [Next]_vars => BurstOK'
<1> SUFFICES ASSUME TypeOK, SlotOK, StartOK, BurstOK, [Next]_vars PROVE BurstOK'
  OBVIOUS
<1> USE DEF SlotOK, StartOK, BurstOK
<1>1. ASSUME NEW p \in Pane, NewTab(p) PROVE BurstOK'
  BY <1>1 DEF NewTab, BackedOff
<1>2. ASSUME NEW p \in Pane, Show(p) PROVE BurstOK'
  <2>1. view[p] \in ViewState /\ Asks(p, view[p])
    BY <1>2 DEF TypeOK, Show
  <2> QED
    BY <1>2, <2>1, AsksFields DEF Show, BackedOff
<1>3. ASSUME NEW p \in Pane, AsksAgain(p) PROVE BurstOK'
  <2>1. view[p] \in ViewState /\ Asks(p, view[p])
    BY <1>3 DEF TypeOK, AsksAgain
  <2> QED
    BY <1>3, <2>1, AsksFields DEF AsksAgain, BackedOff
<1>4. ASSUME NEW p \in Pane, Retry(p) PROVE BurstOK'
  <2>1. PICK v \in ViewState : Asks(p, v) /\ (v.recreate => view[p].recreate)
    BY <1>4, RetryAsks
  <2> QED
    BY <1>4, <2>1, AsksFields DEF Retry, BackedOff
<1>5. ASSUME NEW p \in Pane, Restart(p) PROVE BurstOK'
  <2>1. PICK v \in ViewState : Asks(p, v)
    BY <1>5, ReopenFields DEF Restart
  <2> QED
    BY <1>5, <2>1, AsksFields DEF Restart, BackedOff
<1>6. ASSUME NEW p \in Pane, CloseTab(p) PROVE BurstOK'
  BY <1>6 DEF CloseTab, BackedOff
<1>7. ASSUME NEW p \in Pane, Drops(p) PROVE BurstOK'
  BY <1>7 DEF Drops, BackedOff
<1>8. ASSUME NEW p \in Pane, Evict(p) PROVE BurstOK'
  BY <1>8 DEF Evict, BackedOff
<1>9. ASSUME NEW p \in Pane, CreatesLate(p) PROVE BurstOK'
  BY <1>9 DEF CreatesLate, BackedOff
<1>10. ASSUME NEW p \in Pane, Connects(p) PROVE BurstOK'
  BY <1>10, GoesFields DEF Connects, Result, BackedOff
<1>11. ASSUME NEW p \in Pane, Locks(p) PROVE BurstOK'
  <2>1. Held(p) => route.failed \in Result
    BY HeldFields
  <2>2. CASE route' = route /\ Connected(p)
    BY <1>11, <2>2, GoesFields DEF BackedOff
  <2>3. CASE route' = route /\ Held(p) /\ Answers(p, route.failed)
    BY <1>11, <2>1, <2>3, GoesFields DEF BackedOff
  <2>4. CASE ~Held(p) /\ Goes(p, "ensure") /\ route' = [route EXCEPT !.lock = p]
    <3>1. route'.lock = p /\ route'.starts = route.starts
      BY <2>4 DEF TypeOK, Route
    <3>2. route.starts = 0
      BY <2>4 DEF Held
    <3>3. \A q \in Pane \ {p} : open'[q].at # "ensure"
      BY <1>11, <2>4, GoesFields, TerminalOpenAssumption DEF Locks, TerminalOpenAssumption
    <3> QED
      BY <3>1, <3>2, <3>3
  <2> QED
    BY <1>11, <2>2, <2>3, <2>4 DEF Locks
<1>12. ASSUME NEW p \in Pane, NEW kind \in Result, Ensures(p, kind) PROVE BurstOK'
  <2>0. open[p].at = "ensure"
    BY <1>12 DEF Ensures
  <2>1. \A q \in Pane : open'[q].at # "ensure"
    BY <1>12, <2>0, EnsuresFields
  <2>2. kind \in {"linked", "failed"} \cup NoHost /\ route.starts = 0
    BY <1>12 DEF TypeOK, Ensures, Ensured, NoHost
  <2>3. CASE kind = "linked"
    <3>1. route'.starts = 0
      BY <1>12, <2>3, RouteFields DEF Ensures
    <3> QED
      BY <2>1, <3>1
  <2>4. CASE kind \in NoHost
    <3>1. route'.starts = 1 /\ route'.failed = kind /\ route'.fresh
      BY <1>12, <2>2, <2>4, RouteFields DEF Ensures, NoHost
    <3> QED
      BY <2>1, <2>4, <3>1 DEF BackedOff
  <2>5. CASE kind = "failed"
    <3>1. route'.starts = 0
      BY <1>12, <2>2, <2>5, RouteFields DEF Ensures
    <3> QED
      BY <2>1, <3>1
  <2> QED
    BY <2>2, <2>3, <2>4, <2>5
<1>13. ASSUME NEW p \in Pane, Closes(p) PROVE BurstOK'
  BY <1>13, GoesFields DEF Closes, Result, BackedOff
<1>14. ASSUME NEW p \in Pane, Lists(p) PROVE BurstOK'
  BY <1>14, GoesFields DEF Lists, Result, BackedOff
<1>15. ASSUME NEW p \in Pane, Creates(p) PROVE BurstOK'
  BY <1>15, GoesFields DEF Creates, Result, BackedOff
<1>16. ASSUME NEW p \in Pane, Attaches(p) PROVE BurstOK'
  BY <1>16, GoesFields DEF Attaches, Result, BackedOff
<1>17. ASSUME NEW p \in Pane, Stores(p) PROVE BurstOK'
  <2>1. route' = route
    BY <1>17 DEF Stores
  <2> QED
    BY <1>17, <2>1, StoresFields, NoneFields DEF BackedOff
<1>18. ASSUME NEW p \in Pane, NEW q \in Pane, Rebind(p, q) PROVE BurstOK'
  BY <1>18, RebindFields, GoneFields DEF BackedOff
<1>19. ASSUME NEW kind \in Result, StartupEnds(kind) PROVE BurstOK'
  <2>1. \A p \in Pane : open'[p].at = "none"
    BY <1>19 DEF StartupEnds
  <2>2. CASE kind = "linked"
    <3>1. route'.starts = 0
      BY <1>19, <2>2, RouteFields DEF StartupEnds
    <3> QED
      BY <2>1, <3>1
  <2>3. CASE kind = "nohost"
    <3>1. route'.starts = 1 /\ route'.failed = kind /\ route'.fresh
      BY <1>19, <2>3, RouteFields DEF StartupEnds, NoHost
    <3> QED
      BY <2>1, <2>3, <3>1 DEF BackedOff, NoHost
  <2>4. CASE kind # "linked" /\ kind # "nohost"
    BY <1>19, <2>1, <2>4 DEF StartupEnds, BackedOff
  <2> QED
    BY <2>2, <2>3, <2>4
<1>20. ASSUME Adopts PROVE BurstOK'
  BY <1>20 DEF Adopts, BackedOff
<1>21. ASSUME Lapses PROVE BurstOK'
  <2>1. route'.starts = 0 /\ route'.lock = route.lock /\ open' = open
    BY <1>21 DEF Lapses, TypeOK, Route
  <2> QED
    BY <2>1
<1>22. ASSUME NEW l \in links, OwnerEnds(l) PROVE BurstOK'
  BY <1>22 DEF OwnerEnds, BackedOff
<1>23. ASSUME NEW l \in links, Reconnects(l) PROVE BurstOK'
  BY <1>23 DEF Reconnects, BackedOff
<1>24. ASSUME NEW dies \in BOOLEAN, Cut(dies) PROVE BurstOK'
  BY <1>24, CutFields DEF BackedOff
<1>25. ASSUME FallsSilent PROVE BurstOK'
  BY <1>25 DEF FallsSilent, BackedOff
<1>26. ASSUME AnswersAgain PROVE BurstOK'
  BY <1>26 DEF AnswersAgain, BackedOff
<1>27. ASSUME UNCHANGED vars PROVE BurstOK'
  BY <1>27 DEF BackedOff, vars, hostVars, histVars
<1>28. ASSUME NEW p \in Pane, AnotherCreates(p) PROVE BurstOK'
  BY <1>28 DEF AnotherCreates, BackedOff
<1> QED
  BY <1>1, <1>2, <1>3, <1>4, <1>5, <1>6, <1>7, <1>8, <1>9, <1>10, <1>11, <1>12, <1>13, <1>14,
     <1>15, <1>16, <1>17, <1>18, <1>19, <1>20, <1>21, <1>22, <1>23, <1>24, <1>25, <1>26, <1>27,
     <1>28
     DEF Next, WorkerStep

(* Only a host that is not there is told of as such. *)
LEMMA NoHostStep == TypeOK /\ SlotOK /\ StartOK /\ NoHostOK /\ [Next]_vars => NoHostOK'
<1> SUFFICES ASSUME TypeOK, SlotOK, StartOK, NoHostOK, [Next]_vars PROVE NoHostOK'
  OBVIOUS
<1> USE DEF SlotOK, NoHostOK
<1>1. ASSUME NEW p \in Pane, NewTab(p) PROVE NoHostOK'
  BY <1>1, GoneFields DEF NewTab, TypeOK, hostVars
<1>2. ASSUME NEW p \in Pane, Show(p) PROVE NoHostOK'
  <2>1. view[p] \in ViewState /\ Asks(p, view[p])
    BY <1>2 DEF TypeOK, Show
  <2>9. host' = host /\ list' = list /\ late' = late /\ route' = route
    BY <1>2 DEF Show, hostVars
  <2> QED
    BY <1>2, <2>1, AsksFields, <2>9, NoneFields, TerminalOpenAssumption DEF TerminalOpenAssumption
<1>3. ASSUME NEW p \in Pane, AsksAgain(p) PROVE NoHostOK'
  <2>1. view[p] \in ViewState /\ Asks(p, view[p])
    BY <1>3 DEF TypeOK, AsksAgain
  <2>9. host' = host /\ list' = list /\ late' = late /\ route' = route
    BY <1>3 DEF AsksAgain, hostVars
  <2> QED
    BY <1>3, <2>1, AsksFields, <2>9, NoneFields, TerminalOpenAssumption DEF TerminalOpenAssumption
<1>4. ASSUME NEW p \in Pane, Retry(p) PROVE NoHostOK'
  <2>1. PICK v \in ViewState : Asks(p, v) /\ (v.recreate => view[p].recreate)
    BY <1>4, RetryAsks
  <2>9. host' = host /\ list' = list /\ late' = late /\ route' = route
    BY <1>4 DEF Retry, hostVars
  <2> QED
    BY <1>4, <2>1, AsksFields, <2>9, NoneFields, TerminalOpenAssumption DEF TerminalOpenAssumption
<1>5. ASSUME NEW p \in Pane, Restart(p) PROVE NoHostOK'
  <2>1. PICK v \in ViewState : Asks(p, v)
    BY <1>5, ReopenFields DEF Restart
  <2>9. host' = host /\ list' = list /\ late' = late /\ route' = route
    BY <1>5 DEF Restart, hostVars
  <2> QED
    BY <1>5, <2>1, AsksFields, <2>9, NoneFields, TerminalOpenAssumption DEF TerminalOpenAssumption
<1>6. ASSUME NEW p \in Pane, CloseTab(p) PROVE NoHostOK'
  <2>1. CASE view[p].state = "connecting" /\ view[p].on = "sessions"
    BY <1>6, <2>1, AbandonedFields, GoneFields, TerminalOpenAssumption DEF CloseTab, Intent,
       hostVars, histVars, TerminalOpenAssumption
  <2>2. CASE ~(view[p].state = "connecting" /\ view[p].on = "sessions")
    BY <1>6, <2>2, GoneFields, TerminalOpenAssumption DEF CloseTab, hostVars, histVars,
       TerminalOpenAssumption
  <2> QED
    BY <2>1, <2>2
<1>7. ASSUME NEW p \in Pane, Drops(p) PROVE NoHostOK'
  BY <1>7, AbandonedFields, GoneFields, TerminalOpenAssumption DEF Drops, Intent, hostVars,
     TerminalOpenAssumption
<1>8. ASSUME NEW p \in Pane, Evict(p) PROVE NoHostOK'
  <2>1. CASE view[p].state = "connecting" /\ view[p].on = "sessions"
    BY <1>8, <2>1, AbandonedFields, GoneFields, TerminalOpenAssumption DEF Evict, Intent, hostVars,
       histVars, TerminalOpenAssumption
  <2>2. CASE ~(view[p].state = "connecting" /\ view[p].on = "sessions")
    BY <1>8, <2>2, GoneFields, TerminalOpenAssumption DEF Evict, hostVars, histVars,
       TerminalOpenAssumption
  <2> QED
    BY <2>1, <2>2
<1>9. ASSUME NEW p \in Pane, CreatesLate(p) PROVE NoHostOK'
  BY <1>9 DEF CreatesLate, TypeOK
<1>10. ASSUME NEW p \in Pane, Connects(p) PROVE NoHostOK'
  BY <1>10, GoesFields DEF Connects, Result, hostVars
<1>11. ASSUME NEW p \in Pane, Locks(p) PROVE NoHostOK'
  <2>1. Held(p) => route.failed \in Result
    BY HeldFields
  <2>2. route'.failed = route.failed
    BY <1>11 DEF Locks, TypeOK, Route
  <2>3. \A q \in Pane : open'[q].at = "store" /\ open'[q].result = "nohost" =>
           \/ open[q].at = "store" /\ open[q].result = "nohost"
           \/ route.failed = "nohost"
    BY <1>11, <2>1, GoesFields DEF Locks
  <2>4. view' = view /\ slots' = slots /\ host' = host /\ list' = list /\ late' = late
    BY <1>11 DEF Locks, hostVars
  <2> QED
    BY <2>2, <2>3, <2>4
<1>12. ASSUME NEW p \in Pane, NEW kind \in Result, Ensures(p, kind) PROVE NoHostOK'
  <2>1. \/ kind = "linked" /\ host' = "up"
        \/ kind = "half" /\ host' = "up"
        \/ kind = "nohost" /\ host = "none" /\ host' = "none"
        \/ kind = "failed" /\ host' = host
    BY <1>12 DEF TypeOK, Ensures, Ensured
  <2>2. route'.failed = "nohost" => kind = "nohost"
    BY <1>12, <2>1, RouteFields, TerminalOpenAssumption DEF Ensures, NoHost, TerminalOpenAssumption
  <2>3. \A q \in Pane : open'[q].at = "store" /\ open'[q].result = "nohost" =>
           \/ open[q].at = "store" /\ open[q].result = "nohost"
           \/ kind = "nohost"
    BY <1>12, EnsuresFields
  <2>4. view' = view /\ slots' = slots /\ list' = list /\ late' = late
    BY <1>12 DEF Ensures
  <2> QED
    BY <2>1, <2>2, <2>3, <2>4
<1>13. ASSUME NEW p \in Pane, Closes(p) PROVE NoHostOK'
  BY <1>13, GoesFields DEF Closes, Result, TypeOK
<1>14. ASSUME NEW p \in Pane, Lists(p) PROVE NoHostOK'
  BY <1>14, GoesFields DEF Lists, Result, hostVars
<1>15. ASSUME NEW p \in Pane, Creates(p) PROVE NoHostOK'
  <2>1. view' = view /\ slots' = slots /\ route' = route /\ host' = host
    BY <1>15 DEF Creates
  <2>2. \A q \in Pane : open'[q].at = "store" /\ open'[q].result = "nohost" =>
                        q # p /\ open[q].at = "store" /\ open[q].result = "nohost"
    BY <1>15, GoesFields DEF Creates, Result
  <2>3. \A q \in Pane \ {p} : list'[q] = list[q] /\ (q \in late' => q \in late)
    BY <1>15 DEF Creates, TypeOK
  <2>4. host = "none" => list' = list /\ late' = late
    BY <1>15 DEF Creates, Reaches
  <2>5. view[p].state # "local" /\ slots[p].state = "flight"
    BY <1>15 DEF Creates
  <2> QED
    BY <2>1, <2>2, <2>3, <2>4, <2>5
<1>16. ASSUME NEW p \in Pane, Attaches(p) PROVE NoHostOK'
  BY <1>16, GoesFields DEF Attaches, Result, hostVars
<1>17. ASSUME NEW p \in Pane, Stores(p) PROVE NoHostOK'
  <2>1. host' = host /\ list' = list /\ late' = late /\ route' = route /\ open[p].at = "store"
    BY <1>17 DEF Stores, hostVars
  <2> QED
    BY <1>17, <2>1, StoresFields, NoneFields
<1>18. ASSUME NEW p \in Pane, NEW q \in Pane, Rebind(p, q) PROVE NoHostOK'
  BY <1>18, RebindFields, GoneFields
<1>19. ASSUME NEW kind \in Result, StartupEnds(kind) PROVE NoHostOK'
  <2>8. \/ kind = "linked" /\ host' = "up"
        \/ kind = "half" /\ host' = "up"
        \/ kind = "nohost" /\ host = "none" /\ host' = "none"
        \/ kind = "failed" /\ host' = host
    BY <1>19 DEF TypeOK, StartupEnds, Ensured
  <2>9. /\ route'.failed = "nohost" => host' = "none"
        /\ slots' = slots /\ list' = list /\ late' = late /\ open' = open
    BY <1>19, <2>8, RouteFields, TerminalOpenAssumption DEF StartupEnds, StartOK, NoHost,
       TerminalOpenAssumption
  <2> QED
    BY <1>19, StartupFields, <2>8, <2>9
<1>20. ASSUME Adopts PROVE NoHostOK'
  <2>1. view' = Adopted(Head(news)) /\ UNCHANGED <<host, list, late, slots, open, route>>
    BY <1>20 DEF Adopts, hostVars
  <2> QED
    BY <2>1, AdoptedFields, GoneFields
<1>21. ASSUME Lapses PROVE NoHostOK'
  <2>1. route'.failed = route.failed
    BY <1>21 DEF Lapses, TypeOK, Route
  <2> QED
    BY <1>21, <2>1 DEF Lapses, hostVars
<1>22. ASSUME NEW l \in links, OwnerEnds(l) PROVE NoHostOK'
  BY <1>22 DEF OwnerEnds, TypeOK
<1>23. ASSUME NEW l \in links, Reconnects(l) PROVE NoHostOK'
  BY <1>23 DEF Reconnects, hostVars, histVars
<1>24. ASSUME NEW dies \in BOOLEAN, Cut(dies) PROVE NoHostOK'
  <2>1. \/ host' = "none" /\ late' = {} /\ \A p \in Pane : list'[p] = "none"
        \/ host' = host /\ list' = list /\ late' = late
    BY <1>24 DEF Cut, hostVars
  <2>2. view' = view /\ slots' = slots /\ host # "none"
    BY <1>24 DEF Cut
  <2> QED
    BY <1>24, <2>1, <2>2, CutFields
<1>25. ASSUME FallsSilent PROVE NoHostOK'
  BY <1>25 DEF FallsSilent, hostVars, histVars
<1>26. ASSUME AnswersAgain PROVE NoHostOK'
  BY <1>26 DEF AnswersAgain, hostVars, histVars
<1>27. ASSUME UNCHANGED vars PROVE NoHostOK'
  BY <1>27 DEF vars, hostVars, histVars
<1>28. ASSUME NEW p \in Pane, AnotherCreates(p) PROVE NoHostOK'
  BY <1>28 DEF AnotherCreates, TypeOK
<1> QED
  BY <1>1, <1>2, <1>3, <1>4, <1>5, <1>6, <1>7, <1>8, <1>9, <1>10, <1>11, <1>12, <1>13, <1>14,
     <1>15, <1>16, <1>17, <1>18, <1>19, <1>20, <1>21, <1>22, <1>23, <1>24, <1>25, <1>26, <1>27,
     <1>28
     DEF Next, WorkerStep

(* A worker, or a view, that is to act on its id unseen. *)
ByWorker(p) ==
  \/ open[p].at \in {"close", "create", "attach"}
  \/ open[p].at \in {"connect", "wait", "ensure"} /\ open[p].recreate

(* Another's session meets something that acts unseen only where that was so. *)
LEMMA OthersKept ==
  ASSUME OthersOK, usurped \subseteq usurped',
         \A p \in Pane : list'[p] = "others" => list[p] = "others",
         \A l \in links' : \E k \in links : k.pane = l.pane /\ k.of = l.of,
         \A p \in Pane : list'[p] = "others" /\ (ByWorker(p)' \/ view'[p].recreate)
                           => ActsUnseen(p) \/ p \in usurped'
  PROVE  OthersOK'
<1>1. \A l \in links' : l.of = "ours" \/ l.pane \in usurped'
  BY DEF OthersOK
<1>2. ASSUME NEW p \in Pane, list'[p] = "others", ActsUnseen(p)' PROVE p \in usurped'
  <2>1. ActsUnseen(p) \/ p \in usurped'
    <3>1. CASE \E l \in links' : l.pane = p
      BY <3>1 DEF ActsUnseen
    <3>2. CASE ~\E l \in links' : l.pane = p
      BY <1>2, <3>2 DEF ActsUnseen, ByWorker
    <3> QED
      BY <3>1, <3>2
  <2> QED
    BY <1>2, <2>1 DEF OthersOK
<1> QED
  BY <1>1, <1>2 DEF OthersOK

LEMMA AsksUnseen ==
  ASSUME TypeOK, NEW p \in Pane, NEW v \in ViewState, Asks(p, v)
  PROVE  \A q \in Pane : ByWorker(q)' \/ view'[q].recreate =>
           ByWorker(q) \/ view[q].recreate \/ (q = p /\ v.recreate)
<1> QED
  BY AsksFields DEF ByWorker

(* Nothing acts unseen on an id that another worktree's session holds. *)
LEMMA OthersStep == TypeOK /\ OthersOK /\ [Next]_vars => OthersOK'
<1> SUFFICES ASSUME TypeOK, OthersOK, [Next]_vars PROVE OthersOK'
  OBVIOUS
<1>0. \A p \in Pane : ByWorker(p) \/ view[p].recreate => ActsUnseen(p)
  BY DEF ByWorker, ActsUnseen
<1>1. ASSUME NEW p \in Pane, NewTab(p) PROVE OthersOK'
  <2>1. \A q \in Pane : view'[q].recreate => view[q].recreate
    BY <1>1, GoneFields DEF NewTab, TypeOK
  <2> QED
    BY <1>0, <1>1, <2>1, OthersKept DEF NewTab, hostVars, histVars, ByWorker
<1>2. ASSUME NEW p \in Pane, Show(p) PROVE OthersOK'
  <2>1. view[p] \in ViewState /\ Asks(p, view[p])
    BY <1>2 DEF TypeOK, Show
  <2> QED
    BY <1>0, <1>2, <2>1, AsksUnseen, OthersKept DEF Show, hostVars, histVars
<1>3. ASSUME NEW p \in Pane, AsksAgain(p) PROVE OthersOK'
  <2>1. view[p] \in ViewState /\ Asks(p, view[p])
    BY <1>3 DEF TypeOK, AsksAgain
  <2> QED
    BY <1>0, <1>3, <2>1, AsksUnseen, OthersKept DEF AsksAgain, hostVars, histVars
<1>4. ASSUME NEW p \in Pane, Retry(p) PROVE OthersOK'
  <2>1. PICK v \in ViewState : Asks(p, v) /\ (v.recreate => view[p].recreate)
    BY <1>4, RetryAsks
  <2> QED
    BY <1>0, <1>4, <2>1, AsksUnseen, OthersKept DEF Retry, hostVars, histVars
<1>5. ASSUME NEW p \in Pane, Restart(p) PROVE OthersOK'
  <2>1. PICK v \in ViewState : Asks(p, v)
    BY <1>5, ReopenFields DEF Restart
  <2>2. \A l \in links' : \E k \in links : k.pane = l.pane /\ k.of = l.of
    BY <1>5, ToldFields DEF Restart
  <2>3. list' = list /\ usurped' = IF list[p] = "others" THEN usurped \cup {p} ELSE usurped
    BY <1>5 DEF Restart, hostVars
  <2> QED
    BY <1>0, <2>1, <2>2, <2>3, AsksUnseen, OthersKept
<1>6. ASSUME NEW p \in Pane, CloseTab(p) PROVE OthersOK'
  <2>1. \A l \in links' : \E k \in links : k.pane = l.pane /\ k.of = l.of
    <3>1. CASE view[p].state = "connecting" /\ view[p].on = "sessions"
      BY <1>6, <3>1, ToldFields DEF CloseTab, Abandoned
    <3>2. CASE ~(view[p].state = "connecting" /\ view[p].on = "sessions")
      BY <1>6, <3>2, ToldFields DEF CloseTab
    <3> QED
      BY <3>1, <3>2
  <2>2. \A q \in Pane : view'[q].recreate => view[q].recreate
    BY <1>6, GoneFields DEF CloseTab, TypeOK
  <2>3. list' = list /\ open' = open /\ usurped' = usurped
    BY <1>6 DEF CloseTab, hostVars
  <2> QED
    BY <1>0, <2>1, <2>2, <2>3, OthersKept DEF ByWorker
<1>7. ASSUME NEW p \in Pane, Drops(p) PROVE OthersOK'
  <2>1. \A l \in links' : \E k \in links : k.pane = l.pane /\ k.of = l.of
    BY <1>7, ToldFields DEF Drops, Abandoned
  <2>2. \A q \in Pane : view'[q].recreate => view[q].recreate
    BY <1>7, GoneFields DEF Drops, TypeOK
  <2>3. list' = list /\ open' = open /\ usurped' = usurped
    BY <1>7 DEF Drops, hostVars
  <2> QED
    BY <1>0, <2>1, <2>2, <2>3, OthersKept DEF ByWorker
<1>8. ASSUME NEW p \in Pane, Evict(p) PROVE OthersOK'
  <2>1. \A l \in links' : \E k \in links : k.pane = l.pane /\ k.of = l.of
    <3>1. CASE view[p].state = "connecting" /\ view[p].on = "sessions"
      BY <1>8, <3>1, ToldFields DEF Evict, Abandoned
    <3>2. CASE ~(view[p].state = "connecting" /\ view[p].on = "sessions")
      BY <1>8, <3>2, ToldFields DEF Evict
    <3> QED
      BY <3>1, <3>2
  <2>2. \A q \in Pane : view'[q].recreate => view[q].recreate
    BY <1>8, GoneFields DEF Evict, TypeOK
  <2>3. list' = list /\ open' = open /\ usurped' = usurped
    BY <1>8 DEF Evict, hostVars
  <2> QED
    BY <1>0, <2>1, <2>2, <2>3, OthersKept DEF ByWorker
<1>9. ASSUME NEW p \in Pane, CreatesLate(p) PROVE OthersOK'
  <2>1. \A q \in Pane : list'[q] = "others" => list[q] = "others"
    BY <1>9 DEF CreatesLate, TypeOK
  <2> QED
    BY <1>0, <1>9, <2>1, OthersKept DEF CreatesLate, histVars, ByWorker
<1>10. ASSUME NEW p \in Pane, Connects(p) PROVE OthersOK'
  <2>1. list' = list /\ view' = view /\ links' = links /\ usurped' = usurped
    BY <1>10 DEF Connects, hostVars, histVars
  <2>2. \A q \in Pane : list[q] = "others" /\ ByWorker(q)' => ByWorker(q)
    BY <1>10, GoesFields DEF Connects, ByWorker
  <2> QED
    BY <1>0, <2>1, <2>2, OthersKept
<1>11. ASSUME NEW p \in Pane, Locks(p) PROVE OthersOK'
  <2>1. list' = list /\ view' = view /\ links' = links /\ usurped' = usurped
    BY <1>11 DEF Locks, hostVars, histVars
  <2>2. \A q \in Pane : list[q] = "others" /\ ByWorker(q)' => ByWorker(q)
    BY <1>11, GoesFields, HeldFields DEF Locks, ByWorker
  <2> QED
    BY <1>0, <2>1, <2>2, OthersKept
<1>14. ASSUME NEW p \in Pane, Lists(p) PROVE OthersOK'
  <2>1. list' = list /\ view' = view /\ links' = links /\ usurped' = usurped
    BY <1>14 DEF Lists, hostVars, histVars
  <2>2. \A q \in Pane : list[q] = "others" /\ ByWorker(q)' => ByWorker(q)
    BY <1>14, GoesFields DEF Lists, ByWorker, Result
  <2> QED
    BY <1>0, <2>1, <2>2, OthersKept
<1>12. ASSUME NEW p \in Pane, NEW kind \in Result, Ensures(p, kind) PROVE OthersOK'
  <2>1. list' = list /\ view' = view /\ links' = links /\ usurped' = usurped
    BY <1>12 DEF Ensures, histVars
  <2>2. \A q \in Pane : ByWorker(q)' => ByWorker(q)
    <3>1. open[p].at = "ensure"
      BY <1>12 DEF Ensures
    <3> QED
      BY <1>12, <3>1, EnsuresFields DEF ByWorker
  <2> QED
    BY <1>0, <2>1, <2>2, OthersKept
<1>13. ASSUME NEW p \in Pane, Closes(p) PROVE OthersOK'
  <2>1. view' = view /\ links' = links /\ usurped' = usurped
    BY <1>13 DEF Closes, histVars
  <2>2. \A q \in Pane : ByWorker(q)' => ByWorker(q)
    BY <1>13, GoesFields DEF Closes, ByWorker
  <2>3. \A q \in Pane : list'[q] = "others" => list[q] = "others"
    BY <1>13 DEF Closes, TypeOK
  <2> QED
    BY <1>0, <2>1, <2>2, <2>3, OthersKept
<1>15. ASSUME NEW p \in Pane, Creates(p) PROVE OthersOK'
  <2>1. view' = view /\ links' = links /\ usurped' = usurped
    BY <1>15 DEF Creates
  <2>2. \A q \in Pane : ByWorker(q)' => ByWorker(q)
    BY <1>15, GoesFields DEF Creates, ByWorker, Result
  <2>3. \A q \in Pane : list'[q] = "others" => list[q] = "others"
    BY <1>15 DEF Creates, TypeOK
  <2> QED
    BY <1>0, <2>1, <2>2, <2>3, OthersKept
<1>16. ASSUME NEW p \in Pane, Attaches(p) PROVE OthersOK'
  <2>1. list' = list /\ view' = view /\ usurped' = usurped
    BY <1>16 DEF Attaches, hostVars, histVars
  <2>2. ByWorker(p) /\ (list[p] = "others" => p \in usurped)
    BY <1>0, <1>16 DEF Attaches, ByWorker, OthersOK
  <2>3. \A l \in links' : l \in links \/ (l.pane = p /\ l.of = list[p] /\ list[p] # "none")
    BY <1>16 DEF Attaches
  <2>4. list[p] \in {"none", "ours", "others"}
    BY DEF TypeOK
  <2>5. \A l \in links' : l.of = "ours" \/ l.pane \in usurped'
    BY <2>1, <2>2, <2>3, <2>4 DEF OthersOK
  <2>6. \A q \in Pane \ {p} : open'[q] = open[q]
    BY <1>16, GoesFields DEF Attaches, Result
  <2>7. \A q \in Pane : list[q] = "others" /\ ActsUnseen(q)' => q \in usurped
    BY <1>0, <2>1, <2>2, <2>3, <2>6 DEF OthersOK, ActsUnseen, ByWorker
  <2> QED
    BY <2>1, <2>5, <2>7 DEF OthersOK
<1>17. ASSUME NEW p \in Pane, Stores(p) PROVE OthersOK'
  <2>1. list' = list /\ usurped' = usurped
    BY <1>17 DEF Stores, hostVars
  <2>2. \A l \in links' : \E k \in links : k.pane = l.pane /\ k.of = l.of
    BY <1>17, StoresFields, ToldFields
  <2>3. \A q \in Pane : ByWorker(q)' \/ view'[q].recreate => ByWorker(q) \/ view[q].recreate
    BY <1>17, StoresFields, NoneFields DEF ByWorker
  <2> QED
    BY <1>0, <2>1, <2>2, <2>3, OthersKept
<1>18. ASSUME NEW p \in Pane, NEW q \in Pane, Rebind(p, q) PROVE OthersOK'
  <2>1. \A o \in Pane : ByWorker(o)' \/ view'[o].recreate =>
          ByWorker(o) \/ view[o].recreate \/ (o = q /\ view[p].recreate)
    BY <1>18, RebindFields, GoneFields DEF ByWorker
  <2>2. /\ list' = list /\ links' = links
        /\ usurped' = IF view[p].recreate /\ list[q] = "others" THEN usurped \cup {q} ELSE usurped
    BY <1>18, RebindFields
  <2> QED
    BY <1>0, <2>1, <2>2, OthersKept
<1>19. ASSUME NEW kind \in Result, StartupEnds(kind) PROVE OthersOK'
  <2>1. list' = list /\ links' = links /\ open' = open /\ usurped' = usurped
    BY <1>19 DEF StartupEnds, histVars
  <2>2. \A q \in Pane : view'[q].recreate => view[q].recreate
    BY <1>19, StartupFields
  <2> QED
    BY <1>0, <2>1, <2>2, OthersKept DEF ByWorker
<1>20. ASSUME Adopts PROVE OthersOK'
  <2>1. view' = Adopted(Head(news)) /\ UNCHANGED <<list, open, links, usurped>>
    BY <1>20 DEF Adopts, hostVars, histVars
  <2>2. \A q \in Pane : view'[q].recreate => view[q].recreate
    BY <2>1, AdoptedFields, GoneFields
  <2> QED
    BY <1>0, <2>1, <2>2, OthersKept DEF ByWorker
<1>21. ASSUME Lapses PROVE OthersOK'
  BY <1>0, <1>21, OthersKept DEF Lapses, hostVars, histVars, ByWorker
<1>22. ASSUME NEW l \in links, OwnerEnds(l) PROVE OthersOK'
  <2>1. \A q \in Pane : list'[q] = "others" => list[q] = "others"
    BY <1>22 DEF OwnerEnds, TypeOK, Link
  <2> QED
    BY <1>0, <1>22, <2>1, OthersKept DEF OwnerEnds, ByWorker
<1>23. ASSUME NEW l \in links, Reconnects(l) PROVE OthersOK'
  <2>1. l \in Link /\ list[l.pane] \in {"none", "ours", "others"}
    BY DEF TypeOK, Link
  <2>2. \A j \in links' : \/ j \in links
                          \/ j.pane = l.pane /\ (j.of = l.of \/ (j.of = list[l.pane] /\ list[l.pane] # "none"))
    BY <1>23, <2>1 DEF Reconnects, Link
  <2>3. list[l.pane] = "others" => l.pane \in usurped
    BY <2>1 DEF OthersOK, ActsUnseen, Link
  <2>4. \A j \in links' : j.of = "ours" \/ j.pane \in usurped
    BY <2>1, <2>2, <2>3 DEF OthersOK
  <2>5. UNCHANGED <<list, open, view, usurped>>
    BY <1>23 DEF Reconnects, hostVars, histVars
  <2>6. \A q \in Pane : ActsUnseen(q)' => ActsUnseen(q)
    BY <2>2, <2>5 DEF ActsUnseen
  <2> QED
    BY <2>4, <2>5, <2>6 DEF OthersOK
<1>24. ASSUME NEW dies \in BOOLEAN, Cut(dies) PROVE OthersOK'
  <2>1. \A q \in Pane : list'[q] = "others" => list[q] = "others"
    BY <1>24 DEF Cut, hostVars
  <2>2. view' = view /\ usurped' = usurped
    BY <1>24 DEF Cut, histVars
  <2>3. \A l \in links' : \E k \in links : k.pane = l.pane /\ k.of = l.of
    BY <1>24, CutFields
  <2>4. \A q \in Pane : ByWorker(q)' => ByWorker(q)
    BY <1>24, CutFields DEF ByWorker
  <2> QED
    BY <1>0, <2>1, <2>2, <2>3, <2>4, OthersKept
<1>25. ASSUME FallsSilent PROVE OthersOK'
  BY <1>0, <1>25, OthersKept DEF FallsSilent, histVars, ByWorker
<1>26. ASSUME AnswersAgain PROVE OthersOK'
  BY <1>0, <1>26, OthersKept DEF AnswersAgain, histVars, ByWorker
<1>27. ASSUME UNCHANGED vars PROVE OthersOK'
  BY <1>0, <1>27, OthersKept DEF vars, hostVars, histVars, ByWorker
<1>28. ASSUME NEW p \in Pane, AnotherCreates(p) PROVE OthersOK'
  <2>1. \A q \in Pane : list'[q] = "others" => list[q] = "others" \/ q = p
    BY <1>28 DEF AnotherCreates, TypeOK
  <2>2. usurped' = IF ActsUnseen(p) THEN usurped \cup {p} ELSE usurped
    BY <1>28 DEF AnotherCreates
  <2>3. UNCHANGED <<links, open, view>>
    BY <1>28 DEF AnotherCreates
  <2> QED
    BY <2>1, <2>2, <2>3 DEF OthersOK, ActsUnseen
<1> QED
  BY <1>1, <1>2, <1>3, <1>4, <1>5, <1>6, <1>7, <1>8, <1>9, <1>10, <1>11, <1>12, <1>13, <1>14,
     <1>15, <1>16, <1>17, <1>18, <1>19, <1>20, <1>21, <1>22, <1>23, <1>24, <1>25, <1>26, <1>27,
     <1>28
     DEF Next, WorkerStep

(* What ends a session is under way only for a pane the user asked it for. *)
LEMMA AskedStep == TypeOK /\ SlotOK /\ AskedOK /\ [Next]_vars => AskedOK'
<1> SUFFICES ASSUME TypeOK, SlotOK, AskedOK, [Next]_vars PROVE AskedOK'
  OBVIOUS
<1> USE DEF SlotOK, AskedOK
<1>1. ASSUME NEW p \in Pane, NewTab(p) PROVE AskedOK'
  BY <1>1, GoneFields DEF NewTab, TypeOK, histVars
<1>2. ASSUME NEW p \in Pane, Show(p) PROVE AskedOK'
  <2>1. view[p] \in ViewState /\ Asks(p, view[p])
    BY <1>2 DEF TypeOK, Show
  <2>8. links' = links /\ asked' = asked
    BY <1>2 DEF Show, histVars
  <2> QED
    BY <1>2, <2>1, AsksFields, <2>8, NoneFields, TerminalOpenAssumption DEF TerminalOpenAssumption
<1>3. ASSUME NEW p \in Pane, AsksAgain(p) PROVE AskedOK'
  <2>1. view[p] \in ViewState /\ Asks(p, view[p])
    BY <1>3 DEF TypeOK, AsksAgain
  <2>8. links' = links /\ asked' = asked
    BY <1>3 DEF AsksAgain, histVars
  <2> QED
    BY <1>3, <2>1, AsksFields, <2>8, NoneFields, TerminalOpenAssumption DEF TerminalOpenAssumption
<1>4. ASSUME NEW p \in Pane, Retry(p) PROVE AskedOK'
  <2>1. PICK v \in ViewState : Asks(p, v) /\ (v.recreate => view[p].recreate)
    BY <1>4, RetryAsks
  <2>8. links' = links /\ asked' = asked
    BY <1>4 DEF Retry, histVars
  <2> QED
    BY <1>4, <2>1, AsksFields, <2>8, NoneFields, TerminalOpenAssumption DEF TerminalOpenAssumption
<1>5. ASSUME NEW p \in Pane, Restart(p) PROVE AskedOK'
  <2>1. PICK v \in ViewState : Asks(p, v)
    BY <1>5, ReopenFields DEF Restart
  <2>8. /\ asked' = asked \cup {p}
        /\ \A l \in links' : l.ends => l.pane = p \/ l \in links
    BY <1>5, ToldFields DEF Restart, TypeOK
  <2> QED
    BY <1>5, <2>1, AsksFields, <2>8, NoneFields, TerminalOpenAssumption DEF TerminalOpenAssumption
<1>6. ASSUME NEW p \in Pane, CloseTab(p) PROVE AskedOK'
  <2>1. \A l \in links' : l.ends => l.pane = p \/ l \in links
    <3>1. CASE view[p].state = "connecting" /\ view[p].on = "sessions"
      BY <1>6, <3>1, ToldFields DEF CloseTab, Abandoned
    <3>2. CASE ~(view[p].state = "connecting" /\ view[p].on = "sessions")
      BY <1>6, <3>2, ToldFields DEF CloseTab
    <3> QED
      BY <3>1, <3>2
  <2>2. \A q \in Pane : slots'[q].abandoned = "end" => q = p \/ slots[q].abandoned = "end"
    <3>1. CASE view[p].state = "connecting" /\ view[p].on = "sessions"
      BY <1>6, <3>1, AbandonedFields DEF CloseTab, Intent
    <3>2. CASE ~(view[p].state = "connecting" /\ view[p].on = "sessions")
      BY <1>6, <3>2 DEF CloseTab
    <3> QED
      BY <3>1, <3>2
  <2>3. asked' = asked \cup {p} /\ open' = open
    BY <1>6 DEF CloseTab
  <2>4. \A q \in Pane : view'[q] = view[q] \/ ~view'[q].recreate
    BY <1>6, GoneFields DEF CloseTab, TypeOK
  <2> QED
    BY <2>1, <2>2, <2>3, <2>4
<1>7. ASSUME NEW p \in Pane, Drops(p) PROVE AskedOK'
  <2>1. \A l \in links' : l.ends => l \in links
    BY <1>7, ToldFields DEF Drops, Abandoned
  <2>2. \A q \in Pane : slots'[q].abandoned = "end" => slots[q].abandoned = "end"
    BY <1>7, AbandonedFields DEF Drops, Intent
  <2>3. asked' = asked /\ open' = open
    BY <1>7 DEF Drops
  <2>4. \A q \in Pane : view'[q] = view[q] \/ ~view'[q].recreate
    BY <1>7, GoneFields DEF Drops, TypeOK
  <2> QED
    BY <2>1, <2>2, <2>3, <2>4
<1>8. ASSUME NEW p \in Pane, Evict(p) PROVE AskedOK'
  <2>1. \A l \in links' : l.ends => l \in links
    <3>1. CASE view[p].state = "connecting" /\ view[p].on = "sessions"
      BY <1>8, <3>1, ToldFields DEF Evict, Abandoned
    <3>2. CASE ~(view[p].state = "connecting" /\ view[p].on = "sessions")
      BY <1>8, <3>2, ToldFields DEF Evict
    <3> QED
      BY <3>1, <3>2
  <2>2. \A q \in Pane : slots'[q].abandoned = "end" => slots[q].abandoned = "end"
    <3>1. CASE view[p].state = "connecting" /\ view[p].on = "sessions"
      BY <1>8, <3>1, AbandonedFields DEF Evict, Intent
    <3>2. CASE ~(view[p].state = "connecting" /\ view[p].on = "sessions")
      BY <1>8, <3>2 DEF Evict
    <3> QED
      BY <3>1, <3>2
  <2>3. asked' = asked /\ open' = open
    BY <1>8 DEF Evict
  <2>4. \A q \in Pane : view'[q] = view[q] \/ ~view'[q].recreate
    BY <1>8, GoneFields DEF Evict, TypeOK
  <2> QED
    BY <2>1, <2>2, <2>3, <2>4
<1>9. ASSUME NEW p \in Pane, CreatesLate(p) PROVE AskedOK'
  BY <1>9 DEF CreatesLate, hostVars, histVars
<1>10. ASSUME NEW p \in Pane, Connects(p) PROVE AskedOK'
  BY <1>10, GoesFields DEF Connects, Result, histVars
<1>11. ASSUME NEW p \in Pane, Locks(p) PROVE AskedOK'
  <2>1. Held(p) => route.failed \in Result
    BY HeldFields
  <2>2. view' = view /\ slots' = slots /\ links' = links /\ asked' = asked
    BY <1>11 DEF Locks, histVars
  <2>3. \A q \in Pane : /\ (open'[q].recreate <=> open[q].recreate)
                        /\ open'[q].at = "close" => open[q].at = "close" \/ open[q].recreate
    BY <1>11, <2>1, GoesFields DEF Locks
  <2> QED
    BY <2>2, <2>3
<1>12. ASSUME NEW p \in Pane, NEW kind \in Result, Ensures(p, kind) PROVE AskedOK'
  <2>1. asked' = asked /\ view' = view /\ slots' = slots /\ links' = links
    BY <1>12 DEF Ensures, histVars
  <2> QED
    BY <1>12, <2>1, EnsuresFields
<1>13. ASSUME NEW p \in Pane, Closes(p) PROVE AskedOK'
  BY <1>13, GoesFields DEF Closes, Result, histVars
<1>14. ASSUME NEW p \in Pane, Lists(p) PROVE AskedOK'
  BY <1>14, GoesFields DEF Lists, Result, histVars
<1>15. ASSUME NEW p \in Pane, Creates(p) PROVE AskedOK'
  <2>1. \A q \in Pane : (open'[q].recreate <=> open[q].recreate) /\ (open'[q].at = "close" => open[q].at = "close")
    BY <1>15, GoesFields DEF Creates, Result
  <2>2. view' = view /\ slots' = slots /\ asked' = asked
    BY <1>15 DEF Creates, histVars
  <2>3. \A l \in links' : l.ends => l \in links
    BY <1>15 DEF Creates
  <2> QED
    BY <2>1, <2>2, <2>3
<1>16. ASSUME NEW p \in Pane, Attaches(p) PROVE AskedOK'
  <2>1. \A q \in Pane : (open'[q].recreate <=> open[q].recreate) /\ (open'[q].at = "close" => open[q].at = "close")
    BY <1>16, GoesFields DEF Attaches, Result
  <2>2. view' = view /\ slots' = slots /\ asked' = asked
    BY <1>16 DEF Attaches, histVars
  <2>3. \A l \in links' : l.ends => l \in links
    BY <1>16 DEF Attaches
  <2> QED
    BY <2>1, <2>2, <2>3
<1>17. ASSUME NEW p \in Pane, Stores(p) PROVE AskedOK'
  <2>1. asked' = asked
    BY <1>17 DEF Stores
  <2>2. \A l \in links' : l.ends => l \in links \/ (l.pane = p /\ slots[p].abandoned = "end")
    BY <1>17, StoresFields, ToldFields
  <2> QED
    BY <1>17, <2>1, <2>2, StoresFields, NoneFields, TerminalOpenAssumption DEF
       TerminalOpenAssumption
<1>18. ASSUME NEW p \in Pane, NEW q \in Pane, Rebind(p, q) PROVE AskedOK'
  BY <1>18, RebindFields, GoneFields, TerminalOpenAssumption DEF TerminalOpenAssumption
<1>19. ASSUME NEW kind \in Result, StartupEnds(kind) PROVE AskedOK'
  <2>9. slots' = slots /\ asked' = asked /\ links' = links /\ open' = open
    BY <1>19 DEF StartupEnds, histVars
  <2> QED
    BY <1>19, StartupFields, <2>9
<1>20. ASSUME Adopts PROVE AskedOK'
  <2>1. view' = Adopted(Head(news)) /\ UNCHANGED <<asked, slots, open, links>>
    BY <1>20 DEF Adopts, histVars
  <2> QED
    BY <2>1, AdoptedFields, GoneFields
<1>21. ASSUME Lapses PROVE AskedOK'
  BY <1>21 DEF Lapses, hostVars, histVars
<1>22. ASSUME NEW l \in links, OwnerEnds(l) PROVE AskedOK'
  BY <1>22 DEF OwnerEnds, hostVars, histVars
<1>23. ASSUME NEW l \in links, Reconnects(l) PROVE AskedOK'
  <2>1. \A k \in links' : k \in links \/ (k.pane = l.pane /\ k.ends = l.ends)
    BY <1>23 DEF Reconnects, TypeOK, Link
  <2> QED
    BY <1>23, <2>1 DEF Reconnects, histVars
<1>24. ASSUME NEW dies \in BOOLEAN, Cut(dies) PROVE AskedOK'
  <2>2. view' = view /\ slots' = slots /\ asked' = asked
    BY <1>24 DEF Cut, histVars
  <2> QED
    BY <1>24, <2>2, CutFields
<1>25. ASSUME FallsSilent PROVE AskedOK'
  BY <1>25 DEF FallsSilent, hostVars, histVars
<1>26. ASSUME AnswersAgain PROVE AskedOK'
  BY <1>26 DEF AnswersAgain, hostVars, histVars
<1>27. ASSUME UNCHANGED vars PROVE AskedOK'
  BY <1>27 DEF vars, hostVars, histVars
<1>28. ASSUME NEW p \in Pane, AnotherCreates(p) PROVE AskedOK'
  BY <1>28 DEF AnotherCreates
<1> QED
  BY <1>1, <1>2, <1>3, <1>4, <1>5, <1>6, <1>7, <1>8, <1>9, <1>10, <1>11, <1>12, <1>13, <1>14,
     <1>15, <1>16, <1>17, <1>18, <1>19, <1>20, <1>21, <1>22, <1>23, <1>24, <1>25, <1>26, <1>27,
     <1>28
     DEF Next, WorkerStep

(* A view that waits has somebody to wake it. *)
LEMMA WakeStep == TypeOK /\ SlotOK /\ StartOK /\ WaitersAreWoken /\ [Next]_vars => WaitersAreWoken'
<1> SUFFICES ASSUME TypeOK, SlotOK, StartOK, WaitersAreWoken, [Next]_vars PROVE WaitersAreWoken'
  OBVIOUS
<1> USE DEF SlotOK, StartOK, WaitersAreWoken
<1>0. factory \in {"startup", "sessions"}
  BY DEF TypeOK
<1>1. ASSUME NEW p \in Pane, NewTab(p) PROVE WaitersAreWoken'
  BY <1>1, GoneFields DEF NewTab, TypeOK, hostVars, histVars
<1>2. ASSUME NEW p \in Pane, Show(p) PROVE WaitersAreWoken'
  <2>1. view[p] \in ViewState /\ Asks(p, view[p])
    BY <1>2 DEF TypeOK, Show
  <2> QED
    BY <1>2, <2>1, AsksFields, <1>0 DEF Show
<1>3. ASSUME NEW p \in Pane, AsksAgain(p) PROVE WaitersAreWoken'
  <2>1. view[p] \in ViewState /\ Asks(p, view[p])
    BY <1>3 DEF TypeOK, AsksAgain
  <2> QED
    BY <1>3, <2>1, AsksFields, <1>0 DEF AsksAgain
<1>4. ASSUME NEW p \in Pane, Retry(p) PROVE WaitersAreWoken'
  <2>1. PICK v \in ViewState : Asks(p, v) /\ (v.recreate => view[p].recreate)
    BY <1>4, RetryAsks
  <2> QED
    BY <1>4, <2>1, AsksFields, <1>0 DEF Retry
<1>5. ASSUME NEW p \in Pane, Restart(p) PROVE WaitersAreWoken'
  <2>1. PICK v \in ViewState : Asks(p, v)
    BY <1>5, ReopenFields DEF Restart
  <2> QED
    BY <1>5, <2>1, AsksFields, <1>0 DEF Restart
<1>6. ASSUME NEW p \in Pane, CloseTab(p) PROVE WaitersAreWoken'
  <2>1. CASE view[p].state = "connecting" /\ view[p].on = "sessions"
    BY <1>6, <2>1, AbandonedFields, GoneFields, TerminalOpenAssumption DEF CloseTab, Intent,
       hostVars, histVars, TerminalOpenAssumption
  <2>2. CASE ~(view[p].state = "connecting" /\ view[p].on = "sessions")
    BY <1>6, <2>2, GoneFields, TerminalOpenAssumption DEF CloseTab, hostVars, histVars,
       TerminalOpenAssumption
  <2> QED
    BY <2>1, <2>2
<1>7. ASSUME NEW p \in Pane, Drops(p) PROVE WaitersAreWoken'
  BY <1>7, AbandonedFields, GoneFields, TerminalOpenAssumption DEF Drops, Intent, hostVars,
     TerminalOpenAssumption
<1>8. ASSUME NEW p \in Pane, Evict(p) PROVE WaitersAreWoken'
  <2>1. CASE view[p].state = "connecting" /\ view[p].on = "sessions"
    BY <1>8, <2>1, AbandonedFields, GoneFields, TerminalOpenAssumption DEF Evict, Intent, hostVars,
       histVars, TerminalOpenAssumption
  <2>2. CASE ~(view[p].state = "connecting" /\ view[p].on = "sessions")
    BY <1>8, <2>2, GoneFields, TerminalOpenAssumption DEF Evict, hostVars, histVars,
       TerminalOpenAssumption
  <2> QED
    BY <2>1, <2>2
<1>9. ASSUME NEW p \in Pane, CreatesLate(p) PROVE WaitersAreWoken'
  BY <1>9 DEF CreatesLate, hostVars, histVars
<1>10. ASSUME NEW p \in Pane, Connects(p) PROVE WaitersAreWoken'
  BY <1>10, GoesFields DEF Connects, Result, hostVars, histVars
<1>11. ASSUME NEW p \in Pane, Locks(p) PROVE WaitersAreWoken'
  <2>1. Held(p) => route.failed \in Result /\ route.failed # "linked"
    BY HeldFields
  <2> QED
    BY <1>11, <2>1, GoesFields DEF Locks, hostVars, histVars
<1>12. ASSUME NEW p \in Pane, NEW kind \in Result, Ensures(p, kind) PROVE WaitersAreWoken'
  BY <1>12, EnsuresFields DEF Ensures, histVars
<1>13. ASSUME NEW p \in Pane, Closes(p) PROVE WaitersAreWoken'
  BY <1>13, GoesFields DEF Closes, Result, hostVars, histVars
<1>14. ASSUME NEW p \in Pane, Lists(p) PROVE WaitersAreWoken'
  BY <1>14, GoesFields DEF Lists, Result, hostVars, histVars
<1>15. ASSUME NEW p \in Pane, Creates(p) PROVE WaitersAreWoken'
  BY <1>15, GoesFields DEF Creates, Result, hostVars, histVars
<1>16. ASSUME NEW p \in Pane, Attaches(p) PROVE WaitersAreWoken'
  BY <1>16, GoesFields DEF Attaches, Result, hostVars, histVars
<1>17. ASSUME NEW p \in Pane, Stores(p) PROVE WaitersAreWoken'
  BY <1>17, StoresFields
<1>18. ASSUME NEW p \in Pane, NEW q \in Pane, Rebind(p, q) PROVE WaitersAreWoken'
  BY <1>18, RebindFields, GoneFields
<1>19. ASSUME NEW kind \in Result, StartupEnds(kind) PROVE WaitersAreWoken'
  BY <1>19, StartupFields
<1>20. ASSUME Adopts PROVE WaitersAreWoken'
  BY <1>20, AdoptedFields, GoneFields DEF Adopts, hostVars, histVars
<1>21. ASSUME Lapses PROVE WaitersAreWoken'
  BY <1>21 DEF Lapses, hostVars, histVars
<1>22. ASSUME NEW l \in links, OwnerEnds(l) PROVE WaitersAreWoken'
  BY <1>22 DEF OwnerEnds, hostVars, histVars
<1>23. ASSUME NEW l \in links, Reconnects(l) PROVE WaitersAreWoken'
  BY <1>23 DEF Reconnects, hostVars, histVars
<1>24. ASSUME NEW dies \in BOOLEAN, Cut(dies) PROVE WaitersAreWoken'
  BY <1>24, CutFields DEF Cut, histVars, hostVars
<1>25. ASSUME FallsSilent PROVE WaitersAreWoken'
  BY <1>25 DEF FallsSilent, hostVars, histVars
<1>26. ASSUME AnswersAgain PROVE WaitersAreWoken'
  BY <1>26 DEF AnswersAgain, hostVars, histVars
<1>27. ASSUME UNCHANGED vars PROVE WaitersAreWoken'
  BY <1>27 DEF vars, hostVars, histVars
<1>28. ASSUME NEW p \in Pane, AnotherCreates(p) PROVE WaitersAreWoken'
  BY <1>28 DEF AnotherCreates
<1> QED
  BY <1>1, <1>2, <1>3, <1>4, <1>5, <1>6, <1>7, <1>8, <1>9, <1>10, <1>11, <1>12, <1>13, <1>14,
     <1>15, <1>16, <1>17, <1>18, <1>19, <1>20, <1>21, <1>22, <1>23, <1>24, <1>25, <1>26, <1>27,
     <1>28
     DEF Next, WorkerStep

-----------------------------------------------------------------------------
(* How the host's list changes in a step, pane by pane. *)
ListMoves ==
  \A p \in Pane :
    \/ list'[p] = list[p] \/ host' = "none"
    \/ list[p] = "none" /\ list'[p] \in {"ours", "others"}
    \/ open[p].at = "close" /\ list'[p] = "none"
    \/ list'[p] = "none" /\ \E l \in links : l.pane = p /\ l.ends

(* A session is listed by its create, and leaves the list with the host, by the close of a
   restart, or by that of a link that is ended. *)
LEMMA ListStep == TypeOK /\ [Next]_vars => ListMoves
<1> SUFFICES ASSUME TypeOK, [Next]_vars PROVE ListMoves
  OBVIOUS
<1> USE DEF ListMoves
<1>1. ASSUME NEW p \in Pane, NewTab(p) PROVE ListMoves
  BY <1>1 DEF NewTab, hostVars
<1>2. ASSUME NEW p \in Pane, Show(p) PROVE ListMoves
  BY <1>2 DEF Show, hostVars
<1>3. ASSUME NEW p \in Pane, AsksAgain(p) PROVE ListMoves
  BY <1>3 DEF AsksAgain, hostVars
<1>4. ASSUME NEW p \in Pane, Retry(p) PROVE ListMoves
  BY <1>4 DEF Retry, hostVars
<1>5. ASSUME NEW p \in Pane, Restart(p) PROVE ListMoves
  BY <1>5 DEF Restart, hostVars
<1>6. ASSUME NEW p \in Pane, CloseTab(p) PROVE ListMoves
  BY <1>6 DEF CloseTab, hostVars
<1>7. ASSUME NEW p \in Pane, Drops(p) PROVE ListMoves
  BY <1>7 DEF Drops, hostVars
<1>8. ASSUME NEW p \in Pane, Evict(p) PROVE ListMoves
  BY <1>8 DEF Evict, hostVars
<1>9. ASSUME NEW p \in Pane, CreatesLate(p) PROVE ListMoves
  BY <1>9 DEF CreatesLate, TypeOK
<1>10. ASSUME NEW p \in Pane, Connects(p) PROVE ListMoves
  BY <1>10 DEF Connects, hostVars
<1>11. ASSUME NEW p \in Pane, Locks(p) PROVE ListMoves
  BY <1>11 DEF Locks, hostVars
<1>12. ASSUME NEW p \in Pane, NEW kind \in Result, Ensures(p, kind) PROVE ListMoves
  BY <1>12 DEF Ensures
<1>13. ASSUME NEW p \in Pane, Closes(p) PROVE ListMoves
  BY <1>13 DEF Closes, TypeOK
<1>14. ASSUME NEW p \in Pane, Lists(p) PROVE ListMoves
  BY <1>14 DEF Lists, hostVars
<1>15. ASSUME NEW p \in Pane, Creates(p) PROVE ListMoves
  BY <1>15 DEF Creates, TypeOK
<1>16. ASSUME NEW p \in Pane, Attaches(p) PROVE ListMoves
  BY <1>16 DEF Attaches, hostVars
<1>17. ASSUME NEW p \in Pane, Stores(p) PROVE ListMoves
  BY <1>17 DEF Stores, hostVars
<1>18. ASSUME NEW p \in Pane, NEW q \in Pane, Rebind(p, q) PROVE ListMoves
  BY <1>18 DEF Rebind, hostVars
<1>19. ASSUME NEW kind \in Result, StartupEnds(kind) PROVE ListMoves
  BY <1>19 DEF StartupEnds
<1>20. ASSUME Adopts PROVE ListMoves
  BY <1>20 DEF Adopts, hostVars
<1>21. ASSUME Lapses PROVE ListMoves
  BY <1>21 DEF Lapses, hostVars
<1>22. ASSUME NEW l \in links, OwnerEnds(l) PROVE ListMoves
  BY <1>22 DEF OwnerEnds, TypeOK, Link
<1>23. ASSUME NEW l \in links, Reconnects(l) PROVE ListMoves
  BY <1>23 DEF Reconnects, hostVars
<1>24. ASSUME NEW dies \in BOOLEAN, Cut(dies) PROVE ListMoves
  BY <1>24 DEF Cut, hostVars
<1>25. ASSUME FallsSilent PROVE ListMoves
  BY <1>25 DEF FallsSilent, hostVars
<1>26. ASSUME AnswersAgain PROVE ListMoves
  BY <1>26 DEF AnswersAgain, hostVars
<1>27. ASSUME UNCHANGED vars PROVE ListMoves
  BY <1>27 DEF vars, hostVars, histVars
<1>28. ASSUME NEW p \in Pane, AnotherCreates(p) PROVE ListMoves
  BY <1>28 DEF AnotherCreates, TypeOK
<1> QED
  BY <1>1, <1>2, <1>3, <1>4, <1>5, <1>6, <1>7, <1>8, <1>9, <1>10, <1>11, <1>12, <1>13, <1>14,
     <1>15, <1>16, <1>17, <1>18, <1>19, <1>20, <1>21, <1>22, <1>23, <1>24, <1>25, <1>26, <1>27,
     <1>28
     DEF Next, WorkerStep

-----------------------------------------------------------------------------
(* An owner that is told to end is not forgotten, and only the pane's own is told. *)
LEMMA ToldKeeps ==
  ASSUME TypeOK, NEW p \in Pane, NEW q \in Pane, NEW op
  PROVE  /\ Ending(links, q) => Ending(Told(p, op), q)
         /\ q # p /\ Alive(links, q) => Alive(Told(p, op), q)
         /\ op = "end" /\ Alive(links, p) => Ending(Told(p, op), p)
<1>1. \A l \in links : l.ends \/ l.pane # p => l \in Told(p, op)
  BY DEF Told
<1>2. ASSUME op = "end", NEW l \in links, l.pane = p, ~l.ends
      PROVE  Ending(Told(p, op), p)
  <2>1. /\ [l EXCEPT !.ends = TRUE].pane = p /\ [l EXCEPT !.ends = TRUE].ends
    BY <1>2 DEF TypeOK, Link
  <2>2. [l EXCEPT !.ends = TRUE] \in Told(p, op)
    BY <1>2 DEF Told
  <2> QED
    BY <2>1, <2>2 DEF Ending
<1> QED
  BY <1>1, <1>2 DEF Alive, Ending

(* What giving up an open leaves: the intent in a slot in flight, the owner of a
   finished open's link told, or a pane that was missed. *)
LEMMA AbandonedKeeps ==
  ASSUME TypeOK, NEW p \in Pane, NEW i \in Intent, Abandoned(p, i), NEW q \in Pane
  PROVE  /\ missed \subseteq missed'
         /\ Ending(links, q) => Ending(links', q)
         /\ q # p => slots'[q] = slots[q] /\ (Alive(links, q) => Alive(links', q))
         /\ slots[p].state = "flight" =>
              /\ slots'[p].state = "flight" /\ links' = links
              /\ "end" \in {slots[p].abandoned, i} => slots'[p].abandoned = "end"
         /\ slots[p].state # "flight" => slots'[p] = NoSlot
         /\ i = "end" /\ slots[p].state # "flight" =>
              \/ slots[p].result # "linked" /\ p \in missed'
              \/ slots[p].result = "linked" /\ slots[p].state = "none"
              \/ slots[p].result = "linked" /\ slots[p].state = "ready"
                   /\ (Alive(links, p) => Ending(links', p))
<1>1. links' = links \/ links' = Told(p, i)
  BY DEF Abandoned
<1>2. /\ Ending(links, q) => Ending(links', q)
      /\ q # p => (Alive(links, q) => Alive(links', q))
  BY <1>1, ToldKeeps
<1>3. q # p => slots'[q] = slots[q]
  BY DEF TypeOK, Abandoned
<1>4. CASE slots[p].state = "flight"
  <2>1. /\ [slots[p] EXCEPT !.abandoned = Merged(slots[p].abandoned, i)].state = slots[p].state
        /\ [slots[p] EXCEPT !.abandoned = Merged(slots[p].abandoned, i)].abandoned
             = Merged(slots[p].abandoned, i)
    BY DEF TypeOK, Slot
  <2>2. slots'[p] = [slots[p] EXCEPT !.abandoned = Merged(slots[p].abandoned, i)]
    BY <1>4 DEF TypeOK, Abandoned
  <2>3. "end" \in {slots[p].abandoned, i} => Merged(slots[p].abandoned, i) = "end"
    BY DEF Merged
  <2>4. links' = links /\ missed' = missed
    BY <1>4 DEF Abandoned
  <2> QED
    BY <1>2, <1>3, <1>4, <2>1, <2>2, <2>3, <2>4
<1>5. CASE slots[p].state # "flight"
  <2>1. slots'[p] = NoSlot
    BY <1>5 DEF TypeOK, Abandoned
  <2>2. missed \subseteq missed' /\ (i = "end" /\ slots[p].result # "linked" => p \in missed')
    BY <1>5 DEF Abandoned
  <2>3. slots[p].state \in {"none", "ready"}
    BY <1>5 DEF TypeOK, Slot
  <2>4. slots[p].state = "ready" => links' = Told(p, i)
    BY DEF Abandoned
  <2>5. i = "end" /\ slots[p].state = "ready" /\ Alive(links, p) => Ending(links', p)
    BY <2>4, ToldKeeps
  <2> QED
    BY <1>2, <1>3, <1>5, <2>1, <2>2, <2>3, <2>5
<1> QED
  BY <1>4, <1>5

(* Connections that drop or come back change nobody's intent. *)
LEMMA LinksKeep ==
  ASSUME TypeOK, NEW p \in Pane
  PROVE  /\ \A dies \in BOOLEAN : Cut(dies) =>
              (Alive(links, p) => Alive(links', p)) /\ (Ending(links, p) => Ending(links', p))
         /\ \A l \in links : Reconnects(l) =>
              (Alive(links, p) => Alive(links', p)) /\ (Ending(links, p) => Ending(links', p))
         /\ \A l \in links : OwnerEnds(l) =>
              (Alive(links, p) => Alive(links', p)) /\ (l.pane # p /\ Ending(links, p) => Ending(links', p))
<1>1. \A k \in Link : \A c \in {"up", "down", "lost"} :
        [k EXCEPT !.conn = c].pane = k.pane /\ [k EXCEPT !.conn = c].ends = k.ends
  BY DEF Link
<1>2. ASSUME NEW dies \in BOOLEAN, Cut(dies)
      PROVE  (Alive(links, p) => Alive(links', p)) /\ (Ending(links, p) => Ending(links', p))
  <2>1. \A k \in links : \E l \in links' : l.pane = k.pane /\ l.ends = k.ends
    <3> TAKE k \in links
    <3>1. (IF k.conn = "up" THEN [k EXCEPT !.conn = "down"] ELSE k) \in links'
      BY <1>2 DEF Cut
    <3> QED
      BY <1>1, <3>1 DEF TypeOK
  <2> QED
    BY <2>1 DEF Alive, Ending
<1>3. ASSUME NEW l \in links, Reconnects(l)
      PROVE  (Alive(links, p) => Alive(links', p)) /\ (Ending(links, p) => Ending(links', p))
  <2>1. \A k \in links : \E n \in links' : n.pane = k.pane /\ n.ends = k.ends
    <3> TAKE k \in links
    <3>1. CASE k # l
      BY <1>3, <3>1 DEF Reconnects
    <3>2. CASE k = l
      <4>1. l \in Link
        BY DEF TypeOK
      <4>2. PICK n \in links' : \/ n = [l EXCEPT !.conn = "up", !.of = list[l.pane]]
                              \/ n = [l EXCEPT !.conn = "lost"]
        BY <1>3 DEF Reconnects
      <4>3. n.pane = l.pane /\ n.ends = l.ends
        BY <4>1, <4>2 DEF Link
      <4> QED
        BY <3>2, <4>3
    <3> QED
      BY <3>1, <3>2
  <2> QED
    BY <2>1 DEF Alive, Ending
<1>4. ASSUME NEW l \in links, OwnerEnds(l)
      PROVE  (Alive(links, p) => Alive(links', p)) /\ (l.pane # p /\ Ending(links, p) => Ending(links', p))
  BY <1>4 DEF OwnerEnds, Alive, Ending
<1> QED
  BY <1>2, <1>3, <1>4

(* A worker that was given up for an end tells the owner of its link. *)
LEMMA StoresEnds ==
  ASSUME TypeOK, NEW p \in Pane, Stores(p)
  PROVE  /\ missed \subseteq missed'
         /\ slots[p].abandoned = "end" =>
              /\ slots'[p] = NoSlot /\ links' = Told(p, "end")
              /\ open[p].result # "linked" => p \in missed'
  BY TerminalOpenAssumption DEF TypeOK, Stores, TerminalOpenAssumption

(* Nothing was linked in an empty slot. *)
LEMMA EmptyFields == NoSlot.state = "none" /\ NoSlot.result = "failed" /\ NoWorker.at = "none"
  BY DEF NoSlot, NoWorker

-----------------------------------------------------------------------------
(* What is linked keeps its link. *)
Stays(q) ==
  /\ slots'[q] = slots[q]
  /\ open'[q].at = "store" /\ open'[q].result = "linked" =>
       open[q].at = "store" /\ open[q].result = "linked"
  /\ view'[q].state = "running" => view[q].state = "running"
  /\ Alive(links, q) => Alive(links', q)

LEMMA StaysLinked == ASSUME NEW q, LinkAt(q), Stays(q) PROVE LinkAt(q)'
  BY DEF LinkAt, Stays

(* So does a view that asks: it takes the link with the result. *)
LEMMA AsksLinked ==
  ASSUME TypeOK, SlotOK, NEW q \in Pane, LinkAt(q), NEW p \in Pane, NEW v \in ViewState, Asks(p, v),
         p # q => (Alive(links, q) => Alive(links', q)),
         links' = links \/ view[p].state = "running" \/ (view[p].state \in {"local", "beside"} /\ slots[p].state = "none")
  PROVE  LinkAt(q)'
<1>1. CASE p # q
  BY <1>1, AsksFields, StaysLinked DEF Stays
<1>2. CASE p = q
  <2>1. slots[q].state = "none" => open[q].at = "none"
    BY DEF SlotOK, TypeOK, Slot
  <2>2. slots[q].state # "none" => links' = links
    BY <1>2 DEF LinkAt
  <2> QED
    BY <1>2, <2>1, <2>2, AsksFields, EmptyFields DEF LinkAt, SlotOK
<1> QED
  BY <1>1, <1>2

(* An open given up has nothing linked, and a view dropped shows nothing. *)
LEMMA AbandonedLinked ==
  ASSUME TypeOK, SlotOK, NEW q \in Pane, LinkAt(q), NEW p \in Pane, NEW i \in Intent, Abandoned(p, i),
         open' = open, view'[q].state = "running" => view[q].state = "running" /\ q # p
  PROVE  LinkAt(q)'
<1>1. CASE p # q
  BY <1>1, AbandonedKeeps, StaysLinked DEF Stays
<1>2. CASE p = q /\ slots[p].state = "flight"
  <2>1. slots'[p].state = "flight" /\ links' = links
    BY <1>2, AbandonedKeeps
  <2> QED
    BY <1>2, <2>1 DEF LinkAt
<1>3. CASE p = q /\ slots[p].state # "flight"
  <2>1. slots'[p] = NoSlot
    BY <1>3, AbandonedKeeps
  <2>2. open[p].at = "none"
    BY <1>3 DEF SlotOK
  <2> QED
    BY <1>3, <2>1, <2>2, EmptyFields DEF LinkAt
<1> QED
  BY <1>1, <1>2, <1>3

LEMMA DroppedLinked ==
  ASSUME TypeOK, SlotOK, NEW q \in Pane, LinkAt(q), NEW p \in Pane, NEW op,
         links' = links \/ (view[p].state = "running" /\ links' = Told(p, op)),
         slots' = slots, open' = open, view'[q].state = "running" => view[q].state = "running" /\ q # p
  PROVE  LinkAt(q)'
<1>1. p # q => (Alive(links, q) => Alive(links', q))
  BY ToldKeeps
<1>2. CASE p # q \/ links' = links
  BY <1>1, <1>2, StaysLinked DEF Stays
<1>3. CASE p = q /\ view[p].state = "running"
  <2>1. slots[p].state = "none" /\ open[p].at = "none"
    BY <1>3 DEF LinkAt, SlotOK
  <2> QED
    BY <1>3, <2>1 DEF LinkAt
<1> QED
  BY <1>2, <1>3

(* Every step keeps the link of what is linked. *)
LEMMA LinkStep == TypeOK /\ SlotOK /\ NoHostOK /\ LinkOK /\ [Next]_vars => LinkOK'
<1> SUFFICES ASSUME TypeOK, SlotOK, NoHostOK, \A q \in Pane : LinkAt(q), [Next]_vars, NEW q \in Pane
    PROVE  LinkAt(q)'
  BY DEF LinkOK
<1> LinkAt(q)
  OBVIOUS
<1>1. ASSUME NEW p \in Pane, NewTab(p) PROVE LinkAt(q)'
  <2>1. view'[q].state = "running" => view[q].state = "running"
    BY <1>1, GoneFields DEF NewTab, TypeOK
  <2> QED
    BY <1>1, <2>1, StaysLinked DEF NewTab, Stays
<1>2. ASSUME NEW p \in Pane, Show(p) PROVE LinkAt(q)'
  <2>1. view[p] \in ViewState /\ Asks(p, view[p]) /\ links' = links
    BY <1>2 DEF TypeOK, Show
  <2> QED
    BY <2>1, AsksLinked
<1>3. ASSUME NEW p \in Pane, AsksAgain(p) PROVE LinkAt(q)'
  <2>1. view[p] \in ViewState /\ Asks(p, view[p]) /\ links' = links
    BY <1>3 DEF TypeOK, AsksAgain
  <2> QED
    BY <2>1, AsksLinked
<1>4. ASSUME NEW p \in Pane, Retry(p) PROVE LinkAt(q)'
  <2>1. PICK v \in ViewState : Asks(p, v) /\ (v.recreate => view[p].recreate)
    BY <1>4, RetryAsks
  <2>2. links' = links
    BY <1>4 DEF Retry
  <2> QED
    BY <2>1, <2>2, AsksLinked
<1>5. ASSUME NEW p \in Pane, Restart(p) PROVE LinkAt(q)'
  <2>1. PICK v \in ViewState : Asks(p, v)
    BY <1>5, ReopenFields DEF Restart
  <2>2. p # q => (Alive(links, q) => Alive(links', q))
    BY <1>5, ToldKeeps DEF Restart
  <2>3. view[p].state = "running" \/ (view[p].state \in {"local", "beside"} /\ slots[p].state = "none")
    BY <1>5 DEF Restart, NoHostOK
  <2> QED
    BY <2>1, <2>2, <2>3, AsksLinked
<1>6. ASSUME NEW p \in Pane, CloseTab(p) PROVE LinkAt(q)'
  <2>1. view'[q].state = "running" => view[q].state = "running" /\ q # p
    BY <1>6, GoneFields DEF CloseTab, TypeOK
  <2>2. open' = open
    BY <1>6 DEF CloseTab
  <2>3. CASE view[p].state = "connecting" /\ view[p].on = "sessions"
    <3>1. Abandoned(p, "end") /\ "end" \in Intent
      BY <1>6, <2>3 DEF CloseTab, Intent
    <3> QED
      BY <2>1, <2>2, <3>1, AbandonedLinked
  <2>4. CASE ~(view[p].state = "connecting" /\ view[p].on = "sessions")
    <3>1. slots' = slots /\ (links' = links \/ (view[p].state = "running" /\ links' = Told(p, "end")))
      BY <1>6, <2>4 DEF CloseTab
    <3> QED
      BY <2>1, <2>2, <3>1, DroppedLinked
  <2> QED
    BY <2>3, <2>4
<1>7. ASSUME NEW p \in Pane, Drops(p) PROVE LinkAt(q)'
  <2>1. view'[q].state = "running" => view[q].state = "running" /\ q # p
    BY <1>7, GoneFields DEF Drops, TypeOK
  <2>2. Abandoned(p, "detach") /\ "detach" \in Intent /\ open' = open
    BY <1>7 DEF Drops, Intent
  <2> QED
    BY <2>1, <2>2, AbandonedLinked
<1>8. ASSUME NEW p \in Pane, Evict(p) PROVE LinkAt(q)'
  <2>1. view'[q].state = "running" => view[q].state = "running" /\ q # p
    BY <1>8, GoneFields DEF Evict, TypeOK
  <2>2. open' = open
    BY <1>8 DEF Evict
  <2>3. CASE view[p].state = "connecting" /\ view[p].on = "sessions"
    <3>1. Abandoned(p, "detach") /\ "detach" \in Intent
      BY <1>8, <2>3 DEF Evict, Intent
    <3> QED
      BY <2>1, <2>2, <3>1, AbandonedLinked
  <2>4. CASE ~(view[p].state = "connecting" /\ view[p].on = "sessions")
    <3>1. slots' = slots /\ (links' = links \/ (view[p].state = "running" /\ links' = Told(p, "detach")))
      BY <1>8, <2>4 DEF Evict
    <3> QED
      BY <2>1, <2>2, <3>1, DroppedLinked
  <2> QED
    BY <2>3, <2>4
<1>9. ASSUME NEW p \in Pane, CreatesLate(p) PROVE LinkAt(q)'
  BY <1>9, StaysLinked DEF CreatesLate, histVars, Stays
<1>10. ASSUME NEW p \in Pane, Connects(p) PROVE LinkAt(q)'
  <2>1. open'[q].at = "store" => open'[q] = open[q]
    BY <1>10, GoesFields DEF Connects
  <2> QED
    BY <1>10, <2>1, StaysLinked DEF Connects, Stays
<1>11. ASSUME NEW p \in Pane, Locks(p) PROVE LinkAt(q)'
  <2>1. Held(p) => route.failed \in Result /\ route.failed # "linked"
    BY HeldFields
  <2>2. open'[q].at = "store" /\ open'[q].result = "linked" => open'[q] = open[q]
    BY <1>11, <2>1, GoesFields DEF Locks
  <2> QED
    BY <1>11, <2>2, StaysLinked DEF Locks, Stays
<1>12. ASSUME NEW p \in Pane, NEW kind \in Result, Ensures(p, kind) PROVE LinkAt(q)'
  <2>1. open'[q].at = "store" /\ open'[q].result = "linked" =>
          open[q].at = "store" /\ open[q].result = "linked"
    BY <1>12, EnsuresFields
  <2> QED
    BY <1>12, <2>1, StaysLinked DEF Ensures, Stays
<1>13. ASSUME NEW p \in Pane, Closes(p) PROVE LinkAt(q)'
  <2>1. open'[q].at = "store" => open'[q] = open[q]
    BY <1>13, GoesFields DEF Closes
  <2> QED
    BY <1>13, <2>1, StaysLinked DEF Closes, Stays
<1>14. ASSUME NEW p \in Pane, Lists(p) PROVE LinkAt(q)'
  <2>1. open'[q].at = "store" /\ open'[q].result = "linked" => open'[q] = open[q]
    BY <1>14, GoesFields DEF Lists, Result
  <2> QED
    BY <1>14, <2>1, StaysLinked DEF Lists, Stays
<1>15. ASSUME NEW p \in Pane, Creates(p) PROVE LinkAt(q)'
  <2>1. open'[q].at = "store" /\ open'[q].result = "linked" => open'[q] = open[q]
    BY <1>15, GoesFields DEF Creates, Result
  <2> QED
    BY <1>15, <2>1, StaysLinked DEF Creates, Stays
<1>16. ASSUME NEW p \in Pane, Attaches(p) PROVE LinkAt(q)'
  <2>1. slots' = slots /\ view' = view /\ links \subseteq links'
    BY <1>16 DEF Attaches
  <2>2. Alive(links, q) => Alive(links', q)
    BY <2>1 DEF Alive
  <2>3. CASE p # q
    <3>1. open'[q] = open[q]
      BY <1>16, <2>3, GoesFields DEF Attaches, Result
    <3> QED
      BY <2>1, <2>2, <3>1, StaysLinked DEF Stays
  <2>4. CASE p = q /\ Answers(p, "linked")
    <3>1. [pane |-> p, of |-> list[p], conn |-> "up", ends |-> FALSE] \in links'
      <4>1. ~Answers(p, "failed")
        <5>1. Answers(p, "linked") => open'[p].result = "linked"
          BY GoesFields DEF Result
        <5>2. Answers(p, "failed") => open'[p].result = "failed"
          BY GoesFields DEF Result
        <5> QED
          BY <2>4, <5>1, <5>2
      <4> QED
        BY <1>16, <4>1 DEF Attaches
    <3>2. Alive(links', q)
      BY <2>4, <3>1 DEF Alive
    <3> QED
      BY <2>1, <3>2 DEF LinkAt
  <2>5. CASE p = q /\ Answers(p, "failed")
    <3>1. open'[q].result = "failed"
      BY <2>5, GoesFields DEF Result
    <3> QED
      BY <2>1, <2>2, <3>1, StaysLinked DEF Stays
  <2> QED
    BY <1>16, <2>3, <2>4, <2>5 DEF Attaches
<1>17. ASSUME NEW p \in Pane, Stores(p) PROVE LinkAt(q)'
  <2>1. /\ view'[q].state = view[q].state
        /\ p # q => open'[q] = open[q] /\ slots'[q] = slots[q]
        /\ open'[p].at = "none"
        /\ \/ slots'[p].state = "ready" /\ slots'[p].result = open[p].result /\ links' = links
           \/ slots'[p] = NoSlot /\ links' = Told(p, slots[p].abandoned)
    BY <1>17, StoresFields, EmptyFields
  <2>2. open[p].at = "store" /\ slots[p].state = "flight"
    BY <1>17 DEF Stores, SlotOK
  <2>3. CASE p # q
    <3>1. Alive(links, q) => Alive(links', q)
      BY <2>1, <2>3, ToldKeeps
    <3> QED
      BY <2>1, <2>3, <3>1, StaysLinked DEF Stays
  <2>4. CASE p = q
    BY <2>1, <2>2, <2>4, EmptyFields DEF LinkAt
  <2> QED
    BY <2>3, <2>4
<1>18. ASSUME NEW p \in Pane, NEW o \in Pane, Rebind(p, o) PROVE LinkAt(q)'
  <2>1. view'[q].state = "running" => view[q].state = "running"
    BY <1>18, RebindFields, GoneFields
  <2>2. CASE q = o
    <3>1. /\ view'[q].state = "connecting" /\ slots'[q].state = "flight" /\ open'[q].at = "connect"
      BY <1>18, <2>2, RebindFields
    <3> QED
      BY <3>1 DEF LinkAt
  <2>3. CASE q # o
    BY <1>18, <2>1, <2>3, RebindFields, StaysLinked DEF Stays
  <2> QED
    BY <2>2, <2>3
<1>19. ASSUME NEW kind \in Result, StartupEnds(kind) PROVE LinkAt(q)'
  <2>1. view'[q].state = "running" => view[q].state = "running"
    BY <1>19, StartupFields
  <2> QED
    BY <1>19, <2>1, StaysLinked DEF StartupEnds, Stays
<1>20. ASSUME Adopts PROVE LinkAt(q)'
  <2>1. view'[q].state = "running" => view[q].state = "running"
    BY <1>20, AdoptedFields, GoneFields DEF Adopts
  <2> QED
    BY <1>20, <2>1, StaysLinked DEF Adopts, Stays
<1>21. ASSUME Lapses PROVE LinkAt(q)'
  BY <1>21, StaysLinked DEF Lapses, Stays
<1>22. ASSUME NEW l \in links, OwnerEnds(l) PROVE LinkAt(q)'
  BY <1>22, LinksKeep, StaysLinked DEF OwnerEnds, Stays
<1>23. ASSUME NEW l \in links, Reconnects(l) PROVE LinkAt(q)'
  BY <1>23, LinksKeep, StaysLinked DEF Reconnects, Stays
<1>24. ASSUME NEW dies \in BOOLEAN, Cut(dies) PROVE LinkAt(q)'
  <2>1. open'[q].at = open[q].at /\ open'[q].result = open[q].result
    BY <1>24, CutFields
  <2> QED
    BY <1>24, <2>1, LinksKeep, StaysLinked DEF Cut, Stays
<1>25. ASSUME FallsSilent PROVE LinkAt(q)'
  BY <1>25, StaysLinked DEF FallsSilent, Stays
<1>26. ASSUME AnswersAgain PROVE LinkAt(q)'
  BY <1>26, StaysLinked DEF AnswersAgain, Stays
<1>27. ASSUME UNCHANGED vars PROVE LinkAt(q)'
  BY <1>27, StaysLinked DEF vars, Stays
<1>28. ASSUME NEW p \in Pane, AnotherCreates(p) PROVE LinkAt(q)'
  BY <1>28, StaysLinked DEF AnotherCreates, Stays
<1> QED
  BY <1>1, <1>2, <1>3, <1>4, <1>5, <1>6, <1>7, <1>8, <1>9, <1>10, <1>11, <1>12, <1>13, <1>14,
     <1>15, <1>16, <1>17, <1>18, <1>19, <1>20, <1>21, <1>22, <1>23, <1>24, <1>25, <1>26, <1>27,
     <1>28
     DEF Next, WorkerStep

-----------------------------------------------------------------------------
(* What was missed stays so, and a create nobody waits for is missed. *)
LEMMA MissedStep ==
  TypeOK /\ [Next]_vars => missed \subseteq missed' /\ late' \subseteq late \cup missed'
<1> DEFINE Grows == missed \subseteq missed' /\ late' \subseteq late \cup missed'
<1> SUFFICES ASSUME TypeOK, [Next]_vars PROVE Grows
  OBVIOUS
<1>1. ASSUME NEW p \in Pane, NewTab(p) \/ Show(p) \/ AsksAgain(p) \/ Retry(p) PROVE Grows
  BY <1>1 DEF NewTab, Show, AsksAgain, Retry, hostVars, histVars
<1>2. ASSUME NEW p \in Pane, Restart(p) PROVE Grows
  BY <1>2 DEF Restart, hostVars
<1>3. ASSUME NEW p \in Pane, NEW i \in Intent, Abandoned(p, i), UNCHANGED hostVars PROVE Grows
  BY <1>3, AbandonedKeeps DEF hostVars
<1>4. ASSUME NEW p \in Pane, CloseTab(p) PROVE Grows
  <2>1. CASE view[p].state = "connecting" /\ view[p].on = "sessions"
    BY <1>3, <1>4, <2>1 DEF CloseTab, Intent
  <2>2. CASE ~(view[p].state = "connecting" /\ view[p].on = "sessions")
    BY <1>4, <2>2 DEF CloseTab, hostVars
  <2> QED
    BY <2>1, <2>2
<1>5. ASSUME NEW p \in Pane, Drops(p) PROVE Grows
  BY <1>3, <1>5 DEF Drops, Intent
<1>6. ASSUME NEW p \in Pane, Evict(p) PROVE Grows
  <2>1. CASE view[p].state = "connecting" /\ view[p].on = "sessions"
    BY <1>3, <1>6, <2>1 DEF Evict, Intent
  <2>2. CASE ~(view[p].state = "connecting" /\ view[p].on = "sessions")
    BY <1>6, <2>2 DEF Evict, hostVars
  <2> QED
    BY <2>1, <2>2
<1>7. ASSUME NEW p \in Pane, Connects(p) \/ Locks(p) \/ Lists(p) \/ Attaches(p) PROVE Grows
  BY <1>7 DEF Connects, Locks, Lists, Attaches, hostVars, histVars
<1>8. ASSUME NEW p \in Pane, Closes(p) PROVE Grows
  BY <1>8 DEF Closes, histVars
<1>9. ASSUME NEW p \in Pane, NEW kind \in Result, Ensures(p, kind) PROVE Grows
  BY <1>9 DEF Ensures, histVars
<1>10. ASSUME NEW p \in Pane, Creates(p) PROVE Grows
  BY <1>10 DEF Creates
<1>11. ASSUME NEW p \in Pane, Stores(p) PROVE Grows
  BY <1>11, StoresEnds DEF Stores, hostVars
<1>12. ASSUME NEW p \in Pane, CreatesLate(p) PROVE Grows
  BY <1>12 DEF CreatesLate, histVars
<1>13. ASSUME NEW p \in Pane, NEW q \in Pane, Rebind(p, q) PROVE Grows
  BY <1>13 DEF Rebind, hostVars
<1>14. ASSUME NEW kind \in Result, StartupEnds(kind) PROVE Grows
  BY <1>14 DEF StartupEnds, histVars
<1>15. ASSUME Adopts \/ Lapses PROVE Grows
  BY <1>15 DEF Adopts, Lapses, hostVars, histVars
<1>16. ASSUME NEW l \in links, OwnerEnds(l) \/ Reconnects(l) PROVE Grows
  BY <1>16 DEF OwnerEnds, Reconnects, hostVars, histVars
<1>17. ASSUME NEW dies \in BOOLEAN, Cut(dies) PROVE Grows
  BY <1>17 DEF Cut, hostVars, histVars
<1>18. ASSUME FallsSilent \/ AnswersAgain \/ UNCHANGED vars PROVE Grows
  BY <1>18 DEF FallsSilent, AnswersAgain, vars, hostVars, histVars
<1>19. ASSUME NEW p \in Pane, AnotherCreates(p) PROVE Grows
  BY <1>19 DEF AnotherCreates
<1> HIDE DEF Grows
<1> QED
  BY <1>1, <1>2, <1>4, <1>5, <1>6, <1>7, <1>8, <1>9, <1>10, <1>11, <1>12, <1>13, <1>14, <1>15,
     <1>16, <1>17, <1>18, <1>19 DEF Next, WorkerStep

(* The intent of a closed tab stays with somebody. *)
Rests(q) ==
  /\ missed \subseteq missed' /\ slots'[q] = slots[q]
  /\ list'[q] = "ours" => list[q] = "ours"
  /\ view'[q].state \in {"closed", "ended"} => view[q].state \in {"closed", "ended"}
  /\ Ending(links, q) => Ending(links', q)

LEMMA RestsEnded == ASSUME NEW q \in Pane, EndAt(q), Rests(q) PROVE EndAt(q)'
  BY DEF EndAt, Rests

(* A view that asks is not closed. *)
LEMMA AsksEnded ==
  ASSUME TypeOK, NEW q \in Pane, EndAt(q), NEW p \in Pane, NEW v \in ViewState, Asks(p, v),
         list' = list, missed \subseteq missed', Ending(links, q) => Ending(links', q)
  PROVE  EndAt(q)'
<1>1. CASE p # q
  BY <1>1, AsksFields, RestsEnded DEF Rests
<1>2. CASE p = q
  <2>1. view'[q].state \notin {"closed", "ended"}
    BY <1>2, AsksFields
  <2> QED
    BY <2>1 DEF EndAt
<1> QED
  BY <1>1, <1>2

(* An intent to end outlives the drop of its view. *)
LEMMA AbandonedEnded ==
  ASSUME TypeOK, NEW q \in Pane, EndAt(q), NEW p \in Pane, NEW i \in Intent, Abandoned(p, i),
         list' = list, p # q => view'[q] = view[q]
  PROVE  /\ p # q \/ (i = "detach" /\ view[p].state = "ended") => EndAt(q)'
         /\ p = q /\ i = "end" /\ LinkAt(p) => EndAt(q)'
<1> missed \subseteq missed'
  BY AbandonedKeeps
<1>1. CASE p # q
  BY <1>1, AbandonedKeeps, RestsEnded DEF Rests
<1>2. CASE p = q /\ i = "detach" /\ view[p].state = "ended"
  <2>1. CASE slots[p].state = "flight"
    <3>1. slots'[p].state = "flight" /\ links' = links
          /\ (slots[p].abandoned = "end" => slots'[p].abandoned = "end")
      BY <2>1, AbandonedKeeps
    <3> QED
      BY <1>2, <2>1, <3>1 DEF EndAt
  <2>2. CASE slots[p].state # "flight"
    <3>1. slots'[p].state = "none" /\ (Ending(links, q) => Ending(links', q))
      BY <2>2, AbandonedKeeps, EmptyFields
    <3> QED
      BY <1>2, <2>2, <3>1 DEF EndAt
  <2> QED
    BY <2>1, <2>2
<1>3. CASE p = q /\ i = "end" /\ LinkAt(p)
  <2>1. CASE slots[p].state = "flight"
    <3>1. slots'[p].state = "flight" /\ slots'[p].abandoned = "end"
      BY <1>3, <2>1, AbandonedKeeps
    <3> QED
      BY <1>3, <3>1 DEF EndAt
  <2>2. CASE slots[p].state # "flight"
    <3>1. slots'[p].state = "none"
      BY <2>2, AbandonedKeeps, EmptyFields
    <3>2. p \in missed' \/ Ending(links', p)
      <4>1. \/ slots[p].result # "linked" /\ p \in missed'
            \/ slots[p].result = "linked" /\ slots[p].state = "none"
            \/ slots[p].result = "linked" /\ slots[p].state = "ready"
                 /\ (Alive(links, p) => Ending(links', p))
        BY <1>3, <2>2, AbandonedKeeps
      <4> QED
        BY <1>3, <4>1 DEF LinkAt
    <3> QED
      BY <1>3, <3>1, <3>2 DEF EndAt
  <2> QED
    BY <2>1, <2>2
<1> QED
  BY <1>1, <1>2, <1>3

(* Every step leaves the intent of a closed tab with somebody. *)
LEMMA EndStep == TypeOK /\ SlotOK /\ NoHostOK /\ LinkOK /\ EndOK /\ [Next]_vars => EndOK'
<1> SUFFICES ASSUME TypeOK, SlotOK, NoHostOK, \A q \in Pane : LinkAt(q), \A q \in Pane : EndAt(q),
                    late \subseteq missed, [Next]_vars, NEW q \in Pane
    PROVE  EndAt(q)'
  BY MissedStep DEF LinkOK, EndOK
<1> EndAt(q) /\ missed \subseteq missed'
  BY MissedStep
<1>1. ASSUME NEW p \in Pane, NewTab(p) PROVE EndAt(q)'
  <2>1. view'[q].state \in {"closed", "ended"} => view[q].state \in {"closed", "ended"}
    BY <1>1, GoneFields DEF NewTab, TypeOK
  <2> QED
    BY <1>1, <2>1, RestsEnded DEF NewTab, hostVars, Rests
<1>2. ASSUME NEW p \in Pane, Show(p) PROVE EndAt(q)'
  <2>1. view[p] \in ViewState /\ Asks(p, view[p]) /\ links' = links /\ list' = list
    BY <1>2 DEF TypeOK, Show, hostVars
  <2> QED
    BY <2>1, AsksEnded
<1>3. ASSUME NEW p \in Pane, AsksAgain(p) PROVE EndAt(q)'
  <2>1. view[p] \in ViewState /\ Asks(p, view[p]) /\ links' = links /\ list' = list
    BY <1>3 DEF TypeOK, AsksAgain, hostVars
  <2> QED
    BY <2>1, AsksEnded
<1>4. ASSUME NEW p \in Pane, Retry(p) PROVE EndAt(q)'
  <2>1. PICK v \in ViewState : Asks(p, v) /\ (v.recreate => view[p].recreate)
    BY <1>4, RetryAsks
  <2>2. links' = links /\ list' = list
    BY <1>4 DEF Retry, hostVars
  <2> QED
    BY <2>1, <2>2, AsksEnded
<1>5. ASSUME NEW p \in Pane, Restart(p) PROVE EndAt(q)'
  <2>1. PICK v \in ViewState : Asks(p, v)
    BY <1>5, ReopenFields DEF Restart
  <2>2. list' = list /\ (Ending(links, q) => Ending(links', q))
    BY <1>5, ToldKeeps DEF Restart, hostVars
  <2> QED
    BY <2>1, <2>2, AsksEnded
<1>6. ASSUME NEW p \in Pane, CloseTab(p) PROVE EndAt(q)'
  <2>1. list' = list /\ (p # q => view'[q] = view[q])
    BY <1>6 DEF CloseTab, hostVars, TypeOK
  <2>2. CASE view[p].state = "connecting" /\ view[p].on = "sessions"
    <3>1. Abandoned(p, "end") /\ "end" \in Intent
      BY <1>6, <2>2 DEF CloseTab, Intent
    <3> QED
      BY <2>1, <3>1, AbandonedEnded
  <2>3. CASE ~(view[p].state = "connecting" /\ view[p].on = "sessions")
    <3>1. /\ slots' = slots /\ links' = IF view[p].state = "running" THEN Told(p, "end") ELSE links
          /\ missed' = IF view[p].state \in {"running", "local"} THEN missed ELSE missed \cup {p}
      BY <1>6, <2>3 DEF CloseTab
    <3>2. Ending(links, q) => Ending(links', q)
      BY <3>1, ToldKeeps
    <3>3. CASE p # q
      BY <2>1, <3>1, <3>2, <3>3, RestsEnded DEF Rests
    <3>4. CASE p = q /\ view[p].state = "running"
      <4>1. slots[p].state = "none" /\ Alive(links, p)
        BY <3>4 DEF LinkAt
      <4>2. Ending(links', p)
        BY <3>1, <3>4, <4>1, ToldKeeps
      <4> QED
        BY <3>1, <3>4, <4>1, <4>2 DEF EndAt
    <3>5. CASE p = q /\ view[p].state = "local"
      <4>1. slots[p].state = "none" /\ list[p] # "ours"
        BY <3>5 DEF NoHostOK
      <4> QED
        BY <2>1, <3>1, <3>5, <4>1 DEF EndAt
    <3>6. CASE p = q /\ view[p].state \notin {"running", "local"}
      BY <3>1, <3>6 DEF EndAt
    <3> QED
      BY <3>3, <3>4, <3>5, <3>6
  <2> QED
    BY <2>2, <2>3
<1>7. ASSUME NEW p \in Pane, Drops(p) PROVE EndAt(q)'
  <2>1. /\ list' = list /\ (p # q => view'[q] = view[q])
        /\ Abandoned(p, "detach") /\ "detach" \in Intent /\ view[p].state = "ended"
    BY <1>7 DEF Drops, hostVars, TypeOK, Intent
  <2> QED
    BY <2>1, AbandonedEnded
<1>8. ASSUME NEW p \in Pane, Evict(p) PROVE EndAt(q)'
  <2>1. list' = list /\ (p # q => view'[q] = view[q]) /\ view'[p].state = "pending"
    BY <1>8, GoneFields DEF Evict, hostVars, TypeOK
  <2>2. CASE p = q
    BY <2>1, <2>2 DEF EndAt
  <2>3. CASE p # q /\ view[p].state = "connecting" /\ view[p].on = "sessions"
    <3>1. Abandoned(p, "detach") /\ "detach" \in Intent
      BY <1>8, <2>3 DEF Evict, Intent
    <3> QED
      BY <2>1, <2>3, <3>1, AbandonedEnded
  <2>4. CASE p # q /\ ~(view[p].state = "connecting" /\ view[p].on = "sessions")
    <3>1. slots' = slots /\ (links' = links \/ links' = Told(p, "detach"))
      BY <1>8, <2>4 DEF Evict
    <3>2. Ending(links, q) => Ending(links', q)
      BY <3>1, ToldKeeps
    <3> QED
      BY <2>1, <2>4, <3>1, <3>2, RestsEnded DEF Rests
  <2> QED
    BY <2>2, <2>3, <2>4
<1>9. ASSUME NEW p \in Pane, CreatesLate(p) PROVE EndAt(q)'
  <2>1. CASE p = q
    BY <1>9, <2>1 DEF CreatesLate, EndAt
  <2>2. CASE p # q
    <3>1. list'[q] = list[q]
      BY <1>9, <2>2 DEF CreatesLate, TypeOK
    <3> QED
      BY <1>9, <3>1, RestsEnded DEF CreatesLate, Rests
  <2> QED
    BY <2>1, <2>2
<1>10. ASSUME NEW p \in Pane, Connects(p) PROVE EndAt(q)'
  BY <1>10, RestsEnded DEF Connects, hostVars, Rests
<1>11. ASSUME NEW p \in Pane, Locks(p) PROVE EndAt(q)'
  BY <1>11, RestsEnded DEF Locks, hostVars, Rests
<1>12. ASSUME NEW p \in Pane, NEW kind \in Result, Ensures(p, kind) PROVE EndAt(q)'
  BY <1>12, RestsEnded DEF Ensures, Rests
<1>13. ASSUME NEW p \in Pane, Closes(p) PROVE EndAt(q)'
  <2>1. list'[q] = "ours" => list[q] = "ours"
    BY <1>13 DEF Closes, TypeOK
  <2> QED
    BY <1>13, <2>1, RestsEnded DEF Closes, Rests
<1>14. ASSUME NEW p \in Pane, Lists(p) PROVE EndAt(q)'
  BY <1>14, RestsEnded DEF Lists, hostVars, Rests
<1>15. ASSUME NEW p \in Pane, Creates(p) PROVE EndAt(q)'
  <2>1. view' = view /\ slots' = slots /\ links' = links
    BY <1>15 DEF Creates
  <2>2. CASE p # q
    <3>1. list'[q] = list[q]
      BY <1>15, <2>2 DEF Creates, TypeOK
    <3> QED
      BY <2>1, <3>1, RestsEnded DEF Rests
  <2>3. CASE p = q
    <3>1. slots[p].state = "flight"
      BY <1>15 DEF Creates, SlotOK
    <3> QED
      BY <2>1, <2>3, <3>1 DEF EndAt
  <2> QED
    BY <2>2, <2>3
<1>16. ASSUME NEW p \in Pane, Attaches(p) PROVE EndAt(q)'
  <2>1. Ending(links, q) => Ending(links', q)
    BY <1>16 DEF Attaches, Ending
  <2> QED
    BY <1>16, <2>1, RestsEnded DEF Attaches, hostVars, Rests
<1>17. ASSUME NEW p \in Pane, Stores(p) PROVE EndAt(q)'
  <2>1. view'[q].state = view[q].state /\ list' = list /\ (p # q => slots'[q] = slots[q])
    <3>1. view'[q].state = view[q].state /\ (p # q => slots'[q] = slots[q])
      BY <1>17, StoresFields
    <3> QED
      BY <1>17, <3>1 DEF Stores, hostVars
  <2>2. Ending(links, q) => Ending(links', q)
    BY <1>17, StoresFields, ToldKeeps
  <2>3. CASE p # q
    BY <2>1, <2>2, <2>3, RestsEnded DEF Rests
  <2>4. CASE p = q /\ slots[p].abandoned = "end"
    <3>1. /\ slots'[p].state = "none" /\ links' = Told(p, "end")
          /\ open[p].result # "linked" => p \in missed'
      BY <1>17, <2>4, StoresEnds, EmptyFields
    <3>2. open[p].result = "linked" => Alive(links, p)
      BY <1>17 DEF Stores, LinkAt
    <3>3. p \in missed' \/ Ending(links', p)
      BY <3>1, <3>2, ToldKeeps
    <3> QED
      BY <2>4, <3>1, <3>3 DEF EndAt
  <2>5. CASE p = q /\ slots[p].abandoned # "end"
    <3>1. slots[p].state = "flight"
      BY <1>17 DEF Stores, SlotOK
    <3> QED
      BY <2>1, <2>5, <3>1 DEF EndAt
  <2> QED
    BY <2>3, <2>4, <2>5
<1>18. ASSUME NEW p \in Pane, NEW o \in Pane, Rebind(p, o) PROVE EndAt(q)'
  <2>1. CASE q = o \/ q = p
    <3>1. view'[q].state \in {"connecting", "moved"}
      BY <1>18, <2>1, RebindFields, GoneFields
    <3> QED
      BY <3>1 DEF EndAt
  <2>2. CASE q # o /\ q # p
    BY <1>18, <2>2, RebindFields, RestsEnded DEF Rests
  <2> QED
    BY <2>1, <2>2
<1>19. ASSUME NEW kind \in Result, StartupEnds(kind) PROVE EndAt(q)'
  <2>1. view'[q].state \in {"closed", "ended"} => view[q].state \in {"closed", "ended"}
    BY <1>19, StartupFields
  <2> QED
    BY <1>19, <2>1, RestsEnded DEF StartupEnds, Rests
<1>20. ASSUME Adopts PROVE EndAt(q)'
  <2>1. view'[q].state \in {"closed", "ended"} => view[q].state \in {"closed", "ended"}
    BY <1>20, AdoptedFields, GoneFields DEF Adopts
  <2> QED
    BY <1>20, <2>1, RestsEnded DEF Adopts, hostVars, Rests
<1>21. ASSUME Lapses PROVE EndAt(q)'
  BY <1>21, RestsEnded DEF Lapses, hostVars, Rests
<1>22. ASSUME NEW l \in links, OwnerEnds(l) PROVE EndAt(q)'
  <2>1. slots' = slots /\ view' = view
    BY <1>22 DEF OwnerEnds
  <2>2. CASE l.pane # q
    <3>1. list'[q] = list[q]
      BY <1>22, <2>2 DEF OwnerEnds, TypeOK
    <3> QED
      BY <1>22, <2>1, <2>2, <3>1, LinksKeep, RestsEnded DEF Rests
  <2>3. CASE l.pane = q
    <3>1. list'[q] = "none" \/ q \in missed'
      BY <1>22, <2>3 DEF OwnerEnds, TypeOK
    <3> QED
      BY <2>1, <3>1 DEF EndAt
  <2> QED
    BY <2>2, <2>3
<1>23. ASSUME NEW l \in links, Reconnects(l) PROVE EndAt(q)'
  BY <1>23, LinksKeep, RestsEnded DEF Reconnects, hostVars, Rests
<1>24. ASSUME NEW dies \in BOOLEAN, Cut(dies) PROVE EndAt(q)'
  <2>1. list'[q] = "ours" => list[q] = "ours"
    BY <1>24 DEF Cut, hostVars
  <2> QED
    BY <1>24, <2>1, LinksKeep, RestsEnded DEF Cut, Rests
<1>25. ASSUME FallsSilent PROVE EndAt(q)'
  BY <1>25, RestsEnded DEF FallsSilent, Rests
<1>26. ASSUME AnswersAgain PROVE EndAt(q)'
  BY <1>26, RestsEnded DEF AnswersAgain, Rests
<1>27. ASSUME UNCHANGED vars PROVE EndAt(q)'
  BY <1>27, RestsEnded DEF vars, hostVars, Rests
<1>28. ASSUME NEW p \in Pane, AnotherCreates(p) PROVE EndAt(q)'
  BY <1>28, RestsEnded DEF AnotherCreates, TypeOK, Rests
<1> QED
  BY <1>1, <1>2, <1>3, <1>4, <1>5, <1>6, <1>7, <1>8, <1>9, <1>10, <1>11, <1>12, <1>13, <1>14,
     <1>15, <1>16, <1>17, <1>18, <1>19, <1>20, <1>21, <1>22, <1>23, <1>24, <1>25, <1>26, <1>27,
     <1>28
     DEF Next, WorkerStep

-----------------------------------------------------------------------------
(* The invariant holds at the start. *)
LEMMA InitIInv == Init => IInv
<1> SUFFICES ASSUME Init PROVE IInv
  OBVIOUS
<1> USE TerminalOpenAssumption DEF TerminalOpenAssumption
<1>1. \A p \in Pane : /\ view[p] \in {Restored, Gone("absent")}
                      /\ slots[p] = NoSlot /\ open[p] = NoWorker
  BY DEF Init
<1>2. TypeOK
  <2>1. [current |-> FALSE, lock |-> None, failed |-> None, fresh |-> FALSE, starts |-> 0] \in Route
    BY DEF Route
  <2>2. view \in [Pane -> ViewState]
    BY GoneType DEF Init
  <2>3. slots \in [Pane -> Slot] /\ open \in [Pane -> Worker]
    BY NoneType DEF Init
  <2>4. << >> \in Seq(SUBSET Pane)
    OBVIOUS
  <2> QED
    BY <2>1, <2>2, <2>3, <2>4 DEF Init, TypeOK
<1>3. SlotOK
  BY <1>1, NoneFields DEF SlotOK
<1>4. StartOK
  BY <1>1, NoneFields, GoneFields DEF Init, StartOK
<1>5. BurstOK
  BY <1>1, NoneFields DEF Init, BurstOK
<1>6. NoHostOK
  BY <1>1, NoneFields, GoneFields DEF Init, NoHostOK
<1>7. OthersOK
  BY <1>1, NoneFields, GoneFields DEF Init, OthersOK, ActsUnseen
<1>8. AskedOK
  BY <1>1, NoneFields, GoneFields DEF Init, AskedOK
<1>9. LinkOK
  BY <1>1, EmptyFields, GoneFields DEF LinkOK, LinkAt
<1>10. EndOK
  BY <1>1, GoneFields DEF Init, EndOK, EndAt
<1>11. WaitersAreWoken
  BY <1>1, GoneFields DEF WaitersAreWoken
<1> QED
  BY <1>2, <1>3, <1>4, <1>5, <1>6, <1>7, <1>8, <1>9, <1>10, <1>11 DEF IInv

LEMMA NextIInv == IInv /\ [Next]_vars => IInv'
  BY TypeStep, SlotStep, StartStep, BurstStep, NoHostStep, OthersStep, AskedStep, LinkStep, EndStep,
     WakeStep DEF IInv

(* The inductive invariant holds of every state: a terminal's slots, the
   starts, the bursts, the host's list and the intents are kept by every step. *)
THEOREM Invariance == Spec => []IInv
  BY InitIInv, NextIInv, PTL DEF Spec

(* Every reachable state has the types declared. *)
THEOREM TypeCorrect == Spec => []TypeOK
<1>1. IInv => TypeOK
  BY DEF IInv
<1> QED
  BY <1>1, Invariance, PTL

(* Terminals that are opened together start at most one host until the wait
   after a failed start is over (HostRoute::connect and HostRoute::fail). *)
THEOREM OneStartPerBurst == Spec => []BurstStartsOnce
<1>1. IInv => BurstStartsOnce
  BY DEF IInv, BurstOK, BurstStartsOnce
<1> QED
  BY <1>1, Invariance, PTL

(* A view that waits for its terminal is woken, or the startup or a worker is
   still to wake it (HostSessions::open and its worker). *)
THEOREM WaitersKeepAWaker == Spec => []WaitersAreWoken
<1>1. IInv => WaitersAreWoken
  BY DEF IInv
<1> QED
  BY <1>1, Invariance, PTL

(* A pane whose open found that no host answers runs its in-process shell while
   no host holds a session of its own under the id (HostRoute::connect and fail,
   TerminalView::ensure_started). *)
THEOREM FallbacksAreAlone == Spec => []FallbackIsAlone
<1>1. IInv => FallbackIsAlone
  BY DEF IInv, NoHostOK, FallbackIsAlone
<1> QED
  BY <1>1, Invariance, PTL

(* Once nothing is under way for a closed tab its session is gone, unless a call
   for it got no answer or its close told no host: an `end` passed from view to slot, from slot to worker
   and from worker to owner is not lost (HostSessions::abandon,
   settle_abandoned and HostLink::end). *)
THEOREM ClosedTabsAreGone == Spec => []EndedIsGone
<1>1. IInv => EndedIsGone
  BY DEF IInv, EndOK, EndAt, Ending, Settled, EndedIsGone
<1> QED
  BY <1>1, Invariance, PTL

(* No step attaches to another worktree's session or closes it, one that was
   there first or one that appears at any later time, unless the pane is by then
   to close or to attach by its id without another look (attach_or_create,
   recreate, HostLink::end and reconnect_until_attached). *)
THEOREM OthersAreSafe == Spec => OthersAreLeftAlone
<1>1. IInv /\ IInv' /\ [Next]_vars =>
        [\A p \in Pane : p \notin usurped =>
           /\ list[p] = "others" => list'[p] = "others" \/ host' = "none"
           /\ \A l \in links' : l.pane = p => l.of = "ours" \/ p \in usurped']_vars
  <2> SUFFICES ASSUME IInv, IInv', [Next]_vars, NEW p \in Pane, p \notin usurped
      PROVE  /\ list[p] = "others" => list'[p] = "others" \/ host' = "none"
             /\ \A l \in links' : l.pane = p => l.of = "ours" \/ p \in usurped'
    OBVIOUS
  <2>1. ListMoves
    BY ListStep DEF IInv
  <2>2. list[p] = "others" => open[p].at # "close" /\ ~\E l \in links : l.pane = p
    BY DEF IInv, OthersOK, ActsUnseen
  <2>3. \A l \in links' : l.of = "ours" \/ l.pane \in usurped'
    BY DEF IInv, OthersOK
  <2> QED
    BY <2>1, <2>2, <2>3 DEF ListMoves
<1> QED
  BY <1>1, InitIInv, NextIInv, PTL DEF Spec, OthersAreLeftAlone

(* A session leaves the host's list only with the host, or for a pane the user
   closed or restarted (HostSessions::abandon, HostLink::end and detach). *)
THEOREM EndsAreAskedFor == Spec => OnlyTheAskedEnd
<1>1. IInv /\ [Next]_vars =>
        [\A p \in Pane : list[p] # "none" /\ list'[p] = "none" => host' = "none" \/ p \in asked]_vars
  <2> SUFFICES ASSUME IInv, [Next]_vars
      PROVE  \A p \in Pane : list[p] # "none" /\ list'[p] = "none" => host' = "none" \/ p \in asked
    OBVIOUS
  <2>1. ListMoves
    BY ListStep DEF IInv
  <2>2. \A p \in Pane : open[p].at = "close" => p \in asked
    BY DEF IInv, AskedOK
  <2>3. \A l \in links : l.ends => l.pane \in asked
    BY DEF IInv, AskedOK
  <2> QED
    BY <2>1, <2>2, <2>3 DEF ListMoves
<1> QED
  BY <1>1, InitIInv, NextIInv, PTL DEF Spec, OnlyTheAskedEnd
=============================================================================
