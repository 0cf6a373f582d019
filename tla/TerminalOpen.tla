---------------------------- MODULE TerminalOpen ----------------------------
(***************************************************************************)
(* How the app opens, restarts and closes the terminals that live in the   *)
(* host: the views (crates/sirio_terminal/src/lib.rs), the factory and the *)
(* route they share (HostSessions and HostRoute, crates/sirio/src/main.rs) *)
(* and the links they are handed (crates/sirio_terminal/src/link.rs).      *)
(*                                                                         *)
(* A pane's key is the id of its session, so views, slots, open workers    *)
(* and the host's list are functions of the pane.  The host is what a      *)
(* client sees of it; its own steps are HostCore's, and how one is found   *)
(* or started is HostProcess's: an ensure is one step with their outcomes. *)
(***************************************************************************)
EXTENDS Naturals, Sequences, FiniteSets

CONSTANTS
  Pane,      \* pane ids, which are session ids
  Saved,     \* the panes of the saved layout
  None,      \* no intent, no pane, no factory
  MaxTask,   \* bound: what the user does to terminals
  MaxFault   \* bound: connections cut, hosts that die or fall silent, sessions of others

ASSUME TerminalOpenAssumption ==
  /\ Saved \subseteq Pane
  /\ None \notin Pane \cup {"detach", "end", "startup", "sessions", "nohost", "half", "failed"}
  /\ MaxTask \in Nat /\ MaxFault \in Nat

VARIABLES
  host,     \* "up", "none", or "silent": it holds its lock and does not answer
  list,     \* pane -> the session term.list has under its id
  late,     \* panes whose create the host has, and nobody waits for
  view,     \* pane -> its TerminalView
  factory,  \* the PendingFactory of the startup, then HostSessions
  slots,    \* HostSessions.slots
  open,     \* pane -> its sirio-host-open worker
  links,    \* links somebody holds
  route,    \* HostRoute
  news,     \* listings on their way to adopt_host_orphans
  tasks, faults,
  asked,    \* history: panes the user closed or restarted
  missed,   \* history: panes created, or closed, without an answer from a host
  usurped   \* history: panes whose id another's session took unseen

hostVars == <<host, list, late>>
histVars == <<asked, missed, usurped>>
vars == <<hostVars, view, factory, slots, open, links, route, news, tasks, faults, histVars>>

Intent == {"detach", "end"}

(* What an open, or an ensure, ends with.  "half": the code's NoHost too, said
   of a host that answers but to which the second connection failed. *)
Result == {"linked", "nohost", "half", "failed", "taken"}
NoHost == {"nohost", "half"}

(* `on`: connecting_factory.  `woken`: the factory was set again.  "local",
   "beside": the in-process shell, after "nohost" and after "half".  "moved":
   the pane took another id.  "ended": closed while it waited, not dropped. *)
ViewState == [ state : {"absent", "pending", "connecting", "running", "local", "beside",
                        "failed", "taken", "moved", "ended", "closed"},
               restore : BOOLEAN, recreate : BOOLEAN,
               on : {None, "startup", "sessions"}, woken : BOOLEAN ]
Slot == [ state : {"none", "flight", "ready"}, abandoned : Intent \cup {None}, result : Result ]

(* `shares`: an ensure failed since it began to wait.  `up`: its client has not
   closed. *)
Worker == [ at : {"none", "connect", "wait", "ensure", "close", "list", "create", "attach", "store"},
            shares : BOOLEAN, restore : BOOLEAN, recreate : BOOLEAN, up : BOOLEAN, result : Result ]

(* `ends`: its owner has been told to end it; a link told to detach is gone. *)
Link == [ pane : Pane, of : {"ours", "others"}, conn : {"up", "down", "lost"}, ends : BOOLEAN ]

Gone(how) == [state |-> how, restore |-> FALSE, recreate |-> FALSE, on |-> None, woken |-> FALSE]
Restored == [Gone("pending") EXCEPT !.restore = TRUE]
NoSlot == [state |-> "none", abandoned |-> None, result |-> "failed"]
NoWorker == [at |-> "none", shares |-> FALSE, restore |-> FALSE, recreate |-> FALSE,
             up |-> FALSE, result |-> "failed"]

(* `current`: there is a client that has not closed.  `failed`: the last ensure,
   if it failed.  `fresh`: it left no host less than NO_HOST_BACKOFF ago.
   `starts`, history: ensures that left no host, since that time passed or one
   succeeded. *)
Route == [ current : BOOLEAN, lock : Pane \cup {None}, failed : {None, "failed"} \cup NoHost,
           fresh : BOOLEAN, starts : Nat ]

Init ==
  /\ host \in {"up", "none"}
  /\ list \in [Pane -> {"none", "ours", "others"}]
  /\ host = "none" => \A p \in Pane : list[p] = "none"
  /\ late = {}
  /\ view = [p \in Pane |-> IF p \in Saved THEN Restored ELSE Gone("absent")]
  /\ factory = "startup"
  /\ slots = [p \in Pane |-> NoSlot] /\ open = [p \in Pane |-> NoWorker] /\ links = {}
  /\ route = [current |-> FALSE, lock |-> None, failed |-> None, fresh |-> FALSE, starts |-> 0]
  /\ news = << >> /\ tasks = 0 /\ faults = 0
  /\ asked = {} /\ missed = {} /\ usurped = {}

-----------------------------------------------------------------------------
(* The factory, as a view reaches it. *)

(* The owner of the link a pane shows, or is about to be handed, is told. *)
Told(p, op) ==
  LET mine == { l \in links : l.pane = p /\ ~l.ends }
  IN (links \ mine) \cup IF op = "end" THEN { [l EXCEPT !.ends = TRUE] : l \in mine } ELSE {}

(* Mutated: the last intent wins. *)
Merged_Last(held, intent) == intent

Merged(held, intent) == IF "end" \in {held, intent} THEN "end" ELSE "detach"

(* HostSessions::abandon: an open in flight keeps the intent, a finished one is
   settled; a failed open has nothing to settle. *)
Abandoned(p, intent) ==
  LET s == slots[p]
  IN /\ slots' = [slots EXCEPT ![p] =
                    IF s.state = "flight" THEN [s EXCEPT !.abandoned = Merged(@, intent)] ELSE NoSlot]
     /\ links' = IF s.state = "ready" THEN Told(p, intent) ELSE links
     /\ missed' = IF intent = "end" /\ s.state # "flight" /\ s.result # "linked"
                    THEN missed \cup {p} ELSE missed

(* A worker begins to open a pane for its view `v`. *)
Spawned(p, v) ==
  /\ slots' = [slots EXCEPT ![p] = [NoSlot EXCEPT !.state = "flight"]]
  /\ open' = [open EXCEPT ![p] = [NoWorker EXCEPT !.at = "connect", !.restore = v.restore,
                                                    !.recreate = v.recreate]]
Waits(v) == [v EXCEPT !.state = "connecting", !.on = factory, !.woken = FALSE]

(* Mutated: any failed open falls back to a local shell. *)
Taken_Shell(v, result) ==
  IF result = "linked" THEN [Gone("running") EXCEPT !.restore = v.restore]
  ELSE [Gone("local") EXCEPT !.restore = v.restore]

(* What a view becomes of the result it takes out of its slot. *)
Taken(v, result) ==
  CASE result = "linked" -> [Gone("running") EXCEPT !.restore = v.restore]
    [] result = "nohost" -> [Gone("local") EXCEPT !.restore = v.restore]
    [] result = "half"   -> [Gone("beside") EXCEPT !.restore = v.restore]
    [] OTHER             -> [v EXCEPT !.state = result, !.on = None, !.woken = FALSE]

(* ensure_started of a view `v`: the startup's factory only makes it wait; a
   finished open is taken out of its slot, one in flight is waited for, and
   without a slot a worker begins. *)
Asks(p, v) ==
  \/ /\ factory = "startup" \/ slots[p].state = "flight"
     /\ view' = [view EXCEPT ![p] = Waits(v)] /\ UNCHANGED <<slots, open>>
  \/ /\ factory = "sessions" /\ slots[p].state = "ready"
     /\ view' = [view EXCEPT ![p] = Taken(v, slots[p].result)]
     /\ slots' = [slots EXCEPT ![p] = NoSlot] /\ UNCHANGED open
  \/ /\ factory = "sessions" /\ slots[p].state = "none"
     /\ view' = [view EXCEPT ![p] = Waits(v)] /\ Spawned(p, v)

-----------------------------------------------------------------------------
(* The views. *)

Task == tasks < MaxTask /\ tasks' = tasks + 1

(* A new tab.  Its id is none the app names; the host may list it all the same
   until the app has its list. *)
NewTab(p) ==
  /\ Task /\ view[p].state = "absent"
  /\ view' = [view EXCEPT ![p] = Gone("pending")]
  /\ UNCHANGED <<hostVars, factory, slots, open, links, route, news, faults, histVars>>

(* The first time a pane is drawn. *)
Show(p) ==
  /\ view[p].state = "pending" /\ Asks(p, view[p])
  /\ UNCHANGED <<hostVars, factory, links, route, news, tasks, faults, histVars>>

(* The factory was set again: a view that waits asks it. *)
AsksAgain(p) ==
  /\ view[p].state = "connecting" /\ view[p].woken /\ Asks(p, view[p])
  /\ UNCHANGED <<hostVars, factory, links, route, news, tasks, faults, histVars>>

(* retry, and restart of a view whose open failed: both open again. *)
Retry(p) ==
  /\ Task /\ view[p].state = "failed"
  /\ \E recreate \in {view[p].recreate, FALSE} : Asks(p, [view[p] EXCEPT !.recreate = recreate])
  /\ UNCHANGED <<hostVars, factory, links, route, news, faults, histVars>>

(* restart: the owner of the old link is told to end it, and the view asks for
   the id at once, to be closed first whatever it is: an in-process shell is
   "running" too. *)
Restart(p) ==
  /\ Task /\ view[p].state \in {"running", "local", "beside"}
  /\ Asks(p, [view[p] EXCEPT !.recreate = TRUE])
  /\ links' = Told(p, "end") /\ asked' = asked \cup {p}
  /\ usurped' = IF list[p] = "others" THEN usurped \cup {p} ELSE usurped
  /\ UNCHANGED <<hostVars, factory, route, news, faults, missed>>

(* IdTaken: the pane takes the next id, above those the app was told of, and
   opens under it; a restart it was asked for goes with it, whose close would
   end what another app has put under the id. *)
Rebind(p, q) ==
  /\ view[p].state = "taken" /\ view[q].state = "absent"
  /\ view' = [view EXCEPT ![p] = Gone("moved"), ![q] = Waits(view[p])]
  /\ Spawned(q, view[p])
  /\ asked' = IF p \in asked THEN asked \cup {q} ELSE asked
  /\ usurped' = IF view[p].recreate /\ list[q] = "others" THEN usurped \cup {q} ELSE usurped
  /\ UNCHANGED <<hostVars, factory, links, route, news, tasks, faults, missed>>

(* end_session of a tab that is closed.  A view that has not opened, that failed
   or that runs a shell of its own tells no host. *)
CloseTab(p) ==
  /\ Task /\ view[p].state \notin {"absent", "moved", "ended", "closed"}
  /\ asked' = asked \cup {p}
  /\ LET v == view[p]
         waits == v.state = "connecting" /\ v.on = "sessions"
     IN /\ view' = [view EXCEPT ![p] = Gone(IF waits THEN "ended" ELSE "closed")]
        /\ IF waits THEN Abandoned(p, "end")
           ELSE /\ links' = IF v.state = "running" THEN Told(p, "end") ELSE links
                /\ missed' = IF v.state \in {"running", "local"} THEN missed ELSE missed \cup {p}
                /\ UNCHANGED slots
  /\ UNCHANGED <<hostVars, factory, open, route, news, faults, usurped>>

(* The view of a closed tab is dropped, which detaches it. *)
Drops(p) ==
  /\ view[p].state = "ended" /\ view' = [view EXCEPT ![p] = Gone("closed")]
  /\ Abandoned(p, "detach")
  /\ UNCHANGED <<hostVars, factory, open, route, news, tasks, faults, asked, usurped>>

(* A worktree is left and its views are dropped; selected again, the pane is
   restored. *)
Evict(p) ==
  /\ Task /\ view[p].state \in {"connecting", "running", "local", "beside", "failed"}
  /\ view' = [view EXCEPT ![p] = Restored]
  /\ IF view[p].state = "connecting" /\ view[p].on = "sessions" THEN Abandoned(p, "detach")
     ELSE /\ links' = IF view[p].state = "running" THEN Told(p, "detach") ELSE links
          /\ UNCHANGED <<slots, missed>>
  /\ UNCHANGED <<hostVars, factory, open, route, news, faults, asked, usurped>>

-----------------------------------------------------------------------------
(* Finding the host: the startup, and HostRoute. *)

Mine == { p \in Pane : list[p] = "ours" }

(* adopt_host_orphans: what is listed and no tab names gets a tab. *)
Adopted(listed) ==
  [ p \in Pane |-> IF p \in listed /\ view[p].state \in {"absent", "moved", "closed"}
                     THEN Restored ELSE view[p] ]

(* The factory is set again: every view that waits will ask it. *)
Woken(views) ==
  [ p \in Pane |-> [views[p] EXCEPT !.woken = @ \/ views[p].state = "connecting"] ]

(* What an ensure finds.  A host that holds its lock and does not answer is
   never taken for none.  One that answers, or was just started, may be lost to
   the connect, or answer it and not the second connection of term(). *)
Ensured(kind) ==
  /\ kind \in CASE host = "up"     -> {"linked", "half", "failed"}
                [] host = "silent" -> {"failed"}
                [] host = "none"   -> {"linked", "half", "nohost"}
  /\ host' = IF kind \in {"linked", "half"} THEN "up" ELSE host

(* HostRoute::succeed and HostRoute::fail, which free the lock; a failure is
   shared with the workers that wait for it. *)
Succeeds == route' = [route EXCEPT !.current = TRUE, !.lock = None, !.failed = None,
                                   !.fresh = FALSE, !.starts = 0]
Fails(why) == route' = [route EXCEPT !.lock = None, !.failed = why, !.fresh = why \in NoHost,
                                     !.starts = @ + IF why \in NoHost THEN 1 ELSE 0]
Shared == [p \in Pane |-> [open[p] EXCEPT !.shares = @ \/ open[p].at = "wait"]]

(* The startup's ensure, and the GPUI step that installs what it found; a
   failure with a live host is not recorded, nor a host without terminals. *)
StartupEnds(kind) ==
  /\ factory = "startup" /\ Ensured(kind) /\ factory' = "sessions"
  /\ CASE kind = "linked" -> Succeeds
       [] kind = "nohost" -> Fails("nohost")
       [] OTHER           -> UNCHANGED route
  /\ view' = Woken(IF kind = "linked" THEN Adopted(Mine) ELSE view)
  /\ UNCHANGED <<list, late, slots, open, links, news, tasks, faults, histVars>>

Goes(p, where) == open' = [open EXCEPT ![p].at = where]
(* Mutated: the result is left where the worker's step is kept. *)
Answers_Misplaced(p, why) == open' = [open EXCEPT ![p].at = why, ![p].result = why]

Answers(p, why) == open' = [open EXCEPT ![p].at = "store", ![p].result = why]
Connected(p) == open' = [open EXCEPT ![p].at = IF open[p].recreate THEN "close" ELSE "list",
                                     ![p].shares = FALSE, ![p].up = TRUE]

(* HostRoute::connect: the current client, or the wait for the ensure lock. *)
Connects(p) ==
  /\ open[p].at = "connect"
  /\ IF route.current THEN Connected(p) ELSE Goes(p, "wait")
  /\ UNCHANGED <<hostVars, view, factory, slots, links, route, news, tasks, faults, histVars>>

(* Mutated: a start that failed is not remembered. *)
BackedOff_Never == FALSE

(* Under the lock: a client another ensure made meanwhile, the failure of an
   ensure it waited for, or of one that left no host less than 30 s ago. *)
BackedOff == route.failed \in NoHost /\ route.fresh
Held(p) == BackedOff \/ (route.failed # None /\ open[p].shares)

Locks(p) ==
  /\ open[p].at = "wait" /\ route.lock = None
  /\ \/ route.current /\ Connected(p) /\ UNCHANGED route
     \/ ~route.current /\ Held(p) /\ Answers(p, route.failed) /\ UNCHANGED route
     \/ /\ ~route.current /\ ~Held(p)
        /\ Goes(p, "ensure") /\ route' = [route EXCEPT !.lock = p]
  /\ UNCHANGED <<hostVars, view, factory, slots, links, news, tasks, faults, histVars>>

(* ensure_now, and what becomes of it; the listing goes to the GPUI thread,
   which does nothing with an empty one. *)
Ensures(p, kind) ==
  /\ open[p].at = "ensure" /\ Ensured(kind)
  /\ IF kind = "linked"
       THEN Connected(p) /\ Succeeds /\ news' = IF Mine = {} THEN news ELSE Append(news, Mine)
       ELSE /\ Fails(kind) /\ UNCHANGED news
            /\ open' = [Shared EXCEPT ![p].at = "store", ![p].result = kind]
  /\ UNCHANGED <<list, late, view, factory, slots, links, tasks, faults, histVars>>

Adopts ==
  /\ news # << >> /\ news' = Tail(news) /\ view' = Adopted(Head(news))
  /\ UNCHANGED <<hostVars, factory, slots, open, links, route, tasks, faults, histVars>>

(* NO_HOST_BACKOFF passes. *)
Lapses ==
  /\ route.fresh /\ route' = [route EXCEPT !.fresh = FALSE, !.starts = 0]
  /\ UNCHANGED <<hostVars, view, factory, slots, open, links, news, tasks, faults, histVars>>

-----------------------------------------------------------------------------
(* The worker behind a client: the recreate, attach_or_create, the slot. *)

Reaches(p) == open[p].up /\ host = "up"

(* The recreate of a restart: close, then wait until the id is not listed, for
   5 s or until the list cannot be had.  A close that is not answered may have
   been carried out. *)
Closes(p) ==
  /\ open[p].at = "close" /\ Goes(p, "list")
  /\ \/ list' = [list EXCEPT ![p] = "none"]
     \/ ~Reaches(p) /\ UNCHANGED list
  /\ UNCHANGED <<host, late, view, factory, slots, links, route, news, tasks, faults, histVars>>

(* Mutated: a restore attaches to whatever session is listed. *)
Lists_AnyWorktree(p) ==
  /\ open[p].at = "list"
  /\ \/ ~Reaches(p) /\ Answers(p, "failed")
     \/ Reaches(p) /\ list[p] = "none" /\ Goes(p, "create")
     \/ Reaches(p) /\ list[p] # "none" /\ IF open[p].restore THEN Goes(p, "attach") ELSE Answers(p, "taken")
  /\ UNCHANGED <<hostVars, view, factory, slots, links, route, news, tasks, faults, histVars>>

(* The plan.  A restore attaches to its own worktree's session and creates one
   if none is listed; a fresh open only creates. *)
Lists(p) ==
  /\ open[p].at = "list"
  /\ \/ ~Reaches(p) /\ Answers(p, "failed")
     \/ Reaches(p) /\ list[p] = "none" /\ Goes(p, "create")
     \/ Reaches(p) /\ open[p].restore /\ list[p] = "ours" /\ Goes(p, "attach")
     \/ Reaches(p) /\ list[p] # "none" /\ ~(open[p].restore /\ list[p] = "ours") /\ Answers(p, "taken")
  /\ UNCHANGED <<hostVars, view, factory, slots, links, route, news, tasks, faults, histVars>>

(* A refused duplicate is attached to by a restore.  A create nobody answers in
   time may have been carried out, or be carried out later. *)
Creates(p) ==
  /\ open[p].at = "create"
  /\ \/ /\ Reaches(p) /\ list[p] = "none" /\ Goes(p, "attach")
        /\ list' = [list EXCEPT ![p] = "ours"] /\ UNCHANGED <<late, missed>>
     \/ /\ Reaches(p) /\ list[p] # "none" /\ UNCHANGED <<list, late, missed>>
        /\ IF open[p].restore THEN Goes(p, "attach") ELSE Answers(p, "taken")
     \/ /\ ~Reaches(p) /\ Answers(p, "failed") /\ UNCHANGED list
        /\ late' \in {late, IF host = "none" THEN late ELSE late \cup {p}}
        /\ missed' = missed \cup {p}
  /\ UNCHANGED <<host, view, factory, slots, links, route, news, tasks, faults, asked, usurped>>

Attaches(p) ==
  /\ open[p].at = "attach"
  /\ \/ /\ Reaches(p) /\ list[p] # "none" /\ Answers(p, "linked")
        /\ links' = links \cup {[pane |-> p, of |-> list[p], conn |-> "up", ends |-> FALSE]}
     \/ ~(Reaches(p) /\ list[p] # "none") /\ Answers(p, "failed") /\ UNCHANGED links
  /\ UNCHANGED <<hostVars, view, factory, slots, route, news, tasks, faults, histVars>>

(* Mutated: an open given up is ended, whatever was asked for. *)
Stores_Ends(p) ==
  /\ open[p].at = "store" /\ open' = [open EXCEPT ![p] = NoWorker]
  /\ LET intent == slots[p].abandoned
         result == open[p].result
     IN \/ /\ intent = None /\ UNCHANGED <<links, missed>>
           /\ slots' = [slots EXCEPT ![p] = [NoSlot EXCEPT !.state = "ready", !.result = result]]
        \/ /\ intent # None
           /\ slots' = [slots EXCEPT ![p] = NoSlot] /\ links' = Told(p, "end")
           /\ missed' = IF intent = "end" /\ result # "linked" THEN missed \cup {p} ELSE missed
  /\ view' = Woken(view)
  /\ UNCHANGED <<hostVars, factory, route, news, tasks, faults, asked, usurped>>

(* Mutated: an open given up is settled without a word to the
   views, of which one may have come back for it. *)
Stores_Silent(p) ==
  /\ open[p].at = "store" /\ open' = [open EXCEPT ![p] = NoWorker]
  /\ LET intent == slots[p].abandoned
         result == open[p].result
     IN \/ /\ intent = None /\ view' = Woken(view) /\ UNCHANGED <<links, missed>>
           /\ slots' = [slots EXCEPT ![p] = [NoSlot EXCEPT !.state = "ready", !.result = result]]
        \/ /\ intent # None /\ UNCHANGED view
           /\ slots' = [slots EXCEPT ![p] = NoSlot] /\ links' = Told(p, intent)
           /\ missed' = IF intent = "end" /\ result # "linked" THEN missed \cup {p} ELSE missed
  /\ UNCHANGED <<hostVars, factory, route, news, tasks, faults, asked, usurped>>

(* The worker stores its result and sets the factory again, which every view
   that waits sees; an open given up meanwhile is settled instead. *)
Stores(p) ==
  /\ open[p].at = "store" /\ open' = [open EXCEPT ![p] = NoWorker]
  /\ LET intent == slots[p].abandoned
         result == open[p].result
     IN \/ /\ intent = None /\ UNCHANGED <<links, missed>>
           /\ slots' = [slots EXCEPT ![p] = [NoSlot EXCEPT !.state = "ready", !.result = result]]
        \/ /\ intent # None
           /\ slots' = [slots EXCEPT ![p] = NoSlot] /\ links' = Told(p, intent)
           /\ missed' = IF intent = "end" /\ result # "linked" THEN missed \cup {p} ELSE missed
  /\ view' = Woken(view)
  /\ UNCHANGED <<hostVars, factory, route, news, tasks, faults, asked, usurped>>

-----------------------------------------------------------------------------
(* The links: HostLink, its owner's thread and its own reconnection. *)

(* end() closes by the id, on the link's own client. *)
OwnerEnds(l) ==
  /\ l.ends /\ links' = links \ {l}
  /\ \/ l.conn = "up" /\ list' = [list EXCEPT ![l.pane] = "none"] /\ UNCHANGED missed
     \/ (l.conn # "up" \/ host # "up") /\ missed' = missed \cup {l.pane} /\ UNCHANGED list
  /\ UNCHANGED <<host, late, view, factory, slots, open, route, news, tasks, faults, asked, usurped>>

(* reconnect_until_attached: the id is attached to again, whoever's it is, or
   the session is lost; with no host to be had the link gives up. *)
Reconnects(l) ==
  /\ l.conn = "down"
  /\ links' = (links \ {l}) \cup
       { IF host = "up" /\ list[l.pane] # "none"
           THEN [l EXCEPT !.conn = "up", !.of = list[l.pane]] ELSE [l EXCEPT !.conn = "lost"] }
  /\ UNCHANGED <<hostVars, view, factory, slots, open, route, news, tasks, faults, histVars>>

-----------------------------------------------------------------------------
(* What happens to the host and its connections. *)

Fault == faults < MaxFault /\ faults' = faults + 1

(* Every connection of the app ends, and with the host every session. *)
Cut(dies) ==
  /\ Fault /\ host # "none"
  /\ IF dies THEN host' = "none" /\ list' = [p \in Pane |-> "none"] /\ late' = {}
     ELSE UNCHANGED hostVars
  /\ route' = [route EXCEPT !.current = FALSE]
  /\ open' = [p \in Pane |-> [open[p] EXCEPT !.up = FALSE]]
  /\ links' = { IF l.conn = "up" THEN [l EXCEPT !.conn = "down"] ELSE l : l \in links }
  /\ UNCHANGED <<view, factory, slots, news, tasks, histVars>>

FallsSilent ==
  /\ Fault /\ host = "up" /\ host' = "silent"
  /\ UNCHANGED <<list, late, view, factory, slots, open, links, route, news, tasks, histVars>>

AnswersAgain ==
  /\ host = "silent" /\ host' = "up"
  /\ UNCHANGED <<list, late, view, factory, slots, open, links, route, news, tasks, faults, histVars>>

(* The host carries out a create nobody waits for; a duplicate is refused. *)
CreatesLate(p) ==
  /\ host = "up" /\ p \in late /\ late' = late \ {p}
  /\ list' = [list EXCEPT ![p] = IF @ = "none" THEN "ours" ELSE @]
  /\ UNCHANGED <<host, view, factory, slots, open, links, route, news, tasks, faults, histVars>>

(* Something of the pane is to act on its id without another look at whose
   session it is: a close or an attach by the id. *)
ActsUnseen(p) ==
  \/ \E l \in links : l.pane = p
  \/ open[p].at \in {"close", "create", "attach"}
  \/ open[p].at \in {"connect", "wait", "ensure"} /\ open[p].recreate
  \/ view[p].recreate

(* Another client of the host, an app of another worktree, creates a session
   under an id that is free. *)
AnotherCreates(p) ==
  /\ Fault /\ host = "up" /\ list[p] = "none" /\ list' = [list EXCEPT ![p] = "others"]
  /\ usurped' = IF ActsUnseen(p) THEN usurped \cup {p} ELSE usurped
  /\ UNCHANGED <<host, late, view, factory, slots, open, links, route, news, tasks, asked, missed>>

-----------------------------------------------------------------------------
WorkerStep(p) ==
  \/ Connects(p) \/ Locks(p) \/ (\E kind \in Result : Ensures(p, kind))
  \/ Closes(p) \/ Lists(p) \/ Creates(p) \/ Attaches(p) \/ Stores(p)

Next ==
  \/ \E p \in Pane :
       \/ NewTab(p) \/ Show(p) \/ AsksAgain(p) \/ Retry(p) \/ Restart(p)
       \/ CloseTab(p) \/ Drops(p) \/ Evict(p) \/ WorkerStep(p)
       \/ CreatesLate(p) \/ AnotherCreates(p)
       \/ \E q \in Pane : Rebind(p, q)
  \/ \E kind \in Result : StartupEnds(kind)
  \/ Adopts \/ Lapses
  \/ \E l \in links : OwnerEnds(l) \/ Reconnects(l)
  \/ \E dies \in BOOLEAN : Cut(dies)
  \/ FallsSilent \/ AnswersAgain

Spec == Init /\ [][Next]_vars

-----------------------------------------------------------------------------
(* Type invariant. *)
TypeOK ==
  /\ host \in {"up", "none", "silent"} /\ late \subseteq Pane
  /\ list \in [Pane -> {"none", "ours", "others"}]
  /\ view \in [Pane -> ViewState] /\ factory \in {"startup", "sessions"}
  /\ slots \in [Pane -> Slot] /\ open \in [Pane -> Worker]
  /\ links \subseteq Link /\ route \in Route /\ news \in Seq(SUBSET Pane)
  /\ tasks \in 0..MaxTask /\ faults \in 0..MaxFault
  /\ asked \subseteq Pane /\ missed \subseteq Pane /\ usurped \subseteq Pane

(* main.rs HostUnavailable: "a host that is there but could not be reached may
   hold the session live, so a local shell beside it would run a second agent".
   No in-process shell runs for a pane whose session the host holds. *)
NoShellBeside == \A p \in Pane : view[p].state \in {"local", "beside"} => list[p] # "ours"

(* A pane that was told there is no host, and was told so of no host that had
   answered, runs its shell alone: its session is not in a host, through opens
   that share a failure, take a stored one or are answered inside the back-off
   after a host has come up again. *)
FallbackIsAlone == \A p \in Pane : view[p].state = "local" => list[p] # "ours"

(* Another worktree's session is neither attached to nor closed, whatever id a
   fresh tab, a restored one or a restart asks for: one that was there first,
   and one that appears later, unless the pane is then to act on the id unseen. *)
OthersAreLeftAlone ==
  [][\A p \in Pane : p \notin usurped =>
       /\ list[p] = "others" => list'[p] = "others" \/ host' = "none"
       /\ \A l \in links' : l.pane = p => l.of = "ours" \/ p \in usurped']_vars

(* A session ends only with its host or for a pane the user closed or
   restarted: dropping a view, leaving a worktree or losing a connection never
   ends one. *)
OnlyTheAskedEnd ==
  [][\A p \in Pane : list[p] # "none" /\ list'[p] = "none" => host' = "none" \/ p \in asked]_vars

(* Nothing is under way for a pane. *)
Settled(p) ==
  /\ view[p].state = "closed" /\ slots[p].state = "none" /\ open[p].at = "none"
  /\ \A l \in links : l.pane # p

(* A tab closed while its session is opened, shown or reconnected leaves no
   session behind, unless a call for it got no answer or its close told no host. *)
EndedIsGone == \A p \in Pane : Settled(p) /\ list[p] = "ours" => p \in missed

(* Spec section 8: "a burst of terminals starts at most one host" in 30 s. *)
BurstStartsOnce == route.starts <= 1

(* A view that waits is going to be woken, drawn again or not: it has been, or
   the startup or the worker of its open is still to set the factory. *)
WaitersAreWoken ==
  \A p \in Pane : view[p].state = "connecting" =>
    \/ view[p].woken
    \/ view[p].on = "startup" /\ factory = "startup"
    \/ view[p].on = "sessions" /\ slots[p].state = "flight" /\ open[p].at # "none"

(* lib.rs restart: "The old session ends and the new one opens under the same
   id."  What a view shows as running is what the host lists. *)
RunningIsListed ==
  \A l \in links : view[l.pane].state = "running" /\ ~l.ends /\ l.conn = "up" => list[l.pane] = l.of
=============================================================================
