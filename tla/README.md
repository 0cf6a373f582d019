# Verification of Sirio's host terminal sessions

TLA+ models, TLC runs and TLAPS proofs for the part of Sirio that keeps terminal sessions
alive outside the app: the `sirio-host` process, its sessions, the clients that find it and
the views and listeners that follow a session. Paths below are relative to `rust/crates/`.

Contents

1. The system: components, state, interaction
2. Hard behaviours and what makes each component correct
3. Modules, and how they correspond to the code
4. Runs, bounds, fairness
5. Proofs
6. Where code and documents disagree, and known limits
7. What is not modelled, and the plan

## 1. The system

Sirio is a desktop workbench for coding agents. Its windows show terminals. A terminal's
child does not belong to the app: it belongs to a *session* of a separate process, the *host*,
that goes on when the app quits and that the next app adopts. The repository's core logic, and
nearly all of its concurrency, is in that arrangement.

```
 app process                                host process (one per data root)
 +---------------------------------+        +---------------------------------------------+
 | view --- HostLink --- mux ------|--------|-- connection -- router -- forwarder threads |
 | tabs --- host_programs listener |  IPC   |                     |                       |
 | ensure_host / observe ----------|--------|-- lifecycle --- HostCore --- SessionTable   |
 | view --- LocalLink --+          |        |                                 |           |
 +----------------------|----------+        |        one pump thread and one owner thread |
                        |                   |        per session: VT, journal, fan-out    |
                   owner thread             +---------------------------------------------+
```

| Component | Source | State | Operations |
|---|---|---|---|
| Host process | `sirio_host/src/lifecycle.rs` | lock, endpoint, state file, the decision to leave | take the lock, bind, publish, serve, idle exit, remove own files |
| Host core and session table | `sirio_host/src/core.rs`, `sessions.rs` | counters of clients, holds and live sessions; table id -> session; lifecycle gate; topics | connect, disconnect, create, close, list, shutdown with and without force, idle exit, publish |
| Connections and requests | `sirio_host/src/connection.rs`, `router.rs` | a connection's streams and subscriptions, a writer queue, off-thread requests | handshake, attach, detach, feed, input, subscribe, drop |
| Session engine | `sirio_term_session/src/owner.rs`, `fanout.rs`, `journal.rs`, `lib.rs`, `terminate.rs` | resident terminal, journal ring, attachments and their queues, exit, program and status | one tick: read, resynchronise, serve commands, look at the foreground, see the exit |
| Client library | `sirio_host_client/src/mux.rs`, `term.rs`, `connection.rs` | pending calls, streams and their queues, subscriptions | call, attach, subscribe, dispatch, finish |
| Finding the host | `sirio_host_client/src/ensure.rs`, `observe.rs`, `sirio_host_protocol/src/liveness.rs` | none kept: an observation and a verdict | read state file, handshake, probe lock, judge, start, adopt |
| Links | `sirio_terminal/src/link.rs` | offset reached, attachment, `exited`, `exit_pending` | open, forward, re-attach, reconnect, seed, re-seed |
| View replica | `sirio_terminal/src/lib.rs` | a terminal that repeats the session's | apply snapshot or output |
| Opening terminals | `sirio/src/main.rs` (`HostSessions`, `HostRoute`), `sirio_terminal/src/lib.rs`, `link.rs` | a slot per pane id with its open in flight or its result; the current client, the ensure lock and its last failure; a view's state | open, retry, restart, close, drop, abandon; connect, share or refuse an ensure; adopt orphans |
| Listener | `sirio/src/host_programs.rs` | sessions whose end was told | subscribe, list, seed, forward, retry, lost |
| Agent activity | `sirio_activity` | evidence per pane | apply signals |
| Chat transports | `sirio_chat`, `sirio_acp`, `sirio_claude` | a child and its turns | prompt, permission, cancel |
| Others | `sirio_lsp`, `sirio_update`, `sirio_apply`, `sirio_registry`, `sirio_persistence`, `sirio_git`, `sirio_ui`, ... | | see section 7 |

How they interact. A *request* travels from the mux through the connection's reader thread to
the router. `create`, `read` and `wait` run on a thread of their own (`serve_off_thread`), which may outlive the
connection; `close` and `shutdown` run on the read loop of their connection, which is counted as a client until they
return. `create`, `close` and `shutdown` are serialised by `HostCore::lifecycle` (the *gate*). A session's *owner thread* has a command channel in (attach,
detach, feed, info, close) and an event channel out, which a *pump thread* publishes on the topic
`term.sessions`. *Output* goes from the owner through a bounded queue per attachment to a
forwarder thread, the connection, the client's mux, a second bounded queue and the view. Apps and
hosts share *three files*: a lock, a socket and a state file. Locks are short; every long wait
(5 s for an owner, 10 s for a reconnection, the start of a host) has a timeout, and the code after
each timeout is where most of the difficult behaviour is.

## 2. Hard behaviours and correctness

`PROJECT.json` lists the hazards at their lines. In short:

- **Session table and gate.** Creation spawns a child before it is listed, closes wait for owners
  that may be blocked in a PTY write, the idle watcher and two kinds of shutdown look at counters
  several threads change. Correct means: a host that decided to leave has no live session and takes
  none, no child is left with nobody to end it, subscribers are not left with an old count, and a
  session's events come in order.
- **Output.** Two bounded queues in a row, a journal that forgets, snapshots in pieces, an alternate
  screen, connections that drop and attaches that are abandoned. Correct means: a view shows a
  growing prefix of the output, loses and repeats nothing, gets its primary screen back, is never
  left silent, and catches up when the session is quiet.
- **Finding a host.** Several apps and candidates, a lock that a look at it takes for a moment, files
  checked and removed in two steps. Correct means: one host serves a root, it can be found, it is
  not taken for absent because it is silent, nobody removes its files, and asking for a host ends
  with a session.
- **Requests.** A call's timeout races its answer, answers overtake one another, a stream is let go of
  by the view, the mux, the forwarder or the connection, each on its own thread, and a connection may be
  cut between any two frames. Correct means: no answer is thrown away, no output overtakes the answer its
  stream needs, what a call returned is served or told its end, and no stream nobody reads goes on.
- **Opening terminals.** A view asks again and again, on the GPUI thread, for what a worker does with a host
  that must first be found; meanwhile the tab is closed, its worktree is left and selected again, the session is
  restarted, the host dies or stops answering, and the id turns out to be another worktree's. Correct means: a view that
  waits is woken, a closed tab leaves no session and nothing else ends one, no local shell runs beside a session,
  another worktree's session is left alone, and terminals that open together start one host.
- **News.** Subscription, listing and attach are three requests; events, listings and reconnections
  may tell the same thing twice or not at all. Correct means: a session ends once in the app, its
  program is the one that holds the terminal, and an exit reaches the app.

## 3. Modules

| Module | What it models | Extends |
|---|---|---|
| `HostCore` | one host's counters, table, gate, sessions' ends, pumps, topics, idle clock | |
| `HostCore_proofs` | theorems about `HostCore` and, in its second half, about what it publishes | `HostCore`, `TLAPS` |
| `SessionEngine` | one session's owner thread, journal, fan-out and attachments | |
| `HostView` | `SessionEngine` read through forwarder, connection, mux and `HostLink` | `SessionEngine` |
| `LocalView` | `SessionEngine` read by a `LocalLink` in the same process | `SessionEngine` |
| `OutputView` | the abstract promise: a view shows a growing prefix and catches up | |
| `HostProcess` | several hosts and apps on one data root | |
| `MuxRequests` | one connection: calls, reader and detach threads of a mux, read loop, request threads and forwarders of the host | |
| `TerminalOpen` | the app's views, slots, open workers and links, and the route that finds the host for them | |
| `HostProcess_proofs`, `MuxRequests_proofs`, `TerminalOpen_proofs` | theorems about the module they are named after | that module, `TLAPS` |
| `SessionEngine_proofs` | what both kinds of views rest on: queues of chunks, `Deliver`, the owner's tick | `SessionEngine`, `TLAPS` |
| `LocalView_proofs`, `HostView_proofs` | theorems about the views | the view, `SessionEngine_proofs` |
| `SessionNews` | events, listing and attach as a link and the listener see them | |
| `SessionNews_proofs` | theorems about `SessionNews` | `SessionNews`, `TLAPS` |
| `MC...` | sets, symmetry and initial states for TLC | the module checked |

**HostCore.** `clients`, `held`, `idle`, `shutdown` are the fields of `Counters` and the shutdown
flag; a counter is the *set* it counts. `entries` is the table. Because an id can be used again,
`session` is indexed by *incarnation* (the i-th session spawned). `gate` is the mutex together with
the operation that holds it and how far it is, so that every point where the code does not hold an
inner lock is a state other threads can see: `CreateBegin`, `CreateSpawn`, `CreateInsert`,
`CreatePublish` are `SessionTable::create` cut at its locks; `CloseBegin`/`CloseDone` and
`ShutdownForced`, `ShutdownCloseNext`, `ShutdownCloseDone`, `ShutdownFinish` are `close` and
`try_shutdown` the same way. `TryBeginIdleExit` is one action because the code decides under one
lock. `Session::spawn` fails in two ways: before there is an owner (`CreateSpawnFailed`), or after 5 s, when the child
runs and its owner thread has not finished its start (`CreateSpawnTimesOut`). The second leaves a child nobody lists; the
error drops the session's handle, which the owner takes for a Close once it reaches its loop (`owner.rs:468-482`).
An owner is `starting`, `running`, `stalled` (blocked in a PTY write) or `ended`. It sends an exit to its pump first
(`OwnerSeesExit`) and keeps it in `wait_state` afterwards (`OwnerKeepsExit`): between the two the session is live to
everybody who asks. A child told to end with SIGTERM is `termed` until the timer thread kills it (`Escalate`). `Leave` is the end of the process
and takes its threads with it. `topic` is history, everything `term.sessions` published, and so is `givenUp`: the host
went on without an answer of this owner. That an owner panics while it starts (its terminal cannot be made) is not modelled.

**SessionEngine, HostView, LocalView.** One byte of output is one element of `out`; the only thing
that bytes do to a terminal here is to switch the screen. `phase` is how far the owner is in its tick
(`Drain`, `EndDrain` with the snapshots owed after a switch, commands, `EndTick`), in the order of the loop. `fan`
holds each attachment's slot, queue and charge; `Deliver` is `fanout.rs deliver` with its rule that a
chunk which does not fit turns into one last `Lagged`. `HostView` adds, per reader, the client's
half: `items` and the charge of the mux's queue, the snapshot held back until its last frame
(`pending`), `next` (`next_offset`) and the view. A view's `fault` records the first byte missed or
shown twice. Two things are narrower than the code: a feed (`ServeFeed`) is text, where `owner.rs:303-306` takes any bytes, a switch of
screens too; and a snapshot is one frame with one charge (`Dispatched`), where `router.rs:598-619` splits a large one into pieces
that `mux.rs:639-650` charges one by one and gives back together when one does not fit. `LocalView` adds `forward_local`: what it has in hand, what it gives back
(`consumed`), when it attaches again. Both are shown to implement `OutputView`
(`Promise == INSTANCE OutputView WITH made <- Head0, shown <- ...`; property `PromiseKept`), fairness included.

**HostProcess.** The lock belongs to a numbered `root`, because a lock on a file that was removed
with its directory does not exclude the next one. `endpoint` and `state` name the host that made
them (inode, generation and process in the code). A host goes through `run`: lock, probe the
endpoint, bind, publish its state, serve, stop accepting, compare and remove each file in two steps,
drain, exit. The root may be removed at any step (`Wipe`): a host between opening the lock file and binding does not look again,
and then binds in the next root with the lock of the old one. The identity a host compares with is read after its socket is in place
(`Identify`), so that it may be somebody else's, or nobody's. `made` and `saw` are history: the roots a host made its files in and looked at. A client goes through `ensure_host`: read the state file, handshake, take the lock for a
moment, judge (`liveness.rs`), connect or start a candidate, wait for whoever answers. One fault of
any kind (a host killed at any step, a handshake that comes late, the root removed) may happen.

**MuxRequests.** A request is named by its call, and so are the stream of an attach and the subscription
of a subscribe, because the host never uses their numbers twice. `pending`, `streams`, `subs` are the
maps of `Shared`; `abandoned` is the flag of a pending attach; `answer` is what a call's response
channel holds. `call_with` is cut at its locks: `Begin` looks at `closed`, `Register` inserts, `Write`
writes, then `Answered`, or `TimesOut` and, with the lock, `GivesUp`. `finish` is cut the same way
(`Finish`, `TakePending`, `FailPending`, `CloseStreams`). At the host `serving` is the request the read
loop holds between its effect and its answer, `workers` the requests on threads of their own, and
`hstream[s]` a forwarder: waiting for its answer to be queued, on, stopped and not yet joined, none.
`toHost` and `toClient` are the sockets with the writers' queues; `Cut` loses what was not written, and a
request a dead connection takes without an error is one `Write` that leaves no trace. What the host
makes of a request is a choice (`ok`), and so is whether a queue overflows (`DispatchData`): `HostView` has the charges.

**SessionNews.** One id is followed through two sessions. `session[i].sent` is the event channel
between owner and pump; `consumer[c]` is a subscriber. A `Link` goes through subscribe, list (the
entries are taken, then each session is asked: two steps), attach, snapshot, events, reconnection;
`Attached` is `seed_chunks` and `reseed_chunks`, `due` is `exit_pending`, `ended` is `exited`. A
`Listener` is the thread of `host_programs.rs` with its set `ended` and what the app does with a
listing that lacks an id. Program, status and title are told by the same events and the same listing
fields, so one of them stands for all. An id is free for the next session as soon as the last one's close took it from the
table and published `Closed`, whoever has still to hear of it, so that a queue may hold events of both. What an owner does in a tick (its event,
`wait_state`, `publish_info`) is one step here; `HostCore` has it in two.

**TerminalOpen.** A pane's id is its session's id, so everything is a function of the pane: `view` (the state of a
`TerminalView` with `pending_recreate`, `connecting_factory` and whether its observer has been called; the in-process shell is
`"local"` or `"beside"`, after which of the two answers it came), `slots`
(`HostSessions.slots`), `open` (how far the `sirio-host-open` worker is) and `list`, what `term.list` says of the id:
nothing, a session of the pane's worktree (`"ours"`) or of another. `Asks` is `ensure_started` with
`HostSessions::open`: wait, take the result out of the slot, or spawn a worker. The worker goes through `HostRoute::connect`
(`Connects`, `Locks`, `Ensures`: the ensure lock is `route.lock`, and `completed` and `seen` are reduced to whether an ensure
failed while the worker waited, `shares`), the close of a recreate (`Closes`), `attach_or_create`
(`Lists`, `Creates`, `Attaches`) and `Stores`, which settles an open that was given up meanwhile. `Told` and `OwnerEnds` are the
owner thread of a link: `end()` closes by the id, later than the view asked; `detach()` changes nothing but who looks.
`CloseTab` and `Drops` are the two calls of a tab that goes, an end and then a detach. `Cut` ends every
connection and perhaps the host; `FallsSilent` leaves a host that holds its lock and does not answer; a create nobody waits for may
be carried out later (`CreatesLate`). The host is what a client sees of it: its own steps are `HostCore`'s and the search for it
is `HostProcess`'s, whose outcomes (`Ensured`) are one step here; `"half"` is a host that answers the ensure and not the second
connection that `HostHandle::term` opens, which the route cannot tell from `"nohost"`. A `Restart` of the in-process shell
goes to the factory as well and closes by the id. `AnotherCreates` is another client that creates a session under a free id at any
moment. `asked`, `missed` and `usurped` are history; a pane is `usurped` when another's session took its id while something of the pane was
already to close or attach by the id (`ActsUnseen`), or when a recreate, which closes by the id without a look, is asked for an id such a session
has (the restart of an in-process shell, a restart that goes to the next id with a refused pane).

## 4. Runs

| Run | Checks | Shows |
|---|---|---|
| `host_core` | `TypeOK`, `NoLiveSessionWhileLeaving`, `NoProcessForgotten`, `AnnouncedIsCurrent`, `EventsInOrder`, `LeavingTakesNothing`, `GateIsReleased`, `UnusedHostLeaves`, `ExitIsPublished` | creations, failing spawns, closes, shutdowns, idle exit, exits, blocked owners in every order; nothing waits for ever on the gate, not on two blocked owners either; an unused host goes; exits are published |
| `host_view` | `QueueIsBounded`, `NothingIsRepeated`, `PrimaryIsRestored`, `SettledIsCurrent`, `PromiseKept` | one view through the host: lagging on either side, screens, one dropped connection |
| `host_view_give_up` | `LaggedIsLast`, `NothingIsMissed` | two views, attaches that time out, the stray detach they send, a drop |
| `local_view` | `ViewsAreExact`, `ChargeIsExact`, `PromiseKept` | the same engine read in the process |
| `host_process` | `TypeOK`, `OneServer`, `ServerIsRecorded`, `SilentIsNotAbsent`, `ServedFilesStay`, `EnsureSucceeds` | two apps, three hosts, three calls, one fault, at any step of a host's start and end too |
| `session_news` | `OneEndPerSession`, `ProgramIsCurrent`, `EndIsTold`, `EndReachesTheApp` | a link or the listener, two sessions under an id, the second as soon as the first is closed, one dropped connection |
| `mux_requests` | `NoOrphanFrame`, `NoAnswerThrownAway`, `AnsweredIsServed`, `GivenUpStreamsEnd` | an attach beside a detach, a subscription, a request on the read loop or one on its own thread, through timeouts, dropped receivers, input, lagging and a cut at any point |
| `terminal_open` | `TypeOK`, `FallbackIsAlone`, `EndedIsGone`, `BurstStartsOnce`, `WaitersAreWoken`, `OthersAreLeftAlone`, `OnlyTheAskedEnd` | two panes, two things the user does, one fault, in every order with the startup, the workers and the owners |
| `session_news_link_end`, `mux_input`, `terminal_open_restart`, `terminal_open_shell` | one statement each | violated: section 6 |

The type invariants of the modules without one in the table are stated in them for the reader and for proofs; no run checks them.

**Bounds and why they are enough.** They are all CONSTANTS that a guard names.

- `HostCore`: one client, because a second one only keeps the count above zero; two ids and two incarnations, so that an id is
  taken, free, or used again while another session ends, and a shutdown waits for two blocked owners in turn; one create in
  flight beside the operation that holds the gate; one hold; a grace of one tick separates "activity" from "none". Safety and
  liveness are of the same instance. Titles and other events of an owner are left out: they change nothing but the queue of its pump.
- Views: journal and queue of two bytes, up to four bytes of output, so that the journal wraps, a
  queue overflows and a screen is entered and left; three attachments at a time, because a view has at
  most a live one, one being dropped and one asked for; one feed; one dropped connection. A snapshot weighs
  one. `SnapSize <= Limit` is an assumption about the sizes of the program: see section 6.
- `HostProcess`: two clients suffice for every start race; with three hosts and three calls one host
  can leave, a second lose a race and a third serve. One fault of any kind at any step: a root removed while a host starts, serves or leaves.
- `SessionNews`: two sessions under the id, two changes of program (named, then replaced), one
  drop. Subscribers do not influence one another, so each behaviour follows one (`MCInit`).
- `MuxRequests`: an attach and one other call of any other kind, because streams, subscriptions and calls
  share nothing but the maps they are named in; one frame per stream, one event, one input. A view that
  attaches again does so under a new stream number, which is a first attach.
- `TerminalOpen`: two panes share the route, and one takes its id from the other's refusal; one is in the saved layout
  (it restores), the other is not (it is a new tab, or an orphan's, or a refused pane's). At the start the host is up or absent and lists any
  session under each id. Two tasks make a close meet a restart, a departure or a second pane; one fault at any step, which may be a session
  of another worktree that appears under a free id (2.4 million states). A view
  asks only where the code calls it: on its first drawing, when woken, on retry and restart.
- `Symmetry` permutes readers, and is used only by `host_view_give_up`, which has no liveness.

**Deadlock** is not checked: a host may leave, output and budgets end, and every actor may be done.

**Fairness.** Each fair specification names what is scheduled and nothing else.

- `HostCore`: the thread that holds or is granted the gate, the idle watcher (it polls every 100 ms), time, the main
  thread, timers and pumps run (weak fairness). Owners have strong fairness: one may block in a write and be
  released again and again, and its command queue in front of a Close is finite. That some owner and some pump run suffices, because
  each has finitely many steps to take. Nothing is assumed of clients, of children, or of a write or a start that blocks for good.
- Views: the owner's loop, forwarders and views run; a reader opens again. The child need not write.
- `HostProcess`: processes run; the retries of a candidate are long against one probe of the lock, so
  `AcquireLock` has strong fairness. Nobody has to quit, idle out or crash. The model
  lets a host decide to leave while a client is between its look and its connection.
- `MuxRequests`: the reader and detach threads, the read loop, forwarders that were stopped and a
  connection that leaves go on; a read loop sees within `READ_WAKE` that its connection is cut. Callers need not give up, and nobody has to print.
- `TerminalOpen` has no fairness: `WaitersAreWoken` says in each state who is still to wake a view that waits, and each of these steps is a thread's that
  runs or a call that is bounded in time.
- `SessionNews`: some thread of the host runs (pumps publish, a create and a close go on to their end; their steps are finitely
  many), each subscriber runs and, after a drop, gets a connection again within their grace or give up (`GivesUp`, phase "over"; the liveness property says so). Nobody has to create, close or exit.

**Conditions in properties.** Where the code gives a guarantee only under a condition, the property carries the condition. Each of
them excludes something the code does; section 6 says what, and only some have a run of their own that shows it.

| Property | Condition | What it excludes |
|---|---|---|
| `NothingIsRepeated`, `PrimaryIsRestored` | until a connection drops | a re-attachment behind what was shown, or to a journal without its screen |
| `ServerIsRecorded` | until the root is removed | files that went with the root |
| `OneServer`, `ServedFilesStay` | a host whose root is the one it locked, and no removal of the root since it looked | hosts caught by the removal between two of their steps |
| `EndIsTold` | of a link: until its connection drops | the end a re-seed does not tell (run `session_news_link_end`) |
| `OneEndPerSession` | `late`: no listing overtook an older `Created` | a second end, after a `Created` that is older than the listing |
| `ProgramIsCurrent` | `behind`, `revived`: no pump published after its session's close, no listing told an end ahead of a queued program | a program shown after the end |
| `EndedIsGone` | `missed`: somebody who could tell the host held the close, and was answered | sessions a closed tab leaves |
| `FallbackIsAlone` | the shell was started because no host answered | `"half"` (run `terminal_open_shell`) |
| `OthersAreLeftAlone` | `usurped`: nothing of the pane was to act on the id unseen when the other session came, and no recreate is asked for its id | the gap between the listing and the act, and closes that never listed |

## 5. Proofs

`HostCore_proofs` proves, for every set of clients and ids and every value of the bounds (from
`HostCoreAssumption`: the bounds are natural numbers, the switches Booleans, `None` is neither an
id nor a number):

| Theorem | States |
|---|---|
| `TypeCorrect` | `Spec => []TypeOK` |
| `LeavingIsSafe` | `Spec => []NoLiveSessionWhileLeaving` |
| `ProcessesAreKept` | `Spec => []NoProcessForgotten` |
| `LeavingIsFinal` | `Spec => LeavingTakesNothing` |

`NoProcessForgotten` says of a child that runs: its owner has not ended; the session is in one of four hands (the table, the gate's
operation that created it, that closes it or waits for it, a forced shutdown's rest), or the host gave up on its owner after 5 s and
then the owner has its order to end (`close`); and only a child of the last kind outlives the host.

The argument. No safety property is inductive by itself: they depend on what the operation that
holds the gate has already looked at. `IInv` therefore is

- `TypeOK`;
- `GateOK`, what each step of the gate's operation knows: a creation in progress excludes the
  decision to leave and found its id free, and the session it spawned bears that id; a close and a
  forced shutdown still hold the sessions they took from the table, and the one waited for was told;
- `SessionsOK`: an exit is sent, kept and published in this order, of a child that is dead;
- `LeavingOK`: what a host that decided to leave still closes has exited;
- `PumpedAreNamed`, a session with a pump has an id (for the type of what the pump publishes);
- `NoLiveSessionWhileLeaving` and `NoProcessForgotten`.

`InitIInv` and one lemma per conjunct (`TypeStep`, `GateStepOK`, `PumpStep`, `LeavingStep`, `SessionsStep`, `LeavingOKStep`,
`ForgottenStep`) go through the actions one by one. `NoLiveSessionWhileLeaving` holds because a
creation cannot be at its insertion when `shutdown` is set (`GateOK`), and every other way to set
`shutdown` looks at `Live` in the same step. `NoProcessForgotten` holds because each step that
takes a child from one hand gives it to another in the same step, or to an owner that was told; most actions only need that table and gate
stay and no child is born (step `quiet`). What `Leave` takes along is in no hand but of a child that exited (`SessionsOK`,
`LeavingOK`, `NoLiveSessionWhileLeaving`) or given up. `LeavingIsFinal` is an action property and uses `GateOK` for the creation steps.

The second half of `HostCore_proofs` goes on from that invariant to what the host tells its subscribers:

| Theorem | States |
|---|---|
| `TopicIsInOrder` | `Spec => []EventsInOrder` |
| `AnnouncementIsCurrent` | `Spec => []AnnouncedIsCurrent` |

`EventsInOrder` speaks of the topic only; that the next event keeps it rests on where a session can be. `TopicInv` says so:
a pump runs only after `Created` (`PumpOK`); an exit is sent once and is on its way or published,
never both (`ExitOK`); once `Closed` is out neither table nor gate holds the session (`ClosedOK`), which
needs that a session is found under its own id only (`NamesOK`) and that incarnations are never used again
(`NewOK`). `StateOK` weakens `AnnouncedIsCurrent` to what each step keeps: between two announcements the
live sessions only lose some whose exit is on its way, unless the gate's operation is still to announce.
Steps that touch none of this are one lemma (`QuietStep`); each of the others has a lemma of its own, over two lemmas about `Append`.

`TerminalOpen_proofs` proves, for every set of panes, every saved layout and every bound (from
`TerminalOpenAssumption`: the saved panes are panes, `None` is no pane and none of the strings it
stands beside, the bounds are natural numbers):

| Theorem | States |
|---|---|
| `TypeCorrect` | `Spec => []TypeOK` |
| `OneStartPerBurst` | `Spec => []BurstStartsOnce` |
| `WaitersKeepAWaker` | `Spec => []WaitersAreWoken` |
| `FallbacksAreAlone` | `Spec => []FallbackIsAlone` |
| `ClosedTabsAreGone` | `Spec => []EndedIsGone` |
| `OthersAreSafe` | `Spec => OthersAreLeftAlone` |
| `EndsAreAskedFor` | `Spec => OnlyTheAskedEnd` |

The argument. `IInv` is `TypeOK`, `WaitersAreWoken` and

- `SlotOK`: a slot is in flight exactly while its worker runs, so the view that finds a slot in flight
  can rely on a worker to wake it, and no worker runs for a slot that was taken or never filled;
- `StartOK`: until the startup's ensure ends no slot exists, nothing is recorded of a host and no view
  waits on the real factory;
- `BurstOK`: only the holder of the ensure lock ensures, and not while a failed start is fresh, so the
  count of starts is 1 only while `BackedOff` answers everybody;
- `NoHostOK`: a remembered "no host" means there is none, a host that is gone lists nothing and has no create to carry out, and a pane
  that was told so (in its worker, its slot or its view) has no session until it is opened again; a pane with a shell has no slot;
- `OthersOK`: only a usurped pane has a link to another worktree's session, or something that is to close or attach by an id
  (`ActsUnseen`) which such a session holds;
- `AskedOK`: whatever ends a session (a recreate, an `end` kept for an open in flight, a link told to
  end) is under way only for a pane the user closed or restarted;
- `LinkOK`: what a worker answered as linked, what waits in a slot as linked and what a view shows as running has a
  link whose owner has not been told to end it, so that a close always finds somebody to tell;
- `EndOK`: the `end` of a closed tab that is not `missed` is with its worker while the slot is in flight (a later
  `detach` does not take it back, see `Merged`), or with the owner of a link, or the pane has no session.

TLC checked each conjunct first. The lemmas named `...Fields` say once what the functions several actions share
(`Asks`, `Abandoned`, `Told`, `Woken`, ...) do to the fields the invariants speak of; one lemma
per conjunct (`TypeStep`, `SlotStep`, ... `WakeStep`) then goes through the actions. `ListStep`
gives the ways a pane's entry in the host's list changes in a step, from which the two action
properties follow with `OthersOK` and `AskedOK`.

`HostProcess_proofs` proves, for every set of clients, every number of hosts and roots (from
`HostProcessAssumption`):

| Theorem | States |
|---|---|
| `TypeCorrect` | `Spec => []TypeOK` |
| `OneServerHolds` | `Spec => []OneServer` |
| `ServerIsRecordedHolds` | `Spec => []ServerIsRecorded` |
| `SilentIsNotAbsentHolds` | `Spec => []SilentIsNotAbsent` |
| `ServedFilesStayHolds` | `Spec => ServedFilesStay` |

The argument is about locks. `LockOK`: the lock of a root is held exactly by a host between taking it and its end, of
its own root, or by a client in its probe, so two hosts that listen hold the locks of different roots. `RootOK`: no host locks a root
that is not there yet, and until it publishes it has seen no other (`saw`). `FilesOK`: what is in a root was made there, by a host that came far
enough, and who goes on to remove its files read its state file in the root it made them in. With `LockOK`, two hosts listen in one root only if
one of them locked another, which is what `OneServer` leaves: the root may be removed at any step. `RecordOK`: in a root nobody removed, a host's
files are there until it removes them itself; the comparison before each removal is what keeps a late host's hands off.
`LookOK`: a host a client did not find is dead, or the
client's probe of the lock will still find it. `Moves` says once what the steps of a host do to the lock, `HostMoves` what they do to the files.

`MuxRequests_proofs` proves, for every set of calls and kinds of requests (from `MuxRequestsAssumption`):

| Theorem | States |
|---|---|
| `TypeCorrect` | `Spec => []TypeOK` |
| `NoAnswerThrownAwayHolds` | `Spec => []NoAnswerThrownAway` |
| `NoOrphanFrameHolds` | `Spec => []NoOrphanFrame` |
| `AnsweredIsServedHolds` | `Spec => []AnsweredIsServed` |

The invariant follows a request. `CallOK`: caller, answer channel, `pending` and `finish` agree on a call, which the
lock of `pending` is there for. `AskOK`: a request that was written is in one place (socket, read loop, worker,
answer on its way). `AwaitedOK`: and until its answer is read the pending entry of an attach is there, so the reader
can install the stream. `OrderOK`: data of a stream follows the answer that installs it, and none follows the answer to its
detach, because the host joins the forwarder first. `KeptOK`: what an answer promised is kept by both ends.

`LocalView_proofs` and `HostView_proofs` prove, for every set of views, journal, limit and bound, of a program whose
snapshots fit the queue (`SnapSize <= Limit`, the hypothesis of each theorem; section 6 says what happens otherwise):

| Module | Theorem | States |
|---|---|---|
| `LocalView_proofs` | `ViewsAreExactHolds` | `Spec => []ViewsAreExact` |
| | `ChargeIsExactHolds` | `Spec => []ChargeIsExact` |
| | `QueueIsBoundedHolds`, `LaggedIsLastHolds`, `TypeCorrect` | the same of this view |
| | `PromiseSteps` | initial states map to initial states of `OutputView`, every step to a step or none |
| `HostView_proofs` | `NothingIsMissedHolds` | `Spec => []NothingIsMissed` |
| | `NothingIsRepeatedHolds` | `Spec => []NothingIsRepeated` |
| | `PrimaryIsRestoredHolds` | `Spec => []PrimaryIsRestored` |
| | `SettledIsCurrentHolds` | `Spec => []SettledIsCurrent` |
| | `QueueIsBoundedHolds`, `LaggedIsLastHolds`, `TypeCorrect` | `Spec => []...` |
| | `PromiseSteps` | as above |

The idea is that what is on its way to a view, through whatever queues, is one sequence. `Linked` says that each output
in it starts where the chunk before it ends and that only the last may be `Lagged`; `Completed` that a snapshot has
the empty output behind it that carries the journal's head; `Within` that nothing lies behind the view or beyond
the session; `Reaches` that a live attachment's sequence ends where the session is. `Flowing` puts them together for an
attachment; `SessionEngine_proofs` shows that `Deliver`, `Attach` and the resynchronisation keep it, whatever overflows.
`IInv` of a view is then

- `TypeOK` and `FeedsOK`, feeds in hand are bounded;
- `AskOK`: a view that waits for an attachment asked once, and what it said of where it is still holds;
- `SlotOK`: an attachment is read by one view;
- `SoundOK`: a queue weighs no more than its attachment is charged, is within the limit unless it is one chunk, and only its last
  chunk is a `Lagged` (`QueueIsBounded`, `LaggedIsLast`);
- `HeldOK` (`LocalView`): with what the view has in hand the charge is exact; `LinksOK` (`HostView`): the client
  holds one snapshot back at most, which is the only one without its output;
- `ViewsOK`: the sequence goes on where the view is, or before it once a connection dropped.

`PrimaryIsRestored` needs `PrimaryOK` besides: `ScreenOK` ties the owner's memory of the screen to the output drained so far, and
`OwedOK` says that a view with a live attachment is owed a snapshot by the owner, or what is on its way leaves it
with the primary screen (`Restored`). The weight of a queue is a recursive function; what is needed of it
is proved without an induction theorem, from the least counterexample (`WFMin` of `WellFoundedInduction`).

`SessionNews_proofs` proves, for every set of links, listeners and programs and every bound (from `SessionNewsAssumption`):

| Theorem | States |
|---|---|
| `TypeCorrect` | `Spec => []TypeOK` |
| `OneEnd` | `Spec => []OneEndPerSession` |
| `ProgramTold` | `Spec => []ProgramIsCurrent` |
| `EndTold` | `Spec => []EndIsTold` |

The events of three threads (owner, pump, subscriber) are ordered by what is still on its way. Because an id is used again at once, a
queue holds events of several sessions, and the order between them is what the proof is about. `IInv` is `TypeOK` and

- `HostOK`: one session is open at most, all before it are closed, and what an owner sent is its own, ends with the exit
  and ends on the program it has;
- for each subscriber `QueueOK` and `EventOK`: a `Created` comes after everything of earlier sessions, and so does, unless a pump was behind
  a close, everything of a session; a program of a session that is gone is followed by a `Closed`; a listing in progress whose session was
  closed since, or followed by another, has the event that says so in the queue behind it;
- `ToldOK` with `EndedOK`: whose end a listener told has ended, and what could let it end again (a listing with it, a `Created` of it
  or of one before it) is past, unless the subscriber is `late`; a link tells one end at most;
- `EndOK`: an exit the subscriber has not told is on its way: with the owner or in the queue, behind every `Created` (`Pending`), in
  the summary a link lists, or due behind the snapshot it attached with (`Coming`);
- `ProgramOK`: likewise for the program: the last one on its way is the session's, or an older session's with a `Closed` behind it
  (`LastOK`); when none is on its way, the subscriber shows the session's, or a `Closed` that clears it is (`KnownOK`, `FirstOK`).

Steps of the host leave a subscriber's record alone and steps of a subscriber the host, so each part has one lemma for what the
other side's steps can do to it (`...Stays`), and one lemma for each action does the rest (`...Keeps`).

What stays with TLC, and why:

- Liveness and fairness (`GateIsReleased`, `UnusedHostLeaves`, `ExitIsPublished`, `EnsureSucceeds`, `EndReachesTheApp`,
  `GivenUpStreamsEnd` and the liveness half of `PromiseKept`): `ENABLED` and the induction behind fairness are out of the prover's reach.
- The properties the code does not keep (section 6): there is nothing to prove.

## 6. Disagreements and limits

Four runs show a statement of a document or a comment that the code does not keep. `PROJECT.json` quotes them.

1. `session_news_link_end`: the re-seed after a reconnection has no exit; a session that exited while
   the connection was down looks alive.
2. `mux_input`: a stream that lags is taken out of the connection by its forwarder; what is typed before the
   view has read its `Lagged` names a stream the connection does not hold, and the host ends the
   connection of every terminal of the app (they reconnect; the input is lost).
3. `terminal_open_restart`: a restart tells the old link's owner thread to end the session and lets the open worker close it as well,
   both by the id. The worker waits until the id is not listed, not for the owner, whose close may then end the session
   just created; the view shows it as running.
4. `terminal_open_shell`: a host that answers the ensure and not the second connection of `HostHandle::term` is reported as no host, and
   the pane whose session it holds falls back to a shell of its own, beside the session. A `Restart` of that shell, once the route reaches the
   host, closes whatever is listed under the id.

The models show more that have no run of their own:

- SIGKILL is a thread of the host that sleeps 500 ms (`Escalate` in `HostCore`); a host that leaves earlier takes it along, and a
  child that ignores SIGTERM survives a forced shutdown.
- `next_offset` does not move with a snapshot (`HostView`); a view that loses its connection between a snapshot and its marker resumes
  before it and shows output twice, which is why `NothingIsRepeated` is asked until a connection drops.
- A tab closed before it was drawn, while the startup still looks for the host, or after its open failed ends nothing (`CloseTab`: the
  view is pending, its factory is `PendingFactory`, whose `abandon` does nothing, or it is failed). A session it was to restore goes on and is
  adopted as an orphan the next time. The close of a link whose connection is down is lost in the same way (`OwnerEnds`), and so is
  the session of a create that was not answered (`settle_abandoned` says why). All of these are `missed` in `EndedIsGone`: not only calls
  without an answer, but also closes that had nobody to tell.
- An act by id after the listing does not look again whose session it is: a create refused as a duplicate attaches (`link.rs:568-579`), a link's
  `end` and a recreate close, a reconnection attaches. If another worktree's session took the id in between, it is attached to or
  ended, against `link.rs:522-525`, "A restore attaches only to a session its own worktree holds" (`usurped` in `OthersAreLeftAlone`). The restart of an
  in-process shell, and one that goes with a refused pane to its next id (`Rebind`), close by the id without any look.
- A listing may overtake a `Created` that is older; when the listing says that the session has exited, the listener tells the end, the late `Created` makes
  it forget that, and the `Exited` or `Closed` behind it tells the end again, against `host_programs.rs:14-17`, "at most one end per session"
  (`late` in `OneEndPerSession`). In the same way a program that was queued before the listing is shown after the end (`revived` in `ProgramIsCurrent`),
  and one that a pump publishes after its session's close is shown for the next session of the id (`behind`).
- After 5 s a close of a session whose owner is blocked in a PTY write is announced and answered although the
  owner has not read it (`CloseAnswered` of a stalled owner): the child runs on, listed nowhere, until the write returns.
- A spawn that gave up after 5 s leaves a child that is listed nowhere (`CreateSpawnTimesOut`). Its owner ends it when it reaches its loop and finds the
  handle gone; it runs on if the owner never gets there, or if the host leaves first.
- An attach that the owner does not answer within 5 s is answered with a stream nobody feeds
  (`CanTimeOut` in `HostView`): the view waits in silence, which is why `PromiseKept` is asked without it.

Known limits that the models exclude by a named bound or condition:

- `SnapSize <= Limit`: the host's queue takes a chunk of any size when it is empty, the client's does not
  (`mux.rs` `reserve_stream_bytes`). A larger snapshot would lag, be asked for again and lag for ever. A snapshot
  whose first pieces fit and a later one does not is dropped as a whole; with one charge for a snapshot the models do not show the moment in between.
- A resumed attachment replays the journal without the screen it began on (`link.rs` `reconnect_until_attached`): after a
  reconnection across a switch of screens the primary one may be missing (`drops = 0` in `PrimaryIsRestored`).
- A write that times out in the middle of a frame leaves the rest of the connection unreadable
  (`mux.rs` `call_with` only returns the error); `Write` has whole frames or none.
- A call that registers after `finish` drained the pending ones waits for its whole timeout, and a subscription
  that timed out stays published at the host; both are in `MuxRequests`, and nothing promises otherwise.
- Events published between the host's subscription and its answer reach a client that does not know the number
  yet and drops them; every subscriber of `term.sessions` lists afterwards (`SessionNews`).
- A host of a removed root may remove a file of the next root's host between its comparison and its
  removal (`lifecycle.rs:158`, `173`). A host whose root is removed between its opening of the lock file and its binding (`lifecycle.rs:27-62`)
  serves the next root under the old lock, so that a second one can listen there too; its comparison, of an identity read after binding, may then
  take the second one's socket for its own. `OneServer` and `ServedFilesStay` say what is left when the root may be removed at any step.
- A session of another worktree ends only with its host in `TerminalOpen`, and comes under a free id only; its owner's own close of it is that app's business.

## 7. Not modelled, and the plan

Left out of the modelled components: bytes, colours and key encodings (`sirio_term_session/src/keys.rs`, the
resident terminal beyond its active screen), framing and handshake of a connection, what `term.input`,
`resize`, `read` and `wait` do to a session (nothing the properties see), process groups of descendants, the Windows job object,
retirement of hosts of earlier protocols, staging of the binary.

Of the opening of terminals: attach-only tabs (they never create, and a close only detaches them), the floor of the ids and the
deduplication of layouts at the first answer (`host_sessions.rs`: pure functions), the close of a whole worktree or project, the prelude, and the
local shell a view falls back to.

Components not modelled: chat transports (the protocols are external SDKs' or one child's; the turn
state is a candidate), agent activity (a state machine over evidence: planned), OpenCode watch and language servers
(one external peer with retries: candidates), control socket (one request at a time), update and registry (sequential file operations; a
crash model of `sirio_apply` is a candidate), persistence (SQL), git, forge and usage (queries), user interface, environment.

Order of work, most important behaviour first:

1. `HostCore`, with its invariant proved (done).
2. `SessionEngine`, `LocalView`, `HostView`, `OutputView` (done).
3. `HostProcess` (done).
4. `SessionNews` (done).
5. `MuxRequests` (done).
6. `TerminalOpen` (done).
7. `ForegroundTracker` (`program.rs`), agent activity, the sender thread of `HostLink`: not modelled yet.
8. Proofs: of every safety property the runs check (done).
