------------------------------ MODULE HostView ------------------------------
(***************************************************************************)
(* A view of a session that lives in the host: the owner's attachment, the *)
(* host's forwarder (crates/sirio_host/src/router.rs forward_attachment),  *)
(* the client's multiplexer (crates/sirio_host_client/src/mux.rs) and the  *)
(* view's own thread (crates/sirio_terminal/src/link.rs forward_host).     *)
(*                                                                         *)
(* The connection is a FIFO that the client's reader thread empties        *)
(* without ever waiting, so a forwarded frame is dispatched in the step    *)
(* that forwards it.  What a dropped connection loses is what was not      *)
(* forwarded and what the view had not taken.                              *)
(***************************************************************************)
EXTENDS SessionEngine

CONSTANTS
  MaxDrop,     \* bound: connections that drop
  CanTimeOut   \* Session::attach may wait its 5 s for an owner that is blocked

ASSUME HostViewAssumption == MaxDrop \in Nat /\ CanTimeOut \in BOOLEAN

VARIABLES
  link,    \* reader -> the client's end of its stream
  drops

hostVars == <<engineVars, link, drops>>

(***************************************************************************)
(* `state`: "new" before the first attach, "down" without a connection.    *)
(* `sink`: the multiplexer holds the stream.  `pending`: the snapshot that *)
(* is released with the next item.  `items`, `charge`: the stream's queue  *)
(* and its counter.  `next`: forward_host's next_offset.                   *)
(***************************************************************************)
LinkState == [ state : {"new", "up", "down"}, sink : BOOLEAN, pending : Seq(Chunk),
               items : Seq(Chunk), charge : Nat, next : 0..MaxOut, view : View ]

NewLink == [ state |-> "new", sink |-> FALSE, pending |-> << >>, items |-> << >>,
             charge |-> 0, next |-> 0, view |-> EmptyView ]

(* A fresh stream on the client's side. *)
Opened(l) == [l EXCEPT !.state = "up", !.sink = TRUE, !.pending = << >>,
                       !.items = << >>, !.charge = 0]

Init ==
  /\ EngineInit
  /\ link = [r \in Reader |-> NewLink]
  /\ drops = 0

-----------------------------------------------------------------------------
(* HostLink::open, and reconnect_until_attached against a fresh client. *)
Open(r) ==
  /\ link[r].state \in {"new", "down"}
  /\ commands' = Append(commands,
       AttachCommand(r, IF link[r].state = "new" THEN None ELSE link[r].next))
  /\ link' = [link EXCEPT ![r] = Opened(@)]
  /\ UNCHANGED <<out, phase, wasAlt, saw, fan, first, feeds, att, drops>>

(* The 5 s of Session::attach pass: the router answers with an attachment
   nobody feeds, whose identifier is 1; its forwarder ends at once and
   detaches that identifier. *)
AttachTimesOut(r) ==
  /\ CanTimeOut /\ Waiting(r)
  /\ commands' = Append(Abandon(r), DetachCommand(1))
  /\ UNCHANGED <<out, phase, wasAlt, saw, fan, first, feeds, att, link, drops>>

(* Mux::dispatch_data and stream_event: what the stream's queue becomes.  A
   snapshot waits for the item after it; an item that does not fit is
   replaced by Lagged and the stream is given up. *)
Fits(l, c) == l.charge + Weight(c) <= Limit

(* Mutated: the snapshot is released and kept. *)
Released_Kept(l) == [l EXCEPT !.items = @ \o l.pending]

Released(l) == [l EXCEPT !.items = @ \o l.pending, !.pending = << >>]
Overflowed(l) == [l EXCEPT !.items = Append(@, Lagged), !.sink = FALSE]

Dispatched(l, c) ==
  IF c.type = "Snapshot"
    THEN IF Fits(l, c) THEN [l EXCEPT !.pending = <<c>>, !.charge = @ + Weight(c)]
                       ELSE Overflowed(l)
  ELSE IF Fits(l, c)
    THEN [Released(l) EXCEPT !.items = Append(@, c), !.charge = @ + Weight(c),
                             !.sink = (c.type # "Lagged")]
    ELSE Overflowed(Released(l))

(* The forwarder writes a chunk, which releases its weight.  It ends with
   Lagged; a stream the client gave up is detached by request_detach. *)
Forward(r) ==
  /\ att[r] # None /\ fan[att[r]].queue # << >>
  /\ LET a == att[r]
         c == Head(fan[a].queue)
         l == Dispatched(link[r], c)
     IN /\ link' = [link EXCEPT ![r] = l]
        /\ IF l.sink
             THEN /\ fan' = [Received(a) EXCEPT ![a].charge = Consumed(a, Weight(c))[a].charge]
                  /\ UNCHANGED <<commands, att>>
             ELSE /\ fan' = [fan EXCEPT ![a].queue = << >>, ![a].open = FALSE]
                  /\ commands' = Append(commands, DetachCommand(a))
                  /\ att' = [att EXCEPT ![r] = None]
  /\ UNCHANGED <<out, phase, wasAlt, saw, first, feeds, drops>>

(* The slot is gone and nothing is left in the channel: recv fails, and the
   forwarder ends without a word to the client. *)
ForwarderEnds(r) ==
  /\ att[r] # None
  /\ ~fan[att[r]].live /\ fan[att[r]].queue = << >>
  /\ commands' = Append(commands, DetachCommand(att[r]))
  /\ fan' = [fan EXCEPT ![att[r]].open = FALSE]
  /\ att' = [att EXCEPT ![r] = None]
  /\ UNCHANGED <<out, phase, wasAlt, saw, first, feeds, link, drops>>

(* forward_host takes one item: what it shows goes to the view, Lagged makes
   it attach again for a snapshot. *)
Take(r) ==
  /\ link[r].state = "up" /\ link[r].items # << >>
  /\ LET c == Head(link[r].items)
         l == [link[r] EXCEPT !.items = Tail(@),
                              !.charge = IF @ > Weight(c) THEN @ - Weight(c) ELSE 0,
                              !.view = Shown(@, c),
                              !.next = IF c.type = "Output" THEN c.at + c.len ELSE @]
     IN IF c.type = "Lagged"
          THEN /\ link' = [link EXCEPT ![r] = Opened(l)]
               /\ commands' = Append(commands, AttachCommand(r, None))
          ELSE link' = [link EXCEPT ![r] = l] /\ UNCHANGED commands
  /\ UNCHANGED <<out, phase, wasAlt, saw, fan, first, feeds, att, drops>>

(* The connection goes.  The host drops the stream (Drop for ConnState); the
   view sees its events subscription closed after the item in hand, and
   leaves what is still queued behind. *)
Drop(r) ==
  /\ drops < MaxDrop
  /\ link[r].state = "up"
  /\ drops' = drops + 1
  /\ link' = [link EXCEPT ![r] = [Opened(@) EXCEPT !.state = "down", !.sink = FALSE]]
  /\ commands' = IF att[r] = None THEN Abandon(r)
                 ELSE Append(commands, DetachCommand(att[r]))
  /\ fan' = IF att[r] = None THEN fan
            ELSE [fan EXCEPT ![att[r]].queue = << >>, ![att[r]].open = FALSE]
  /\ att' = [att EXCEPT ![r] = None]
  /\ UNCHANGED <<out, phase, wasAlt, saw, first, feeds>>

ReaderStep(r) == Open(r) \/ Forward(r) \/ ForwarderEnds(r) \/ Take(r)

Next ==
  \/ (\E k \in {"text", "switch"} : Drain(k)) /\ UNCHANGED <<link, drops>>
  \/ OwnerStep /\ UNCHANGED <<link, drops>>
  \/ AskFeed /\ UNCHANGED <<link, drops>>
  \/ \E r \in Reader : ReaderStep(r) \/ AttachTimesOut(r) \/ Drop(r)

(* Fairness: the owner's loop runs, forwarders and views take what is there,
   a view reconnects.  The child need not write. *)
Fairness ==
  /\ WF_hostVars(OwnerStep /\ UNCHANGED <<link, drops>>)
  /\ \A r \in Reader : /\ WF_hostVars(Open(r)) /\ WF_hostVars(Forward(r))
                       /\ WF_hostVars(ForwarderEnds(r)) /\ WF_hostVars(Take(r))

Spec == Init /\ [][Next]_hostVars
FairSpec == Spec /\ Fairness

-----------------------------------------------------------------------------
(* Type invariant: offsets stay within the output, queues hold chunks, and the
   client's stream has one of the states of forward_host. *)
TypeOK ==
  /\ EngineTypeOK
  /\ link \in [Reader -> LinkState]
  /\ drops \in 0..MaxDrop

(* No byte of output falls between two chunks a view shows, through lagging,
   snapshots, resynchronisation and reconnection. *)
NothingIsMissed == \A r \in Reader : link[r].view.fault # "gap"

(* Until a connection drops no byte is shown twice: a snapshot and the stream
   behind it meet exactly, whatever lags. *)
NothingIsRepeated == drops = 0 => \A r \in Reader : link[r].view.fault # "repeat"

(* Everything the session has for the view has reached it. *)
Settled(r) ==
  /\ link[r].state = "up" /\ link[r].items = << >> /\ link[r].pending = << >>
  /\ att[r] # None /\ fan[att[r]].live /\ fan[att[r]].queue = << >>

(* Until a connection drops a view that has everything has the session's
   primary screen, once neither this tick nor the last one saw the alternate
   screen (owner.rs: the snapshot owed to alternate_attachments). *)
PrimaryIsRestored ==
  drops = 0 =>
    \A r \in Reader : (Settled(r) /\ ~wasAlt /\ ~Alternate) => link[r].view.primary

(* A view that has everything is where the session is. *)
SettledIsCurrent == \A r \in Reader : Settled(r) => link[r].view.pos = Head0

(* What a view promises, whatever carries it. *)
Promise == INSTANCE OutputView WITH
  made  <- Head0,
  shown <- [r \in Reader |-> link[r].view.pos]
PromiseKept == Promise!Spec
=============================================================================
