---------------------------- MODULE SessionEngine ----------------------------
(***************************************************************************)
(* The owner thread of one terminal session and what it hands to the       *)
(* session's attachments (crates/sirio_term_session: owner.rs, fanout.rs,  *)
(* journal.rs), up to the receiving end of an attachment's channel.        *)
(* LocalView and HostView add the two kinds of reader.                     *)
(*                                                                         *)
(* One byte of output is one element of `out`, so the journal's head is    *)
(* Len(out).  Of what bytes do to a terminal only one thing matters here:  *)
(* "switch" enters or leaves the alternate screen, "text" does neither.    *)
(* A chunk names the range of output it carries, not the bytes.            *)
(***************************************************************************)
EXTENDS Naturals, Sequences, FiniteSets

CONSTANTS
  Reader,      \* who attaches: views, or streams of clients
  Cap,         \* JOURNAL_BYTES: what the journal keeps
  Limit,       \* STREAM_QUEUE_BYTES: what an attachment may have queued
  SnapSize,    \* the size of a snapshot
  None,        \* no attachment, no offset, nobody
  MaxOut,      \* bound: bytes of output
  MaxAttach,   \* bound: attachments at one time
  MaxFeed      \* bound: term.feed commands

ASSUME SessionEngineAssumption ==
  /\ Cap \in Nat /\ Limit \in Nat /\ SnapSize \in Nat
  /\ MaxOut \in Nat /\ MaxAttach \in Nat \ {0} /\ MaxFeed \in Nat
  /\ None \notin Nat /\ None \notin Reader

VARIABLES
  out,        \* every byte that went through the resident terminal
  phase,      \* how far the owner is in its tick
  wasAlt,     \* was_alternate
  saw,        \* alternate_attachments
  fan,        \* attachment -> its slot, its channel and its queue counter
  first,      \* AttachmentId(1) was given out
  commands,   \* the owner's command channel
  feeds,      \* term.feed commands sent so far
  att         \* reader -> the attachment it reads, None without one

engineVars == <<out, phase, wasAlt, saw, fan, first, commands, feeds, att>>

Att == 1..MaxAttach

(* Chunk: `at` is the journal offset a snapshot shows, or an output starts at. *)
Snapshot(n)     == [type |-> "Snapshot", at |-> n, len |-> 0]
Output(o, n)    == [type |-> "Output", at |-> o, len |-> n]
Resync          == [type |-> "Resync", at |-> 0, len |-> 0]
Lagged          == [type |-> "Lagged", at |-> 0, len |-> 0]
Chunk == [ type : {"Snapshot", "Output", "Resync", "Lagged"}, at : 0..MaxOut, len : 0..MaxOut ]

Weight(c) == IF c.type = "Snapshot" THEN SnapSize ELSE c.len
QueuedWeight(q) == LET w[k \in 0..Len(q)] == IF k = 0 THEN 0 ELSE w[k - 1] + Weight(q[k]) IN w[Len(q)]

(* `live`: the fanout holds the slot.  `open`: the receiver still exists. *)
Slot == [ queue : Seq(Chunk), charge : Nat, live : BOOLEAN, open : BOOLEAN ]
NoSlot == [ queue |-> << >>, charge |-> 0, live |-> FALSE, open |-> FALSE ]

Head0 == Len(out)
Tail0 == IF Head0 > Cap THEN Head0 - Cap ELSE 0
Resumable(from) == from # None /\ from >= Tail0 /\ from <= Head0

(* The active screen after the first n bytes of `output` is the alternate one. *)
AltAfter(output, n) == Cardinality({ i \in 1..n : output[i] = "switch" }) % 2 = 1
Alternate == AltAfter(out, Head0)

(* Mutated: an attachment that lags keeps its slot. *)
Deliver_KeepsLagged(slot, c) ==
  IF ~slot.live THEN slot
  ELSE IF slot.charge > 0 /\ slot.charge + Weight(c) > Limit
         THEN [slot EXCEPT !.queue = Append(@, Lagged)]
         ELSE [slot EXCEPT !.queue = Append(@, c), !.charge = @ + Weight(c)]

(* Mutated: the limit is compared with what was queued before the chunk. *)
Deliver_ChecksBefore(slot, c) ==
  IF ~slot.live THEN slot
  ELSE IF slot.charge > Limit
         THEN [slot EXCEPT !.live = FALSE, !.queue = Append(@, Lagged)]
         ELSE [slot EXCEPT !.queue = Append(@, c), !.charge = @ + Weight(c)]

(* Mutated: a chunk that does not fit is left out, and the slot stays. *)
Deliver_SkipsFull(slot, c) ==
  IF ~slot.live \/ (slot.charge > 0 /\ slot.charge + Weight(c) > Limit) THEN slot
  ELSE [slot EXCEPT !.queue = Append(@, c), !.charge = @ + Weight(c)]

(* fanout.rs deliver, on one slot. *)
Deliver(slot, c) ==
  IF ~slot.live THEN slot
  ELSE IF ~slot.open THEN [slot EXCEPT !.live = FALSE]
  ELSE IF slot.charge > 0 /\ slot.charge + Weight(c) > Limit
         THEN [slot EXCEPT !.live = FALSE, !.queue = Append(@, Lagged)]
         ELSE [slot EXCEPT !.queue = Append(@, c), !.charge = @ + Weight(c)]

(* A snapshot is followed by an empty output that carries the journal's head. *)
DeliverSnapshot(slot) == Deliver(Deliver(slot, Snapshot(Head0)), Output(Head0, 0))

(* Mutated: a resume starts one byte late. *)
Started_OffByOne(slot, from) ==
  IF ~Resumable(from) THEN DeliverSnapshot(slot)
  ELSE IF from + 1 < Head0 THEN Deliver(slot, Output(from + 1, Head0 - from - 1))
  ELSE slot

(* Mutated: no offset to resume from is taken for offset 0. *)
Started_DefaultsToZero(slot, from) ==
  LET at == IF from = None THEN 0 ELSE from
  IN IF ~Resumable(at) THEN DeliverSnapshot(slot)
     ELSE IF at < Head0 THEN Deliver(slot, Output(at, Head0 - at))
     ELSE slot

(* What a new slot starts from: the journal since an offset it still covers,
   a snapshot otherwise. *)
Started(slot, from) ==
  IF ~Resumable(from) THEN DeliverSnapshot(slot)
  ELSE IF from < Head0 THEN Deliver(slot, Output(from, Head0 - from))
  ELSE slot

(* Mutated: an attachment that saw the alternate screen gets no snapshot. *)
Resynced_Silent(slot) == slot

(* What an attachment that saw the alternate screen gets when it is left. *)
Resynced(slot) == DeliverSnapshot(Deliver(slot, Resync))

(* Fanout::broadcast_output of one more byte. *)
Broadcast(k) ==
  /\ out' = Append(out, k)
  /\ fan' = [a \in Att |-> Deliver(fan[a], Output(Head0, 1))]

AttachCommand(r, from) == [op |-> "attach", who |-> r, from |-> from, id |-> None]
DetachCommand(a)       == [op |-> "detach", who |-> None, from |-> None, id |-> a]
FeedCommand            == [op |-> "feed", who |-> None, from |-> None, id |-> None]
Command == [ op : {"attach", "detach", "feed"}, who : Reader \cup {None},
             from : 0..MaxOut \cup {None}, id : Att \cup {None} ]

Waiting(r) == \E k \in 1..Len(commands) : commands[k].op = "attach" /\ commands[k].who = r

(* A caller of Session::attach that gave up after 5 s: its reply goes nowhere. *)
Abandon(r) ==
  [ k \in 1..Len(commands) |->
      IF commands[k].who = r THEN [commands[k] EXCEPT !.who = None] ELSE commands[k] ]

(* Fanout::next only counts up.  Identifiers nothing names any more are used
   again here, except the first, which the fallback of Session::attach also
   uses. *)
Unnamed(a) ==
  /\ ~fan[a].live
  /\ \A r \in Reader : att[r] # a
  /\ \A k \in 1..Len(commands) : commands[k].id # a
FreshIds == IF ~first THEN {1} ELSE { a \in Att \ {1} : Unnamed(a) }

EngineInit ==
  /\ out = << >> /\ phase = "drain" /\ wasAlt = FALSE /\ saw = {}
  /\ fan = [a \in Att |-> NoSlot] /\ first = FALSE
  /\ commands = << >> /\ feeds = 0
  /\ att = [r \in Reader |-> None]

-----------------------------------------------------------------------------
(* The owner's tick: drain, resync, commands. *)

(* 1. The terminal, the journal and every attachment get what the child wrote. *)
Drain(k) ==
  /\ phase = "drain"
  /\ Head0 + feeds < MaxOut
  /\ Broadcast(k)
  /\ UNCHANGED <<phase, wasAlt, saw, first, commands, feeds, att>>

(* 3. The alternate screen was left since the last tick: whoever attached
   during it gets the primary screen. *)
EndDrain ==
  /\ phase = "drain"
  /\ IF wasAlt /\ ~Alternate
       THEN /\ fan' = [a \in Att |-> IF a \in saw THEN Resynced(fan[a]) ELSE fan[a]]
            /\ saw' = {}
       ELSE UNCHANGED <<fan, saw>>
  /\ wasAlt' = Alternate
  /\ phase' = "commands"
  /\ UNCHANGED <<out, first, commands, feeds, att>>

(* Command::Attach: a new slot, and what it is to start from.  If the caller
   gave up, the receiver is gone with the reply. *)
ServeAttach ==
  /\ phase = "commands" /\ commands # << >> /\ Head(commands).op = "attach"
  /\ \E a \in FreshIds :
       LET c    == Head(commands)
           slot == [NoSlot EXCEPT !.live = TRUE, !.open = TRUE]
       IN /\ fan' = [fan EXCEPT ![a] = [Started(slot, c.from) EXCEPT !.open = (c.who # None)]]
          /\ att' = IF c.who = None THEN att ELSE [att EXCEPT ![c.who] = a]
          /\ saw' = IF Alternate THEN saw \cup {a} ELSE saw \ {a}
  /\ first' = TRUE
  /\ commands' = Tail(commands)
  /\ UNCHANGED <<out, phase, wasAlt, feeds>>

ServeDetach ==
  /\ phase = "commands" /\ commands # << >> /\ Head(commands).op = "detach"
  /\ fan' = [fan EXCEPT ![Head(commands).id].live = FALSE]
  /\ saw' = saw \ {Head(commands).id}
  /\ commands' = Tail(commands)
  /\ UNCHANGED <<out, phase, wasAlt, first, feeds, att>>

(* Command::Feed: bytes for the terminal and the journal, not for the child.
   What the app feeds (a cleared screen, restored scrollback) is text. *)
ServeFeed ==
  /\ phase = "commands" /\ commands # << >> /\ Head(commands).op = "feed"
  /\ Broadcast("text")
  /\ feeds' = feeds - 1
  /\ commands' = Tail(commands)
  /\ UNCHANGED <<phase, wasAlt, saw, first, att>>

EndTick ==
  /\ phase = "commands" /\ commands = << >>
  /\ phase' = "drain"
  /\ UNCHANGED <<out, wasAlt, saw, fan, first, commands, feeds, att>>

OwnerStep ==
  \/ EndDrain \/ ServeAttach \/ ServeDetach \/ ServeFeed \/ EndTick

AskFeed ==
  /\ feeds < MaxFeed /\ Head0 + feeds < MaxOut
  /\ feeds' = feeds + 1
  /\ commands' = Append(commands, FeedCommand)
  /\ UNCHANGED <<out, phase, wasAlt, saw, fan, first, att>>

(* An attachment's receiver takes a chunk and, later, Attachment::consumed
   takes its weight off the counter. *)
Received(a)    == [fan EXCEPT ![a].queue = Tail(@)]
Consumed(a, w) == [fan EXCEPT ![a].charge = IF @ > w THEN @ - w ELSE 0]

-----------------------------------------------------------------------------
(* What a view makes of the chunks it is given: how far it has got, whether
   its primary screen is the session's, and whether what it shows has lost
   or repeated output since its last snapshot. *)

View == [ pos : 0..MaxOut, primary : BOOLEAN, fault : {"none", "gap", "repeat"} ]
EmptyView == [ pos |-> 0, primary |-> TRUE, fault |-> "none" ]

(* LinkChunk::Snapshot resets the terminal and writes the active screen;
   LinkChunk::Output is written to it, an empty one does nothing. *)
Shown(view, c) ==
  IF c.type = "Snapshot"
    THEN [ pos |-> c.at, primary |-> ~AltAfter(out, c.at), fault |-> "none" ]
  ELSE IF c.type = "Output" /\ c.len > 0
    THEN [ view EXCEPT !.pos = c.at + c.len,
                       !.fault = IF c.at > view.pos THEN "gap"
                                 ELSE IF c.at < view.pos THEN "repeat" ELSE @ ]
  ELSE view

EngineTypeOK ==
  /\ out \in Seq({"text", "switch"}) /\ Head0 <= MaxOut
  /\ phase \in {"drain", "commands"} /\ wasAlt \in BOOLEAN /\ saw \subseteq Att
  /\ fan \in [Att -> Slot] /\ first \in BOOLEAN
  /\ commands \in Seq(Command) /\ feeds \in 0..MaxFeed
  /\ att \in [Reader -> Att \cup {None}]

(* A slot that left the fanout is not written to again: Lagged is the last
   chunk of its attachment (fanout.rs: "it receives Lagged, is removed"). *)
LaggedIsLast ==
  \A a \in Att : \A k \in 1..Len(fan[a].queue) :
    fan[a].queue[k].type = "Lagged" => ~fan[a].live /\ k = Len(fan[a].queue)

(* An attachment never has more than the limit queued, unless all of it is
   one chunk that found the queue empty (and the markers that weigh nothing). *)
QueueIsBounded ==
  \A a \in Att :
    \/ fan[a].charge <= Limit
    \/ Cardinality({ k \in 1..Len(fan[a].queue) : Weight(fan[a].queue[k]) > 0 }) <= 1
=============================================================================
