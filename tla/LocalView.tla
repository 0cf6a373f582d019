------------------------------ MODULE LocalView ------------------------------
(***************************************************************************)
(* A view of a session in its own process, the fallback without a host:    *)
(* crates/sirio_terminal/src/link.rs, LocalLink and forward_local, on the  *)
(* attachments of SessionEngine.  There is no connection to lose; a view   *)
(* that lags, or whose attach gave up, resumes at its next_offset.         *)
(***************************************************************************)
EXTENDS SessionEngine

CONSTANT MaxTimeOut   \* bound: attaches that give up after 5 s

ASSUME LocalViewAssumption == MaxTimeOut \in Nat

VARIABLES
  local,     \* reader -> its forwarder thread and its view
  timeouts

localVars == <<engineVars, local, timeouts>>

(* `hold`: the weight of the chunk that was sent to the view and is not yet
   taken off the queue's counter, None between chunks. *)
LocalState == [ open : BOOLEAN, hold : 0..(MaxOut + SnapSize) \cup {None},
                next : 0..MaxOut, view : View ]

NewLocal == [ open |-> FALSE, hold |-> None, next |-> 0, view |-> EmptyView ]

Init ==
  /\ EngineInit
  /\ local = [r \in Reader |-> NewLocal]
  /\ timeouts = 0

(* Left behind by the view: the receiver of its attachment is dropped. *)
Closed(a) == [fan EXCEPT ![a].open = FALSE, ![a].queue = << >>]

(* LocalLink::open attaches for a snapshot. *)
Open(r) ==
  /\ ~local[r].open
  /\ local' = [local EXCEPT ![r].open = TRUE]
  /\ commands' = Append(commands, AttachCommand(r, None))
  /\ UNCHANGED <<out, phase, wasAlt, saw, fan, first, feeds, att, timeouts>>

(* Mutated: the offset to resume from is the one the chunk began at. *)
NextOffset_Stale(l, c) == IF c.type = "Output" THEN c.at ELSE l.next

(* next_offset: only output moves it. *)
NextOffset(l, c) == IF c.type = "Output" THEN c.at + c.len ELSE l.next

(* Mutated: only output is taken off the counter. *)
Charged_OutputOnly(c) == c.len

(* `charged`: what the chunk weighs in the queue. *)
Charged(c) == Weight(c)

(* One chunk goes to the view. *)
Forward(r) ==
  /\ att[r] # None /\ local[r].hold = None
  /\ fan[att[r]].queue # << >> /\ Head(fan[att[r]].queue).type # "Lagged"
  /\ LET c == Head(fan[att[r]].queue)
     IN local' = [local EXCEPT ![r].hold = Charged(c),
                               ![r].view = Shown(@, c),
                               ![r].next = NextOffset(local[r], c)]
  /\ fan' = Received(att[r])
  /\ UNCHANGED <<out, phase, wasAlt, saw, first, commands, feeds, att, timeouts>>

(* Attachment::consumed, once the view's channel has the chunk. *)
Consume(r) ==
  /\ local[r].hold # None
  /\ local' = [local EXCEPT ![r].hold = None]
  /\ fan' = Consumed(att[r], local[r].hold)
  /\ UNCHANGED <<out, phase, wasAlt, saw, first, commands, feeds, att, timeouts>>

(* Lagged, or a channel whose sender is gone: attach again where the view is. *)
Reattach(r) ==
  /\ att[r] # None /\ local[r].hold = None
  /\ \/ fan[att[r]].queue # << >> /\ Head(fan[att[r]].queue).type = "Lagged"
     \/ fan[att[r]].queue = << >> /\ ~fan[att[r]].live
  /\ commands' = Append(commands, AttachCommand(r, local[r].next))
  /\ fan' = Closed(att[r])
  /\ att' = [att EXCEPT ![r] = None]
  /\ UNCHANGED <<out, phase, wasAlt, saw, first, feeds, local, timeouts>>

(* Mutated: a forwarder whose attachment is disconnected ends. *)
AttachTimesOut_Ends(r) ==
  /\ timeouts < MaxTimeOut /\ Waiting(r)
  /\ timeouts' = timeouts + 1
  /\ commands' = Abandon(r)
  /\ UNCHANGED <<out, phase, wasAlt, saw, fan, first, feeds, att, local>>

(* Session::attach gave up: the attachment it returns instead is already
   disconnected, and the view attaches again. *)
AttachTimesOut(r) ==
  /\ timeouts < MaxTimeOut /\ Waiting(r)
  /\ timeouts' = timeouts + 1
  /\ commands' = Append(Abandon(r), AttachCommand(r, local[r].next))
  /\ UNCHANGED <<out, phase, wasAlt, saw, fan, first, feeds, att, local>>

ReaderStep(r) == Open(r) \/ Forward(r) \/ Consume(r) \/ Reattach(r)

Next ==
  \/ (\E k \in {"text", "switch"} : Drain(k)) /\ UNCHANGED <<local, timeouts>>
  \/ OwnerStep /\ UNCHANGED <<local, timeouts>>
  \/ AskFeed /\ UNCHANGED <<local, timeouts>>
  \/ \E r \in Reader : ReaderStep(r) \/ AttachTimesOut(r)

(* Fairness: the owner's loop and the forwarder threads run. *)
Fairness ==
  /\ WF_localVars(OwnerStep /\ UNCHANGED <<local, timeouts>>)
  /\ \A r \in Reader : WF_localVars(ReaderStep(r))

Spec == Init /\ [][Next]_localVars
FairSpec == Spec /\ Fairness

-----------------------------------------------------------------------------
(* Type invariant: what the forwarder has in hand is the weight of a chunk, and
   offsets stay within the output (forward_local). *)
TypeOK ==
  /\ EngineTypeOK
  /\ local \in [Reader -> LocalState]
  /\ timeouts \in 0..MaxTimeOut

(* Through lagging, a wrapped journal and abandoned attaches a view neither
   loses nor repeats a byte. *)
ViewsAreExact == \A r \in Reader : local[r].view.fault = "none"

(* The queue counter of an attachment that is read is what is queued and what
   the forwarder has in hand: nothing leaks that would make a view lag that
   keeps up (Attachment::consumed). *)
ChargeIsExact ==
  \A r \in Reader : att[r] # None =>
    fan[att[r]].charge = QueuedWeight(fan[att[r]].queue)
                         + (IF local[r].hold = None THEN 0 ELSE local[r].hold)

(* What a view promises, whatever carries it. *)
Promise == INSTANCE OutputView WITH
  made  <- Head0,
  shown <- [r \in Reader |-> local[r].view.pos]
PromiseKept == Promise!Spec
=============================================================================
