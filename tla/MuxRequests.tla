----------------------------- MODULE MuxRequests -----------------------------
(***************************************************************************)
(* One connection between an app and a host after the handshake: callers   *)
(* and the reader and detach threads of a Mux (crates/sirio_host_client/   *)
(* src/mux.rs, term.rs), and the read loop, the request threads and the    *)
(* forwarders that serve it (crates/sirio_host/src/connection.rs,          *)
(* router.rs).  It is about who owns a request, a stream and a             *)
(* subscription at each moment; what flows in a stream is HostView's.      *)
(*                                                                         *)
(* A request is named by its call (its id), and so are the stream of an    *)
(* attach and the subscription of a subscribe: the host gives each a       *)
(* number it does not use again.                                           *)
(***************************************************************************)
EXTENDS Naturals, Sequences

CONSTANTS
  Call,      \* calls made on the connection
  May,       \* call -> the kinds of request it may make
  None,      \* no call: a request of the detach thread
  MaxData,   \* bound: frames the host sends on one stream
  MaxEvent   \* bound: events published while a subscription is known

Kind == {"plain", "worker", "attach", "detach", "subscribe"}

ASSUME MuxRequestsAssumption ==
  /\ May \in [Call -> SUBSET Kind] /\ None \notin Call
  /\ MaxData \in Nat /\ MaxEvent \in Nat

VARIABLES
  call,       \* call -> its kind, the stream it detaches, how far it is
  answer,     \* call -> what its response channel holds
  pending,    \* Shared.pending
  abandoned,  \* attaches whose caller gave up while they were pending
  streams,    \* Shared.streams
  subs,       \* Shared.subscriptions
  reader,     \* the reader thread
  doomed,     \* calls finish has taken and not told
  tail,       \* stream -> the last word its receiver was sent
  dropped,    \* streams and subscriptions whose receiver is gone
  detaches,   \* streams the detach thread has to detach
  typed,      \* streams whose view has sent input
  toHost,     \* requests written and not read by the host
  toClient,   \* frames sent and not read by the client
  wire,       \* "open" until the writer, the process or the client is gone
  conn,       \* the host's read loop and ConnState
  serving,    \* the request the read loop is serving
  workers,    \* requests on threads of their own
  hstream,    \* stream -> its forwarder
  hsubs,      \* TopicSinks.subscribers
  sent,       \* stream or subscription -> frames sent on it
  refused     \* history: the stream whose input made the host end the connection

client == <<call, answer, pending, abandoned, streams, subs, reader, doomed, tail, dropped, detaches,
            typed>>
host   == <<conn, serving, workers, hstream, hsubs, sent, refused>>
vars   == <<client, host, toHost, toClient, wire>>

CallState == [ kind : Kind \cup {None}, of : Call \cup {None},
               at : {"idle", "begun", "registered", "waiting", "late",
                     "ok", "error", "eof", "timeout"} ]
Request == [ id : Call \cup {None}, kind : Kind \cup {"input"}, of : Call \cup {None} ]
Frame   == [ type : {"Response", "Data", "Lagged", "Event"}, of : Call \cup {None}, ok : BOOLEAN ]
Nobody  == [ id |-> None, kind |-> "plain", of |-> None, ok |-> FALSE, busy |-> FALSE ]

Init ==
  /\ call = [c \in Call |-> [kind |-> None, of |-> None, at |-> "idle"]]
  /\ answer = [c \in Call |-> "none"] /\ pending = {} /\ abandoned = {}
  /\ streams = {} /\ subs = {} /\ reader = "reading" /\ doomed = {}
  /\ tail = [c \in Call |-> "open"] /\ dropped = {} /\ detaches = << >> /\ typed = {}
  /\ toHost = << >> /\ toClient = << >> /\ wire = "open"
  /\ conn = "open" /\ serving = Nobody /\ workers = {}
  /\ hstream = [c \in Call |-> "none"] /\ hsubs = {} /\ sent = [c \in Call |-> 0]
  /\ refused = None

-----------------------------------------------------------------------------
(* Callers: Mux::call_with, one step for each lock it takes. *)

Closed == reader # "reading"     \* Shared.closed
Goes(c, where) == call' = [call EXCEPT ![c].at = where]

(* A stream somebody reads and has not begun to detach. *)
Detachable(s) ==
  /\ call[s].kind = "attach" /\ call[s].at = "ok"
  /\ \A c \in Call : call[c].of # s

Begin(c) ==
  /\ call[c].at = "idle"
  /\ \E kind \in May[c] :
       \E s \in IF kind = "detach" THEN { t \in Call : Detachable(t) } ELSE {None} :
         call' = [call EXCEPT ![c] = [kind |-> kind, of |-> s,
                                      at |-> IF Closed THEN "eof" ELSE "begun"]]
  /\ UNCHANGED <<answer, pending, abandoned, streams, subs, reader, doomed, tail, dropped, detaches,
                 typed, host, toHost, toClient, wire>>

Register(c) ==
  /\ call[c].at = "begun"
  /\ Goes(c, "registered") /\ pending' = pending \cup {c}
  /\ UNCHANGED <<answer, abandoned, streams, subs, reader, doomed, tail, dropped, detaches,
                 typed, host, toHost, toClient, wire>>

(* The write to a connection the host has left fails, or is taken by a buffer
   nobody reads. *)
Write(c) ==
  /\ call[c].at = "registered"
  /\ \/ /\ Goes(c, "waiting") /\ UNCHANGED pending
        /\ toHost' = IF wire = "open"
             THEN Append(toHost, [id |-> c, kind |-> call[c].kind, of |-> call[c].of])
             ELSE toHost
     \/ wire = "cut" /\ Goes(c, "eof") /\ pending' = pending \ {c} /\ UNCHANGED toHost
  /\ UNCHANGED <<answer, abandoned, streams, subs, reader, doomed, tail, dropped, detaches,
                 typed, host, toClient, wire>>

Answered(c) ==
  /\ call[c].at = "waiting" /\ answer[c] # "none"
  /\ Goes(c, answer[c])
  /\ UNCHANGED <<answer, pending, abandoned, streams, subs, reader, doomed, tail, dropped, detaches,
                 typed, host, toHost, toClient, wire>>

TimesOut(c) ==
  /\ call[c].at = "waiting" /\ answer[c] = "none"
  /\ Goes(c, "late")
  /\ UNCHANGED <<answer, pending, abandoned, streams, subs, reader, doomed, tail, dropped, detaches,
                 typed, host, toHost, toClient, wire>>

(* Mutants of GivesUp: the response channel is not looked at again; an attach
   is taken out like any other. *)
GivesUp_NoLook(c) ==
  /\ call[c].at = "late" /\ Goes(c, "timeout")
  /\ pending' = pending \ {c} /\ UNCHANGED abandoned
  /\ UNCHANGED <<answer, streams, subs, reader, doomed, tail, dropped, detaches,
                 typed, host, toHost, toClient, wire>>

GivesUp_TakesOut(c) ==
  /\ call[c].at = "late"
  /\ Goes(c, IF c \notin pending /\ answer[c] # "none" THEN answer[c] ELSE "timeout")
  /\ pending' = pending \ {c} /\ UNCHANGED abandoned
  /\ UNCHANGED <<answer, streams, subs, reader, doomed, tail, dropped, detaches,
                 typed, host, toHost, toClient, wire>>

(* Under the lock of pending: an attach stays there, abandoned, so that its
   answer is detached; another call is taken out; one that is not there any
   more was answered meanwhile, or finish has taken it. *)
GivesUp(c) ==
  /\ call[c].at = "late"
  /\ Goes(c, IF c \notin pending /\ answer[c] # "none" THEN answer[c] ELSE "timeout")
  /\ IF c \in pending /\ call[c].kind = "attach"
       THEN abandoned' = abandoned \cup {c} /\ UNCHANGED pending
       ELSE pending' = pending \ {c} /\ UNCHANGED abandoned
  /\ UNCHANGED <<answer, streams, subs, reader, doomed, tail, dropped, detaches,
                 typed, host, toHost, toClient, wire>>

(* TermClient::detach, after its call. *)
ForgetStream(c) ==
  /\ call[c].kind = "detach" /\ call[c].at = "ok" /\ call[c].of \in streams
  /\ streams' = streams \ {call[c].of}
  /\ UNCHANGED <<call, answer, pending, abandoned, subs, reader, doomed, tail, dropped, detaches,
                 typed, host, toHost, toClient, wire>>

(* HostLink::input: what is typed goes to the view's stream, whatever the view
   has not read yet; bound: once per stream. *)
SendInput(s) ==
  /\ Detachable(s) /\ s \notin dropped \cup typed /\ ~Closed
  /\ typed' = typed \cup {s}
  /\ toHost' = IF wire = "open"
       THEN Append(toHost, [id |-> None, kind |-> "input", of |-> s]) ELSE toHost
  /\ UNCHANGED <<call, answer, pending, abandoned, streams, subs, reader, doomed, tail, dropped,
                 detaches, host, toClient, wire>>

(* The view of a stream is gone or has attached again, or the thread behind
   TermClient::events is gone. *)
DropReceiver(c) ==
  /\ call[c].kind \in {"attach", "subscribe"} /\ call[c].at = "ok" /\ c \notin dropped
  /\ dropped' = dropped \cup {c}
  /\ UNCHANGED <<call, answer, pending, abandoned, streams, subs, reader, doomed, tail, detaches,
                 typed, host, toHost, toClient, wire>>

-----------------------------------------------------------------------------
(* The reader thread: reader_loop and finish. *)

Reads(type) == reader = "reading" /\ toClient # << >> /\ Head(toClient).type = type

(* dispatch_response, under the lock of pending. *)
DispatchResponse ==
  /\ Reads("Response")
  /\ LET f == Head(toClient)
         c == f.of
         taken == c \in pending
         installed == taken /\ f.ok /\ c \notin abandoned
     IN /\ pending' = pending \ {c}
        /\ answer' = IF taken /\ c \notin abandoned
             THEN [answer EXCEPT ![c] = IF f.ok THEN "ok" ELSE "error"] ELSE answer
        /\ streams' = IF installed /\ call[c].kind = "attach" THEN streams \cup {c} ELSE streams
        /\ subs' = IF installed /\ call[c].kind = "subscribe" THEN subs \cup {c} ELSE subs
        /\ detaches' = IF taken /\ f.ok /\ c \in abandoned THEN Append(detaches, c) ELSE detaches
  /\ toClient' = Tail(toClient)
  /\ UNCHANGED <<call, abandoned, reader, doomed, tail, dropped, typed, host, toHost, wire>>

(* dispatch_data: a frame of an unknown stream is discarded, a piece of a snapshot
   is held back, output is queued; where the queue is full, or output finds the
   receiver gone, the stream ends at both ends. *)
DispatchData ==
  /\ Reads("Data")
  /\ LET s == Head(toClient).of
     IN \/ UNCHANGED <<streams, tail, detaches>>
        \/ /\ s \in streams
           /\ tail' = IF s \in dropped THEN tail ELSE [tail EXCEPT ![s] = "lagged"]
           /\ streams' = streams \ {s} /\ detaches' = Append(detaches, s)
  /\ toClient' = Tail(toClient)
  /\ UNCHANGED <<call, answer, pending, abandoned, subs, reader, doomed, dropped, typed, host, toHost, wire>>

(* dispatch_event: Lagged of a stream, or an event of a subscription. *)
DispatchEvent ==
  /\ Reads("Lagged") \/ Reads("Event")
  /\ LET f == Head(toClient)
         s == f.of
     IN IF f.type = "Lagged"
          THEN /\ streams' = streams \ {s}
               /\ tail' = IF s \in streams \ dropped THEN [tail EXCEPT ![s] = "lagged"] ELSE tail
               /\ detaches' = IF s \in streams \cap dropped THEN Append(detaches, s) ELSE detaches
               /\ UNCHANGED subs
          ELSE /\ subs' = IF s \in dropped THEN subs \ {s} ELSE subs
               /\ UNCHANGED <<streams, tail, detaches>>
  /\ toClient' = Tail(toClient)
  /\ UNCHANGED <<call, answer, pending, abandoned, reader, doomed, dropped, typed, host, toHost, wire>>

(* Nothing is left to read: finish sets closed ... *)
Finish ==
  /\ reader = "reading" /\ wire = "cut" /\ toClient = << >>
  /\ reader' = "closed"
  /\ UNCHANGED <<call, answer, pending, abandoned, streams, subs, doomed, tail, dropped, detaches,
                 typed, host, toHost, toClient, wire>>

(* ... takes what is pending, and tells each of it, without the lock ... *)
TakePending ==
  /\ reader = "closed"
  /\ reader' = "failing" /\ doomed' = pending /\ pending' = {}
  /\ UNCHANGED <<call, answer, abandoned, streams, subs, tail, dropped, detaches,
                 typed, host, toHost, toClient, wire>>

FailPending(c) ==
  /\ reader = "failing" /\ c \in doomed
  /\ doomed' = doomed \ {c}
  /\ answer' = IF c \in abandoned THEN answer ELSE [answer EXCEPT ![c] = "eof"]
  /\ tail' = IF call[c].kind = "attach" THEN [tail EXCEPT ![c] = "closed"] ELSE tail
  /\ UNCHANGED <<call, pending, abandoned, streams, subs, reader, dropped, detaches,
                 typed, host, toHost, toClient, wire>>

(* Mutant: the streams are let go of without a word. *)
CloseStreams_Silent ==
  /\ reader = "failing" /\ doomed = {}
  /\ reader' = "done" /\ subs' = {} /\ streams' = {}
  /\ UNCHANGED <<call, answer, pending, abandoned, doomed, tail, dropped, detaches,
                 typed, host, toHost, toClient, wire>>

(* ... and closes the subscriptions and the streams. *)
CloseStreams ==
  /\ reader = "failing" /\ doomed = {}
  /\ reader' = "done" /\ subs' = {} /\ streams' = {}
  /\ tail' = [s \in Call |-> IF s \in streams THEN "closed" ELSE tail[s]]
  /\ UNCHANGED <<call, answer, pending, abandoned, doomed, dropped, detaches,
                 typed, host, toHost, toClient, wire>>

(* The detach thread asks with an id nobody waits for. *)
DetachThread ==
  /\ detaches # << >>
  /\ detaches' = Tail(detaches)
  /\ toHost' = IF wire = "open"
       THEN Append(toHost, [id |-> None, kind |-> "detach", of |-> Head(detaches)]) ELSE toHost
  /\ UNCHANGED <<call, answer, pending, abandoned, streams, subs, reader, doomed, tail, dropped,
                 typed, host, toClient, wire>>

-----------------------------------------------------------------------------
(* The host: read_loop, serve_off_thread, ConnState and its forwarders. *)

Sends(type, c, ok) ==
  toClient' = IF wire = "open" THEN Append(toClient, [type |-> type, of |-> c, ok |-> ok]) ELSE toClient

Serves(r, ok) == serving' = [id |-> r.id, kind |-> r.kind, of |-> r.of, ok |-> ok, busy |-> TRUE]

(* Dropping ConnState stops every forwarder, and waits for it: ConnGone. *)
StopsForwarders == hstream' = [s \in Call |-> IF hstream[s] = "on" THEN "stopped" ELSE hstream[s]]

(* The request's effect, before its response is queued.  An attach leaves its
   forwarder waiting; a detach stops one. *)
HostReads ==
  /\ conn = "open" /\ ~serving.busy /\ wire = "open" /\ toHost # << >>
  /\ LET r == Head(toHost)
     IN \/ /\ r.kind = "plain" /\ \E ok \in BOOLEAN : Serves(r, ok)
           /\ UNCHANGED <<workers, hstream, hsubs>>
        \/ /\ r.kind = "worker" /\ workers' = workers \cup {r.id}
           /\ UNCHANGED <<serving, hstream, hsubs>>
        \/ /\ r.kind = "attach"
           /\ \E ok \in BOOLEAN :
                /\ Serves(r, ok)
                /\ hstream' = IF ok THEN [hstream EXCEPT ![r.id] = "waiting"] ELSE hstream
           /\ UNCHANGED <<workers, hsubs>>
        \/ /\ r.kind = "detach"
           /\ Serves(r, hstream[r.of] = "on")
           /\ hstream' = IF hstream[r.of] = "on" THEN [hstream EXCEPT ![r.of] = "stopped"] ELSE hstream
           /\ UNCHANGED <<workers, hsubs>>
        \/ /\ r.kind = "input" /\ hstream[r.of] = "on"
           /\ UNCHANGED <<serving, workers, hstream, hsubs>>
        \/ /\ r.kind = "subscribe" /\ Serves(r, TRUE) /\ hsubs' = hsubs \cup {r.id}
           /\ UNCHANGED <<workers, hstream>>
  /\ toHost' = Tail(toHost)
  /\ UNCHANGED <<client, conn, sent, refused, toClient, wire>>

(* Input of a stream the connection does not hold: the read loop answers with
   an error and returns. *)
HostRefuses ==
  /\ conn = "open" /\ ~serving.busy /\ wire = "open" /\ toHost # << >>
  /\ LET r == Head(toHost)
     IN r.kind = "input" /\ hstream[r.of] # "on" /\ refused' = r.of
  /\ Sends("Response", None, FALSE)
  /\ conn' = "leaving" /\ StopsForwarders
  /\ toHost' = Tail(toHost)
  /\ UNCHANGED <<client, serving, workers, hsubs, sent, wire>>

(* Mutant: a detach is answered before its forwarder is joined. *)
HostAnswers_Unjoined ==
  /\ serving.busy
  /\ Sends("Response", serving.id, serving.ok)
  /\ hstream' = IF serving.kind = "attach" /\ serving.ok
       THEN [hstream EXCEPT ![serving.id] = IF wire = "open" THEN "on" ELSE "none"] ELSE hstream
  /\ serving' = Nobody
  /\ UNCHANGED <<client, conn, workers, hsubs, sent, refused, toHost, wire>>

(* A detach has joined the forwarder; after_response starts one if its answer
   was queued and stops it otherwise. *)
HostAnswers ==
  /\ serving.busy
  /\ serving.kind = "detach" /\ serving.ok => hstream[serving.of] = "none"
  /\ Sends("Response", serving.id, serving.ok)
  /\ hstream' = IF serving.kind = "attach" /\ serving.ok
       THEN [hstream EXCEPT ![serving.id] = IF wire = "open" THEN "on" ELSE "none"] ELSE hstream
  /\ serving' = Nobody
  /\ UNCHANGED <<client, conn, workers, hsubs, sent, refused, toHost, wire>>

WorkerAnswers(c) ==
  /\ c \in workers
  /\ workers' = workers \ {c}
  /\ \E ok \in BOOLEAN : Sends("Response", c, ok)
  /\ UNCHANGED <<client, conn, serving, hstream, hsubs, sent, refused, toHost, wire>>

(* A forwarder that is stopped may be sending one more frame. *)
Forward(s) ==
  /\ hstream[s] \in {"on", "stopped"} /\ sent[s] < MaxData
  /\ sent' = [sent EXCEPT ![s] = @ + 1]
  /\ Sends("Data", s, TRUE)
  /\ hstream' = IF hstream[s] = "on" /\ wire = "open" THEN hstream ELSE [hstream EXCEPT ![s] = "none"]
  /\ UNCHANGED <<client, conn, serving, workers, hsubs, refused, toHost, wire>>

(* The session's fan-out has dropped the stream. *)
ForwardLagged(s) ==
  /\ hstream[s] \in {"on", "stopped"}
  /\ Sends("Lagged", s, TRUE) /\ hstream' = [hstream EXCEPT ![s] = "none"]
  /\ UNCHANGED <<client, conn, serving, workers, hsubs, sent, refused, toHost, wire>>

(* The forwarder was stopped, or its session has ended: without a word. *)
ForwarderEnds(s) ==
  /\ hstream[s] \in {"on", "stopped"}
  /\ hstream' = [hstream EXCEPT ![s] = "none"]
  /\ UNCHANGED <<client, conn, serving, workers, hsubs, sent, refused, toHost, toClient, wire>>

(* TopicSinks::publish, to each subscriber of this connection. *)
Publish(c) ==
  /\ c \in hsubs /\ sent[c] < MaxEvent
  /\ sent' = [sent EXCEPT ![c] = @ + 1]
  /\ Sends("Event", c, TRUE)
  /\ hsubs' = IF wire = "open" THEN hsubs ELSE hsubs \ {c}
  /\ UNCHANGED <<client, conn, serving, workers, hstream, refused, toHost, wire>>

(* The host process dies, its writer gives up, or the app lets go of the Mux:
   what was queued and not written is lost. *)
Cut ==
  /\ wire = "open" /\ wire' = "cut" /\ toHost' = << >>
  /\ \E n \in 0..Len(toClient) : toClient' = SubSeq(toClient, 1, n)
  /\ UNCHANGED <<client, host>>

(* The read loop returns: the connection is cut, or the host is shut down.  The
   forwarders are stopped ... *)
ConnEnds ==
  /\ conn = "open" /\ ~serving.busy
  /\ conn' = "leaving" /\ StopsForwarders
  /\ UNCHANGED <<client, serving, workers, hsubs, sent, refused, toHost, toClient, wire>>

(* ... and joined; Outbound::finish closes the writer behind its queue. *)
ConnGone ==
  /\ conn = "leaving" /\ \A s \in Call : hstream[s] = "none"
  /\ conn' = "gone" /\ wire' = "cut" /\ toHost' = << >>
  /\ UNCHANGED <<client, serving, workers, hstream, hsubs, sent, refused, toClient>>

-----------------------------------------------------------------------------
CallerStep(c) == Register(c) \/ Write(c) \/ Answered(c) \/ GivesUp(c) \/ ForgetStream(c)
ReaderStep ==
  \/ DispatchResponse \/ DispatchData \/ DispatchEvent
  \/ Finish \/ TakePending \/ CloseStreams \/ \E c \in Call : FailPending(c)
HostStep ==
  \/ HostReads \/ HostRefuses \/ HostAnswers \/ ConnGone
  \/ \E c \in Call : WorkerAnswers(c) \/ ForwarderEnds(c)

Next ==
  \/ \E c \in Call : Begin(c) \/ CallerStep(c) \/ TimesOut(c) \/ SendInput(c) \/ DropReceiver(c)
  \/ ReaderStep \/ DetachThread \/ HostStep
  \/ \E c \in Call : Forward(c) \/ ForwardLagged(c) \/ Publish(c)
  \/ Cut \/ ConnEnds

Spec == Init /\ [][Next]_vars

(* Fairness: the threads of both ends run, and a read loop sees within
   READ_WAKE that its connection is cut.  Nobody has to call, to time out, to
   print, to drop a receiver or to cut a connection. *)
FairSpec ==
  /\ Spec
  /\ WF_vars(ReaderStep) /\ WF_vars(DetachThread)
  /\ WF_vars(HostReads \/ HostRefuses \/ HostAnswers) /\ WF_vars(ConnGone)
  /\ \A c \in Call : WF_vars(hstream[c] = "stopped" /\ ForwarderEnds(c))
  /\ WF_vars(wire = "cut" /\ ConnEnds)

(* Type invariant. *)
TypeOK ==
  /\ call \in [Call -> CallState]
  /\ answer \in [Call -> {"none", "ok", "error", "eof"}]
  /\ pending \subseteq Call /\ abandoned \subseteq Call /\ doomed \subseteq Call
  /\ streams \subseteq Call /\ subs \subseteq Call /\ dropped \subseteq Call
  /\ reader \in {"reading", "closed", "failing", "done"}
  /\ tail \in [Call -> {"open", "lagged", "closed"}]
  /\ detaches \in Seq(Call) /\ toHost \in Seq(Request) /\ toClient \in Seq(Frame)
  /\ wire \in {"open", "cut"} /\ conn \in {"open", "leaving", "gone"}
  /\ serving.id \in Call \cup {None} /\ serving.kind \in Kind /\ serving.of \in Call \cup {None}
  /\ serving.ok \in BOOLEAN /\ serving.busy \in BOOLEAN
  /\ workers \subseteq Call /\ hsubs \subseteq Call
  /\ hstream \in [Call -> {"none", "waiting", "on", "stopped"}]
  /\ sent \in [Call -> Nat]
  /\ typed \subseteq Call /\ refused \in Call \cup {None}

GaveUp(s) == call[s].at = "timeout" \/ s \in dropped \/ tail[s] # "open"

(* A frame the reader discards belongs to a stream its reader has given up or
   has heard the end of: no output overtakes the answer that installs its
   stream, and none follows the answer of a detach (router.rs:202-212, 504-517;
   mux.rs discarded_data_frames). *)
NoOrphanFrame ==
  \A n \in 1..Len(toClient) :
    (n = 1 /\ reader = "reading" /\ toClient[n].type = "Data" /\ toClient[n].of \notin streams)
      => GaveUp(toClient[n].of)

(* A call that reports a timeout was not answered: an answer that comes while
   the caller waits for the lock is returned (mux.rs:374-402). *)
NoAnswerThrownAway ==
  \A c \in Call : call[c].at = "timeout" => answer[c] \notin {"ok", "error"}

(* What attach and subscribe returned keeps its word: a stream that is neither
   detached nor dropped is installed or has been told its end, also when the
   connection ends; a subscription is known to both ends while there is a
   connection, so that nothing published after it returned is missed
   (mux.rs:503-558, 776-808). *)
AnsweredIsServed ==
  \A c \in Call : (call[c].at = "ok" /\ c \notin dropped) =>
    /\ call[c].kind = "attach" =>
         \/ c \in streams \/ tail[c] # "open"
         \/ \E d \in Call : call[d].of = c /\ call[d].at = "ok"
    /\ (call[c].kind = "subscribe" /\ reader = "reading") =>
         c \in subs /\ (wire = "open" => c \in hsubs)

(* A stream nobody reads does not go on at the host: the answer to an attach
   that timed out, a queue that overflowed and a connection that is cut all end
   the host's forwarder (mux.rs:516-517, 698-706; router.rs:520-533). *)
GivenUpStreamsEnd ==
  \A s \in Call :
    (hstream[s] = "on" /\ (wire = "cut" \/ call[s].at = "timeout" \/ tail[s] = "lagged"))
      ~> hstream[s] = "none"

(* A stream that has lagged is attached again "transparently on the same
   connection" (link.rs:677-678): what is typed meanwhile does not end the
   connection, which is that of every terminal of the app. *)
LaggedKeepsTheConnection ==
  \A s \in Call : refused = s =>
    /\ tail[s] # "lagged"
    /\ \A n \in 1..Len(toClient) : ~(toClient[n].type = "Lagged" /\ toClient[n].of = s)
=============================================================================
