-------------------------- MODULE MuxRequests_proofs --------------------------
(***************************************************************************)
(* Safety of MuxRequests for every set of calls, every kind of request     *)
(* each may make and every bound.                                          *)
(*                                                                         *)
(* The properties rest on where a request is.  What a caller knows and     *)
(* what the reader knows of a call go together under the lock of pending   *)
(* (CallOK); a request that was written is in one place until its answer   *)
(* is read, and a pending attach waits for it (AskOK, AwaitedOK); no data  *)
(* comes before the answer that installs its stream or after the answer to *)
(* its detach (OrderOK); and what an answer promised is kept by both ends  *)
(* (KeptOK).                                                               *)
(***************************************************************************)
EXTENDS MuxRequests, TLAPS

(* What the caller, its channel, pending and finish say of a call. *)
CallOK ==
  \A c \in Call :
    /\ call[c].at # "idle" => call[c].kind \in Kind
    /\ call[c].at \in {"ok", "error"} => answer[c] = call[c].at
    /\ call[c].at = "timeout" => answer[c] \notin {"ok", "error"}
    /\ call[c].at \in {"idle", "begun"} => answer[c] = "none" /\ c \notin pending \cup doomed
    /\ call[c].at = "registered" => answer[c] \notin {"ok", "error"}
    /\ call[c].at = "registered" /\ reader = "reading" => c \in pending
    /\ c \in abandoned => call[c].at = "timeout"
    /\ c \in pending => /\ answer[c] = "none" /\ c \notin doomed
                        /\ call[c].at \in {"registered", "waiting", "late"} \/ c \in abandoned
    /\ c \in doomed => answer[c] = "none"
    /\ c \in dropped => call[c].at = "ok"
    /\ call[c].of # None => /\ call[c].kind = "detach" /\ call[call[c].of].kind = "attach"
                            /\ call[call[c].of].at = "ok"

(* Where the request of a call is. *)
Queued(c)    == \E k \in 1..Len(toHost) : toHost[k].id = c
Served(c)    == serving.busy /\ serving.id = c
IsAnswer(n, c) == toClient[n].type = "Response" /\ toClient[n].of = c
Responded(c) == \E n \in 1..Len(toClient) : IsAnswer(n, c)
Asked(c)     == Queued(c) \/ Served(c) \/ c \in workers \/ Responded(c)

(* A request is the one its call made ... *)
KindOK ==
  /\ \A k \in 1..Len(toHost) :
       LET r == toHost[k]
       IN IF r.id = None THEN r.kind \in {"detach", "input"}
          ELSE r.kind = call[r.id].kind /\ r.of = call[r.id].of
  /\ serving.busy => IF serving.id = None THEN serving.kind = "detach"
                     ELSE serving.kind = call[serving.id].kind /\ serving.of = call[serving.id].of
  /\ \A c \in workers : call[c].kind = "worker"

(* ... and is in one place. *)
PlaceOK(c) ==
  /\ \A j, k \in 1..Len(toHost) : toHost[j].id = c /\ toHost[k].id = c => j = k
  /\ \A j, k \in 1..Len(toClient) : IsAnswer(j, c) /\ IsAnswer(k, c) => j = k
  /\ Queued(c) => ~Served(c) /\ c \notin workers /\ ~Responded(c)
  /\ Served(c) => c \notin workers /\ ~Responded(c)
  /\ c \in workers => ~Responded(c)

AskOK == KindOK /\ \A c \in Call : PlaceOK(c)

(* Its answer is awaited, unless the reader has ended or the caller gave up. *)
AwaitedOK ==
  \A c \in Call : Asked(c) =>
    /\ call[c].at \notin {"idle", "begun", "registered"} /\ answer[c] \notin {"ok", "error"}
    /\ call[c].kind = "attach" /\ reader = "reading" => c \in pending

IsData(n, s) == toClient[n].type = "Data" /\ toClient[n].of = s
Installs(n, s) == IsAnswer(n, s) /\ toClient[n].ok

(* Frame n, or what is sent next, follows the answer that installs stream s, or
   that answer was read, or nobody waits for the stream. *)
Preceded(n, s) == s \in streams \/ GaveUp(s) \/ \E j \in 1..(n - 1) : Installs(j, s)

(* Streams are those of attaches that have begun. *)
Attached(s) == call[s].kind = "attach" /\ call[s].at # "idle"

StreamOK(s) ==
  /\ hstream[s] # "none" => Attached(s)
  /\ wire = "open" /\ hstream[s] \in {"on", "stopped"} => Preceded(Len(toClient) + 1, s)
  /\ \A n \in 1..Len(toClient) : IsData(n, s) =>
       Attached(s) /\ (reader = "reading" => Preceded(n, s))

(* A detach that was answered has left nothing of its stream behind. *)
JoinedOK(d, s) ==
  /\ answer[d] = "ok" => hstream[s] = "none" /\ \A n \in 1..Len(toClient) : ~IsData(n, s)
  /\ \A j \in 1..Len(toClient) : Installs(j, d) =>
       hstream[s] = "none" /\ \A n \in 1..Len(toClient) : IsData(n, s) => n < j

OrderOK ==
  /\ \A n \in 1..Len(toClient) : toClient[n].type = "Data" => toClient[n].of \in Call
  /\ \A s \in Call : StreamOK(s)
  /\ \A d \in Call : call[d].of # None => JoinedOK(d, call[d].of)

KeptOK ==
  \A c \in Call :
    /\ call[c].kind = "attach" /\ answer[c] = "ok" /\ c \notin dropped =>
         c \in streams \/ tail[c] # "open" \/ \E d \in Call : call[d].of = c /\ call[d].at = "ok"
    /\ call[c].kind = "subscribe" /\ answer[c] = "ok" /\ c \notin dropped /\ reader = "reading" =>
         c \in subs
    /\ call[c].kind = "subscribe" /\ wire = "open" /\ (Served(c) \/ Responded(c) \/ answer[c] = "ok") =>
         c \in hsubs

IInv == TypeOK /\ CallOK /\ AskOK /\ AwaitedOK /\ OrderOK /\ KeptOK

-----------------------------------------------------------------------------
(* Sequences: what is put behind a queue, taken from its head, or cut off. *)

LEMMA Appended ==
  ASSUME NEW S, NEW q \in Seq(S), NEW e \in S
  PROVE  /\ Append(q, e) \in Seq(S) /\ Len(q) \in Nat /\ Len(Append(q, e)) = Len(q) + 1
         /\ Append(q, e)[Len(q) + 1] = e /\ \A k \in 1..Len(q) : Append(q, e)[k] = q[k]
         /\ Len(q) + 1 \notin 1..Len(q)
         /\ \A k : k \in 1..Len(Append(q, e)) <=> k \in 1..Len(q) \/ k = Len(q) + 1
OBVIOUS

LEMMA Tailed ==
  ASSUME NEW S, NEW q \in Seq(S), q # << >>
  PROVE  /\ Tail(q) \in Seq(S) /\ Len(q) \in Nat /\ Len(Tail(q)) = Len(q) - 1
         /\ Head(q) = q[1] /\ Head(q) \in S /\ 1 \in 1..Len(q)
         /\ \A k \in 1..Len(Tail(q)) : Tail(q)[k] = q[k + 1] /\ k + 1 \in 1..Len(q) /\ k + 1 # 1
         /\ \A j, k \in 1..Len(Tail(q)) : j + 1 = k + 1 => j = k
OBVIOUS

LEMMA CutOff ==
  ASSUME NEW S, NEW q \in Seq(S), NEW m \in 0..Len(q)
  PROVE  /\ SubSeq(q, 1, m) \in Seq(S) /\ Len(q) \in Nat /\ Len(SubSeq(q, 1, m)) = m
         /\ \A k \in 1..m : SubSeq(q, 1, m)[k] = q[k] /\ k \in 1..Len(q)
OBVIOUS

-----------------------------------------------------------------------------
(* Types. *)

LEMMA SendType ==
  ASSUME TypeOK, NEW type \in {"Response", "Data", "Lagged", "Event"},
         NEW c \in Call \cup {None}, NEW ok \in BOOLEAN, Sends(type, c, ok)
  PROVE  toClient' \in Seq(Frame)
<1>1. [type |-> type, of |-> c, ok |-> ok] \in Frame
  BY DEF Frame
<1> QED
  BY <1>1, Appended DEF TypeOK, Sends

LEMMA GoesType ==
  ASSUME TypeOK, NEW c \in Call,
         NEW where \in {"idle", "begun", "registered", "waiting", "late", "ok", "error", "eof", "timeout"},
         Goes(c, where)
  PROVE  call' \in [Call -> CallState]
<1>0. call[c] \in CallState
  BY DEF TypeOK
<1>1. [call[c] EXCEPT !.at = where] \in CallState
  BY <1>0 DEF CallState
<1> QED
  BY <1>1 DEF TypeOK, Goes

LEMMA TypeStep ==
  ASSUME TypeOK, CallOK, AskOK, [Next]_vars
  PROVE  TypeOK'
<1> USE MuxRequestsAssumption DEF TypeOK, client, host
<1>k. \A c \in Call : call[c] \in CallState
  OBVIOUS
<1>r. \A c \in Call \cup {None}, s \in Call \cup {None}, kind \in Kind \cup {"input"} :
        [id |-> c, kind |-> kind, of |-> s] \in Request
  BY DEF Request
<1>f. /\ toHost # << >> => Tail(toHost) \in Seq(Request) /\ Head(toHost) \in Request
      /\ toClient # << >> => Tail(toClient) \in Seq(Frame) /\ Head(toClient) \in Frame
      /\ detaches # << >> => Tail(detaches) \in Seq(Call) /\ Head(detaches) \in Call
  BY Tailed
<1>1. ASSUME NEW c \in Call, Begin(c) PROVE TypeOK'
  <2>1. PICK kind \in Kind, of \in Call \cup {None}, at \in {"eof", "begun"} :
          call' = [call EXCEPT ![c] = [kind |-> kind, of |-> of, at |-> at]]
    BY <1>1 DEF Begin, Detachable
  <2>2. call' \in [Call -> CallState]
    BY <2>1 DEF CallState
  <2> QED
    BY <1>1, <2>2 DEF Begin
<1>2. ASSUME NEW c \in Call, Register(c) PROVE TypeOK'
  BY <1>2, GoesType DEF Register
<1>3. ASSUME NEW c \in Call, Write(c) PROVE TypeOK'
  <2>1. call' \in [Call -> CallState]
    BY <1>3, GoesType DEF Write
  <2>2. [id |-> c, kind |-> call[c].kind, of |-> call[c].of] \in Request
    <3>1. call[c].kind \in Kind /\ call[c].of \in Call \cup {None}
      BY <1>3, <1>k DEF Write, CallOK, CallState
    <3> QED
      BY <3>1, <1>r
  <2>3. toHost' \in Seq(Request)
    <3>1. Append(toHost, [id |-> c, kind |-> call[c].kind, of |-> call[c].of]) \in Seq(Request)
      BY <2>2, Appended
    <3> QED
      BY <1>3, <3>1 DEF Write
  <2> QED
    BY <1>3, <2>1, <2>3 DEF Write
<1>4. ASSUME NEW c \in Call, Answered(c) PROVE TypeOK'
  <2>0. PICK where \in {"ok", "error", "eof", "timeout"} : Goes(c, where)
    BY <1>4 DEF Answered
  <2>1. call' \in [Call -> CallState]
    BY <2>0, GoesType
  <2> QED
    BY <1>4, <2>1 DEF Answered
<1>5. ASSUME NEW c \in Call, TimesOut(c) PROVE TypeOK'
  <2>1. call' \in [Call -> CallState]
    BY <1>5, GoesType DEF TimesOut
  <2> QED
    BY <1>5, <2>1 DEF TimesOut
<1>6. ASSUME NEW c \in Call, GivesUp(c) PROVE TypeOK'
  <2>0. PICK where \in {"ok", "error", "eof", "timeout"} : Goes(c, where)
    BY <1>6 DEF GivesUp
  <2>1. call' \in [Call -> CallState]
    BY <2>0, GoesType
  <2> QED
    BY <1>6, <2>1 DEF GivesUp
<1>7. ASSUME NEW c \in Call, ForgetStream(c) PROVE TypeOK'
  BY <1>7, <1>f DEF ForgetStream, Reads, Frame, Request, Kind, Serves, StopsForwarders
<1>8. ASSUME NEW c \in Call, SendInput(c) PROVE TypeOK'
  <2>0. [id |-> None, kind |-> "input", of |-> c] \in Request
    BY <1>8, <1>f DEF SendInput, Request, Kind
  <2>1. toHost' \in Seq(Request)
    BY <1>8, <2>0, Appended DEF SendInput
  <2> QED
    BY <1>8, <2>1, <1>f DEF SendInput
<1>9. ASSUME NEW c \in Call, DropReceiver(c) PROVE TypeOK'
  BY <1>9, <1>f DEF DropReceiver, Reads, Frame, Request, Kind, Serves, StopsForwarders
<1>10. ASSUME NEW c \in Call, FailPending(c) PROVE TypeOK'
  BY <1>10, <1>f DEF FailPending, Reads, Frame, Request, Kind, Serves, StopsForwarders
<1>11. ASSUME NEW c \in Call, WorkerAnswers(c) PROVE TypeOK'
  <2>1. toClient' \in Seq(Frame)
    BY <1>11, SendType DEF WorkerAnswers
  <2> QED
    BY <1>11, <2>1, <1>f DEF WorkerAnswers, StopsForwarders, Request
<1>12. ASSUME NEW c \in Call, ForwarderEnds(c) PROVE TypeOK'
  BY <1>12, <1>f DEF ForwarderEnds, Reads, Frame, Request, Kind, Serves, StopsForwarders
<1>13. ASSUME NEW c \in Call, Forward(c) PROVE TypeOK'
  <2>1. toClient' \in Seq(Frame)
    BY <1>13, SendType DEF Forward
  <2>2. sent' \in [Call -> Nat]
    BY <1>13 DEF Forward
  <2> QED
    BY <1>13, <2>1, <2>2 DEF Forward
<1>14. ASSUME NEW c \in Call, ForwardLagged(c) PROVE TypeOK'
  <2>1. toClient' \in Seq(Frame)
    BY <1>14, SendType DEF ForwardLagged
  <2> QED
    BY <1>14, <2>1, <1>f DEF ForwardLagged, StopsForwarders, Request
<1>15. ASSUME NEW c \in Call, Publish(c) PROVE TypeOK'
  <2>1. toClient' \in Seq(Frame)
    BY <1>15, SendType DEF Publish
  <2>2. sent' \in [Call -> Nat]
    BY <1>15 DEF Publish
  <2> QED
    BY <1>15, <2>1, <2>2 DEF Publish
<1>16. CASE DispatchResponse
  BY <1>16, <1>f DEF DispatchResponse, Reads, Frame, Request, Kind, Serves, StopsForwarders
<1>17. CASE DispatchData
  <2>1. Head(toClient) \in Frame /\ toClient' \in Seq(Frame)
    BY <1>17, <1>f DEF DispatchData, Reads
  <2>2. streams' \subseteq Call /\ tail' \in [Call -> {"open", "lagged", "closed"}]
    BY <1>17 DEF DispatchData
  <2>3. detaches' \in Seq(Call)
    <3>1. \A s \in Call : Append(detaches, s) \in Seq(Call)
      BY Appended
    <3>2. detaches' = detaches \/ \E s \in Call : detaches' = Append(detaches, s)
      BY <1>17 DEF DispatchData
    <3>3. CASE detaches' = detaches
      BY <3>3
    <3>4. ASSUME NEW s \in Call, detaches' = Append(detaches, s) PROVE detaches' \in Seq(Call)
      BY <3>1, <3>4
    <3> HIDE DEF TypeOK
    <3> QED
      BY <3>2, <3>3, <3>4
  <2> QED
    BY <1>17, <2>1, <2>2, <2>3 DEF DispatchData
<1>18. CASE DispatchEvent
  <2>1. Head(toClient) \in Frame /\ toClient' \in Seq(Frame)
    BY <1>18, <1>f DEF DispatchEvent, Reads
  <2>2. /\ streams' \subseteq Call /\ subs' \subseteq Call
        /\ tail' \in [Call -> {"open", "lagged", "closed"}]
    BY <1>18 DEF DispatchEvent
  <2>3. detaches' \in Seq(Call)
    <3>1. \A s \in Call : Append(detaches, s) \in Seq(Call)
      BY Appended
    <3>2. detaches' = detaches \/ \E s \in Call : detaches' = Append(detaches, s)
      BY <1>18 DEF DispatchEvent
    <3>3. CASE detaches' = detaches
      BY <3>3
    <3>4. ASSUME NEW s \in Call, detaches' = Append(detaches, s) PROVE detaches' \in Seq(Call)
      BY <3>1, <3>4
    <3> HIDE DEF TypeOK
    <3> QED
      BY <3>2, <3>3, <3>4
  <2> QED
    BY <1>18, <2>1, <2>2, <2>3 DEF DispatchEvent
<1>19. CASE Finish
  BY <1>19, <1>f DEF Finish, Reads, Frame, Request, Kind, Serves, StopsForwarders
<1>20. CASE TakePending
  BY <1>20, <1>f DEF TakePending, Reads, Frame, Request, Kind, Serves, StopsForwarders
<1>21. CASE CloseStreams
  BY <1>21, <1>f DEF CloseStreams, Reads, Frame, Request, Kind, Serves, StopsForwarders
<1>22. CASE DetachThread
  <2>0. [id |-> None, kind |-> "detach", of |-> Head(detaches)] \in Request
    BY <1>22, <1>f DEF DetachThread, Request, Kind
  <2>1. toHost' \in Seq(Request)
    BY <1>22, <2>0, Appended DEF DetachThread
  <2> QED
    BY <1>22, <2>1, <1>f DEF DetachThread
<1>23. CASE HostReads
  <2> DEFINE r == Head(toHost)
  <2>1. r \in Request /\ toHost' \in Seq(Request) /\ r = toHost[1] /\ 1 \in 1..Len(toHost)
    BY <1>23, <1>f, Tailed DEF HostReads
  <2>2. r.id = None => r.kind \in {"detach", "input"}
    BY <2>1, Zenon DEF AskOK, KindOK
  <2>3. /\ client' = client /\ conn' = conn /\ sent' = sent /\ refused' = refused
        /\ toClient' = toClient /\ wire' = wire
    BY <1>23 DEF HostReads
  <2> HIDE DEF r
  <2>4. ASSUME NEW ok \in BOOLEAN, Serves(r, ok), r.kind \in Kind
        PROVE  /\ serving'.id \in Call \cup {None} /\ serving'.kind \in Kind
               /\ serving'.of \in Call \cup {None} /\ serving'.ok \in BOOLEAN /\ serving'.busy \in BOOLEAN
    BY <2>1, <2>4 DEF Serves, Request
  <2>5. CASE r.kind = "plain" /\ (\E ok \in BOOLEAN : Serves(r, ok)) /\ UNCHANGED <<workers, hstream, hsubs>>
    BY <2>1, <2>3, <2>4, <2>5 DEF Kind
  <2>6. CASE r.kind = "worker" /\ workers' = workers \cup {r.id} /\ UNCHANGED <<serving, hstream, hsubs>>
    BY <2>1, <2>2, <2>3, <2>6 DEF Request
  <2>7. CASE /\ r.kind = "attach"
             /\ \E ok \in BOOLEAN :
                  /\ Serves(r, ok)
                  /\ hstream' = IF ok THEN [hstream EXCEPT ![r.id] = "waiting"] ELSE hstream
             /\ UNCHANGED <<workers, hsubs>>
    BY <2>1, <2>3, <2>4, <2>7 DEF Kind
  <2>8. CASE /\ r.kind = "detach" /\ Serves(r, hstream[r.of] = "on")
             /\ hstream' = IF hstream[r.of] = "on" THEN [hstream EXCEPT ![r.of] = "stopped"] ELSE hstream
             /\ UNCHANGED <<workers, hsubs>>
    BY <2>1, <2>3, <2>4, <2>8 DEF Kind
  <2>9. CASE r.kind = "input" /\ UNCHANGED <<serving, workers, hstream, hsubs>>
    BY <2>1, <2>3, <2>9
  <2>10. CASE r.kind = "subscribe" /\ Serves(r, TRUE) /\ hsubs' = hsubs \cup {r.id}
              /\ UNCHANGED <<workers, hstream>>
    BY <2>1, <2>2, <2>3, <2>4, <2>10 DEF Kind, Request
  <2> QED
    BY <1>23, <2>5, <2>6, <2>7, <2>8, <2>9, <2>10 DEF HostReads, r
<1>24. CASE HostRefuses
  <2>1. toClient' \in Seq(Frame)
    BY <1>24, SendType DEF HostRefuses
  <2> QED
    BY <1>24, <2>1, <1>f DEF HostRefuses, StopsForwarders, Request
<1>25. CASE HostAnswers
  <2>1. toClient' \in Seq(Frame)
    BY <1>25, SendType DEF HostAnswers
  <2>2. hstream' \in [Call -> {"none", "waiting", "on", "stopped"}]
    BY <1>25 DEF HostAnswers
  <2> QED
    BY <1>25, <2>1, <2>2 DEF HostAnswers, Nobody, Kind
<1>26. CASE ConnGone
  BY <1>26, <1>f DEF ConnGone, Reads, Frame, Request, Kind, Serves, StopsForwarders
<1>27. CASE Cut
  <2>1. toClient' \in Seq(Frame)
    BY <1>27, CutOff DEF Cut
  <2> QED
    BY <1>27, <2>1 DEF Cut
<1>28. CASE ConnEnds
  BY <1>28, <1>f DEF ConnEnds, Reads, Frame, Request, Kind, Serves, StopsForwarders
<1>29. CASE UNCHANGED vars
  BY <1>29 DEF vars
<1> QED
  BY <1>1, <1>2, <1>3, <1>4, <1>5, <1>6, <1>7, <1>8, <1>9, <1>10, <1>11, <1>12, <1>13, <1>14, <1>15, <1>16, <1>17, <1>18, <1>19, <1>20, <1>21, <1>22, <1>23, <1>24, <1>25, <1>26, <1>27, <1>28, <1>29,
     Zenon DEF Next, CallerStep, ReaderStep, HostStep

-----------------------------------------------------------------------------
(* CallOK: only callers, dispatch_response and finish touch what it is about. *)

LEMMA CallQuiet ==
  ASSUME CallOK, UNCHANGED <<call, answer, pending, abandoned, reader, doomed, dropped>>
  PROVE  CallOK'
BY DEF CallOK

(* An answer is for a request that was written. *)
LEMMA AnswersAsked ==
  ASSUME TypeOK, AwaitedOK, DispatchResponse
  PROVE  \E f \in Frame :
           /\ f = Head(toClient) /\ f = toClient[1] /\ 1 \in 1..Len(toClient)
           /\ IsAnswer(1, f.of)
           /\ f.of \in Call => /\ call[f.of].at \notin {"idle", "begun", "registered"}
                               /\ answer[f.of] \notin {"ok", "error"}
<1>1. toClient \in Seq(Frame) /\ toClient # << >> /\ Head(toClient).type = "Response"
  BY DEF TypeOK, DispatchResponse, Reads
<1>2. Head(toClient) \in Frame /\ Head(toClient) = toClient[1] /\ 1 \in 1..Len(toClient)
  BY <1>1, Tailed
<1>3. IsAnswer(1, Head(toClient).of)
  BY <1>1, <1>2 DEF IsAnswer
<1> QED
  BY <1>2, <1>3 DEF AwaitedOK, Asked, Responded

LEMMA CallStep ==
  ASSUME TypeOK, CallOK, AwaitedOK, [Next]_vars
  PROVE  CallOK'
<1> USE MuxRequestsAssumption DEF client, host
<1>t. /\ call \in [Call -> CallState] /\ \A c \in Call : call[c] \in CallState
      /\ answer \in [Call -> {"none", "ok", "error", "eof"}]
      /\ pending \subseteq Call /\ abandoned \subseteq Call /\ doomed \subseteq Call
      /\ reader \in {"reading", "closed", "failing", "done"}
  BY DEF TypeOK
<1>g. ASSUME NEW c \in Call, NEW where, Goes(c, where)
      PROVE  /\ call'[c].at = where /\ call'[c].kind = call[c].kind /\ call'[c].of = call[c].of
             /\ \A d \in Call : d # c => call'[d] = call[d]
  BY <1>t, <1>g DEF Goes, CallState
<1>1. ASSUME NEW c \in Call, Begin(c) PROVE CallOK'
  <2>1. PICK kind \in Kind, of \in Call \cup {None}, at \in {"eof", "begun"} :
          /\ call' = [call EXCEPT ![c] = [kind |-> kind, of |-> of, at |-> at]]
          /\ of # None => kind = "detach" /\ of \in Call /\ Detachable(of)
    BY <1>1 DEF Begin, Detachable
  <2>2. /\ call'[c].kind = kind /\ call'[c].of = of /\ call'[c].at = at
        /\ \A d \in Call : d # c => call'[d] = call[d]
    BY <1>t, <2>1
  <2>3. call[c].at = "idle" /\ UNCHANGED <<answer, pending, abandoned, reader, doomed, dropped>>
    BY <1>1 DEF Begin
  <2>4. \A d \in Call : call[d].of # None => call[d].of \in Call
    BY <1>t DEF CallState
  <2> QED
    BY <1>t, <2>1, <2>2, <2>3, <2>4 DEF CallOK, Detachable
<1>2. ASSUME NEW c \in Call, Register(c) PROVE CallOK'
  <2>1. /\ call'[c].at = "registered" /\ call'[c].kind = call[c].kind /\ call'[c].of = call[c].of
        /\ \A d \in Call : d # c => call'[d] = call[d]
    BY <1>2, <1>g DEF Register
  <2>2. \A d \in Call : call[d].of # None => call[d].of \in Call
    BY <1>t DEF CallState
  <2> QED
    BY <1>t, <1>2, <2>1, <2>2 DEF Register, CallOK
<1>3. ASSUME NEW c \in Call, Write(c) PROVE CallOK'
  <2>1. PICK where : Goes(c, where)
    BY <1>3 DEF Write
  <2>2. /\ call'[c].at = where /\ call'[c].kind = call[c].kind /\ call'[c].of = call[c].of
        /\ \A d \in Call : d # c => call'[d] = call[d]
    BY <2>1, <1>g
  <2>3. \A d \in Call : call[d].of # None => call[d].of \in Call
    BY <1>t DEF CallState
  <2>4. CASE where = "waiting" /\ pending' = pending
    BY <1>t, <1>3, <2>2, <2>3, <2>4 DEF Write, CallOK
  <2>5. CASE where = "eof" /\ pending' = pending \ {c}
    BY <1>t, <1>3, <2>2, <2>3, <2>5 DEF Write, CallOK
  <2> QED
    BY <1>t, <1>3, <1>g, <2>2, <2>4, <2>5 DEF Write
<1>4. ASSUME NEW c \in Call, Answered(c) PROVE CallOK'
  <2>1. /\ call'[c].at = answer[c] /\ call'[c].kind = call[c].kind /\ call'[c].of = call[c].of
        /\ \A d \in Call : d # c => call'[d] = call[d]
    BY <1>4, <1>g DEF Answered
  <2>2. \A d \in Call : call[d].of # None => call[d].of \in Call
    BY <1>t DEF CallState
  <2> QED
    BY <1>t, <1>4, <2>1, <2>2 DEF Answered, CallOK
<1>5. ASSUME NEW c \in Call, TimesOut(c) PROVE CallOK'
  <2>1. /\ call'[c].at = "late" /\ call'[c].kind = call[c].kind /\ call'[c].of = call[c].of
        /\ \A d \in Call : d # c => call'[d] = call[d]
    BY <1>5, <1>g DEF TimesOut
  <2>2. \A d \in Call : call[d].of # None => call[d].of \in Call
    BY <1>t DEF CallState
  <2> QED
    BY <1>t, <1>5, <2>1, <2>2 DEF TimesOut, CallOK
<1>6. ASSUME NEW c \in Call, GivesUp(c) PROVE CallOK'
  <2>1. PICK where : Goes(c, where)
    BY <1>6 DEF GivesUp
  <2>2. /\ call'[c].at = where /\ call'[c].kind = call[c].kind /\ call'[c].of = call[c].of
        /\ \A d \in Call : d # c => call'[d] = call[d]
    BY <2>1, <1>g
  <2>3. \A d \in Call : call[d].of # None => call[d].of \in Call
    BY <1>t DEF CallState
  <2>4. where = IF c \notin pending /\ answer[c] # "none" THEN answer[c] ELSE "timeout"
    BY <1>6, <1>g, <2>2 DEF GivesUp
  <2> QED
    BY <1>t, <1>6, <2>2, <2>3, <2>4 DEF GivesUp, CallOK
<1>7. ASSUME NEW c \in Call, DropReceiver(c) PROVE CallOK'
  BY <1>t, <1>7 DEF DropReceiver, CallOK, CallState
<1>8. ASSUME NEW c \in Call, FailPending(c) PROVE CallOK'
  BY <1>t, <1>8 DEF FailPending, CallOK, CallState
<1>9. CASE DispatchResponse
  <2>1. PICK f \in Frame :
          /\ f = Head(toClient)
          /\ f.of \in Call => call[f.of].at \notin {"idle", "begun", "registered"}
    BY <1>9, AnswersAsked
  <2>2. /\ pending' = pending \ {f.of}
        /\ answer' = IF f.of \in pending /\ f.of \notin abandoned
                       THEN [answer EXCEPT ![f.of] = IF f.ok THEN "ok" ELSE "error"] ELSE answer
        /\ UNCHANGED <<call, abandoned, reader, doomed, dropped>>
    BY <1>9, <2>1 DEF DispatchResponse
  <2> QED
    BY <1>t, <2>1, <2>2 DEF CallOK
<1>10. CASE Finish
  BY <1>t, <1>10 DEF Finish, CallOK
<1>11. CASE TakePending
  BY <1>t, <1>11 DEF TakePending, CallOK
<1>12. CASE CloseStreams
  BY <1>t, <1>12 DEF CloseStreams, CallOK
<1>13. ASSUME NEW c \in Call, ForgetStream(c) PROVE CallOK'
  BY <1>13, CallQuiet DEF ForgetStream
<1>14. ASSUME NEW c \in Call, SendInput(c) PROVE CallOK'
  BY <1>14, CallQuiet DEF SendInput
<1>15. ASSUME NEW c \in Call, WorkerAnswers(c) PROVE CallOK'
  BY <1>15, CallQuiet DEF WorkerAnswers
<1>16. ASSUME NEW c \in Call, ForwarderEnds(c) PROVE CallOK'
  BY <1>16, CallQuiet DEF ForwarderEnds
<1>17. ASSUME NEW c \in Call, Forward(c) PROVE CallOK'
  BY <1>17, CallQuiet DEF Forward
<1>18. ASSUME NEW c \in Call, ForwardLagged(c) PROVE CallOK'
  BY <1>18, CallQuiet DEF ForwardLagged
<1>19. ASSUME NEW c \in Call, Publish(c) PROVE CallOK'
  BY <1>19, CallQuiet DEF Publish
<1>20. CASE DispatchData
  BY <1>20, CallQuiet DEF DispatchData
<1>21. CASE DispatchEvent
  BY <1>21, CallQuiet DEF DispatchEvent
<1>22. CASE DetachThread
  BY <1>22, CallQuiet DEF DetachThread
<1>23. CASE HostReads
  BY <1>23, CallQuiet DEF HostReads
<1>24. CASE HostRefuses
  BY <1>24, CallQuiet DEF HostRefuses
<1>25. CASE HostAnswers
  BY <1>25, CallQuiet DEF HostAnswers
<1>26. CASE ConnGone
  BY <1>26, CallQuiet DEF ConnGone
<1>27. CASE Cut
  BY <1>27, CallQuiet DEF Cut
<1>28. CASE ConnEnds
  BY <1>28, CallQuiet DEF ConnEnds
<1>29. CASE UNCHANGED vars
  BY <1>29, CallQuiet DEF vars
<1> QED
  BY <1>1, <1>2, <1>3, <1>4, <1>5, <1>6, <1>7, <1>8, <1>9, <1>10, <1>11, <1>12, <1>13, <1>14, <1>15, <1>16, <1>17, <1>18, <1>19, <1>20, <1>21, <1>22, <1>23, <1>24, <1>25, <1>26, <1>27, <1>28, <1>29,
     Zenon DEF Next, CallerStep, ReaderStep, HostStep

-----------------------------------------------------------------------------
(* What any step may do to a call, its answer and its stream. *)

(* A call keeps its kind and its stream once it has begun, does not go back
   behind its write, and stays answered or given up; it ends well on its answer
   only. *)
LEMMA CallMoves ==
  ASSUME TypeOK, [Next]_vars, NEW d \in Call
  PROVE  /\ call[d].at # "idle" => /\ call'[d].kind = call[d].kind /\ call'[d].of = call[d].of
                                   /\ call'[d].at # "idle"
         /\ call[d].at \notin {"idle", "begun", "registered"} =>
              call'[d].at \notin {"idle", "begun", "registered"}
         /\ call[d].at \in {"ok", "timeout"} => call'[d].at = call[d].at
         /\ call'[d].at = "ok" => call[d].at = "ok" \/ answer[d] = "ok"
<1> USE MuxRequestsAssumption DEF client, host
<1>t. call \in [Call -> CallState] /\ \A c \in Call : call[c] \in CallState
  BY DEF TypeOK
<1>g. ASSUME NEW c \in Call, NEW where, Goes(c, where)
      PROVE  /\ call'[c].at = where /\ call'[c].kind = call[c].kind /\ call'[c].of = call[c].of
             /\ \A e \in Call : e # c => call'[e] = call[e]
  BY <1>t, <1>g DEF Goes, CallState
<1>1. ASSUME NEW c \in Call, Begin(c)
      PROVE  call[c].at = "idle" /\ call'[c].at \in {"eof", "begun"}
             /\ \A e \in Call : e # c => call'[e] = call[e]
  BY <1>t, <1>1 DEF Begin
<1>2. ASSUME NEW c \in Call, Register(c) PROVE Goes(c, "registered") /\ call[c].at = "begun"
  BY <1>2 DEF Register
<1>3. ASSUME NEW c \in Call, Write(c)
      PROVE  call[c].at = "registered" /\ (Goes(c, "waiting") \/ Goes(c, "eof"))
  BY <1>3 DEF Write
<1>4. ASSUME NEW c \in Call, Answered(c)
      PROVE  Goes(c, answer[c]) /\ call[c].at = "waiting" /\ answer[c] \in {"ok", "error", "eof"}
  BY <1>4 DEF Answered, TypeOK
<1>5. ASSUME NEW c \in Call, TimesOut(c) PROVE Goes(c, "late") /\ call[c].at = "waiting"
  BY <1>5 DEF TimesOut
<1>6. ASSUME NEW c \in Call, GivesUp(c)
      PROVE  /\ call[c].at = "late"
             /\ Goes(c, "timeout") \/ (Goes(c, answer[c]) /\ answer[c] \in {"ok", "error", "eof"})
  BY <1>6 DEF GivesUp, TypeOK
<1>7. CASE call' = call
  BY <1>7
<1>8. ASSUME NEW c \in Call,
             ForgetStream(c) \/ SendInput(c) \/ DropReceiver(c) \/ FailPending(c) \/ WorkerAnswers(c)
             \/ ForwarderEnds(c) \/ Forward(c) \/ ForwardLagged(c) \/ Publish(c)
      PROVE  call' = call
  BY <1>8 DEF ForgetStream, SendInput, DropReceiver, FailPending, WorkerAnswers, ForwarderEnds,
       Forward, ForwardLagged, Publish
<1>9. ASSUME DispatchResponse \/ DispatchData \/ DispatchEvent \/ Finish \/ TakePending
             \/ CloseStreams \/ DetachThread \/ HostReads \/ HostRefuses \/ HostAnswers \/ ConnGone
             \/ Cut \/ ConnEnds \/ UNCHANGED vars
      PROVE  call' = call
  BY <1>9 DEF DispatchResponse, DispatchData, DispatchEvent, Finish, TakePending,
       CloseStreams, DetachThread, HostReads, HostRefuses, HostAnswers, ConnGone, Cut, ConnEnds, vars
<1>10. ASSUME NEW c \in Call,
              Begin(c) \/ Register(c) \/ Write(c) \/ Answered(c) \/ TimesOut(c) \/ GivesUp(c)
       PROVE  /\ call[d].at # "idle" => /\ call'[d].kind = call[d].kind /\ call'[d].of = call[d].of
                                        /\ call'[d].at # "idle"
              /\ call[d].at \notin {"idle", "begun", "registered"} =>
                   call'[d].at \notin {"idle", "begun", "registered"}
              /\ call[d].at \in {"ok", "timeout"} => call'[d].at = call[d].at
              /\ call'[d].at = "ok" => call[d].at = "ok" \/ answer[d] = "ok"
  <2>1. CASE d # c
    BY <1>1, <1>2, <1>3, <1>4, <1>5, <1>6, <1>10, <1>g, <2>1
  <2>2. CASE d = c
    BY <1>1, <1>2, <1>3, <1>4, <1>5, <1>6, <1>10, <1>g, <2>2
  <2> QED
    BY <2>1, <2>2
<1> QED
  BY <1>7, <1>8, <1>9, <1>10, Zenon DEF Next, CallerStep, ReaderStep, HostStep

(* A stream that heard its end, or lost its receiver, does not come back. *)
LEMMA LastWordStays ==
  ASSUME TypeOK, [Next]_vars, NEW d \in Call
  PROVE  (tail[d] # "open" => tail'[d] # "open") /\ dropped \subseteq dropped'
<1> USE DEF client, host
<1>t. tail \in [Call -> {"open", "lagged", "closed"}]
  BY DEF TypeOK
<1>1. ASSUME NEW c \in Call,
             Begin(c) \/ Register(c) \/ Write(c) \/ Answered(c) \/ TimesOut(c) \/ GivesUp(c)
             \/ ForgetStream(c) \/ SendInput(c) \/ DropReceiver(c) \/ WorkerAnswers(c)
             \/ ForwarderEnds(c) \/ Forward(c) \/ ForwardLagged(c) \/ Publish(c)
      PROVE  tail' = tail /\ dropped \subseteq dropped'
  BY <1>1 DEF Begin, Register, Write, Answered, TimesOut, GivesUp, ForgetStream, SendInput,
       DropReceiver, WorkerAnswers, ForwarderEnds, Forward, ForwardLagged, Publish
<1>2. ASSUME DispatchResponse \/ Finish \/ TakePending \/ DetachThread \/ HostReads \/ HostRefuses
             \/ HostAnswers \/ ConnGone \/ Cut \/ ConnEnds \/ UNCHANGED vars
      PROVE  tail' = tail /\ dropped \subseteq dropped'
  BY <1>2 DEF DispatchResponse, Finish, TakePending, DetachThread, HostReads, HostRefuses,
       HostAnswers, ConnGone, Cut, ConnEnds, vars
<1>3. ASSUME NEW c \in Call, FailPending(c)
      PROVE  (tail[d] # "open" => tail'[d] # "open") /\ dropped' = dropped
  BY <1>t, <1>3 DEF FailPending
<1>4. ASSUME DispatchData \/ DispatchEvent \/ CloseStreams
      PROVE  (tail[d] # "open" => tail'[d] # "open") /\ dropped' = dropped
  BY <1>t, <1>4 DEF DispatchData, DispatchEvent, CloseStreams
<1> QED
  BY <1>1, <1>2, <1>3, <1>4, Zenon DEF Next, CallerStep, ReaderStep, HostStep

(* A stream that was given up stays so. *)
LEMMA GaveUpStays ==
  ASSUME TypeOK, [Next]_vars, NEW d \in Call, GaveUp(d)
  PROVE  GaveUp(d)'
BY CallMoves, LastWordStays DEF GaveUp

(* A stream leaves the reader's table when it has no receiver any more, has
   heard its end, or was detached. *)
LEMMA StreamsMove ==
  ASSUME TypeOK, [Next]_vars, NEW s \in streams, s \notin streams'
  PROVE  s \in dropped \/ tail'[s] # "open" \/ \E d \in Call : call[d].of = s /\ call[d].at = "ok"
<1> USE DEF client, host
<1>t. tail \in [Call -> {"open", "lagged", "closed"}] /\ s \in Call
  BY DEF TypeOK
<1>1. ASSUME NEW c \in Call, ForgetStream(c)
      PROVE  \E d \in Call : call[d].of = s /\ call[d].at = "ok"
  BY <1>1 DEF ForgetStream
<1>2. ASSUME NEW c \in Call,
             Begin(c) \/ Register(c) \/ Write(c) \/ Answered(c) \/ TimesOut(c) \/ GivesUp(c)
             \/ SendInput(c) \/ DropReceiver(c) \/ FailPending(c) \/ WorkerAnswers(c)
             \/ ForwarderEnds(c) \/ Forward(c) \/ ForwardLagged(c) \/ Publish(c)
      PROVE  streams' = streams
  BY <1>2 DEF Begin, Register, Write, Answered, TimesOut, GivesUp, FailPending, SendInput,
       DropReceiver, WorkerAnswers, ForwarderEnds, Forward, ForwardLagged, Publish
<1>3. ASSUME DispatchResponse \/ Finish \/ TakePending \/ DetachThread \/ HostReads \/ HostRefuses
             \/ HostAnswers \/ ConnGone \/ Cut \/ ConnEnds \/ UNCHANGED vars
      PROVE  streams \subseteq streams'
  BY <1>3 DEF DispatchResponse, Finish, TakePending, DetachThread, HostReads, HostRefuses,
       HostAnswers, ConnGone, Cut, ConnEnds, vars
<1>4. ASSUME DispatchData \/ DispatchEvent \/ CloseStreams
      PROVE  s \in dropped \/ tail'[s] # "open"
  BY <1>t, <1>4 DEF DispatchData, DispatchEvent, CloseStreams
<1>5. ~(streams' = streams) /\ ~(streams \subseteq streams')
  OBVIOUS
<1> QED
  BY <1>1, <1>2, <1>3, <1>4, <1>5, Zenon DEF Next, CallerStep, ReaderStep, HostStep

(* A call is answered by the frame its reader takes, and by no other step. *)
LEMMA NewlyAnswered ==
  ASSUME TypeOK, [Next]_vars, NEW c \in Call, answer'[c] = "ok", answer[c] # "ok"
  PROVE  /\ DispatchResponse /\ Installs(1, c) /\ 1 \in 1..Len(toClient)
         /\ c \in pending /\ c \notin abandoned /\ Head(toClient).of = c /\ Head(toClient).ok
<1> USE DEF client, host
<1>t. answer \in [Call -> {"none", "ok", "error", "eof"}]
  BY DEF TypeOK
<1>1. ASSUME NEW d \in Call,
             Begin(d) \/ Register(d) \/ Write(d) \/ Answered(d) \/ TimesOut(d) \/ GivesUp(d)
             \/ ForgetStream(d) \/ SendInput(d) \/ DropReceiver(d) \/ WorkerAnswers(d)
             \/ ForwarderEnds(d) \/ Forward(d) \/ ForwardLagged(d) \/ Publish(d)
      PROVE  answer' = answer
  BY <1>1 DEF Begin, Register, Write, Answered, TimesOut, GivesUp, ForgetStream, SendInput,
       DropReceiver, WorkerAnswers, ForwarderEnds, Forward, ForwardLagged, Publish
<1>2. ASSUME DispatchData \/ DispatchEvent \/ Finish \/ TakePending \/ CloseStreams \/ DetachThread
             \/ HostReads \/ HostRefuses \/ HostAnswers \/ ConnGone \/ Cut \/ ConnEnds \/ UNCHANGED vars
      PROVE  answer' = answer
  BY <1>2 DEF DispatchData, DispatchEvent, CloseStreams, Finish, TakePending, DetachThread, HostReads,
       HostRefuses, HostAnswers, ConnGone, Cut, ConnEnds, vars
<1>3. ASSUME NEW d \in Call, FailPending(d) PROVE answer'[c] = answer[c] \/ answer'[c] = "eof"
  BY <1>t, <1>3 DEF FailPending
<1>4. answer' # answer /\ answer'[c] # "eof" /\ answer'[c] # answer[c]
  OBVIOUS
<1>5. DispatchResponse
  BY <1>1, <1>2, <1>3, <1>4, Zenon DEF Next, CallerStep, ReaderStep, HostStep
<1>6. c \in pending /\ c \notin abandoned /\ Head(toClient).of = c /\ Head(toClient).ok
  BY <1>t, <1>5 DEF DispatchResponse
<1>7. Head(toClient) = toClient[1] /\ 1 \in 1..Len(toClient) /\ toClient[1].type = "Response"
  BY <1>5, Tailed DEF DispatchResponse, Reads, TypeOK
<1> QED
  BY <1>5, <1>6, <1>7 DEF Installs, IsAnswer

-----------------------------------------------------------------------------
(* Where requests and answers are, as the queues change. *)

LEMMA QueuedAppend ==
  ASSUME TypeOK, NEW r \in Request, toHost' = Append(toHost, r), NEW c \in Call
  PROVE  /\ Queued(c)' <=> Queued(c) \/ r.id = c
         /\ \A j \in 1..Len(toHost)' : toHost'[j] = r \/ \E k \in 1..Len(toHost) : toHost'[j] = toHost[k]
         /\ (\A j, k \in 1..Len(toHost) : toHost[j].id = c /\ toHost[k].id = c => j = k)
            /\ (r.id = c => ~Queued(c)) =>
              \A j, k \in 1..Len(toHost)' : toHost'[j].id = c /\ toHost'[k].id = c => j = k
<1>1. /\ toHost'[Len(toHost) + 1] = r /\ \A k \in 1..Len(toHost) : toHost'[k] = toHost[k]
      /\ Len(toHost) + 1 \notin 1..Len(toHost)
      /\ \A k : k \in 1..Len(toHost)' <=> k \in 1..Len(toHost) \/ k = Len(toHost) + 1
  BY Appended DEF TypeOK
<1> QED
  BY <1>1 DEF Queued

LEMMA QueuedTail ==
  ASSUME TypeOK, toHost # << >>, toHost' = Tail(toHost), NEW c \in Call,
         \A j, k \in 1..Len(toHost) : toHost[j].id = c /\ toHost[k].id = c => j = k
  PROVE  /\ Queued(c)' => Queued(c)
         /\ Head(toHost).id = c => Queued(c) /\ ~Queued(c)'
         /\ \A j \in 1..Len(toHost)' : \E k \in 1..Len(toHost) : toHost'[j] = toHost[k]
         /\ \A j, k \in 1..Len(toHost)' : toHost'[j].id = c /\ toHost'[k].id = c => j = k
<1>1. /\ Head(toHost) = toHost[1] /\ 1 \in 1..Len(toHost)
      /\ \A k \in 1..Len(toHost)' : /\ toHost'[k] = toHost[k + 1] /\ k + 1 \in 1..Len(toHost)
                                    /\ k + 1 # 1
      /\ \A j, k \in 1..Len(toHost)' : j + 1 = k + 1 => j = k
  BY Tailed DEF TypeOK
<1>2. Queued(c)' => Queued(c)
  BY <1>1, Zenon DEF Queued
<1>3. ASSUME Head(toHost).id = c PROVE Queued(c) /\ ~Queued(c)'
  <2>1. toHost[1].id = c
    BY <1>1, <1>3
  <2>2. ASSUME NEW k \in 1..Len(toHost)', toHost'[k].id = c PROVE FALSE
    BY <1>1, <2>1, <2>2
  <2> QED
    BY <1>1, <2>1, <2>2 DEF Queued
<1>4. \A j \in 1..Len(toHost)' : \E k \in 1..Len(toHost) : toHost'[j] = toHost[k]
  BY <1>1, Zenon
<1>5. \A j, k \in 1..Len(toHost)' : toHost'[j].id = c /\ toHost'[k].id = c => j = k
  BY <1>1
<1> QED
  BY <1>2, <1>3, <1>4, <1>5

LEMMA QueuedNone ==
  ASSUME toHost' = << >>, NEW c
  PROVE  ~Queued(c)' /\ 1..Len(toHost)' = {}
BY DEF Queued

(* A frame that is sent is behind all others, if it is not lost. *)
LEMMA FramesSent ==
  ASSUME TypeOK, NEW type \in {"Response", "Data", "Lagged", "Event"},
         NEW c \in Call \cup {None}, NEW ok \in BOOLEAN, Sends(type, c, ok), wire = "open"
  PROVE  /\ Len(toClient) \in Nat /\ Len(toClient) + 1 \notin 1..Len(toClient)
         /\ toClient'[Len(toClient) + 1].type = type /\ toClient'[Len(toClient) + 1].of = c
         /\ toClient'[Len(toClient) + 1].ok = ok
         /\ \A k \in 1..Len(toClient) : toClient'[k] = toClient[k]
         /\ \A k : k \in 1..Len(toClient)' <=> k \in 1..Len(toClient) \/ k = Len(toClient) + 1
<1>1. [type |-> type, of |-> c, ok |-> ok] \in Frame
  BY DEF Frame
<1> QED
  BY <1>1, Appended DEF TypeOK, Sends

LEMMA RespondedSend ==
  ASSUME TypeOK, NEW type \in {"Response", "Data", "Lagged", "Event"},
         NEW c \in Call \cup {None}, NEW ok \in BOOLEAN, Sends(type, c, ok), NEW d \in Call
  PROVE  /\ Responded(d) => Responded(d)'
         /\ Responded(d)' => Responded(d) \/ (type = "Response" /\ d = c)
         /\ (\A j, k \in 1..Len(toClient) : IsAnswer(j, d) /\ IsAnswer(k, d) => j = k)
            /\ (type = "Response" /\ d = c => ~Responded(d)) =>
              \A j, k \in 1..Len(toClient)' : IsAnswer(j, d)' /\ IsAnswer(k, d)' => j = k
<1>1. CASE wire = "open"
  <2> DEFINE n == Len(toClient) + 1
  <2>1. /\ n \notin 1..Len(toClient)
        /\ toClient'[n].type = type /\ toClient'[n].of = c
        /\ \A k \in 1..Len(toClient) : toClient'[k] = toClient[k]
        /\ \A k : k \in 1..Len(toClient)' <=> k \in 1..Len(toClient) \/ k = n
    BY <1>1, FramesSent
  <2> HIDE DEF n
  <2>2. \A k \in 1..Len(toClient)' :
          /\ k = n => (IsAnswer(k, d)' <=> type = "Response" /\ d = c)
          /\ k # n => k \in 1..Len(toClient) /\ (IsAnswer(k, d)' <=> IsAnswer(k, d))
    BY <2>1 DEF IsAnswer
  <2> QED
    BY <2>1, <2>2, Zenon DEF Responded
<1>2. CASE wire # "open"
  <2>1. toClient' = toClient
    BY <1>2 DEF Sends
  <2> QED
    BY <2>1 DEF Responded, IsAnswer
<1> QED
  BY <1>1, <1>2

LEMMA RespondedTail ==
  ASSUME TypeOK, toClient # << >>, toClient' = Tail(toClient), NEW d \in Call,
         \A j, k \in 1..Len(toClient) : IsAnswer(j, d) /\ IsAnswer(k, d) => j = k
  PROVE  /\ Responded(d)' => Responded(d)
         /\ IsAnswer(1, d) => ~Responded(d)'
         /\ \A j, k \in 1..Len(toClient)' : IsAnswer(j, d)' /\ IsAnswer(k, d)' => j = k
<1>1. /\ 1 \in 1..Len(toClient)
      /\ \A k \in 1..Len(toClient)' : /\ toClient'[k] = toClient[k + 1] /\ k + 1 \in 1..Len(toClient)
                                      /\ k + 1 # 1
      /\ \A j, k \in 1..Len(toClient)' : j + 1 = k + 1 => j = k
  BY Tailed DEF TypeOK
<1>2. \A k \in 1..Len(toClient)' : IsAnswer(k, d)' <=> IsAnswer(k + 1, d)
  BY <1>1 DEF IsAnswer
<1> QED
  BY <1>1, <1>2, Zenon DEF Responded

LEMMA RespondedCut ==
  ASSUME TypeOK, NEW m \in 0..Len(toClient), toClient' = SubSeq(toClient, 1, m), NEW d \in Call
  PROVE  /\ Responded(d)' => Responded(d)
         /\ (\A j, k \in 1..Len(toClient) : IsAnswer(j, d) /\ IsAnswer(k, d) => j = k) =>
              \A j, k \in 1..Len(toClient)' : IsAnswer(j, d)' /\ IsAnswer(k, d)' => j = k
<1>1. /\ Len(toClient)' = m
      /\ \A k \in 1..m : toClient'[k] = toClient[k] /\ k \in 1..Len(toClient)
  BY CutOff DEF TypeOK
<1>2. \A k \in 1..m : IsAnswer(k, d)' <=> IsAnswer(k, d)
  BY <1>1 DEF IsAnswer
<1> QED
  BY <1>1, <1>2, Zenon DEF Responded

-----------------------------------------------------------------------------
(* AskOK and AwaitedOK. *)

LEMMA KindStep ==
  ASSUME TypeOK, CallOK, AskOK, AwaitedOK, [Next]_vars
  PROVE  KindOK'
<1> USE MuxRequestsAssumption DEF client, host
<1>c. ASSUME NEW c \in Call, Asked(c)
      PROVE  call'[c].kind = call[c].kind /\ call'[c].of = call[c].of
  BY <1>c, CallMoves DEF AwaitedOK
<1>t. /\ \A k \in 1..Len(toHost) : toHost[k] \in Request
      /\ serving.id \in Call \cup {None} /\ workers \subseteq Call
  BY DEF TypeOK
<1>q. \A k \in 1..Len(toHost) :
        LET r == toHost[k]
        IN IF r.id = None THEN r.kind \in {"detach", "input"}
           ELSE r.kind = call'[r.id].kind /\ r.of = call'[r.id].of
  BY <1>c, <1>t DEF AskOK, KindOK, Asked, Queued, Request
<1>s. serving.busy => IF serving.id = None THEN serving.kind = "detach"
                      ELSE serving.kind = call'[serving.id].kind /\ serving.of = call'[serving.id].of
  BY <1>c, <1>t DEF AskOK, KindOK, Asked, Served
<1>w. \A c \in workers : call'[c].kind = "worker"
  BY <1>c, <1>t DEF AskOK, KindOK, Asked
<1>1. ASSUME NEW r \in Request, toHost' = Append(toHost, r), serving' = serving, workers' = workers,
             IF r.id = None THEN r.kind \in {"detach", "input"}
             ELSE r.kind = call'[r.id].kind /\ r.of = call'[r.id].of
      PROVE  KindOK'
  <2>1. \A j \in 1..Len(toHost)' : toHost'[j] = r \/ \E k \in 1..Len(toHost) : toHost'[j] = toHost[k]
    <3>1. /\ toHost'[Len(toHost) + 1] = r /\ \A k \in 1..Len(toHost) : toHost'[k] = toHost[k]
          /\ \A k : k \in 1..Len(toHost)' <=> k \in 1..Len(toHost) \/ k = Len(toHost) + 1
      BY <1>1, Appended DEF TypeOK
    <3> QED
      BY <3>1, Zenon
  <2> QED
    BY <1>1, <1>q, <1>s, <1>w, <2>1 DEF KindOK
<1>2. ASSUME toHost' = toHost \/ toHost' = << >>, serving' = serving \/ serving' = Nobody,
             workers' \subseteq workers
      PROVE  KindOK'
  BY <1>2, <1>q, <1>s, <1>w DEF KindOK, Nobody
<1>3. ASSUME NEW c \in Call, Write(c) PROVE KindOK'
  <2>1. call'[c].kind = call[c].kind /\ call'[c].of = call[c].of
    BY <1>3, CallMoves DEF Write
  <2>2. [id |-> c, kind |-> call[c].kind, of |-> call[c].of] \in Request
    <3>1. call[c] \in CallState /\ call[c].kind \in Kind
      BY <1>3 DEF TypeOK, CallOK, Write
    <3> QED
      BY <3>1 DEF CallState, Request
  <2>3. CASE toHost' = Append(toHost, [id |-> c, kind |-> call[c].kind, of |-> call[c].of])
    BY <1>1, <1>3, <2>1, <2>2, <2>3 DEF Write
  <2>4. CASE toHost' = toHost
    BY <1>2, <1>3, <2>4 DEF Write
  <2> QED
    BY <1>3, <2>3, <2>4 DEF Write
<1>4. ASSUME NEW c \in Call, SendInput(c) PROVE KindOK'
  <2>1. [id |-> None, kind |-> "input", of |-> c] \in Request
    BY DEF Request
  <2>2. CASE toHost' = Append(toHost, [id |-> None, kind |-> "input", of |-> c])
    BY <1>1, <1>4, <2>1, <2>2 DEF SendInput
  <2>3. CASE toHost' = toHost
    BY <1>2, <1>4, <2>3 DEF SendInput
  <2> QED
    BY <1>4, <2>2, <2>3 DEF SendInput
<1>5. CASE DetachThread
  <2>1. [id |-> None, kind |-> "detach", of |-> Head(detaches)] \in Request
    BY <1>5, Tailed DEF Request, Kind, DetachThread, TypeOK
  <2>2. CASE toHost' = Append(toHost, [id |-> None, kind |-> "detach", of |-> Head(detaches)])
    BY <1>1, <1>5, <2>1, <2>2 DEF DetachThread
  <2>3. CASE toHost' = toHost
    BY <1>2, <1>5, <2>3 DEF DetachThread
  <2> QED
    BY <1>5, <2>2, <2>3 DEF DetachThread
<1>6. ASSUME toHost # << >>, toHost' = Tail(toHost)
      PROVE  \A k \in 1..Len(toHost)' :
               LET r == toHost'[k]
               IN IF r.id = None THEN r.kind \in {"detach", "input"}
                  ELSE r.kind = call'[r.id].kind /\ r.of = call'[r.id].of
  <2>1. \A j \in 1..Len(toHost)' : \E k \in 1..Len(toHost) : toHost'[j] = toHost[k]
    BY <1>6, Tailed DEF TypeOK
  <2> QED
    BY <1>q, <2>1
<1>7. CASE HostReads
  <2> DEFINE r == Head(toHost)
  <2>1. /\ r \in Request /\ r = toHost[1] /\ 1 \in 1..Len(toHost)
        /\ toHost # << >> /\ toHost' = Tail(toHost) /\ call' = call
    BY <1>7, Tailed DEF HostReads, TypeOK
  <2>2. IF r.id = None THEN r.kind \in {"detach", "input"}
        ELSE r.kind = call'[r.id].kind /\ r.of = call'[r.id].of
    BY <1>q, <2>1
  <2>3. \/ workers' = workers /\ r.kind # "input" /\ \E ok \in BOOLEAN : Serves(r, ok)
        \/ workers' \subseteq workers \cup {r.id} /\ r.kind = "worker" /\ serving' = serving
        \/ workers' = workers /\ serving' = serving
    BY <1>7 DEF HostReads
  <2> HIDE DEF r
  <2>4. CASE workers' = workers /\ r.kind # "input" /\ \E ok \in BOOLEAN : Serves(r, ok)
    BY <1>6, <1>w, <2>1, <2>2, <2>4 DEF KindOK, Serves
  <2>5. CASE workers' \subseteq workers \cup {r.id} /\ r.kind = "worker" /\ serving' = serving
    BY <1>6, <1>w, <1>s, <2>1, <2>2, <2>5 DEF KindOK
  <2>6. CASE workers' = workers /\ serving' = serving
    BY <1>6, <1>w, <1>s, <2>1, <2>6 DEF KindOK
  <2> QED
    BY <2>3, <2>4, <2>5, <2>6
<1>8. CASE HostRefuses
  BY <1>6, <1>8, <1>w, <1>s DEF HostRefuses, KindOK
<1>9. CASE HostAnswers \/ ConnGone \/ Cut \/ ConnEnds \/ UNCHANGED vars
  BY <1>2, <1>9 DEF HostAnswers, ConnGone, Cut, ConnEnds, vars
<1>10. CASE DispatchResponse \/ DispatchData \/ DispatchEvent \/ Finish \/ TakePending \/ CloseStreams
  BY <1>2, <1>10 DEF DispatchResponse, DispatchData, DispatchEvent, Finish, TakePending, CloseStreams
<1>11. ASSUME NEW c \in Call,
              Begin(c) \/ Register(c) \/ Answered(c) \/ TimesOut(c) \/ GivesUp(c) \/ ForgetStream(c)
              \/ DropReceiver(c) \/ FailPending(c)
       PROVE  KindOK'
  BY <1>2, <1>11 DEF Begin, Register, Answered, TimesOut, GivesUp, ForgetStream, DropReceiver, FailPending
<1>12. ASSUME NEW c \in Call,
              WorkerAnswers(c) \/ ForwarderEnds(c) \/ Forward(c) \/ ForwardLagged(c) \/ Publish(c)
       PROVE  KindOK'
  BY <1>2, <1>12 DEF WorkerAnswers, ForwarderEnds, Forward, ForwardLagged, Publish
<1> QED
  BY <1>3, <1>4, <1>5, <1>7, <1>8, <1>9, <1>10, <1>11, <1>12,
     Zenon DEF Next, CallerStep, ReaderStep, HostStep

(* Places.  A request goes from its caller to the queue, from the queue to the
   read loop or a thread of its own, and from there into an answer. *)
LEMMA PlaceQuiet ==
  ASSUME NEW c \in Call, PlaceOK(c), UNCHANGED <<toHost, toClient, serving, workers>>
  PROVE  PlaceOK(c)' /\ (Asked(c)' => Asked(c))
<1>1. Queued(c)' <=> Queued(c)
  BY DEF Queued
<1>2. (Responded(c)' <=> Responded(c)) /\ \A n : IsAnswer(n, c)' <=> IsAnswer(n, c)
  BY DEF Responded, IsAnswer
<1>3. Served(c)' <=> Served(c)
  BY DEF Served
<1> QED
  BY <1>1, <1>2, <1>3 DEF PlaceOK, Asked

(* A frame that is no answer, or is an answer to a call that is being served
   and by then is no more, is sent. *)
LEMMA PlaceSend ==
  ASSUME TypeOK, NEW type \in {"Response", "Data", "Lagged", "Event"},
         NEW d \in Call \cup {None}, NEW ok \in BOOLEAN, Sends(type, d, ok),
         NEW c \in Call, PlaceOK(c), toHost' = toHost,
         Served(c)' => Served(c), c \in workers' => c \in workers,
         (type = "Response" /\ d = c) => /\ (Served(c) /\ ~Served(c)') \/ (c \in workers /\ c \notin workers')
                                         /\ ~(Served(c)' \/ c \in workers')
  PROVE  PlaceOK(c)' /\ (Asked(c)' => Asked(c))
<1>1. Queued(c)' <=> Queued(c)
  BY DEF Queued
<1>2. CASE type = "Response" /\ d = c
  <2>1. ~Responded(c) /\ ~Queued(c) /\ Asked(c)
    BY <1>2 DEF PlaceOK, Asked
  <2>2. \A j, k \in 1..Len(toClient)' : IsAnswer(j, c)' /\ IsAnswer(k, c)' => j = k
    BY <2>1, RespondedSend DEF PlaceOK
  <2> QED
    BY <1>1, <1>2, <2>1, <2>2 DEF PlaceOK
<1>3. CASE ~(type = "Response" /\ d = c)
  <2>1. Responded(c)' <=> Responded(c)
    BY <1>3, RespondedSend
  <2>2. \A j, k \in 1..Len(toClient)' : IsAnswer(j, c)' /\ IsAnswer(k, c)' => j = k
    BY <1>3, RespondedSend DEF PlaceOK
  <2> QED
    BY <1>1, <2>1, <2>2 DEF PlaceOK, Asked
<1> QED
  BY <1>2, <1>3

(* The reader takes a frame. *)
LEMMA PlaceRead ==
  ASSUME TypeOK, toClient # << >>, toClient' = Tail(toClient), NEW c \in Call, PlaceOK(c),
         UNCHANGED <<toHost, serving, workers>>
  PROVE  /\ PlaceOK(c)' /\ (Asked(c)' => Asked(c))
         /\ IsAnswer(1, c) => ~Asked(c)'
<1>1. (Queued(c)' <=> Queued(c)) /\ (Served(c)' <=> Served(c))
  BY DEF Queued, Served
<1>2. /\ Responded(c)' => Responded(c)
      /\ IsAnswer(1, c) => ~Responded(c)'
      /\ \A j, k \in 1..Len(toClient)' : IsAnswer(j, c)' /\ IsAnswer(k, c)' => j = k
  BY RespondedTail DEF PlaceOK
<1>3. IsAnswer(1, c) => Responded(c)
  BY Tailed DEF Responded, TypeOK
<1> QED
  BY <1>1, <1>2, <1>3 DEF PlaceOK, Asked

LEMMA PlaceStep ==
  ASSUME TypeOK, CallOK, AskOK, AwaitedOK, [Next]_vars, NEW c \in Call
  PROVE  PlaceOK(c)' /\ (Asked(c)' => Asked(c) \/ Write(c))
<1> USE MuxRequestsAssumption DEF client, host
<1>p. PlaceOK(c)
  BY DEF AskOK
<1>q. ASSUME UNCHANGED <<toHost, toClient, serving, workers>>
      PROVE  PlaceOK(c)' /\ (Asked(c)' => Asked(c))
  BY <1>p, <1>q, PlaceQuiet
(* A request of a call is written, or one of the detach thread or of a view. *)
<1>a. ASSUME NEW r \in Request, toHost' = Append(toHost, r), r.id = c => ~Asked(c),
             UNCHANGED <<toClient, serving, workers>>
      PROVE  PlaceOK(c)' /\ (Asked(c)' => Asked(c) \/ r.id = c)
  <2>1. /\ Queued(c)' <=> Queued(c) \/ r.id = c
        /\ \A j, k \in 1..Len(toHost)' : toHost'[j].id = c /\ toHost'[k].id = c => j = k
    BY <1>p, <1>a, QueuedAppend DEF PlaceOK, Asked
  <2>2. (Responded(c)' <=> Responded(c)) /\ (Served(c)' <=> Served(c)) /\ \A n : IsAnswer(n, c)' <=> IsAnswer(n, c)
    BY <1>a DEF Responded, IsAnswer, Served
  <2> QED
    BY <1>p, <1>a, <2>1, <2>2 DEF PlaceOK, Asked
<1>1. ASSUME NEW d \in Call, Write(d) PROVE PlaceOK(c)' /\ (Asked(c)' => Asked(c) \/ Write(c))
  <2>1. [id |-> d, kind |-> call[d].kind, of |-> call[d].of] \in Request
    <3>1. call[d] \in CallState /\ call[d].kind \in Kind
      BY <1>1 DEF TypeOK, CallOK, Write
    <3> QED
      BY <3>1 DEF CallState, Request
  <2>2. ~Asked(d)
    BY <1>1 DEF AwaitedOK, Write
  <2>3. CASE toHost' = Append(toHost, [id |-> d, kind |-> call[d].kind, of |-> call[d].of])
    <3>1. PlaceOK(c)' /\ (Asked(c)' => Asked(c) \/ d = c)
      BY <1>1, <1>a, <2>1, <2>2, <2>3 DEF Write
    <3> QED
      BY <1>1, <3>1
  <2>4. CASE toHost' = toHost
    BY <1>1, <1>q, <2>4 DEF Write
  <2> QED
    BY <1>1, <2>3, <2>4 DEF Write
<1>2. ASSUME NEW d \in Call, SendInput(d) PROVE PlaceOK(c)' /\ (Asked(c)' => Asked(c))
  <2>1. [id |-> None, kind |-> "input", of |-> d] \in Request
    BY DEF Request
  <2>2. CASE toHost' = Append(toHost, [id |-> None, kind |-> "input", of |-> d])
    BY <1>2, <1>a, <2>1, <2>2 DEF SendInput
  <2>3. CASE toHost' = toHost
    BY <1>2, <1>q, <2>3 DEF SendInput
  <2> QED
    BY <1>2, <2>2, <2>3 DEF SendInput
<1>3. ASSUME DetachThread PROVE PlaceOK(c)' /\ (Asked(c)' => Asked(c))
  <2>1. [id |-> None, kind |-> "detach", of |-> Head(detaches)] \in Request
    BY <1>3, Tailed DEF Request, Kind, DetachThread, TypeOK
  <2>2. CASE toHost' = Append(toHost, [id |-> None, kind |-> "detach", of |-> Head(detaches)])
    BY <1>3, <1>a, <2>1, <2>2 DEF DetachThread
  <2>3. CASE toHost' = toHost
    BY <1>3, <1>q, <2>3 DEF DetachThread
  <2> QED
    BY <1>3, <2>2, <2>3 DEF DetachThread
<1>4. ASSUME HostReads PROVE PlaceOK(c)' /\ (Asked(c)' => Asked(c))
  <2> DEFINE r == Head(toHost)
  <2>1. /\ toHost # << >> /\ toHost' = Tail(toHost) /\ toClient' = toClient /\ ~serving.busy
    BY <1>4 DEF HostReads
  <2>2. /\ Queued(c)' => Queued(c)
        /\ r.id = c => Queued(c) /\ ~Queued(c)'
        /\ \A j, k \in 1..Len(toHost)' : toHost'[j].id = c /\ toHost'[k].id = c => j = k
    BY <1>p, <2>1, QueuedTail DEF PlaceOK
  <2>3. (Responded(c)' <=> Responded(c)) /\ \A n : IsAnswer(n, c)' <=> IsAnswer(n, c)
    BY <2>1 DEF Responded, IsAnswer
  <2>4. \/ workers' = workers /\ \E ok \in BOOLEAN : Serves(r, ok)
        \/ workers' = workers \cup {r.id} /\ serving' = serving
        \/ workers' = workers /\ serving' = serving
    BY <1>4 DEF HostReads
  <2> HIDE DEF r
  <2>5. ~Served(c)
    BY <2>1 DEF Served
  <2>6. CASE workers' = workers /\ \E ok \in BOOLEAN : Serves(r, ok)
    <3>1. Served(c)' <=> r.id = c
      BY <2>6 DEF Serves, Served
    <3> QED
      BY <1>p, <2>1, <2>2, <2>3, <2>6, <3>1 DEF PlaceOK, Asked
  <2>7. CASE workers' = workers \cup {r.id} /\ serving' = serving
    <3>1. ~Served(c)'
      BY <2>5, <2>7 DEF Served
    <3> QED
      BY <1>p, <2>1, <2>2, <2>3, <2>7, <3>1 DEF PlaceOK, Asked
  <2>8. CASE workers' = workers /\ serving' = serving
    <3>1. ~Served(c)'
      BY <2>5, <2>8 DEF Served
    <3> QED
      BY <1>p, <2>1, <2>2, <2>3, <2>8, <3>1 DEF PlaceOK, Asked
  <2> QED
    BY <2>4, <2>6, <2>7, <2>8
<1>5. ASSUME HostRefuses PROVE PlaceOK(c)' /\ (Asked(c)' => Asked(c))
  <2>1. /\ toHost # << >> /\ toHost' = Tail(toHost) /\ Sends("Response", None, FALSE)
        /\ serving' = serving /\ workers' = workers
    BY <1>5 DEF HostRefuses
  <2>2. /\ Queued(c)' => Queued(c)
        /\ \A j, k \in 1..Len(toHost)' : toHost'[j].id = c /\ toHost'[k].id = c => j = k
    BY <1>p, <2>1, QueuedTail DEF PlaceOK
  <2>3. /\ Responded(c)' <=> Responded(c)
        /\ \A j, k \in 1..Len(toClient)' : IsAnswer(j, c)' /\ IsAnswer(k, c)' => j = k
    BY <1>p, <2>1, RespondedSend DEF PlaceOK
  <2> QED
    BY <1>p, <2>1, <2>2, <2>3 DEF PlaceOK, Asked, Served
<1>6. ASSUME HostAnswers PROVE PlaceOK(c)' /\ (Asked(c)' => Asked(c))
  <2>1. /\ serving.busy /\ Sends("Response", serving.id, serving.ok) /\ serving' = Nobody
        /\ toHost' = toHost /\ workers' = workers
    BY <1>6 DEF HostAnswers
  <2>2. ~Served(c)' /\ (serving.id = c => Served(c))
    BY <2>1 DEF Served, Nobody
  <2>3. serving.id = c => c \notin workers
    BY <1>p, <2>2 DEF PlaceOK
  <2>4. serving.id \in Call \cup {None} /\ serving.ok \in BOOLEAN
    BY DEF TypeOK
  <2> QED
    BY <1>p, <2>1, <2>2, <2>3, <2>4, PlaceSend
<1>7. ASSUME NEW d \in Call, WorkerAnswers(d) PROVE PlaceOK(c)' /\ (Asked(c)' => Asked(c))
  <2>1. PICK ok \in BOOLEAN : Sends("Response", d, ok)
    BY <1>7 DEF WorkerAnswers
  <2>2. d \in workers /\ workers' = workers \ {d} /\ serving' = serving /\ toHost' = toHost
    BY <1>7 DEF WorkerAnswers
  <2>3. (Served(c)' <=> Served(c)) /\ (c \in workers => ~Served(c))
    BY <1>p, <2>2 DEF Served, PlaceOK
  <2> QED
    BY <1>p, <2>1, <2>2, <2>3, PlaceSend
<1>8. ASSUME NEW d \in Call, Forward(d) \/ ForwardLagged(d) \/ Publish(d)
      PROVE  PlaceOK(c)' /\ (Asked(c)' => Asked(c))
  <2>1. /\ \E type \in {"Data", "Lagged", "Event"} : Sends(type, d, TRUE)
        /\ serving' = serving /\ workers' = workers /\ toHost' = toHost
    BY <1>8 DEF Forward, ForwardLagged, Publish
  <2>2. Served(c)' <=> Served(c)
    BY <2>1 DEF Served
  <2> QED
    BY <1>p, <2>1, <2>2, PlaceSend
<1>9. ASSUME DispatchResponse \/ DispatchData \/ DispatchEvent PROVE PlaceOK(c)' /\ (Asked(c)' => Asked(c))
  <2>1. toClient # << >> /\ toClient' = Tail(toClient) /\ UNCHANGED <<toHost, serving, workers>>
    BY <1>9 DEF DispatchResponse, DispatchData, DispatchEvent, Reads
  <2> QED
    BY <1>p, <2>1, PlaceRead
<1>10. ASSUME Cut PROVE PlaceOK(c)' /\ (Asked(c)' => Asked(c))
  <2>1. PICK m \in 0..Len(toClient) : toClient' = SubSeq(toClient, 1, m)
    BY <1>10 DEF Cut
  <2>2. toHost' = << >> /\ serving' = serving /\ workers' = workers
    BY <1>10 DEF Cut
  <2>3. /\ Responded(c)' => Responded(c)
        /\ \A j, k \in 1..Len(toClient)' : IsAnswer(j, c)' /\ IsAnswer(k, c)' => j = k
    BY <1>p, <2>1, RespondedCut DEF PlaceOK
  <2> QED
    BY <1>p, <2>2, <2>3, QueuedNone DEF PlaceOK, Asked, Served
<1>11. ASSUME ConnGone PROVE PlaceOK(c)' /\ (Asked(c)' => Asked(c))
  <2>1. toHost' = << >> /\ serving' = serving /\ workers' = workers /\ toClient' = toClient
    BY <1>11 DEF ConnGone
  <2>2. (Responded(c)' <=> Responded(c)) /\ \A n : IsAnswer(n, c)' <=> IsAnswer(n, c)
    BY <2>1 DEF Responded, IsAnswer
  <2> QED
    BY <1>p, <2>1, <2>2, QueuedNone DEF PlaceOK, Asked, Served
<1>12. ASSUME NEW d \in Call,
              Begin(d) \/ Register(d) \/ Answered(d) \/ TimesOut(d) \/ GivesUp(d) \/ ForgetStream(d)
              \/ DropReceiver(d) \/ FailPending(d) \/ ForwarderEnds(d)
       PROVE  UNCHANGED <<toHost, toClient, serving, workers>>
  BY <1>12 DEF Begin, Register, Answered, TimesOut, GivesUp, ForgetStream, DropReceiver, FailPending,
       ForwarderEnds
<1>13. ASSUME Finish \/ TakePending \/ CloseStreams \/ ConnEnds \/ UNCHANGED vars
       PROVE  UNCHANGED <<toHost, toClient, serving, workers>>
  BY <1>13 DEF Finish, TakePending, CloseStreams, ConnEnds, vars
<1> QED
  BY <1>q, <1>1, <1>2, <1>3, <1>4, <1>5, <1>6, <1>7, <1>8, <1>9, <1>10, <1>11, <1>12, <1>13,
     Zenon DEF Next, CallerStep, ReaderStep, HostStep

(* What is asked waits for its answer: only dispatch_response answers, and it
   takes the answer out of the way. *)
LEMMA AwaitedStep ==
  ASSUME TypeOK, CallOK, AskOK, AwaitedOK, [Next]_vars
  PROVE  AwaitedOK'
<1> USE MuxRequestsAssumption DEF client, host
<1> SUFFICES ASSUME NEW c \in Call, Asked(c)'
             PROVE  /\ call'[c].at \notin {"idle", "begun", "registered"} /\ answer'[c] \notin {"ok", "error"}
                    /\ call'[c].kind = "attach" /\ reader' = "reading" => c \in pending'
  BY DEF AwaitedOK
<1>t. /\ call \in [Call -> CallState] /\ answer \in [Call -> {"none", "ok", "error", "eof"}]
      /\ call[c] \in CallState /\ PlaceOK(c)
  BY DEF TypeOK, AskOK
<1>1. CASE Write(c)
  <2>1. /\ call[c].at = "registered" /\ answer' = answer /\ reader' = reader
        /\ UNCHANGED <<toClient, serving, workers>>
        /\ \/ Goes(c, "waiting") /\ pending' = pending
           \/ Goes(c, "eof") /\ toHost' = toHost
    BY <1>1 DEF Write
  <2>2. answer[c] \notin {"ok", "error"} /\ (reader = "reading" => c \in pending) /\ ~Asked(c)
    BY <2>1 DEF CallOK, AwaitedOK
  <2>3. CASE Goes(c, "waiting") /\ pending' = pending
    <3>1. call'[c].at = "waiting"
      BY <1>t, <2>3 DEF Goes, CallState
    <3> QED
      BY <2>1, <2>2, <2>3, <3>1
  <2>4. CASE Goes(c, "eof") /\ toHost' = toHost
    BY <1>t, <2>1, <2>2, <2>4, PlaceQuiet
  <2> QED
    BY <2>1, <2>3, <2>4
<1>2. CASE ~Write(c)
  <2>1. Asked(c) /\ call[c].at \notin {"idle", "begun", "registered"} /\ answer[c] \notin {"ok", "error"}
    BY <1>2, PlaceStep DEF AwaitedOK
  <2>2. /\ call'[c].at \notin {"idle", "begun", "registered"}
        /\ call'[c].kind = call[c].kind
    BY <2>1, CallMoves
  <2>3. call[c].kind = "attach" /\ reader = "reading" => c \in pending
    BY <2>1 DEF AwaitedOK
  <2>4. CASE DispatchResponse
    <3>1. toClient # << >> /\ toClient' = Tail(toClient) /\ UNCHANGED <<toHost, serving, workers, reader>>
      BY <2>4 DEF DispatchResponse, Reads
    <3>2. ~IsAnswer(1, c)
      BY <1>t, <3>1, PlaceRead
    <3>3. Head(toClient).of # c
      BY <2>4, <3>2, AnswersAsked
    <3>4. answer'[c] = answer[c] /\ (c \in pending => c \in pending')
      BY <1>t, <2>4, <3>3 DEF DispatchResponse
    <3> QED
      BY <2>1, <2>2, <2>3, <3>1, <3>4
  <2>5. ASSUME answer' = answer, c \in pending /\ reader' = "reading" /\ call[c].kind = "attach" => c \in pending',
               reader' = "reading" => reader = "reading"
        PROVE  /\ answer'[c] \notin {"ok", "error"}
               /\ call[c].kind = "attach" /\ reader' = "reading" => c \in pending'
    BY <2>1, <2>3, <2>5
  <2>6. ASSUME NEW d \in Call, FailPending(d)
        PROVE  answer'[c] \notin {"ok", "error"} /\ reader' # "reading"
    BY <1>t, <2>1, <2>6 DEF FailPending
  <2>7. ASSUME NEW d \in Call, Write(d)
        PROVE  answer' = answer /\ reader' = reader /\ (c \in pending => c \in pending')
    BY <1>2, <2>7 DEF Write
  <2>8. ASSUME NEW d \in Call, GivesUp(d)
        PROVE  answer' = answer /\ reader' = reader /\ (c \in pending /\ call[c].kind = "attach" => c \in pending')
    BY <2>8 DEF GivesUp
  <2>9. ASSUME NEW d \in Call,
               Begin(d) \/ Register(d) \/ Answered(d) \/ TimesOut(d) \/ ForgetStream(d)
               \/ SendInput(d) \/ DropReceiver(d) \/ WorkerAnswers(d) \/ ForwarderEnds(d)
               \/ Forward(d) \/ ForwardLagged(d) \/ Publish(d)
        PROVE  answer' = answer /\ reader' = reader /\ pending \subseteq pending'
    BY <2>9 DEF Begin, Register, Answered, TimesOut, ForgetStream, SendInput, DropReceiver,
         WorkerAnswers, ForwarderEnds, Forward, ForwardLagged, Publish
  <2>10. ASSUME DispatchData \/ DispatchEvent \/ DetachThread \/ HostReads \/ HostRefuses
                \/ HostAnswers \/ ConnGone \/ Cut \/ ConnEnds \/ UNCHANGED vars
         PROVE  answer' = answer /\ reader' = reader /\ pending \subseteq pending'
    BY <2>10 DEF DispatchData, DispatchEvent, DetachThread, HostReads, HostRefuses, HostAnswers,
         ConnGone, Cut, ConnEnds, vars
  <2>11. ASSUME Finish \/ TakePending \/ CloseStreams
         PROVE  answer' = answer /\ reader' # "reading"
    BY <2>11 DEF Finish, TakePending, CloseStreams
  <2> DEFINE Goal == /\ answer'[c] \notin {"ok", "error"}
                     /\ call[c].kind = "attach" /\ reader' = "reading" => c \in pending'
  <2>12. ASSUME NEW d \in Call, Begin(d) \/ CallerStep(d) \/ TimesOut(d) \/ SendInput(d) \/ DropReceiver(d)
                \/ Forward(d) \/ ForwardLagged(d) \/ Publish(d) \/ FailPending(d)
                \/ WorkerAnswers(d) \/ ForwarderEnds(d)
         PROVE  Goal
    BY <2>5, <2>6, <2>7, <2>8, <2>9, <2>12 DEF CallerStep
  <2>13. ASSUME ~DispatchResponse,
                ReaderStep \/ DetachThread \/ HostStep \/ Cut \/ ConnEnds \/ UNCHANGED vars
         PROVE  Goal
    BY <2>5, <2>6, <2>10, <2>11, <2>12, <2>13 DEF ReaderStep, HostStep
  <2> HIDE DEF Goal
  <2>14. CASE ~DispatchResponse
    <3>1. Goal
      BY <2>12, <2>13, <2>14, Zenon DEF Next
    <3> QED
      BY <2>2, <3>1 DEF Goal
  <2> QED
    BY <2>4, <2>14
<1> QED
  BY <1>1, <1>2

-----------------------------------------------------------------------------
(* OrderOK. *)

LEMMA FramesRead ==
  ASSUME TypeOK, toClient # << >>, toClient' = Tail(toClient)
  PROVE  /\ Len(toClient) \in Nat /\ Len(toClient)' \in Nat /\ Len(toClient)' + 1 = Len(toClient)
         /\ 1 \in 1..Len(toClient) /\ Head(toClient) = toClient[1]
         /\ \A k \in 1..Len(toClient)' : toClient'[k] = toClient[k + 1] /\ k + 1 \in 1..Len(toClient)
BY Tailed DEF TypeOK

LEMMA FramesCut ==
  ASSUME TypeOK, Cut
  PROVE  /\ Len(toClient) \in Nat /\ Len(toClient)' \in Nat
         /\ \A k \in 1..Len(toClient)' : toClient'[k] = toClient[k] /\ k \in 1..Len(toClient)
BY CutOff DEF TypeOK, Cut

(* What comes before a frame still does when nothing is read ... *)
LEMMA PrecededKept ==
  ASSUME TypeOK, [Next]_vars, NEW s \in Call, NEW n \in Nat, Preceded(n, s),
         s \in streams => s \in streams' \/ GaveUp(s)',
         \A j \in 1..(n - 1) : Installs(j, s) => Installs(j, s)'
  PROVE  Preceded(n, s)'
BY GaveUpStays DEF Preceded

(* ... and when a frame is read, the answer to an attach being dispatched. *)
LEMMA PrecededRead ==
  ASSUME TypeOK, CallOK, AwaitedOK, [Next]_vars, NEW s \in Call, NEW n \in Nat, n >= 1,
         n <= Len(toClient)' + 1, Preceded(n + 1, s), Attached(s),
         DispatchResponse \/ DispatchData \/ DispatchEvent
  PROVE  Preceded(n, s)'
<1>1. toClient # << >> /\ toClient' = Tail(toClient) /\ UNCHANGED <<call, dropped, reader, abandoned>>
  BY DEF DispatchResponse, DispatchData, DispatchEvent, Reads
<1>2. /\ Head(toClient) = toClient[1] /\ 1 \in 1..Len(toClient)
      /\ \A k \in 1..Len(toClient)' : toClient'[k] = toClient[k + 1] /\ k + 1 \in 1..Len(toClient)
      /\ Len(toClient)' + 1 = Len(toClient) /\ Len(toClient) \in Nat /\ Len(toClient)' \in Nat
  BY <1>1, FramesRead
<1>3. CASE GaveUp(s)
  BY <1>3, GaveUpStays DEF Preceded
<1>4. CASE s \in streams
  <2>1. CASE DispatchResponse
    BY <1>4, <2>1 DEF DispatchResponse, Preceded
  <2>2. CASE DispatchData \/ DispatchEvent
    <3>1. s \in streams' \/ s \in dropped \/ tail'[s] # "open"
      BY <1>4, <2>2 DEF DispatchData, DispatchEvent, TypeOK
    <3> QED
      BY <1>1, <3>1 DEF Preceded, GaveUp
  <2> QED
    BY <2>1, <2>2
<1>5. ASSUME NEW j \in 1..n, Installs(j, s), ~GaveUp(s), s \notin streams PROVE Preceded(n, s)'
  <2>1. CASE j = 1
    <3>1. DispatchResponse /\ Head(toClient).of = s /\ Head(toClient).ok
      BY <1>2, <1>5, <2>1 DEF Installs, IsAnswer, DispatchData, DispatchEvent, Reads
    <3>2. Responded(s)
      BY <1>2, <1>5, <2>1 DEF Responded, Installs
    <3>3. s \in pending
      BY <3>1, <3>2 DEF AwaitedOK, Asked, Attached, DispatchResponse, Reads
    <3>4. s \notin abandoned
      BY <1>5 DEF CallOK, GaveUp
    <3>5. s \in streams'
      BY <3>1, <3>3, <3>4 DEF DispatchResponse, Attached
    <3> QED
      BY <3>5 DEF Preceded
  <2>2. CASE j # 1
    <3>1. PICK k \in Nat : k + 1 = j /\ k \in 1..(n - 1)
      <4>1. j - 1 \in Nat /\ (j - 1) + 1 = j /\ j - 1 \in 1..(n - 1)
        BY <2>2
      <4> QED
        BY <4>1
    <3>2. toClient'[k] = toClient[k + 1]
      BY <1>2, <3>1
    <3> QED
      BY <1>5, <3>1, <3>2 DEF Installs, IsAnswer, Preceded
  <2> QED
    BY <2>1, <2>2
<1>6. (n + 1) - 1 = n
  OBVIOUS
<1> QED
  BY <1>3, <1>4, <1>5, <1>6 DEF Preceded

(* Nothing is sent or read. *)
LEMMA StreamKept ==
  ASSUME TypeOK, [Next]_vars, NEW s \in Call, StreamOK(s), toClient' = toClient,
         hstream'[s] # "none" => hstream[s] # "none" \/ Attached(s),
         hstream'[s] \in {"on", "stopped"} => hstream[s] \in {"on", "stopped"},
         wire' = "open" => wire = "open", reader' = "reading" => reader = "reading",
         s \in streams => s \in streams' \/ GaveUp(s)'
  PROVE  StreamOK(s)'
<1>0. Len(toClient) \in Nat /\ Len(toClient) + 1 \in Nat /\ \A n \in 1..Len(toClient) : n \in Nat
  BY DEF TypeOK
<1>1. Attached(s) => Attached(s)'
  BY CallMoves DEF Attached
<1>2. \A n : (IsData(n, s)' <=> IsData(n, s)) /\ (Installs(n, s)' <=> Installs(n, s))
  BY DEF IsData, Installs, IsAnswer
<1>3. \A n \in Nat : Preceded(n, s) => Preceded(n, s)'
  BY <1>2, PrecededKept
<1> QED
  BY <1>0, <1>1, <1>2, <1>3 DEF StreamOK

(* A frame is sent; a frame of the stream, by its forwarder. *)
LEMMA StreamSent ==
  ASSUME TypeOK, [Next]_vars, NEW s \in Call, StreamOK(s),
         NEW type \in {"Response", "Data", "Lagged", "Event"},
         NEW d \in Call \cup {None}, NEW ok \in BOOLEAN, Sends(type, d, ok),
         type = "Data" /\ d = s => hstream[s] \in {"on", "stopped"},
         hstream'[s] # "none" => hstream[s] # "none" \/ Attached(s),
         hstream'[s] \in {"on", "stopped"} =>
           hstream[s] \in {"on", "stopped"} \/ (type = "Response" /\ d = s /\ ok /\ wire = "open"),
         wire' = wire, reader' = reader, streams' = streams
  PROVE  StreamOK(s)'
<1>1. CASE wire # "open"
  <2>1. toClient' = toClient
    BY <1>1 DEF Sends
  <2> QED
    BY <1>1, <2>1, StreamKept
<1>2. CASE wire = "open"
  <2>0. Len(toClient) + 1 \in Nat /\ Len(toClient) \in Nat
    BY DEF TypeOK
  <2>l. PICK l \in Nat : l = Len(toClient) + 1
    BY <2>0
  <2>1. /\ l \notin 1..Len(toClient)
        /\ toClient'[l].type = type /\ toClient'[l].of = d /\ toClient'[l].ok = ok
        /\ \A k \in 1..Len(toClient) : toClient'[k] = toClient[k]
        /\ \A k : k \in 1..Len(toClient)' <=> k \in 1..Len(toClient) \/ k = l
    BY <1>2, <2>l, FramesSent
  <2>m. Len(toClient)' = l
    BY <1>2, <2>l, Appended DEF Sends, TypeOK, Frame
  <2>2. Attached(s) => Attached(s)'
    BY CallMoves DEF Attached
  <2>3. \A n \in 1..Len(toClient) : (IsData(n, s)' <=> IsData(n, s)) /\ (Installs(n, s)' <=> Installs(n, s))
    BY <2>1 DEF IsData, Installs, IsAnswer
  <2>4. ASSUME NEW n \in 1..l, Preceded(n, s) PROVE Preceded(n, s)'
    <3>1. n \in Nat /\ \A j \in 1..(n - 1) : j \in 1..Len(toClient)
      BY <2>0, <2>l
    <3> QED
      BY <2>3, <2>4, <3>1, PrecededKept
  <2>5. Preceded(l, s)' => Preceded(l + 1, s)'
    BY <2>0, <2>l DEF Preceded
  <2>6. hstream[s] \in {"on", "stopped"} => Preceded(l, s)' /\ Attached(s)'
    <3>1. hstream[s] \in {"on", "stopped"} => Preceded(l, s) /\ Attached(s)
      BY <1>2, <2>l DEF StreamOK
    <3>2. l \in 1..l
      BY <2>0, <2>l
    <3> QED
      BY <2>2, <2>4, <3>1, <3>2
  <2>7. wire' = "open" /\ hstream'[s] \in {"on", "stopped"} => Preceded(l + 1, s)'
    <3>1. CASE hstream[s] \in {"on", "stopped"}
      BY <2>5, <2>6, <3>1
    <3>2. CASE type = "Response" /\ d = s /\ ok
      <4>1. l \in 1..((l + 1) - 1)
        BY <2>0, <2>l
      <4>2. Installs(l, s)'
        BY <2>1, <3>2 DEF Installs, IsAnswer
      <4> QED
        BY <4>1, <4>2 DEF Preceded
    <3> QED
      BY <3>1, <3>2
  <2>8. ASSUME NEW n \in 1..Len(toClient)', IsData(n, s)'
        PROVE  Attached(s)' /\ (reader' = "reading" => Preceded(n, s)')
    <3>1. CASE n \in 1..Len(toClient)
      <4>1. n \in 1..l
        BY <2>0, <2>l, <3>1
      <4>2. IsData(n, s)
        BY <2>3, <2>8, <3>1
      <4>3. Attached(s) /\ (reader = "reading" => Preceded(n, s))
        BY <3>1, <4>2 DEF StreamOK
      <4> QED
        BY <2>2, <2>4, <4>1, <4>3
    <3>2. CASE n = l
      <4>1. type = "Data" /\ d = s
        BY <2>1, <2>8, <3>2 DEF IsData
      <4> QED
        BY <2>6, <3>2, <4>1
    <3> QED
      BY <2>1, <3>1, <3>2
  <2>9. wire' = "open" /\ hstream'[s] \in {"on", "stopped"} => Preceded(Len(toClient) + 1, s)'
    BY <2>m, <2>7 DEF Preceded
  <2> QED
    BY <2>2, <2>9, <2>8 DEF StreamOK
<1> QED
  BY <1>1, <1>2

LEMMA StreamStep ==
  ASSUME TypeOK, CallOK, AskOK, AwaitedOK, OrderOK, [Next]_vars, NEW s \in Call
  PROVE  StreamOK(s)'
<1> USE MuxRequestsAssumption DEF client, host
<1>s. /\ StreamOK(s) /\ hstream \in [Call -> {"none", "waiting", "on", "stopped"}]
      /\ tail \in [Call -> {"open", "lagged", "closed"}]
  BY DEF OrderOK, TypeOK
<1>k. ASSUME toClient' = toClient, hstream' = hstream, wire' = wire, reader' = "reading" => reader = "reading",
             streams \subseteq streams'
      PROVE  StreamOK(s)'
  BY <1>s, <1>k, StreamKept
<1>1. ASSUME NEW c \in Call, ForgetStream(c) PROVE StreamOK(s)'
  <2>1. CASE call[c].of = s
    <3>1. answer[c] = "ok" /\ call[c].of # None
      BY <1>1, <2>1 DEF ForgetStream, CallOK
    <3>2. hstream[s] = "none" /\ \A n \in 1..Len(toClient) : ~IsData(n, s)
      BY <2>1, <3>1 DEF OrderOK, JoinedOK
    <3>3. hstream' = hstream /\ toClient' = toClient
      BY <1>1 DEF ForgetStream
    <3> QED
      BY <3>2, <3>3 DEF StreamOK, IsData
  <2>2. CASE call[c].of # s
    <3>1. /\ toClient' = toClient /\ hstream' = hstream /\ wire' = wire /\ reader' = reader
          /\ s \in streams => s \in streams'
      BY <1>1, <2>2 DEF ForgetStream
    <3> QED
      BY <1>s, <3>1, StreamKept
  <2> QED
    BY <2>1, <2>2
<1>2. CASE CloseStreams
  <2>1. /\ toClient' = toClient /\ hstream' = hstream /\ wire' = wire /\ reader' # "reading"
        /\ s \in streams => tail'[s] # "open"
    BY <1>2 DEF CloseStreams
  <2> QED
    BY <1>s, <2>1, StreamKept DEF GaveUp
<1>3. CASE DispatchResponse \/ DispatchData \/ DispatchEvent
  <2>1. /\ toClient # << >> /\ toClient' = Tail(toClient)
        /\ hstream' = hstream /\ wire' = wire /\ reader' = reader
    BY <1>3 DEF DispatchResponse, DispatchData, DispatchEvent, Reads
  <2>2. /\ Len(toClient) \in Nat /\ Len(toClient)' \in Nat /\ Len(toClient)' + 1 = Len(toClient)
        /\ \A k \in 1..Len(toClient)' : toClient'[k] = toClient[k + 1] /\ k + 1 \in 1..Len(toClient)
    BY <2>1, FramesRead
  <2>3. Attached(s) => Attached(s)'
    BY CallMoves DEF Attached
  <2>4. ASSUME NEW n \in 1..(Len(toClient)' + 1), Preceded(n + 1, s), Attached(s) PROVE Preceded(n, s)'
    BY <1>3, <2>2, <2>4, PrecededRead
  <2>5. wire' = "open" /\ hstream'[s] \in {"on", "stopped"} => Preceded(Len(toClient) + 1, s)'
    <3>0. PICK l \in Nat : l = Len(toClient)' /\ l + 1 = Len(toClient)
      BY <2>2
    <3>1. wire = "open" /\ hstream[s] \in {"on", "stopped"} => Preceded((l + 1) + 1, s) /\ Attached(s)
      BY <1>s, <3>0 DEF StreamOK
    <3>2. l + 1 \in 1..(Len(toClient)' + 1)
      BY <3>0
    <3>3. wire' = "open" /\ hstream'[s] \in {"on", "stopped"} => Preceded(l + 1, s)'
      BY <2>1, <2>4, <3>1, <3>2
    <3> QED
      BY <3>0, <3>3 DEF Preceded
  <2>6. ASSUME NEW n \in 1..Len(toClient)', IsData(n, s)'
        PROVE  Attached(s)' /\ (reader' = "reading" => Preceded(n, s)')
    <3>1. n + 1 \in 1..Len(toClient) /\ IsData(n + 1, s) /\ n \in 1..(Len(toClient)' + 1)
      BY <2>2, <2>6 DEF IsData
    <3> QED
      BY <1>s, <2>1, <2>3, <2>4, <3>1 DEF StreamOK
  <2> QED
    BY <1>s, <2>1, <2>3, <2>5, <2>6 DEF StreamOK
<1>4. CASE Cut
  <2>1. /\ wire' = "cut" /\ hstream' = hstream /\ reader' = reader /\ streams' = streams
    BY <1>4 DEF Cut
  <2>2. /\ Len(toClient) \in Nat /\ Len(toClient)' \in Nat
        /\ \A k \in 1..Len(toClient)' : toClient'[k] = toClient[k] /\ k \in 1..Len(toClient)
    BY <1>4, FramesCut
  <2>3. Attached(s) => Attached(s)'
    BY CallMoves DEF Attached
  <2>4. ASSUME NEW n \in 1..Len(toClient)', IsData(n, s)'
        PROVE  Attached(s)' /\ (reader' = "reading" => Preceded(n, s)')
    <3>1. n \in 1..Len(toClient) /\ IsData(n, s) /\ n \in Nat /\ \A j \in 1..(n - 1) : j \in 1..Len(toClient)'
      BY <2>2, <2>4 DEF IsData
    <3>2. \A j \in 1..(n - 1) : Installs(j, s) => Installs(j, s)'
      BY <2>2, <3>1 DEF Installs, IsAnswer
    <3>3. Preceded(n, s) => Preceded(n, s)'
      BY <2>1, <3>1, <3>2, PrecededKept
    <3> QED
      BY <1>s, <2>1, <2>3, <3>1, <3>3 DEF StreamOK
  <2> QED
    BY <1>s, <2>1, <2>3, <2>4 DEF StreamOK
<1>5. CASE ConnGone
  BY <1>s, <1>5, StreamKept DEF ConnGone
<1>6. CASE ConnEnds
  <2>1. /\ toClient' = toClient /\ wire' = wire /\ reader' = reader /\ streams' = streams
        /\ hstream'[s] # "none" => hstream[s] # "none"
        /\ hstream'[s] \in {"on", "stopped"} => hstream[s] \in {"on", "stopped"}
    BY <1>6 DEF ConnEnds, StopsForwarders
  <2> QED
    BY <1>s, <2>1, StreamKept
<1>7. CASE HostRefuses
  <2>1. /\ Sends("Response", None, FALSE) /\ wire' = wire /\ reader' = reader /\ streams' = streams
        /\ hstream'[s] # "none" => hstream[s] # "none"
        /\ hstream'[s] \in {"on", "stopped"} => hstream[s] \in {"on", "stopped"}
    BY <1>7 DEF HostRefuses, StopsForwarders
  <2> QED
    BY <1>s, <2>1, StreamSent
<1>8. CASE HostReads
  <2> DEFINE r == Head(toHost)
  <2>1. /\ toHost # << >> /\ toClient' = toClient /\ wire' = wire /\ reader' = reader /\ streams' = streams
        /\ \/ hstream' = hstream
           \/ r.kind = "attach" /\ hstream' = [hstream EXCEPT ![r.id] = "waiting"]
           \/ hstream[r.of] = "on" /\ hstream' = [hstream EXCEPT ![r.of] = "stopped"]
    BY <1>8 DEF HostReads
  <2>2. r.kind = "attach" /\ r.id = s => Attached(s)
    <3>1. r = toHost[1] /\ 1 \in 1..Len(toHost)
      BY <2>1, Tailed DEF TypeOK
    <3>2. ASSUME r.kind = "attach", r.id = s PROVE Attached(s)
      <4>1. call[s].kind = "attach"
        BY <3>1, <3>2 DEF AskOK, KindOK
      <4>2. Queued(s)
        BY <3>1, <3>2 DEF Queued
      <4> QED
        BY <4>1, <4>2 DEF AwaitedOK, Asked, Attached
    <3> QED
      BY <3>2
  <2> HIDE DEF r
  <2>3. /\ hstream'[s] # "none" => hstream[s] # "none" \/ Attached(s)
        /\ hstream'[s] \in {"on", "stopped"} => hstream[s] \in {"on", "stopped"}
    BY <1>s, <2>1, <2>2
  <2> QED
    BY <1>s, <2>1, <2>3, StreamKept
<1>9. CASE HostAnswers
  <2>1. /\ serving.busy /\ Sends("Response", serving.id, serving.ok)
        /\ wire' = wire /\ reader' = reader /\ streams' = streams
        /\ hstream' = IF serving.kind = "attach" /\ serving.ok
             THEN [hstream EXCEPT ![serving.id] = IF wire = "open" THEN "on" ELSE "none"] ELSE hstream
    BY <1>9 DEF HostAnswers
  <2>2. serving.id = s /\ serving.kind = "attach" => Attached(s)
    BY <2>1 DEF AskOK, KindOK, AwaitedOK, Asked, Served, Attached
  <2>3. /\ hstream'[s] # "none" => hstream[s] # "none" \/ Attached(s)
        /\ hstream'[s] \in {"on", "stopped"} =>
             hstream[s] \in {"on", "stopped"} \/ (serving.id = s /\ serving.ok /\ wire = "open")
    BY <1>s, <2>1, <2>2
  <2>4. serving.id \in Call \cup {None} /\ serving.ok \in BOOLEAN
    BY DEF TypeOK
  <2> QED
    BY <1>s, <2>1, <2>3, <2>4, StreamSent
<1>10. ASSUME NEW c \in Call, WorkerAnswers(c) PROVE StreamOK(s)'
  <2>1. PICK ok \in BOOLEAN : Sends("Response", c, ok)
    BY <1>10 DEF WorkerAnswers
  <2>2. wire' = wire /\ reader' = reader /\ streams' = streams /\ hstream' = hstream
    BY <1>10 DEF WorkerAnswers
  <2> QED
    BY <1>s, <2>1, <2>2, StreamSent
<1>11. ASSUME NEW c \in Call, Forward(c) \/ ForwardLagged(c) \/ Publish(c) PROVE StreamOK(s)'
  <2>1. /\ wire' = wire /\ reader' = reader /\ streams' = streams
        /\ hstream' = hstream \/ hstream' = [hstream EXCEPT ![c] = "none"]
        /\ \/ Sends("Data", c, TRUE) /\ hstream[c] \in {"on", "stopped"}
           \/ Sends("Lagged", c, TRUE) \/ Sends("Event", c, TRUE)
    BY <1>11 DEF Forward, ForwardLagged, Publish
  <2>2. /\ hstream'[s] # "none" => hstream[s] # "none"
        /\ hstream'[s] \in {"on", "stopped"} => hstream[s] \in {"on", "stopped"}
    BY <1>s, <2>1
  <2>3. CASE Sends("Data", c, TRUE) /\ hstream[c] \in {"on", "stopped"}
    BY <1>s, <2>1, <2>2, <2>3, StreamSent
  <2>4. CASE Sends("Lagged", c, TRUE) \/ Sends("Event", c, TRUE)
    BY <1>s, <2>1, <2>2, <2>4, StreamSent
  <2> QED
    BY <2>1, <2>3, <2>4
<1>12. ASSUME NEW c \in Call, ForwarderEnds(c) PROVE StreamOK(s)'
  <2>1. /\ toClient' = toClient /\ wire' = wire /\ reader' = reader /\ streams' = streams
        /\ hstream' = [hstream EXCEPT ![c] = "none"]
    BY <1>12 DEF ForwarderEnds
  <2>2. /\ hstream'[s] # "none" => hstream[s] # "none"
        /\ hstream'[s] \in {"on", "stopped"} => hstream[s] \in {"on", "stopped"}
    BY <1>s, <2>1
  <2> QED
    BY <1>s, <2>1, <2>2, StreamKept
<1>13. ASSUME NEW c \in Call,
              Begin(c) \/ Register(c) \/ Write(c) \/ Answered(c) \/ TimesOut(c) \/ GivesUp(c)
              \/ SendInput(c) \/ DropReceiver(c) \/ FailPending(c)
       PROVE  StreamOK(s)'
  BY <1>k, <1>13 DEF Begin, Register, Write, Answered, TimesOut, GivesUp, SendInput, DropReceiver, FailPending
<1>14. CASE Finish \/ TakePending \/ DetachThread \/ UNCHANGED vars
  BY <1>k, <1>14 DEF Finish, TakePending, DetachThread, vars
<1> QED
  BY <1>1, <1>2, <1>3, <1>4, <1>5, <1>6, <1>7, <1>8, <1>9, <1>10, <1>11, <1>12, <1>13, <1>14,
     Zenon DEF Next, CallerStep, ReaderStep, HostStep

(* What a step does to the frames on their way. *)
LEMMA FramesMove ==
  ASSUME TypeOK, [Next]_vars
  PROVE  \/ toClient' = toClient
         \/ toClient # << >> /\ toClient' = Tail(toClient)
         \/ Cut
         \/ /\ wire = "open"
            /\ \E type \in {"Response", "Data", "Lagged", "Event"}, c \in Call \cup {None}, ok \in BOOLEAN :
                 /\ Sends(type, c, ok)
                 /\ type = "Data" => c \in Call /\ hstream[c] \in {"on", "stopped"}
                 /\ type = "Response" =>
                      (c = None \/ (HostAnswers /\ c = serving.id /\ ok = serving.ok) \/ c \in workers)
<1> USE DEF client, host
<1> DEFINE Sent == \E type \in {"Response", "Data", "Lagged", "Event"}, c \in Call \cup {None}, ok \in BOOLEAN :
                     /\ Sends(type, c, ok)
                     /\ type = "Data" => c \in Call /\ hstream[c] \in {"on", "stopped"}
                     /\ type = "Response" =>
                          (c = None \/ (HostAnswers /\ c = serving.id /\ ok = serving.ok) \/ c \in workers)
<1>1. ASSUME NEW d \in Call,
             Begin(d) \/ Register(d) \/ Write(d) \/ Answered(d) \/ TimesOut(d) \/ GivesUp(d)
             \/ ForgetStream(d) \/ SendInput(d) \/ DropReceiver(d) \/ FailPending(d) \/ ForwarderEnds(d)
      PROVE  toClient' = toClient
  BY <1>1 DEF Begin, Register, Write, Answered, TimesOut, GivesUp, ForgetStream, SendInput,
       DropReceiver, FailPending, ForwarderEnds
<1>2. ASSUME Finish \/ TakePending \/ CloseStreams \/ DetachThread
             \/ HostReads \/ ConnGone \/ ConnEnds \/ UNCHANGED vars
      PROVE  toClient' = toClient
  BY <1>2 DEF CloseStreams, Finish, TakePending, DetachThread, HostReads, ConnGone, ConnEnds, vars
<1>3. ASSUME DispatchResponse \/ DispatchData \/ DispatchEvent
      PROVE  toClient # << >> /\ toClient' = Tail(toClient)
  BY <1>3 DEF DispatchResponse, DispatchData, DispatchEvent, Reads
<1>4. ASSUME NEW d \in Call, WorkerAnswers(d) PROVE Sent
  BY <1>4 DEF WorkerAnswers
<1>5. ASSUME NEW d \in Call, Forward(d) \/ ForwardLagged(d) \/ Publish(d) PROVE Sent
  BY <1>5 DEF Forward, ForwardLagged, Publish
<1>6. ASSUME HostRefuses PROVE Sent
  BY <1>6 DEF HostRefuses
<1>7. ASSUME HostAnswers PROVE Sent
  <2>1. Sends("Response", serving.id, serving.ok)
    BY <1>7 DEF HostAnswers
  <2>2. serving.id \in Call \cup {None} /\ serving.ok \in BOOLEAN
    BY DEF TypeOK
  <2> QED
    BY <1>7, <2>1, <2>2
<1>8. Sent => toClient' = toClient \/ (wire = "open" /\ Sent)
  BY DEF Sends
<1> HIDE DEF Sent
<1>9. \/ toClient' = toClient \/ (toClient # << >> /\ toClient' = Tail(toClient)) \/ Cut \/ Sent
  BY <1>1, <1>2, <1>3, <1>4, <1>5, <1>6, <1>7, Zenon DEF Next, CallerStep, ReaderStep, HostStep
<1> QED
  BY <1>8, <1>9 DEF Sent

(* The forwarder of a stream is made for its attach, which is under way. *)
LEMMA ForwarderMade ==
  ASSUME TypeOK, [Next]_vars, NEW s \in Call, hstream[s] = "none", ~Asked(s)
  PROVE  hstream'[s] = "none"
<1> USE DEF client, host
<1>t. hstream \in [Call -> {"none", "waiting", "on", "stopped"}]
  BY DEF TypeOK
<1>1. ASSUME NEW d \in Call,
             Begin(d) \/ Register(d) \/ Write(d) \/ Answered(d) \/ TimesOut(d) \/ GivesUp(d)
             \/ ForgetStream(d) \/ SendInput(d) \/ DropReceiver(d) \/ FailPending(d)
             \/ WorkerAnswers(d) \/ Publish(d)
      PROVE  hstream' = hstream
  BY <1>1 DEF Begin, Register, Write, Answered, TimesOut, GivesUp, ForgetStream, SendInput,
       DropReceiver, FailPending, WorkerAnswers, Publish
<1>2. ASSUME DispatchResponse \/ DispatchData \/ DispatchEvent \/ Finish \/ TakePending \/ CloseStreams
             \/ DetachThread \/ ConnGone \/ Cut \/ UNCHANGED vars
      PROVE  hstream' = hstream
  BY <1>2 DEF DispatchResponse, DispatchData, DispatchEvent, CloseStreams, Finish, TakePending,
       DetachThread, ConnGone, Cut, vars
<1>3. ASSUME NEW d \in Call, Forward(d) \/ ForwardLagged(d) \/ ForwarderEnds(d) PROVE hstream'[s] = "none"
  BY <1>t, <1>3 DEF Forward, ForwardLagged, ForwarderEnds
<1>4. ASSUME HostRefuses \/ ConnEnds PROVE hstream'[s] = "none"
  BY <1>t, <1>4 DEF HostRefuses, ConnEnds, StopsForwarders
<1>5. ASSUME HostReads PROVE hstream'[s] = "none"
  <2>1. Head(toHost) = toHost[1] /\ 1 \in 1..Len(toHost)
    BY <1>5, Tailed DEF HostReads, TypeOK
  <2>2. Head(toHost).id # s
    BY <2>1 DEF Asked, Queued
  <2>3. \/ hstream' = hstream \/ hstream' = [hstream EXCEPT ![Head(toHost).id] = "waiting"]
        \/ /\ hstream[Head(toHost).of] = "on"
           /\ hstream' = [hstream EXCEPT ![Head(toHost).of] = "stopped"]
    BY <1>5 DEF HostReads
  <2> QED
    BY <1>t, <2>2, <2>3
<1>6. ASSUME HostAnswers PROVE hstream'[s] = "none"
  <2>1. serving.id # s
    BY <1>6 DEF HostAnswers, Asked, Served
  <2> QED
    BY <1>t, <1>6, <2>1 DEF HostAnswers
<1>7. hstream' = hstream => hstream'[s] = "none"
  OBVIOUS
<1> QED
  BY <1>1, <1>2, <1>3, <1>4, <1>5, <1>6, <1>7, Zenon DEF Next, CallerStep, ReaderStep, HostStep

(* A call that has not begun is not asked and not answered by any step. *)
LEMMA IdleUnasked ==
  ASSUME TypeOK, CallOK, AskOK, AwaitedOK, [Next]_vars, NEW c \in Call, call[c].at = "idle"
  PROVE  ~Asked(c)' /\ answer'[c] # "ok"
<1>1. ~Asked(c) /\ answer[c] = "none"
  BY DEF AwaitedOK, CallOK
<1>2. ~Write(c)
  BY DEF Write
<1>3. ~Asked(c)'
  BY <1>1, <1>2, PlaceStep
<1>4. answer'[c] # "ok"
  BY <1>1, NewlyAnswered DEF Asked, Responded, Installs
<1> QED
  BY <1>3, <1>4

(* Nothing left: no forwarder, and no data on its way. *)
Joined(s) == hstream[s] = "none" /\ \A n \in 1..Len(toClient) : ~IsData(n, s)

LEMMA JoinedStays ==
  ASSUME TypeOK, [Next]_vars, NEW s \in Call, Joined(s), ~Asked(s)
  PROVE  Joined(s)'
<1>1. hstream'[s] = "none"
  BY ForwarderMade DEF Joined
<1>2. ASSUME NEW n \in 1..Len(toClient)', IsData(n, s)' PROVE FALSE
  <2>1. CASE toClient' = toClient
    BY <1>2, <2>1 DEF Joined, IsData
  <2>2. CASE toClient # << >> /\ toClient' = Tail(toClient)
    <3>1. toClient'[n] = toClient[n + 1] /\ n + 1 \in 1..Len(toClient)
      BY <2>2, FramesRead
    <3> QED
      BY <1>2, <3>1 DEF Joined, IsData
  <2>3. CASE Cut
    <3>1. toClient'[n] = toClient[n] /\ n \in 1..Len(toClient)
      BY <2>3, FramesCut
    <3> QED
      BY <1>2, <3>1 DEF Joined, IsData
  <2>4. ASSUME wire = "open", NEW type \in {"Response", "Data", "Lagged", "Event"},
               NEW c \in Call \cup {None}, NEW ok \in BOOLEAN, Sends(type, c, ok),
               type = "Data" => c \in Call /\ hstream[c] \in {"on", "stopped"}
        PROVE  FALSE
    <3>1. /\ toClient'[Len(toClient) + 1].type = type /\ toClient'[Len(toClient) + 1].of = c
          /\ \A k \in 1..Len(toClient) : toClient'[k] = toClient[k]
          /\ n \in 1..Len(toClient) \/ n = Len(toClient) + 1
      BY <2>4, FramesSent
    <3> QED
      BY <1>2, <2>4, <3>1 DEF Joined, IsData
  <2> QED
    BY <2>1, <2>2, <2>3, <2>4, FramesMove
<1> QED
  BY <1>1, <1>2 DEF Joined

LEMMA JoinedStep ==
  ASSUME TypeOK, CallOK, AskOK, AwaitedOK, OrderOK, [Next]_vars, NEW d \in Call, call'[d].of # None
  PROVE  JoinedOK(d, call[d].of)'
<1>1. CASE call[d].at = "idle"
  BY <1>1, IdleUnasked DEF JoinedOK, Asked, Responded, Installs
<1>2. CASE call[d].at # "idle"
  <2>1. PICK s \in Call : s = call[d].of /\ call'[d].of = s
    BY <1>2, CallMoves DEF TypeOK, CallState
  <2>2. call[d].kind = "detach" /\ call[s].at = "ok" /\ JoinedOK(d, s)
    BY <2>1, MuxRequestsAssumption DEF CallOK, OrderOK
  <2>3. ~Asked(s)
    BY <2>2 DEF CallOK, AwaitedOK
  <2>4. answer'[d] = "ok" => Joined(s)'
    <3>1. CASE answer[d] = "ok"
      BY <2>2, <2>3, <3>1, JoinedStays DEF JoinedOK, Joined
    <3>2. ASSUME answer[d] # "ok", answer'[d] = "ok" PROVE Joined(s)'
      <4>1. Installs(1, d) /\ 1 \in 1..Len(toClient)
        BY <3>2, NewlyAnswered
      <4>2. \A n \in 1..Len(toClient) : ~(n < 1)
        BY DEF TypeOK
      <4>3. Joined(s)
        BY <2>2, <4>1, <4>2 DEF JoinedOK, Joined
      <4> QED
        BY <2>3, <4>3, JoinedStays
    <3> QED
      BY <3>1, <3>2
  <2>5. ASSUME NEW j \in 1..Len(toClient)', Installs(j, d)'
        PROVE  hstream'[s] = "none" /\ \A n \in 1..Len(toClient)' : IsData(n, s)' => n < j
    <3>1. CASE toClient' = toClient
      <4>1. j \in 1..Len(toClient) /\ Installs(j, d)
        BY <2>5, <3>1 DEF Installs, IsAnswer
      <4> QED
        BY <2>2, <2>3, <3>1, <4>1, ForwarderMade DEF JoinedOK, IsData
    <3>2. CASE toClient # << >> /\ toClient' = Tail(toClient)
      <4>1. /\ \A k \in 1..Len(toClient)' : toClient'[k] = toClient[k + 1] /\ k + 1 \in 1..Len(toClient)
            /\ \A k \in 1..Len(toClient)' : k + 1 < j + 1 => k < j
        BY <3>2, FramesRead
      <4>2. j + 1 \in 1..Len(toClient) /\ Installs(j + 1, d)
        BY <2>5, <4>1 DEF Installs, IsAnswer
      <4>3. hstream[s] = "none" /\ \A n \in 1..Len(toClient) : IsData(n, s) => n < j + 1
        BY <2>2, <4>2 DEF JoinedOK
      <4>4. \A n \in 1..Len(toClient)' : IsData(n, s)' => n < j
        BY <4>1, <4>3 DEF IsData
      <4> QED
        BY <2>3, <4>3, <4>4, ForwarderMade
    <3>3. CASE Cut
      <4>1. \A k \in 1..Len(toClient)' : toClient'[k] = toClient[k] /\ k \in 1..Len(toClient)
        BY <3>3, FramesCut
      <4>2. j \in 1..Len(toClient) /\ Installs(j, d)
        BY <2>5, <4>1 DEF Installs, IsAnswer
      <4>3. hstream[s] = "none" /\ \A n \in 1..Len(toClient) : IsData(n, s) => n < j
        BY <2>2, <4>2 DEF JoinedOK
      <4>4. \A n \in 1..Len(toClient)' : IsData(n, s)' => n < j
        BY <4>1, <4>3 DEF IsData
      <4> QED
        BY <2>3, <4>3, <4>4, ForwarderMade
    <3>4. ASSUME wire = "open", NEW type \in {"Response", "Data", "Lagged", "Event"},
                 NEW c \in Call \cup {None}, NEW ok \in BOOLEAN, Sends(type, c, ok),
                 type = "Data" => c \in Call /\ hstream[c] \in {"on", "stopped"},
                 type = "Response" =>
                   (c = None \/ (HostAnswers /\ c = serving.id /\ ok = serving.ok) \/ c \in workers)
          PROVE  hstream'[s] = "none" /\ \A n \in 1..Len(toClient)' : IsData(n, s)' => n < j
      <4>0. PICK l \in Nat : l = Len(toClient) + 1
        BY DEF TypeOK
      <4>1. /\ toClient'[l].type = type /\ toClient'[l].of = c /\ toClient'[l].ok = ok
            /\ \A k \in 1..Len(toClient) : toClient'[k] = toClient[k]
            /\ \A k : k \in 1..Len(toClient)' <=> k \in 1..Len(toClient) \/ k = l
        BY <3>4, <4>0, FramesSent
      <4>2. hstream[s] = "none" => hstream'[s] = "none"
        BY <2>3, ForwarderMade
      <4>3. hstream[s] = "none" => ~IsData(l, s)'
        BY <3>4, <4>1 DEF IsData
      <4>4. \A k \in 1..Len(toClient) : IsData(k, s)' <=> IsData(k, s)
        BY <4>1 DEF IsData
      <4>5. CASE j \in 1..Len(toClient)
        <5>1. Installs(j, d)
          BY <2>5, <4>1, <4>5 DEF Installs, IsAnswer
        <5>2. hstream[s] = "none" /\ \A n \in 1..Len(toClient) : IsData(n, s) => n < j
          BY <2>2, <4>5, <5>1 DEF JoinedOK
        <5> QED
          BY <4>1, <4>2, <4>3, <4>4, <5>2
      <4>6. CASE j = l
        <5>1. type = "Response" /\ c = d /\ ok
          BY <2>5, <4>1, <4>6 DEF Installs, IsAnswer
        <5>2. d \notin workers /\ d # None
          BY <2>2, MuxRequestsAssumption DEF AskOK, KindOK
        <5>3. HostAnswers /\ serving.id = d /\ serving.ok
          BY <3>4, <5>1, <5>2
        <5>4. serving.kind = "detach" /\ serving.of = s
          BY <2>1, <2>2, <5>2, <5>3 DEF AskOK, KindOK, HostAnswers
        <5>5. hstream[s] = "none"
          BY <5>3, <5>4 DEF HostAnswers
        <5>6. \A n \in 1..Len(toClient) : n < l
          BY <4>0 DEF TypeOK
        <5> QED
          BY <4>1, <4>2, <4>3, <4>6, <5>5, <5>6
      <4> QED
        BY <4>1, <4>5, <4>6
    <3> QED
      BY <3>1, <3>2, <3>3, <3>4, FramesMove
  <2> QED
    BY <2>1, <2>4, <2>5 DEF JoinedOK, Joined
<1> QED
  BY <1>1, <1>2

LEMMA OrderStep ==
  ASSUME TypeOK, CallOK, AskOK, AwaitedOK, OrderOK, [Next]_vars
  PROVE  OrderOK'
<1>1. ASSUME NEW n \in 1..Len(toClient)', toClient'[n].type = "Data" PROVE toClient'[n].of \in Call
  <2>1. CASE toClient' = toClient
    BY <1>1, <2>1 DEF OrderOK
  <2>2. CASE toClient # << >> /\ toClient' = Tail(toClient)
    <3>1. toClient'[n] = toClient[n + 1] /\ n + 1 \in 1..Len(toClient)
      BY <2>2, FramesRead
    <3> QED
      BY <1>1, <3>1 DEF OrderOK
  <2>3. CASE Cut
    <3>1. toClient'[n] = toClient[n] /\ n \in 1..Len(toClient)
      BY <2>3, FramesCut
    <3> QED
      BY <1>1, <3>1 DEF OrderOK
  <2>4. ASSUME wire = "open", NEW type \in {"Response", "Data", "Lagged", "Event"},
               NEW c \in Call \cup {None}, NEW ok \in BOOLEAN, Sends(type, c, ok),
               type = "Data" => c \in Call
        PROVE  toClient'[n].of \in Call
    <3>1. /\ toClient'[Len(toClient) + 1].type = type /\ toClient'[Len(toClient) + 1].of = c
          /\ \A k \in 1..Len(toClient) : toClient'[k] = toClient[k]
          /\ n \in 1..Len(toClient) \/ n = Len(toClient) + 1
      BY <2>4, FramesSent
    <3> QED
      BY <1>1, <2>4, <3>1 DEF OrderOK
  <2> QED
    BY <2>1, <2>2, <2>3, <2>4, FramesMove
<1> QED
  BY <1>1, StreamStep, JoinedStep DEF OrderOK

-----------------------------------------------------------------------------
(* KeptOK. *)

(* A subscription becomes known to the host with the request that makes it, and
   stays so while the connection is there. *)
LEMMA SubscriberStays ==
  ASSUME TypeOK, AskOK, [Next]_vars, NEW c \in Call, wire' = "open"
  PROVE  /\ wire = "open" /\ hsubs \subseteq hsubs'
         /\ (Served(c)' \/ Responded(c)') /\ call[c].kind = "subscribe" =>
              Served(c) \/ Responded(c) \/ c \in hsubs'
<1> USE MuxRequestsAssumption DEF client, host
<1>1. ASSUME NEW d \in Call,
             Begin(d) \/ Register(d) \/ Write(d) \/ Answered(d) \/ TimesOut(d) \/ GivesUp(d)
             \/ ForgetStream(d) \/ SendInput(d) \/ DropReceiver(d) \/ FailPending(d)
             \/ WorkerAnswers(d) \/ Forward(d) \/ ForwardLagged(d) \/ ForwarderEnds(d)
      PROVE  wire' = wire /\ hsubs' = hsubs /\ serving' = serving
  BY <1>1 DEF Begin, Register, Write, Answered, TimesOut, GivesUp, ForgetStream, SendInput,
       DropReceiver, FailPending, WorkerAnswers, Forward, ForwardLagged, ForwarderEnds
<1>2. ASSUME DispatchResponse \/ DispatchData \/ DispatchEvent \/ Finish \/ TakePending \/ CloseStreams
             \/ DetachThread \/ HostRefuses \/ ConnEnds \/ UNCHANGED vars
      PROVE  wire' = wire /\ hsubs' = hsubs /\ serving' = serving
  BY <1>2 DEF DispatchResponse, DispatchData, DispatchEvent, CloseStreams, Finish, TakePending,
       DetachThread, HostRefuses, ConnEnds, vars
<1>3. ~Cut /\ ~ConnGone
  BY DEF Cut, ConnGone
<1>4. ASSUME NEW d \in Call, Publish(d)
      PROVE  wire' = wire /\ (wire = "open" => hsubs' = hsubs) /\ serving' = serving
  BY <1>4 DEF Publish
<1>5. ASSUME HostAnswers PROVE wire' = wire /\ hsubs' = hsubs /\ ~Served(c)'
  BY <1>5 DEF HostAnswers, Served, Nobody
<1>6. ASSUME HostReads
      PROVE  /\ wire' = wire /\ hsubs \subseteq hsubs'
             /\ Served(c)' /\ call[c].kind = "subscribe" => Served(c) \/ c \in hsubs'
  <2>1. Head(toHost) = toHost[1] /\ 1 \in 1..Len(toHost)
    BY <1>6, Tailed DEF HostReads, TypeOK
  <2>2. Head(toHost).id = c => Head(toHost).kind = call[c].kind
    BY <2>1 DEF AskOK, KindOK
  <2>3. /\ wire' = wire /\ hsubs \subseteq hsubs'
        /\ serving' = serving \/ serving'.id = Head(toHost).id
        /\ Head(toHost).kind = "subscribe" => Head(toHost).id \in hsubs'
    BY <1>6 DEF HostReads, Serves
  <2> QED
    BY <2>2, <2>3 DEF Served
<1>7. wire' = wire /\ hsubs \subseteq hsubs'
  BY <1>1, <1>2, <1>3, <1>4, <1>5, <1>6, Zenon DEF Next, CallerStep, ReaderStep, HostStep
<1>8. Served(c)' /\ call[c].kind = "subscribe" => Served(c) \/ c \in hsubs'
  <2>1. serving' = serving => (Served(c)' => Served(c))
    BY DEF Served
  <2> QED
    BY <1>1, <1>2, <1>3, <1>4, <1>5, <1>6, <2>1, Zenon DEF Next, CallerStep, ReaderStep, HostStep
<1>9. ASSUME Responded(c)', call[c].kind = "subscribe" PROVE Served(c) \/ Responded(c)
  <2>0. PICK n \in 1..Len(toClient)' : IsAnswer(n, c)'
    BY <1>9 DEF Responded
  <2>1. CASE toClient' = toClient
    BY <1>9, <2>1 DEF Responded, IsAnswer
  <2>2. CASE toClient # << >> /\ toClient' = Tail(toClient)
    <3>1. toClient'[n] = toClient[n + 1] /\ n + 1 \in 1..Len(toClient)
      BY <2>2, FramesRead
    <3> QED
      BY <2>0, <3>1 DEF Responded, IsAnswer
  <2>3. ASSUME NEW type \in {"Response", "Data", "Lagged", "Event"},
               NEW d \in Call \cup {None}, NEW ok \in BOOLEAN, Sends(type, d, ok),
               type = "Response" =>
                 (d = None \/ (HostAnswers /\ d = serving.id /\ ok = serving.ok) \/ d \in workers)
        PROVE  Served(c) \/ Responded(c)
    <3>1. Responded(c) \/ (type = "Response" /\ c = d)
      BY <1>9, <2>3, RespondedSend
    <3>2. c \notin workers /\ c # None
      BY <1>9 DEF AskOK, KindOK
    <3> QED
      BY <2>3, <3>1, <3>2 DEF HostAnswers, Served
  <2> QED
    BY <1>3, <2>1, <2>2, <2>3, FramesMove
<1> QED
  BY <1>7, <1>8, <1>9

(* A subscription leaves the reader's table when its receiver is gone, or with
   the connection. *)
LEMMA SubsMove ==
  ASSUME [Next]_vars, NEW c \in subs, reader' = "reading"
  PROVE  reader = "reading" /\ (c \in subs' \/ c \in dropped)
<1> USE DEF client, host
<1>1. ASSUME NEW d \in Call,
             Begin(d) \/ Register(d) \/ Write(d) \/ Answered(d) \/ TimesOut(d) \/ GivesUp(d)
             \/ ForgetStream(d) \/ SendInput(d) \/ DropReceiver(d) \/ FailPending(d)
             \/ WorkerAnswers(d) \/ Forward(d) \/ ForwardLagged(d) \/ ForwarderEnds(d) \/ Publish(d)
      PROVE  reader' = reader /\ subs \subseteq subs'
  BY <1>1 DEF Begin, Register, Write, Answered, TimesOut, GivesUp, ForgetStream, SendInput,
       DropReceiver, FailPending, WorkerAnswers, Forward, ForwardLagged, ForwarderEnds, Publish
<1>2. ASSUME DispatchResponse \/ DispatchData \/ DetachThread \/ HostReads \/ HostRefuses \/ HostAnswers
             \/ Cut \/ ConnGone \/ ConnEnds \/ UNCHANGED vars
      PROVE  reader' = reader /\ subs \subseteq subs'
  BY <1>2 DEF DispatchResponse, DispatchData, DetachThread, HostReads, HostRefuses, HostAnswers,
       Cut, ConnGone, ConnEnds, vars
<1>3. ASSUME DispatchEvent PROVE reader' = reader /\ (c \in subs' \/ c \in dropped)
  BY <1>3 DEF DispatchEvent
<1>4. ~Finish /\ ~TakePending /\ ~CloseStreams
  BY DEF Finish, TakePending, CloseStreams
<1> QED
  BY <1>1, <1>2, <1>3, <1>4, Zenon DEF Next, CallerStep, ReaderStep, HostStep

LEMMA ReaderStays ==
  ASSUME [Next]_vars, reader' = "reading"
  PROVE  reader = "reading"
<1> USE DEF client, host
<1>1. ASSUME NEW d \in Call,
             Begin(d) \/ Register(d) \/ Write(d) \/ Answered(d) \/ TimesOut(d) \/ GivesUp(d)
             \/ ForgetStream(d) \/ SendInput(d) \/ DropReceiver(d) \/ FailPending(d)
             \/ WorkerAnswers(d) \/ Forward(d) \/ ForwardLagged(d) \/ ForwarderEnds(d) \/ Publish(d)
      PROVE  reader' = reader
  BY <1>1 DEF Begin, Register, Write, Answered, TimesOut, GivesUp, ForgetStream, SendInput,
       DropReceiver, FailPending, WorkerAnswers, Forward, ForwardLagged, ForwarderEnds, Publish
<1>2. ASSUME DispatchResponse \/ DispatchData \/ DispatchEvent \/ DetachThread \/ HostReads \/ HostRefuses
             \/ HostAnswers \/ Cut \/ ConnGone \/ ConnEnds \/ UNCHANGED vars
      PROVE  reader' = reader
  BY <1>2 DEF DispatchResponse, DispatchData, DispatchEvent, DetachThread, HostReads, HostRefuses,
       HostAnswers, Cut, ConnGone, ConnEnds, vars
<1>3. ~Finish /\ ~TakePending /\ ~CloseStreams
  BY DEF Finish, TakePending, CloseStreams
<1> QED
  BY <1>1, <1>2, <1>3, Zenon DEF Next, CallerStep, ReaderStep, HostStep

LEMMA KeptStep ==
  ASSUME TypeOK, CallOK, AskOK, AwaitedOK, KeptOK, [Next]_vars
  PROVE  KeptOK'
<1> SUFFICES ASSUME NEW c \in Call
    PROVE  /\ call'[c].kind = "attach" /\ answer'[c] = "ok" /\ c \notin dropped' =>
                c \in streams' \/ tail'[c] # "open" \/ \E d \in Call : call'[d].of = c /\ call'[d].at = "ok"
           /\ (call'[c].kind = "subscribe" /\ answer'[c] = "ok" /\ c \notin dropped' /\ reader' = "reading") =>
                c \in subs'
           /\ (call'[c].kind = "subscribe" /\ wire' = "open"
               /\ (Served(c)' \/ Responded(c)' \/ answer'[c] = "ok")) => c \in hsubs'
  BY DEF KeptOK
<1>d. dropped \subseteq dropped' /\ (tail[c] # "open" => tail'[c] # "open")
  BY LastWordStays
<1>1. CASE call[c].at = "idle"
  BY <1>1, IdleUnasked DEF Asked
<1>2. CASE call[c].at # "idle"
  <2>0. call'[c].kind = call[c].kind
    BY <1>2, CallMoves
  <2>1. ASSUME call[c].kind = "attach", answer'[c] = "ok", c \notin dropped'
        PROVE  c \in streams' \/ tail'[c] # "open" \/ \E d \in Call : call'[d].of = c /\ call'[d].at = "ok"
    <3>1. CASE answer[c] = "ok"
      <4>1. c \in streams \/ tail[c] # "open" \/ \E d \in Call : call[d].of = c /\ call[d].at = "ok"
        BY <1>d, <2>1, <3>1 DEF KeptOK
      <4>2. c \in streams' \/ tail'[c] # "open" \/ \E d \in Call : call[d].of = c /\ call[d].at = "ok"
        BY <1>d, <2>1, <4>1, StreamsMove
      <4>3. \A d \in Call : call[d].at = "ok" => call'[d].at = "ok" /\ call'[d].of = call[d].of
        BY CallMoves
      <4> QED
        BY <4>2, <4>3
    <3>2. CASE answer[c] # "ok"
      BY <2>1, <3>2, NewlyAnswered DEF DispatchResponse
    <3> QED
      BY <3>1, <3>2
  <2>2. ASSUME call[c].kind = "subscribe", answer'[c] = "ok", c \notin dropped', reader' = "reading"
        PROVE  c \in subs'
    <3>1. CASE answer[c] = "ok"
      <4>1. c \in subs
        BY <1>d, <2>2, <3>1, ReaderStays DEF KeptOK
      <4> QED
        BY <1>d, <2>2, <4>1, SubsMove
    <3>2. CASE answer[c] # "ok"
      BY <2>2, <3>2, NewlyAnswered DEF DispatchResponse
    <3> QED
      BY <3>1, <3>2
  <2>3. ASSUME call[c].kind = "subscribe", wire' = "open", Served(c)' \/ Responded(c)' \/ answer'[c] = "ok"
        PROVE  c \in hsubs'
    <3>1. answer'[c] = "ok" => answer[c] = "ok" \/ Responded(c)
      BY NewlyAnswered DEF Responded, Installs
    <3>2. Served(c) \/ Responded(c) \/ answer[c] = "ok" \/ c \in hsubs'
      BY <2>3, <3>1, SubscriberStays
    <3> QED
      BY <2>3, <3>2, SubscriberStays DEF KeptOK
  <2> QED
    BY <2>0, <2>1, <2>2, <2>3
<1> QED
  BY <1>1, <1>2

-----------------------------------------------------------------------------
LEMMA InitOK ==
  ASSUME Init
  PROVE  IInv
<1> USE MuxRequestsAssumption DEF Init
<1>1. TypeOK
  BY DEF TypeOK, CallState, Nobody, Kind
<1>2. CallOK
  BY DEF CallOK
<1>3. \A c \in Call : ~Asked(c)
  <2>1. Len(toHost) = 0 /\ Len(toClient) = 0 /\ 1..0 = {} /\ ~serving.busy /\ workers = {}
    BY DEF Nobody
  <2> QED
    BY <2>1 DEF Asked, Queued, Served, Responded
<1>4. AskOK
  BY <1>3 DEF AskOK, KindOK, PlaceOK, Nobody, Asked
<1>5. AwaitedOK
  BY <1>3 DEF AwaitedOK
<1>6. OrderOK
  BY DEF OrderOK, StreamOK
<1>7. KeptOK
  BY <1>3 DEF KeptOK, Asked
<1> QED
  BY <1>1, <1>2, <1>4, <1>5, <1>6, <1>7 DEF IInv

LEMMA AskStep ==
  ASSUME TypeOK, CallOK, AskOK, AwaitedOK, [Next]_vars
  PROVE  AskOK'
BY KindStep, PlaceStep DEF AskOK

(* The inductive invariant: where each request is, what its caller and the
   reader know of it, and what its answer promises. *)
THEOREM IInvHolds == Spec => []IInv
<1>1. Init => IInv
  BY InitOK
<1>2. IInv /\ [Next]_vars => IInv'
  BY TypeStep, CallStep, AskStep, AwaitedStep, OrderStep, KeptStep DEF IInv
<1> QED
  BY <1>1, <1>2, PTL DEF Spec

(* Every variable of a connection keeps its type. *)
THEOREM TypeCorrect == Spec => []TypeOK
<1>1. IInv => TypeOK
  BY DEF IInv
<1> QED
  BY <1>1, IInvHolds, PTL

(* A call that reports a timeout was not answered: under the lock of pending it
   takes an answer that came meanwhile (mux.rs, call_with). *)
THEOREM NoAnswerThrownAwayHolds == Spec => []NoAnswerThrownAway
<1>1. IInv => NoAnswerThrownAway
  BY DEF IInv, CallOK, NoAnswerThrownAway
<1> QED
  BY <1>1, IInvHolds, PTL

(* A data frame the reader finds no stream for is of a stream its reader has
   given up: output neither overtakes the answer that installs its stream nor
   follows the answer to its detach (router.rs, after_response; mux.rs,
   dispatch_data). *)
THEOREM NoOrphanFrameHolds == Spec => []NoOrphanFrame
<1>1. ASSUME IInv PROVE NoOrphanFrame
  <2> SUFFICES ASSUME 1 \in 1..Len(toClient), reader = "reading", toClient[1].type = "Data",
                      toClient[1].of \notin streams
               PROVE  GaveUp(toClient[1].of)
    BY DEF NoOrphanFrame
  <2>1. toClient[1].of \in Call
    BY <1>1 DEF IInv, OrderOK
  <2>2. Preceded(1, toClient[1].of)
    BY <1>1, <2>1 DEF IInv, OrderOK, StreamOK, IsData
  <2>3. 1..(1 - 1) = {}
    OBVIOUS
  <2> QED
    BY <2>2, <2>3 DEF Preceded
<1> QED
  BY <1>1, IInvHolds, PTL

(* What attach and subscribe returned keeps its word: a stream is installed, or
   was told its end, or detached; a subscription is known to both ends while
   there is a connection (mux.rs, call_with, dispatch_data, finish). *)
THEOREM AnsweredIsServedHolds == Spec => []AnsweredIsServed
<1>1. ASSUME IInv PROVE AnsweredIsServed
  <2>1. \A c \in Call : call[c].at = "ok" => answer[c] = "ok"
    BY <1>1 DEF IInv, CallOK
  <2> QED
    BY <1>1, <2>1 DEF IInv, KeptOK, AnsweredIsServed
<1> QED
  BY <1>1, IInvHolds, PTL
=============================================================================
