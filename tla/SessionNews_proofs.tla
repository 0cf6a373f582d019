-------------------------- MODULE SessionNews_proofs --------------------------
(***************************************************************************)
(* Safety of SessionNews for every set of subscribers and programs and     *)
(* every bound.                                                            *)
(*                                                                         *)
(* An id is used again while its earlier sessions are still on their way   *)
(* to a subscriber, so that a queue holds events of many of them.  Its     *)
(* order is what counts (EventOK, QueueOK): a creation comes after all of  *)
(* the earlier sessions, and unless a pump was behind a close comes after  *)
(* all of its own.  What a subscriber told of an end is never told again   *)
(* (ToldOK); an exit and a program it has not told, or the close that      *)
(* makes it forget an older one, are on their way to it (EndOK,            *)
(* ProgramOK).                                                             *)
(***************************************************************************)
EXTENDS SessionNews, WellFoundedInduction, TLAPS

Holds(q, type) == \E n \in 1..Len(q) : q[n].type = type
IsLast(q, n, type) == q[n].type = type /\ \A m \in 1..Len(q) : m > n => q[m].type # type
ClosesAfter(q, n) == \E m \in 1..Len(q) : m > n /\ q[m].type = "Closed"

(* What an owner sent is its session's own, ends with the exit, and leaves the
   program as it is. *)
SentOK(i) ==
  /\ \A n \in 1..Len(session[i].sent) :
       /\ session[i].sent[n].inc = i /\ session[i].sent[n].type \in {"Program", "Exited"}
       /\ session[i].sent[n].type = "Exited" => session[i].exit
       /\ Running(i) /\ IsLast(session[i].sent, n, "Program") =>
            session[i].sent[n].program = session[i].program
  /\ session[i].exit /\ ~session[i].pump => Holds(session[i].sent, "Exited")
  /\ session[i].exit => session[i].program = None

(* A session is open while the table or its close has it, and the ones before it
   are closed. *)
HostOK ==
  /\ listed = None \/ closing = None
  /\ closing # None => session[closing].pump
  /\ \A i \in Inc :
       /\ session[i].state = "open" <=> i \in {listed, closing}
       /\ session[i].state = "closed" => session[i].pump
       /\ session[i].state = "unborn" => session[i] = Unborn
       /\ \A j \in Inc : i < j /\ session[j].state # "unborn" => session[i].state = "closed"
       /\ SentOK(i)

Gone == listed = None /\ closing = None

(* What subscriber k has yet to hear.  A creation is behind all of the sessions
   before it; and while no pump was behind, so is everything of a session, and
   no program is heard after its session's close. *)
EventOK(q, n) ==
  /\ session[q[n].inc].state # "unborn" /\ session[q[n].inc].pump
  /\ q[n].type = "Created" => \A m \in 1..Len(q) : m < n => q[m].inc < q[n].inc
  /\ q[n].type = "Exited" => session[q[n].inc].exit
  /\ q[n].type = "Closed" => session[q[n].inc].state = "closed"
  /\ ~behind => \A m \in 1..Len(q) : m < n => q[m].inc <= q[n].inc

QueueOK(k) ==
  /\ k.sub <=> k.phase \in {"subscribed", "listing", "listed", "up"}
  /\ k.phase \in {"off", "over"} => k.queue = << >>
  /\ \A n \in 1..Len(k.queue) : EventOK(k.queue, n)
  /\ k.sub /\ Gone /\ ~behind =>
       \A n \in 1..Len(k.queue) : k.queue[n].type = "Program" => ClosesAfter(k.queue, n)
  /\ k.phase = "listing" => /\ k.at # None
                            /\ session[k.at].state = "closed" => Holds(k.queue, "Closed")
                            /\ \A i \in Inc : i > k.at /\ session[i].pump => Holds(k.queue, "Created")
  /\ k.phase = "listed" /\ Gone => Holds(k.queue, "Closed")
  /\ k.at # None => session[k.at].state # "unborn"

(* Session i, whose end listener k told, has ended; and what could let it be told
   again, a listing or the creation of i or of one before it, is past. *)
Past(k, i) == k.at # None /\ i <= k.at
EndedOK(k, i) ==
  /\ session[i].state # "unborn" /\ (session[i].exit \/ session[i].state = "closed")
  /\ ~k.ended => k.at # None /\ i < k.at
  /\ k.phase = "listing" => i <= k.at /\ (i = k.at => session[i].exit)
  /\ session[i].pump \/ Past(k, i)
  /\ \A n \in 1..Len(k.queue) : k.queue[n].type = "Created" /\ k.queue[n].inc <= i => Past(k, i)

ToldOK(c, k) ==
  /\ c \in Link => \A i \in Inc : k.told[i] <= 1 /\ (~k.ended => k.told[i] = 0)
  /\ c \in Listener /\ ~k.late => \A i \in Inc : k.told[i] <= 1 /\ (k.told[i] = 1 => EndedOK(k, i))

(* An exit is on its way to a listener, behind every creation; a link is about
   to be told an end. *)
Pending(k, i) ==
  \/ Holds(session[i].sent, "Exited")
  \/ \E n \in 1..Len(k.queue) :
       k.queue[n].type = "Exited" /\ \A m \in 1..Len(k.queue) : m > n => k.queue[m].type # "Created"

Coming(k, i) ==
  Holds(session[i].sent, "Exited") \/ Holds(k.queue, "Exited") \/ Holds(k.queue, "Closed")
EndOK(c, k) ==
  /\ \A i \in Inc : listed = i /\ session[i].exit =>
       /\ c \in Listener /\ k.sub /\ Holds(k.queue, "Created") => Pending(k, i)
       /\ c \in Listener /\ k.phase = "up" => k.ended \/ Pending(k, i)
       /\ c \in Link /\ drops = 0 /\ k.phase = "listed" => k.summary.exit \/ Coming(k, i)
       /\ c \in Link /\ drops = 0 /\ k.phase = "up" /\ k.at = i =>
            k.ended \/ (k.due /\ k.snapshot) \/ Coming(k, i)
  /\ c \in Link /\ drops = 0 =>
       k.phase # "dropped" /\ (k.phase \in {"off", "subscribed", "listing", "listed"} => ~k.open)

(* The program of session i is on its way to subscriber k, or k knows it; where
   k has one of an older session, the close that ends it is on its way. *)
LastOK(q, i) ==
  \A n \in 1..Len(q) : IsLast(q, n, "Program") =>
    IF q[n].inc = i THEN q[n].program = session[i].program
    ELSE session[i].program = None /\ ClosesAfter(q, n)

FirstOK(q, i) == q # << >> /\ q[1].inc # i => session[i].program = None
KnownOK(c, k, i) ==
  /\ c \in Listener /\ k.phase = "up" /\ ~k.revived =>
       k.shown = session[i].program \/ (session[i].program = None /\ Holds(k.queue, "Closed"))
  /\ c \in Link /\ k.phase = "listed" =>
       k.summary.program = session[i].program \/ Holds(k.queue, "Closed")
  /\ c \in Link /\ k.phase = "up" /\ k.at = i /\ ~k.ended =>
       k.shown = session[i].program \/ Holds(k.queue, "Closed")

RunningOK(c, k, i) ==
  /\ LastOK(k.queue, i)
  /\ ~Holds(k.queue, "Program") => FirstOK(k.queue, i) /\ KnownOK(c, k, i)

ProgramOK(c, k) ==
  /\ ~behind /\ k.sub => \A i \in Inc :
       listed = i /\ Running(i) /\ ~Holds(session[i].sent, "Program") => RunningOK(c, k, i)
  /\ c \in Link /\ ~k.open => k.shown = None /\ k.phase \notin {"up", "dropped"}
  /\ c \in Listener /\ k.ended /\ ~k.revived => k.shown = None
  /\ c \in Listener /\ k.phase = "up" /\ Gone /\ ~behind /\ ~k.revived =>
       Holds(k.queue, "Closed") \/ k.shown = None

Typed(c, k) ==
  /\ k \in ConsumerState /\ (k.phase \in {"off", "over"} => k.queue = << >>)
  /\ c \in Link /\ k.phase = "up" => k.at # None

SubscriberOK(c, k) == QueueOK(k) /\ ToldOK(c, k) /\ EndOK(c, k) /\ ProgramOK(c, k)

IInv == TypeOK /\ HostOK /\ \A c \in Consumer : SubscriberOK(c, consumer[c])

-----------------------------------------------------------------------------
(* Sequences of events. *)
LEMMA EmptyHolds == ASSUME NEW type PROVE ~Holds(<< >>, type)
  BY DEF Holds

LEMMA AppendHolds ==
  ASSUME NEW q \in Seq(Event), NEW e \in Event
  PROVE  /\ Append(q, e) \in Seq(Event) /\ Len(Append(q, e)) = Len(q) + 1 /\ Len(q) \in Nat
         /\ Append(q, e)[Len(q) + 1] = e /\ \A n \in 1..Len(q) : Append(q, e)[n] = q[n]
         /\ \A n : n \in 1..Len(Append(q, e)) <=> n \in 1..Len(q) \/ n = Len(q) + 1
         /\ \A type : Holds(Append(q, e), type) <=> Holds(q, type) \/ e.type = type
<1>1. /\ Append(q, e) \in Seq(Event) /\ Len(Append(q, e)) = Len(q) + 1 /\ Len(q) \in Nat
      /\ Append(q, e)[Len(q) + 1] = e /\ \A n \in 1..Len(q) : Append(q, e)[n] = q[n]
  OBVIOUS
<1>2. \A n : n \in 1..Len(Append(q, e)) <=> n \in 1..Len(q) \/ n = Len(q) + 1
  BY <1>1
<1>3. ASSUME NEW type PROVE Holds(Append(q, e), type) <=> Holds(q, type) \/ e.type = type
  BY <1>1, <1>2 DEF Holds
<1> QED
  BY <1>1, <1>2, <1>3

LEMMA Elements ==
  ASSUME NEW q \in Seq(Event)
  PROVE  \A n \in 1..Len(q) : q[n] \in Event /\ q[n].inc \in Inc
<1>1. \A n \in 1..Len(q) : q[n] \in Event
  OBVIOUS
<1> QED
  BY <1>1 DEF Event

LEMMA TailHolds ==
  ASSUME NEW q \in Seq(Event), q # << >>
  PROVE  /\ Tail(q) \in Seq(Event) /\ Head(q) \in Event /\ Head(q) = q[1] /\ 1 \in 1..Len(q)
         /\ Len(Tail(q)) = Len(q) - 1 /\ Len(q) \in Nat
         /\ \A n \in 1..Len(Tail(q)) : n + 1 \in 1..Len(q) /\ Tail(q)[n] = q[n + 1]
         /\ \A n \in 1..Len(q) : n = 1 \/ (n - 1 \in 1..Len(Tail(q)) /\ q[n] = Tail(q)[n - 1])
         /\ \A type : Holds(q, type) <=> Holds(Tail(q), type) \/ Head(q).type = type
<1>1. /\ Tail(q) \in Seq(Event) /\ Head(q) \in Event /\ Head(q) = q[1] /\ 1 \in 1..Len(q)
      /\ Len(Tail(q)) = Len(q) - 1 /\ Len(q) \in Nat
  OBVIOUS
<1>2. \A n \in 1..Len(Tail(q)) : n + 1 \in 1..Len(q) /\ Tail(q)[n] = q[n + 1]
  OBVIOUS
<1>3. \A n \in 1..Len(q) : n = 1 \/ (n - 1 \in 1..Len(Tail(q)) /\ q[n] = Tail(q)[n - 1])
  BY <1>1, <1>2
<1>4. ASSUME NEW type PROVE Holds(q, type) <=> Holds(Tail(q), type) \/ Head(q).type = type
  BY <1>1, <1>2, <1>3 DEF Holds
<1> QED
  BY <1>1, <1>2, <1>3, <1>4

LEMMA CutHolds ==
  ASSUME NEW q \in Seq(Event), NEW m \in 0..Len(q)
  PROVE  /\ SubSeq(q, 1, m) \in Seq(Event) /\ Len(SubSeq(q, 1, m)) = m
         /\ \A n \in 1..m : n \in 1..Len(q) /\ SubSeq(q, 1, m)[n] = q[n]
  OBVIOUS

(* What is last stays so behind a head, and what is put behind is last. *)
LEMMA LastTail ==
  ASSUME NEW q \in Seq(Event), q # << >>, NEW type, NEW n \in 1..Len(Tail(q)), IsLast(Tail(q), n, type)
  PROVE  n + 1 \in 1..Len(q) /\ IsLast(q, n + 1, type) /\ q[n + 1] = Tail(q)[n]
<1>1. n + 1 \in 1..Len(q) /\ q[n + 1] = Tail(q)[n]
  BY TailHolds
<1>2. ASSUME NEW m \in 1..Len(q), m > n + 1 PROVE q[m].type # type
  <2>1. m - 1 \in 1..Len(Tail(q)) /\ q[m] = Tail(q)[m - 1] /\ m - 1 > n
    BY <1>2, TailHolds
  <2> QED
    BY <2>1 DEF IsLast
<1> QED
  BY <1>1, <1>2 DEF IsLast

LEMMA ClosesTail ==
  ASSUME NEW q \in Seq(Event), q # << >>, NEW n \in 1..Len(Tail(q)), ClosesAfter(q, n + 1)
  PROVE  ClosesAfter(Tail(q), n)
<1>1. PICK m \in 1..Len(q) : m > n + 1 /\ q[m].type = "Closed"
  BY DEF ClosesAfter
<1>2. m - 1 \in 1..Len(Tail(q)) /\ Tail(q)[m - 1] = q[m] /\ m - 1 > n
  BY <1>1, TailHolds
<1> QED
  BY <1>1, <1>2 DEF ClosesAfter

LEMMA FirstCloses ==
  ASSUME NEW q \in Seq(Event), q # << >>, ClosesAfter(q, 1)
  PROVE  Holds(Tail(q), "Closed")
<1>1. PICK m \in 1..Len(q) : m > 1 /\ q[m].type = "Closed"
  BY DEF ClosesAfter
<1>2. m - 1 \in 1..Len(Tail(q)) /\ Tail(q)[m - 1] = q[m]
  BY <1>1, TailHolds
<1> QED
  BY <1>1, <1>2 DEF Holds

LEMMA LastAppend ==
  ASSUME NEW q \in Seq(Event), NEW e \in Event, NEW type, NEW n \in 1..Len(Append(q, e)),
         IsLast(Append(q, e), n, type)
  PROVE  \/ n = Len(q) + 1 /\ e.type = type
         \/ e.type # type /\ n \in 1..Len(q) /\ IsLast(q, n, type)
<1>1. Len(q) + 1 \in 1..Len(Append(q, e)) /\ (n \in 1..Len(q) \/ n = Len(q) + 1)
  BY AppendHolds
<1>2. CASE n = Len(q) + 1
  BY <1>2, AppendHolds DEF IsLast
<1>3. CASE n \in 1..Len(q)
  <2>1. e.type # type
    BY <1>1, <1>3, AppendHolds DEF IsLast
  <2> QED
    BY <1>3, <2>1, AppendHolds DEF IsLast
<1> QED
  BY <1>1, <1>2, <1>3

-----------------------------------------------------------------------------
(* The sessions of the id. *)
LEMMA Numbers == Inc \subseteq Nat /\ None \notin Inc
  BY SessionNewsAssumption DEF Inc

LEMMA Order ==
  \A i, j, n \in Inc : /\ i <= i
                       /\ i < j => i # j
                       /\ i < j /\ j < n => i < n
                       /\ i <= j /\ j < n => i < n
  BY Numbers

(* The session the id named last. *)
Newest(i) ==
  session[i].state # "unborn" /\ \A j \in Inc : session[j].state # "unborn" => j <= i

LEMMA OpenIsNewest ==
  ASSUME HostOK, NEW i \in Inc, session[i].state = "open" \/ i \in {listed, closing}
  PROVE  /\ Newest(i) /\ session[i].state = "open"
         /\ \A j \in Inc : session[j].state # "unborn" =>
              j = i \/ (j < i /\ session[j].state = "closed" /\ session[j].pump)
<1>1. session[i].state = "open"
  BY DEF HostOK
<1>2. \A j \in Inc : i < j /\ session[j].state # "unborn" => session[i].state = "closed"
  BY DEF HostOK
<1>3. \A j \in Inc : j < i => session[j].state = "closed" /\ session[j].pump
  BY <1>1 DEF HostOK
<1>4. \A j \in Inc : j = i \/ j < i \/ i < j
  BY Numbers
<1>5. \A j \in Inc : session[j].state # "unborn" => j = i \/ j < i
  BY <1>1, <1>2, <1>4
<1>6. \A j \in Inc : j = i \/ j < i => j <= i
  BY Numbers
<1> QED
  BY <1>1, <1>3, <1>5, <1>6 DEF Newest

LEMMA GoneIsClosed ==
  ASSUME TypeOK, HostOK, Gone, NEW i \in Inc, session[i].state # "unborn"
  PROVE  session[i].state = "closed" /\ session[i].pump
<1>1. session[i].state \in {"unborn", "open", "closed"}
  BY DEF TypeOK, SessionState
<1>2. session[i].state # "open"
  BY Numbers DEF Gone, HostOK
<1> QED
  BY <1>1, <1>2 DEF HostOK

LEMMA SentSame ==
  ASSUME NEW i, SentOK(i), Running(i)' => Running(i),
         session'[i].sent = session[i].sent, session'[i].program = session[i].program,
         session'[i].exit = session[i].exit, session[i].pump => session'[i].pump
  PROVE  SentOK(i)'
  BY DEF SentOK, IsLast, Holds

(* A new session is the first that was not used. *)
LEMMA NewSessionIsFirst ==
  ASSUME TypeOK, HostOK, CanInsert
  PROVE  /\ NewSession \in Inc /\ session[NewSession] = Unborn /\ session[NewSession].state = "unborn"
         /\ \A j \in Inc : j > NewSession => session[j].state = "unborn"
         /\ \A j \in Inc : j < NewSession => session[j].state = "closed"
         /\ \A j \in Inc : session[j].state # "open"
<1>1. Unused \subseteq Inc /\ Unused \subseteq Nat /\ Unused # {}
  BY Numbers DEF Unused, CanInsert
<1>2. PICK x \in Unused : \A y \in Unused : ~(<<y, x>> \in OpToRel(<, Nat))
  BY <1>1, NatLessThanWellFounded, WFMin
<1>3. \A y \in Unused : x <= y
  <2> TAKE y \in Unused
  <2>1. x \in Nat /\ y \in Nat
    BY <1>1
  <2>2. ~(y < x)
    BY <1>2, <2>1 DEF OpToRel
  <2> QED
    BY <2>1, <2>2
<1>4. NewSession \in Unused /\ \A j \in Unused : NewSession <= j
  BY <1>3 DEF NewSession
<1>5. NewSession \in Inc /\ session[NewSession].state = "unborn"
  BY <1>4 DEF Unused
<1>6. session[NewSession] = Unborn
  BY <1>5 DEF HostOK
<1>7. ASSUME NEW j \in Inc PROVE session[j].state # "open"
  BY Numbers DEF HostOK, CanInsert
<1>8. ASSUME NEW j \in Inc, j > NewSession PROVE session[j].state = "unborn"
  BY <1>5, <1>8, Numbers DEF HostOK
<1>9. ASSUME NEW j \in Inc, j < NewSession PROVE session[j].state = "closed"
  <2>1. session[j].state # "unborn"
    BY <1>4, <1>5, <1>9, Numbers DEF Unused
  <2> QED
    BY <2>1, GoneIsClosed DEF Gone, CanInsert
<1> QED
  BY <1>5, <1>6, <1>7, <1>8, <1>9

-----------------------------------------------------------------------------
(* A step of one subscriber: the host and the others stay as they are. *)
HostStays == UNCHANGED <<session, listed, closing, behind, changes>>
DropsGrow == drops' = drops \/ (drops' \in 0..MaxDrop /\ drops' > 0)
Becomes(c, k) ==
  /\ HostStays /\ DropsGrow /\ consumer' = [consumer EXCEPT ![c] = k]
  /\ Typed(c, k) /\ QueueOK(k) /\ ToldOK(c, k) /\ ProgramOK(c, k)

LEMMA QueueStays == ASSUME HostStays, NEW k, QueueOK(k) PROVE QueueOK(k)'
  BY DEF HostStays, QueueOK, EventOK, Gone, Holds, ClosesAfter

LEMMA ToldStays == ASSUME HostStays, NEW c, NEW k, ToldOK(c, k) PROVE ToldOK(c, k)'
  BY DEF HostStays, ToldOK, EndedOK, Past

LEMMA ProgramStays == ASSUME HostStays, NEW c, NEW k, ProgramOK(c, k) PROVE ProgramOK(c, k)'
  BY DEF HostStays, ProgramOK, RunningOK, LastOK, FirstOK, KnownOK, Gone, Holds, IsLast, ClosesAfter, Running

LEMMA HostStaysOK == ASSUME HostStays, HostOK PROVE HostOK'
<1>1. ASSUME NEW i, SentOK(i) PROVE SentOK(i)'
  BY <1>1 DEF HostStays, SentOK, Running, IsLast, Holds
<1> QED
  BY <1>1 DEF HostStays, HostOK

LEMMA EndStays ==
  ASSUME TypeOK, HostStays, DropsGrow, NEW c, NEW k, EndOK(c, k) PROVE EndOK(c, k)'
<1>1. drops' = 0 => drops = 0
  BY DEF TypeOK, DropsGrow
<1>2. \A i : (Coming(k, i)' <=> Coming(k, i)) /\ (Pending(k, i)' <=> Pending(k, i))
  BY DEF HostStays, Coming, Pending, Holds
<1>3. session' = session /\ listed' = listed
  BY DEF HostStays
<1>4. Holds(k.queue, "Created")' <=> Holds(k.queue, "Created")
  BY DEF Holds
<1> QED
  BY <1>1, <1>2, <1>3, <1>4 DEF EndOK

LEMMA OneSubscriber ==
  ASSUME IInv, NEW c \in Consumer, NEW k, Becomes(c, k), EndOK(c, k)'
  PROVE  IInv'
<1>1. ASSUME NEW d \in Consumer, d # c PROVE consumer'[d] = consumer[d] /\ SubscriberOK(d, consumer[d])'
  <2>1. consumer'[d] = consumer[d]
    BY <1>1 DEF IInv, TypeOK, Becomes
  <2>2. PICK m : m = consumer[d]
    OBVIOUS
  <2>3. SubscriberOK(d, m)
    BY <2>2 DEF IInv
  <2>4. SubscriberOK(d, m)'
    BY <2>3, QueueStays, ToldStays, EndStays, ProgramStays DEF SubscriberOK, Becomes, IInv
  <2>5. consumer[d]' = m
    BY <2>1, <2>2
  <2> QED
    BY <2>1, <2>4, <2>5
<1>2. consumer'[c] = k
  BY DEF IInv, TypeOK, Becomes
<1>3. SubscriberOK(c, k)'
  BY QueueStays, ToldStays, ProgramStays DEF SubscriberOK, Becomes
<1>4. ASSUME NEW d \in Consumer PROVE SubscriberOK(d, consumer[d])'
  <2>1. CASE d = c
    BY <1>2, <1>3, <2>1
  <2> QED
    BY <1>1, <2>1
<1>5. TypeOK'
  <2>1. consumer' \in [Consumer -> ConsumerState]
    BY DEF IInv, TypeOK, Becomes, Typed
  <2>2. \A d \in Consumer : consumer'[d].phase \in {"off", "over"} => consumer'[d].queue = << >>
    BY <1>1, <1>2 DEF IInv, TypeOK, Becomes, Typed
  <2>3. \A d \in Link : consumer'[d].phase = "up" => consumer'[d].at # None
    BY <1>1, <1>2 DEF IInv, TypeOK, Becomes, Typed, Consumer
  <2>4. drops' \in 0..MaxDrop
    BY DEF IInv, TypeOK, Becomes, DropsGrow
  <2> QED
    BY <2>1, <2>2, <2>3, <2>4 DEF IInv, TypeOK, Becomes, HostStays
<1>6. HostOK'
  BY HostStaysOK DEF IInv, Becomes
<1> QED
  BY <1>4, <1>5, <1>6 DEF IInv

-----------------------------------------------------------------------------
(* Subscribers, action by action. *)
SameHistory(k, m) == k.told = m.told /\ k.ended = m.ended /\ k.late = m.late
SameShown(k, m)   == k.shown = m.shown /\ k.revived = m.revived
SameLink(k, m)    == k.open = m.open /\ k.summary = m.summary /\ k.snapshot = m.snapshot /\ k.due = m.due
WasOK(c, m) ==
  m = consumer[c] /\ TypeOK /\ HostOK /\ m \in ConsumerState /\ Typed(c, m) /\ SubscriberOK(c, m)

LEMMA Before == ASSUME IInv, NEW c \in Consumer PROVE WasOK(c, consumer[c])
  BY DEF IInv, WasOK, TypeOK, Typed, Consumer

LEMMA SubscribeKeeps == ASSUME IInv, NEW c \in Consumer, Subscribe(c) PROVE IInv'
<1>1. PICK m : WasOK(c, m) /\ m = consumer[c]
  BY Before
<1>2. m \in ConsumerState /\ m.phase \in {"off", "dropped"} /\ m.queue = << >>
  BY <1>1 DEF WasOK, Subscribe
<1>3. PICK k : k = [m EXCEPT !.phase = "subscribed", !.sub = TRUE]
  OBVIOUS
<1>4. /\ k \in ConsumerState /\ k.phase = "subscribed" /\ k.sub /\ k.queue = << >> /\ k.at = m.at
      /\ SameHistory(k, m) /\ SameShown(k, m) /\ SameLink(k, m)
  BY <1>2, <1>3 DEF ConsumerState, SameHistory, SameShown, SameLink
<1>5. consumer' = [consumer EXCEPT ![c] = k] /\ HostStays /\ DropsGrow
  BY <1>1, <1>3 DEF WasOK, TypeOK, Subscribe, HostStays, DropsGrow
<1>6. Typed(c, k)
  BY <1>4 DEF Typed
<1>7. QueueOK(k)
  BY <1>1, <1>4, EmptyHolds DEF WasOK, SubscriberOK, QueueOK
<1>8. ToldOK(c, k)
  BY <1>1, <1>2, <1>4 DEF WasOK, SubscriberOK, ToldOK, EndedOK, Past, SameHistory
<1>9. ProgramOK(c, k)
  BY <1>1, <1>4
  DEF WasOK, SubscriberOK, ProgramOK, RunningOK, LastOK, FirstOK, KnownOK, SameShown, SameHistory, SameLink
<1>10. EndOK(c, k)
  BY <1>1, <1>2, <1>4, EmptyHolds DEF WasOK, SubscriberOK, EndOK, SameLink
<1> QED
  BY <1>5, <1>6, <1>7, <1>8, <1>9, <1>10, EndStays, OneSubscriber DEF Becomes, IInv

LEMMA ListsKeeps == ASSUME IInv, NEW c \in Consumer, Lists(c) PROVE IInv'
<1>1. PICK m : WasOK(c, m) /\ m = consumer[c]
  BY Before
<1>2. m \in ConsumerState /\ m.phase = "subscribed" /\ listed \in Inc /\ HostOK /\ QueueOK(m)
  BY <1>1 DEF WasOK, Lists, TypeOK, SubscriberOK
<1>3. PICK k : k = [m EXCEPT !.phase = "listing", !.at = listed]
  OBVIOUS
<1>4. /\ k \in ConsumerState /\ k.phase = "listing" /\ k.sub = m.sub /\ k.queue = m.queue /\ k.at = listed
      /\ SameHistory(k, m) /\ SameShown(k, m) /\ SameLink(k, m)
  BY <1>2, <1>3 DEF ConsumerState, SameHistory, SameShown, SameLink
<1>5. consumer' = [consumer EXCEPT ![c] = k] /\ HostStays /\ DropsGrow
  BY <1>1, <1>3 DEF WasOK, TypeOK, Lists, HostStays, DropsGrow
<1>6. /\ session[listed].state = "open"
      /\ \A i \in Inc : session[i].state # "unborn" => i = listed \/ i < listed
  BY <1>2, OpenIsNewest
<1>7. QueueOK(k)
  <2>1. ASSUME NEW i \in Inc, i > listed PROVE ~session[i].pump
    <3>1. session[i].state = "unborn"
      BY <1>2, <1>6, <2>1, Numbers
    <3> QED
      BY <1>2, <3>1 DEF HostOK, Unborn
  <2> QED
    BY <1>2, <1>4, <1>6, <2>1, Numbers DEF QueueOK
<1>8. ToldOK(c, k)
  <2>1. ASSUME NEW i \in Inc, EndedOK(m, i) PROVE EndedOK(k, i)
    <3>1. i = listed \/ i < listed
      BY <1>6, <2>1 DEF EndedOK
    <3>2. i = listed => session[i].exit
      BY <1>6, <2>1 DEF EndedOK
    <3>3. ~k.ended => i < listed
      <4> SUFFICES ASSUME ~k.ended PROVE i < listed
        OBVIOUS
      <4>1. m.at \in Inc /\ i < m.at
        BY <1>2, <1>4, <2>1 DEF EndedOK, SameHistory, ConsumerState
      <4>2. m.at = listed \/ m.at < listed
        BY <1>2, <1>6, <4>1, Numbers DEF QueueOK
      <4> QED
        BY <1>2, <2>1, <4>1, <4>2, Order
    <3>4. Past(k, i) /\ i <= listed
      BY <1>2, <1>4, <3>1, Numbers DEF Past
    <3> QED
      BY <1>2, <1>4, <2>1, <3>2, <3>3, <3>4, Numbers DEF EndedOK
  <2> QED
    BY <1>1, <1>4, <2>1 DEF WasOK, SubscriberOK, ToldOK, SameHistory
<1>9. ProgramOK(c, k)
  BY <1>1, <1>2, <1>4 DEF WasOK, SubscriberOK, ProgramOK, RunningOK, KnownOK, SameShown, SameHistory, SameLink
<1>10. EndOK(c, k)
  BY <1>1, <1>2, <1>4 DEF WasOK, SubscriberOK, EndOK, SameLink, Coming, Pending
<1> QED
  BY <1>4, <1>5, <1>7, <1>8, <1>9, <1>10, EndStays, OneSubscriber DEF Becomes, IInv, Typed

LEMMA LinkListsKeeps == ASSUME IInv, NEW c \in Link, LinkLists(c) PROVE IInv'
<1>0. c \in Consumer /\ c \notin Listener
  BY SessionNewsAssumption DEF Consumer
<1>1. PICK m : WasOK(c, m) /\ m = consumer[c]
  BY <1>0, Before
<1>2. m \in ConsumerState /\ m.phase = "listing" /\ m.at \in Inc /\ QueueOK(m) /\ HostOK /\ TypeOK
  BY <1>1 DEF WasOK, LinkLists, SubscriberOK, QueueOK, ConsumerState
<1>3. PICK k : k = [m EXCEPT !.phase = "listed", !.summary = Says(m.at)]
  OBVIOUS
<1>4. Says(m.at) \in Summary /\ Says(m.at).exit = session[m.at].exit
      /\ Says(m.at).program = session[m.at].program
  BY <1>2 DEF TypeOK, SessionState, Says, Summary
<1>5. /\ k \in ConsumerState /\ k.phase = "listed" /\ k.sub = m.sub /\ k.queue = m.queue /\ k.at = m.at
      /\ SameHistory(k, m) /\ SameShown(k, m) /\ k.summary = Says(m.at) /\ k.open = m.open
  BY <1>2, <1>3, <1>4 DEF ConsumerState, SameHistory, SameShown
<1>6. consumer' = [consumer EXCEPT ![c] = k] /\ HostStays /\ DropsGrow
  BY <1>1, <1>3 DEF WasOK, TypeOK, LinkLists, HostStays, DropsGrow
<1>7. ASSUME NEW i \in Inc, listed = i PROVE m.at = i \/ Holds(k.queue, "Closed")
  <2>1. m.at = i \/ session[m.at].state = "closed"
    BY <1>2, <1>7, OpenIsNewest, Numbers DEF QueueOK
  <2> QED
    BY <1>2, <1>5, <2>1 DEF QueueOK
<1>8. QueueOK(k)
  <2>1. Gone => Holds(k.queue, "Closed")
    BY <1>2, <1>5, GoneIsClosed, Numbers DEF QueueOK
  <2> QED
    BY <1>2, <1>5, <2>1 DEF QueueOK
<1>9. ToldOK(c, k)
  BY <1>0, <1>1, <1>5 DEF WasOK, SubscriberOK, ToldOK, SameHistory
<1>10. ProgramOK(c, k)
  BY <1>0, <1>1, <1>2, <1>4, <1>5, <1>7 DEF WasOK, SubscriberOK, ProgramOK, RunningOK, KnownOK, SameShown
<1>11. EndOK(c, k)
  BY <1>0, <1>1, <1>2, <1>4, <1>5, <1>7 DEF WasOK, SubscriberOK, EndOK, Coming
<1> QED
  BY <1>0, <1>5, <1>6, <1>8, <1>9, <1>10, <1>11, EndStays, OneSubscriber DEF Becomes, IInv, Typed

(* A subscriber without a subscription and without events. *)
LEMMA AloneKeeps ==
  ASSUME IInv, NEW c \in Consumer, NEW k, NEW m, WasOK(c, m), HostStays, DropsGrow,
         consumer' = [consumer EXCEPT ![c] = k], k \in ConsumerState,
         k.phase \in {"off", "over"}, ~k.sub, k.queue = << >>, k.at = m.at, k.open = m.open, ToldOK(c, k),
         (SameShown(k, m) /\ k.ended = m.ended) \/ (c \in Link /\ k.shown = None),
         k.phase = "over" \/ m.phase \in {"off", "subscribed", "listing", "listed"} \/ drops' > 0
  PROVE  IInv'
<1>1. Typed(c, k)
  BY DEF Typed
<1>2. QueueOK(k)
  BY EmptyHolds DEF WasOK, SubscriberOK, QueueOK
<1>3. ProgramOK(c, k)
  BY SessionNewsAssumption DEF WasOK, SubscriberOK, ProgramOK, SameShown
<1>4. EndOK(c, k)'
  <2>1. EndOK(c, m)'
    BY EndStays DEF WasOK, SubscriberOK
  <2> QED
    BY <2>1 DEF EndOK
<1> QED
  BY <1>1, <1>2, <1>3, <1>4, OneSubscriber DEF Becomes

LEMMA AloneToldOK ==
  ASSUME IInv, NEW c \in Consumer, NEW k, NEW m, WasOK(c, m), k.phase # "listing", k.queue = << >>,
         k.at = m.at, SameHistory(k, m)
  PROVE  ToldOK(c, k)
<1>1. ASSUME NEW i \in Inc, EndedOK(m, i) PROVE EndedOK(k, i)
  BY <1>1 DEF EndedOK, Past, SameHistory
<1> QED
  BY <1>1 DEF WasOK, SubscriberOK, ToldOK, SameHistory

LEMMA EmptySeqOfEvents == << >> \in Seq(Event)
  OBVIOUS

LEMMA OffKeeps ==
  ASSUME IInv, NEW c \in Consumer, HostStays, DropsGrow,
         \/ consumer' = [consumer EXCEPT ![c] = Off(consumer[c])] /\
            (consumer[c].phase \in {"off", "subscribed", "listing", "listed"} \/ drops' > 0)
         \/ consumer' = [consumer EXCEPT ![c] = Over(consumer[c])]
  PROVE  IInv'
<1>1. PICK m : WasOK(c, m) /\ m = consumer[c]
  BY Before
<1>2. m \in ConsumerState
  BY <1>1 DEF WasOK
<1>3. PICK k : /\ consumer' = [consumer EXCEPT ![c] = k]
               /\ \/ k = Over(m)
                  \/ k = Off(m) /\ (m.phase \in {"off", "subscribed", "listing", "listed"} \/ drops' > 0)
  BY <1>1
<1>4. /\ k \in ConsumerState /\ ~k.sub /\ k.queue = << >> /\ k.at = m.at /\ k.open = m.open
      /\ SameHistory(k, m) /\ SameShown(k, m) /\ k.phase \in {"off", "over"}
  <2>1. CASE k = Over(m)
    <3>1. PICK q : q = << >> /\ q \in Seq(Event)
      BY EmptySeqOfEvents
    <3>2. k = [m EXCEPT !.phase = "over", !.sub = FALSE, !.queue = q]
      BY <2>1, <3>1 DEF Over
    <3>3. /\ k \in ConsumerState /\ k.phase = "over" /\ ~k.sub /\ k.queue = q /\ k.at = m.at
          /\ k.open = m.open /\ SameHistory(k, m) /\ SameShown(k, m)
      BY ONLY <1>2, <3>1, <3>2 DEF ConsumerState, SameHistory, SameShown
    <3> QED
      BY ONLY <3>1, <3>3
  <2>2. CASE k = Off(m)
    <3>1. PICK q : q = << >> /\ q \in Seq(Event)
      BY EmptySeqOfEvents
    <3>2. k = [m EXCEPT !.phase = "off", !.sub = FALSE, !.queue = q]
      BY <2>2, <3>1 DEF Off
    <3>3. /\ k \in ConsumerState /\ k.phase = "off" /\ ~k.sub /\ k.queue = q /\ k.at = m.at
          /\ k.open = m.open /\ SameHistory(k, m) /\ SameShown(k, m)
      BY ONLY <1>2, <3>1, <3>2 DEF ConsumerState, SameHistory, SameShown
    <3> QED
      BY ONLY <3>1, <3>3
  <2> QED
    BY <1>3, <2>1, <2>2
<1>5. k.phase = "over" \/ m.phase \in {"off", "subscribed", "listing", "listed"} \/ drops' > 0
  <2>1. k = Over(m) => k.phase = "over"
    BY <1>2 DEF ConsumerState, Over
  <2> QED
    BY <1>3, <2>1
<1>6. ToldOK(c, k)
  BY <1>1, <1>4, AloneToldOK
<1> QED
  BY <1>1, <1>3, <1>4, <1>5, <1>6, AloneKeeps DEF SameHistory

LEMMA LinkRefusedKeeps == ASSUME IInv, NEW c \in Link, LinkRefused(c) PROVE IInv'
<1>1. HostStays /\ DropsGrow /\ c \in Consumer
  BY DEF LinkRefused, HostStays, DropsGrow, Consumer
<1> QED
  BY <1>1, OffKeeps DEF LinkRefused

LEMMA GivesUpKeeps == ASSUME IInv, NEW c \in Consumer, GivesUp(c) PROVE IInv'
<1>1. HostStays /\ DropsGrow
  BY DEF GivesUp, HostStays, DropsGrow
<1> QED
  BY <1>1, OffKeeps DEF GivesUp

(* What telling an end changes. *)
Tells(k, m, i) ==
  /\ k \in ConsumerState /\ k.phase = m.phase /\ k.sub = m.sub /\ k.queue = m.queue /\ k.at = m.at
  /\ SameLink(k, m) /\ k.late = m.late /\ k.revived = m.revived /\ k.ended
  /\ m.ended => k.told = m.told /\ k.shown = m.shown
  /\ ~m.ended => k.shown = None /\ \A j \in Inc : k.told[j] <= m.told[j] + 1 /\ (j # i => k.told[j] = m.told[j])

LEMMA ToldOnceTells == ASSUME NEW m \in ConsumerState, NEW i PROVE Tells(ToldOnce(m, i), m, i)
<1>1. PICK k : k = ToldOnce(m, i)
  OBVIOUS
<1>2. CASE m.ended
  BY <1>1, <1>2 DEF ToldOnce, Tells, SameLink
<1>3. CASE ~m.ended
  <2>1. PICK f : f = [m.told EXCEPT ![i] = IF @ < 2 THEN @ + 1 ELSE @]
    OBVIOUS
  <2>2. m.told \in [Inc -> 0..2]
    BY DEF ConsumerState
  <2>3. f \in [Inc -> 0..2] /\ \A j \in Inc : f[j] <= m.told[j] + 1 /\ (j # i => f[j] = m.told[j])
    <3>1. f = [j \in Inc |-> IF j = i THEN IF m.told[j] < 2 THEN m.told[j] + 1 ELSE m.told[j] ELSE m.told[j]]
      BY <2>1, <2>2
    <3>2. ASSUME NEW j \in Inc
          PROVE  f[j] \in 0..2 /\ f[j] <= m.told[j] + 1 /\ (j # i => f[j] = m.told[j])
      <4>1. m.told[j] \in 0..2
        BY <2>2
      <4> QED
        BY <3>1, <4>1
    <3> QED
      BY <3>1, <3>2
  <2>4. k = [m EXCEPT !.told = f, !.ended = TRUE, !.shown = None]
    BY <1>1, <1>3, <2>1 DEF ToldOnce, Told
  <2>5. /\ k \in ConsumerState /\ k.phase = m.phase /\ k.sub = m.sub /\ k.queue = m.queue /\ k.at = m.at
        /\ SameLink(k, m) /\ k.late = m.late /\ k.revived = m.revived /\ k.ended /\ k.told = f /\ k.shown = None
    BY ONLY <2>3, <2>4, m \in ConsumerState DEF ConsumerState, SameLink
  <2> QED
    BY <1>1, <1>3, <2>3, <2>5 DEF Tells
<1> QED
  BY <1>1, <1>2, <1>3

(* A link tells no end twice. *)
LEMMA LinkToldOK ==
  ASSUME NEW c \in Link, NEW m \in ConsumerState, NEW k, NEW i, ToldOK(c, m),
         \/ k.told = m.told /\ k.ended = m.ended
         \/ \E l : Tells(l, m, i) /\ k.told = l.told /\ k.ended = l.ended
  PROVE  ToldOK(c, k)
<1>1. c \notin Listener /\ m.told \in [Inc -> 0..2]
  BY SessionNewsAssumption DEF ConsumerState
<1>2. CASE k.told = m.told /\ k.ended = m.ended
  BY <1>1, <1>2 DEF ToldOK
<1>3. ASSUME NEW l, Tells(l, m, i), k.told = l.told /\ k.ended = l.ended PROVE ToldOK(c, k)
  <2>1. ASSUME NEW j \in Inc PROVE k.told[j] <= 1
    <3>1. m.told[j] \in 0..2 /\ m.told[j] <= 1 /\ (~m.ended => m.told[j] = 0)
      BY <1>1 DEF ToldOK
    <3>2. l.told \in [Inc -> 0..2]
      BY <1>3 DEF Tells, ConsumerState
    <3> QED
      BY <1>3, <3>1, <3>2 DEF Tells
  <2> QED
    BY <1>1, <1>3, <2>1 DEF ToldOK, Tells
<1> QED
  BY <1>2, <1>3

(* A link tells an end and is over. *)
LEMMA OverToldKeeps ==
  ASSUME IInv, NEW c \in Link, NEW m, WasOK(c, m), NEW r \in ConsumerState, NEW i, HostStays, DropsGrow,
         r.at = m.at, r.open = m.open, SameHistory(r, m), SameShown(r, m),
         consumer' = [consumer EXCEPT ![c] = Over(ToldOnce(r, i))]
  PROVE  IInv'
<1>0. c \in Consumer /\ m \in ConsumerState
  BY DEF Consumer, WasOK
<1>1. PICK l : l = ToldOnce(r, i) /\ Tells(l, r, i)
  BY ToldOnceTells
<1>2. PICK q : q = << >> /\ q \in Seq(Event)
  BY EmptySeqOfEvents
<1>3. PICK k : k = [l EXCEPT !.phase = "over", !.sub = FALSE, !.queue = q]
  OBVIOUS
<1>4. /\ k \in ConsumerState /\ ~k.sub /\ k.queue = q /\ k.phase = "over" /\ k.at = l.at /\ k.open = l.open
      /\ SameHistory(k, l) /\ SameShown(k, l)
  <2>1. l \in ConsumerState
    BY <1>1 DEF Tells
  <2> QED
    BY ONLY <2>1, <1>2, <1>3 DEF ConsumerState, SameHistory, SameShown
<1>5. consumer' = [consumer EXCEPT ![c] = k]
  BY <1>1, <1>2, <1>3 DEF Over
<1>6. ToldOK(c, k)
  <2>1. ToldOK(c, r)
    BY SessionNewsAssumption DEF WasOK, SubscriberOK, ToldOK, SameHistory
  <2> QED
    BY <1>1, <1>4, <2>1, LinkToldOK DEF SameHistory
<1>7. (SameShown(k, m) /\ k.ended = m.ended) \/ k.shown = None
  BY <1>0, <1>1, <1>4 DEF Tells, SameHistory, SameShown, ConsumerState
<1>8. k.at = m.at /\ k.open = m.open /\ k.queue = << >>
  BY <1>1, <1>2, <1>4 DEF Tells, SameLink
<1> QED
  BY <1>0, <1>4, <1>5, <1>6, <1>7, <1>8, AloneKeeps

LEMMA LinkMissesKeeps == ASSUME IInv, NEW c \in Link, LinkMisses(c) PROVE IInv'
<1>0. c \in Consumer /\ HostStays /\ DropsGrow
  BY DEF Consumer, LinkMisses, HostStays, DropsGrow
<1>1. PICK m : WasOK(c, m) /\ m = consumer[c]
  BY <1>0, Before
<1>2. m \in ConsumerState /\ m.phase = "subscribed"
  BY <1>1 DEF WasOK, LinkMisses
<1>3. \/ consumer' = [consumer EXCEPT ![c] = Off(m)]
      \/ consumer' = [consumer EXCEPT ![c] = Over(m)]
      \/ \E i : consumer' = [consumer EXCEPT ![c] = Over(ToldOnce(m, i))]
  BY <1>1 DEF LinkMisses
<1>4. ASSUME NEW i, consumer' = [consumer EXCEPT ![c] = Over(ToldOnce(m, i))] PROVE IInv'
  BY <1>0, <1>1, <1>2, <1>4, OverToldKeeps DEF SameHistory, SameShown
<1> QED
  BY <1>0, <1>1, <1>2, <1>3, <1>4, OffKeeps

LEMMA LinkAttachesKeeps == ASSUME IInv, NEW c \in Link, LinkAttaches(c) PROVE IInv'
<1>0. c \in Consumer /\ c \notin Listener /\ HostStays /\ DropsGrow
  BY SessionNewsAssumption DEF Consumer, LinkAttaches, HostStays, DropsGrow
<1>1. PICK m : WasOK(c, m) /\ m = consumer[c]
  BY <1>0, Before
<1>2. m \in ConsumerState /\ m.phase = "listed" /\ listed \in Inc
  BY <1>1 DEF WasOK, LinkAttaches, TypeOK
<1>3. PICK s \in BOOLEAN : /\ ~m.open => s
                           /\ consumer' = [consumer EXCEPT ![c] = [Attached(m, listed) EXCEPT !.snapshot = s]]
  BY <1>1 DEF LinkAttaches
<1>4. PICK due \in BOOLEAN : due = IF m.open THEN m.due ELSE m.summary.exit
  BY <1>2 DEF ConsumerState, Summary
<1>5. PICK shown \in Program \cup {None} :
        shown = IF m.open \/ m.summary.program # None THEN m.summary.program ELSE m.shown
  BY <1>2 DEF ConsumerState, Summary
<1>6. PICK k : k = [m EXCEPT !.phase = "up", !.at = listed, !.open = TRUE, !.snapshot = s, !.due = due, !.shown = shown]
  OBVIOUS
<1>7. /\ k \in ConsumerState /\ k.phase = "up" /\ k.at = listed /\ k.open /\ k.snapshot = s /\ k.due = due
      /\ k.shown = shown /\ k.sub = m.sub /\ k.queue = m.queue /\ SameHistory(k, m)
  <2>1. s \in BOOLEAN /\ due \in BOOLEAN /\ shown \in Program \cup {None} /\ listed \in Inc /\ m \in ConsumerState
    BY <1>2
  <2> QED
    BY ONLY <1>6, <2>1 DEF ConsumerState, SameHistory
<1>8. [Attached(m, listed) EXCEPT !.snapshot = s] = k
  BY ONLY <1>2, <1>4, <1>5, <1>6 DEF Attached, ConsumerState
<1>9. session[listed].state = "open"
  BY <1>1, <1>2, OpenIsNewest DEF WasOK
<1>10. QueueOK(k)
  BY <1>1, <1>2, <1>7, <1>9 DEF WasOK, SubscriberOK, QueueOK
<1>11. ToldOK(c, k)
  BY <1>0, <1>1, <1>7 DEF WasOK, SubscriberOK, ToldOK, SameHistory
<1>12. ProgramOK(c, k)
  <2>1. ASSUME ~behind, NEW i \in Inc, listed = i, Running(i), ~Holds(session[i].sent, "Program"), k.sub
        PROVE  RunningOK(c, k, i)
    <3>1. RunningOK(c, m, i)
      BY <1>1, <1>7, <2>1 DEF WasOK, SubscriberOK, ProgramOK
    <3>2. ASSUME ~Holds(k.queue, "Program") PROVE k.shown = session[i].program \/ Holds(k.queue, "Closed")
      <4>1. m.summary.program = session[i].program \/ Holds(k.queue, "Closed")
        BY <1>2, <1>7, <3>1, <3>2 DEF RunningOK, KnownOK
      <4>2. ~m.open => m.shown = None
        BY <1>1 DEF WasOK, SubscriberOK, ProgramOK
      <4> QED
        BY <1>5, <1>7, <4>1, <4>2
    <3> QED
      BY <1>0, <1>7, <3>1, <3>2 DEF RunningOK, KnownOK
  <2> QED
    BY <1>0, <1>7, <2>1 DEF ProgramOK
<1>13. EndOK(c, k)
  BY <1>0, <1>1, <1>2, <1>3, <1>4, <1>7 DEF WasOK, SubscriberOK, EndOK, Coming
<1>14. consumer' = [consumer EXCEPT ![c] = k]
  BY <1>3, <1>8
<1>15. Typed(c, k)
  BY <1>2, <1>7, Numbers DEF Typed
<1> QED
  BY <1>0, <1>10, <1>11, <1>12, <1>13, <1>14, <1>15, EndStays, OneSubscriber DEF Becomes, IInv

LEMMA LinkShowsKeeps == ASSUME IInv, NEW c \in Link, LinkShows(c) PROVE IInv'
<1>0. c \in Consumer /\ c \notin Listener /\ HostStays /\ DropsGrow
  BY SessionNewsAssumption DEF Consumer, LinkShows, HostStays, DropsGrow
<1>1. PICK m : WasOK(c, m) /\ m = consumer[c]
  BY <1>0, Before
<1>2. m \in ConsumerState /\ m.phase = "up"
  BY <1>1 DEF WasOK, LinkShows
<1>3. PICK l : l = [m EXCEPT !.snapshot = FALSE, !.due = FALSE]
  OBVIOUS
<1>4. /\ l \in ConsumerState /\ l.phase = m.phase /\ l.at = m.at /\ l.open = m.open
      /\ l.sub = m.sub /\ l.queue = m.queue /\ SameHistory(l, m) /\ SameShown(l, m)
  BY ONLY <1>2, <1>3 DEF ConsumerState, SameHistory, SameShown
<1>5. PICK k : /\ consumer' = [consumer EXCEPT ![c] = k]
               /\ m.due => k = ToldOnce(l, l.at)
               /\ ~m.due => k = l
  <2>1. PICK k : k = IF m.due THEN ToldOnce(l, l.at) ELSE l
    OBVIOUS
  <2>2. consumer' = [consumer EXCEPT ![c] = k]
    BY <1>1, <1>3, <2>1 DEF LinkShows
  <2> QED
    BY <2>1, <2>2
<1>6. Tells(ToldOnce(l, l.at), l, l.at)
  BY <1>4, ToldOnceTells
<1>7. /\ k \in ConsumerState /\ k.phase = "up" /\ k.at = m.at /\ k.open = m.open
      /\ k.sub = m.sub /\ k.queue = m.queue /\ (m.due => k.ended)
      /\ (SameShown(k, m) /\ k.ended = m.ended) \/ (k.shown = None /\ k.ended)
      /\ m.ended => k.ended
  <2>1. CASE m.due
    <3>1. Tells(k, l, l.at) /\ l.ended \in BOOLEAN
      BY <1>4, <1>5, <1>6, <2>1 DEF ConsumerState
    <3> QED
      BY <1>2, <1>4, <3>1 DEF Tells, SameLink, SameHistory, SameShown
  <2>2. CASE ~m.due
    BY <1>2, <1>4, <1>5, <2>2 DEF SameHistory
  <2> QED
    BY <2>1, <2>2
<1>8. QueueOK(k)
  BY <1>1, <1>2, <1>7 DEF WasOK, SubscriberOK, QueueOK
<1>9. ToldOK(c, k)
  <2>1. ToldOK(c, l)
    BY <1>0, <1>1, <1>4 DEF WasOK, SubscriberOK, ToldOK, SameHistory
  <2> QED
    BY <1>4, <1>5, <1>6, <2>1, LinkToldOK
<1>10. ProgramOK(c, k)
  BY <1>0, <1>1, <1>2, <1>7 DEF WasOK, SubscriberOK, ProgramOK, RunningOK, KnownOK, SameShown
<1>11. EndOK(c, k)
  BY <1>0, <1>1, <1>2, <1>7 DEF WasOK, SubscriberOK, EndOK, Coming
<1> QED
  BY <1>0, <1>1, <1>2, <1>5, <1>7, <1>8, <1>9, <1>10, <1>11, EndStays, OneSubscriber DEF Becomes, IInv, Typed, WasOK

LEMMA PendingTail ==
  ASSUME NEW m \in ConsumerState, NEW k, m.queue # << >>, k.queue = Tail(m.queue), NEW i, Pending(m, i)
  PROVE  Pending(k, i) \/ (Head(m.queue).type = "Exited" /\ ~Holds(k.queue, "Created"))
<1>1. m.queue \in Seq(Event)
  BY DEF ConsumerState
<1>2. ASSUME NEW n \in 1..Len(m.queue), m.queue[n].type = "Exited",
             \A j \in 1..Len(m.queue) : j > n => m.queue[j].type # "Created"
      PROVE  Pending(k, i) \/ (Head(m.queue).type = "Exited" /\ ~Holds(k.queue, "Created"))
  <2>1. ASSUME NEW j \in 1..Len(k.queue) PROVE j + 1 \in 1..Len(m.queue) /\ k.queue[j] = m.queue[j + 1]
    BY <1>1, TailHolds
  <2>2. ASSUME NEW j \in 1..Len(k.queue), j + 1 > n PROVE k.queue[j].type # "Created"
    BY <1>2, <2>1, <2>2
  <2>3. CASE n = 1
    <3>1. \A j \in 1..Len(k.queue) : j + 1 > n
      BY <2>3
    <3> QED
      BY <1>1, <1>2, <2>2, <2>3, <3>1, TailHolds DEF Holds
  <2>4. CASE n # 1
    <3>1. n - 1 \in 1..Len(k.queue) /\ k.queue[n - 1] = m.queue[n]
      BY <1>1, <2>4, TailHolds
    <3>2. \A j \in 1..Len(k.queue) : j > n - 1 => j + 1 > n
      OBVIOUS
    <3> QED
      BY <1>2, <2>2, <3>1, <3>2 DEF Pending
  <2> QED
    BY <2>3, <2>4
<1> QED
  BY <1>2 DEF Pending

(* An event heard: the rest of the queue is as the queue was. *)
LEMMA QueueTailOK ==
  ASSUME NEW c, NEW m, NEW k, WasOK(c, m), m.phase \in {"up", "dropped"}, m.queue # << >>,
         k.phase = m.phase, k.sub = m.sub, k.queue = Tail(m.queue),
         k.at = m.at \/ session[k.at].state # "unborn"
  PROVE  QueueOK(k)
<1>1. m.queue \in Seq(Event) /\ QueueOK(m)
  BY DEF WasOK, SubscriberOK, ConsumerState
<1>2. ASSUME NEW n \in 1..Len(k.queue) PROVE EventOK(k.queue, n)
  <2>1. n + 1 \in 1..Len(m.queue) /\ k.queue[n] = m.queue[n + 1]
    BY <1>1, TailHolds
  <2>2. EventOK(m.queue, n + 1)
    BY <1>1, <2>1 DEF QueueOK
  <2>3. ASSUME NEW j \in 1..Len(k.queue), j < n
        PROVE  j + 1 \in 1..Len(m.queue) /\ k.queue[j] = m.queue[j + 1] /\ j + 1 < n + 1
    BY <1>1, <2>3, TailHolds
  <2> QED
    BY <2>1, <2>2, <2>3 DEF EventOK
<1>3. ASSUME k.sub, Gone, ~behind, NEW n \in 1..Len(k.queue), k.queue[n].type = "Program"
      PROVE  ClosesAfter(k.queue, n)
  <2>1. n + 1 \in 1..Len(m.queue) /\ k.queue[n] = m.queue[n + 1]
    BY <1>1, TailHolds
  <2>2. ClosesAfter(m.queue, n + 1)
    BY <1>1, <1>3, <2>1 DEF QueueOK
  <2> QED
    BY <1>1, <2>2, ClosesTail
<1> QED
  BY <1>1, <1>2, <1>3 DEF QueueOK

LEMMA ComingTail ==
  ASSUME NEW m \in ConsumerState, NEW k, m.queue # << >>, k.queue = Tail(m.queue), NEW i, Coming(m, i)
  PROVE  Coming(k, i) \/ Head(m.queue).type \in {"Exited", "Closed"}
<1>1. m.queue \in Seq(Event)
  BY DEF ConsumerState
<1> QED
  BY <1>1, TailHolds DEF Coming

(* What the rest of a queue says of the program, once its head is heard. *)
LEMMA RunningTail ==
  ASSUME NEW m \in ConsumerState, NEW k, m.queue # << >>, k.queue = Tail(m.queue), NEW c, NEW i \in Inc,
         RunningOK(c, m, i), QueueOK(m), HostOK, listed = i, ~behind
  PROVE  /\ LastOK(k.queue, i)
         /\ ~Holds(k.queue, "Program") =>
              /\ FirstOK(k.queue, i)
              /\ \/ Head(m.queue).type = "Program" /\ Head(m.queue).program = session[i].program
                 \/ /\ Head(m.queue).type = "Program" /\ session[i].program = None
                    /\ Holds(k.queue, "Closed")
                 \/ Head(m.queue).type # "Program" /\ FirstOK(m.queue, i) /\ KnownOK(c, m, i)
<1>1. m.queue \in Seq(Event)
  BY DEF ConsumerState
<1>2. ASSUME NEW n \in 1..Len(k.queue), IsLast(k.queue, n, "Program")
      PROVE  IF k.queue[n].inc = i THEN k.queue[n].program = session[i].program
             ELSE session[i].program = None /\ ClosesAfter(k.queue, n)
  <2>1. n + 1 \in 1..Len(m.queue) /\ IsLast(m.queue, n + 1, "Program") /\ m.queue[n + 1] = k.queue[n]
    BY <1>1, <1>2, LastTail
  <2>2. IF k.queue[n].inc = i THEN k.queue[n].program = session[i].program
        ELSE session[i].program = None /\ ClosesAfter(m.queue, n + 1)
    BY <2>1 DEF RunningOK, LastOK
  <2> QED
    BY <1>1, <2>2, ClosesTail
<1>3. ASSUME ~Holds(k.queue, "Program")
      PROVE  /\ FirstOK(k.queue, i)
             /\ \/ Head(m.queue).type = "Program" /\ Head(m.queue).program = session[i].program
                \/ /\ Head(m.queue).type = "Program" /\ session[i].program = None
                   /\ Holds(k.queue, "Closed")
                \/ Head(m.queue).type # "Program" /\ FirstOK(m.queue, i) /\ KnownOK(c, m, i)
  <2>1. 1 \in 1..Len(m.queue) /\ Head(m.queue) = m.queue[1] /\ m.queue[1] \in Event
    BY <1>1, TailHolds
  <2>2. k.queue # << >> /\ k.queue[1].inc # i => m.queue[1].inc # i
    <3> SUFFICES ASSUME k.queue # << >>, k.queue[1].inc # i PROVE m.queue[1].inc # i
      OBVIOUS
    <3>1. 2 \in 1..Len(m.queue) /\ k.queue[1] = m.queue[2] /\ m.queue[2] \in Event
      <4>1. k.queue \in Seq(Event)
        BY <1>1, TailHolds
      <4>2. 1 \in 1..Len(k.queue)
        BY <4>1, TailHolds
      <4> QED
        BY <1>1, <4>2, TailHolds
    <3>2. EventOK(m.queue, 2)
      BY <3>1 DEF QueueOK
    <3>3. m.queue[1].inc <= m.queue[2].inc /\ session[m.queue[2].inc].state # "unborn"
      BY <2>1, <3>2 DEF EventOK
    <3>4. m.queue[2].inc < i
      BY <3>1, <3>3, OpenIsNewest DEF Event
    <3>5. m.queue[1].inc \in Inc /\ m.queue[2].inc \in Inc
      BY <1>1, <2>1, <3>1, Elements
    <3> QED
      BY <3>3, <3>4, <3>5, Order
  <2>3. CASE Head(m.queue).type = "Program"
    <3>1. ASSUME NEW j \in 1..Len(m.queue), j > 1 PROVE m.queue[j].type # "Program"
      <4>1. j - 1 \in 1..Len(k.queue) /\ m.queue[j] = k.queue[j - 1]
        BY <1>1, <3>1, TailHolds
      <4> QED
        BY <1>3, <4>1 DEF Holds
    <3>2. IsLast(m.queue, 1, "Program")
      BY <2>1, <2>3, <3>1 DEF IsLast
    <3>3. IF m.queue[1].inc = i THEN m.queue[1].program = session[i].program
          ELSE session[i].program = None /\ ClosesAfter(m.queue, 1)
      BY <2>1, <3>2 DEF RunningOK, LastOK
    <3> QED
      BY <1>1, <2>1, <2>2, <2>3, <3>3, FirstCloses DEF FirstOK
  <2>4. CASE Head(m.queue).type # "Program"
    <3>1. ~Holds(m.queue, "Program")
      BY <1>1, <1>3, <2>4, TailHolds
    <3>2. FirstOK(m.queue, i) /\ KnownOK(c, m, i)
      BY <3>1 DEF RunningOK
    <3> QED
      BY <2>2, <2>4, <3>2 DEF FirstOK
  <2> QED
    BY <2>3, <2>4
<1> QED
  BY <1>2, <1>3 DEF LastOK

(* A link that heard an event other than Closed. *)
LEMMA LinkHeard ==
  ASSUME IInv, NEW c \in Link, NEW m, NEW k, WasOK(c, m), HostStays, DropsGrow,
         consumer' = [consumer EXCEPT ![c] = k], m.phase \in {"up", "dropped"}, m.queue # << >>,
         k \in ConsumerState, k.phase = m.phase, k.sub = m.sub, k.at = m.at, k.open = m.open,
         k.queue = Tail(m.queue), k.due = m.due, k.snapshot = m.snapshot, ToldOK(c, k),
         \/ Head(m.queue).type = "Created" /\ k.ended = m.ended /\ k.shown = m.shown
         \/ Head(m.queue).type = "Program" /\ k.ended = m.ended /\ k.shown = Head(m.queue).program
         \/ Head(m.queue).type = "Exited" /\ k.ended
  PROVE  IInv'
<1>0. c \in Consumer /\ c \notin Listener
  BY SessionNewsAssumption DEF Consumer
<1>1. m \in ConsumerState /\ QueueOK(m) /\ HostOK /\ m.queue \in Seq(Event)
  BY DEF WasOK, SubscriberOK, ConsumerState
<1>2. QueueOK(k)
  BY QueueTailOK
<1>3. k.open
  BY DEF WasOK, SubscriberOK, ProgramOK
<1>4. ASSUME ~behind, NEW i \in Inc, listed = i, Running(i), ~Holds(session[i].sent, "Program"), k.sub
      PROVE  RunningOK(c, k, i)
  <2>1. RunningOK(c, m, i)
    BY <1>4 DEF WasOK, SubscriberOK, ProgramOK
  <2>2. LastOK(k.queue, i) /\ (~Holds(k.queue, "Program") => FirstOK(k.queue, i))
    BY <1>1, <1>4, <2>1, RunningTail
  <2>3. ASSUME ~Holds(k.queue, "Program"), k.phase = "up", k.at = i, ~k.ended
        PROVE  k.shown = session[i].program \/ Holds(k.queue, "Closed")
    <3>1. \/ Head(m.queue).type = "Program" /\ Head(m.queue).program = session[i].program
          \/ Holds(k.queue, "Closed")
          \/ Head(m.queue).type # "Program" /\ KnownOK(c, m, i)
      BY <1>1, <1>4, <2>1, <2>3, RunningTail
    <3>2. ASSUME Head(m.queue).type # "Program", KnownOK(c, m, i)
          PROVE  k.shown = session[i].program \/ Holds(k.queue, "Closed")
      <4>1. Head(m.queue).type = "Created" /\ k.shown = m.shown /\ ~m.ended
        BY <2>3, <3>2
      <4>2. m.shown = session[i].program \/ Holds(m.queue, "Closed")
        BY <2>3, <3>2, <4>1 DEF KnownOK
      <4> QED
        BY <1>1, <4>1, <4>2, TailHolds
    <3> QED
      BY <3>1, <3>2
  <2> QED
    BY <1>0, <2>2, <2>3 DEF RunningOK, KnownOK, WasOK
<1>5. ProgramOK(c, k)
  BY <1>0, <1>3, <1>4 DEF ProgramOK
<1>6. EndOK(c, k)
  <2>1. ASSUME NEW i \in Inc, session[i].exit, drops = 0, k.phase = "up", listed = i, k.at = i
        PROVE  k.ended \/ (k.due /\ k.snapshot) \/ Coming(k, i)
    <3>1. m.ended \/ (m.due /\ m.snapshot) \/ Coming(m, i)
      BY <2>1 DEF WasOK, SubscriberOK, EndOK
    <3>2. Coming(m, i) => Coming(k, i) \/ Head(m.queue).type \in {"Exited", "Closed"}
      BY <1>1, ComingTail
    <3> QED
      BY <3>1, <3>2
  <2> QED
    BY <1>0, <2>1 DEF EndOK, WasOK, SubscriberOK
<1>7. Typed(c, k)
  BY <1>2 DEF Typed, WasOK
<1> QED
  BY <1>0, <1>2, <1>5, <1>6, <1>7, EndStays, OneSubscriber DEF Becomes, IInv

LEMMA LinkHearsKeeps == ASSUME IInv, NEW c \in Link, LinkHears(c) PROVE IInv'
<1>0. c \in Consumer /\ c \notin Listener /\ HostStays /\ DropsGrow
  BY SessionNewsAssumption DEF Consumer, LinkHears, HostStays, DropsGrow
<1>1. PICK m : WasOK(c, m) /\ m = consumer[c]
  BY <1>0, Before
<1>2. m \in ConsumerState /\ m.phase \in {"up", "dropped"} /\ m.queue # << >>
  BY <1>1 DEF WasOK, LinkHears
<1>3. PICK e : e = Head(m.queue) /\ e \in Event
  BY <1>2, TailHolds DEF ConsumerState
<1>4. PICK q : q = Tail(m.queue) /\ q \in Seq(Event)
  BY <1>2, TailHolds DEF ConsumerState
<1>5. PICK r : r = [m EXCEPT !.queue = q]
  OBVIOUS
<1>6. /\ r \in ConsumerState /\ r.phase = m.phase /\ r.sub = m.sub /\ r.queue = q /\ r.at = m.at
      /\ SameHistory(r, m) /\ SameShown(r, m) /\ SameLink(r, m)
  <2>1. m \in ConsumerState /\ q \in Seq(Event)
    BY <1>2, <1>4
  <2> QED
    BY ONLY <1>5, <2>1 DEF ConsumerState, SameHistory, SameShown, SameLink
<1>7. ToldOK(c, r)
  BY <1>0, <1>1, <1>6 DEF WasOK, SubscriberOK, ToldOK, SameHistory
<1>8. consumer' = [consumer EXCEPT ![c] =
          CASE e.type = "Program" -> [r EXCEPT !.shown = e.program]
            [] e.type = "Exited"  -> ToldOnce(r, e.inc)
            [] e.type = "Closed"  -> Over(ToldOnce(r, e.inc))
            [] e.type = "Created" -> r]
  BY <1>1, <1>3, <1>4, <1>5 DEF LinkHears
<1>9. CASE e.type = "Created"
  <2>1. consumer' = [consumer EXCEPT ![c] = r]
    BY <1>8, <1>9
  <2> QED
    BY <1>0, <1>1, <1>2, <1>3, <1>4, <1>6, <1>7, <1>9, <2>1, LinkHeard DEF SameHistory, SameShown, SameLink
<1>10. CASE e.type = "Program"
  <2>1. PICK k : k = [r EXCEPT !.shown = e.program] /\ consumer' = [consumer EXCEPT ![c] = k]
    BY <1>8, <1>10
  <2>2. e.program \in Program \cup {None}
    BY <1>3 DEF Event
  <2>3. /\ k \in ConsumerState /\ k.phase = r.phase /\ k.sub = r.sub /\ k.queue = r.queue /\ k.at = r.at
        /\ k.shown = e.program /\ SameHistory(k, r) /\ SameLink(k, r)
    BY <1>6, <2>1, <2>2 DEF ConsumerState, SameHistory, SameLink
  <2>4. ToldOK(c, k)
    BY <1>6, <1>7, <2>3, LinkToldOK DEF SameHistory
  <2> QED
    BY <1>0, <1>1, <1>2, <1>3, <1>4, <1>6, <1>10, <2>1, <2>3, <2>4, LinkHeard DEF SameHistory, SameLink
<1>11. CASE e.type = "Exited"
  <2>1. PICK k : k = ToldOnce(r, e.inc) /\ Tells(k, r, e.inc)
    BY <1>6, ToldOnceTells
  <2>2. consumer' = [consumer EXCEPT ![c] = k]
    BY <1>8, <1>11, <2>1
  <2>3. ToldOK(c, k)
    BY <1>6, <1>7, <2>1, LinkToldOK
  <2>4. /\ k \in ConsumerState /\ k.phase = m.phase /\ k.sub = m.sub /\ k.at = m.at /\ k.open = m.open
        /\ k.queue = q /\ k.due = m.due /\ k.snapshot = m.snapshot /\ k.ended
    BY <1>6, <2>1 DEF Tells, SameLink
  <2> QED
    BY <1>0, <1>1, <1>2, <1>3, <1>4, <1>11, <2>2, <2>3, <2>4, LinkHeard
<1>12. CASE e.type = "Closed"
  <2>1. consumer' = [consumer EXCEPT ![c] = Over(ToldOnce(r, e.inc))]
    BY <1>8, <1>12
  <2> QED
    BY <1>0, <1>1, <1>6, <2>1, OverToldKeeps DEF SameLink
<1>13. e.type \in {"Created", "Program", "Exited", "Closed"}
  BY <1>3 DEF Event
<1> QED
  BY <1>9, <1>10, <1>11, <1>12, <1>13

LEMMA SeedsNothingKeeps ==
  ASSUME IInv, NEW c \in Listener, HostStays, DropsGrow, consumer[c].phase = "subscribed", listed = None,
         consumer' = [consumer EXCEPT ![c].phase = "up", ![c].shown = None]
  PROVE  IInv'
<1>0. c \in Consumer /\ c \notin Link
  BY SessionNewsAssumption DEF Consumer
<1>1. PICK m : WasOK(c, m) /\ m = consumer[c]
  BY <1>0, Before
<1>2. m \in ConsumerState /\ m.phase = "subscribed"
  BY <1>1 DEF WasOK
<1>3. PICK k : k = [m EXCEPT !.phase = "up", !.shown = None]
  OBVIOUS
<1>4. /\ k \in ConsumerState /\ k.phase = "up" /\ k.shown = None /\ k.sub = m.sub /\ k.queue = m.queue
      /\ k.at = m.at /\ SameHistory(k, m) /\ k.revived = m.revived
  BY ONLY <1>2, <1>3 DEF ConsumerState, SameHistory
<1>5. consumer' = [consumer EXCEPT ![c] = k]
  BY <1>0, <1>1, <1>3 DEF WasOK, TypeOK
<1>6. QueueOK(k)
  BY <1>1, <1>2, <1>4 DEF WasOK, SubscriberOK, QueueOK
<1>7. ToldOK(c, k)
  BY <1>0, <1>1, <1>2, <1>4 DEF WasOK, SubscriberOK, ToldOK, EndedOK, Past, SameHistory
<1>8. \A i \in Inc : listed # i
  BY Numbers
<1>9. ProgramOK(c, k)
  BY <1>0, <1>4, <1>8 DEF ProgramOK
<1>10. EndOK(c, k)
  BY <1>0, <1>8 DEF EndOK
<1> QED
  BY <1>0, <1>4, <1>5, <1>6, <1>7, <1>9, <1>10, EndStays, OneSubscriber DEF Becomes, IInv, Typed

LEMMA SeedsListingKeeps ==
  ASSUME IInv, NEW c \in Listener, HostStays, DropsGrow, consumer[c].phase = "listing",
         consumer' = [consumer EXCEPT ![c] = Seeded(consumer[c], consumer[c].at)]
  PROVE  IInv'
<1>0. c \in Consumer /\ c \notin Link
  BY SessionNewsAssumption DEF Consumer
<1>1. PICK m : WasOK(c, m) /\ m = consumer[c]
  BY <1>0, Before
<1>2. m \in ConsumerState /\ m.phase = "listing" /\ HostOK /\ TypeOK /\ QueueOK(m) /\ m.sub
  BY <1>1 DEF WasOK, SubscriberOK, QueueOK
<1>3. PICK x \in Inc : /\ x = m.at /\ session[x].state # "unborn"
                       /\ session[x].state = "closed" => Holds(m.queue, "Closed")
                       /\ \A i \in Inc : i > x /\ session[i].pump => Holds(m.queue, "Created")
  BY <1>2 DEF QueueOK, ConsumerState
<1>4. PICK p \in Program \cup {None} : p = session[x].program
  BY <1>2 DEF TypeOK, SessionState
<1>5. session[x].exit \in BOOLEAN /\ (session[x].exit => p = None)
  BY <1>2, <1>4 DEF TypeOK, SessionState, HostOK, SentOK
<1>6. PICK r : r = IF session[x].exit THEN ToldOnce(m, x) ELSE [m EXCEPT !.ended = FALSE]
  OBVIOUS
<1>7. /\ r \in ConsumerState /\ r.sub = m.sub /\ r.queue = m.queue /\ r.at = m.at /\ r.late = m.late
      /\ r.revived = m.revived /\ (r.ended <=> session[x].exit)
      /\ ~session[x].exit \/ m.ended => r.told = m.told
      /\ session[x].exit /\ ~m.ended =>
           \A j \in Inc : r.told[j] <= m.told[j] + 1 /\ (j # x => r.told[j] = m.told[j])
  <2>1. CASE session[x].exit
    <3>1. Tells(r, m, x)
      BY <1>2, <1>6, <2>1, ToldOnceTells
    <3> QED
      BY <2>1, <3>1 DEF Tells
  <2>2. CASE ~session[x].exit
    <3>1. r = [m EXCEPT !.ended = FALSE]
      BY <1>6, <2>2
    <3> QED
      BY <1>2, <2>2, <3>1 DEF ConsumerState
  <2> QED
    BY <2>1, <2>2
<1>8. PICK k : k = [r EXCEPT !.phase = "up", !.shown = p]
  OBVIOUS
<1>9. /\ k \in ConsumerState /\ k.phase = "up" /\ k.shown = p /\ k.sub = r.sub /\ k.queue = r.queue
      /\ k.at = r.at /\ SameHistory(k, r) /\ k.revived = r.revived
  <2>1. r \in ConsumerState /\ p \in Program \cup {None}
    BY <1>7
  <2> QED
    BY ONLY <1>8, <2>1 DEF ConsumerState, SameHistory
<1>10. consumer' = [consumer EXCEPT ![c] = k]
  BY <1>1, <1>3, <1>4, <1>6, <1>8 DEF Seeded, Says
<1>11. QueueOK(k)
  BY <1>2, <1>7, <1>9 DEF QueueOK
<1>12. ToldOK(c, k)
  <2>1. ASSUME ~k.late, NEW j \in Inc PROVE k.told[j] <= 1 /\ (k.told[j] = 1 => EndedOK(k, j))
    <3>1. m.told[j] \in 0..2 /\ k.told[j] \in 0..2 /\ r.told[j] = k.told[j] /\ r.told[x] = k.told[x]
      BY <1>2, <1>9, <2>1 DEF ConsumerState, SameHistory
    <3>2. m.told[j] <= 1 /\ (m.told[j] = 1 => EndedOK(m, j))
      BY <1>0, <1>1, <1>7, <1>9, <2>1 DEF WasOK, SubscriberOK, ToldOK, SameHistory
    <3>3. k.at = x /\ k.phase # "listing" /\ k.queue = m.queue /\ (k.ended <=> session[x].exit)
      BY <1>3, <1>7, <1>9 DEF SameHistory
    <3>4. CASE m.told[j] = 1
      <4>1. EndedOK(m, j) /\ j <= x /\ (j = x => session[x].exit) /\ (~m.ended => j < x)
        BY <1>2, <1>3, <3>2, <3>4 DEF EndedOK
      <4>2. j = x \/ j < x
        BY <4>1, Numbers
      <4>3. ~k.ended => j < x
        BY <3>3, <4>1, <4>2
      <4>4. EndedOK(k, j)
        BY <1>3, <3>3, <4>1, <4>3, Numbers DEF EndedOK, Past
      <4>5. k.told[j] = m.told[j]
        BY <1>3, <1>5, <1>7, <3>1, <4>1, <4>2, Numbers
      <4> QED
        BY <3>4, <4>4, <4>5
    <3>5. CASE m.told[j] = 0
      <4>1. k.told[j] = 1 => j = x /\ session[x].exit
        BY <1>5, <1>7, <3>1, <3>5
      <4>2. k.told[j] <= 1
        BY <1>5, <1>7, <3>1, <3>5
      <4>3. j = x /\ session[x].exit => EndedOK(k, j)
        BY <1>3, <3>3, Numbers DEF EndedOK, Past
      <4> QED
        BY <4>1, <4>2, <4>3
    <3> QED
      BY <3>1, <3>2, <3>4, <3>5
  <2> QED
    BY <1>0, <2>1 DEF ToldOK
<1>13. ASSUME NEW i \in Inc, listed = i PROVE i = x \/ (x < i /\ session[x].state = "closed")
  BY <1>2, <1>3, <1>13, OpenIsNewest
<1>14. ProgramOK(c, k)
  <2>1. ASSUME ~behind, NEW i \in Inc, listed = i, Running(i), ~Holds(session[i].sent, "Program"), k.sub
        PROVE  RunningOK(c, k, i)
    <3>1. RunningOK(c, m, i)
      BY <1>1, <1>2, <2>1 DEF WasOK, SubscriberOK, ProgramOK
    <3>2. ASSUME ~Holds(m.queue, "Program"), i # x
          PROVE  session[i].program = None /\ Holds(m.queue, "Closed")
      <4>1. Holds(m.queue, "Closed")
        BY <1>3, <1>13, <2>1, <3>2
      <4>2. PICK n \in 1..Len(m.queue) : m.queue[n].type = "Closed"
        BY <4>1 DEF Holds
      <4>3. EventOK(m.queue, n) /\ m.queue \in Seq(Event) /\ m.queue # << >>
        BY <1>2, <4>2 DEF QueueOK, ConsumerState
      <4>4. 1 \in 1..Len(m.queue) /\ m.queue[1].inc \in Inc /\ m.queue[n].inc \in Inc
        BY <4>2, <4>3, TailHolds, Elements
      <4>5. m.queue[n].inc < i
        BY <1>2, <2>1, <4>2, <4>3, <4>4, OpenIsNewest DEF EventOK
      <4>6. m.queue[1].inc <= m.queue[n].inc
        <5>1. n = 1 \/ 1 < n
          BY <4>2
        <5>2. n = 1 => m.queue[1].inc <= m.queue[n].inc
          BY <4>4, Order
        <5> QED
          BY <2>1, <4>2, <4>3, <4>4, <5>1, <5>2 DEF EventOK
      <4>7. m.queue[1].inc # i
        BY <2>1, <4>4, <4>5, <4>6, Order
      <4> QED
        BY <3>1, <3>2, <4>1, <4>3, <4>7 DEF RunningOK, FirstOK
    <3> QED
      BY <1>0, <1>4, <1>7, <1>9, <3>1, <3>2 DEF RunningOK, KnownOK
  <2>2. k.ended => k.shown = None
    BY <1>5, <1>7, <1>9 DEF SameHistory
  <2>3. Gone => Holds(k.queue, "Closed")
    BY <1>2, <1>3, <1>7, <1>9, GoneIsClosed
  <2> QED
    BY <1>0, <2>1, <2>2, <2>3 DEF ProgramOK
<1>15. EndOK(c, k)
  <2>1. k.queue = m.queue /\ k.sub /\ (k.ended <=> session[x].exit)
    BY <1>2, <1>7, <1>9 DEF SameHistory
  <2>2. ASSUME NEW i PROVE Pending(k, i) <=> Pending(m, i)
    BY <2>1 DEF Pending
  <2>3. ASSUME NEW i \in Inc, listed = i, session[i].exit PROVE k.ended \/ Pending(k, i)
    <3>1. CASE i = x
      BY <2>1, <2>3, <3>1
    <3>2. CASE i # x /\ session[i].pump
      <4>1. Holds(m.queue, "Created")
        BY <1>3, <1>13, <2>3, <3>2, Numbers
      <4> QED
        BY <1>1, <1>2, <2>2, <2>3, <4>1 DEF WasOK, SubscriberOK, EndOK
    <3>3. CASE ~session[i].pump
      <4>1. Holds(session[i].sent, "Exited")
        BY <1>2, <2>3, <3>3 DEF HostOK, SentOK
      <4> QED
        BY <4>1 DEF Pending
    <3> QED
      BY <3>1, <3>2, <3>3
  <2> QED
    BY <1>0, <1>1, <1>2, <2>1, <2>2, <2>3 DEF WasOK, SubscriberOK, EndOK
<1> QED
  BY <1>0, <1>9, <1>10, <1>11, <1>12, <1>14, <1>15, EndStays, OneSubscriber DEF Becomes, IInv, Typed

LEMMA ListenerSeedsKeeps == ASSUME IInv, NEW c \in Listener, ListenerSeeds(c) PROVE IInv'
<1>1. HostStays /\ DropsGrow
  BY DEF ListenerSeeds, HostStays, DropsGrow
<1>2. c \in Consumer
  BY DEF Consumer
<1>3. CASE consumer[c].phase = "listing"
  <2>1. consumer' = [consumer EXCEPT ![c] = Seeded(consumer[c], consumer[c].at)]
    BY <1>3 DEF ListenerSeeds
  <2> QED
    BY <1>1, <1>3, <2>1, SeedsListingKeeps
<1>4. CASE consumer[c].phase = "subscribed"
  BY <1>1, <1>4, SeedsNothingKeeps DEF ListenerSeeds
<1> QED
  BY <1>3, <1>4 DEF ListenerSeeds

(* A listener that heard an event. *)
HeardBy(k, m, e) ==
  \/ /\ e.type = "Program" /\ k.told = m.told /\ k.ended = m.ended /\ k.at = m.at /\ k.shown = e.program
  \/ /\ e.type \in {"Exited", "Closed"} /\ k.at = m.at /\ k.ended
     /\ m.ended => k.told = m.told /\ k.shown = m.shown
     /\ ~m.ended => /\ k.shown = None
                    /\ \A j \in Inc : k.told[j] <= m.told[j] + 1 /\ (j # e.inc => k.told[j] = m.told[j])
  \/ /\ e.type = "Created" /\ k.told = m.told /\ ~k.ended /\ k.at = e.inc /\ k.shown = m.shown

Listened(k, m) ==
  /\ k \in ConsumerState /\ m.phase \in {"up", "dropped"} /\ m.queue # << >>
  /\ k.phase = m.phase /\ k.sub = m.sub /\ k.queue = Tail(m.queue)
  /\ Head(m.queue) \in Event /\ HeardBy(k, m, Head(m.queue))
  /\ ~k.late => ~m.late /\ ~Overtaken(m, Head(m.queue))
  /\ ~k.revived => ~m.revived /\ ~(Head(m.queue).type = "Program" /\ m.ended)

LEMMA ListenedTold ==
  ASSUME NEW c \in Listener, NEW m, NEW k, WasOK(c, m), Listened(k, m)
  PROVE  ToldOK(c, k)
<1>0. c \notin Link /\ m \in ConsumerState /\ m.queue \in Seq(Event) /\ m.queue # << >>
      /\ k.queue = Tail(m.queue) /\ QueueOK(m)
  BY SessionNewsAssumption DEF WasOK, SubscriberOK, Listened, ConsumerState
<1>1. PICK e : e = Head(m.queue) /\ e = m.queue[1] /\ 1 \in 1..Len(m.queue) /\ e \in Event
  BY <1>0, TailHolds
<1>2. EventOK(m.queue, 1)
  BY <1>0, <1>1 DEF QueueOK
<1>3. /\ e.inc \in Inc /\ session[e.inc].state # "unborn" /\ session[e.inc].pump
      /\ e.type = "Exited" => session[e.inc].exit
      /\ e.type = "Closed" => session[e.inc].state = "closed"
  BY <1>1, <1>2 DEF EventOK, Event
<1>4. SUFFICES ASSUME ~k.late, NEW j \in Inc PROVE k.told[j] <= 1 /\ (k.told[j] = 1 => EndedOK(k, j))
  BY <1>0 DEF ToldOK
<1>5. m.told[j] \in 0..2 /\ k.told[j] \in 0..2 /\ k.phase # "listing" /\ j \in Nat /\ e.inc \in Nat
      /\ m.at \in Inc \cup {None} /\ Inc \subseteq Nat /\ None \notin Inc
  BY <1>0, <1>3, Numbers DEF Listened, ConsumerState
<1>6. m.told[j] <= 1 /\ (m.told[j] = 1 => EndedOK(m, j)) /\ ~Overtaken(m, e)
  BY <1>0, <1>1, <1>4 DEF WasOK, SubscriberOK, ToldOK, Listened
<1>7. ASSUME NEW n \in 1..Len(k.queue) PROVE n + 1 \in 1..Len(m.queue) /\ k.queue[n] = m.queue[n + 1]
  BY <1>0, TailHolds
<1>8. HeardBy(k, m, e)
  BY <1>1 DEF Listened
<1>9. ASSUME EndedOK(m, j), k.at = m.at, m.ended => k.ended PROVE EndedOK(k, j)
  BY <1>5, <1>7, <1>9 DEF EndedOK, Past
<1>10. CASE e.type = "Program"
  BY <1>6, <1>8, <1>9, <1>10 DEF HeardBy
<1>11. CASE e.type \in {"Exited", "Closed"}
  <2>1. k.ended /\ k.at = m.at
    BY <1>8, <1>11 DEF HeardBy
  <2>2. CASE m.ended \/ j # e.inc
    <3>1. k.told[j] = m.told[j]
      BY <1>8, <1>11, <2>2 DEF HeardBy
    <3> QED
      BY <1>6, <1>9, <2>1, <3>1
  <2>3. CASE ~m.ended /\ j = e.inc
    <3>1. m.told[j] # 1
      <4> SUFFICES ASSUME m.told[j] = 1 PROVE FALSE
        OBVIOUS
      <4>1. m.at \in Nat /\ j < m.at /\ m.at # None
        BY <1>5, <1>6, <2>3 DEF EndedOK
      <4> QED
        BY <1>6, <2>3, <4>1 DEF Overtaken
    <3>2. k.told[j] <= m.told[j] + 1
      BY <1>8, <1>11, <2>3 DEF HeardBy
    <3>3. ASSUME NEW n \in 1..Len(k.queue), k.queue[n].type = "Created" PROVE ~(k.queue[n].inc <= j)
      <4>1. EventOK(m.queue, n + 1) /\ 1 < n + 1 /\ m.queue[n + 1] \in Event
        BY <1>0, <1>7 DEF QueueOK
      <4>2. m.queue[1].inc < m.queue[n + 1].inc
        BY <1>1, <1>7, <3>3, <4>1 DEF EventOK
      <4> QED
        <5>1. m.queue[n + 1].inc \in Nat /\ k.queue[n].inc = m.queue[n + 1].inc
          BY <1>0, <1>7, <3>3, Elements, Numbers
        <5> QED
          BY <1>1, <1>5, <2>3, <4>2, <5>1
    <3>4. EndedOK(k, j)
      BY <1>3, <1>5, <1>11, <2>1, <2>3, <3>3 DEF EndedOK
    <3> QED
      BY <1>5, <1>6, <3>1, <3>2, <3>4
  <2> QED
    BY <2>2, <2>3
<1>12. CASE e.type = "Created"
  <2>1. k.told = m.told /\ ~k.ended /\ k.at = e.inc
    BY <1>8, <1>12 DEF HeardBy
  <2>2. ASSUME EndedOK(m, j) PROVE EndedOK(k, j)
    <3>1. j < e.inc
      <4> SUFFICES ASSUME e.inc <= j PROVE FALSE
        BY <1>5
      <4>1. m.at # None /\ j <= m.at
        BY <1>1, <1>12, <2>2 DEF EndedOK, Past
      <4> QED
        <5>1. PICK a \in Nat : a = m.at
          BY <1>5, <4>1
        <5>2. PICK b \in Nat : b = e.inc
          BY <1>5
        <5>3. b <= j /\ j <= a
          BY <4>1, <5>1, <5>2
        <5>4. b < a \/ b = a
          BY <1>5, <5>3
        <5> QED
          BY <1>6, <1>12, <4>1, <5>1, <5>2, <5>4 DEF Overtaken
    <3>2. Past(k, j) /\ k.at # None
      BY <1>3, <1>5, <2>1, <3>1 DEF Past
    <3> QED
      BY <1>5, <2>1, <2>2, <3>1, <3>2 DEF EndedOK
  <2> QED
    BY <1>6, <2>1, <2>2
<1> QED
  BY <1>1, <1>10, <1>11, <1>12 DEF Event

LEMMA ListenedProgram ==
  ASSUME NEW c \in Listener, NEW m, NEW k, WasOK(c, m), Listened(k, m)
  PROVE  ProgramOK(c, k)
<1>0. c \notin Link /\ m \in ConsumerState /\ m.queue \in Seq(Event) /\ m.queue # << >>
      /\ k.queue = Tail(m.queue) /\ k.phase = m.phase /\ k.sub = m.sub /\ QueueOK(m) /\ HostOK
  BY SessionNewsAssumption DEF WasOK, SubscriberOK, Listened, ConsumerState
<1>1. PICK e : e = Head(m.queue) /\ e = m.queue[1] /\ 1 \in 1..Len(m.queue) /\ e \in Event
  BY <1>0, TailHolds
<1>2. EventOK(m.queue, 1)
  BY <1>0, <1>1 DEF QueueOK
<1>3. HeardBy(k, m, e)
  BY <1>1 DEF Listened
<1>4. ~k.revived => ~m.revived /\ ~(e.type = "Program" /\ m.ended)
  BY <1>1 DEF Listened
<1>5. ~m.revived /\ m.ended => m.shown = None
  BY DEF WasOK, SubscriberOK, ProgramOK
<1>6. ASSUME ~k.revived, e.type \in {"Exited", "Closed"} PROVE k.shown = None
  BY <1>3, <1>4, <1>5, <1>6 DEF HeardBy
<1>7. ASSUME ~behind, NEW i \in Inc, listed = i, Running(i), ~Holds(session[i].sent, "Program"), k.sub
      PROVE  RunningOK(c, k, i)
  <2>1. RunningOK(c, m, i)
    BY <1>0, <1>7 DEF WasOK, SubscriberOK, ProgramOK
  <2>2. LastOK(k.queue, i) /\ (~Holds(k.queue, "Program") => FirstOK(k.queue, i))
    BY <1>0, <1>7, <2>1, RunningTail
  <2>3. ASSUME ~Holds(k.queue, "Program"), k.phase = "up", ~k.revived
        PROVE  k.shown = session[i].program \/ (session[i].program = None /\ Holds(k.queue, "Closed"))
    <3>1. \/ e.type = "Program" /\ e.program = session[i].program
          \/ session[i].program = None /\ Holds(k.queue, "Closed")
          \/ e.type # "Program" /\ FirstOK(m.queue, i) /\ KnownOK(c, m, i)
      BY <1>0, <1>1, <1>7, <2>1, <2>3, RunningTail
    <3>2. CASE e.type = "Program" /\ e.program = session[i].program
      BY <1>3, <3>2 DEF HeardBy
    <3>3. CASE e.type = "Created" /\ KnownOK(c, m, i)
      <4>1. m.shown = session[i].program \/ (session[i].program = None /\ Holds(m.queue, "Closed"))
        BY <1>0, <1>4, <2>3, <3>3 DEF KnownOK
      <4>2. Holds(m.queue, "Closed") => Holds(k.queue, "Closed")
        BY <1>0, <1>1, <3>3, TailHolds
      <4>3. k.shown = m.shown
        BY <1>3, <3>3 DEF HeardBy
      <4> QED
        BY <4>1, <4>2, <4>3
    <3>4. CASE e.type \in {"Exited", "Closed"} /\ FirstOK(m.queue, i)
      <4>1. e.inc # i
        BY <1>1, <1>2, <1>7, <3>4 DEF EventOK, Running
      <4>2. session[i].program = None
        BY <1>0, <1>1, <3>4, <4>1 DEF FirstOK
      <4> QED
        BY <1>6, <2>3, <3>4, <4>2
    <3> QED
      BY <1>1, <3>1, <3>2, <3>3, <3>4 DEF Event
  <2> QED
    BY <1>0, <2>2, <2>3 DEF RunningOK, KnownOK
<1>8. k.ended /\ ~k.revived => k.shown = None
  BY <1>3, <1>4, <1>5 DEF HeardBy
<1>9. ASSUME k.phase = "up", Gone, ~behind, ~k.revived PROVE Holds(k.queue, "Closed") \/ k.shown = None
  <2>1. CASE e.type = "Program"
    <3>1. m.sub
      BY <1>0, <1>9 DEF QueueOK
    <3>2. ClosesAfter(m.queue, 1)
      BY <1>0, <1>1, <1>9, <2>1, <3>1 DEF QueueOK
    <3> QED
      BY <1>0, <3>2, FirstCloses
  <2>2. CASE e.type \in {"Exited", "Closed"}
    BY <1>6, <1>9, <2>2
  <2>3. CASE e.type = "Created"
    <3>1. Holds(m.queue, "Closed") \/ m.shown = None
      BY <1>0, <1>4, <1>9 DEF WasOK, SubscriberOK, ProgramOK
    <3>2. Holds(m.queue, "Closed") => Holds(k.queue, "Closed")
      BY <1>0, <1>1, <2>3, TailHolds
    <3>3. k.shown = m.shown
      BY <1>3, <2>3 DEF HeardBy
    <3> QED
      BY <3>1, <3>2, <3>3
  <2> QED
    BY <1>1, <2>1, <2>2, <2>3 DEF Event
<1> QED
  BY <1>0, <1>7, <1>8, <1>9 DEF ProgramOK

LEMMA ListenedEnd ==
  ASSUME NEW c \in Listener, NEW m, NEW k, WasOK(c, m), Listened(k, m)
  PROVE  EndOK(c, k)
<1>0. c \notin Link /\ m \in ConsumerState /\ m.queue \in Seq(Event) /\ m.queue # << >>
      /\ k.queue = Tail(m.queue) /\ k.phase = m.phase /\ k.sub = m.sub /\ QueueOK(m)
  BY SessionNewsAssumption DEF WasOK, SubscriberOK, Listened, ConsumerState
<1>1. PICK e : e = Head(m.queue) /\ e \in Event /\ HeardBy(k, m, e)
  BY DEF Listened
<1>2. ASSUME NEW i, Pending(m, i) PROVE Pending(k, i) \/ (e.type = "Exited" /\ ~Holds(k.queue, "Created"))
  BY <1>0, <1>1, <1>2, PendingTail
<1>3. ASSUME NEW i \in Inc, session[i].exit, listed = i, k.sub, Holds(m.queue, "Created") PROVE Pending(m, i)
  BY <1>0, <1>3 DEF WasOK, SubscriberOK, EndOK
<1>4. ASSUME NEW i \in Inc, session[i].exit, listed = i, k.sub, Holds(k.queue, "Created") PROVE Pending(k, i)
  <2>1. Holds(m.queue, "Created")
    BY <1>0, <1>4, TailHolds
  <2> QED
    BY <1>2, <1>3, <1>4, <2>1
<1>5. ASSUME NEW i \in Inc, session[i].exit, k.phase = "up", listed = i PROVE k.ended \/ Pending(k, i)
  <2>1. k.sub /\ (m.ended \/ Pending(m, i))
    BY <1>0, <1>5 DEF WasOK, SubscriberOK, EndOK, QueueOK
  <2>2. CASE e.type = "Created"
    <3>1. Holds(m.queue, "Created")
      BY <1>0, <1>1, <2>2, TailHolds
    <3> QED
      BY <1>2, <1>3, <1>5, <2>1, <2>2, <3>1
  <2>3. CASE e.type = "Program"
    BY <1>1, <1>2, <2>1, <2>3 DEF HeardBy
  <2>4. CASE e.type \in {"Exited", "Closed"}
    BY <1>1, <2>4 DEF HeardBy
  <2> QED
    BY <1>1, <2>2, <2>3, <2>4 DEF Event
<1> QED
  BY <1>0, <1>4, <1>5 DEF EndOK

LEMMA ListenerHeard ==
  ASSUME IInv, NEW c \in Listener, NEW m, NEW k, WasOK(c, m), Listened(k, m), HostStays, DropsGrow,
         consumer' = [consumer EXCEPT ![c] = k]
  PROVE  IInv'
<1>0. c \in Consumer /\ c \notin Link
  BY SessionNewsAssumption DEF Consumer
<1>1. k.at = m.at \/ session[k.at].state # "unborn"
  <2>1. PICK e : e = Head(m.queue) /\ e = m.queue[1] /\ 1 \in 1..Len(m.queue) /\ e \in Event
    BY TailHolds DEF WasOK, Listened, ConsumerState
  <2>2. session[e.inc].state # "unborn"
    BY <2>1 DEF WasOK, SubscriberOK, QueueOK, EventOK
  <2> QED
    BY <2>1, <2>2 DEF Listened, HeardBy
<1>2. QueueOK(k)
  BY <1>1, QueueTailOK DEF Listened
<1>3. ToldOK(c, k) /\ ProgramOK(c, k) /\ EndOK(c, k)
  BY ListenedTold, ListenedProgram, ListenedEnd
<1>4. Typed(c, k)
  BY <1>0, <1>2 DEF Typed, Listened, QueueOK
<1> QED
  BY <1>0, <1>2, <1>3, <1>4, EndStays, OneSubscriber DEF Becomes, IInv

LEMMA ListenerHearsKeeps == ASSUME IInv, NEW c \in Listener, ListenerHears(c) PROVE IInv'
<1>0. c \in Consumer /\ c \notin Link /\ HostStays /\ DropsGrow
  BY SessionNewsAssumption DEF Consumer, ListenerHears, HostStays, DropsGrow
<1>1. PICK m : WasOK(c, m) /\ m = consumer[c]
  BY <1>0, Before
<1>2. m \in ConsumerState /\ m.phase \in {"up", "dropped"} /\ m.queue # << >>
  BY <1>1 DEF WasOK, ListenerHears
<1>3. PICK e : e = Head(m.queue) /\ e \in Event
  BY <1>2, TailHolds DEF ConsumerState
<1>4. PICK q : q = Tail(m.queue) /\ q \in Seq(Event)
  BY <1>2, TailHolds DEF ConsumerState
<1>5. PICK late \in BOOLEAN : late = (m.late \/ Overtaken(m, e))
  OBVIOUS
<1>6. PICK revived \in BOOLEAN : revived = (m.revived \/ (e.type = "Program" /\ m.ended))
  OBVIOUS
<1>7. PICK r : r = [m EXCEPT !.queue = q, !.late = late, !.revived = revived]
  OBVIOUS
<1>8. /\ r \in ConsumerState /\ r.phase = m.phase /\ r.sub = m.sub /\ r.queue = q /\ r.at = m.at
      /\ r.told = m.told /\ r.ended = m.ended /\ r.shown = m.shown /\ r.late = late /\ r.revived = revived
  <2>1. m \in ConsumerState /\ q \in Seq(Event) /\ late \in BOOLEAN /\ revived \in BOOLEAN
    BY <1>2, <1>4
  <2> QED
    BY ONLY <1>7, <2>1 DEF ConsumerState
<1>9. consumer' = [consumer EXCEPT ![c] =
          CASE e.type = "Program"              -> [r EXCEPT !.shown = e.program]
            [] e.type \in {"Exited", "Closed"} -> ToldOnce(r, e.inc)
            [] e.type = "Created"              -> [r EXCEPT !.ended = FALSE, !.at = e.inc]]
  BY <1>1, <1>3, <1>4, <1>5, <1>6, <1>7 DEF ListenerHears
<1>10. PICK k : /\ consumer' = [consumer EXCEPT ![c] = k]
                /\ e.type = "Program" => k = [r EXCEPT !.shown = e.program]
                /\ e.type \in {"Exited", "Closed"} => k = ToldOnce(r, e.inc)
                /\ e.type = "Created" => k = [r EXCEPT !.ended = FALSE, !.at = e.inc]
  <2>1. PICK k : k = CASE e.type = "Program"              -> [r EXCEPT !.shown = e.program]
                       [] e.type \in {"Exited", "Closed"} -> ToldOnce(r, e.inc)
                       [] e.type = "Created"              -> [r EXCEPT !.ended = FALSE, !.at = e.inc]
    OBVIOUS
  <2> QED
    BY <1>9, <2>1
<1>11. /\ k \in ConsumerState /\ k.phase = r.phase /\ k.sub = r.sub /\ k.queue = r.queue
       /\ k.late = r.late /\ k.revived = r.revived /\ HeardBy(k, m, e)
  <2>1. CASE e.type = "Program"
    <3>1. k = [r EXCEPT !.shown = e.program] /\ e.program \in Program \cup {None}
      BY <1>3, <1>10, <2>1 DEF Event
    <3>2. /\ k \in ConsumerState /\ k.phase = r.phase /\ k.sub = r.sub /\ k.queue = r.queue
          /\ k.late = r.late /\ k.revived = r.revived
          /\ k.told = r.told /\ k.ended = r.ended /\ k.at = r.at /\ k.shown = e.program
      BY ONLY <1>8, <3>1 DEF ConsumerState
    <3> QED
      BY <1>8, <2>1, <3>2 DEF HeardBy
  <2>2. CASE e.type \in {"Exited", "Closed"}
    <3>1. Tells(k, r, e.inc)
      BY <1>8, <1>10, <2>2, ToldOnceTells
    <3> QED
      BY <1>8, <2>2, <3>1 DEF HeardBy, Tells
  <2>3. CASE e.type = "Created"
    <3>1. k = [r EXCEPT !.ended = FALSE, !.at = e.inc] /\ e.inc \in Inc
      BY <1>3, <1>10, <2>3 DEF Event
    <3>2. /\ k \in ConsumerState /\ k.phase = r.phase /\ k.sub = r.sub /\ k.queue = r.queue
          /\ k.late = r.late /\ k.revived = r.revived
          /\ k.told = r.told /\ ~k.ended /\ k.at = e.inc /\ k.shown = r.shown
      BY ONLY <1>8, <3>1 DEF ConsumerState
    <3> QED
      BY <1>8, <2>3, <3>2 DEF HeardBy
  <2> QED
    BY <1>3, <2>1, <2>2, <2>3 DEF Event
<1>12. Listened(k, m)
  BY <1>2, <1>3, <1>4, <1>5, <1>6, <1>8, <1>11 DEF Listened
<1> QED
  BY <1>0, <1>1, <1>10, <1>12, ListenerHeard

(* A connection drops. *)
LEMMA DropKeeps == ASSUME IInv, NEW c \in Consumer, Drop(c) PROVE IInv'
<1>1. PICK m : WasOK(c, m) /\ m = consumer[c]
  BY Before
<1>2. m \in ConsumerState /\ m.sub /\ m.queue \in Seq(Event) /\ QueueOK(m)
  BY <1>1 DEF WasOK, Drop, ConsumerState, SubscriberOK
<1>3. HostStays /\ DropsGrow /\ drops' > 0
  <2>1. HostStays
    BY DEF Drop, HostStays
  <2>2. drops \in 0..MaxDrop /\ MaxDrop \in Nat /\ drops < MaxDrop /\ drops' = drops + 1
    BY <1>1, SessionNewsAssumption DEF Drop, WasOK, TypeOK
  <2> QED
    BY <2>1, <2>2 DEF DropsGrow
<1>4. CASE m.phase # "up"
  <2>1. consumer' = [consumer EXCEPT ![c] = Off(m)]
    BY <1>1, <1>4 DEF Drop
  <2> QED
    BY <1>1, <1>3, <2>1, OffKeeps
<1>5. CASE m.phase = "up"
  <2>1. PICK n \in 0..Len(m.queue) :
          consumer' = [consumer EXCEPT ![c].phase = "dropped", ![c].sub = FALSE,
                                       ![c].queue = SubSeq(@, 1, n), ![c].snapshot = FALSE]
    BY <1>1, <1>5 DEF Drop
  <2>2. PICK q : q = SubSeq(m.queue, 1, n) /\ q \in Seq(Event)
    BY <1>2, CutHolds
  <2>3. PICK k : k = [m EXCEPT !.phase = "dropped", !.sub = FALSE, !.queue = q, !.snapshot = FALSE]
    OBVIOUS
  <2>4. /\ k \in ConsumerState /\ k.phase = "dropped" /\ ~k.sub /\ k.queue = q /\ k.at = m.at /\ k.open = m.open
        /\ SameHistory(k, m) /\ SameShown(k, m)
    <3>1. m \in ConsumerState /\ q \in Seq(Event)
      BY <1>2, <2>2
    <3> QED
      BY ONLY <2>3, <3>1 DEF ConsumerState, SameHistory, SameShown
  <2>5. consumer' = [consumer EXCEPT ![c] = k]
    BY <1>1, <2>1, <2>2, <2>3 DEF WasOK, TypeOK
  <2>6. ASSUME NEW j \in 1..Len(q) PROVE j \in 1..Len(m.queue) /\ q[j] = m.queue[j]
    BY <1>2, <2>2, <2>6, CutHolds
  <2>7. ASSUME NEW j \in 1..Len(q) PROVE EventOK(q, j)
    <3>1. EventOK(m.queue, j)
      BY <1>2, <2>6, <2>7 DEF QueueOK
    <3> QED
      BY <2>6, <2>7, <3>1 DEF EventOK
  <2>8. QueueOK(k)
    BY <1>2, <2>4, <2>7 DEF QueueOK
  <2>9. ToldOK(c, k)
    <3>1. ASSUME NEW i \in Inc, EndedOK(m, i) PROVE EndedOK(k, i)
      BY <1>5, <2>4, <2>6, <3>1 DEF EndedOK, Past, SameHistory
    <3> QED
      BY <1>1, <2>4, <3>1 DEF WasOK, SubscriberOK, ToldOK, SameHistory
  <2>10. ProgramOK(c, k)
    BY <1>1, <1>5, <2>4 DEF WasOK, SubscriberOK, ProgramOK, SameShown, SameHistory
  <2>11. EndOK(c, k)'
    BY <1>3, <2>4 DEF EndOK
  <2>12. Typed(c, k)
    BY <2>4 DEF Typed
  <2> QED
    BY <1>3, <2>5, <2>8, <2>9, <2>10, <2>11, <2>12, OneSubscriber DEF Becomes
<1> QED
  BY <1>4, <1>5

-----------------------------------------------------------------------------
(* A session is put under the id. *)
InsertSession ==
  /\ CanInsert /\ listed' = NewSession
  /\ session' = [session EXCEPT ![NewSession].state = "open"]
  /\ UNCHANGED <<closing, behind, changes, drops>>

Inserted(n) ==
  /\ n \in Inc /\ listed = None /\ closing = None /\ listed' = n /\ closing' = None
  /\ behind' = behind /\ changes' = changes /\ drops' = drops
  /\ session' \in [Inc -> SessionState]
  /\ session'[n].state = "open" /\ ~session'[n].exit /\ ~session'[n].pump /\ session'[n].program = None
  /\ session'[n].sent = << >>
  /\ session[n].state = "unborn"
  /\ \A j \in Inc : j > n => session[j].state = "unborn"
  /\ \A j \in Inc : j < n => session[j].state = "closed"
  /\ \A j \in Inc : j # n => session'[j] = session[j]

LEMMA InsertedIs == ASSUME IInv, InsertSession PROVE Inserted(NewSession)
<1>0. TypeOK /\ HostOK /\ CanInsert
  BY DEF IInv, InsertSession
<1>1. PICK n : n = NewSession
  OBVIOUS
<1>2. n \in Inc /\ session[n] = Unborn
  BY <1>0, <1>1, NewSessionIsFirst
<1>3. session' = [session EXCEPT ![n].state = "open"] /\ session \in [Inc -> SessionState]
  BY <1>0, <1>1 DEF InsertSession, TypeOK
<1>4. session' \in [Inc -> SessionState] /\ \A j \in Inc : j # n => session'[j] = session[j]
  BY <1>2, <1>3 DEF SessionState
<1>5. /\ session'[n].state = "open" /\ session'[n].exit = session[n].exit /\ session'[n].pump = session[n].pump
      /\ session'[n].program = session[n].program /\ session'[n].sent = session[n].sent
  BY <1>2, <1>3 DEF SessionState
<1>6. /\ session[n].state = "unborn" /\ ~session[n].exit /\ ~session[n].pump /\ session[n].program = None
      /\ session[n].sent = << >>
  BY <1>2 DEF Unborn
<1>7. /\ listed = None /\ closing = None /\ listed' = n /\ closing' = None
      /\ behind' = behind /\ changes' = changes /\ drops' = drops
  BY <1>0, <1>1 DEF InsertSession, CanInsert
<1>8. Inserted(n)
  BY <1>0, <1>1, <1>2, <1>4, <1>5, <1>6, <1>7, NewSessionIsFirst DEF Inserted
<1> QED
  BY <1>1, <1>8

LEMMA InsertedHost == ASSUME IInv, NEW n, Inserted(n) PROVE HostOK'
<1>0. HostOK /\ TypeOK
  BY DEF IInv
<1>1. ASSUME NEW i \in Inc PROVE SentOK(i)'
  <2>1. CASE i = n
    <3>1. /\ session'[i].sent = << >> /\ ~session'[i].exit
      BY <2>1 DEF Inserted
    <3> QED
      BY <3>1 DEF SentOK
  <2>2. CASE i # n
    <3>1. session'[i] = session[i] /\ SentOK(i)
      BY <1>0, <2>2 DEF Inserted, HostOK
    <3> QED
      BY <3>1, SentSame DEF Running
  <2> QED
    BY <2>1, <2>2
<1>2. ASSUME NEW i \in Inc
      PROVE  /\ session'[i].state = "open" <=> i \in {listed', closing'}
             /\ session'[i].state = "closed" => session'[i].pump
             /\ session'[i].state = "unborn" => session'[i] = Unborn
             /\ \A j \in Inc : i < j /\ session'[j].state # "unborn" => session'[i].state = "closed"
  <2>1. CASE i = n
    BY <2>1, Numbers DEF Inserted
  <2>2. CASE i # n
    <3>0. i \in Nat /\ n \in Nat
      BY Numbers DEF Inserted
    <3>1. session'[i] = session[i] /\ (i < n \/ i > n)
      BY <2>2, <3>0 DEF Inserted
    <3>2. CASE i < n
      BY <1>0, <2>2, <3>1, <3>2, Numbers DEF Inserted, HostOK
    <3>3. CASE i > n
      BY <1>0, <2>2, <3>1, <3>3, Numbers DEF Inserted, HostOK
    <3> QED
      BY <3>1, <3>2, <3>3
  <2> QED
    BY <2>1, <2>2
<1>3. Unborn' = Unborn
  BY DEF Unborn
<1> QED
  BY <1>1, <1>2, <1>3, Numbers DEF Inserted, HostOK

(* A subscriber, to whom earlier sessions may still be on their way. *)
LEMMA InsertedSubscriber ==
  ASSUME IInv, NEW n, Inserted(n), NEW c \in Consumer, NEW m, NEW k, WasOK(c, m),
         k.queue = m.queue, k.sub = m.sub, k.at = m.at,
         k.open = m.open, SameHistory(k, m), SameShown(k, m),
         \/ k = m
         \/ c \in Link /\ m.phase = "subscribed" /\ ~m.open /\ k.phase = "listed" /\ k.summary = NoSummary
  PROVE  SubscriberOK(c, k)'
<1>0. /\ QueueOK(m) /\ ToldOK(c, m) /\ EndOK(c, m) /\ ProgramOK(c, m) /\ HostOK /\ TypeOK
      /\ m \in ConsumerState /\ m.queue \in Seq(Event)
  BY DEF WasOK, SubscriberOK, ConsumerState
<1>1. ASSUME NEW i \in Inc, session[i].state # "unborn" PROVE i # n /\ session'[i] = session[i]
  BY <1>1 DEF Inserted
<1>2. c \in Link => c \notin Listener
  BY SessionNewsAssumption
<1>3. \A type : Holds(k.queue, type)' <=> Holds(m.queue, type)
  BY DEF Holds
<1>4. Gone /\ ~Gone' /\ \A i \in Inc : session'[i].pump => session[i].pump
  BY Numbers DEF Gone, Inserted
<1>5. \A j \in 1..Len(m.queue) : m.queue[j] \in Event /\ m.queue[j].inc \in Inc
  BY <1>0, Elements
<1>6. QueueOK(k)'
  <2>1. ASSUME NEW j \in 1..Len(k.queue) PROVE EventOK(k.queue, j)'
    <3>1. EventOK(m.queue, j) /\ m.queue[j].inc \in Inc
      BY <1>0, <1>5 DEF QueueOK
    <3>2. session'[m.queue[j].inc] = session[m.queue[j].inc]
      BY <1>1, <3>1 DEF EventOK
    <3> QED
      BY <3>1, <3>2 DEF EventOK, Inserted
  <2>2. k.at # None => session'[k.at].state # "unborn" /\ session'[k.at] = session[k.at]
    BY <1>0, <1>1 DEF QueueOK, ConsumerState
  <2>3. k.sub <=> k.phase \in {"subscribed", "listing", "listed", "up"}
    BY <1>0 DEF QueueOK
  <2>4. k.phase \in {"off", "over"} => k.queue = << >>
    BY <1>0 DEF QueueOK
  <2>5. k.phase = "listing" => /\ k.at # None
                               /\ session'[k.at].state = "closed" => Holds(m.queue, "Closed")
                               /\ \A i \in Inc : i > k.at /\ session'[i].pump => Holds(m.queue, "Created")
    BY <1>0, <1>4, <2>2 DEF QueueOK
  <2> QED
    BY <1>3, <1>4, <2>1, <2>2, <2>3, <2>4, <2>5 DEF QueueOK
<1>7. ToldOK(c, k)'
  <2>1. ASSUME NEW i \in Inc, EndedOK(m, i), c \in Listener PROVE EndedOK(k, i)'
    <3>1. session'[i] = session[i] /\ k = m
      BY <1>1, <1>2, <2>1 DEF EndedOK
    <3> QED
      BY <2>1, <3>1 DEF EndedOK, Past
  <2> QED
    BY <1>0, <1>2, <2>1 DEF ToldOK, SameHistory
<1>8. EndOK(c, k)'
  <2>1. ASSUME NEW i \in Inc, session'[i].exit PROVE listed' # i
    BY <2>1 DEF Inserted
  <2>2. c \in Link /\ drops' = 0 =>
          k.phase # "dropped" /\ (k.phase \in {"off", "subscribed", "listing", "listed"} => ~k.open)
    BY <1>0 DEF EndOK, Inserted
  <2> QED
    BY <2>1, <2>2 DEF EndOK
<1>9. ProgramOK(c, k)'
  <2>1. ASSUME ~behind', NEW i \in Inc, listed' = i, k.sub PROVE RunningOK(c, k, i)'
    <3>1. i = n /\ session'[i].program = None /\ ~behind
      BY <2>1 DEF Inserted
    <3>2. ASSUME NEW j \in 1..Len(m.queue), IsLast(m.queue, j, "Program")
          PROVE  m.queue[j].inc # i /\ ClosesAfter(m.queue, j)
      <4>1. EventOK(m.queue, j)
        BY <1>0 DEF QueueOK
      <4>2. m.queue[j].inc # n
        BY <1>1, <1>5, <4>1 DEF EventOK
      <4> QED
        BY <1>0, <1>4, <2>1, <3>1, <3>2, <4>2 DEF QueueOK, IsLast
    <3>3. LastOK(k.queue, i)'
      BY <3>1, <3>2 DEF LastOK, IsLast, ClosesAfter
    <3>4. FirstOK(k.queue, i)'
      BY <3>1 DEF FirstOK
    <3>5. ASSUME c \in Listener, k.phase = "up", ~k.revived PROVE k.shown = None \/ Holds(m.queue, "Closed")
      BY <1>0, <1>2, <1>4, <3>1, <3>5 DEF ProgramOK, SameShown
    <3>6. ASSUME c \in Link, k.phase = "listed" PROVE k.summary.program = None \/ Holds(m.queue, "Closed")
      <4>1. k = m => Holds(m.queue, "Closed")
        BY <1>0, <1>4, <3>6 DEF QueueOK
      <4> QED
        BY <4>1 DEF NoSummary
    <3>7. ASSUME c \in Link, k.phase = "up" PROVE k.at # n
      BY <1>0, <3>7 DEF QueueOK, Inserted, TypeOK, WasOK
    <3>8. KnownOK(c, k, i)'
      BY <1>3, <3>1, <3>5, <3>6, <3>7 DEF KnownOK
    <3> QED
      BY <3>3, <3>4, <3>8 DEF RunningOK
  <2>2. c \in Link /\ ~k.open => k.shown = None /\ k.phase \notin {"up", "dropped"}
    BY <1>0 DEF ProgramOK, SameShown
  <2>3. c \in Listener /\ k.ended /\ ~k.revived => k.shown = None
    BY <1>0 DEF ProgramOK, SameShown, SameHistory
  <2> QED
    BY <1>4, <2>1, <2>2, <2>3 DEF ProgramOK
<1> QED
  BY <1>6, <1>7, <1>8, <1>9 DEF SubscriberOK

LEMMA InsertedType ==
  ASSUME TypeOK, NEW n, Inserted(n), consumer' \in [Consumer -> ConsumerState],
         \A c \in Consumer : consumer'[c].phase \in {"off", "over"} => consumer'[c].queue = << >>,
         \A c \in Link : consumer'[c].phase = "up" => consumer'[c].at # None
  PROVE  TypeOK'
  BY DEF TypeOK, Inserted

LEMMA InsertKeeps == ASSUME IInv, Insert PROVE IInv'
<1>1. PICK n : n = NewSession /\ Inserted(n)
  BY InsertedIs DEF Insert, InsertSession
<1>2. consumer' = consumer /\ TypeOK /\ CanInsert
  BY DEF Insert, IInv
<1>3. TypeOK'
  BY <1>1, <1>2, InsertedType DEF TypeOK
<1>4. HostOK'
  BY <1>1, InsertedHost
<1>5. ASSUME NEW c \in Consumer PROVE SubscriberOK(c, consumer[c])'
  <2>1. PICK m : m = consumer[c] /\ WasOK(c, m)
    BY Before
  <2>2. SubscriberOK(c, m)'
    BY <1>1, <2>1, InsertedSubscriber DEF SameHistory, SameShown
  <2>3. consumer'[c] = m
    BY <1>2, <2>1
  <2> QED
    BY <2>2, <2>3
<1> QED
  BY <1>3, <1>4, <1>5 DEF IInv

LEMMA LinkCreatesKeeps == ASSUME IInv, NEW c \in Link, LinkCreates(c) PROVE IInv'
<1>0. c \in Consumer
  BY DEF Consumer
<1>1. PICK n : n = NewSession /\ Inserted(n)
  BY InsertedIs DEF LinkCreates, InsertSession
<1>2. TypeOK /\ CanInsert
  BY DEF LinkCreates, IInv
<1>3. PICK m : m = consumer[c] /\ WasOK(c, m)
  BY <1>0, Before
<1>4. m \in ConsumerState /\ m.phase = "subscribed" /\ ~m.open
  BY <1>3 DEF WasOK, LinkCreates
<1>5. PICK k : k = [m EXCEPT !.phase = "listed", !.summary = NoSummary]
  OBVIOUS
<1>6. NoSummary \in Summary
  BY DEF NoSummary, Summary
<1>7. /\ k \in ConsumerState /\ k.phase = "listed" /\ k.sub = m.sub /\ k.queue = m.queue /\ k.at = m.at
      /\ SameHistory(k, m) /\ SameShown(k, m) /\ k.summary = NoSummary /\ k.open = m.open
  BY <1>4, <1>5, <1>6 DEF ConsumerState, SameHistory, SameShown
<1>8. consumer' = [consumer EXCEPT ![c] = k]
  BY <1>3, <1>5 DEF WasOK, TypeOK, LinkCreates
<1>9. consumer' \in [Consumer -> ConsumerState] /\ consumer'[c] = k
      /\ \A d \in Consumer : d # c => consumer'[d] = consumer[d]
  BY <1>0, <1>2, <1>7, <1>8 DEF TypeOK
<1>10. TypeOK'
  <2>1. \A d \in Consumer : consumer'[d].phase \in {"off", "over"} => consumer'[d].queue = << >>
    BY <1>2, <1>7, <1>9 DEF TypeOK
  <2>2. \A d \in Link : consumer'[d].phase = "up" => consumer'[d].at # None
    BY <1>2, <1>7, <1>9 DEF TypeOK, Consumer
  <2> QED
    BY <1>1, <1>2, <1>9, <2>1, <2>2, InsertedType
<1>11. HostOK'
  BY <1>1, InsertedHost
<1>12. SubscriberOK(c, k)'
  BY <1>0, <1>1, <1>3, <1>4, <1>7, InsertedSubscriber
<1>13. ASSUME NEW d \in Consumer, d # c PROVE SubscriberOK(d, consumer[d])'
  <2>1. PICK o : o = consumer[d] /\ WasOK(d, o)
    BY Before
  <2>2. SubscriberOK(d, o)'
    BY <1>1, <2>1, InsertedSubscriber DEF SameHistory, SameShown
  <2>3. consumer'[d] = o
    BY <1>9, <1>13, <2>1
  <2> QED
    BY <2>2, <2>3
<1>14. ASSUME NEW d \in Consumer PROVE SubscriberOK(d, consumer[d])'
  BY <1>9, <1>12, <1>13
<1> QED
  BY <1>10, <1>11, <1>14 DEF IInv

-----------------------------------------------------------------------------
(* The host publishes: who has a subscription receives. *)
Receives(k, m, e) ==
  /\ k \in ConsumerState /\ k.phase = m.phase /\ k.sub = m.sub /\ k.at = m.at
  /\ SameHistory(k, m) /\ SameShown(k, m) /\ SameLink(k, m)
  /\ m.sub => k.queue = Append(m.queue, e)
  /\ ~m.sub => k.queue = m.queue

LEMMA ReceivedBy == ASSUME NEW m \in ConsumerState, NEW k, NEW e \in Event,
                           k = IF m.sub THEN [m EXCEPT !.queue = Append(@, e)] ELSE m
                    PROVE  Receives(k, m, e)
<1>1. CASE m.sub
  <2>0. m.queue \in Seq(Event) /\ Append(m.queue, e) \in Seq(Event)
    BY AppendHolds DEF ConsumerState
  <2>1. PICK q : q = Append(m.queue, e) /\ q \in Seq(Event)
    BY <2>0
  <2>2. k = [m EXCEPT !.queue = q]
    BY <1>1, <2>1
  <2>3. /\ k \in ConsumerState /\ k.phase = m.phase /\ k.sub = m.sub /\ k.at = m.at /\ k.queue = q
        /\ SameHistory(k, m) /\ SameShown(k, m) /\ SameLink(k, m)
    <3>1. m \in ConsumerState /\ q \in Seq(Event)
      BY <2>1
    <3> QED
      BY ONLY <2>2, <3>1 DEF ConsumerState, SameHistory, SameShown, SameLink
  <2> QED
    BY <1>1, <2>1, <2>3 DEF Receives
<1>2. CASE ~m.sub
  BY <1>2 DEF Receives, SameHistory, SameShown, SameLink
<1> QED
  BY <1>1, <1>2

LEMMA NewsIs ==
  ASSUME NEW type \in {"Created", "Program", "Exited", "Closed"}, NEW i \in Inc, NEW p \in Program \cup {None}
  PROVE  /\ News(type, i, p) \in Event /\ News(type, i, p).type = type /\ News(type, i, p).inc = i
         /\ News(type, i, p).program = p
  BY DEF News, Event

HostTyped ==
  /\ session' \in [Inc -> SessionState] /\ listed' \in Inc \cup {None} /\ closing' \in Inc \cup {None}
  /\ behind' \in BOOLEAN /\ changes' \in 0..MaxChange /\ drops' = drops

LEMMA PublishedIs ==
  ASSUME IInv, NEW e \in Event, consumer' = Published(e)
  PROVE  /\ consumer' \in [Consumer -> ConsumerState]
         /\ \A c \in Consumer : Receives(consumer'[c], consumer[c], e)
<1>1. consumer' = [c \in Consumer |-> IF consumer[c].sub THEN [consumer[c] EXCEPT !.queue = Append(@, e)]
                                      ELSE consumer[c]]
  BY DEF Published
<1>2. ASSUME NEW c \in Consumer PROVE Receives(consumer'[c], consumer[c], e)
  <2>1. PICK m \in ConsumerState : m = consumer[c]
    BY DEF IInv, TypeOK
  <2>2. PICK k : k = consumer'[c]
    OBVIOUS
  <2>3. k = IF m.sub THEN [m EXCEPT !.queue = Append(@, e)] ELSE m
    BY <1>1, <2>1, <2>2
  <2>4. Receives(k, m, e)
    BY <2>3, ReceivedBy
  <2> QED
    BY <2>1, <2>2, <2>4
<1> QED
  BY <1>1, <1>2 DEF Receives

(* The queue of who received: the new event is its last. *)
LEMMA ReceivesQueue ==
  ASSUME NEW m \in ConsumerState, NEW k, NEW e \in Event, Receives(k, m, e)
  PROVE  /\ k.queue \in Seq(Event) /\ m.queue \in Seq(Event)
         /\ ~m.sub => k.queue = m.queue
         /\ m.sub => Len(m.queue) + 1 \in 1..Len(k.queue) /\ k.queue[Len(m.queue) + 1] = e
         /\ \A n \in 1..Len(m.queue) : n \in 1..Len(k.queue) /\ k.queue[n] = m.queue[n]
         /\ \A n \in 1..Len(k.queue) : \/ n \in 1..Len(m.queue) /\ k.queue[n] = m.queue[n]
                                       \/ m.sub /\ n = Len(m.queue) + 1 /\ k.queue[n] = e
         /\ \A type : Holds(k.queue, type) <=> Holds(m.queue, type) \/ (m.sub /\ e.type = type)
<1>1. m.queue \in Seq(Event) /\ k.queue \in Seq(Event)
  BY DEF ConsumerState, Receives
<1>2. CASE ~m.sub
  BY <1>1, <1>2 DEF Receives
<1>3. CASE m.sub
  <2>1. k.queue = Append(m.queue, e)
    BY <1>3 DEF Receives
  <2>2. /\ Len(m.queue) + 1 \in 1..Len(k.queue) /\ k.queue[Len(m.queue) + 1] = e
        /\ \A n \in 1..Len(m.queue) : n \in 1..Len(k.queue) /\ k.queue[n] = m.queue[n]
        /\ \A n \in 1..Len(k.queue) : \/ n \in 1..Len(m.queue) /\ k.queue[n] = m.queue[n]
                                      \/ m.sub /\ n = Len(m.queue) + 1 /\ k.queue[n] = e
        /\ \A type : Holds(k.queue, type) <=> Holds(m.queue, type) \/ e.type = type
    BY <1>1, <1>3, <2>1, AppendHolds
  <2> QED
    BY <1>1, <1>3, <2>2
<1> QED
  BY <1>2, <1>3

LastFrom(k, m, e, n, type) ==
  \/ m.sub /\ k.queue[n] = e /\ e.type = type
  \/ /\ m.sub => e.type # type
     /\ n \in 1..Len(m.queue) /\ k.queue[n] = m.queue[n] /\ IsLast(m.queue, n, type)

LEMMA ReceivesLast ==
  ASSUME NEW m \in ConsumerState, NEW k, NEW e \in Event, Receives(k, m, e),
         NEW type, NEW n \in 1..Len(k.queue), IsLast(k.queue, n, type)
  PROVE  LastFrom(k, m, e, n, type)
<1>1. m.queue \in Seq(Event)
  BY DEF ConsumerState
<1>2. CASE ~m.sub
  BY <1>2 DEF Receives, LastFrom
<1>3. CASE m.sub
  <2>1. k.queue = Append(m.queue, e)
    BY <1>3 DEF Receives
  <2>2. \/ n = Len(m.queue) + 1 /\ e.type = type
        \/ e.type # type /\ n \in 1..Len(m.queue) /\ IsLast(m.queue, n, type)
    BY <1>1, <2>1, LastAppend
  <2> QED
    BY <1>1, <1>3, <2>1, <2>2, AppendHolds DEF LastFrom
<1> QED
  BY <1>2, <1>3

LEMMA ReceivesCloses ==
  ASSUME NEW m \in ConsumerState, NEW k, NEW e \in Event, Receives(k, m, e),
         NEW n \in 1..Len(m.queue), ClosesAfter(m.queue, n)
  PROVE  ClosesAfter(k.queue, n)
  BY ReceivesQueue DEF ClosesAfter

(* An event of the newest session is put behind events in order. *)
LEMMA ReceivesInOrder ==
  ASSUME NEW m \in ConsumerState, NEW k, NEW e \in Event, Receives(k, m, e), QueueOK(m),
         NEW n \in 1..Len(k.queue), m.sub, k.queue[n] = e, n = Len(m.queue) + 1,
         HostOK, NEW x \in Inc, e.inc = x, x \in {listed, closing},
         NEW j \in 1..Len(k.queue), j < n
  PROVE  /\ k.queue[j].inc <= k.queue[n].inc
         /\ ~session[x].pump => k.queue[j].inc < k.queue[n].inc
<1>1. j \in 1..Len(m.queue) /\ k.queue[j] = m.queue[j] /\ m.queue \in Seq(Event)
  BY ReceivesQueue DEF ConsumerState
<1>2. m.queue[j] \in Event /\ EventOK(m.queue, j)
  BY <1>1 DEF QueueOK
<1>3. m.queue[j].inc \in Inc /\ session[m.queue[j].inc].state # "unborn" /\ session[m.queue[j].inc].pump
  BY <1>2 DEF EventOK, Event
<1>4. m.queue[j].inc = x \/ m.queue[j].inc < x
  BY <1>3, OpenIsNewest
<1> QED
  BY <1>1, <1>3, <1>4, Numbers

LEMMA PublishedKeeps ==
  ASSUME IInv, NEW e \in Event, consumer' = Published(e), HostTyped, HostOK',
         ASSUME NEW c \in Consumer, NEW m, NEW k, WasOK(c, m), Receives(k, m, e) PROVE SubscriberOK(c, k)'
  PROVE  IInv'
<1>1. TypeOK'
  <2>1. consumer' \in [Consumer -> ConsumerState]
    BY PublishedIs
  <2>2. ASSUME NEW c \in Consumer
        PROVE  /\ consumer'[c].phase \in {"off", "over"} => consumer'[c].queue = << >>
               /\ c \in Link /\ consumer'[c].phase = "up" => consumer'[c].at # None
    <3>1. Receives(consumer'[c], consumer[c], e) /\ QueueOK(consumer[c]) /\ Typed(c, consumer[c])
      BY PublishedIs, Before DEF WasOK, SubscriberOK
    <3> QED
      BY <3>1 DEF Receives, QueueOK, Typed
  <2>3. drops' \in 0..MaxDrop
    BY DEF IInv, TypeOK, HostTyped
  <2> QED
    BY <2>1, <2>2, <2>3 DEF TypeOK, HostTyped, Consumer
<1>2. ASSUME NEW c \in Consumer PROVE SubscriberOK(c, consumer[c])'
  <2>1. PICK m : m = consumer[c] /\ WasOK(c, m)
    BY Before
  <2>2. PICK k : k = consumer'[c]
    OBVIOUS
  <2>3. Receives(k, m, e)
    BY <2>1, <2>2, PublishedIs
  <2>4. SubscriberOK(c, k)'
    BY <2>1, <2>3
  <2> QED
    BY <2>2, <2>4
<1> QED
  BY <1>1, <1>2 DEF IInv

LEMMA UnheardKeeps ==
  ASSUME IInv, consumer' = consumer, HostTyped, HostOK',
         ASSUME NEW c \in Consumer, NEW m, WasOK(c, m) PROVE SubscriberOK(c, m)'
  PROVE  IInv'
<1>1. TypeOK'
  BY DEF IInv, TypeOK, HostTyped
<1>2. ASSUME NEW c \in Consumer PROVE SubscriberOK(c, consumer[c])'
  <2>1. PICK m : m = consumer[c] /\ WasOK(c, m)
    BY Before
  <2>2. SubscriberOK(c, m)'
    BY <2>1
  <2> QED
    BY <2>1, <2>2
<1> QED
  BY <1>1, <1>2 DEF IInv

(* Announce. *)
Announced(x) ==
  /\ x \in Inc /\ listed = x /\ listed' = x /\ closing = None /\ closing' = None
  /\ behind' = behind /\ drops' = drops
  /\ ~session[x].pump /\ session'[x].pump /\ Newest(x) /\ session[x].state = "open"
  /\ \A j \in Inc : /\ session'[j].state = session[j].state /\ session'[j].exit = session[j].exit
                    /\ session'[j].program = session[j].program /\ session'[j].sent = session[j].sent
                    /\ j # x => session'[j] = session[j]

LEMMA AnnouncedIs == ASSUME IInv, Announce PROVE listed \in Inc /\ Announced(listed) /\ HostTyped
<1>1. TypeOK /\ HostOK
  BY DEF IInv
<1>2. PICK x : x = listed /\ x \in Inc
  BY <1>1 DEF Announce, TypeOK
<1>3. session' = [session EXCEPT ![x].pump = TRUE] /\ session \in [Inc -> SessionState]
  BY <1>1, <1>2 DEF Announce, TypeOK
<1>4. session' \in [Inc -> SessionState]
  BY <1>2, <1>3 DEF SessionState
<1>5. session'[x].pump /\ \A j \in Inc :
        /\ session'[j].state = session[j].state /\ session'[j].exit = session[j].exit
        /\ session'[j].program = session[j].program /\ session'[j].sent = session[j].sent
        /\ j # x => session'[j] = session[j]
  BY <1>2, <1>3 DEF SessionState
<1>6. Newest(x) /\ session[x].state = "open"
  BY <1>1, <1>2, OpenIsNewest
<1>7. closing = None /\ ~session[x].pump
  BY <1>1, <1>2, Numbers DEF HostOK, Announce
<1>8. listed' = listed /\ closing' = closing /\ behind' = behind /\ changes' = changes /\ drops' = drops
  BY DEF Announce
<1>9. Announced(x)
  BY <1>2, <1>5, <1>6, <1>7, <1>8 DEF Announced
<1> QED
  BY <1>1, <1>2, <1>4, <1>8, <1>9 DEF HostTyped, TypeOK

LEMMA AnnouncedHost == ASSUME IInv, NEW x, Announced(x) PROVE HostOK'
<1>0. HostOK
  BY DEF IInv
<1>1. ASSUME NEW i \in Inc PROVE SentOK(i)'
  <2>1. SentOK(i) /\ (session[i].pump => session'[i].pump) /\ (Running(i)' => Running(i))
    BY <1>0 DEF HostOK, Announced, Running
  <2> QED
    BY <2>1, SentSame DEF Announced
<1>2. ASSUME NEW i \in Inc
      PROVE  /\ session'[i].state = "open" <=> i \in {listed', closing'}
             /\ session'[i].state = "closed" => session'[i].pump
             /\ session'[i].state = "unborn" => session'[i] = Unborn
             /\ \A j \in Inc : i < j /\ session'[j].state # "unborn" => session'[i].state = "closed"
  BY <1>0 DEF HostOK, Announced
<1>3. Unborn' = Unborn
  BY DEF Unborn
<1> QED
  BY <1>1, <1>2, <1>3, Numbers DEF Announced, HostOK

LEMMA AnnouncedSubscriber ==
  ASSUME IInv, NEW x, Announced(x), NEW c \in Consumer, NEW m, NEW k, NEW e \in Event, WasOK(c, m),
         e.type = "Created", e.inc = x, Receives(k, m, e)
  PROVE  SubscriberOK(c, k)'
<1>0. /\ QueueOK(m) /\ ToldOK(c, m) /\ EndOK(c, m) /\ ProgramOK(c, m) /\ HostOK /\ TypeOK
      /\ m \in ConsumerState /\ k \in ConsumerState /\ m.queue \in Seq(Event)
      /\ k.phase = m.phase /\ k.sub = m.sub /\ k.at = m.at
      /\ SameHistory(k, m) /\ SameShown(k, m) /\ SameLink(k, m)
  BY DEF WasOK, SubscriberOK, Receives, ConsumerState
<1>1. \A type : Holds(k.queue, type)' <=> Holds(m.queue, type) \/ (m.sub /\ e.type = type)
  <2>1. \A type : Holds(k.queue, type)' <=> Holds(k.queue, type)
    BY DEF Holds
  <2> QED
    BY <1>0, <2>1, ReceivesQueue
<1>2. ~Gone /\ ~Gone'
  BY Numbers DEF Gone, Announced
<1>3. \A n \in 1..Len(m.queue) : m.queue[n] \in Event /\ m.queue[n].inc \in Inc
  BY <1>0, Elements
<1>4. QueueOK(k)'
  <2>1. ASSUME NEW n \in 1..Len(k.queue) PROVE EventOK(k.queue, n)'
    <3>1. CASE m.sub /\ k.queue[n] = e /\ n = Len(m.queue) + 1
      <4>1. ASSUME NEW j \in 1..Len(k.queue), j < n
            PROVE  k.queue[j].inc <= k.queue[n].inc /\ k.queue[j].inc < k.queue[n].inc
        BY <1>0, <3>1, <4>1, ReceivesInOrder DEF Announced
      <4> QED
        BY <3>1, <4>1 DEF EventOK, Announced
    <3>2. CASE n \in 1..Len(m.queue) /\ k.queue[n] = m.queue[n]
      <4>1. EventOK(m.queue, n) /\ m.queue[n].inc \in Inc
        BY <1>0, <1>3, <3>2 DEF QueueOK
      <4>2. ASSUME NEW j \in 1..Len(k.queue), j < n PROVE j \in 1..Len(m.queue) /\ k.queue[j] = m.queue[j]
        BY <1>0, <3>2, <4>2, ReceivesQueue
      <4> QED
        BY <3>2, <4>1, <4>2 DEF EventOK, Announced
    <3> QED
      BY <1>0, <2>1, <3>1, <3>2, ReceivesQueue
  <2>2. k.phase \in {"off", "over"} => k.queue = << >>
    BY <1>0 DEF QueueOK, Receives
  <2>3. k.phase = "listing" => /\ k.at # None /\ (session'[k.at].state = "closed" => Holds(m.queue, "Closed"))
                               /\ m.sub
    BY <1>0 DEF QueueOK, Announced, ConsumerState
  <2>4. k.at # None => session'[k.at].state # "unborn"
    BY <1>0 DEF QueueOK, Announced, ConsumerState
  <2>5. k.sub <=> k.phase \in {"subscribed", "listing", "listed", "up"}
    BY <1>0 DEF QueueOK
  <2> QED
    BY <1>1, <1>2, <2>1, <2>2, <2>3, <2>4, <2>5 DEF QueueOK
<1>5. ToldOK(c, k)'
  <2>1. ASSUME NEW i \in Inc, EndedOK(m, i) PROVE EndedOK(k, i)'
    <3>1. session'[i].state = session[i].state /\ session'[i].exit = session[i].exit
          /\ (session[i].pump => session'[i].pump)
      BY DEF Announced
    <3>2. ASSUME NEW n \in 1..Len(k.queue), k.queue[n].type = "Created", k.queue[n].inc <= i PROVE Past(m, i)
      <4>1. CASE n \in 1..Len(m.queue) /\ k.queue[n] = m.queue[n]
        BY <2>1, <3>2, <4>1 DEF EndedOK
      <4>2. CASE k.queue[n] = e
        <5>1. i = x
          BY <1>0, <2>1, <3>2, <4>2, OpenIsNewest, Numbers DEF EndedOK, Announced
        <5> QED
          BY <2>1, <5>1 DEF EndedOK, Announced
      <4> QED
        BY <1>0, <4>1, <4>2, ReceivesQueue
    <3>3. k.phase = "listing" => i <= k.at /\ (i = k.at => session[i].exit)
      BY <1>0, <2>1 DEF EndedOK
    <3> QED
      BY <1>0, <2>1, <3>1, <3>2, <3>3 DEF EndedOK, Past, SameHistory
  <2> QED
    BY <1>0, <2>1 DEF ToldOK, SameHistory
<1>6. ASSUME session'[x].exit PROVE Pending(k, x)' /\ Coming(k, x)'
  <2>1. session[x].exit /\ ~session[x].pump /\ session'[x].sent = session[x].sent
    BY <1>6 DEF Announced
  <2>2. Holds(session[x].sent, "Exited")
    BY <1>0, <2>1 DEF HostOK, SentOK, Announced
  <2> QED
    BY <2>1, <2>2 DEF Pending, Coming, Holds
<1>7. EndOK(c, k)'
  <2>1. listed' = x /\ drops' = drops
    BY DEF Announced
  <2> QED
    BY <1>0, <1>6, <2>1 DEF EndOK, SameLink
<1>8. ProgramOK(c, k)'
  <2>1. ASSUME ~behind', NEW i \in Inc, listed' = i, Running(i)', (~Holds(session[i].sent, "Program"))', k.sub
        PROVE  RunningOK(c, k, i)'
    <3>1. Running(i) /\ ~Holds(session[i].sent, "Program") /\ listed = i /\ i = x /\ ~behind
          /\ session'[i].program = session[i].program
      BY <2>1 DEF Running, Announced, Holds
    <3>2. RunningOK(c, m, i)
      BY <1>0, <2>1, <3>1 DEF ProgramOK
    <3>3. LastOK(k.queue, i)'
      <4>1. ASSUME NEW n \in 1..Len(k.queue), IsLast(k.queue, n, "Program")
            PROVE  IF k.queue[n].inc = i THEN k.queue[n].program = session[i].program
                   ELSE session[i].program = None /\ ClosesAfter(k.queue, n)
        <5>1. n \in 1..Len(m.queue) /\ k.queue[n] = m.queue[n] /\ IsLast(m.queue, n, "Program")
          BY <1>0, <4>1, ReceivesLast DEF LastFrom
        <5>2. ClosesAfter(m.queue, n) => ClosesAfter(k.queue, n)
          BY <1>0, <5>1, ReceivesCloses
        <5> QED
          BY <3>2, <5>1, <5>2 DEF RunningOK, LastOK
      <4> QED
        BY <3>1, <4>1 DEF LastOK, IsLast, ClosesAfter
    <3>4. ASSUME ~Holds(m.queue, "Program") PROVE FirstOK(k.queue, i)'
      <4>1. CASE m.queue = << >>
        <5>1. k.queue = << e >>
          BY <1>0, <2>1, <4>1 DEF Receives
        <5>2. k.queue[1] = e
          BY <5>1
        <5> QED
          BY <3>1, <5>2 DEF FirstOK
      <4>2. CASE m.queue # << >>
        <5>1. 1 \in 1..Len(m.queue)
          BY <1>0, <4>2, TailHolds
        <5>2. k.queue[1] = m.queue[1]
          BY <1>0, <5>1, ReceivesQueue
        <5> QED
          BY <3>1, <3>2, <3>4, <4>2, <5>2 DEF FirstOK, RunningOK
      <4> QED
        BY <4>1, <4>2
    <3>5. ASSUME ~Holds(m.queue, "Program") PROVE KnownOK(c, k, i)'
      <4>1. KnownOK(c, m, i)
        BY <3>2, <3>5 DEF RunningOK
      <4> QED
        BY <1>0, <1>1, <3>1, <4>1 DEF KnownOK, SameShown, SameLink, SameHistory
    <3> QED
      BY <1>1, <3>3, <3>4, <3>5 DEF RunningOK
  <2> QED
    BY <1>0, <1>2, <2>1 DEF ProgramOK, SameShown, SameHistory, SameLink
<1> QED
  BY <1>4, <1>5, <1>7, <1>8 DEF SubscriberOK

LEMMA AnnounceKeeps == ASSUME IInv, Announce PROVE IInv'
<1>1. PICK x : x = listed /\ x \in Inc /\ Announced(x)
  BY AnnouncedIs
<1>2. PICK e : e = News("Created", x, None)
  OBVIOUS
<1>3. e \in Event /\ e.type = "Created" /\ e.inc = x
  BY <1>1, <1>2, NewsIs
<1>4. consumer' = Published(e)
  BY <1>1, <1>2 DEF Announce
<1> QED
  BY <1>1, <1>2, <1>3, <1>4, AnnouncedIs, AnnouncedHost, AnnouncedSubscriber, PublishedKeeps

(* Pump. *)
Pumped(x, e) ==
  /\ x \in Inc /\ session[x].pump /\ session[x].sent # << >> /\ session'[x].sent = Tail(session[x].sent)
  /\ e = Head(session[x].sent)
  /\ listed' = listed /\ closing' = closing /\ drops' = drops
  /\ behind' = (behind \/ session[x].state = "closed")
  /\ \A j \in Inc : /\ session'[j].state = session[j].state /\ session'[j].exit = session[j].exit
                    /\ session'[j].program = session[j].program /\ session'[j].pump = session[j].pump
                    /\ j # x => session'[j] = session[j]

LEMMA PumpedIs ==
  ASSUME IInv, NEW x \in Inc, Pump(x)
  PROVE  Pumped(x, Head(session[x].sent)) /\ HostTyped
<1>1. TypeOK /\ HostOK /\ session[x].sent \in Seq(Event) /\ session[x].sent # << >>
  BY DEF IInv, TypeOK, SessionState, Pump
<1>2. PICK q : q = Tail(session[x].sent)
  OBVIOUS
<1>3. q \in Seq(Event)
  BY <1>1, <1>2, TailHolds
<1>4. session' = [session EXCEPT ![x].sent = q] /\ session \in [Inc -> SessionState]
  BY <1>1, <1>2 DEF Pump, TypeOK
<1>5. session' \in [Inc -> SessionState]
  BY <1>3, <1>4 DEF SessionState
<1>6. session'[x].sent = q /\ \A j \in Inc :
        /\ session'[j].state = session[j].state /\ session'[j].exit = session[j].exit
        /\ session'[j].program = session[j].program /\ session'[j].pump = session[j].pump
        /\ j # x => session'[j] = session[j]
  BY <1>3, <1>4 DEF SessionState
<1>7. /\ listed' = listed /\ closing' = closing /\ changes' = changes /\ drops' = drops /\ session[x].pump
      /\ behind' = (behind \/ session[x].state = "closed")
  BY DEF Pump
<1>8. Pumped(x, Head(session[x].sent))
  BY <1>1, <1>2, <1>6, <1>7 DEF Pumped
<1> QED
  BY <1>1, <1>5, <1>7, <1>8 DEF HostTyped, TypeOK

LEMMA PumpedHost == ASSUME IInv, NEW x, NEW e, Pumped(x, e) PROVE HostOK'
<1>0. HostOK /\ TypeOK
  BY DEF IInv
<1>1. ASSUME NEW i \in Inc PROVE SentOK(i)'
  <2>2. SentOK(i) /\ (Running(i)' <=> Running(i))
    BY <1>0 DEF HostOK, Pumped, Running
  <2>3. CASE i # x
    BY <2>2, <2>3, SentSame DEF Pumped
  <2>4. CASE i = x
    <3>1. PICK q \in Seq(Event) : q = session[x].sent /\ q # << >> /\ session'[x].sent = Tail(q)
      BY <1>0 DEF TypeOK, SessionState, Pumped
    <3>2. ASSUME NEW n \in 1..Len(Tail(q))
          PROVE  /\ Tail(q)[n].inc = i /\ Tail(q)[n].type \in {"Program", "Exited"}
                 /\ Tail(q)[n].type = "Exited" => session[i].exit
                 /\ Running(i) /\ IsLast(Tail(q), n, "Program") => Tail(q)[n].program = session[i].program
      <4>1. n + 1 \in 1..Len(q) /\ Tail(q)[n] = q[n + 1]
        BY <3>1, <3>2, TailHolds
      <4>2. IsLast(Tail(q), n, "Program") => IsLast(q, n + 1, "Program")
        BY <3>1, <3>2, LastTail
      <4> QED
        BY <2>2, <2>4, <3>1, <4>1, <4>2 DEF SentOK
    <3>3. session'[i].pump /\ session'[i].exit = session[i].exit
          /\ session'[i].program = session[i].program
      BY <2>4 DEF Pumped
    <3>4. session[i].exit => session[i].program = None
      BY <2>2 DEF SentOK
    <3>5. PICK s : s = session'[x].sent /\ s = Tail(q)
      BY <3>1
    <3>6. \A n \in 1..Len(s) :
            /\ s[n].inc = i /\ s[n].type \in {"Program", "Exited"}
            /\ s[n].type = "Exited" => session'[i].exit
            /\ Running(i)' /\ IsLast(s, n, "Program") => s[n].program = session'[i].program
      BY <2>2, <3>2, <3>3, <3>5
    <3>7. \A n : IsLast(session[i].sent, n, "Program")' <=> IsLast(s, n, "Program")
      BY <2>4, <3>5 DEF IsLast
    <3> QED
      BY <2>4, <3>3, <3>4, <3>5, <3>6, <3>7 DEF SentOK
  <2> QED
    BY <2>3, <2>4
<1>2. ASSUME NEW i \in Inc, session'[i].state = "unborn" PROVE session'[i] = Unborn
  <2>1. session[i] = Unborn
    BY <1>0, <1>2 DEF HostOK, Pumped
  <2>2. i # x
    BY <2>1 DEF Pumped, Unborn
  <2> QED
    BY <2>1, <2>2 DEF Pumped
<1>3. ASSUME NEW i \in Inc
      PROVE  /\ session'[i].state = "open" <=> i \in {listed', closing'}
             /\ session'[i].state = "closed" => session'[i].pump
             /\ \A j \in Inc : i < j /\ session'[j].state # "unborn" => session'[i].state = "closed"
  BY <1>0 DEF HostOK, Pumped
<1>4. Unborn' = Unborn
  BY DEF Unborn
<1> QED
  BY <1>0, <1>1, <1>2, <1>3, <1>4 DEF Pumped, HostOK, TypeOK

LEMMA PumpedSubscriber ==
  ASSUME IInv, NEW x, NEW e \in Event, Pumped(x, e), NEW c \in Consumer, NEW m, NEW k, WasOK(c, m), Receives(k, m, e)
  PROVE  SubscriberOK(c, k)'
<1>0. /\ QueueOK(m) /\ ToldOK(c, m) /\ EndOK(c, m) /\ ProgramOK(c, m) /\ HostOK /\ TypeOK
      /\ m \in ConsumerState /\ k \in ConsumerState /\ m.queue \in Seq(Event)
      /\ k.phase = m.phase /\ k.sub = m.sub /\ k.at = m.at
      /\ SameHistory(k, m) /\ SameShown(k, m) /\ SameLink(k, m)
  BY DEF WasOK, SubscriberOK, Receives, ConsumerState
<1>1. PICK q \in Seq(Event) : q = session[x].sent /\ q # << >> /\ session'[x].sent = Tail(q) /\ e = Head(q)
  BY <1>0 DEF TypeOK, SessionState, Pumped
<1>2. SentOK(x) /\ 1 \in 1..Len(q) /\ e = q[1] /\ x \in Inc
  BY <1>0, <1>1, TailHolds DEF HostOK, Pumped
<1>3. e.inc = x /\ e.type \in {"Program", "Exited"} /\ (e.type = "Exited" => session[x].exit)
  BY <1>1, <1>2 DEF SentOK
<1>4. session[x].state # "unborn" /\ session[x].pump
  BY <1>0, <1>2 DEF Pumped, HostOK, Unborn
<1>5. ~behind' => ~behind /\ session[x].state = "open" /\ x \in {listed, closing}
  <2>1. session[x].state \in {"unborn", "open", "closed"}
    BY <1>0, <1>2 DEF TypeOK, SessionState
  <2> QED
    BY <1>0, <1>2, <1>4, <2>1 DEF Pumped, HostOK
<1>6. (Gone' <=> Gone) /\ (Gone => behind')
  BY <1>2, <1>5, Numbers DEF Gone, Pumped
<1>7. \A type : Holds(k.queue, type)' <=> Holds(m.queue, type) \/ (m.sub /\ e.type = type)
  <2>1. \A type : Holds(k.queue, type)' <=> Holds(k.queue, type)
    BY DEF Holds
  <2> QED
    BY <1>0, <2>1, ReceivesQueue
<1>8. QueueOK(k)'
  <2>1. ASSUME NEW n \in 1..Len(k.queue) PROVE EventOK(k.queue, n)'
    <3>1. CASE m.sub /\ k.queue[n] = e /\ n = Len(m.queue) + 1
      <4>1. ASSUME ~behind', NEW j \in 1..Len(k.queue), j < n PROVE k.queue[j].inc <= k.queue[n].inc
        BY <1>0, <1>2, <1>3, <1>5, <3>1, <4>1, ReceivesInOrder
      <4> QED
        BY <1>2, <1>3, <1>4, <3>1, <4>1 DEF EventOK, Pumped
    <3>2. CASE n \in 1..Len(m.queue) /\ k.queue[n] = m.queue[n]
      <4>1. EventOK(m.queue, n) /\ m.queue[n].inc \in Inc
        BY <1>0, <3>2, Elements DEF QueueOK
      <4>2. ASSUME NEW j \in 1..Len(k.queue), j < n PROVE j \in 1..Len(m.queue) /\ k.queue[j] = m.queue[j]
        BY <1>0, <3>2, <4>2, ReceivesQueue
      <4>3. behind => behind'
        BY DEF Pumped
      <4> QED
        BY <3>2, <4>1, <4>2, <4>3 DEF EventOK, Pumped
    <3> QED
      BY <1>0, <2>1, <3>1, <3>2, ReceivesQueue
  <2>2. k.phase \in {"off", "over"} => k.queue = << >>
    BY <1>0 DEF QueueOK, Receives
  <2>3. k.phase = "listing" =>
          /\ k.at # None /\ (session'[k.at].state = "closed" => Holds(m.queue, "Closed"))
          /\ \A i \in Inc : i > k.at /\ session'[i].pump => Holds(m.queue, "Created")
    BY <1>0 DEF QueueOK, Pumped, ConsumerState
  <2>4. k.at # None => session'[k.at].state # "unborn"
    BY <1>0 DEF QueueOK, Pumped, ConsumerState
  <2>5. k.sub <=> k.phase \in {"subscribed", "listing", "listed", "up"}
    BY <1>0 DEF QueueOK
  <2>6. k.phase = "listed" /\ Gone' => Holds(m.queue, "Closed")
    BY <1>0, <1>6 DEF QueueOK
  <2> QED
    BY <1>6, <1>7, <2>1, <2>2, <2>3, <2>4, <2>5, <2>6 DEF QueueOK
<1>9. ToldOK(c, k)'
  <2>1. ASSUME NEW i \in Inc, EndedOK(m, i) PROVE EndedOK(k, i)'
    <3>1. session'[i].state = session[i].state /\ session'[i].exit = session[i].exit
          /\ session'[i].pump = session[i].pump
      BY DEF Pumped
    <3>2. ASSUME NEW n \in 1..Len(k.queue), k.queue[n].type = "Created"
          PROVE  n \in 1..Len(m.queue) /\ k.queue[n] = m.queue[n]
      BY <1>0, <1>3, <3>2, ReceivesQueue
    <3>3. k.phase = "listing" => i <= k.at /\ (i = k.at => session[i].exit)
      BY <1>0, <2>1 DEF EndedOK
    <3> QED
      BY <1>0, <2>1, <3>1, <3>2, <3>3 DEF EndedOK, Past, SameHistory
  <2> QED
    BY <1>0, <2>1 DEF ToldOK, SameHistory
<1>10. ASSUME NEW i \in Inc, m.sub, Holds(session[i].sent, "Exited")
       PROVE  Holds(session'[i].sent, "Exited") \/ (e.type = "Exited" /\ i = x)
  <2>1. CASE i # x
    BY <1>10, <2>1 DEF Pumped
  <2>2. CASE i = x
    BY <1>1, <1>10, <2>2, TailHolds
  <2> QED
    BY <2>1, <2>2
<1>11. ASSUME NEW i \in Inc, Coming(m, i), m.sub PROVE Coming(k, i)'
  BY <1>7, <1>10, <1>11 DEF Coming, Holds
<1>12. ASSUME NEW i \in Inc, Pending(m, i), m.sub PROVE Pending(k, i)'
  <2>1. CASE e.type = "Exited"
    <3>1. PICK n : n = Len(m.queue) + 1
      OBVIOUS
    <3>2. n \in 1..Len(k.queue) /\ k.queue[n].type = "Exited"
      BY <1>0, <1>12, <2>1, <3>1, ReceivesQueue
    <3>3. ASSUME NEW j \in 1..Len(k.queue) PROVE ~(j > n)
      BY <1>0, <1>12, <3>1, ReceivesQueue
    <3> QED
      BY <3>2, <3>3 DEF Pending
  <2>2. CASE e.type # "Exited" /\ Holds(session[i].sent, "Exited")
    BY <1>10, <1>12, <2>2 DEF Pending, Holds
  <2>3. ASSUME NEW n \in 1..Len(m.queue), m.queue[n].type = "Exited",
               \A j \in 1..Len(m.queue) : j > n => m.queue[j].type # "Created"
        PROVE  Pending(k, i)'
    <3>1. n \in 1..Len(k.queue) /\ k.queue[n].type = "Exited"
      BY <1>0, <2>3, ReceivesQueue
    <3>2. ASSUME NEW j \in 1..Len(k.queue), j > n PROVE k.queue[j].type # "Created"
      BY <1>0, <1>3, <2>3, <3>2, ReceivesQueue
    <3> QED
      BY <3>1, <3>2 DEF Pending
  <2> QED
    BY <1>12, <2>1, <2>2, <2>3 DEF Pending
<1>13. EndOK(c, k)'
  <2>1. Holds(k.queue, "Created")' => Holds(m.queue, "Created")
    BY <1>3, <1>7
  <2>2. drops' = drops /\ listed' = listed /\ \A i \in Inc : session'[i].exit = session[i].exit
    BY DEF Pumped
  <2>3. m.phase \in {"subscribed", "listing", "listed", "up"} => m.sub
    BY <1>0 DEF QueueOK
  <2> QED
    BY <1>0, <1>11, <1>12, <2>1, <2>2, <2>3 DEF EndOK, SameLink, SameHistory
<1>14. ProgramOK(c, k)'
  <2>1. ASSUME ~behind', NEW i \in Inc, listed' = i, Running(i)', ~Holds(session'[i].sent, "Program"), k.sub
        PROVE  RunningOK(c, k, i)'
    <3>1. Running(i) /\ i = x
      BY <1>0, <1>2, <1>5, <2>1, Numbers DEF Running, Pumped, HostOK
    <3>2. ~Holds(Tail(q), "Program")
      BY <1>1, <2>1, <3>1
    <3>3. e.type = "Program"
      BY <1>3, <3>1 DEF Running
    <3>4. ASSUME NEW j \in 1..Len(q), j > 1 PROVE q[j].type # "Program"
      <4>1. j - 1 \in 1..Len(Tail(q)) /\ q[j] = Tail(q)[j - 1]
        BY <1>1, <3>4, TailHolds
      <4> QED
        BY <3>2, <4>1 DEF Holds
    <3>5. IsLast(q, 1, "Program")
      BY <1>2, <3>3, <3>4 DEF IsLast
    <3>6. e.program = session[x].program
      BY <1>1, <1>2, <3>1, <3>5 DEF SentOK
    <3>7. ASSUME NEW n \in 1..Len(k.queue), IsLast(k.queue, n, "Program") PROVE k.queue[n] = e
      <4>1. LastFrom(k, m, e, n, "Program")
        BY <1>0, <3>7, ReceivesLast
      <4> QED
        BY <1>0, <2>1, <3>3, <4>1 DEF LastFrom
    <3>8. LastOK(k.queue, i)'
      BY <1>3, <3>1, <3>6, <3>7 DEF LastOK, IsLast, Pumped
    <3>9. Holds(k.queue, "Program")'
      BY <1>0, <1>7, <2>1, <3>3
    <3> QED
      BY <3>8, <3>9 DEF RunningOK
  <2>2. \A i : Holds(session[i].sent, "Program")' <=> Holds(session'[i].sent, "Program")
    BY DEF Holds
  <2> QED
    BY <1>0, <1>6, <2>1, <2>2 DEF ProgramOK, SameShown, SameHistory, SameLink
<1> QED
  BY <1>8, <1>9, <1>13, <1>14 DEF SubscriberOK

LEMMA PumpKeeps == ASSUME IInv, NEW x \in Inc, Pump(x) PROVE IInv'
<1>1. PICK e : e = Head(session[x].sent)
  OBVIOUS
<1>2. e \in Event
  <2>1. session[x].sent \in Seq(Event) /\ session[x].sent # << >>
    BY DEF IInv, TypeOK, SessionState, Pump
  <2> QED
    BY <1>1, <2>1, TailHolds
<1>3. consumer' = Published(e) /\ Pumped(x, e) /\ HostTyped
  BY <1>1, PumpedIs DEF Pump
<1> QED
  BY <1>2, <1>3, PumpedHost, PumpedSubscriber, PublishedKeeps

(* Closed. *)
Closes(x) ==
  /\ x \in Inc /\ closing = x /\ listed = None /\ listed' = None /\ closing' = None
  /\ behind' = behind /\ drops' = drops
  /\ session[x].pump /\ session[x].state = "open" /\ session'[x].state = "closed"
  /\ \A j \in Inc : /\ session'[j].exit = session[j].exit /\ session'[j].program = session[j].program
                    /\ session'[j].pump = session[j].pump /\ session'[j].sent = session[j].sent
                    /\ j # x => session'[j] = session[j]

LEMMA ClosesIs == ASSUME IInv, Closed PROVE closing \in Inc /\ Closes(closing) /\ HostTyped
<1>1. TypeOK /\ HostOK
  BY DEF IInv
<1>2. PICK x : x = closing /\ x \in Inc
  BY <1>1 DEF Closed, TypeOK
<1>3. session' = [session EXCEPT ![x].state = "closed"] /\ session \in [Inc -> SessionState]
  BY <1>1, <1>2 DEF Closed, TypeOK
<1>4. session' \in [Inc -> SessionState]
  BY <1>2, <1>3 DEF SessionState
<1>5. session'[x].state = "closed" /\ \A j \in Inc :
        /\ session'[j].exit = session[j].exit /\ session'[j].program = session[j].program
        /\ session'[j].pump = session[j].pump /\ session'[j].sent = session[j].sent
        /\ j # x => session'[j] = session[j]
  BY <1>2, <1>3 DEF SessionState
<1>6. Newest(x) /\ session[x].state = "open"
  BY <1>1, <1>2, OpenIsNewest
<1>7. listed = None /\ session[x].pump
  BY <1>1, <1>2, Numbers DEF HostOK, Closed
<1>8. listed' = listed /\ closing' = None /\ behind' = behind /\ changes' = changes /\ drops' = drops
  BY DEF Closed
<1>9. Closes(x)
  BY <1>2, <1>5, <1>6, <1>7, <1>8 DEF Closes
<1> QED
  BY <1>1, <1>2, <1>4, <1>8, <1>9 DEF HostTyped, TypeOK

LEMMA ClosesHost == ASSUME IInv, NEW x, Closes(x) PROVE HostOK'
<1>0. HostOK
  BY DEF IInv
<1>1. ASSUME NEW i \in Inc PROVE SentOK(i)'
  <2>1. SentOK(i) /\ (Running(i)' => Running(i))
    BY <1>0 DEF HostOK, Closes, Running
  <2> QED
    BY <2>1, SentSame DEF Closes
<1>2. ASSUME NEW j \in Inc PROVE session'[j].state = "unborn" <=> session[j].state = "unborn"
  BY DEF Closes
<1>3. ASSUME NEW i \in Inc
      PROVE  /\ session'[i].state = "open" <=> i \in {listed', closing'}
             /\ session'[i].state = "closed" => session'[i].pump
             /\ session'[i].state = "unborn" => session'[i] = Unborn
             /\ \A j \in Inc : i < j /\ session'[j].state # "unborn" => session'[i].state = "closed"
  BY <1>0, <1>2, Numbers DEF HostOK, Closes
<1>4. Unborn' = Unborn
  BY DEF Unborn
<1> QED
  BY <1>1, <1>3, <1>4, Numbers DEF Closes, HostOK

LEMMA ClosesSubscriber ==
  ASSUME IInv, NEW x, Closes(x), NEW c \in Consumer, NEW m, NEW k, NEW e \in Event, WasOK(c, m),
         e.type = "Closed", e.inc = x, Receives(k, m, e)
  PROVE  SubscriberOK(c, k)'
<1>0. /\ QueueOK(m) /\ ToldOK(c, m) /\ EndOK(c, m) /\ ProgramOK(c, m) /\ HostOK /\ TypeOK
      /\ m \in ConsumerState /\ k \in ConsumerState /\ m.queue \in Seq(Event)
      /\ k.phase = m.phase /\ k.sub = m.sub /\ k.at = m.at
      /\ SameHistory(k, m) /\ SameShown(k, m) /\ SameLink(k, m)
  BY DEF WasOK, SubscriberOK, Receives, ConsumerState
<1>1. ASSUME NEW j \in Inc
      PROVE  /\ session'[j].state = "unborn" <=> session[j].state = "unborn"
             /\ session[j].state = "closed" => session'[j].state = "closed"
             /\ session'[j].exit = session[j].exit /\ session'[j].pump = session[j].pump
  BY DEF Closes
<1>2. \A type : Holds(k.queue, type)' <=> Holds(m.queue, type) \/ (m.sub /\ e.type = type)
  <2>1. \A type : Holds(k.queue, type)' <=> Holds(k.queue, type)
    BY DEF Holds
  <2> QED
    BY <1>0, <2>1, ReceivesQueue
<1>3. \A i \in Inc : listed' # i
  BY Numbers DEF Closes
<1>4. QueueOK(k)'
  <2>1. ASSUME NEW n \in 1..Len(k.queue) PROVE EventOK(k.queue, n)'
    <3>1. CASE m.sub /\ k.queue[n] = e /\ n = Len(m.queue) + 1
      <4>1. ASSUME NEW j \in 1..Len(k.queue), j < n PROVE k.queue[j].inc <= k.queue[n].inc
        BY <1>0, <3>1, <4>1, ReceivesInOrder DEF Closes
      <4> QED
        BY <3>1, <4>1 DEF EventOK, Closes
    <3>2. CASE n \in 1..Len(m.queue) /\ k.queue[n] = m.queue[n]
      <4>1. EventOK(m.queue, n) /\ m.queue[n].inc \in Inc
        BY <1>0, <3>2, Elements DEF QueueOK
      <4>2. ASSUME NEW j \in 1..Len(k.queue), j < n PROVE j \in 1..Len(m.queue) /\ k.queue[j] = m.queue[j]
        BY <1>0, <3>2, <4>2, ReceivesQueue
      <4>3. behind' = behind
        BY DEF Closes
      <4> QED
        BY <1>1, <3>2, <4>1, <4>2, <4>3 DEF EventOK
    <3> QED
      BY <1>0, <2>1, <3>1, <3>2, ReceivesQueue
  <2>2. ASSUME k.sub, NEW n \in 1..Len(k.queue), k.queue[n].type = "Program" PROVE ClosesAfter(k.queue, n)
    <3>0. m.sub
      BY <1>0, <2>2
    <3>1. Len(m.queue) + 1 \in 1..Len(k.queue) /\ k.queue[Len(m.queue) + 1] = e
      BY <1>0, <3>0, ReceivesQueue
    <3>2. k.queue[n] # e
      BY <2>2
    <3>3. n \in 1..Len(m.queue)
      BY <1>0, <2>2, <3>2, ReceivesQueue
    <3>4. Len(m.queue) + 1 > n
      BY <1>0, <3>3
    <3> QED
      BY <3>1, <3>4 DEF ClosesAfter
  <2>3. k.phase \in {"off", "over"} => k.queue = << >>
    BY <1>0 DEF QueueOK, Receives
  <2>4. k.sub <=> k.phase \in {"subscribed", "listing", "listed", "up"}
    BY <1>0 DEF QueueOK
  <2>5. k.phase = "listing" =>
          /\ k.at # None
          /\ \A i \in Inc : i > k.at /\ session'[i].pump => Holds(m.queue, "Created")
    BY <1>0, <1>1 DEF QueueOK
  <2>6. k.at # None => session'[k.at].state # "unborn"
    BY <1>0, <1>1 DEF QueueOK, ConsumerState
  <2> QED
    BY <1>0, <1>2, <2>1, <2>2, <2>3, <2>4, <2>5, <2>6 DEF QueueOK, ClosesAfter
<1>5. ToldOK(c, k)'
  <2>1. ASSUME NEW i \in Inc, EndedOK(m, i) PROVE EndedOK(k, i)'
    <3>1. ASSUME NEW n \in 1..Len(k.queue), k.queue[n].type = "Created"
          PROVE  n \in 1..Len(m.queue) /\ k.queue[n] = m.queue[n]
      BY <1>0, <3>1, ReceivesQueue
    <3>2. k.phase = "listing" => i <= k.at /\ (i = k.at => session[i].exit)
      BY <1>0, <2>1 DEF EndedOK
    <3> QED
      BY <1>0, <1>1, <2>1, <3>1, <3>2 DEF EndedOK, Past, SameHistory
  <2> QED
    BY <1>0, <2>1 DEF ToldOK, SameHistory
<1>6. EndOK(c, k)'
  <2>1. drops' = drops
    BY DEF Closes
  <2> QED
    BY <1>0, <1>3, <2>1 DEF EndOK, SameLink
<1>7. ProgramOK(c, k)'
  <2>1. k.phase = "up" => Holds(k.queue, "Closed")'
    BY <1>0, <1>2 DEF QueueOK
  <2> QED
    BY <1>0, <1>3, <2>1 DEF ProgramOK, SameShown, SameHistory, SameLink
<1> QED
  BY <1>4, <1>5, <1>6, <1>7 DEF SubscriberOK

LEMMA ClosedKeeps == ASSUME IInv, Closed PROVE IInv'
<1>1. PICK x : x = closing /\ x \in Inc /\ Closes(x)
  BY ClosesIs
<1>2. PICK e : e = News("Closed", x, None)
  OBVIOUS
<1>3. e \in Event /\ e.type = "Closed" /\ e.inc = x
  BY <1>1, <1>2, NewsIs
<1>4. consumer' = Published(e)
  BY <1>1, <1>2 DEF Closed
<1> QED
  BY <1>1, <1>2, <1>3, <1>4, ClosesIs, ClosesHost, ClosesSubscriber, PublishedKeeps

(* Remove: nobody hears of it yet. *)
LEMMA RemoveKeeps == ASSUME IInv, Remove PROVE IInv'
<1>1. PICK x : x = listed /\ x \in Inc
  BY DEF IInv, TypeOK, Remove
<1>2. /\ closing' = x /\ listed' = None /\ session[x].pump /\ session' = session /\ consumer' = consumer
      /\ behind' = behind /\ changes' = changes /\ drops' = drops /\ closing = None
  BY <1>1, Numbers DEF Remove, IInv, HostOK
<1>3. HostTyped
  BY <1>1, <1>2 DEF HostTyped, IInv, TypeOK
<1>4. HostOK'
  <2>1. ASSUME NEW i \in Inc PROVE SentOK(i)'
    BY <1>2, SentSame DEF IInv, HostOK, Running
  <2> QED
    BY <1>1, <1>2, <2>1 DEF IInv, HostOK, Unborn
<1>5. ASSUME NEW c \in Consumer, NEW m, WasOK(c, m) PROVE SubscriberOK(c, m)'
  <2>0. QueueOK(m) /\ ToldOK(c, m) /\ EndOK(c, m) /\ ProgramOK(c, m)
    BY <1>5 DEF WasOK, SubscriberOK
  <2>1. ~Gone' /\ \A i \in Inc : listed' # i
    BY <1>1, <1>2, Numbers DEF Gone
  <2>2. \A type : Holds(m.queue, type)' <=> Holds(m.queue, type)
    BY DEF Holds
  <2>3. \A n : EventOK(m.queue, n)' <=> EventOK(m.queue, n)
    BY <1>2 DEF EventOK
  <2>4. QueueOK(m)'
    BY <1>2, <2>0, <2>1, <2>2, <2>3 DEF QueueOK
  <2>5. ToldOK(c, m)'
    BY <1>2, <2>0 DEF ToldOK, EndedOK, Past
  <2>6. EndOK(c, m)'
    BY <1>2, <2>0, <2>1 DEF EndOK
  <2>7. ProgramOK(c, m)'
    BY <2>0, <2>1 DEF ProgramOK
  <2> QED
    BY <2>4, <2>5, <2>6, <2>7 DEF SubscriberOK
<1> QED
  BY <1>2, <1>3, <1>4, <1>5, UnheardKeeps

(* The owner of a running session sends: a change of the program or the exit. *)
Sends(x) ==
  /\ x \in Inc /\ Running(x)
  /\ listed' = listed /\ closing' = closing /\ behind' = behind /\ drops' = drops
  /\ session'[x].exit => Holds(session'[x].sent, "Exited")
  /\ ~session'[x].exit => Holds(session'[x].sent, "Program")
  /\ \A j \in Inc : /\ session'[j].state = session[j].state /\ session'[j].pump = session[j].pump
                    /\ j # x => session'[j] = session[j]

LEMMA SendsSubscriber ==
  ASSUME IInv, NEW x, Sends(x), NEW c \in Consumer, NEW m, WasOK(c, m)
  PROVE  SubscriberOK(c, m)'
<1>0. QueueOK(m) /\ ToldOK(c, m) /\ EndOK(c, m) /\ ProgramOK(c, m) /\ m \in ConsumerState
  BY DEF WasOK, SubscriberOK
<1>1. ASSUME NEW i \in Inc PROVE session[i].exit => session'[i].exit
  BY DEF Sends, Running
<1>2. \A type : Holds(m.queue, type)' <=> Holds(m.queue, type)
  BY DEF Holds
<1>3. Gone' <=> Gone
  BY DEF Gone, Sends
<1>4. QueueOK(m)'
  <2>1. ASSUME NEW n \in 1..Len(m.queue) PROVE EventOK(m.queue, n)'
    <3>1. EventOK(m.queue, n) /\ m.queue[n] \in Event
      BY <1>0 DEF QueueOK, ConsumerState
    <3>2. m.queue[n].inc \in Inc
      BY <3>1 DEF Event
    <3> QED
      BY <1>1, <3>1, <3>2 DEF EventOK, Sends
  <2>2. \A n : ClosesAfter(m.queue, n)' <=> ClosesAfter(m.queue, n)
    BY DEF ClosesAfter
  <2> QED
    BY <1>0, <1>2, <1>3, <2>1, <2>2 DEF QueueOK, Sends, ConsumerState
<1>5. ToldOK(c, m)'
  <2>1. ASSUME NEW i \in Inc, EndedOK(m, i) PROVE EndedOK(m, i)'
    BY <1>1, <2>1 DEF EndedOK, Past, Sends
  <2> QED
    BY <1>0, <2>1 DEF ToldOK
<1>6. EndOK(c, m)'
  <2>1. ASSUME NEW i \in Inc, session'[i].exit
        PROVE  \/ Pending(m, i)' /\ Coming(m, i)'
               \/ session[i].exit /\ (Coming(m, i) => Coming(m, i)') /\ (Pending(m, i) => Pending(m, i)')
    <3>1. CASE i = x
      <4>1. Holds(session[i].sent, "Exited")'
        BY <2>1, <3>1 DEF Sends, Holds
      <4> QED
        BY <4>1 DEF Coming, Pending
    <3>2. CASE i # x
      BY <2>1, <3>2 DEF Sends, Coming, Pending, Holds
    <3> QED
      BY <3>1, <3>2
  <2>2. drops' = drops /\ listed' = listed
    BY DEF Sends
  <2> QED
    BY <1>0, <1>2, <2>1, <2>2 DEF EndOK
<1>7. ProgramOK(c, m)'
  <2>1. ASSUME ~behind', NEW i \in Inc, listed' = i, Running(i)', ~Holds(session[i].sent, "Program")', m.sub
        PROVE  RunningOK(c, m, i)'
    <3>1. i # x
      BY <2>1 DEF Running, Sends, Holds
    <3>2. session'[i] = session[i] /\ Running(i) /\ ~Holds(session[i].sent, "Program") /\ listed = i /\ ~behind
      BY <2>1, <3>1 DEF Running, Sends, Holds
    <3>3. RunningOK(c, m, i)
      BY <1>0, <2>1, <3>2 DEF ProgramOK
    <3>4. LastOK(m.queue, i)'
      BY <3>2, <3>3 DEF RunningOK, LastOK, IsLast, ClosesAfter
    <3> QED
      BY <1>2, <3>2, <3>3, <3>4 DEF RunningOK, FirstOK, KnownOK
  <2>2. behind' = behind
    BY DEF Sends
  <2> QED
    BY <1>0, <1>2, <1>3, <2>1, <2>2 DEF ProgramOK
<1> QED
  BY <1>4, <1>5, <1>6, <1>7 DEF SubscriberOK

LEMMA SendsHost == ASSUME IInv, NEW x, Sends(x), SentOK(x)' PROVE HostOK'
<1>0. HostOK
  BY DEF IInv
<1>1. ASSUME NEW i \in Inc, i # x PROVE SentOK(i)'
  <2>1. SentOK(i) /\ session'[i] = session[i] /\ (Running(i)' => Running(i))
    BY <1>0, <1>1 DEF HostOK, Sends, Running
  <2> QED
    BY <2>1, SentSame
<1>2. ASSUME NEW i \in Inc
      PROVE  /\ session'[i].state = "open" <=> i \in {listed', closing'}
             /\ session'[i].state = "closed" => session'[i].pump
             /\ session'[i].state = "unborn" => session'[i] = Unborn
             /\ \A j \in Inc : i < j /\ session'[j].state # "unborn" => session'[i].state = "closed"
  BY <1>0 DEF HostOK, Sends, Running
<1>3. closing' # None => session'[closing'].pump
  BY <1>0 DEF HostOK, Sends, IInv, TypeOK
<1>4. Unborn' = Unborn
  BY DEF Unborn
<1> QED
  BY <1>0, <1>1, <1>2, <1>3, <1>4 DEF Sends, HostOK

(* What is put behind what an owner sent. *)
Own(q, x) == \A n \in 1..Len(q) : q[n].inc = x /\ q[n].type = "Program"

LEMMA SentIsOwn ==
  ASSUME IInv, NEW x \in Inc, Running(x)
  PROVE  session[x].sent \in Seq(Event) /\ Own(session[x].sent, x)
  BY DEF IInv, TypeOK, SessionState, HostOK, SentOK, Running, Own

LEMMA OwnAppend ==
  ASSUME NEW q \in Seq(Event), NEW x, Own(q, x), NEW e \in Event, e.inc = x, e.type = "Program"
  PROVE  Append(q, e) \in Seq(Event) /\ Own(Append(q, e), x)
  BY AppendHolds DEF Own

LEMMA ChangeKeeps == ASSUME IInv, NEW x \in Inc, NEW p \in Program \cup {None}, Change(x, p) PROVE IInv'
<1>0. HostOK /\ TypeOK /\ session \in [Inc -> SessionState] /\ Running(x) /\ session[x].state = "open"
  BY DEF IInv, TypeOK, Change, Running
<1>1. PICK e : e = News("Program", x, p)
  OBVIOUS
<1>2. e \in Event /\ e.type = "Program" /\ e.inc = x /\ e.program = p
  BY <1>1, NewsIs
<1>3. PICK q : /\ q \in Seq(Event) /\ Own(q, x)
               /\ session' = [session EXCEPT ![x].program = p, ![x].sent = Append(q, e)]
  <2>0. session[x].sent \in Seq(Event) /\ Own(session[x].sent, x)
    BY <1>0, SentIsOwn
  <2>1. CASE session[x].program # None /\ p # None
    <3>1. PICK over : over = News("Program", x, None)
      OBVIOUS
    <3>2. over \in Event /\ over.type = "Program" /\ over.inc = x
      BY <3>1, NewsIs
    <3>3. Append(session[x].sent, over) \in Seq(Event) /\ Own(Append(session[x].sent, over), x)
      BY <2>0, <3>2, OwnAppend
    <3>4. session' = [session EXCEPT ![x].program = p, ![x].sent = @ \o <<over>> \o <<e>>]
      BY <1>1, <2>1, <3>1 DEF Change
    <3>5. session[x].sent \o <<over>> \o <<e>> = Append(Append(session[x].sent, over), e)
      BY <1>2, <2>0, <3>2
    <3>6. session' = [session EXCEPT ![x].program = p, ![x].sent = Append(Append(session[x].sent, over), e)]
      BY <1>0, <3>4, <3>5 DEF SessionState
    <3> QED
      BY <3>3, <3>6
  <2>2. CASE ~(session[x].program # None /\ p # None)
    <3>1. session' = [session EXCEPT ![x].program = p, ![x].sent = @ \o << >> \o <<e>>]
      BY <1>1, <2>2 DEF Change
    <3>2. session[x].sent \o << >> \o <<e>> = Append(session[x].sent, e)
      BY <1>2, <2>0
    <3>3. session' = [session EXCEPT ![x].program = p, ![x].sent = Append(session[x].sent, e)]
      BY <1>0, <3>1, <3>2 DEF SessionState
    <3> QED
      BY <2>0, <3>3
  <2> QED
    BY <2>1, <2>2
<1>4. PICK s : s = Append(q, e)
  OBVIOUS
<1>5. s \in Seq(Event) /\ Own(s, x) /\ Holds(s, "Program") /\ s # << >>
  BY <1>2, <1>3, <1>4, OwnAppend, AppendHolds
<1>6. session' \in [Inc -> SessionState] /\ session'[x].program = p /\ session'[x].sent = s
      /\ session'[x].exit = session[x].exit
      /\ \A j \in Inc : /\ session'[j].state = session[j].state /\ session'[j].pump = session[j].pump
                        /\ j # x => session'[j] = session[j]
  BY <1>0, <1>3, <1>4, <1>5 DEF SessionState
<1>7. listed' = listed /\ closing' = closing /\ behind' = behind /\ drops' = drops /\ consumer' = consumer
      /\ changes' \in 0..MaxChange
  BY <1>0, SessionNewsAssumption DEF Change, TypeOK
<1>8. ~session[x].exit
  BY <1>0 DEF Running
<1>9. Sends(x)
  BY <1>0, <1>5, <1>6, <1>7, <1>8 DEF Sends
<1>10. SentOK(x)'
  <2>1. ASSUME NEW n \in 1..Len(s), IsLast(s, n, "Program") PROVE s[n].program = p
    BY <1>2, <1>3, <1>4, <2>1, LastAppend, AppendHolds
  <2>2. \A n : IsLast(session[x].sent, n, "Program")' <=> IsLast(s, n, "Program")
    BY <1>6 DEF IsLast
  <2> QED
    BY <1>5, <1>6, <1>8, <2>1, <2>2 DEF SentOK, Own
<1>11. HostTyped
  BY <1>0, <1>6, <1>7 DEF HostTyped, TypeOK
<1> QED
  BY <1>7, <1>9, <1>10, <1>11, SendsHost, SendsSubscriber, UnheardKeeps

LEMMA ExitKeeps == ASSUME IInv, NEW x \in Inc, Exit(x) PROVE IInv'
<1>0. HostOK /\ TypeOK /\ session \in [Inc -> SessionState] /\ Running(x) /\ session[x].state = "open"
  BY DEF IInv, TypeOK, Exit, Running
<1>1. PICK e : e = News("Exited", x, None)
  OBVIOUS
<1>2. e \in Event /\ e.type = "Exited" /\ e.inc = x
  BY <1>1, NewsIs
<1>3. session[x].sent \in Seq(Event) /\ Own(session[x].sent, x)
  BY <1>0, SentIsOwn
<1>4. PICK s : s = Append(session[x].sent, e)
  OBVIOUS
<1>5. s \in Seq(Event) /\ Holds(s, "Exited") /\ s # << >>
  BY <1>2, <1>3, <1>4, AppendHolds
<1>6. session' = [session EXCEPT ![x].exit = TRUE, ![x].program = None, ![x].sent = s]
  BY <1>0, <1>1, <1>4 DEF Exit, SessionState
<1>7. session' \in [Inc -> SessionState] /\ session'[x].program = None /\ session'[x].sent = s /\ session'[x].exit
      /\ \A j \in Inc : /\ session'[j].state = session[j].state /\ session'[j].pump = session[j].pump
                        /\ j # x => session'[j] = session[j]
  BY <1>0, <1>5, <1>6 DEF SessionState
<1>8. listed' = listed /\ closing' = closing /\ behind' = behind /\ drops' = drops /\ consumer' = consumer
      /\ changes' = changes
  BY DEF Exit
<1>9. Sends(x)
  BY <1>0, <1>5, <1>7, <1>8 DEF Sends
<1>10. SentOK(x)'
  <2>1. ASSUME NEW n \in 1..Len(s) PROVE s[n].inc = x /\ s[n].type \in {"Program", "Exited"}
    BY <1>2, <1>3, <1>4, <2>1, AppendHolds DEF Own
  <2>2. ~Running(x)' /\ Holds(session[x].sent, "Exited")'
    BY <1>5, <1>7 DEF Running, Holds
  <2> QED
    BY <1>7, <2>1, <2>2 DEF SentOK
<1>11. HostTyped
  BY <1>0, <1>7, <1>8 DEF HostTyped, TypeOK
<1> QED
  BY <1>8, <1>9, <1>10, <1>11, SendsHost, SendsSubscriber, UnheardKeeps

-----------------------------------------------------------------------------
(* Nothing is there at first. *)
LEMMA InitOK == Init => IInv
<1> SUFFICES ASSUME Init PROVE IInv
  OBVIOUS
<1>1. PICK q : q = << >> /\ q \in Seq(Event)
  BY EmptySeqOfEvents
<1>2. PICK f : f = [i \in Inc |-> 0] /\ f \in [Inc -> 0..2]
  <2>1. [i \in Inc |-> 0] \in [Inc -> 0..2]
    OBVIOUS
  <2> QED
    BY <2>1
<1>3. NoSummary \in Summary
  BY DEF NoSummary, Summary
<1>4. /\ NewConsumer \in ConsumerState /\ NewConsumer.phase = "off" /\ ~NewConsumer.sub /\ NewConsumer.queue = q
      /\ ~NewConsumer.open /\ ~NewConsumer.ended /\ NewConsumer.shown = None /\ NewConsumer.at = None
      /\ NewConsumer.told = f
  <2>1. NewConsumer = [ phase |-> "off", sub |-> FALSE, queue |-> q, open |-> FALSE, summary |-> NoSummary,
                        snapshot |-> FALSE, due |-> FALSE, ended |-> FALSE, shown |-> None, at |-> None,
                        told |-> f, late |-> FALSE, revived |-> FALSE ]
    BY <1>1, <1>2 DEF NewConsumer
  <2> QED
    BY ONLY <1>1, <1>2, <1>3, <2>1 DEF ConsumerState
<1>5. PICK m : m = NewConsumer
  OBVIOUS
<1>6. /\ Unborn \in SessionState /\ Unborn.state = "unborn" /\ ~Unborn.exit /\ ~Unborn.pump /\ Unborn.program = None
      /\ Unborn.sent = q
  <2>1. Unborn = [state |-> "unborn", exit |-> FALSE, pump |-> FALSE, program |-> None, sent |-> q]
    BY <1>1 DEF Unborn
  <2> QED
    BY ONLY <1>1, <2>1 DEF SessionState
<1>7. /\ session = [i \in Inc |-> Unborn] /\ listed = None /\ closing = None
      /\ consumer = [c \in Consumer |-> m] /\ behind = FALSE /\ changes = 0 /\ drops = 0
  BY <1>5 DEF Init
<1>8. TypeOK
  <2>1. session \in [Inc -> SessionState] /\ consumer \in [Consumer -> ConsumerState]
    BY ONLY <1>4, <1>5, <1>6, <1>7
  <2>2. \A c \in Consumer : consumer[c] = m
    BY ONLY <1>7
  <2>3. changes \in 0..MaxChange /\ drops \in 0..MaxDrop
    BY <1>7, SessionNewsAssumption
  <2> QED
    BY <1>1, <1>4, <1>5, <1>7, <2>1, <2>2, <2>3 DEF TypeOK, Consumer
<1>9. \A i \in Inc : session[i] = Unborn
  BY <1>7
<1>10. HostOK
  BY <1>1, <1>6, <1>7, <1>9, Numbers DEF HostOK, SentOK
<1>11. ASSUME NEW c \in Consumer PROVE SubscriberOK(c, m)
  <2>1. m.queue = << >>
    BY <1>1, <1>4, <1>5
  <2>2. QueueOK(m)
    BY <1>4, <1>5, <2>1, EmptyHolds DEF QueueOK
  <2>3. ToldOK(c, m)
    BY <1>2, <1>4, <1>5 DEF ToldOK
  <2>4. EndOK(c, m)
    BY <1>4, <1>5 DEF EndOK
  <2>5. ProgramOK(c, m)
    BY <1>4, <1>5 DEF ProgramOK
  <2> QED
    BY <2>2, <2>3, <2>4, <2>5 DEF SubscriberOK
<1> QED
  BY <1>7, <1>8, <1>10, <1>11 DEF IInv

(* A step of nobody. *)
LEMMA StutterKeeps == ASSUME IInv, UNCHANGED vars PROVE IInv'
<1>1. HostTyped /\ HostStays /\ DropsGrow /\ consumer' = consumer
  BY DEF IInv, TypeOK, HostTyped, HostStays, DropsGrow, vars
<1>2. HostOK'
  BY <1>1, HostStaysOK DEF IInv
<1>3. ASSUME NEW c \in Consumer, NEW m, WasOK(c, m) PROVE SubscriberOK(c, m)'
  BY <1>1, <1>3, QueueStays, ToldStays, EndStays, ProgramStays DEF WasOK, SubscriberOK
<1> QED
  BY <1>1, <1>2, <1>3, UnheardKeeps

LEMMA ConsumerStepKeeps == ASSUME IInv, NEW c \in Consumer, ConsumerStep(c) PROVE IInv'
<1>1. CASE Subscribe(c) \/ Lists(c)
  BY <1>1, SubscribeKeeps, ListsKeeps
<1>2. CASE c \in Link /\ (LinkLists(c) \/ LinkMisses(c) \/ LinkAttaches(c))
  BY <1>2, LinkListsKeeps, LinkMissesKeeps, LinkAttachesKeeps
<1>3. CASE c \in Link /\ (LinkRefused(c) \/ LinkShows(c) \/ LinkHears(c))
  BY <1>3, LinkRefusedKeeps, LinkShowsKeeps, LinkHearsKeeps
<1>4. CASE c \in Listener /\ (ListenerSeeds(c) \/ ListenerHears(c))
  BY <1>4, ListenerSeedsKeeps, ListenerHearsKeeps
<1> QED
  BY <1>1, <1>2, <1>3, <1>4 DEF ConsumerStep

LEMMA NextKeeps == ASSUME IInv, [Next]_vars PROVE IInv'
<1>1. CASE HostStep
  BY <1>1, AnnounceKeeps, ClosedKeeps, PumpKeeps DEF HostStep
<1>2. CASE Insert
  BY <1>2, InsertKeeps
<1>3. CASE Remove
  BY <1>3, RemoveKeeps
<1>4. CASE \E i \in Inc : Exit(i) \/ \E p \in Program \cup {None} : Change(i, p)
  BY <1>4, ExitKeeps, ChangeKeeps
<1>5. CASE \E c \in Consumer : ConsumerStep(c) \/ Drop(c) \/ GivesUp(c)
  BY <1>5, ConsumerStepKeeps, DropKeeps, GivesUpKeeps
<1>6. CASE \E c \in Link : LinkCreates(c)
  BY <1>6, LinkCreatesKeeps
<1>7. CASE UNCHANGED vars
  BY <1>7, StutterKeeps
<1> QED
  BY <1>1, <1>2, <1>3, <1>4, <1>5, <1>6, <1>7 DEF Next

LEMMA Invariant == Spec => []IInv
<1>1. IInv /\ [Next]_vars => IInv'
  BY NextKeeps
<1> QED
  BY <1>1, InitOK, PTL DEF Spec

-----------------------------------------------------------------------------
(* Nothing is queued for a subscriber without a subscription, and a link that is
   up is attached: the records of sessions.rs and of the two subscribers keep
   their shape. *)
THEOREM TypeCorrect == Spec => []TypeOK
<1>1. IInv => TypeOK
  BY DEF IInv
<1> QED
  BY <1>1, Invariant, PTL

(* The app hears one end of a session at most, whichever of the listing, an
   Exited event or a Closed event comes first (link.rs exited, host_programs.rs
   ended), unless a listing overtook an event. *)
THEOREM OneEnd == Spec => []OneEndPerSession
<1>1. ASSUME IInv PROVE OneEndPerSession
  <2> SUFFICES ASSUME NEW c \in Consumer, NEW i \in Inc, ~consumer[c].late PROVE consumer[c].told[i] <= 1
    BY DEF OneEndPerSession
  <2>1. ToldOK(c, consumer[c]) /\ (c \in Link \/ c \in Listener)
    BY <1>1 DEF IInv, SubscriberOK, Consumer
  <2> QED
    BY <2>1 DEF ToldOK
<1> QED
  BY <1>1, Invariant, PTL

(* A subscriber that has heard everything has told the app the program that
   holds the terminal, through listings that overtake events and through
   reconnections (link.rs reseed_chunks, host_programs.rs seed). *)
THEOREM ProgramTold == Spec => []ProgramIsCurrent
<1>1. ASSUME IInv PROVE ProgramIsCurrent
  <2> SUFFICES ASSUME NEW c \in Consumer, NEW i \in Inc, Quiet(c), ~behind, ~consumer[c].revived, listed = i,
                      Running(i), session[i].pump, c \in Link => consumer[c].at = i /\ ~consumer[c].ended
               PROVE  consumer[c].shown = session[i].program
    BY DEF ProgramIsCurrent
  <2>1. PICK k : k = consumer[c]
    OBVIOUS
  <2>2. QueueOK(k) /\ ProgramOK(c, k) /\ k.phase = "up" /\ k.queue = << >> /\ session[i].sent = << >>
    BY <1>1, <2>1 DEF IInv, SubscriberOK, Quiet
  <2>3. k.sub /\ ~Holds(session[i].sent, "Program") /\ ~Holds(k.queue, "Program")
    BY <2>2, EmptyHolds DEF QueueOK
  <2>4. KnownOK(c, k, i) /\ ~Holds(k.queue, "Closed")
    BY <2>2, <2>3, EmptyHolds DEF ProgramOK, RunningOK
  <2> QED
    BY <2>1, <2>2, <2>4 DEF KnownOK, Consumer
<1> QED
  BY <1>1, Invariant, PTL

(* A subscriber that has heard everything and whose session has exited has told
   the app that it ended: a listener always, a link as long as its connection
   held. *)
THEOREM EndTold == Spec => []EndIsTold
<1>1. ASSUME IInv PROVE EndIsTold
  <2> SUFFICES ASSUME NEW c \in Consumer, NEW i \in Inc, Quiet(c), listed = i, session[i].exit,
                      c \in Link => drops = 0 /\ consumer[c].at = i
               PROVE  consumer[c].ended
    BY DEF EndIsTold
  <2>1. PICK k : k = consumer[c]
    OBVIOUS
  <2>2. EndOK(c, k) /\ k.phase = "up" /\ k.queue = << >> /\ session[i].sent = << >> /\ ~k.snapshot
    BY <1>1, <2>1 DEF IInv, SubscriberOK, Quiet
  <2>3. ~Coming(k, i) /\ ~Pending(k, i)
    BY <2>2, EmptyHolds DEF Coming, Pending
  <2> QED
    BY <2>1, <2>2, <2>3 DEF EndOK, Consumer
<1> QED
  BY <1>1, Invariant, PTL
=============================================================================
