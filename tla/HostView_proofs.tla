--------------------------- MODULE HostView_proofs ---------------------------
(***************************************************************************)
(* Safety of HostView for every set of views, journal, queue limit and     *)
(* bound, of a program whose snapshots fit the queue.                      *)
(***************************************************************************)
EXTENDS HostView, SessionEngine_proofs

(* An attach request of reader r. *)
Asks(q, k, r) == q[k].op = "attach" /\ q[k].who = r

(* Who waits for an attachment asked once, has nothing of an earlier one, and
   says where it is only after a connection dropped. *)
AskedFrom(r) == IF drops = 0 THEN {None} ELSE {None, link[r].next}
Expects(r)   == /\ link[r].state = "up" /\ link[r].sink /\ att[r] = None
                /\ link[r].items = << >> /\ link[r].pending = << >>
AskOK ==
  /\ \A k \in 1..Len(commands) : commands[k].op = "detach" => commands[k].id \in Att
  /\ \A r \in Reader :
       /\ \A k \in 1..Len(commands) : Asks(commands, k, r) => Expects(r) /\ commands[k].from \in AskedFrom(r)
       /\ \A j, k \in 1..Len(commands) : Asks(commands, j, r) /\ Asks(commands, k, r) => j = k

(* An attachment is read by one reader. *)
SlotOK ==
  /\ ~first => \A r \in Reader : att[r] = None
  /\ \A r, s \in Reader : att[r] = att[s] /\ att[r] # None => r = s

SoundOK == \A a \in Att : Sound(fan[a])

(* The client's stream: a snapshot in `pending` is the only one without the
   output behind it, and nothing follows a Lagged. *)
LinkOK(r) ==
  /\ att[r] # None => link[r].state = "up" /\ link[r].sink /\ NoLag(link[r].items)
  /\ link[r].state # "up" => link[r].items = << >> /\ link[r].pending = << >>
  /\ link[r].state = "down" => drops > 0
  /\ link[r].charge <= Limit
  /\ link[r].pending # << >> => Len(link[r].pending) = 1 /\ link[r].pending[1].type = "Snapshot"
  /\ Completed(link[r].items)
LinksOK == \A r \in Reader : LinkOK(r)

(* What the client has received for a view, and what follows it at the host,
   goes on where the view is, or before it once a connection dropped, and
   reaches the session unless the host gave it up. *)
Arrived(r) == link[r].items \o link[r].pending
Starts(r)  == IF drops = 0 THEN {link[r].view.pos} ELSE 0..link[r].view.pos
StreamOK(r) ==
  IF att[r] = None
    THEN Flows(Arrived(r), link[r].view.pos, Head0) /\ StartsIn(Arrived(r), Starts(r))
    ELSE /\ Flowing(Arrived(r), fan[att[r]], link[r].view.pos, Head0)
         /\ StartsIn(Arrived(r) \o fan[att[r]].queue, Starts(r))
ViewOK(r) ==
  /\ link[r].view.fault # "gap" /\ (drops = 0 => link[r].view.fault = "none")
  /\ link[r].next <= link[r].view.pos
  /\ StreamOK(r)
ViewsOK == \A r \in Reader : ViewOK(r)

IInv == TypeOK /\ FeedsOK /\ AskOK /\ SlotOK /\ SoundOK /\ LinksOK /\ ViewsOK

-----------------------------------------------------------------------------
(* Sequences of chunks. *)

LEMMA CatElements ==
  ASSUME NEW S, NEW x \in Seq(S), NEW y \in Seq(S)
  PROVE  /\ x \o y \in Seq(S) /\ Len(x) \in Nat /\ Len(y) \in Nat /\ Len(x \o y) = Len(x) + Len(y)
         /\ \A k \in 1..Len(x) : (x \o y)[k] = x[k]
         /\ \A k \in 1..Len(y) : (x \o y)[Len(x) + k] = y[k]
OBVIOUS

LEMMA SecondAt ==
  ASSUME NEW S, NEW x \in Seq(S), NEW y \in Seq(S), NEW z, z = x \o y, NEW k \in 1..Len(y)
  PROVE  /\ z[Len(x) + k] = y[k] /\ Len(z) = Len(x) + Len(y)
         /\ \A j \in 1..Len(x) : z[j] = x[j]
OBVIOUS

LEMMA CatBoth ==
  ASSUME NEW S, NEW x \in Seq(S)
  PROVE  x \o << >> = x /\ << >> \o x = x
OBVIOUS

(* The head of one queue put behind another. *)
LEMMA HeadMoves ==
  ASSUME NEW S, NEW x \in Seq(S), NEW q \in Seq(S), q # << >>
  PROVE  Append(x, Head(q)) \o Tail(q) = x \o q /\ x \o << Head(q) >> = Append(x, Head(q))
OBVIOUS

LEMMA CatTail ==
  ASSUME NEW S, NEW x \in Seq(S), NEW q \in Seq(S), x # << >>
  PROVE  /\ Tail(x \o q) = Tail(x) \o q /\ x \o q # << >> /\ (x \o q)[1] = x[1]
         /\ Tail(x) \in Seq(S) /\ x[1] \in S /\ Head(x) = x[1]
OBVIOUS

LEMMA NoneFlows ==
  ASSUME NEW p \in Nat, NEW h \in Nat, p <= h, NEW e \in Seq(Chunk), e = << >>
  PROVE  Flows(e, p, h) /\ Completed(e) /\ NoLag(e) /\ (\A P : StartsIn(e, P))
<1>1. Len(e) = 0
  OBVIOUS
<1> QED
  BY <1>1 DEF Flows, Linked, Completed, Within, NoLag, StartsIn

(* What is received of a queue, unless the last is a snapshot. *)
Cuts(y, z) ==
  /\ Len(y) <= Len(z) /\ \A k \in 1..Len(y) : y[k] = z[k]
  /\ y # << >> => y[Len(y)].type # "Snapshot"

LEMMA CutFlows ==
  ASSUME NEW z \in Seq(Chunk), NEW y \in Seq(Chunk), Cuts(y, z), NEW p, NEW h, Flows(z, p, h)
  PROVE  Flows(y, p, h) /\ \A P : StartsIn(z, P) => StartsIn(y, P)
<1>1. /\ Len(y) \in Nat /\ Len(z) \in Nat /\ Len(y) <= Len(z)
      /\ (\A k \in 1..Len(y) : y[k] = z[k] /\ k \in 1..Len(z))
  BY DEF Cuts
<1>2. Linked(y)
  <2>1. ASSUME NEW k \in 1..Len(y), y[k].type = "Output", k > 1
        PROVE  Placed(y[k - 1]) /\ y[k].at = End(y[k - 1])
    <3>1. k - 1 \in 1..Len(y)
      BY <1>1, <2>1
    <3> QED
      BY <1>1, <2>1, <3>1 DEF Flows, Linked
  <2>2. ASSUME NEW k \in 1..Len(y), y[k].type = "Lagged" PROVE k = Len(y)
    <3>1. k = Len(z) /\ k <= Len(y)
      BY <1>1, <2>2 DEF Flows, Linked
    <3> QED
      BY <1>1, <3>1
  <2>3. ASSUME NEW j \in 1..Len(y), NEW k \in 1..Len(y), j <= k, Placed(y[j]), Placed(y[k])
        PROVE  End(y[j]) <= End(y[k])
    BY <1>1, <2>3 DEF Flows, Linked
  <2> QED
    BY <2>1, <2>2, <2>3 DEF Linked
<1>3. Completed(y)
  <2>1. ASSUME NEW k \in 1..Len(y), y[k].type = "Snapshot"
        PROVE  k + 1 \in 1..Len(y) /\ y[k + 1].type = "Output" /\ y[k + 1].len = 0
    <3>1. k # Len(y)
      BY <2>1, EmptyIs DEF Cuts
    <3>2. k + 1 \in 1..Len(y)
      BY <1>1, <3>1
    <3>3. z[k + 1].type = "Output" /\ z[k + 1].len = 0
      BY <1>1, <2>1 DEF Flows, Completed
    <3> QED
      BY <1>1, <3>2, <3>3
  <2> QED
    BY <2>1 DEF Completed
<1>4. Within(y, p, h)
  BY <1>1 DEF Flows, Within
<1>5. y # << >> => z # << >> /\ y[1] = z[1]
  <2>1. y # << >> => 1 \in 1..Len(y)
    OBVIOUS
  <2>2. y # << >> => z # << >>
    BY <1>1, EmptyIs
  <2> QED
    BY <1>1, <2>1, <2>2
<1>6. \A P : StartsIn(z, P) => StartsIn(y, P)
  BY <1>5 DEF StartsIn
<1> QED
  BY <1>2, <1>3, <1>4, <1>6 DEF Flows

LEMMA TailCompleted ==
  ASSUME NEW q \in Seq(Chunk), q # << >>, Completed(q)
  PROVE  Completed(Tail(q)) /\ (NoLag(q) => NoLag(Tail(q)))
<1>t. PICK t : t = Tail(q)
  OBVIOUS
<1>1. /\ Len(q) \in Nat /\ Len(t) \in Nat /\ Len(t) + 1 = Len(q)
      /\ \A k \in 1..Len(t) : t[k] = q[k + 1] /\ k + 1 \in 1..Len(q)
  BY <1>t, TailIs
<1>2. ASSUME NEW k \in 1..Len(t), t[k].type = "Snapshot"
      PROVE  k + 1 \in 1..Len(t) /\ t[k + 1].type = "Output" /\ t[k + 1].len = 0
  <2>1. (k + 1) + 1 \in 1..Len(q) /\ q[(k + 1) + 1].type = "Output" /\ q[(k + 1) + 1].len = 0
    BY <1>1, <1>2 DEF Completed
  <2>2. k + 1 \in 1..Len(t)
    BY <1>1, <2>1
  <2> QED
    BY <1>1, <2>1, <2>2
<1>3. NoLag(q) => NoLag(t)
  BY <1>1 DEF NoLag
<1> QED
  BY <1>2, <1>3, <1>t DEF Completed

-----------------------------------------------------------------------------
(* What types say of a reader's link. *)
LEMMA LinkIs ==
  ASSUME TypeOK, NEW r \in Reader
  PROVE  /\ link[r] \in LinkState /\ Arrived(r) \in Seq(Chunk)
         /\ link[r].items \in Seq(Chunk) /\ link[r].pending \in Seq(Chunk) /\ link[r].charge \in Nat
         /\ link[r].next \in 0..MaxOut /\ link[r].next \in Nat /\ link[r].view \in View
         /\ link[r].view.pos \in 0..MaxOut /\ link[r].view.pos \in Nat
         /\ att[r] \in Att \cup {None} /\ None \notin Att /\ (att[r] # None => fan[att[r]] \in Slot)
         /\ drops \in Nat /\ Head0 \in Nat
<1>1. link[r] \in LinkState /\ att[r] \in Att \cup {None} /\ None \notin Att /\ MaxOut \in Nat /\ drops \in Nat
      /\ Head0 \in Nat
  BY AttIs, HeadIs, SessionEngineAssumption, HostViewAssumption DEF TypeOK, EngineTypeOK
<1>2. link[r].items \in Seq(Chunk) /\ link[r].pending \in Seq(Chunk) /\ link[r].view \in View
      /\ link[r].charge \in Nat /\ link[r].next \in 0..MaxOut
  BY <1>1 DEF LinkState
<1>3. Arrived(r) \in Seq(Chunk)
  BY <1>2, CatType DEF Arrived
<1>4. att[r] # None => fan[att[r]] \in Slot
  BY <1>1 DEF TypeOK, EngineTypeOK
<1> QED
  BY <1>1, <1>2, <1>3, <1>4 DEF View

(* The stream of a view is within what the session has put out. *)
LEMMA ViewIsBehind ==
  ASSUME IInv, NEW r \in Reader
  PROVE  link[r].view.pos <= Head0
BY DEF IInv, ViewsOK, ViewOK, StreamOK, Flowing, Flows, Within

(* Where a stream may start only widens. *)
LEMMA StartsWiden ==
  ASSUME TypeOK, NEW r \in Reader, link'[r].view = link[r].view, drops' = drops \/ drops' > 0
  PROVE  \A q : StartsIn(q, Starts(r)) => StartsIn(q, Starts(r)')
<1>1. link[r].view.pos \in Nat /\ drops \in Nat
  BY LinkIs
<1>2. Starts(r) \subseteq Starts(r)'
  BY <1>1 DEF Starts
<1> QED
  BY <1>2 DEF StartsIn

LEMMA HostLimits ==
  Limit \in Nat /\ SnapSize \in Nat /\ MaxOut \in Nat /\ MaxDrop \in Nat /\ 0 <= Limit
BY SessionEngineAssumption, HostViewAssumption

-----------------------------------------------------------------------------
(* The owner's steps that only go on leave every view as it is. *)
LEMMA GoesOn ==
  ASSUME IInv, link' = link, att' = att, first' = first, drops' = drops,
         Head0 \in Nat, Head0' \in Nat, Head0 <= Head0',
         \A a \in Att : Goes(fan[a], fan'[a], Head0, Head0')
  PROVE  SlotOK' /\ SoundOK' /\ LinksOK' /\ ViewsOK'
<1>1. SlotOK' /\ LinksOK'
  BY DEF IInv, SlotOK, LinksOK, LinkOK
<1>2. SoundOK'
  BY DEF IInv, SoundOK, Goes
<1>3. ASSUME NEW r \in Reader PROVE ViewOK(r)'
  <2>0. /\ ViewOK(r) /\ link'[r] = link[r] /\ att'[r] = att[r] /\ Starts(r)' = Starts(r)
        /\ Arrived(r)' = Arrived(r)
    BY DEF IInv, ViewsOK, Starts, Arrived
  <2>p. PICK p \in Nat, x \in Seq(Chunk) : p = link[r].view.pos /\ x = Arrived(r)
    BY LinkIs DEF IInv
  <2>1. ASSUME att[r] # None
        PROVE  Flowing(x, fan'[att[r]], p, Head0') /\ StartsIn(x \o fan'[att[r]].queue, Starts(r))
    <3>1. PICK a \in Att : a = att[r]
      BY <2>1, LinkIs DEF IInv
    <3>2. Flowing(x, fan[a], p, Head0) /\ StartsIn(x \o fan[a].queue, Starts(r))
      BY <2>0, <2>p, <2>1, <3>1 DEF ViewOK, StreamOK
    <3>3. Goes(fan[a], fan'[a], Head0, Head0')
      OBVIOUS
    <3>4. Flowing(x, fan'[a], p, Head0') /\ Begins(x, fan[a], fan'[a], p)
      BY <3>2, <3>3 DEF Goes
    <3>5. p \in Starts(r)
      BY <2>p DEF Starts
    <3> QED
      BY <3>1, <3>2, <3>4, <3>5 DEF Begins
  <2>2. ASSUME att[r] = None
        PROVE  Flows(x, p, Head0')
    BY <2>0, <2>p, <2>2, FlowLater DEF ViewOK, StreamOK
  <2>3. StreamOK(r)'
    <3>1. CASE att[r] = None
      BY <2>0, <2>p, <2>2, <3>1 DEF ViewOK, StreamOK
    <3>2. CASE att[r] # None
      BY <2>0, <2>p, <2>1, <3>2 DEF StreamOK
    <3> QED
      BY <3>1, <3>2
  <2> QED
    BY <2>0, <2>3 DEF ViewOK
<1> QED
  BY <1>1, <1>2, <1>3 DEF ViewsOK

LEMMA NothingGoes ==
  ASSUME IInv, link' = link, att' = att, first' = first, drops' = drops, fan' = fan, out' = out
  PROVE  SlotOK' /\ SoundOK' /\ LinksOK' /\ ViewsOK'
<1>1. Head0 \in Nat /\ Head0' = Head0
  BY HeadIs DEF IInv, TypeOK, Head0
<1>2. \A a \in Att : Goes(fan[a], fan'[a], Head0, Head0')
  BY <1>1, SameGoes DEF IInv, TypeOK, EngineTypeOK
<1> QED
  BY <1>1, <1>2, GoesOn

(* A request of reader s in the channel was there before, m places further,
   or is new and the last. *)
Stays(k, m, s) ==
  /\ k + m \in 1..Len(commands) /\ Asks(commands, k + m, s) /\ commands'[k].from = commands[k + m].from
  /\ link'[s] = link[s] /\ att'[s] = att[s]
Comes(k, s) ==
  /\ k = Len(commands') /\ \A j \in 1..Len(commands) : ~Asks(commands, j, s)
  /\ Expects(s)' /\ commands'[k].from \in AskedFrom(s)'

LEMMA AskStep ==
  ASSUME IInv, NEW m \in {0, 1}, drops' = drops \/ drops' > 0, Len(commands') \in Nat,
         \A k \in 1..Len(commands') : commands'[k].op = "detach" => commands'[k].id \in Att,
         \A k \in 1..Len(commands') : \A s \in Reader :
           Asks(commands', k, s) => Stays(k, m, s) \/ Comes(k, s)
  PROVE  AskOK'
<1>1. ASSUME NEW s \in Reader, NEW k \in 1..Len(commands'), Asks(commands', k, s)
      PROVE  Expects(s)' /\ commands'[k].from \in AskedFrom(s)'
  <2>1. CASE Stays(k, m, s)
    <3>1. Expects(s) /\ commands[k + m].from \in AskedFrom(s)
      BY <2>1 DEF Stays, IInv, AskOK
    <3>2. Expects(s)'
      BY <2>1, <3>1 DEF Stays, Expects
    <3>3. commands'[k].from \in AskedFrom(s)'
      BY <2>1, <3>1 DEF Stays, AskedFrom
    <3> QED
      BY <3>2, <3>3
  <2>2. CASE Comes(k, s)
    BY <2>2 DEF Comes
  <2> QED
    BY <1>1, <2>1, <2>2
<1>2. ASSUME NEW s \in Reader, NEW j \in 1..Len(commands'), NEW k \in 1..Len(commands'),
             Asks(commands', j, s), Asks(commands', k, s)
      PROVE  j = k
  <2>1. (Stays(j, m, s) \/ Comes(j, s)) /\ (Stays(k, m, s) \/ Comes(k, s))
    BY <1>2
  <2>2. CASE Stays(j, m, s) /\ Stays(k, m, s)
    <3>1. j + m = k + m
      BY <2>2 DEF Stays, IInv, AskOK
    <3> QED
      BY <3>1
  <2>3. CASE Comes(j, s) /\ Comes(k, s)
    BY <2>3 DEF Comes
  <2>4. ~(Stays(j, m, s) /\ Comes(k, s)) /\ ~(Comes(j, s) /\ Stays(k, m, s))
    BY DEF Stays, Comes
  <2> QED
    BY <2>1, <2>2, <2>3, <2>4
<1> QED
  BY <1>1, <1>2 DEF AskOK

(* The owner takes a command, *)
LEMMA AskServed ==
  ASSUME IInv, link' = link, att' = att, drops' = drops, commands # << >>, commands' = Tail(commands)
  PROVE  AskOK'
<1>1. /\ Len(commands) \in Nat /\ Len(commands') \in Nat /\ Len(commands') + 1 = Len(commands)
      /\ \A k \in 1..Len(commands') : commands'[k] = commands[k + 1] /\ k + 1 \in 1..Len(commands)
  BY TailIs DEF IInv, TypeOK, EngineTypeOK
<1>2. \A k \in 1..Len(commands') : commands'[k].op = "detach" => commands'[k].id \in Att
  BY <1>1 DEF IInv, AskOK
<1>3. \A k \in 1..Len(commands') : \A s \in Reader : Asks(commands', k, s) => Stays(k, 1, s)
  BY <1>1 DEF Asks, Stays
<1> QED
  BY <1>1, <1>2, <1>3, AskStep

(* none, *)
LEMMA AskSame ==
  ASSUME IInv, link' = link, att' = att, drops' = drops, commands' = commands
  PROVE  AskOK'
<1>1. Len(commands') \in Nat /\ \A k \in 1..Len(commands') : k + 0 = k /\ k \in 1..Len(commands)
  BY DEF IInv, TypeOK, EngineTypeOK
<1>2. \A k \in 1..Len(commands') : commands'[k].op = "detach" => commands'[k].id \in Att
  BY DEF IInv, AskOK
<1>3. \A k \in 1..Len(commands') : \A s \in Reader : Asks(commands', k, s) => Stays(k, 0, s)
  BY <1>1 DEF Stays
<1> QED
  BY <1>1, <1>2, <1>3, AskStep

(* or a command of another kind is put behind those of q, which were there. *)
LEMMA AskBehind ==
  ASSUME IInv, NEW q \in Seq(Command), NEW c \in Command, c.op # "attach", c.op = "detach" => c.id \in Att,
         drops' = drops \/ drops' > 0, commands' = Append(q, c),
         \A k \in 1..Len(q) : q[k].op = "detach" => q[k].id \in Att,
         \A k \in 1..Len(q) : \A s \in Reader :
           Asks(q, k, s) => /\ k \in 1..Len(commands) /\ Asks(commands, k, s) /\ q[k].from = commands[k].from
                            /\ link'[s] = link[s] /\ att'[s] = att[s]
  PROVE  AskOK'
<1>l. PICK l \in Nat : l = Len(q) + 1
  OBVIOUS
<1>1. /\ commands'[l] = c /\ (\A k \in 1..Len(q) : commands'[k] = q[k]) /\ Len(commands') \in Nat
      /\ (\A k : k \in 1..Len(commands') <=> k \in 1..Len(q) \/ k = l)
  BY <1>l, Appended
<1>2. \A k \in 1..Len(commands') : commands'[k].op = "detach" => commands'[k].id \in Att
  BY <1>1
<1>3. \A k \in 1..Len(commands') : \A s \in Reader : Asks(commands', k, s) => Stays(k, 0, s)
  <2>1. ASSUME NEW k \in 1..Len(commands'), NEW s \in Reader, Asks(commands', k, s) PROVE Stays(k, 0, s)
    <3>1. k # l
      BY <1>1, <2>1 DEF Asks
    <3>2. k \in 1..Len(q) /\ commands'[k] = q[k] /\ k + 0 = k
      BY <1>1, <3>1
    <3>3. Asks(q, k, s)
      BY <2>1, <3>2 DEF Asks
    <3> QED
      BY <3>2, <3>3 DEF Stays
  <2> QED
    BY <2>1
<1> QED
  BY <1>1, <1>2, <1>3, AskStep

(* Reader r asks, and waits for nothing else. *)
LEMMA AskAgain ==
  ASSUME IInv, NEW r \in Reader, NEW from \in 0..MaxOut \cup {None},
         commands' = Append(commands, AttachCommand(r, from)), drops' = drops,
         \A k \in 1..Len(commands) : ~Asks(commands, k, r),
         Expects(r)', from \in AskedFrom(r)',
         \A s \in Reader : s # r => att'[s] = att[s] /\ link'[s] = link[s]
  PROVE  AskOK' /\ commands' \in Seq(Command) /\ Cardinality(FeedAt(commands')) = Cardinality(FeedAt(commands))
<1>c. PICK c : c = AttachCommand(r, from)
  OBVIOUS
<1>1. c \in Command /\ c.op = "attach" /\ c.who = r /\ c.from = from
  BY <1>c DEF AttachCommand, Command
<1>0. commands \in Seq(Command)
  BY DEF IInv, TypeOK, EngineTypeOK
<1>l. PICK l \in Nat : l = Len(commands) + 1
  BY <1>0
<1>2. /\ commands'[l] = c /\ (\A k \in 1..Len(commands) : commands'[k] = commands[k]) /\ l = Len(commands')
      /\ (\A k : k \in 1..Len(commands') <=> k \in 1..Len(commands) \/ k = l)
  BY <1>0, <1>c, <1>1, <1>l, Appended
<1>3. commands' \in Seq(Command) /\ Cardinality(FeedAt(commands')) = Cardinality(FeedAt(commands))
  BY <1>0, <1>c, <1>1, CommandSent
<1>4. \A k \in 1..Len(commands') : commands'[k].op = "detach" => commands'[k].id \in Att
  BY <1>1, <1>2 DEF IInv, AskOK
<1>5. \A k \in 1..Len(commands') : \A s \in Reader : Asks(commands', k, s) => Stays(k, 0, s) \/ Comes(k, s)
  <2>1. ASSUME NEW k \in 1..Len(commands'), NEW s \in Reader, Asks(commands', k, s), k # l PROVE Stays(k, 0, s)
    <3>1. k \in 1..Len(commands) /\ commands'[k] = commands[k] /\ k + 0 = k
      BY <1>2, <2>1
    <3>2. Asks(commands, k, s)
      BY <2>1, <3>1 DEF Asks
    <3> QED
      BY <3>1, <3>2 DEF Stays
  <2>2. ASSUME NEW s \in Reader, Asks(commands', l, s) PROVE Comes(l, s)
    <3>1. s = r /\ commands'[l].from = from
      BY <1>1, <1>2, <2>2 DEF Asks
    <3> QED
      BY <1>2, <3>1 DEF Comes
  <2> QED
    BY <2>1, <2>2
<1> QED
  BY <1>2, <1>3, <1>4, <1>5, AskStep

-----------------------------------------------------------------------------
(* The owner's steps. *)

LEMMA DrainKeeps ==
  ASSUME IInv, NEW k \in {"text", "switch"}, Drain(k), UNCHANGED <<link, drops>>
  PROVE  IInv'
<1>1. /\ EngineTypeOK' /\ FeedsOK' /\ Head0 \in Nat /\ Head0' \in Nat /\ Head0 <= Head0'
      /\ \A a \in Att : Goes(fan[a], fan'[a], Head0, Head0')
  BY DrainStep DEF IInv, TypeOK
<1>2. SlotOK' /\ SoundOK' /\ LinksOK' /\ ViewsOK'
  BY <1>1, GoesOn DEF Drain
<1>3. AskOK' /\ TypeOK'
  BY <1>1, AskSame DEF IInv, TypeOK, Drain
<1> QED
  BY <1>1, <1>2, <1>3 DEF IInv

LEMMA EndDrainKeeps ==
  ASSUME SnapSize <= Limit, IInv, EndDrain, UNCHANGED <<link, drops>>
  PROVE  IInv'
<1>1. /\ EngineTypeOK' /\ FeedsOK' /\ Head0 \in Nat /\ Head0' = Head0
      /\ \A a \in Att : Goes(fan[a], fan'[a], Head0, Head0)
  BY EndDrainStep DEF IInv, TypeOK
<1>2. SlotOK' /\ SoundOK' /\ LinksOK' /\ ViewsOK'
  BY <1>1, GoesOn DEF EndDrain
<1>3. AskOK' /\ TypeOK'
  BY <1>1, AskSame DEF IInv, TypeOK, EndDrain
<1> QED
  BY <1>1, <1>2, <1>3 DEF IInv

LEMMA ServeFeedKeeps ==
  ASSUME IInv, ServeFeed, UNCHANGED <<link, drops>>
  PROVE  IInv'
<1>1. /\ EngineTypeOK' /\ FeedsOK' /\ Head0 \in Nat /\ Head0' \in Nat /\ Head0 <= Head0'
      /\ \A a \in Att : Goes(fan[a], fan'[a], Head0, Head0')
  BY ServeFeedStep DEF IInv, TypeOK
<1>2. SlotOK' /\ SoundOK' /\ LinksOK' /\ ViewsOK'
  BY <1>1, GoesOn DEF ServeFeed
<1>3. AskOK' /\ TypeOK'
  BY <1>1, AskServed DEF IInv, TypeOK, ServeFeed
<1> QED
  BY <1>1, <1>2, <1>3 DEF IInv

LEMMA ServeDetachKeeps ==
  ASSUME IInv, ServeDetach, UNCHANGED <<link, drops>>
  PROVE  IInv'
<1>0. Head(commands).id \in Att
  <2>1. 1 \in 1..Len(commands) /\ Head(commands) = commands[1]
    BY TailIs DEF ServeDetach, IInv, TypeOK, EngineTypeOK
  <2> QED
    BY <2>1 DEF ServeDetach, IInv, AskOK
<1>1. /\ EngineTypeOK' /\ FeedsOK' /\ Head0 \in Nat /\ Head0' = Head0
      /\ \A a \in Att : Goes(fan[a], fan'[a], Head0, Head0)
  BY <1>0, ServeDetachStep DEF IInv, TypeOK
<1>2. SlotOK' /\ SoundOK' /\ LinksOK' /\ ViewsOK'
  <2>1. Head0' \in Nat /\ Head0 <= Head0' /\ att' = att /\ first' = first
    BY <1>1 DEF ServeDetach
  <2>2. \A a \in Att : Goes(fan[a], fan'[a], Head0, Head0')
    BY ONLY <1>1, Zenon
  <2> QED
    BY <1>1, <2>1, <2>2, GoesOn
<1>3. AskOK' /\ TypeOK'
  BY <1>1, AskServed DEF IInv, TypeOK, ServeDetach
<1> QED
  BY <1>1, <1>2, <1>3 DEF IInv

LEMMA EndTickKeeps ==
  ASSUME IInv, EndTick, UNCHANGED <<link, drops>>
  PROVE  IInv'
<1>1. EngineTypeOK' /\ FeedsOK'
  BY EndTickStep DEF IInv, TypeOK
<1>2. SlotOK' /\ SoundOK' /\ LinksOK' /\ ViewsOK'
  BY NothingGoes DEF EndTick
<1>3. AskOK' /\ TypeOK'
  BY <1>1, AskSame DEF IInv, TypeOK, EndTick
<1> QED
  BY <1>1, <1>2, <1>3 DEF IInv

LEMMA AskFeedKeeps ==
  ASSUME IInv, AskFeed, UNCHANGED <<link, drops>>
  PROVE  IInv'
<1>1. EngineTypeOK' /\ FeedsOK'
  BY AskFeedStep DEF IInv, TypeOK
<1>2. SlotOK' /\ SoundOK' /\ LinksOK' /\ ViewsOK'
  BY NothingGoes DEF AskFeed
<1>3. AskOK'
  <2>1. FeedCommand \in Command /\ FeedCommand.op = "feed"
    BY DEF FeedCommand, Command
  <2>2. commands \in Seq(Command) /\ commands' = Append(commands, FeedCommand) /\ link' = link /\ att' = att
    BY DEF IInv, TypeOK, EngineTypeOK, AskFeed
  <2>3. \A k \in 1..Len(commands) : commands[k].op = "detach" => commands[k].id \in Att
    BY DEF IInv, AskOK
  <2> QED
    BY <2>1, <2>2, <2>3, AskBehind
<1> QED
  BY <1>1, <1>2, <1>3 DEF IInv, TypeOK

-----------------------------------------------------------------------------
(* What a step of reader r leaves alone. *)
LEMMA OthersKept ==
  ASSUME IInv, NEW r, Head0' = Head0, drops' = drops \/ drops' > 0,
         \A s \in Reader : s # r => /\ link'[s] = link[s] /\ att'[s] = att[s]
                                    /\ att[s] # None => fan'[att[s]] = fan[att[s]]
  PROVE  \A s \in Reader : s # r => LinkOK(s)' /\ ViewOK(s)'
<1> SUFFICES ASSUME NEW s \in Reader, s # r PROVE LinkOK(s)' /\ ViewOK(s)'
  OBVIOUS
<1>0. /\ LinkOK(s) /\ ViewOK(s) /\ link'[s] = link[s] /\ att'[s] = att[s] /\ drops \in Nat
      /\ att[s] # None => fan'[att[s]] = fan[att[s]]
  BY LinkIs DEF IInv, LinksOK, ViewsOK
<1>1. LinkOK(s)'
  BY <1>0 DEF LinkOK
<1>2. Arrived(s)' = Arrived(s) /\ link'[s].view = link[s].view
  BY <1>0 DEF Arrived
<1>3. \A q : StartsIn(q, Starts(s)) => StartsIn(q, Starts(s)')
  BY <1>0, <1>2, StartsWiden DEF IInv
<1>4. StreamOK(s)'
  <2>1. CASE att[s] = None
    <3>1. Flows(Arrived(s), link[s].view.pos, Head0) /\ StartsIn(Arrived(s), Starts(s)')
      BY <1>0, <1>3, <2>1 DEF ViewOK, StreamOK
    <3> QED
      BY <1>0, <1>2, <2>1, <3>1 DEF StreamOK
  <2>2. CASE att[s] # None
    <3>1. /\ Flowing(Arrived(s), fan[att[s]], link[s].view.pos, Head0)
          /\ StartsIn(Arrived(s) \o fan[att[s]].queue, Starts(s)')
      BY <1>0, <1>3, <2>2 DEF ViewOK, StreamOK
    <3> QED
      BY <1>0, <1>2, <2>2, <3>1 DEF StreamOK
  <2> QED
    BY <2>1, <2>2
<1>5. ViewOK(s)'
  BY <1>0, <1>4 DEF ViewOK
<1> QED
  BY <1>1, <1>5

(* A reader that has nothing on its way to its view. *)
LEMMA NothingOnItsWay ==
  ASSUME IInv, NEW r \in Reader, att'[r] = None, Len(Arrived(r)') = 0, Arrived(r)' \in Seq(Chunk),
         link'[r].view = link[r].view, link'[r].next = link[r].next, Head0' = Head0,
         drops' = drops \/ drops' > 0
  PROVE  ViewOK(r)'
<1>1. ViewOK(r) /\ link[r].view.pos <= Head0 /\ drops \in Nat /\ Head0 \in Nat /\ link[r].view.pos \in Nat
  BY ViewIsBehind, LinkIs DEF IInv, ViewsOK
<1>2. PICK e \in Seq(Chunk) : e = Arrived(r)' /\ e = << >>
  BY EmptyIs
<1>3. Flows(e, link[r].view.pos, Head0) /\ \A P : StartsIn(e, P)
  BY <1>1, <1>2, NoneFlows
<1>4. StreamOK(r)'
  BY <1>2, <1>3 DEF StreamOK
<1> QED
  BY <1>1, <1>4 DEF ViewOK

(* Reader r leaves its attachment. *)
Leaves(r) ==
  /\ att[r] # None /\ first' = first
  /\ att' = [att EXCEPT ![r] = None]
  /\ \/ fan' = [fan EXCEPT ![att[r]].queue = << >>, ![att[r]].open = FALSE]
     \/ fan' = [fan EXCEPT ![att[r]].open = FALSE] /\ fan[att[r]].queue = << >>
LEMMA LeavesIt ==
  ASSUME IInv, NEW r \in Reader, Leaves(r)
  PROVE  /\ fan' \in [Att -> Slot] /\ att' \in [Reader -> Att \cup {None}] /\ att'[r] = None
         /\ SoundOK' /\ SlotOK'
         /\ \A s \in Reader : s # r => att'[s] = att[s] /\ (att[s] # None => fan'[att[s]] = fan[att[s]])
<1>a. PICK a \in Att : a = att[r] /\ a # None
  BY LinkIs DEF IInv, Leaves
<1>e. PICK e \in Seq(Chunk) : e = << >>
  <2>1. << >> \in Seq(Chunk)
    OBVIOUS
  <2> QED
    BY <2>1
<1>1. fan[a] \in Slot /\ fan \in [Att -> Slot]
  BY DEF IInv, TypeOK, EngineTypeOK
<1>2. /\ fan'[a] \in Slot /\ ~fan'[a].open /\ fan'[a].queue = e /\ (\A b \in Att : b # a => fan'[b] = fan[b])
      /\ fan'[a].charge = fan[a].charge /\ fan' \in [Att -> Slot]
  <2>1. [fan[a] EXCEPT !.queue = e, !.open = FALSE] \in Slot
    BY <1>1 DEF Slot
  <2>2. fan' = [fan EXCEPT ![a] = [fan[a] EXCEPT !.queue = e, !.open = FALSE]]
    <3>1. CASE fan' = [fan EXCEPT ![a].queue = e, ![a].open = FALSE]
      BY <1>1, <3>1
    <3>2. CASE fan' = [fan EXCEPT ![a].open = FALSE] /\ fan[a].queue = e
      <4>1. [fan[a] EXCEPT !.open = FALSE] = [fan[a] EXCEPT !.queue = e, !.open = FALSE]
        BY <1>1, <3>2 DEF Slot
      <4> QED
        BY <1>1, <3>2, <4>1
    <3> QED
      BY <1>a, <1>e, <3>1, <3>2 DEF Leaves
  <2> QED
    BY <1>1, <2>1, <2>2 DEF Slot
<1>3. att \in [Reader -> Att \cup {None}] /\ att' = [att EXCEPT ![r] = None]
  BY DEF IInv, TypeOK, EngineTypeOK, Leaves
<1>4. att' \in [Reader -> Att \cup {None}] /\ att'[r] = None /\ \A s \in Reader : s # r => att'[s] = att[s]
  BY <1>3
<1>5. SoundOK'
  <2>1. Len(fan'[a].queue) = 0
    BY <1>2, <1>e, EmptyIs
  <2>2. LastLag(fan'[a]) /\ OneWeighs(fan'[a].queue)
    BY <2>1 DEF LastLag, OneWeighs
  <2>3. Sound(fan'[a])
    BY <1>2, <2>2 DEF Sound, Bounded
  <2> QED
    BY <1>2, <2>3 DEF IInv, SoundOK
<1>6. SlotOK'
  BY <1>4 DEF IInv, SlotOK, Leaves
<1>7. \A s \in Reader : s # r /\ att[s] # None => att[s] \in Att /\ att[s] # a
  BY <1>a, LinkIs DEF IInv, SlotOK
<1> QED
  BY <1>2, <1>4, <1>5, <1>6, <1>7

(* A request to detach from what reader r reads. *)
LEMMA DetachSent ==
  ASSUME IInv, NEW r \in Reader, att[r] # None, commands' = Append(commands, DetachCommand(att[r])),
         drops' = drops \/ drops' > 0, \A s \in Reader : s # r => att'[s] = att[s] /\ link'[s] = link[s]
  PROVE  AskOK' /\ commands' \in Seq(Command) /\ Cardinality(FeedAt(commands')) = Cardinality(FeedAt(commands))
<1>c. PICK c : c = DetachCommand(att[r])
  OBVIOUS
<1>1. c \in Command /\ c.op = "detach" /\ c.id \in Att
  BY <1>c, LinkIs DEF IInv, DetachCommand, Command
<1>2. commands \in Seq(Command) /\ commands' = Append(commands, c)
  BY <1>c DEF IInv, TypeOK, EngineTypeOK
<1>3. commands' \in Seq(Command) /\ Cardinality(FeedAt(commands')) = Cardinality(FeedAt(commands))
  BY <1>1, <1>2, CommandSent
<1>4. AskOK'
  <2>1. \A k \in 1..Len(commands) : commands[k].op = "detach" => commands[k].id \in Att
    BY DEF IInv, AskOK
  <2>2. \A k \in 1..Len(commands) : \A s \in Reader : Asks(commands, k, s) => link'[s] = link[s] /\ att'[s] = att[s]
    BY DEF IInv, AskOK, Expects
  <2>3. c.op # "attach"
    BY <1>1
  <2> QED
    BY <1>1, <1>2, <2>1, <2>2, <2>3, AskBehind
<1> QED
  BY <1>3, <1>4

(* The requests that are left when reader r gives up waiting. *)
LEMMA AbandonedAsks ==
  ASSUME IInv, NEW r \in Reader, NEW q, q = Abandon(r)
  PROVE  /\ q \in Seq(Command) /\ Len(q) = Len(commands) /\ FeedAt(q) = FeedAt(commands)
         /\ \A k \in 1..Len(q) : k \in 1..Len(commands) /\ (q[k].op = "detach" => q[k].id \in Att)
         /\ \A k \in 1..Len(q) : \A s \in Reader :
              Asks(q, k, s) => s # r /\ Asks(commands, k, s) /\ q[k].from = commands[k].from
<1>1. /\ q \in Seq(Command) /\ Len(q) = Len(commands) /\ FeedAt(q) = FeedAt(commands)
      /\ \A k \in 1..Len(commands) :
           /\ q[k].op = commands[k].op /\ q[k].from = commands[k].from /\ q[k].id = commands[k].id
           /\ q[k].who = IF commands[k].who = r THEN None ELSE commands[k].who
  BY Abandoned DEF IInv, TypeOK
<1>2. \A k \in 1..Len(q) : k \in 1..Len(commands) /\ (q[k].op = "detach" => q[k].id \in Att)
  BY <1>1 DEF IInv, AskOK
<1>3. \A k \in 1..Len(q) : \A s \in Reader :
        Asks(q, k, s) => s # r /\ Asks(commands, k, s) /\ q[k].from = commands[k].from
  <2>1. None \notin Reader
    BY SessionEngineAssumption
  <2> QED
    BY <1>1, <2>1 DEF Asks
<1> QED
  BY <1>1, <1>2, <1>3

-----------------------------------------------------------------------------
(* The client's end opened afresh, with nothing received. *)
LEMMA OpenedIs ==
  ASSUME NEW l \in LinkState, NEW m, m = Opened(l)
  PROVE  /\ m \in LinkState /\ m.state = "up" /\ m.sink /\ m.charge = 0 /\ m.next = l.next /\ m.view = l.view
         /\ m.items = << >> /\ m.pending = << >> /\ Len(m.items \o m.pending) = 0 /\ m.items \o m.pending \in Seq(Chunk)
         /\ Completed(m.items) /\ NoLag(m.items)
<1>e. PICK e \in Seq(Chunk) : e = << >>
  <2>1. << >> \in Seq(Chunk)
    OBVIOUS
  <2> QED
    BY <2>1
<1>1. m = [l EXCEPT !.state = "up", !.sink = TRUE, !.pending = e, !.items = e, !.charge = 0]
  BY <1>e DEF Opened
<1>2. /\ m \in LinkState /\ m.state = "up" /\ m.sink /\ m.charge = 0 /\ m.next = l.next /\ m.view = l.view
      /\ m.items = e /\ m.pending = e
  <2>1. m = [ state |-> "up", sink |-> TRUE, pending |-> e, items |-> e, charge |-> 0,
              next |-> l.next, view |-> l.view ]
    BY <1>1 DEF LinkState
  <2>2. l.next \in 0..MaxOut /\ l.view \in View
    BY DEF LinkState
  <2>3. m.state = "up" /\ m.sink = TRUE /\ m.charge = 0 /\ m.next = l.next /\ m.view = l.view
        /\ m.items = e /\ m.pending = e
    BY <2>1
  <2>4. m \in LinkState
    BY <2>1, <2>2 DEF LinkState
  <2> QED
    BY <2>3, <2>4
<1>3. Len(e) = 0 /\ e \o e = e
  BY <1>e
<1>4. Completed(e) /\ NoLag(e)
  BY <1>3 DEF Completed, NoLag
<1> QED
  BY <1>2, <1>3, <1>4, <1>e

(* HostLink::open, and reconnect_until_attached. *)
LEMMA OpenKeeps ==
  ASSUME IInv, NEW r \in Reader, Open(r)
  PROVE  IInv'
<1>0. /\ link[r].state \in {"new", "down"} /\ out' = out /\ att' = att /\ fan' = fan /\ first' = first /\ drops' = drops
      /\ link[r] \in LinkState /\ link \in [Reader -> LinkState] /\ LinkOK(r) /\ Head0 \in Nat /\ drops \in Nat
      /\ commands \in Seq(Command) /\ link[r].next \in 0..MaxOut
  BY LinkIs DEF Open, IInv, LinksOK, TypeOK, EngineTypeOK
<1>m. PICK m : m = Opened(link[r])
  OBVIOUS
<1>1. /\ m \in LinkState /\ m.state = "up" /\ m.sink /\ m.charge = 0 /\ m.next = link[r].next /\ m.view = link[r].view
      /\ m.items = << >> /\ m.pending = << >> /\ Len(m.items \o m.pending) = 0 /\ m.items \o m.pending \in Seq(Chunk)
      /\ Completed(m.items) /\ NoLag(m.items)
  BY <1>0, <1>m, OpenedIs
<1>2. link'[r] = m /\ (\A s \in Reader : s # r => link'[s] = link[s]) /\ link' \in [Reader -> LinkState]
  BY <1>0, <1>1, <1>m DEF Open
<1>3. att[r] = None /\ Head0' = Head0
  BY <1>0 DEF LinkOK, Head0
<1>4. AskOK' /\ commands' \in Seq(Command) /\ Cardinality(FeedAt(commands')) = Cardinality(FeedAt(commands))
  <2>f. PICK from \in 0..MaxOut \cup {None} : from = IF link[r].state = "new" THEN None ELSE link[r].next
    BY <1>0
  <2>1. commands' = Append(commands, AttachCommand(r, from))
    BY <2>f DEF Open
  <2>2. \A k \in 1..Len(commands) : ~Asks(commands, k, r)
    BY <1>0 DEF IInv, AskOK, Expects
  <2>3. Expects(r)'
    BY <1>0, <1>1, <1>2, <1>3 DEF Expects
  <2>4. from \in AskedFrom(r)'
    <3>1. CASE link[r].state = "new"
      BY <2>f, <3>1 DEF AskedFrom
    <3>2. CASE link[r].state = "down"
      <4>1. drops' # 0
        BY <1>0, <3>2 DEF LinkOK
      <4> QED
        BY <1>1, <1>2, <2>f, <3>2, <4>1 DEF AskedFrom
    <3> QED
      BY <1>0, <3>1, <3>2
  <2>5. \A s \in Reader : s # r => att'[s] = att[s] /\ link'[s] = link[s]
    BY <1>0, <1>2
  <2> QED
    BY <1>0, <2>1, <2>2, <2>3, <2>4, <2>5, AskAgain
<1>5. TypeOK' /\ FeedsOK'
  BY <1>0, <1>2, <1>4 DEF IInv, TypeOK, EngineTypeOK, FeedsOK, Open, Head0
<1>6. SlotOK' /\ SoundOK'
  BY <1>0 DEF IInv, SlotOK, SoundOK
<1>7. \A s \in Reader : s # r => LinkOK(s)' /\ ViewOK(s)'
  BY <1>0, <1>2, <1>3, OthersKept
<1>8. LinkOK(r)'
  BY <1>0, <1>1, <1>2, <1>3, HostLimits DEF LinkOK
<1>9. ViewOK(r)'
  <2>1. Len(Arrived(r)') = 0 /\ Arrived(r)' \in Seq(Chunk)
    BY <1>1, <1>2 DEF Arrived
  <2> QED
    BY <1>0, <1>1, <1>2, <1>3, <2>1, NothingOnItsWay
<1>10. LinksOK' /\ ViewsOK'
  BY <1>7, <1>8, <1>9 DEF LinksOK, ViewsOK
<1> QED
  BY <1>4, <1>5, <1>6, <1>10 DEF IInv

(* The 5 s of Session::attach pass. *)
LEMMA AttachTimesOutKeeps ==
  ASSUME IInv, NEW r \in Reader, AttachTimesOut(r)
  PROVE  IInv'
<1>q. PICK q : q = Abandon(r)
  OBVIOUS
<1>1. /\ q \in Seq(Command) /\ Len(q) = Len(commands) /\ FeedAt(q) = FeedAt(commands)
      /\ \A k \in 1..Len(q) : k \in 1..Len(commands) /\ (q[k].op = "detach" => q[k].id \in Att)
      /\ \A k \in 1..Len(q) : \A s \in Reader :
              Asks(q, k, s) => s # r /\ Asks(commands, k, s) /\ q[k].from = commands[k].from
  BY <1>q, AbandonedAsks
<1>c. PICK c : c = DetachCommand(1)
  OBVIOUS
<1>2. c \in Command /\ c.op = "detach" /\ c.id \in Att
  BY <1>c, AttIs DEF DetachCommand, Command
<1>3. commands' = Append(q, c) /\ link' = link /\ att' = att /\ drops' = drops /\ fan' = fan /\ out' = out /\ first' = first
  BY <1>q, <1>c DEF AttachTimesOut
<1>4. AskOK'
  BY <1>1, <1>2, <1>3, AskBehind
<1>5. commands' \in Seq(Command) /\ Cardinality(FeedAt(commands')) = Cardinality(FeedAt(commands))
  BY <1>1, <1>2, <1>3, CommandSent
<1>6. TypeOK' /\ FeedsOK'
  BY <1>3, <1>5 DEF IInv, TypeOK, EngineTypeOK, FeedsOK, Head0, AttachTimesOut
<1>7. SlotOK' /\ SoundOK' /\ LinksOK' /\ ViewsOK'
  BY <1>3, NothingGoes
<1> QED
  BY <1>4, <1>6, <1>7 DEF IInv

(* The slot is gone: the forwarder ends without a word to the client. *)
LEMMA ForwarderEndsKeeps ==
  ASSUME IInv, NEW r \in Reader, ForwarderEnds(r)
  PROVE  IInv'
<1>0. /\ att[r] # None /\ Leaves(r) /\ fan[att[r]].queue = << >> /\ link' = link /\ out' = out /\ drops' = drops
      /\ commands' = Append(commands, DetachCommand(att[r]))
  BY DEF ForwarderEnds, Leaves
<1>1. /\ fan' \in [Att -> Slot] /\ att' \in [Reader -> Att \cup {None}] /\ att'[r] = None
      /\ SoundOK' /\ SlotOK'
      /\ \A s \in Reader : s # r => att'[s] = att[s] /\ (att[s] # None => fan'[att[s]] = fan[att[s]])
  BY <1>0, LeavesIt
<1>2. AskOK' /\ commands' \in Seq(Command) /\ Cardinality(FeedAt(commands')) = Cardinality(FeedAt(commands))
  BY <1>0, <1>1, DetachSent
<1>3. Head0' = Head0
  BY <1>0 DEF Head0
<1>4. TypeOK' /\ FeedsOK'
  BY <1>0, <1>1, <1>2, <1>3 DEF IInv, TypeOK, EngineTypeOK, FeedsOK, Head0, ForwarderEnds
<1>5. \A s \in Reader : s # r => LinkOK(s)' /\ ViewOK(s)'
  BY <1>0, <1>1, <1>3, OthersKept
<1>6. LinkOK(r)'
  BY <1>0, <1>1 DEF IInv, LinksOK, LinkOK
<1>7. ViewOK(r)'
  <2>1. ViewOK(r) /\ Arrived(r) \in Seq(Chunk)
    BY LinkIs DEF IInv, ViewsOK
  <2>2. Arrived(r) \o fan[att[r]].queue = Arrived(r)
    BY <1>0, <2>1, CatBoth
  <2>3. Flows(Arrived(r), link[r].view.pos, Head0) /\ StartsIn(Arrived(r), Starts(r))
    BY <1>0, <2>1, <2>2 DEF ViewOK, StreamOK, Flowing
  <2>4. Arrived(r)' = Arrived(r) /\ Starts(r)' = Starts(r)
    BY <1>0 DEF Arrived, Starts
  <2>5. StreamOK(r)'
    BY <1>0, <1>1, <1>3, <2>3, <2>4 DEF StreamOK
  <2> QED
    BY <1>0, <2>1, <2>5 DEF ViewOK
<1>8. LinksOK' /\ ViewsOK'
  BY <1>5, <1>6, <1>7 DEF LinksOK, ViewsOK
<1> QED
  BY <1>1, <1>2, <1>4, <1>8 DEF IInv

(* The connection goes, with all that was on it. *)
LEMMA DropKeeps ==
  ASSUME IInv, NEW r \in Reader, Drop(r)
  PROVE  IInv'
<1>0. /\ link[r].state = "up" /\ out' = out /\ first' = first /\ drops' = drops + 1 /\ drops < MaxDrop
      /\ link[r] \in LinkState /\ link \in [Reader -> LinkState] /\ LinkOK(r) /\ Head0 \in Nat /\ drops \in Nat
      /\ commands \in Seq(Command) /\ Head0' = Head0
  BY LinkIs DEF Drop, IInv, LinksOK, TypeOK, EngineTypeOK, Head0
<1>d. drops' \in 0..MaxDrop /\ drops' > 0
  BY <1>0, HostLimits
<1>n. PICK n : n = Opened(link[r])
  OBVIOUS
<1>m. PICK m : m = [n EXCEPT !.state = "down", !.sink = FALSE]
  OBVIOUS
<1>1. /\ n \in LinkState /\ n.charge = 0 /\ n.next = link[r].next /\ n.view = link[r].view
      /\ n.items = << >> /\ n.pending = << >> /\ Len(n.items \o n.pending) = 0 /\ n.items \o n.pending \in Seq(Chunk)
      /\ Completed(n.items)
  BY <1>0, <1>n, OpenedIs
<1>2. /\ m \in LinkState /\ m.state = "down" /\ m.charge = 0 /\ m.next = link[r].next /\ m.view = link[r].view
      /\ m.items = n.items /\ m.pending = n.pending
  BY <1>1, <1>m DEF LinkState
<1>3. link'[r] = m /\ (\A s \in Reader : s # r => link'[s] = link[s]) /\ link' \in [Reader -> LinkState]
  BY <1>0, <1>2, <1>m, <1>n DEF Drop
<1>4. /\ fan' \in [Att -> Slot] /\ att' \in [Reader -> Att \cup {None}] /\ att'[r] = None
      /\ SoundOK' /\ SlotOK'
      /\ \A s \in Reader : s # r => att'[s] = att[s] /\ (att[s] # None => fan'[att[s]] = fan[att[s]])
  <2>1. CASE att[r] = None
    <3>1. fan' = fan /\ att' = [att EXCEPT ![r] = None] /\ att \in [Reader -> Att \cup {None}] /\ fan \in [Att -> Slot]
      BY <2>1 DEF Drop, IInv, TypeOK, EngineTypeOK
    <3>2. att' = att
      BY <2>1, <3>1
    <3> QED
      BY <1>0, <2>1, <3>1, <3>2 DEF IInv, SlotOK, SoundOK
  <2>2. CASE att[r] # None
    <3>1. Leaves(r)
      BY <2>2 DEF Drop, Leaves
    <3> QED
      BY <3>1, LeavesIt
  <2> QED
    BY <2>1, <2>2
<1>5. AskOK' /\ commands' \in Seq(Command) /\ Cardinality(FeedAt(commands')) = Cardinality(FeedAt(commands))
  <2>1. CASE att[r] = None
    <3>q. PICK q : q = Abandon(r)
      OBVIOUS
    <3>1. /\ q \in Seq(Command) /\ Len(q) = Len(commands) /\ FeedAt(q) = FeedAt(commands)
          /\ \A k \in 1..Len(q) : k \in 1..Len(commands) /\ (q[k].op = "detach" => q[k].id \in Att)
          /\ \A k \in 1..Len(q) : \A s \in Reader :
                  Asks(q, k, s) => s # r /\ Asks(commands, k, s) /\ q[k].from = commands[k].from
      BY <3>q, AbandonedAsks
    <3>2. commands' = q
      BY <2>1, <3>q DEF Drop
    <3>3. Len(commands') \in Nat /\ \A k \in 1..Len(commands') : k + 0 = k
      BY <3>1, <3>2
    <3>4. \A k \in 1..Len(commands') : commands'[k].op = "detach" => commands'[k].id \in Att
      BY <3>1, <3>2
    <3>5. \A k \in 1..Len(commands') : \A s \in Reader : Asks(commands', k, s) => Stays(k, 0, s)
      BY <1>3, <1>4, <3>1, <3>2, <3>3 DEF Stays
    <3>6. AskOK'
      BY <1>d, <3>3, <3>4, <3>5, AskStep
    <3> QED
      BY <3>1, <3>2, <3>6
  <2>2. CASE att[r] # None
    BY <1>d, <1>3, <1>4, <2>2, DetachSent DEF Drop
  <2> QED
    BY <2>1, <2>2
<1>6. TypeOK' /\ FeedsOK'
  BY <1>0, <1>d, <1>3, <1>4, <1>5 DEF IInv, TypeOK, EngineTypeOK, FeedsOK, Head0, Drop
<1>7. \A s \in Reader : s # r => LinkOK(s)' /\ ViewOK(s)'
  BY <1>0, <1>d, <1>3, <1>4, OthersKept
<1>8. LinkOK(r)'
  BY <1>d, <1>1, <1>2, <1>3, <1>4, HostLimits DEF LinkOK
<1>9. ViewOK(r)'
  <2>1. Len(Arrived(r)') = 0 /\ Arrived(r)' \in Seq(Chunk)
    BY <1>1, <1>2, <1>3 DEF Arrived
  <2> QED
    BY <1>0, <1>d, <1>2, <1>3, <1>4, <2>1, NothingOnItsWay
<1>10. LinksOK' /\ ViewsOK'
  BY <1>7, <1>8, <1>9 DEF LinksOK, ViewsOK
<1> QED
  BY <1>4, <1>5, <1>6, <1>10 DEF IInv

-----------------------------------------------------------------------------
(* The view is where the item leaves it.  It repeats output only when that
   starts behind the view, and misses none that starts where it is. *)
LEMMA ShownIs ==
  ASSUME NEW v \in View, NEW c \in Chunk, NEW g, g = IF Placed(c) THEN End(c) ELSE v.pos, g <= MaxOut,
         v.pos <= g, c.type = "Output" => c.at <= v.pos, v.fault # "gap"
  PROVE  /\ Shown(v, c) \in View /\ Shown(v, c).pos = g /\ Shown(v, c).fault # "gap"
         /\ v.fault = "none" /\ (c.type = "Output" => c.at = v.pos) => Shown(v, c).fault = "none"
<1>1. v.pos \in 0..MaxOut /\ v.primary \in BOOLEAN /\ c.at \in Nat /\ c.len \in Nat /\ c.at \in 0..MaxOut /\ MaxOut \in Nat
      /\ v.fault \in {"none", "repeat"}
  BY SessionEngineAssumption DEF View, Chunk
<1>2. CASE c.type = "Snapshot"
  <2>1. PICK b \in BOOLEAN : b = ~AltAfter(out, c.at)
    OBVIOUS
  <2>2. Shown(v, c) = [ pos |-> c.at, primary |-> b, fault |-> "none" ]
    BY <1>2, <2>1 DEF Shown
  <2> QED
    BY <1>1, <1>2, <2>2 DEF View, Placed, End
<1>3. CASE c.type = "Output" /\ c.len > 0
  <2>1. c.at + c.len \in 0..MaxOut /\ g = c.at + c.len
    BY <1>1, <1>3 DEF Placed, End
  <2>2. ~(c.at > v.pos)
    BY <1>1, <1>3
  <2>3. Shown(v, c) = [ v EXCEPT !.pos = c.at + c.len, !.fault = IF c.at < v.pos THEN "repeat" ELSE v.fault ]
    BY <1>3, <2>2 DEF Shown
  <2>4. /\ Shown(v, c).pos = c.at + c.len /\ Shown(v, c).fault = (IF c.at < v.pos THEN "repeat" ELSE v.fault)
        /\ Shown(v, c) = [ pos |-> c.at + c.len, primary |-> v.primary, fault |-> Shown(v, c).fault ]
    BY <2>3 DEF View
  <2>5. Shown(v, c) \in View
    BY <1>1, <2>1, <2>4 DEF View
  <2> QED
    BY <1>1, <1>3, <2>1, <2>4, <2>5
<1>4. CASE c.type = "Output" /\ ~(c.len > 0)
  <2>1. Shown(v, c) = v /\ g = v.pos
    BY <1>1, <1>4 DEF Shown, Placed, End
  <2> QED
    BY <2>1
<1>5. CASE c.type \notin {"Snapshot", "Output"}
  BY <1>5 DEF Shown, Placed
<1> QED
  BY <1>2, <1>3, <1>4, <1>5

(* What forward_host makes of item c, and what that leaves on its way. *)
TakenAs(r, c) ==
  [link[r] EXCEPT !.items = Tail(@), !.charge = IF @ > Weight(c) THEN @ - Weight(c) ELSE 0,
                  !.view = Shown(@, c), !.next = IF c.type = "Output" THEN c.at + c.len ELSE @]
Takes(r, c, g, l) ==
  /\ c \in Chunk /\ c = link[r].items[1] /\ l \in LinkState
  /\ l.state = "up" /\ l.sink = link[r].sink /\ l.pending = link[r].pending /\ l.items = Tail(link[r].items)
  /\ l.charge <= Limit /\ Completed(l.items) /\ (NoLag(link[r].items) => NoLag(l.items))
  /\ link[r].view.pos <= g /\ g <= Head0 /\ l.view.pos = g /\ l.next <= g
  /\ l.view.fault # "gap" /\ (drops = 0 => l.view.fault = "none")
  /\ c.type = "Lagged" => l.view = link[r].view /\ l.next = link[r].next /\ att[r] = None

LEMMA TakenIs ==
  ASSUME IInv, NEW r \in Reader, link[r].state = "up", link[r].items # << >>,
         NEW c, c = Head(link[r].items), NEW g, g = IF Placed(c) THEN End(c) ELSE link[r].view.pos,
         NEW l, l = TakenAs(r, c)
  PROVE  Takes(r, c, g, l)
<1>0. /\ LinkOK(r) /\ ViewOK(r) /\ link[r] \in LinkState /\ link[r].items \in Seq(Chunk) /\ link[r].pending \in Seq(Chunk)
      /\ link[r].view \in View /\ link[r].view.pos \in Nat /\ link[r].charge \in Nat /\ link[r].next \in 0..MaxOut
      /\ link[r].next \in Nat /\ Head0 \in Nat /\ Head0 <= MaxOut /\ drops \in Nat /\ MaxOut \in Nat /\ Limit \in Nat
      /\ (att[r] # None => fan[att[r]] \in Slot)
  BY LinkIs, HostLimits, HeadIs DEF IInv, LinksOK, ViewsOK, TypeOK
<1>i. PICK i \in Seq(Chunk), d \in Seq(Chunk) : i = link[r].items /\ d = link[r].pending
  BY <1>0
<1>t. PICK t : t = Tail(i)
  OBVIOUS
<1>1. c = i[1] /\ c \in Chunk /\ t \in Seq(Chunk) /\ i # << >>
  BY <1>i, <1>t, TailIs
<1>2. Completed(t) /\ (NoLag(i) => NoLag(t))
  BY <1>0, <1>1, <1>i, <1>t, TailCompleted DEF LinkOK
<1>z. PICK z \in Seq(Chunk) : /\ z # << >> /\ z[1] = c /\ Flows(z, link[r].view.pos, Head0) /\ StartsIn(z, Starts(r))
  <2>x. PICK x \in Seq(Chunk) : x = i \o d /\ x = Arrived(r) /\ x # << >> /\ x[1] = c
    <3>1. i \o d \in Seq(Chunk)
      BY CatType
    <3> QED
      BY <1>1, <1>i, <3>1, CatTail DEF Arrived
  <2>1. CASE att[r] = None
    BY <1>0, <2>x, <2>1 DEF ViewOK, StreamOK
  <2>2. CASE att[r] # None
    <3>1. fan[att[r]].queue \in Seq(Chunk)
      BY <1>0, <2>2 DEF Slot
    <3>2. x \o fan[att[r]].queue \in Seq(Chunk) /\ x \o fan[att[r]].queue # << >> /\ (x \o fan[att[r]].queue)[1] = c
      BY <2>x, <3>1, CatType, CatTail
    <3> QED
      BY <1>0, <2>x, <2>2, <3>2 DEF ViewOK, StreamOK, Flowing
  <2> QED
    BY <2>1, <2>2
<1>3. /\ link[r].view.pos <= g /\ g <= Head0 /\ g \in Nat
      /\ (c.type = "Output" => c.at <= link[r].view.pos /\ (drops = 0 => c.at = link[r].view.pos))
  <2>1. Placed(c) => link[r].view.pos <= End(c) /\ End(c) <= Head0
    <3>1. 1 \in 1..Len(z)
      BY <1>z, EmptyIs
    <3> QED
      BY <1>z, <3>1 DEF Flows, Within
  <2>2. link[r].view.pos <= Head0
    BY ViewIsBehind
  <2>3. c.type = "Output" => c.at \in Starts(r)
    BY <1>z DEF StartsIn
  <2>4. End(c) \in Nat /\ c.at \in Nat
    BY <1>1, ChunkType
  <2> QED
    BY <1>0, <2>1, <2>2, <2>3, <2>4 DEF Starts
<1>4. /\ Shown(link[r].view, c) \in View /\ Shown(link[r].view, c).pos = g /\ Shown(link[r].view, c).fault # "gap"
      /\ drops = 0 => Shown(link[r].view, c).fault = "none"
  <2>v. PICK v \in View : v = link[r].view
    BY <1>0
  <2>1. g <= MaxOut /\ v.fault # "gap" /\ (drops = 0 => v.fault = "none")
    BY <1>0, <1>3, <2>v DEF ViewOK
  <2>2. /\ v.pos <= g /\ (c.type = "Output" => c.at <= v.pos) /\ (drops = 0 /\ c.type = "Output" => c.at = v.pos)
        /\ g = IF Placed(c) THEN End(c) ELSE v.pos
    BY <1>3, <2>v
  <2>3. /\ Shown(v, c) \in View /\ Shown(v, c).pos = g /\ Shown(v, c).fault # "gap"
        /\ v.fault = "none" /\ (c.type = "Output" => c.at = v.pos) => Shown(v, c).fault = "none"
    BY <1>1, <2>1, <2>2, ShownIs
  <2> QED
    BY <2>1, <2>2, <2>3, <2>v
<1>5. PICK n \in 0..MaxOut : n = (IF c.type = "Output" THEN c.at + c.len ELSE link[r].next) /\ n <= g
  <2>1. CASE c.type = "Output"
    <3>1. g = c.at + c.len /\ g \in 0..MaxOut
      BY <1>0, <1>3, <2>1 DEF Placed, End
    <3> QED
      BY <2>1, <3>1
  <2>2. CASE c.type # "Output"
    BY <1>0, <1>3, <2>2 DEF ViewOK
  <2> QED
    BY <2>1, <2>2
<1>6. PICK w \in Nat : w = (IF link[r].charge > Weight(c) THEN link[r].charge - Weight(c) ELSE 0) /\ w <= link[r].charge
  <2>1. Weight(c) \in Nat
    BY <1>1, ChunkType
  <2> QED
    BY <1>0, <2>1
<1>7. /\ l = [ state |-> link[r].state, sink |-> link[r].sink, pending |-> d, items |-> t, charge |-> w,
               next |-> n, view |-> Shown(link[r].view, c) ]
  BY <1>0, <1>i, <1>t, <1>5, <1>6 DEF TakenAs, LinkState
<1>8. l \in LinkState
  BY <1>0, <1>1, <1>4, <1>7 DEF LinkState
<1>9. c.type = "Lagged" => l.view = link[r].view /\ l.next = link[r].next /\ att[r] = None
  <2>1. ASSUME c.type = "Lagged" PROVE att[r] = None
    <3>1. 1 \in 1..Len(i)
      BY <1>1, EmptyIs
    <3> QED
      BY <1>0, <1>1, <1>i, <2>1, <3>1 DEF LinkOK, NoLag
  <2> QED
    BY <1>5, <1>7, <2>1 DEF Shown
<1>10. l.charge <= Limit
  BY <1>0, <1>6, <1>7 DEF LinkOK
<1> QED
  <2>1. l.state = "up" /\ l.sink = link[r].sink /\ l.pending = d /\ l.items = t /\ l.view = Shown(link[r].view, c) /\ l.next = n
    BY <1>7
  <2> QED
    BY <1>1, <1>2, <1>3, <1>4, <1>5, <1>8, <1>9, <1>10, <1>i, <1>t, <2>1 DEF Takes

(* What is on its way to the view after the item. *)
LEMMA TakenFlows ==
  ASSUME IInv, NEW r \in Reader, NEW c, NEW g, NEW l, Takes(r, c, g, l), link[r].items # << >>, c.type # "Lagged",
         g = IF Placed(c) THEN End(c) ELSE link[r].view.pos,
         link'[r] = l, att' = att, fan' = fan, Head0' = Head0, drops' = drops
  PROVE  StreamOK(r)'
<1>0. /\ ViewOK(r) /\ link[r].items \in Seq(Chunk) /\ link[r].pending \in Seq(Chunk) /\ Arrived(r) \in Seq(Chunk)
      /\ link[r].view.pos \in Nat /\ Head0 \in Nat /\ (att[r] # None => fan[att[r]] \in Slot)
      /\ c = link[r].items[1] /\ l.items = Tail(link[r].items) /\ l.pending = link[r].pending
      /\ link[r].view.pos <= g /\ g <= Head0 /\ l.view.pos = g
  BY LinkIs DEF IInv, ViewsOK, Takes
<1>x. PICK x \in Seq(Chunk) : x = Arrived(r)
  BY <1>0
<1>p. PICK p \in Nat : p = link[r].view.pos
  BY <1>0
<1>1. /\ x # << >> /\ x[1] = c /\ Tail(x) = Arrived(r)' /\ Tail(x) \in Seq(Chunk)
  <2>i. PICK i \in Seq(Chunk), d \in Seq(Chunk) : i = link[r].items /\ d = link[r].pending
    BY <1>0
  <2>1. i # << >> /\ x = i \o d /\ c = i[1] /\ Arrived(r)' = Tail(i) \o d
    BY <1>0, <1>x, <2>i DEF Arrived
  <2>2. x # << >> /\ x[1] = i[1] /\ Tail(x) = Tail(i) \o d
    BY <2>1, CatTail
  <2>3. Tail(x) \in Seq(Chunk)
    BY <2>2, TailIs
  <2> QED
    BY <2>1, <2>2, <2>3
<1>2. \A q : StartsIn(q, {g}) => StartsIn(q, Starts(r)')
  <2>1. g \in Starts(r)'
    <3>1. g \in Nat
      <4>1. Placed(c) => End(c) \in Nat
        BY ChunkType DEF Takes
      <4> QED
        BY <1>0, <4>1
    <3> QED
      BY <1>0, <3>1 DEF Starts
  <2> QED
    BY <2>1 DEF StartsIn
<1>3. CASE att[r] = None
  <2>1. Flows(x, p, Head0)
    BY <1>0, <1>x, <1>p, <1>3 DEF ViewOK, StreamOK
  <2>2. Flows(Tail(x), g, Head0) /\ StartsIn(Tail(x), {g})
    BY <1>0, <1>1, <1>p, <2>1, FlowTake
  <2> QED
    BY <1>0, <1>1, <1>2, <1>3, <2>2 DEF StreamOK
<1>4. CASE att[r] # None
  <2>q. PICK q \in Seq(Chunk) : q = fan[att[r]].queue
    BY <1>0, <1>4 DEF Slot
  <2>z. PICK z \in Seq(Chunk) : z = x \o q
    BY CatType
  <2>c. z # << >> /\ z[1] = x[1] /\ Tail(z) = Tail(x) \o q
    BY <1>1, <2>z, CatTail
  <2>1. Flows(z, p, Head0) /\ (fan[att[r]].live => Reaches(z, p, Head0))
    BY <1>0, <1>x, <1>p, <1>4, <2>q, <2>z DEF ViewOK, StreamOK, Flowing
  <2>2. /\ Flows(Tail(z), g, Head0) /\ StartsIn(Tail(z), {g})
        /\ Reaches(z, p, Head0) => Reaches(Tail(z), g, Head0)
    BY <1>0, <1>1, <1>p, <2>c, <2>1, FlowTake
  <2>3. Flowing(Arrived(r)', fan[att[r]], g, Head0) /\ StartsIn(Arrived(r)' \o fan[att[r]].queue, Starts(r)')
    BY <1>1, <1>2, <2>q, <2>c, <2>1, <2>2 DEF Flowing
  <2> QED
    BY <1>0, <1>4, <2>3 DEF StreamOK
<1> QED
  BY <1>3, <1>4

(* forward_host takes an item. *)
LEMMA TakeKeeps ==
  ASSUME IInv, NEW r \in Reader, Take(r)
  PROVE  IInv'
<1>c. PICK c : c = Head(link[r].items)
  OBVIOUS
<1>g. PICK g : g = IF Placed(c) THEN End(c) ELSE link[r].view.pos
  OBVIOUS
<1>l. PICK l : l = TakenAs(r, c)
  OBVIOUS
<1>0. /\ link[r].state = "up" /\ link[r].items # << >> /\ out' = out /\ att' = att /\ fan' = fan /\ first' = first
      /\ drops' = drops /\ link \in [Reader -> LinkState] /\ LinkOK(r) /\ ViewOK(r) /\ Head0' = Head0 /\ commands \in Seq(Command)
  BY DEF Take, IInv, LinksOK, ViewsOK, TypeOK, EngineTypeOK, Head0
<1>t. Takes(r, c, g, l)
  BY <1>0, <1>c, <1>g, <1>l, TakenIs
<1>1. /\ c \in Chunk /\ l \in LinkState
      /\ l.state = "up" /\ l.sink = link[r].sink /\ l.pending = link[r].pending /\ l.items = Tail(link[r].items)
      /\ l.charge <= Limit /\ Completed(l.items) /\ (NoLag(link[r].items) => NoLag(l.items))
      /\ l.view.pos = g /\ l.next <= g /\ l.view.fault # "gap" /\ (drops = 0 => l.view.fault = "none")
  BY <1>t DEF Takes
<1>2. \A k \in 1..Len(commands) : ~Asks(commands, k, r)
  BY <1>0 DEF IInv, AskOK, Expects
<1>3. SlotOK' /\ SoundOK'
  BY <1>0 DEF IInv, SlotOK, SoundOK
<1>4. CASE c.type = "Lagged"
  <2>m. PICK m : m = Opened(l)
    OBVIOUS
  <2>1. /\ link' = [link EXCEPT ![r] = m] /\ commands' = Append(commands, AttachCommand(r, None))
    BY <1>c, <1>l, <1>4, <2>m DEF Take, TakenAs
  <2>2. /\ m \in LinkState /\ m.state = "up" /\ m.sink /\ m.charge = 0 /\ m.next = l.next /\ m.view = l.view
        /\ m.items = << >> /\ m.pending = << >> /\ Len(m.items \o m.pending) = 0 /\ m.items \o m.pending \in Seq(Chunk)
        /\ Completed(m.items) /\ NoLag(m.items)
    BY <1>1, <2>m, OpenedIs
  <2>3. link'[r] = m /\ (\A s \in Reader : s # r => link'[s] = link[s]) /\ link' \in [Reader -> LinkState]
    BY <1>0, <2>1, <2>2
  <2>4. att[r] = None /\ l.view = link[r].view /\ l.next = link[r].next
    BY <1>4, <1>t DEF Takes
  <2>5. AskOK' /\ commands' \in Seq(Command) /\ Cardinality(FeedAt(commands')) = Cardinality(FeedAt(commands))
    <3>1. Expects(r)'
      BY <1>0, <2>2, <2>3, <2>4 DEF Expects
    <3>2. None \in AskedFrom(r)'
      BY DEF AskedFrom
    <3>f. PICK from \in 0..MaxOut \cup {None} : from = None
      OBVIOUS
    <3>3. commands' = Append(commands, AttachCommand(r, from)) /\ from \in AskedFrom(r)'
      BY <2>1, <3>2, <3>f
    <3>4. \A s \in Reader : s # r => att'[s] = att[s] /\ link'[s] = link[s]
      BY <1>0, <2>3
    <3> QED
      BY <1>0, <1>2, <3>1, <3>3, <3>4, AskAgain
  <2>6. TypeOK' /\ FeedsOK'
    BY <1>0, <2>3, <2>5 DEF IInv, TypeOK, EngineTypeOK, FeedsOK, Take, Head0
  <2>7. \A s \in Reader : s # r => LinkOK(s)' /\ ViewOK(s)'
    BY <1>0, <2>3, OthersKept
  <2>8. LinkOK(r)'
    BY <1>0, <2>2, <2>3, <2>4, HostLimits DEF LinkOK
  <2>9. ViewOK(r)'
    <3>1. Len(Arrived(r)') = 0 /\ Arrived(r)' \in Seq(Chunk)
      BY <2>2, <2>3 DEF Arrived
    <3> QED
      BY <1>0, <2>2, <2>3, <2>4, <3>1, NothingOnItsWay
  <2>10. LinksOK' /\ ViewsOK'
    BY <2>7, <2>8, <2>9 DEF LinksOK, ViewsOK
  <2> QED
    BY <1>3, <2>5, <2>6, <2>10 DEF IInv
<1>5. CASE c.type # "Lagged"
  <2>1. link' = [link EXCEPT ![r] = l] /\ commands' = commands
    BY <1>c, <1>l, <1>5 DEF Take, TakenAs
  <2>2. link'[r] = l /\ (\A s \in Reader : s # r => link'[s] = link[s]) /\ link' \in [Reader -> LinkState]
    BY <1>0, <1>1, <2>1
  <2>3. AskOK'
    <3>1. Len(commands') \in Nat /\ \A k \in 1..Len(commands') : k + 0 = k /\ k \in 1..Len(commands)
      BY <1>0, <2>1
    <3>2. \A k \in 1..Len(commands') : commands'[k].op = "detach" => commands'[k].id \in Att
      BY <2>1 DEF IInv, AskOK
    <3>3. \A k \in 1..Len(commands') : \A s \in Reader : Asks(commands', k, s) => Stays(k, 0, s)
      BY <1>0, <1>2, <2>1, <2>2, <3>1 DEF Stays
    <3> QED
      BY <1>0, <3>1, <3>2, <3>3, AskStep
  <2>4. TypeOK' /\ FeedsOK'
    BY <1>0, <2>1, <2>2 DEF IInv, TypeOK, EngineTypeOK, FeedsOK, Take, Head0
  <2>5. \A s \in Reader : s # r => LinkOK(s)' /\ ViewOK(s)'
    BY <1>0, <2>2, OthersKept
  <2>6. LinkOK(r)'
    BY <1>0, <1>1, <2>2 DEF LinkOK
  <2>7. StreamOK(r)'
    BY <1>0, <1>5, <1>g, <1>t, <2>2, TakenFlows
  <2>8. ViewOK(r)'
    BY <1>0, <1>1, <2>2, <2>7 DEF ViewOK
  <2>9. LinksOK' /\ ViewsOK'
    BY <2>5, <2>6, <2>8 DEF LinksOK, ViewsOK
  <2> QED
    BY <1>3, <2>3, <2>4, <2>9 DEF IInv
<1> QED
  BY <1>4, <1>5

(* A view's attach request is served from where the view is, or from before
   it once a connection dropped. *)
LEMMA ServeAttachKeeps ==
  ASSUME SnapSize <= Limit, IInv, ServeAttach, UNCHANGED <<link, drops>>
  PROVE  IInv'
<1>1. EngineTypeOK' /\ FeedsOK' /\ Head0 \in Nat /\ Head0' = Head0 /\ Head0 <= MaxOut
  BY ServeAttachTypes, HeadIs DEF IInv, TypeOK
<1>2. PICK a \in FreshIds :
        /\ fan' = [fan EXCEPT ![a] = [Started([NoSlot EXCEPT !.live = TRUE, !.open = TRUE], Head(commands).from)
                                        EXCEPT !.open = (Head(commands).who # None)]]
        /\ att' = IF Head(commands).who = None THEN att ELSE [att EXCEPT ![Head(commands).who] = a]
  BY DEF ServeAttach
<1>3. a \in Att /\ \A r \in Reader : att[r] # a
  BY <1>2, AttIs DEF FreshIds, Unnamed, IInv, SlotOK
<1>4. /\ commands # << >> /\ commands' = Tail(commands) /\ 1 \in 1..Len(commands) /\ commands[1].op = "attach"
      /\ commands[1] \in Command /\ Head(commands) = commands[1] /\ first'
      /\ commands \in Seq(Command)
  BY TailIs DEF ServeAttach, IInv, TypeOK, EngineTypeOK
<1>f. PICK from \in 0..MaxOut \cup {None} : from = commands[1].from
  BY <1>4 DEF Command
<1>w. PICK who \in Reader \cup {None} : who = commands[1].who
  BY <1>4 DEF Command
<1>5. /\ fan'[a] \in Slot /\ Sound(fan'[a]) /\ Resumes(fan'[a], from)
  <2>1. PICK w \in BOOLEAN : w = (who # None)
    OBVIOUS
  <2>2. PICK s : s = [Started([NoSlot EXCEPT !.live = TRUE, !.open = TRUE], from) EXCEPT !.open = w]
    OBVIOUS
  <2>3. s \in Slot /\ Sound(s) /\ Resumes(s, from)
    BY <1>1, <2>2, AttachedIs
  <2>4. fan'[a] = s
    BY <1>2, <1>3, <1>4, <1>f, <1>w, <2>1, <2>2 DEF IInv, TypeOK, EngineTypeOK
  <2> QED
    BY <2>3, <2>4
<1>6. \A b \in Att : b # a => fan'[b] = fan[b]
  BY <1>2 DEF IInv, TypeOK, EngineTypeOK
<1>7. \A r \in Reader : att'[r] = IF r = who THEN a ELSE att[r]
  BY <1>2, <1>4, <1>w, SessionEngineAssumption DEF IInv, TypeOK, EngineTypeOK
<1>8. \A r \in Reader : att[r] # None => att[r] \in Att /\ att[r] # a
  BY <1>3, LinkIs DEF IInv
<1>9. who \in Reader => Asks(commands, 1, who) /\ Expects(who) /\ from \in AskedFrom(who)
  BY <1>4, <1>f, <1>w DEF IInv, AskOK, Asks
<1>10. AskOK'
  <2>1. /\ Len(commands) \in Nat /\ Len(commands') \in Nat /\ Len(commands') + 1 = Len(commands)
        /\ \A k \in 1..Len(commands') : commands'[k] = commands[k + 1] /\ k + 1 \in 1..Len(commands)
    BY <1>4, TailIs
  <2>2. \A k \in 1..Len(commands') : commands'[k].op = "detach" => commands'[k].id \in Att
    BY <2>1 DEF IInv, AskOK
  <2>3. ASSUME NEW k \in 1..Len(commands'), NEW s \in Reader, Asks(commands', k, s)
        PROVE  Stays(k, 1, s)
    <3>1. Asks(commands, k + 1, s) /\ k + 1 \in 1..Len(commands) /\ k + 1 # 1
      BY <2>1, <2>3 DEF Asks
    <3>2. s = who => Asks(commands, 1, s)
      BY <1>9
    <3>3. s # who
      BY <1>4, <3>1, <3>2 DEF IInv, AskOK
    <3> QED
      BY <1>7, <2>1, <3>1, <3>3 DEF Stays
  <2> QED
    BY <2>1, <2>2, <2>3, AskStep
<1>11. SlotOK'
  BY <1>4, <1>7, <1>8 DEF IInv, SlotOK
<1>12. SoundOK'
  BY <1>5, <1>6 DEF IInv, SoundOK
<1>13. \A s \in Reader : s # who => LinkOK(s)' /\ ViewOK(s)'
  BY <1>1, <1>6, <1>7, <1>8, OthersKept
<1>14. ASSUME who \in Reader PROVE LinkOK(who)' /\ ViewOK(who)'
  <2>0. /\ att'[who] = a /\ att[who] = None /\ a # None /\ link' = link /\ drops' = drops /\ LinkOK(who) /\ ViewOK(who)
        /\ link[who].state = "up" /\ link[who].sink /\ link[who].items = << >> /\ link[who].pending = << >>
        /\ link[who].view.pos \in Nat /\ link[who].next \in Nat /\ drops \in Nat /\ fan'[a].queue \in Seq(Chunk)
        /\ link[who].view.pos <= Head0
    BY <1>3, <1>5, <1>7, <1>9, <1>14, AttIs, LinkIs, ViewIsBehind DEF IInv, Expects, LinksOK, ViewsOK, Slot
  <2>1. LinkOK(who)'
    <3>1. Len(link[who].items) = 0
      BY <2>0
    <3>2. NoLag(link[who].items)
      BY <3>1 DEF NoLag
    <3> QED
      BY <2>0, <3>2 DEF LinkOK
  <2>2. Resumable(from) => from <= link[who].view.pos /\ from \in Starts(who)
    <3>1. ASSUME Resumable(from) PROVE drops # 0 /\ from = link[who].next
      BY <1>9, <1>14, <3>1 DEF Resumable, AskedFrom
    <3> QED
      BY <2>0, <3>1 DEF ViewOK, Starts
  <2>3. Flowing(<< >>, fan'[a], link[who].view.pos, Head0) /\ StartsIn(fan'[a].queue, Starts(who))
    BY <1>5, <2>0, <2>2 DEF Resumes
  <2>4. Arrived(who)' = << >> /\ Starts(who)' = Starts(who) /\ << >> \o fan'[a].queue = fan'[a].queue
    <3>1. << >> \o << >> = << >>
      OBVIOUS
    <3> QED
      BY <2>0, <3>1, CatNone DEF Arrived, Starts
  <2>5. StreamOK(who)'
    BY <1>1, <2>0, <2>3, <2>4 DEF StreamOK
  <2>6. ViewOK(who)'
    BY <2>0, <2>5 DEF ViewOK
  <2> QED
    BY <2>1, <2>6
<1>15. LinksOK' /\ ViewsOK'
  BY <1>13, <1>14 DEF LinksOK, ViewsOK
<1> QED
  BY <1>1, <1>10, <1>11, <1>12, <1>15 DEF IInv, TypeOK

-----------------------------------------------------------------------------
(* The forwarder's chunk reaches the client's queue. *)

Receives(l) ==
  /\ l \in LinkState /\ l.sink /\ l.charge <= Limit /\ NoLag(l.items) /\ Completed(l.items)
  /\ l.pending # << >> => Len(l.pending) = 1 /\ l.pending[1].type = "Snapshot"

(* What is held back is followed by the empty output. *)
LEMMA HeldIsFollowed ==
  ASSUME NEW l, Receives(l), NEW q \in Seq(Chunk), q # << >>,
         NEW z, z = (l.items \o l.pending) \o q, Completed(z), l.pending # << >>
  PROVE  q[1].type = "Output" /\ q[1].len = 0
<1>i. PICK i \in Seq(Chunk), d \in Seq(Chunk) : i = l.items /\ d = l.pending
  BY DEF Receives, LinkState
<1>x. PICK x \in Seq(Chunk) : x = i \o d
  BY CatType
<1>n. PICK n \in Nat : n = Len(i)
  OBVIOUS
<1>1. Len(d) = 1 /\ d[1].type = "Snapshot"
  BY <1>i DEF Receives
<1>2. Len(x) = n + 1 /\ x[n + 1] = d[1]
  <2>1. 1 \in 1..Len(d)
    BY <1>1
  <2>2. x[Len(i) + 1] = d[1] /\ Len(x) = Len(i) + Len(d)
    BY <1>x, <2>1, SecondAt
  <2> QED
    BY <1>n, <1>1, <2>2
<1>3. 1 \in 1..Len(q) /\ Len(q) \in Nat
  BY EmptyIs
<1>4. z = x \o q /\ Len(z) = n + 1 + Len(q) /\ z[n + 1] = x[n + 1] /\ z[(n + 1) + 1] = q[1]
  <2>1. z = x \o q
    BY <1>i, <1>x
  <2>2. Len(x) = n + 1 /\ Len(x) \in 1..Len(x)
    BY <1>2
  <2>3. z[Len(x) + 1] = q[1] /\ Len(z) = Len(x) + Len(q) /\ z[Len(x)] = x[Len(x)]
    <3>1. 1 \in 1..Len(q)
      BY <1>3
    <3>2. z[Len(x) + 1] = q[1] /\ Len(z) = Len(x) + Len(q) /\ \A j \in 1..Len(x) : z[j] = x[j]
      BY <2>1, <3>1, SecondAt
    <3> QED
      BY <2>2, <3>2
  <2> QED
    BY <2>1, <2>2, <2>3
<1>5. n + 1 \in 1..Len(z)
  BY <1>3, <1>4
<1>6. z[(n + 1) + 1].type = "Output" /\ z[(n + 1) + 1].len = 0
  BY <1>1, <1>2, <1>4, <1>5 DEF Completed
<1> QED
  BY <1>4, <1>6

(* Nothing held back: only a snapshot is, and the first to come is then an
   output that weighs nothing. *)
LEMMA NothingHeld ==
  ASSUME NEW l, Receives(l), NEW q \in Seq(Chunk), q # << >>,
         NEW z, z = (l.items \o l.pending) \o q, Completed(z), NEW c, c = q[1], c.type = "Snapshot" \/ ~Fits(l, c)
  PROVE  l.pending = << >>
<1>1. SUFFICES ASSUME l.pending # << >> PROVE FALSE
  OBVIOUS
<1>2. c.type = "Output" /\ c.len = 0
  BY <1>1, HeldIsFollowed
<1>3. Weight(c) = 0
  BY <1>2 DEF Weight
<1>4. l.charge \in Nat /\ l.charge <= Limit /\ Limit \in Nat
  BY HostLimits DEF Receives, LinkState
<1> QED
  BY <1>2, <1>3, <1>4 DEF Fits

Dispatches(l, m, q, p, h) ==
  /\ m \in LinkState /\ m.state = l.state /\ m.next = l.next /\ m.view = l.view /\ m.charge <= Limit
  /\ m.pending # << >> => Len(m.pending) = 1 /\ m.pending[1].type = "Snapshot"
  /\ Completed(m.items)
  /\ m.sink => NoLag(m.items) /\ (m.items \o m.pending) \o Tail(q) = (l.items \o l.pending) \o q
  /\ ~m.sink => /\ Flows(m.items \o m.pending, p, h)
                /\ \A P : StartsIn((l.items \o l.pending) \o q, P) => StartsIn(m.items \o m.pending, P)

(* A snapshot that fits is held back. *)
LEMMA HoldsBack ==
  ASSUME NEW l, Receives(l), NEW q \in Seq(Chunk), q # << >>, NEW p \in Nat, NEW h \in Nat,
         NEW z, z = (l.items \o l.pending) \o q, Flows(z, p, h), NEW c, c = q[1], c.type = "Snapshot", Fits(l, c),
         NEW m, m = [l EXCEPT !.pending = <<c>>, !.charge = @ + Weight(c)]
  PROVE  Dispatches(l, m, q, p, h)
<1>i. PICK i \in Seq(Chunk) : i = l.items /\ l \in LinkState /\ l.sink /\ NoLag(i) /\ Completed(i) /\ l.charge \in Nat
  BY DEF Receives, LinkState
<1>1. l.pending = << >>
  BY NothingHeld DEF Flows
<1>2. c \in Chunk /\ c = Head(q) /\ Weight(c) \in Nat
  BY TailIs, ChunkType
<1>d. PICK d \in Seq(Chunk) : d = <<c>> /\ Len(d) = 1 /\ d[1] = c
  <2>1. <<c>> \in Seq(Chunk) /\ Len(<<c>>) = 1 /\ <<c>>[1] = c
    BY <1>2
  <2> QED
    BY <2>1
<1>w. PICK w \in Nat : w = l.charge + Weight(c) /\ w <= Limit
  BY <1>i, <1>2 DEF Fits
<1>3. m = [ state |-> l.state, sink |-> TRUE, pending |-> d, items |-> i, charge |-> w,
            next |-> l.next, view |-> l.view ]
  BY <1>i, <1>d, <1>w DEF LinkState
<1>4. m \in LinkState
  <2>1. l.state \in {"new", "up", "down"} /\ l.next \in 0..MaxOut /\ l.view \in View /\ TRUE \in BOOLEAN
    BY <1>i DEF LinkState
  <2> QED
    BY ONLY <1>3, <2>1, i \in Seq(Chunk), d \in Seq(Chunk), w \in Nat DEF LinkState
<1>5. (m.items \o m.pending) \o Tail(q) = z
  <2>1. z = i \o q
    BY <1>i, <1>1, CatBoth
  <2>2. i \o <<Head(q)>> = Append(i, Head(q)) /\ Append(i, Head(q)) \o Tail(q) = i \o q
    BY HeadMoves
  <2>3. i \o d = Append(i, Head(q))
    BY <1>2, <1>d, <2>2
  <2>4. m.items = i /\ m.pending = d
    BY ONLY <1>3
  <2> QED
    BY <2>1, <2>2, <2>3, <2>4
<1> QED
  BY <1>i, <1>d, <1>w, <1>3, <1>4, <1>5 DEF Dispatches

(* Another chunk that fits is put behind what was held back. *)
LEMMA Releases ==
  ASSUME NEW l, Receives(l), NEW q \in Seq(Chunk), q # << >>, NEW p \in Nat, NEW h \in Nat,
         NEW z, z = (l.items \o l.pending) \o q, Flows(z, p, h), NEW c, c = q[1], c.type # "Snapshot", Fits(l, c),
         NEW m, m = [Released(l) EXCEPT !.items = Append(@, c), !.charge = @ + Weight(c), !.sink = (c.type # "Lagged")]
  PROVE  Dispatches(l, m, q, p, h)
<1>i. PICK i \in Seq(Chunk), d \in Seq(Chunk) : /\ i = l.items /\ d = l.pending /\ l \in LinkState /\ l.sink /\ NoLag(i)
                                                /\ Completed(i) /\ l.charge \in Nat
  BY DEF Receives, LinkState
<1>x. PICK x \in Seq(Chunk) : x = i \o d /\ z = x \o q
  BY <1>i, CatType
<1>1. c \in Chunk /\ c = Head(q) /\ Weight(c) \in Nat
  BY TailIs, ChunkType
<1>y. PICK y \in Seq(Chunk) : y = Append(x, c) /\ y \o Tail(q) = z /\ Len(y) = Len(x) + 1 /\ y[Len(x) + 1] = c
  <2>1. Append(x, c) \in Seq(Chunk) /\ Len(Append(x, c)) = Len(x) + 1 /\ Append(x, c)[Len(x) + 1] = c
    BY <1>1, Appended
  <2>2. Append(x, Head(q)) \o Tail(q) = x \o q
    BY HeadMoves
  <2> QED
    BY <1>x, <1>1, <2>1, <2>2
<1>e. PICK e \in Seq(Chunk) : e = << >>
  <2>1. << >> \in Seq(Chunk)
    OBVIOUS
  <2> QED
    BY <2>1
<1>w. PICK w \in Nat : w = l.charge + Weight(c) /\ w <= Limit
  BY <1>i, <1>1 DEF Fits
<1>b. PICK b \in BOOLEAN : b = (c.type # "Lagged")
  OBVIOUS
<1>3. m = [ state |-> l.state, sink |-> b, pending |-> e, items |-> y, charge |-> w,
            next |-> l.next, view |-> l.view ]
  <2>2. l.items \o l.pending = x
    BY <1>i, <1>x
  <2>3. Released(l) = [l EXCEPT !.items = x, !.pending = e]
    BY <1>e, <2>2 DEF Released
  <2>n. PICK n \in LinkState : /\ n = Released(l) /\ n.items = x /\ n.charge = l.charge /\ n.pending = e
                              /\ n.state = l.state /\ n.next = l.next /\ n.view = l.view
    <3>1. l \in LinkState
      BY <1>i
    <3> QED
      BY ONLY <2>3, <3>1, x \in Seq(Chunk), e \in Seq(Chunk) DEF LinkState
  <2>4. m = [n EXCEPT !.items = y, !.charge = w, !.sink = b]
    BY <1>y, <1>w, <1>b, <2>n
  <2> QED
    BY ONLY <2>n, <2>4, n \in LinkState DEF LinkState
<1>4. m \in LinkState
  BY <1>i, <1>3 DEF LinkState
<1>5. z \in Seq(Chunk) /\ Cuts(y, z)
  <2>1. Tail(q) \in Seq(Chunk) /\ Len(x) \in Nat
    BY TailIs
  <2>t. PICK t \in Seq(Chunk) : z = y \o t
    BY <1>y, <2>1
  <2>2. z \in Seq(Chunk) /\ Len(y) <= Len(z) /\ \A k \in 1..Len(y) : y[k] = z[k]
    BY <2>t, CatElements
  <2>3. y[Len(y)].type # "Snapshot"
    BY <1>y, <2>1
  <2> QED
    BY <2>2, <2>3 DEF Cuts
<1>6. Flows(y, p, h) /\ \A P : StartsIn(z, P) => StartsIn(y, P)
  BY <1>5, CutFlows
<1>7. y \o e = y
  BY <1>e, CatBoth
<1>8. c.type # "Lagged" => NoLag(y)
  <2>1. ASSUME c.type # "Lagged", NEW k \in 1..Len(y) PROVE y[k].type # "Lagged"
    <3>1. Len(i) \in Nat /\ Len(x) = Len(i) + Len(d) /\ Len(d) \in Nat
      BY <1>x, CatElements
    <3>2. CASE k \in 1..Len(i)
      <4>1. y[k] = i[k]
        BY <1>x, <1>y, <3>1, <3>2, Appended, CatElements, <1>1
      <4> QED
        BY <1>i, <3>2, <4>1 DEF NoLag
    <3>3. CASE k \in (Len(i) + 1)..Len(x)
      <4>1. Len(d) = 1 /\ d[1].type = "Snapshot" /\ k = Len(i) + 1 /\ 1 \in 1..Len(d)
        <5>1. d # << >>
          <6>1. Len(d) # 0
            BY <3>1, <3>3
          <6> QED
            BY <6>1, EmptyIs
        <5>2. Len(d) = 1 /\ d[1].type = "Snapshot"
          BY <1>i, <5>1 DEF Receives
        <5> QED
          BY <3>1, <3>3, <5>2
      <4>2. x[Len(i) + 1] = d[1]
        <5>1. 1 \in 1..Len(d) /\ x = i \o d
          BY <1>x, <4>1
        <5> QED
          BY ONLY <5>1, SecondAt, i \in Seq(Chunk), d \in Seq(Chunk)
      <4>3. y[k] = x[k]
        BY <1>y, <1>1, <3>1, <3>3, Appended
      <4> QED
        BY <4>1, <4>2, <4>3
    <3>4. CASE k = Len(x) + 1
      BY <1>y, <2>1, <3>4
    <3> QED
      BY <1>y, <3>1, <3>2, <3>3, <3>4
  <2> QED
    BY <2>1 DEF NoLag
<1>9. Completed(y)
  BY <1>6 DEF Flows
<1>10. /\ m.state = l.state /\ m.next = l.next /\ m.view = l.view /\ m.charge = w /\ m.pending = e /\ m.items = y
       /\ (m.sink <=> c.type # "Lagged")
  BY ONLY <1>3, <1>b
<1> QED
  BY <1>4, <1>6, <1>7, <1>8, <1>9, <1>10, <1>y, <1>w, <1>e, <1>b DEF Dispatches

(* A chunk that does not fit is replaced by Lagged, and the stream given up. *)
LEMMA GivesUp ==
  ASSUME NEW l, Receives(l), NEW q \in Seq(Chunk), q # << >>, NEW p \in Nat, NEW h \in Nat,
         NEW z, z = (l.items \o l.pending) \o q, Flows(z, p, h), NEW c, c = q[1], ~Fits(l, c),
         NEW m, m = Overflowed(l) \/ m = Overflowed(Released(l))
  PROVE  Dispatches(l, m, q, p, h)
<1>i. PICK i \in Seq(Chunk) : i = l.items /\ l \in LinkState /\ NoLag(i) /\ Completed(i) /\ l.charge \in Nat /\ l.charge <= Limit
  BY DEF Receives, LinkState
<1>1. l.pending = << >>
  BY NothingHeld DEF Flows
<1>e. PICK e \in Seq(Chunk) : e = << >>
  <2>1. << >> \in Seq(Chunk)
    OBVIOUS
  <2> QED
    BY <2>1
<1>2. i \o e = i /\ z = i \o q
  BY <1>i, <1>1, <1>e, CatBoth
<1>3. Lagged \in Chunk
  BY HostLimits DEF Lagged, Chunk
<1>y. PICK y \in Seq(Chunk) : y = Append(i, Lagged) /\ y \o e = y
  <2>1. Append(i, Lagged) \in Seq(Chunk)
    BY <1>3, Appended
  <2> QED
    BY <1>e, <2>1, CatBoth
<1>4. m = [ state |-> l.state, sink |-> FALSE, pending |-> e, items |-> y, charge |-> l.charge,
            next |-> l.next, view |-> l.view ]
  <2>1. Overflowed(l) = [ state |-> l.state, sink |-> FALSE, pending |-> e, items |-> y, charge |-> l.charge,
                          next |-> l.next, view |-> l.view ]
    <3>1. Overflowed(l) = [l EXCEPT !.items = y, !.sink = FALSE]
      BY <1>i, <1>y DEF Overflowed
    <3>2. l \in LinkState /\ l.pending = e
      BY <1>i, <1>1, <1>e
    <3> QED
      BY ONLY <3>1, <3>2 DEF LinkState
  <2>2. Released(l) = l
    BY <1>i, <1>1, <1>2, <1>e DEF Released, LinkState
  <2> QED
    BY <2>1, <2>2
<1>5. m \in LinkState
  BY <1>i, <1>4 DEF LinkState
<1>6. z \in Seq(Chunk) /\ Cuts(i, z)
  <2>1. z \in Seq(Chunk) /\ Len(i) <= Len(z) /\ \A k \in 1..Len(i) : i[k] = z[k]
    BY <1>2, CatElements
  <2>2. ASSUME i # << >> PROVE i[Len(i)].type # "Snapshot"
    <3>1. Len(i) \in 1..Len(i) /\ Len(i) + 1 \notin 1..Len(i)
      BY <2>2
    <3> QED
      BY <1>i, <3>1 DEF Completed
  <2> QED
    BY <2>1, <2>2 DEF Cuts
<1>7. Flows(i, p, h) /\ \A P : StartsIn(z, P) => StartsIn(i, P)
  BY <1>6, CutFlows
<1>8. Flows(y, p, h) /\ (i # << >> => y[1] = i[1]) /\ (i = << >> => y[1].type = "Lagged")
  BY <1>i, <1>7, <1>y, FlowLag
<1>9. \A P : StartsIn(z, P) => StartsIn(y, P)
  <2>1. CASE i = << >>
    BY <1>8, <2>1 DEF StartsIn
  <2>2. CASE i # << >>
    BY <1>7, <1>8, <2>2 DEF StartsIn
  <2> QED
    BY <2>1, <2>2
<1>10. Completed(y)
  BY <1>8 DEF Flows
<1>11. /\ m.state = l.state /\ m.next = l.next /\ m.view = l.view /\ m.charge = l.charge /\ m.pending = e /\ m.items = y
       /\ ~m.sink
  BY <1>4
<1> QED
  BY <1>5, <1>8, <1>9, <1>10, <1>11, <1>i, <1>y, <1>e DEF Dispatches

LEMMA DispatchKeeps ==
  ASSUME NEW l, Receives(l), NEW q \in Seq(Chunk), q # << >>, NEW p \in Nat, NEW h \in Nat,
         NEW z, z = (l.items \o l.pending) \o q, Flows(z, p, h), NEW c, c = q[1], NEW m, m = Dispatched(l, c)
  PROVE  Dispatches(l, m, q, p, h)
<1>1. CASE c.type = "Snapshot" /\ Fits(l, c)
  BY <1>1, HoldsBack DEF Dispatched
<1>2. CASE c.type # "Snapshot" /\ Fits(l, c)
  BY <1>2, Releases DEF Dispatched
<1>3. CASE ~Fits(l, c)
  BY <1>3, GivesUp DEF Dispatched
<1> QED
  BY <1>1, <1>2, <1>3

(* The attachment's queue loses its head, and its counter the head's weight. *)
TakesOff(s, slot) ==
  /\ s \in Slot /\ s.queue = Tail(slot.queue) /\ s.live = slot.live /\ s.open = slot.open
  /\ s.charge = IF slot.charge > Weight(Head(slot.queue)) THEN slot.charge - Weight(Head(slot.queue)) ELSE 0
LEMMA TakenOffIsSound ==
  ASSUME NEW slot \in Slot, slot.queue # << >>, Sound(slot), NEW s, TakesOff(s, slot)
  PROVE  Sound(s)
<1>q. PICK q \in Seq(Chunk), t \in Seq(Chunk) : q = slot.queue /\ t = Tail(q) /\ q # << >>
  <2>1. slot.queue \in Seq(Chunk) /\ Tail(slot.queue) \in Seq(Chunk)
    BY TailIs DEF Slot
  <2> QED
    BY <2>1
<1>1. /\ Len(q) \in Nat /\ Len(t) \in Nat /\ Len(t) + 1 = Len(q) /\ Head(q) \in Chunk
      /\ \A k \in 1..Len(t) : t[k] = q[k + 1] /\ k + 1 \in 1..Len(q)
  BY <1>q, TailIs
<1>w. PICK x \in Nat, y \in Nat, z \in Nat, w \in Nat :
        x = QueuedWeight(q) /\ y = QueuedWeight(t) /\ z = slot.charge /\ w = Weight(Head(q)) /\ x = w + y
  <2>1. QueuedWeight(q) = Weight(Head(q)) + QueuedWeight(t) /\ QueuedWeight(t) \in Nat
    BY <1>q, WeightTail
  <2>2. slot.charge \in Nat /\ Weight(Head(q)) \in Nat
    BY <1>1, ChunkType DEF Slot
  <2> QED
    BY <2>1, <2>2
<1>2. s.queue = t /\ s.live = slot.live /\ s.open = slot.open /\ s.charge = (IF z > w THEN z - w ELSE 0)
  BY <1>q, <1>w DEF TakesOff
<1>3. LastLag(s)
  <2>1. ASSUME NEW k \in 1..Len(t), t[k].type = "Lagged" PROVE ~slot.live /\ k = Len(t)
    <3>1. q[k + 1].type = "Lagged" /\ k + 1 \in 1..Len(q)
      BY <1>1, <2>1
    <3>2. ~slot.live /\ k + 1 = Len(q)
      BY <1>q, <3>1 DEF Sound, LastLag
    <3> QED
      BY <1>1, <3>2
  <2> QED
    BY <1>2, <2>1 DEF LastLag
<1>4. Bounded(s)
  <2>1. ASSUME OneWeighs(q) PROVE OneWeighs(t)
    <3>1. ASSUME NEW j \in 1..Len(t), NEW k \in 1..Len(t), Weight(t[j]) > 0, Weight(t[k]) > 0 PROVE j = k
      <4>1. j + 1 = k + 1
        BY <1>1, <2>1, <3>1 DEF OneWeighs
      <4> QED
        BY <4>1
    <3> QED
      BY <3>1 DEF OneWeighs
  <2>2. z <= Limit => s.charge <= Limit
    BY <1>2, HostLimits
  <2> QED
    BY <1>q, <1>w, <1>2, <2>1, <2>2 DEF Sound, Bounded
<1>5. s.open => QueuedWeight(s.queue) <= s.charge
  <2>1. x <= z => y <= (IF z > w THEN z - w ELSE 0)
    BY <1>w
  <2>2. slot.open => x <= z
    BY <1>q, <1>w DEF Sound
  <2> QED
    BY <1>w, <1>2, <2>1, <2>2
<1> QED
  BY <1>3, <1>4, <1>5 DEF Sound

(* The forwarder writes a chunk, and the client dispatches it. *)
LEMMA ForwardKeeps ==
  ASSUME IInv, NEW r \in Reader, Forward(r)
  PROVE  IInv'
<1>a. PICK a \in Att : a = att[r] /\ a # None
  BY LinkIs DEF IInv, Forward
<1>0. /\ fan[a] \in Slot /\ fan \in [Att -> Slot] /\ fan[a].queue \in Seq(Chunk) /\ fan[a].queue # << >>
      /\ link[r] \in LinkState /\ link \in [Reader -> LinkState] /\ LinkOK(r) /\ ViewOK(r) /\ Head0 \in Nat
      /\ link[r].view.pos \in Nat /\ commands \in Seq(Command) /\ Sound(fan[a])
      /\ out' = out /\ first' = first /\ drops' = drops /\ Head0' = Head0
  BY <1>a, LinkIs DEF Forward, IInv, LinksOK, ViewsOK, SoundOK, TypeOK, EngineTypeOK, Slot, Head0
<1>q. PICK q \in Seq(Chunk) : q = fan[a].queue /\ q # << >>
  BY <1>0
<1>c. PICK c : c = q[1] /\ c = Head(q) /\ c \in Chunk
  BY <1>q, TailIs
<1>m. PICK m : m = Dispatched(link[r], c)
  OBVIOUS
<1>p. PICK p \in Nat, h \in Nat : p = link[r].view.pos /\ h = Head0
  BY <1>0
<1>z. PICK z : /\ z = (link[r].items \o link[r].pending) \o q /\ Flows(z, p, h) /\ StartsIn(z, Starts(r))
               /\ fan[a].live => Reaches(z, p, h)
  BY <1>0, <1>a, <1>q, <1>p DEF ViewOK, StreamOK, Flowing, Arrived
<1>1. Receives(link[r])
  BY <1>0, <1>a DEF LinkOK, Receives
<1>2. Dispatches(link[r], m, q, p, h)
  BY <1>1, <1>q, <1>c, <1>m, <1>z, DispatchKeeps
<1>3. /\ m \in LinkState /\ m.state = "up" /\ m.next = link[r].next /\ m.view = link[r].view /\ m.charge <= Limit
      /\ m.pending # << >> => Len(m.pending) = 1 /\ m.pending[1].type = "Snapshot"
      /\ Completed(m.items)
      /\ m.sink => NoLag(m.items) /\ (m.items \o m.pending) \o Tail(q) = z
      /\ ~m.sink => Flows(m.items \o m.pending, p, h) /\ StartsIn(m.items \o m.pending, Starts(r))
  BY <1>0, <1>2, <1>a, <1>z DEF Dispatches, LinkOK
<1>4. link'[r] = m /\ (\A s \in Reader : s # r => link'[s] = link[s]) /\ link' \in [Reader -> LinkState]
  <2>1. link' = [link EXCEPT ![r] = m]
    BY <1>a, <1>q, <1>c, <1>m DEF Forward
  <2> QED
    BY <1>0, <1>3, <2>1
<1>5. Arrived(r)' = m.items \o m.pending /\ Starts(r)' = Starts(r)
  BY <1>0, <1>3, <1>4 DEF Arrived, Starts
<1>6. \A k \in 1..Len(commands) : ~Asks(commands, k, r)
  BY <1>a DEF IInv, AskOK, Expects
<1>7. \A s \in Reader : s # r /\ att[s] # None => att[s] \in Att /\ att[s] # a
  BY <1>a, LinkIs DEF IInv, SlotOK
<1>8. CASE m.sink
  <2>w. PICK w \in Nat : w = (IF fan[a].charge > Weight(c) THEN fan[a].charge - Weight(c) ELSE 0)
    <3>1. Weight(c) \in Nat /\ fan[a].charge \in Nat
      BY <1>0, <1>c, ChunkType DEF Slot
    <3> QED
      BY <3>1
  <2>t. PICK t \in Seq(Chunk) : t = Tail(q)
    BY <1>q, TailIs
  <2>1. /\ fan' = [Received(a) EXCEPT ![a].charge = Consumed(a, Weight(c))[a].charge]
        /\ commands' = commands /\ att' = att
    BY <1>a, <1>q, <1>c, <1>m, <1>8 DEF Forward
  <2>2. fan' = [fan EXCEPT ![a] = [fan[a] EXCEPT !.queue = t, !.charge = w]]
    <3>1. Received(a) = [fan EXCEPT ![a] = [fan[a] EXCEPT !.queue = t]]
      BY <1>0, <1>q, <2>t DEF Received
    <3>2. Consumed(a, Weight(c))[a].charge = w
      BY <1>0, <2>w DEF Consumed, Slot
    <3> QED
      BY <1>0, <2>1, <3>1, <3>2
  <2>3. /\ fan'[a] \in Slot /\ fan'[a].queue = t /\ fan'[a].charge = w /\ fan'[a].live = fan[a].live
        /\ fan'[a].open = fan[a].open /\ (\A b \in Att : b # a => fan'[b] = fan[b]) /\ fan' \in [Att -> Slot]
    <3>1. [fan[a] EXCEPT !.queue = t, !.charge = w] \in Slot
      BY <1>0 DEF Slot
    <3> QED
      BY <1>0, <2>2, <3>1 DEF Slot
  <2>4. SoundOK'
    <3>1. TakesOff(fan'[a], fan[a])
      BY <1>q, <1>c, <2>w, <2>t, <2>3 DEF TakesOff
    <3>2. Sound(fan'[a])
      BY <1>0, <3>1, TakenOffIsSound
    <3> QED
      BY <2>3, <3>2 DEF IInv, SoundOK
  <2>5. SlotOK'
    BY <1>0, <2>1 DEF IInv, SlotOK
  <2>6. AskOK'
    <3>1. Len(commands') \in Nat /\ \A k \in 1..Len(commands') : k + 0 = k /\ k \in 1..Len(commands)
      BY <1>0, <2>1
    <3>2. \A k \in 1..Len(commands') : commands'[k].op = "detach" => commands'[k].id \in Att
      BY <2>1 DEF IInv, AskOK
    <3>3. \A k \in 1..Len(commands') : \A s \in Reader : Asks(commands', k, s) => Stays(k, 0, s)
      BY <1>4, <1>6, <2>1, <3>1 DEF Stays
    <3> QED
      BY <1>0, <3>1, <3>2, <3>3, AskStep
  <2>7. TypeOK' /\ FeedsOK'
    BY <1>0, <1>4, <2>1, <2>3 DEF IInv, TypeOK, EngineTypeOK, FeedsOK, Forward, Head0
  <2>8. \A s \in Reader : s # r => LinkOK(s)' /\ ViewOK(s)'
    <3>1. \A s \in Reader : s # r /\ att[s] # None => fan'[att[s]] = fan[att[s]]
      BY <1>7, <2>3
    <3> QED
      BY <1>0, <1>4, <2>1, <3>1, OthersKept
  <2>9. LinkOK(r)'
    BY <1>3, <1>4, <1>8 DEF LinkOK
  <2>10. ViewOK(r)'
    <3>1. Flowing(Arrived(r)', fan'[a], p, h) /\ StartsIn(Arrived(r)' \o fan'[a].queue, Starts(r)')
      BY <1>3, <1>5, <1>8, <1>z, <2>t, <2>3 DEF Flowing
    <3>2. StreamOK(r)'
      BY <1>0, <1>3, <1>4, <1>a, <1>p, <2>1, <3>1 DEF StreamOK
    <3> QED
      BY <1>0, <1>3, <1>4, <3>2 DEF ViewOK
  <2>11. LinksOK' /\ ViewsOK'
    BY <2>8, <2>9, <2>10 DEF LinksOK, ViewsOK
  <2> QED
    BY <2>4, <2>5, <2>6, <2>7, <2>11 DEF IInv
<1>9. CASE ~m.sink
  <2>1. Leaves(r) /\ att[r] # None /\ commands' = Append(commands, DetachCommand(att[r]))
    BY <1>0, <1>a, <1>q, <1>c, <1>m, <1>9 DEF Forward, Leaves
  <2>2. /\ fan' \in [Att -> Slot] /\ att' \in [Reader -> Att \cup {None}] /\ att'[r] = None
        /\ SoundOK' /\ SlotOK'
        /\ \A s \in Reader : s # r => att'[s] = att[s] /\ (att[s] # None => fan'[att[s]] = fan[att[s]])
    BY <2>1, LeavesIt
  <2>3. AskOK' /\ commands' \in Seq(Command) /\ Cardinality(FeedAt(commands')) = Cardinality(FeedAt(commands))
    BY <1>0, <1>4, <2>1, <2>2, DetachSent
  <2>4. TypeOK' /\ FeedsOK'
    BY <1>0, <1>4, <2>2, <2>3 DEF IInv, TypeOK, EngineTypeOK, FeedsOK, Forward, Head0
  <2>5. \A s \in Reader : s # r => LinkOK(s)' /\ ViewOK(s)'
    BY <1>0, <1>4, <2>2, OthersKept
  <2>6. LinkOK(r)'
    BY <1>3, <1>4, <2>2 DEF LinkOK
  <2>7. ViewOK(r)'
    <3>1. StreamOK(r)'
      BY <1>0, <1>3, <1>4, <1>5, <1>9, <1>p, <2>2 DEF StreamOK
    <3> QED
      BY <1>0, <1>3, <1>4, <3>1 DEF ViewOK
  <2>8. LinksOK' /\ ViewsOK'
    BY <2>5, <2>6, <2>7 DEF LinksOK, ViewsOK
  <2> QED
    BY <2>2, <2>3, <2>4, <2>8 DEF IInv
<1> QED
  BY <1>8, <1>9

-----------------------------------------------------------------------------
LEMMA InitOK ==
  Init => IInv
<1> SUFFICES ASSUME Init PROVE IInv
  OBVIOUS
<1>0. /\ 0 \in Nat /\ MaxOut \in Nat /\ MaxFeed \in Nat /\ MaxDrop \in Nat /\ Limit \in Nat /\ SnapSize \in Nat
      /\ None \notin Nat /\ None \notin Att
  BY AttIs, SessionEngineAssumption, HostViewAssumption
<1>e. PICK e \in Seq(Chunk) : e = << >> /\ Len(e) = 0
  <2>1. << >> \in Seq(Chunk) /\ Len(<< >>) = 0
    OBVIOUS
  <2> QED
    BY <2>1
<1>1. out = << >> /\ commands = << >> /\ Len(out) = 0 /\ Len(commands) = 0 /\ Head0 = 0 /\ drops = 0
  BY DEF Init, EngineInit, Head0
<1>2. /\ NoSlot \in Slot /\ NoSlot.queue = e /\ ~NoSlot.live /\ ~NoSlot.open /\ NoSlot.charge = 0
      /\ Len(NoSlot.queue) = 0
  BY <1>e DEF NoSlot, Slot
<1>3. (\A a \in Att : fan[a] = NoSlot) /\ fan \in [Att -> Slot]
  BY <1>2 DEF Init, EngineInit
<1>4. /\ NewLink \in LinkState /\ NewLink.items = e /\ NewLink.pending = e /\ NewLink.charge = 0 /\ NewLink.next = 0
      /\ NewLink.state = "new" /\ NewLink.view.pos = 0 /\ NewLink.view.fault = "none"
  BY <1>0, <1>e DEF NewLink, LinkState, EmptyView, View
<1>5. (\A r \in Reader : link[r] = NewLink /\ att[r] = None) /\ link \in [Reader -> LinkState]
      /\ att \in [Reader -> Att \cup {None}]
  BY <1>4 DEF Init, EngineInit
<1>6. EngineTypeOK
  <2>1. out \in Seq({"text", "switch"}) /\ commands \in Seq(Command)
    <3>1. << >> \in Seq({"text", "switch"}) /\ << >> \in Seq(Command)
      OBVIOUS
    <3> QED
      BY <1>1, <3>1
  <2>2. /\ phase \in {"drain", "commands"} /\ wasAlt \in BOOLEAN /\ saw \subseteq Att /\ first \in BOOLEAN
        /\ feeds \in 0..MaxFeed
    <3>1. phase = "drain" /\ wasAlt = FALSE /\ saw = {} /\ first = FALSE /\ feeds = 0
      BY DEF Init, EngineInit
    <3>2. {} \subseteq Att
      OBVIOUS
    <3>3. saw \subseteq Att
      BY <3>1, <3>2
    <3>4. feeds \in 0..MaxFeed
      BY <1>0, <3>1
    <3> QED
      BY <3>1, <3>3, <3>4
  <2> QED
    BY <1>0, <1>1, <1>3, <1>5, <2>1, <2>2 DEF EngineTypeOK
<1>7. TypeOK
  BY <1>0, <1>1, <1>5, <1>6 DEF TypeOK
<1>8. FeedsOK
  <2>1. FeedAt(commands) = {}
    BY <1>1 DEF FeedAt
  <2>2. Cardinality(FeedAt(commands)) = 0
    BY <2>1, FS_EmptySet
  <2> QED
    BY <1>0, <1>1, <2>2 DEF FeedsOK, Init, EngineInit
<1>9. AskOK
  BY <1>1 DEF AskOK
<1>10. SlotOK
  BY <1>5 DEF SlotOK
<1>11. SoundOK
  <2>1. LastLag(NoSlot) /\ OneWeighs(NoSlot.queue)
    BY <1>2 DEF LastLag, OneWeighs
  <2>2. Sound(NoSlot)
    BY <1>2, <2>1 DEF Sound, Bounded
  <2> QED
    BY <1>3, <2>2 DEF SoundOK
<1>12. Flows(e, 0, 0) /\ Completed(e) /\ \A P : StartsIn(e, P)
  <2>1. 0 <= 0
    OBVIOUS
  <2> QED
    BY <1>0, <1>e, <2>1, NoneFlows
<1>13. LinksOK
  BY <1>0, <1>4, <1>5, <1>e, <1>12 DEF LinksOK, LinkOK
<1>14. ViewsOK
  <2>1. ASSUME NEW r \in Reader PROVE ViewOK(r)
    <3>1. Arrived(r) = e
      <4>1. e \o e = e
        BY CatBoth, <1>e
      <4> QED
        BY <1>4, <1>5, <4>1 DEF Arrived
    <3>3. StreamOK(r)
      BY <1>1, <1>4, <1>5, <1>12, <3>1 DEF StreamOK
    <3> QED
      BY <1>0, <1>1, <1>4, <1>5, <3>3 DEF ViewOK
  <2> QED
    BY <2>1 DEF ViewsOK
<1> QED
  BY <1>7, <1>8, <1>9, <1>10, <1>11, <1>13, <1>14 DEF IInv

LEMMA StepKeeps ==
  ASSUME SnapSize <= Limit, IInv, [Next]_hostVars
  PROVE  IInv'
<1>1. CASE Next
  <2>1. CASE (\E k \in {"text", "switch"} : Drain(k)) /\ UNCHANGED <<link, drops>>
    BY <2>1, DrainKeeps
  <2>2. CASE OwnerStep /\ UNCHANGED <<link, drops>>
    <3>1. CASE EndDrain
      BY <2>2, <3>1, EndDrainKeeps
    <3>2. CASE ServeAttach
      BY <2>2, <3>2, ServeAttachKeeps
    <3>3. CASE ServeDetach
      BY <2>2, <3>3, ServeDetachKeeps
    <3>4. CASE ServeFeed
      BY <2>2, <3>4, ServeFeedKeeps
    <3>5. CASE EndTick
      BY <2>2, <3>5, EndTickKeeps
    <3> QED
      BY <2>2, <3>1, <3>2, <3>3, <3>4, <3>5 DEF OwnerStep
  <2>3. CASE AskFeed /\ UNCHANGED <<link, drops>>
    BY <2>3, AskFeedKeeps
  <2>4. ASSUME NEW r \in Reader, ReaderStep(r) \/ AttachTimesOut(r) \/ Drop(r) PROVE IInv'
    <3>1. CASE Open(r)
      BY <3>1, OpenKeeps
    <3>2. CASE Forward(r)
      BY <3>2, ForwardKeeps
    <3>3. CASE ForwarderEnds(r)
      BY <3>3, ForwarderEndsKeeps
    <3>4. CASE Take(r)
      BY <3>4, TakeKeeps
    <3>5. CASE AttachTimesOut(r)
      BY <3>5, AttachTimesOutKeeps
    <3>6. CASE Drop(r)
      BY <3>6, DropKeeps
    <3> QED
      BY <2>4, <3>1, <3>2, <3>3, <3>4, <3>5, <3>6 DEF ReaderStep
  <2> QED
    BY <1>1, <2>1, <2>2, <2>3, <2>4 DEF Next
<1>2. CASE UNCHANGED hostVars
  <2>1. SlotOK' /\ SoundOK' /\ LinksOK' /\ ViewsOK'
    BY <1>2, NothingGoes DEF hostVars, engineVars
  <2>2. AskOK'
    BY <1>2, AskSame DEF hostVars, engineVars
  <2>3. TypeOK' /\ FeedsOK'
    BY <1>2 DEF hostVars, engineVars, IInv, TypeOK, EngineTypeOK, FeedsOK, Head0
  <2> QED
    BY <2>1, <2>2, <2>3 DEF IInv
<1> QED
  BY <1>1, <1>2

(* IInv is an inductive invariant of a program whose snapshots fit the queue:
   what the client has received for a view and what is queued for it behind
   that go on where the view is, and what it waits for it asked for once. *)
THEOREM IInvHolds ==
  ASSUME SnapSize <= Limit
  PROVE  Spec => []IInv
<1>1. IInv /\ [Next]_hostVars => IInv'
  BY StepKeeps
<1> QED
  BY <1>1, InitOK, PTL DEF Spec

(* Offsets stay within the output and queues hold chunks (owner.rs, mux.rs,
   forward_host). *)
THEOREM TypeCorrect ==
  ASSUME SnapSize <= Limit
  PROVE  Spec => []TypeOK
<1>1. IInv => TypeOK
  BY DEF IInv
<1> QED
  BY <1>1, IInvHolds, PTL

(* No byte of output falls between two chunks a view shows, whatever lags on
   either side of the connection, and however often it drops and the view
   resumes at next_offset. *)
THEOREM NothingIsMissedHolds ==
  ASSUME SnapSize <= Limit
  PROVE  Spec => []NothingIsMissed
<1>1. IInv => NothingIsMissed
  BY DEF IInv, ViewsOK, ViewOK, NothingIsMissed
<1> QED
  BY <1>1, IInvHolds, PTL

(* Until a connection drops no byte is shown twice: the snapshot the client
   holds back and the output behind it meet exactly. *)
THEOREM NothingIsRepeatedHolds ==
  ASSUME SnapSize <= Limit
  PROVE  Spec => []NothingIsRepeated
<1>1. IInv => NothingIsRepeated
  BY DEF IInv, ViewsOK, ViewOK, NothingIsRepeated
<1> QED
  BY <1>1, IInvHolds, PTL

(* A view with an attachment and nothing on its way is where the session is. *)
THEOREM SettledIsCurrentHolds ==
  ASSUME SnapSize <= Limit
  PROVE  Spec => []SettledIsCurrent
<1>1. IInv => SettledIsCurrent
  <2>1. ASSUME IInv, NEW r \in Reader, Settled(r) PROVE link[r].view.pos = Head0
    <3>1. Arrived(r) \o fan[att[r]].queue = << >>
      <4>1. (<< >> \o << >>) \o << >> = << >>
        OBVIOUS
      <4> QED
        BY <2>1, <4>1 DEF Settled, Arrived
    <3>2. Reaches(Arrived(r) \o fan[att[r]].queue, link[r].view.pos, Head0)
      BY <2>1 DEF Settled, IInv, ViewsOK, ViewOK, StreamOK, Flowing
    <3> QED
      BY <3>1, <3>2 DEF Reaches
  <2> QED
    BY <2>1 DEF SettledIsCurrent
<1> QED
  BY <1>1, IInvHolds, PTL

(* Lagged is the last chunk of its attachment (fanout.rs deliver). *)
THEOREM LaggedIsLastHolds ==
  ASSUME SnapSize <= Limit
  PROVE  Spec => []LaggedIsLast
<1>1. IInv => LaggedIsLast
  BY DEF IInv, SoundOK, Sound, LastLag, LaggedIsLast
<1> QED
  BY <1>1, IInvHolds, PTL

(* What an attachment has queued stays within STREAM_QUEUE_BYTES, unless it is
   one chunk that found the queue empty. *)
THEOREM QueueIsBoundedHolds ==
  ASSUME SnapSize <= Limit
  PROVE  Spec => []QueueIsBounded
<1>1. IInv => QueueIsBounded
  BY SoundIsBounded DEF IInv, TypeOK, SoundOK
<1> QED
  BY <1>1, IInvHolds, PTL

(* Every step of a view keeps what OutputView promises: the session's output
   grows byte by byte, and a view only ever moves on, never past it, through
   lagging and dropped connections. *)
THEOREM PromiseSteps ==
  ASSUME SnapSize <= Limit
  PROVE  Spec => Promise!Init /\ [][Promise!Next]_(Promise!outputVars)
<1>1. Init => Promise!Init
  <2>1. ASSUME Init PROVE Promise!Init
    <3>1. Head0 = 0 /\ \A r \in Reader : link[r].view.pos = 0
      BY <2>1 DEF Init, EngineInit, Head0, NewLink, EmptyView
    <3> QED
      BY <3>1 DEF Promise!Init
  <2> QED
    BY <2>1
<1>2. IInv /\ [Next]_hostVars => [Promise!Next]_(Promise!outputVars)
  <2> SUFFICES ASSUME IInv, [Next]_hostVars PROVE [Promise!Next]_(Promise!outputVars)
    OBVIOUS
  <2>1. CASE (\E k \in {"text", "switch"} : Broadcast(k)) /\ link' = link
    <3>1. Head0' = Head0 + 1
      BY <2>1, Appended DEF Broadcast, Head0, IInv, TypeOK, EngineTypeOK
    <3>2. Promise!Make
      BY <2>1, <3>1 DEF Promise!Make
    <3> QED
      BY <3>2 DEF Promise!Next
  <2>2. CASE out' = out /\ \A r \in Reader : link'[r].view.pos = link[r].view.pos
    BY <2>2 DEF Promise!outputVars, Head0
  <2>3. ASSUME NEW r \in Reader, Take(r) PROVE [Promise!Next]_(Promise!outputVars)
    <3>c. PICK c : c = Head(link[r].items)
      OBVIOUS
    <3>g. PICK g : g = IF Placed(c) THEN End(c) ELSE link[r].view.pos
      OBVIOUS
    <3>l. PICK l : l = TakenAs(r, c)
      OBVIOUS
    <3>t. Takes(r, c, g, l)
      BY <2>3, <3>c, <3>g, <3>l, TakenIs DEF Take
    <3>1. /\ c \in Chunk /\ l \in LinkState /\ link[r].view.pos <= g /\ g <= Head0 /\ l.view.pos = g
      BY <3>t DEF Takes
    <3>2. /\ Head0 \in Nat /\ Head0' = Head0 /\ link[r].view.pos \in Nat /\ g \in Nat /\ link \in [Reader -> LinkState]
      <4>1. Placed(c) => End(c) \in Nat
        BY <3>1, ChunkType
      <4> QED
        BY <2>3, <3>g, <4>1, HeadIs, LinkIs DEF IInv, TypeOK, Head0, Take
    <3>3. link'[r].view = l.view /\ \A s \in Reader : s # r => link'[s] = link[s]
      <4>1. Opened(l).view = l.view
        BY <3>1, OpenedIs
      <4>2. link' = [link EXCEPT ![r] = Opened(l)] \/ link' = [link EXCEPT ![r] = l]
        BY <2>3, <3>c, <3>l DEF Take, TakenAs
      <4> QED
        BY <3>2, <4>1, <4>2
    <3>4. CASE g = link[r].view.pos
      <4>1. \A s \in Reader : link'[s].view.pos = link[s].view.pos
        BY <3>1, <3>3, <3>4
      <4> QED
        BY <3>2, <4>1 DEF Promise!outputVars
    <3>5. CASE g # link[r].view.pos
      <4>p. PICK p \in Nat : p = link[r].view.pos
        BY <3>2
      <4>1. p < Head0 /\ g \in (p + 1)..Head0
        BY <3>1, <3>2, <3>5, <4>p
      <4>2. [s \in Reader |-> link'[s].view.pos] = [[s \in Reader |-> link[s].view.pos] EXCEPT ![r] = g]
        BY <3>1, <3>3
      <4>3. Promise!Show(r)
        BY <3>2, <4>p, <4>1, <4>2 DEF Promise!Show
      <4> QED
        BY <4>3 DEF Promise!Next
    <3> QED
      BY <3>4, <3>5
  <2>4. \/ (\E k \in {"text", "switch"} : Broadcast(k)) /\ link' = link
        \/ out' = out /\ \A r \in Reader : link'[r].view.pos = link[r].view.pos
        \/ \E r \in Reader : Take(r)
    <3>1. ASSUME NEW r \in Reader, Open(r) \/ Drop(r)
          PROVE  \A s \in Reader : link'[s].view.pos = link[s].view.pos
      <4>1. link \in [Reader -> LinkState] /\ link[r] \in LinkState
        BY DEF IInv, TypeOK
      <4>m. PICK m : m = Opened(link[r])
        OBVIOUS
      <4>2. m.view = link[r].view /\ m \in LinkState
        BY <4>1, <4>m, OpenedIs
      <4>3. [m EXCEPT !.state = "down", !.sink = FALSE].view = link[r].view
        BY <4>2 DEF LinkState
      <4>4. link' = [link EXCEPT ![r] = m] \/ link' = [link EXCEPT ![r] = [m EXCEPT !.state = "down", !.sink = FALSE]]
        BY <3>1, <4>1, <4>m DEF Open, Drop
      <4> QED
        BY <4>1, <4>2, <4>3, <4>4
    <3>2. ASSUME NEW r \in Reader, Forward(r) PROVE \A s \in Reader : link'[s].view.pos = link[s].view.pos
      <4>1. link \in [Reader -> LinkState] /\ link[r] \in LinkState
        BY DEF IInv, TypeOK
      <4>m. PICK m : m = Dispatched(link[r], Head(fan[att[r]].queue)) /\ link' = [link EXCEPT ![r] = m]
        BY <3>2 DEF Forward
      <4>2. m.view = link[r].view
        BY <4>1, <4>m DEF Dispatched, Released, Overflowed, LinkState
      <4> QED
        BY <4>1, <4>m, <4>2
    <3> QED
      BY <3>1, <3>2 DEF Next, OwnerStep, Drain, EndDrain, ServeAttach, ServeDetach, ServeFeed, EndTick, AskFeed,
           ReaderStep, Open, Drop, Forward, ForwarderEnds, AttachTimesOut, hostVars, engineVars
  <2> QED
    BY <2>1, <2>2, <2>3, <2>4
<1> QED
  BY <1>1, <1>2, IInvHolds, PTL DEF Spec

-----------------------------------------------------------------------------
(* The screen a view is left with. *)

(* View v, shown what is in q, ends with the primary screen: the last snapshot
   in q is of the primary screen, or there is none and v has it already. *)
IsLast(q, k) == q[k].type = "Snapshot" /\ \A j \in 1..Len(q) : j > k => q[j].type # "Snapshot"
Restored(o, q, v) ==
  /\ \A k \in 1..Len(q) : IsLast(q, k) => ~AltAfter(o, q[k].at)
  /\ (\A k \in 1..Len(q) : q[k].type # "Snapshot") => v.primary

(* The owner owes a snapshot to whoever attached on the alternate screen. *)
ScreenOK ==
  /\ phase = "commands" => wasAlt = Alternate
  /\ ~wasAlt => saw = {}
OwedOK(r) ==
  drops = 0 /\ att[r] # None /\ fan[att[r]].live =>
    \/ att[r] \in saw
    \/ Restored(out, Arrived(r) \o fan[att[r]].queue, link[r].view)
PrimaryOK == ScreenOK /\ \A r \in Reader : OwedOK(r)

LEMMA AltSame ==
  ASSUME NEW o \in Seq({"text", "switch"}), NEW k \in {"text", "switch"}
  PROVE  /\ \A n \in Nat : n <= Len(o) => AltAfter(Append(o, k), n) = AltAfter(o, n)
         /\ k = "text" => AltAfter(Append(o, k), Len(o) + 1) = AltAfter(o, Len(o))
<1>1. /\ Len(o) \in Nat /\ (\A i \in 1..Len(o) : Append(o, k)[i] = o[i]) /\ Append(o, k)[Len(o) + 1] = k
  BY Appended
<1>2. ASSUME NEW n \in Nat, n <= Len(o) PROVE AltAfter(Append(o, k), n) = AltAfter(o, n)
  <2>1. \A i \in 1..n : i \in 1..Len(o)
    BY <1>1, <1>2
  <2>2. \A i \in 1..n : Append(o, k)[i] = o[i]
    BY <1>1, <2>1
  <2>3. { i \in 1..n : Append(o, k)[i] = "switch" } = { i \in 1..n : o[i] = "switch" }
    BY <2>2
  <2> QED
    BY <2>3 DEF AltAfter
<1>3. ASSUME k = "text" PROVE AltAfter(Append(o, k), Len(o) + 1) = AltAfter(o, Len(o))
  <2>m. PICK m \in Nat : m = Len(o) + 1
    BY <1>1
  <2>1. \A i : i \in 1..m <=> i \in 1..Len(o) \/ i = m
    BY <1>1, <2>m
  <2>2. Append(o, k)[m] # "switch"
    BY <1>1, <1>3, <2>m
  <2>3. { i \in 1..m : Append(o, k)[i] = "switch" } = { i \in 1..Len(o) : o[i] = "switch" }
    BY <1>1, <2>1, <2>2
  <2> QED
    BY <2>3, <2>m DEF AltAfter
<1> QED
  BY <1>2, <1>3

(* A chunk that is no snapshot behind the others, while the output grows. *)
LEMMA RestoredAppend ==
  ASSUME NEW q \in Seq(Chunk), NEW c \in Chunk, c.type # "Snapshot", NEW o, NEW w, NEW v, Restored(o, q, v),
         \A k \in 1..Len(q) : q[k].type = "Snapshot" => AltAfter(w, q[k].at) = AltAfter(o, q[k].at)
  PROVE  Restored(w, Append(q, c), v)
<1>t. PICK t : t = Append(q, c)
  OBVIOUS
<1>1. /\ Len(q) \in Nat /\ t[Len(q) + 1] = c /\ (\A k \in 1..Len(q) : t[k] = q[k])
      /\ \A k : k \in 1..Len(t) <=> k \in 1..Len(q) \/ k = Len(q) + 1
  BY <1>t, Appended
<1>2. ASSUME NEW k \in 1..Len(t), IsLast(t, k) PROVE ~AltAfter(w, t[k].at)
  <2>1. k \in 1..Len(q) /\ t[k] = q[k] /\ q[k].type = "Snapshot"
    BY <1>1, <1>2 DEF IsLast
  <2>2. ASSUME NEW j \in 1..Len(q), j > k PROVE q[j].type # "Snapshot"
    BY <1>1, <1>2, <2>2 DEF IsLast
  <2>3. ~AltAfter(o, q[k].at)
    BY <2>1, <2>2 DEF IsLast, Restored
  <2> QED
    BY <2>1, <2>3
<1>3. ASSUME \A k \in 1..Len(t) : t[k].type # "Snapshot" PROVE v.primary
  BY <1>1, <1>3 DEF Restored
<1> QED
  BY <1>2, <1>3, <1>t DEF Restored

(* A snapshot of the primary screen behind the others. *)
LEMMA RestoredBySnapshot ==
  ASSUME NEW q \in Seq(Chunk), NEW c \in Chunk, c.type = "Snapshot", NEW o, NEW v, ~AltAfter(o, c.at)
  PROVE  Restored(o, Append(q, c), v)
<1>t. PICK t : t = Append(q, c)
  OBVIOUS
<1>l. PICK l \in Nat : l = Len(q) + 1
  OBVIOUS
<1>1. t[l] = c /\ l \in 1..Len(t) /\ \A k \in 1..Len(t) : k # l => l > k
  BY <1>t, <1>l, Appended
<1>2. \A k \in 1..Len(t) : IsLast(t, k) => k = l
  BY <1>1 DEF IsLast
<1> QED
  BY <1>1, <1>2, <1>t DEF Restored

(* The view takes the head. *)
LEMMA RestoredTail ==
  ASSUME NEW q \in Seq(Chunk), q # << >>, NEW o, NEW v, NEW w, Restored(o, q, v),
         q[1].type = "Snapshot" => (w.primary <=> ~AltAfter(o, q[1].at)),
         q[1].type # "Snapshot" => w.primary = v.primary
  PROVE  Restored(o, Tail(q), w)
<1>t. PICK t : t = Tail(q)
  OBVIOUS
<1>1. /\ Len(q) \in Nat /\ Len(t) \in Nat /\ Len(t) + 1 = Len(q) /\ 1 \in 1..Len(q)
      /\ \A k \in 1..Len(t) : t[k] = q[k + 1] /\ k + 1 \in 1..Len(q)
  BY <1>t, TailIs
<1>2. \A j \in 1..Len(q) : j # 1 => j - 1 \in 1..Len(t) /\ q[j] = t[j - 1]
  <2>1. ASSUME NEW j \in 1..Len(q), j # 1 PROVE j - 1 \in 1..Len(t) /\ q[j] = t[j - 1]
    <3>1. j - 1 \in 1..Len(t) /\ (j - 1) + 1 = j
      BY <1>1, <2>1
    <3> QED
      BY <1>1, <3>1
  <2> QED
    BY <2>1
<1>3. ASSUME NEW k \in 1..Len(t), IsLast(t, k) PROVE ~AltAfter(o, t[k].at)
  <2>1. k + 1 \in 1..Len(q) /\ t[k] = q[k + 1] /\ q[k + 1].type = "Snapshot"
    BY <1>1, <1>3 DEF IsLast
  <2>2. ASSUME NEW j \in 1..Len(q), j > k + 1 PROVE q[j].type # "Snapshot"
    <3>1. j - 1 \in 1..Len(t) /\ q[j] = t[j - 1] /\ j - 1 > k
      BY <1>2, <2>2
    <3> QED
      BY <1>3, <3>1 DEF IsLast
  <2>3. IsLast(q, k + 1)
    BY <2>1, <2>2 DEF IsLast
  <2> QED
    BY <2>1, <2>3 DEF Restored
<1>4. ASSUME \A k \in 1..Len(t) : t[k].type # "Snapshot" PROVE w.primary
  <2>1. \A j \in 1..Len(q) : j # 1 => q[j].type # "Snapshot"
    BY <1>2, <1>4
  <2>2. CASE q[1].type = "Snapshot"
    <3>1. \A j \in 1..Len(q) : j > 1 => q[j].type # "Snapshot"
      BY <2>1
    <3>2. IsLast(q, 1)
      BY <2>2, <3>1 DEF IsLast
    <3>3. ~AltAfter(o, q[1].at)
      BY <1>1, <3>2 DEF Restored
    <3> QED
      BY <2>2, <3>3
  <2>3. CASE q[1].type # "Snapshot"
    <3>1. \A j \in 1..Len(q) : q[j].type # "Snapshot"
      BY <2>1, <2>3
    <3>2. v.primary
      BY <3>1 DEF Restored
    <3> QED
      BY <2>3, <3>2
  <2> QED
    BY <2>2, <2>3
<1> QED
  BY <1>3, <1>4, <1>t DEF Restored

(* What a step leaves as it is. *)
LEMMA OwedSame ==
  ASSUME IInv, NEW r \in Reader, OwedOK(r), out' = out, drops' = drops \/ drops' > 0,
         link'[r].items = link[r].items, link'[r].pending = link[r].pending, link'[r].view = link[r].view,
         att'[r] = att[r], att[r] # None => fan'[att[r]] = fan[att[r]] /\ (att[r] \in saw => att[r] \in saw')
  PROVE  OwedOK(r)'
<1>1. drops' = 0 => drops = 0
  BY LinkIs DEF IInv
<1>2. Arrived(r)' = Arrived(r)
  BY DEF Arrived
<1> QED
  BY <1>1, <1>2 DEF OwedOK

(* The reader's step leaves its own view alone, or with what is owed to it. *)
LEMMA ReaderOwes ==
  ASSUME IInv, PrimaryOK, NEW r \in Reader, OwedOK(r)', out' = out, phase' = phase, wasAlt' = wasAlt, saw' = saw,
         drops' = drops \/ drops' > 0, fan \in [Att -> Slot],
         \A s \in Reader : s # r => /\ link'[s] = link[s] /\ att'[s] = att[s]
                                    /\ att[s] # None => fan'[att[s]] = fan[att[s]]
  PROVE  PrimaryOK'
<1>1. ScreenOK'
  BY DEF PrimaryOK, ScreenOK, Alternate, Head0
<1>2. ASSUME NEW s \in Reader, s # r PROVE OwedOK(s)'
  BY <1>2, OwedSame DEF PrimaryOK
<1> QED
  BY <1>1, <1>2 DEF PrimaryOK

(* One more byte. *)
LEMMA BroadcastOwes ==
  ASSUME IInv, PrimaryOK, NEW k \in {"text", "switch"}, Broadcast(k), Head0 + 1 <= MaxOut,
         link' = link, att' = att, drops' = drops, saw' = saw, NEW r \in Reader
  PROVE  OwedOK(r)'
<1> SUFFICES ASSUME drops = 0, att[r] # None, fan'[att[r]].live, att[r] \notin saw
             PROVE  Restored(out', Arrived(r) \o fan'[att[r]].queue, link[r].view)
  BY DEF OwedOK, Arrived
<1>a. PICK a \in Att : a = att[r]
  BY LinkIs DEF IInv
<1>0. /\ fan[a] \in Slot /\ Arrived(r) \in Seq(Chunk) /\ Head0 \in Nat /\ out \in Seq({"text", "switch"})
      /\ fan[a].queue \in Seq(Chunk) /\ Head0 = Len(out) /\ 1 \in Nat
  BY LinkIs, HeadIs DEF IInv, TypeOK, EngineTypeOK, Slot, Head0
<1>c. PICK c \in Chunk : c = Output(Head0, 1) /\ c.type # "Snapshot"
  BY <1>0, ChunksAre
<1>1. fan'[a] = Deliver(fan[a], c) /\ out' = Append(out, k)
  BY <1>c DEF Broadcast
<1>2. fan[a].live /\ fan'[a].queue = Append(fan[a].queue, c)
  BY <1>0, <1>1, <1>a, DeliverIs
<1>q. PICK q \in Seq(Chunk) : q = Arrived(r) \o fan[a].queue
  BY <1>0, CatType
<1>3. Arrived(r) \o fan'[a].queue = Append(q, c)
  <2>1. PICK x \in Seq(Chunk), y \in Seq(Chunk) : x = Arrived(r) /\ y = fan[a].queue
    BY <1>0
  <2>2. x \o Append(y, c) = Append(x \o y, c)
    BY CatAppend
  <2> QED
    BY <1>2, <1>q, <2>1, <2>2
<1>4. Restored(out, q, link[r].view)
  BY <1>2, <1>a, <1>q DEF PrimaryOK, OwedOK
<1>5. ASSUME NEW j \in 1..Len(q), q[j].type = "Snapshot" PROVE AltAfter(out', q[j].at) = AltAfter(out, q[j].at)
  <2>1. Flows(q, link[r].view.pos, Head0)
    BY <1>a, <1>q DEF IInv, ViewsOK, ViewOK, StreamOK, Flowing
  <2>2. q[j].at <= Head0
    BY <1>5, <2>1 DEF Flows, Within, Placed, End
  <2>3. q[j].at \in Nat
    <3>1. q[j] \in Chunk
      OBVIOUS
    <3> QED
      BY <3>1, ChunkType
  <2> QED
    BY <1>0, <1>1, <2>2, <2>3, AltSame
<1>6. Restored(out', Append(q, c), link[r].view)
  BY <1>4, <1>5, <1>c, RestoredAppend
<1> QED
  BY <1>3, <1>6, <1>a

LEMMA DrainOwes ==
  ASSUME IInv, PrimaryOK, NEW k \in {"text", "switch"}, Drain(k), UNCHANGED <<link, drops>>
  PROVE  PrimaryOK'
<1>1. Head0 + 1 <= MaxOut
  <2>1. Head0 \in Nat /\ feeds \in Nat /\ MaxOut \in Nat /\ Head0 + feeds < MaxOut
    BY HeadIs, HostLimits, SessionEngineAssumption DEF IInv, TypeOK, EngineTypeOK, Drain
  <2> QED
    BY <2>1
<1>2. \A r \in Reader : OwedOK(r)'
  BY <1>1, BroadcastOwes DEF Drain
<1>3. ScreenOK'
  BY DEF PrimaryOK, ScreenOK, Drain
<1> QED
  BY <1>2, <1>3 DEF PrimaryOK

LEMMA ServeFeedOwes ==
  ASSUME IInv, PrimaryOK, ServeFeed, UNCHANGED <<link, drops>>
  PROVE  PrimaryOK'
<1>0. Head0 \in Nat /\ Head0 + 1 <= MaxOut /\ out \in Seq({"text", "switch"}) /\ Head0 = Len(out)
  <2>1. Head0' = Head0 + 1 /\ Head0' <= MaxOut /\ Head0 \in Nat /\ out \in Seq({"text", "switch"})
    <3>1. EngineTypeOK' /\ out' = Append(out, "text") /\ out \in Seq({"text", "switch"}) /\ Head0 \in Nat
      BY ServeFeedStep, HeadIs DEF IInv, TypeOK, EngineTypeOK, ServeFeed, Broadcast
    <3>2. Head0' <= MaxOut
      BY <3>1 DEF EngineTypeOK
    <3>3. Len(Append(out, "text")) = Len(out) + 1
      BY <3>1
    <3> QED
      BY <3>1, <3>2, <3>3 DEF Head0
  <2> QED
    BY <2>1 DEF Head0
<1>1. "text" \in {"text", "switch"} /\ Broadcast("text")
  BY DEF ServeFeed
<1>2. \A r \in Reader : OwedOK(r)'
  BY <1>0, <1>1, BroadcastOwes DEF ServeFeed
<1>3. Alternate' = Alternate
  <2>1. out' = Append(out, "text") /\ Head0' = Len(out) + 1
    BY <1>0, <1>1, Appended DEF Broadcast, Head0
  <2>2. AltAfter(Append(out, "text"), Len(out) + 1) = AltAfter(out, Len(out))
    BY <1>0, <1>1, AltSame
  <2> QED
    BY <1>0, <2>1, <2>2 DEF Alternate
<1>4. ScreenOK'
  BY <1>3 DEF PrimaryOK, ScreenOK, ServeFeed
<1> QED
  BY <1>2, <1>4 DEF PrimaryOK

(* A snapshot of the primary screen that finds the attachment alive. *)
LEMMA SnapshotRestores ==
  ASSUME SnapSize <= Limit, IInv, ~Alternate, NEW x \in Seq(Chunk), NEW t \in Slot, NEW s, s = DeliverSnapshot(t), s.live,
         NEW v
  PROVE  Restored(out, x \o s.queue, v)
<1>0. Head0 \in Nat /\ Head0 <= MaxOut /\ 0 \in Nat /\ Head0 + 0 <= MaxOut
  BY HeadIs, HostLimits DEF IInv, TypeOK
<1>c. PICK c \in Chunk : c = Output(Head0, 0) /\ c.type # "Snapshot"
  BY <1>0, ChunksAre
<1>n. PICK n \in Chunk : n = Snapshot(Head0) /\ n.type = "Snapshot" /\ n.at = Head0
  BY <1>0, ChunksAre DEF Snapshot
<1>y. PICK y \in Seq(Chunk) : y = t.queue
  BY DEF Slot
<1>2. s.queue = Append(Append(y, n), c)
  <2>1. s.queue = Append(Append(t.queue, Snapshot(Head0)), Output(Head0, 0))
    BY <1>0, DeliverSnapshotIs
  <2> QED
    BY <1>c, <1>n, <1>y, <2>1
<1>q. PICK q \in Seq(Chunk) : q = x \o y
  BY CatType
<1>3. x \o s.queue = Append(Append(q, n), c) /\ Append(q, n) \in Seq(Chunk)
  <2>1. Append(y, n) \in Seq(Chunk) /\ Append(q, n) \in Seq(Chunk)
    BY Appended
  <2>2. x \o Append(y, n) = Append(q, n)
    BY <1>q, CatAppend
  <2>3. x \o Append(Append(y, n), c) = Append(x \o Append(y, n), c)
    BY <2>1, CatAppend
  <2> QED
    BY <1>2, <2>1, <2>2, <2>3
<1>4. Restored(out, Append(q, n), v)
  <2>1. ~AltAfter(out, n.at)
    BY <1>n DEF Alternate
  <2> QED
    BY <1>n, <2>1, RestoredBySnapshot
<1>5. Restored(out, Append(Append(q, n), c), v)
  BY <1>3, <1>4, <1>c, RestoredAppend
<1> QED
  BY <1>3, <1>5

(* Resync and a snapshot for whoever attached on the alternate screen. *)
LEMMA ResyncedOwes ==
  ASSUME SnapSize <= Limit, IInv, ~Alternate, NEW x \in Seq(Chunk), NEW slot \in Slot, NEW s, s = Resynced(slot), s.live, NEW v
  PROVE  Restored(out, x \o s.queue, v)
<1>0. Resync \in Chunk
  BY SessionEngineAssumption DEF Resync, Chunk
<1>t. PICK t \in Slot : t = Deliver(slot, Resync)
  BY <1>0, DeliverIs
<1>1. s = DeliverSnapshot(t)
  BY <1>t DEF Resynced
<1> QED
  BY <1>1, SnapshotRestores

LEMMA EndDrainOwes ==
  ASSUME SnapSize <= Limit, IInv, PrimaryOK, EndDrain, UNCHANGED <<link, drops>>
  PROVE  PrimaryOK'
<1>0. out' = out /\ att' = att /\ link' = link /\ drops' = drops /\ Alternate' = Alternate /\ wasAlt' = Alternate
  BY DEF EndDrain, Alternate, Head0
<1>1. CASE wasAlt /\ ~Alternate
  <2>1. fan' = [a \in Att |-> IF a \in saw THEN Resynced(fan[a]) ELSE fan[a]] /\ saw' = {}
    BY <1>1 DEF EndDrain
  <2>2. ASSUME NEW r \in Reader, drops = 0, att[r] # None, fan'[att[r]].live
        PROVE  Restored(out, Arrived(r) \o fan'[att[r]].queue, link[r].view)
    <3>a. PICK a \in Att : a = att[r] /\ fan[a] \in Slot /\ Arrived(r) \in Seq(Chunk)
      BY <2>2, LinkIs DEF IInv
    <3>1. CASE a \in saw
      <4>1. fan'[a] = Resynced(fan[a])
        BY <2>1, <3>1
      <4> QED
        BY <1>1, <2>2, <3>a, <4>1, ResyncedOwes
    <3>2. CASE a \notin saw
      <4>1. fan'[a] = fan[a]
        BY <2>1, <3>2
      <4> QED
        BY <2>2, <3>2, <3>a, <4>1 DEF PrimaryOK, OwedOK
    <3> QED
      BY <3>1, <3>2
  <2>3. ASSUME NEW r \in Reader PROVE OwedOK(r)'
    <3>1. Arrived(r)' = Arrived(r)
      BY <1>0 DEF Arrived
    <3> QED
      BY <1>0, <2>2, <3>1 DEF OwedOK
  <2>4. ScreenOK'
    BY <1>0, <2>1 DEF ScreenOK
  <2> QED
    BY <2>3, <2>4 DEF PrimaryOK
<1>2. CASE ~(wasAlt /\ ~Alternate)
  <2>1. fan' = fan /\ saw' = saw
    BY <1>2 DEF EndDrain
  <2>2. ASSUME NEW r \in Reader PROVE OwedOK(r)'
    BY <1>0, <2>1, OwedSame DEF PrimaryOK
  <2>3. ScreenOK'
    BY <1>0, <1>2, <2>1 DEF PrimaryOK, ScreenOK
  <2> QED
    BY <2>2, <2>3 DEF PrimaryOK
<1> QED
  BY <1>1, <1>2


(* Without a connection that dropped whoever attaches gets a snapshot, and is
   owed another one if that shows the alternate screen. *)
LEMMA ServeAttachOwes ==
  ASSUME SnapSize <= Limit, IInv, PrimaryOK, ServeAttach, UNCHANGED <<link, drops>>
  PROVE  PrimaryOK'
<1>1. PICK a \in FreshIds :
        /\ fan' = [fan EXCEPT ![a] = [Started([NoSlot EXCEPT !.live = TRUE, !.open = TRUE], Head(commands).from)
                                        EXCEPT !.open = (Head(commands).who # None)]]
        /\ att' = IF Head(commands).who = None THEN att ELSE [att EXCEPT ![Head(commands).who] = a]
        /\ saw' = IF Alternate THEN saw \cup {a} ELSE saw \ {a}
  BY DEF ServeAttach
<1>2. a \in Att /\ \A r \in Reader : att[r] # a
  BY <1>1, AttIs DEF FreshIds, Unnamed, IInv, SlotOK
<1>3. /\ commands # << >> /\ 1 \in 1..Len(commands) /\ commands[1].op = "attach"
      /\ commands[1] \in Command /\ Head(commands) = commands[1]
      /\ out' = out /\ phase = "commands" /\ phase' = phase /\ wasAlt' = wasAlt /\ link' = link /\ drops' = drops
      /\ fan \in [Att -> Slot] /\ att \in [Reader -> Att \cup {None}]
  BY TailIs DEF ServeAttach, IInv, TypeOK, EngineTypeOK
<1>w. PICK who \in Reader \cup {None} : who = commands[1].who
  BY <1>3 DEF Command
<1>4. \A r \in Reader : att'[r] = IF r = who THEN a ELSE att[r]
  BY <1>1, <1>3, <1>w, SessionEngineAssumption
<1>5. \A b \in Att : b # a => fan'[b] = fan[b]
  BY <1>1, <1>3
<1>6. ScreenOK'
  <2>1. wasAlt = Alternate /\ Alternate' = Alternate
    BY <1>3 DEF PrimaryOK, ScreenOK, Alternate, Head0
  <2>2. ~wasAlt => saw' = {}
    <3>1. ASSUME ~wasAlt PROVE saw' = {}
      <4>1. saw = {} /\ saw' = saw \ {a}
        BY <1>1, <2>1, <3>1 DEF PrimaryOK, ScreenOK
      <4> QED
        BY <4>1
    <3> QED
      BY <3>1
  <2> QED
    BY <1>3, <2>1, <2>2 DEF ScreenOK
<1>7. ASSUME NEW r \in Reader, r # who PROVE OwedOK(r)'
  <2>1. att'[r] = att[r] /\ (att[r] # None => fan'[att[r]] = fan[att[r]])
    BY <1>2, <1>4, <1>5, <1>7, LinkIs DEF IInv
  <2>2. att[r] \in saw => att[r] \in saw'
    BY <1>1, <1>2
  <2> QED
    BY <1>3, <1>7, <2>1, <2>2, OwedSame DEF PrimaryOK
<1>8. ASSUME who \in Reader PROVE OwedOK(who)'
  <2>1. att'[who] = a /\ Arrived(who)' = Arrived(who) /\ Arrived(who) \in Seq(Chunk)
    BY <1>3, <1>4, <1>8, LinkIs DEF IInv, Arrived
  <2>2. CASE Alternate
    <3>1. a \in saw'
      BY <1>1, <2>2
    <3> QED
      BY <2>1, <3>1 DEF OwedOK
  <2>3. CASE ~Alternate
    <3> SUFFICES ASSUME drops = 0, fan'[a].live PROVE Restored(out, Arrived(who) \o fan'[a].queue, link[who].view)
      BY <1>3, <2>1 DEF OwedOK
    <3>1. commands[1].from = None
      <4>1. Asks(commands, 1, who)
        BY <1>3, <1>w DEF Asks
      <4>2. commands[1].from \in AskedFrom(who)
        BY <1>3, <1>8, <4>1 DEF IInv, AskOK
      <4> QED
        BY <4>2 DEF AskedFrom
    <3>t. PICK t \in Slot : t = [NoSlot EXCEPT !.live = TRUE, !.open = TRUE]
      <4>1. << >> \in Seq(Chunk)
        OBVIOUS
      <4>2. NoSlot \in Slot
        BY <4>1 DEF NoSlot, Slot
      <4> QED
        BY <4>2 DEF Slot
    <3>s. PICK s \in Slot : s = DeliverSnapshot(t)
      <4>1. Head0 \in Nat /\ Head0 <= MaxOut
        BY HeadIs DEF IInv, TypeOK
      <4> QED
        BY <4>1, DeliverSnapshotIs
    <3>2. fan'[a] = [s EXCEPT !.open = (who # None)]
      <4>1. Started(t, None) = s
        BY <3>s DEF Started, Resumable
      <4> QED
        BY <1>1, <1>2, <1>3, <1>w, <3>1, <3>t, <4>1
    <3>3. fan'[a].queue = s.queue /\ fan'[a].live = s.live
      BY <3>2 DEF Slot
    <3> QED
      BY <2>1, <2>3, <3>s, <3>3, SnapshotRestores
  <2> QED
    BY <2>2, <2>3
<1> QED
  BY <1>6, <1>7, <1>8 DEF PrimaryOK

LEMMA ServeDetachOwes ==
  ASSUME IInv, PrimaryOK, ServeDetach, UNCHANGED <<link, drops>>
  PROVE  PrimaryOK'
<1>d. PICK d : d = Head(commands).id
  OBVIOUS
<1>0. /\ fan' = [fan EXCEPT ![d].live = FALSE] /\ saw' = saw \ {d} /\ fan \in [Att -> Slot]
      /\ out' = out /\ phase' = phase /\ wasAlt' = wasAlt /\ att' = att /\ link' = link /\ drops' = drops
  BY <1>d DEF ServeDetach, IInv, TypeOK, EngineTypeOK
<1>1. ScreenOK'
  <2>1. saw = {} => saw' = {}
    BY <1>0
  <2> QED
    BY <1>0, <2>1 DEF PrimaryOK, ScreenOK, Alternate, Head0
<1>2. ASSUME NEW r \in Reader PROVE OwedOK(r)'
  <2>1. CASE att[r] = d
    <3>1. att[r] # None => ~fan'[att[r]].live
      BY <1>0, <2>1, LinkIs DEF IInv, Slot
    <3> QED
      BY <1>0, <3>1 DEF OwedOK
  <2>2. CASE att[r] # d
    <3>1. att[r] # None => fan'[att[r]] = fan[att[r]]
      BY <1>0, <2>2, LinkIs DEF IInv
    <3>2. att[r] \in saw => att[r] \in saw'
      BY <1>0, <2>2
    <3> QED
      BY <1>0, <1>2, <3>1, <3>2, OwedSame DEF PrimaryOK
  <2> QED
    BY <2>1, <2>2
<1> QED
  BY <1>1, <1>2 DEF PrimaryOK

(* What only moves the owner on, or asks it for something. *)
LEMMA NothingOwed ==
  ASSUME IInv, PrimaryOK, out' = out, wasAlt' = wasAlt, saw' = saw, fan' = fan, att' = att, link' = link, drops' = drops,
         phase' = phase \/ phase' = "drain"
  PROVE  PrimaryOK'
<1>1. ScreenOK'
  BY DEF PrimaryOK, ScreenOK, Alternate, Head0
<1>2. ASSUME NEW r \in Reader PROVE OwedOK(r)'
  BY <1>2, OwedSame DEF PrimaryOK
<1> QED
  BY <1>1, <1>2 DEF PrimaryOK

(* A view without an attachment, or one whose connection dropped, is owed
   nothing. *)
LEMMA ApartOwes ==
  ASSUME IInv, PrimaryOK, NEW r \in Reader, Open(r) \/ ForwarderEnds(r) \/ Drop(r)
  PROVE  PrimaryOK'
<1>0. /\ out' = out /\ phase' = phase /\ wasAlt' = wasAlt /\ saw' = saw /\ fan \in [Att -> Slot]
      /\ link \in [Reader -> LinkState] /\ att \in [Reader -> Att \cup {None}] /\ drops \in Nat /\ 0 \in Nat
  BY LinkIs DEF Open, ForwarderEnds, Drop, IInv, TypeOK, EngineTypeOK
<1>1. OwedOK(r)'
  <2>1. CASE Open(r)
    <3>1. att[r] = None /\ att' = att
      BY <2>1 DEF Open, IInv, LinksOK, LinkOK
    <3> QED
      BY <3>1 DEF OwedOK
  <2>2. CASE ForwarderEnds(r) \/ Drop(r)
    <3>1. att'[r] = None
      BY <1>0, <2>2 DEF ForwarderEnds, Drop
    <3> QED
      BY <3>1 DEF OwedOK
  <2> QED
    BY <2>1, <2>2
<1>2. drops' = drops \/ drops' > 0
  BY <1>0 DEF Open, ForwarderEnds, Drop
<1>3. ASSUME NEW s \in Reader, s # r
      PROVE  link'[s] = link[s] /\ att'[s] = att[s] /\ (att[s] # None => fan'[att[s]] = fan[att[s]])
  <2>1. link'[s] = link[s] /\ att'[s] = att[s]
    BY <1>0, <1>3 DEF Open, ForwarderEnds, Drop
  <2>2. ASSUME att[s] # None PROVE fan'[att[s]] = fan[att[s]]
    <3>1. att[s] # att[r] /\ att[s] \in Att
      BY <1>3, <2>2, LinkIs DEF IInv, SlotOK
    <3> QED
      BY <1>0, <3>1 DEF Open, ForwarderEnds, Drop
  <2> QED
    BY <2>1, <2>2
<1> QED
  BY <1>0, <1>1, <1>2, <1>3, ReaderOwes

LEMMA ShownScreen ==
  ASSUME NEW v \in View, NEW c, NEW w, w = Shown(v, c)
  PROVE  /\ c.type = "Snapshot" => (w.primary <=> ~AltAfter(out, c.at))
         /\ c.type # "Snapshot" => w.primary = v.primary
<1>1. CASE c.type = "Snapshot"
  BY <1>1 DEF Shown
<1>2. CASE c.type = "Output" /\ c.len > 0
  <2>1. PICK f : w = [v EXCEPT !.pos = c.at + c.len, !.fault = f]
    BY <1>2 DEF Shown
  <2> QED
    BY <1>2, <2>1 DEF View
<1>3. CASE c.type # "Snapshot" /\ ~(c.type = "Output" /\ c.len > 0)
  BY <1>3 DEF Shown
<1> QED
  BY <1>1, <1>2, <1>3

(* The view takes a snapshot, or what leaves its screen alone. *)
LEMMA TakeOwes ==
  ASSUME IInv, PrimaryOK, NEW r \in Reader, Take(r)
  PROVE  PrimaryOK'
<1>c. PICK c : c = Head(link[r].items)
  OBVIOUS
<1>g. PICK g : g = IF Placed(c) THEN End(c) ELSE link[r].view.pos
  OBVIOUS
<1>l. PICK l : l = TakenAs(r, c)
  OBVIOUS
<1>0. /\ link[r].state = "up" /\ link[r].items # << >> /\ out' = out /\ att' = att /\ fan' = fan
      /\ phase' = phase /\ wasAlt' = wasAlt /\ saw' = saw /\ drops' = drops /\ link \in [Reader -> LinkState]
      /\ fan \in [Att -> Slot] /\ link[r] \in LinkState /\ link[r].view \in View
      /\ link[r].items \in Seq(Chunk) /\ link[r].pending \in Seq(Chunk)
  BY LinkIs DEF Take, IInv, TypeOK, EngineTypeOK
<1>t. Takes(r, c, g, l)
  BY <1>0, <1>c, <1>g, <1>l, TakenIs
<1>1. \A s \in Reader : s # r => link'[s] = link[s]
  BY <1>0 DEF Take
<1>2. OwedOK(r)'
  <2>1. CASE c.type = "Lagged"
    <3>1. att[r] = None
      BY <1>t, <2>1 DEF Takes
    <3> QED
      BY <1>0, <3>1 DEF OwedOK
  <2>2. CASE c.type # "Lagged"
    <3> SUFFICES ASSUME drops = 0, att[r] # None, fan[att[r]].live, att[r] \notin saw
                 PROVE  Restored(out, Arrived(r)' \o fan[att[r]].queue, link'[r].view)
      BY <1>0 DEF OwedOK
    <3>1. link'[r] = l
      <4>1. link' = [link EXCEPT ![r] = l]
        BY <1>c, <1>l, <2>2 DEF Take, TakenAs
      <4> QED
        BY <1>0, <4>1
    <3>2. l.items = Tail(link[r].items) /\ l.pending = link[r].pending /\ l.view = Shown(link[r].view, c)
      BY <1>0, <1>l DEF TakenAs, LinkState
    <3>i. PICK i \in Seq(Chunk), d \in Seq(Chunk) : i = link[r].items /\ d = link[r].pending /\ i # << >>
      BY <1>0
    <3>q. PICK q \in Seq(Chunk) : q = fan[att[r]].queue
      BY LinkIs DEF IInv, Slot
    <3>x. PICK x \in Seq(Chunk) : x = i \o d
      BY CatType
    <3>z. PICK z \in Seq(Chunk) : z = x \o q
      BY CatType
    <3>y. i # << >> /\ Head(i) = i[1] /\ x # << >> /\ x[1] = i[1] /\ Tail(x) = Tail(i) \o d
      <4>1. i # << >>
        BY <3>i
      <4>2. Head(i) = i[1]
        BY <4>1, TailIs
      <4>3. Tail(i \o d) = Tail(i) \o d /\ i \o d # << >> /\ (i \o d)[1] = i[1]
        BY <4>1, CatTail
      <4> QED
        BY <3>x, <4>1, <4>2, <4>3
    <3>w. z # << >> /\ z[1] = x[1] /\ Tail(z) = Tail(x) \o q
      BY <3>y, <3>z, CatTail
    <3>3. c = z[1]
      BY <1>c, <3>i, <3>y, <3>w
    <3>4. Restored(out, z, link[r].view)
      BY <3>i, <3>q, <3>x, <3>z DEF PrimaryOK, OwedOK, Arrived
    <3>5. Restored(out, Tail(z), l.view)
      BY <1>0, <3>2, <3>3, <3>4, <3>w, ShownScreen, RestoredTail
    <3>6. Arrived(r)' = Tail(x)
      BY <3>1, <3>2, <3>i, <3>y DEF Arrived
    <3> QED
      BY <3>1, <3>5, <3>6, <3>q, <3>w
  <2> QED
    BY <2>1, <2>2
<1> QED
  BY <1>0, <1>1, <1>2, ReaderOwes

(* The stream stays what it was: a chunk of it only changes hands. *)
LEMMA ForwardOwes ==
  ASSUME IInv, PrimaryOK, NEW r \in Reader, Forward(r)
  PROVE  PrimaryOK'
<1>a. PICK a \in Att : a = att[r] /\ a # None
  BY LinkIs DEF IInv, Forward
<1>0. /\ fan[a] \in Slot /\ fan \in [Att -> Slot] /\ fan[a].queue \in Seq(Chunk) /\ fan[a].queue # << >>
      /\ link[r] \in LinkState /\ link \in [Reader -> LinkState] /\ LinkOK(r) /\ ViewOK(r) /\ Head0 \in Nat
      /\ link[r].view.pos \in Nat /\ att \in [Reader -> Att \cup {None}]
      /\ out' = out /\ phase' = phase /\ wasAlt' = wasAlt /\ saw' = saw /\ drops' = drops
  BY <1>a, LinkIs DEF Forward, IInv, LinksOK, ViewsOK, TypeOK, EngineTypeOK, Slot
<1>q. PICK q \in Seq(Chunk) : q = fan[a].queue /\ q # << >>
  BY <1>0
<1>c. PICK c : c = q[1] /\ c = Head(q) /\ c \in Chunk
  BY <1>q, TailIs
<1>m. PICK m : m = Dispatched(link[r], c)
  OBVIOUS
<1>p. PICK p \in Nat, h \in Nat : p = link[r].view.pos /\ h = Head0
  BY <1>0
<1>z. PICK z : z = (link[r].items \o link[r].pending) \o q /\ Flows(z, p, h)
  BY <1>0, <1>a, <1>q, <1>p DEF ViewOK, StreamOK, Flowing, Arrived
<1>1. Dispatches(link[r], m, q, p, h)
  <2>1. Receives(link[r])
    BY <1>0, <1>a DEF LinkOK, Receives
  <2> QED
    BY <2>1, <1>q, <1>c, <1>m, <1>z, DispatchKeeps
<1>2. m \in LinkState /\ m.view = link[r].view /\ (m.sink => (m.items \o m.pending) \o Tail(q) = z)
  BY <1>1, <1>z DEF Dispatches
<1>3. link'[r] = m /\ (\A s \in Reader : s # r => link'[s] = link[s])
  <2>1. link' = [link EXCEPT ![r] = m]
    BY <1>a, <1>q, <1>c, <1>m DEF Forward
  <2> QED
    BY <1>0, <2>1
<1>4. \A b \in Att : b # a => fan'[b] = fan[b]
  <2>1. \/ fan' = [Received(a) EXCEPT ![a].charge = Consumed(a, Weight(c))[a].charge]
        \/ fan' = [fan EXCEPT ![a].queue = << >>, ![a].open = FALSE]
    BY <1>a, <1>q, <1>c DEF Forward
  <2> QED
    BY <1>0, <2>1 DEF Received
<1>5. \A s \in Reader : s # r => att'[s] = att[s] /\ (att[s] # None => fan'[att[s]] = fan[att[s]])
  <2>1. \A s \in Reader : s # r => att'[s] = att[s]
    BY <1>0, <1>a DEF Forward
  <2>2. \A s \in Reader : s # r /\ att[s] # None => att[s] \in Att /\ att[s] # a
    BY <1>a, LinkIs DEF IInv, SlotOK
  <2> QED
    BY <1>4, <2>1, <2>2
<1>6. CASE m.sink
  <2>1. fan' = [Received(a) EXCEPT ![a].charge = Consumed(a, Weight(c))[a].charge] /\ att' = att
    BY <1>a, <1>q, <1>c, <1>m, <1>6 DEF Forward
  <2>2. fan'[a].queue = Tail(q) /\ fan'[a].live = fan[a].live
    <3>1. Received(a) \in [Att -> Slot] /\ Received(a)[a].queue = Tail(q) /\ Received(a)[a].live = fan[a].live
      <4>t. PICK t \in Seq(Chunk) : t = Tail(q)
        BY <1>q, TailIs
      <4>1. Received(a) = [fan EXCEPT ![a] = [fan[a] EXCEPT !.queue = t]]
        BY <1>0, <1>q, <4>t DEF Received
      <4>2. [fan[a] EXCEPT !.queue = t] \in Slot
        BY <1>0 DEF Slot
      <4> QED
        BY <1>0, <4>t, <4>1, <4>2 DEF Slot
    <3> QED
      BY <2>1, <3>1 DEF Slot
  <2>3. OwedOK(r)'
    <3> SUFFICES ASSUME drops = 0, fan[a].live, a \notin saw
                 PROVE  Restored(out, Arrived(r)' \o Tail(q), m.view)
      BY <1>0, <1>a, <1>3, <2>1, <2>2 DEF OwedOK
    <3>1. Arrived(r)' \o Tail(q) = z /\ Arrived(r) \o q = z
      BY <1>2, <1>3, <1>6, <1>z DEF Arrived
    <3>2. Restored(out, z, link[r].view)
      BY <1>a, <1>q, <3>1 DEF PrimaryOK, OwedOK
    <3> QED
      BY <1>2, <3>1, <3>2
  <2> QED
    BY <1>0, <1>3, <1>5, <2>3, ReaderOwes
<1>7. CASE ~m.sink
  <2>1. att'[r] = None
    BY <1>0, <1>a, <1>q, <1>c, <1>m, <1>7 DEF Forward
  <2>2. OwedOK(r)'
    BY <2>1 DEF OwedOK
  <2> QED
    BY <1>0, <1>3, <1>5, <2>2, ReaderOwes
<1> QED
  BY <1>6, <1>7

LEMMA PrimaryStepKeeps ==
  ASSUME SnapSize <= Limit, IInv, PrimaryOK, [Next]_hostVars
  PROVE  PrimaryOK'
<1>1. CASE (\E k \in {"text", "switch"} : Drain(k)) /\ UNCHANGED <<link, drops>>
  BY <1>1, DrainOwes
<1>2. CASE OwnerStep /\ UNCHANGED <<link, drops>>
  <2>1. CASE EndDrain
    BY <1>2, <2>1, EndDrainOwes
  <2>2. CASE ServeAttach
    BY <1>2, <2>2, ServeAttachOwes
  <2>3. CASE ServeDetach
    BY <1>2, <2>3, ServeDetachOwes
  <2>4. CASE ServeFeed
    BY <1>2, <2>4, ServeFeedOwes
  <2>5. CASE EndTick
    BY <1>2, <2>5, NothingOwed DEF EndTick
  <2> QED
    BY <1>2, <2>1, <2>2, <2>3, <2>4, <2>5 DEF OwnerStep
<1>3. CASE AskFeed /\ UNCHANGED <<link, drops>>
  BY <1>3, NothingOwed DEF AskFeed
<1>4. ASSUME NEW r \in Reader, ReaderStep(r) \/ AttachTimesOut(r) \/ Drop(r) PROVE PrimaryOK'
  <2>1. CASE Open(r) \/ ForwarderEnds(r) \/ Drop(r)
    BY <2>1, ApartOwes
  <2>2. CASE Forward(r)
    BY <2>2, ForwardOwes
  <2>3. CASE Take(r)
    BY <2>3, TakeOwes
  <2>4. CASE AttachTimesOut(r)
    BY <2>4, NothingOwed DEF AttachTimesOut
  <2> QED
    BY <1>4, <2>1, <2>2, <2>3, <2>4 DEF ReaderStep
<1>5. CASE UNCHANGED hostVars
  BY <1>5, NothingOwed DEF hostVars, engineVars
<1> QED
  BY <1>1, <1>2, <1>3, <1>4, <1>5 DEF Next

(* Until a connection drops a view that has everything has the session's
   primary screen: the snapshot owed to whoever attached on the alternate one
   is delivered at the tick that sees it left (owner.rs alternate_attachments),
   and nothing that lags or is held back loses it. *)
THEOREM PrimaryIsRestoredHolds ==
  ASSUME SnapSize <= Limit
  PROVE  Spec => []PrimaryIsRestored
<1>1. Init => PrimaryOK
  BY DEF Init, EngineInit, PrimaryOK, ScreenOK, OwedOK
<1>2. IInv /\ PrimaryOK /\ [Next]_hostVars => PrimaryOK'
  BY PrimaryStepKeeps
<1>3. IInv /\ PrimaryOK => PrimaryIsRestored
  <2>1. ASSUME IInv, PrimaryOK, drops = 0, NEW r \in Reader, Settled(r), ~wasAlt PROVE link[r].view.primary
    <3>1. Len(Arrived(r) \o fan[att[r]].queue) = 0
      <4>1. Len((<< >> \o << >>) \o << >>) = 0
        OBVIOUS
      <4> QED
        BY <2>1, <4>1 DEF Settled, Arrived
    <3>2. Restored(out, Arrived(r) \o fan[att[r]].queue, link[r].view)
      BY <2>1 DEF Settled, PrimaryOK, ScreenOK, OwedOK
    <3> QED
      BY <3>1, <3>2 DEF Restored
  <2> QED
    BY <2>1 DEF PrimaryIsRestored
<1> QED
  BY <1>1, <1>2, <1>3, IInvHolds, PTL DEF Spec
=============================================================================
