--------------------------- MODULE LocalView_proofs ---------------------------
(***************************************************************************)
(* Safety of LocalView for every set of views, journal, queue limit and    *)
(* bound, of a program whose snapshots fit the queue.                      *)
(***************************************************************************)
EXTENDS LocalView, SessionEngine_proofs

(* A view that waits for its attachment asked once, from where it is. *)
Asks(q, k, r) == q[k].op = "attach" /\ q[k].who = r
AskOK ==
  /\ \A k \in 1..Len(commands) : commands[k].op # "detach"
  /\ \A r \in Reader :
       /\ \A k \in 1..Len(commands) : Asks(commands, k, r) =>
            local[r].open /\ att[r] = None /\ commands[k].from \in {None, local[r].next}
       /\ \A j, k \in 1..Len(commands) : Asks(commands, j, r) /\ Asks(commands, k, r) => j = k
       /\ att[r] # None => local[r].open
       /\ local[r].hold # None => att[r] # None

(* An attachment is read by one view, and its receiver is open as long. *)
SlotOK ==
  /\ ~first => /\ \A a \in Att : ~fan[a].live /\ fan[a].queue = << >>
               /\ \A r \in Reader : att[r] = None
  /\ \A r, s \in Reader : att[r] = att[s] /\ att[r] # None => r = s
  /\ \A a \in Att : fan[a].open => \E r \in Reader : att[r] = a
  /\ \A r \in Reader : att[r] # None => fan[att[r]].open

SoundOK == \A a \in Att : Sound(fan[a])

(* What a view has in hand is still charged. *)
Held(r) == IF local[r].hold = None THEN 0 ELSE local[r].hold
HeldOK == \A r \in Reader : att[r] # None => Exact(fan[att[r]], Held(r))

(* What the queue holds goes on where the view is; where to resume from is
   behind the view only while the output that tells is next in the queue. *)
ViewOK(r) ==
  /\ local[r].view.fault = "none" /\ local[r].view.pos <= Head0
  /\ local[r].next # local[r].view.pos =>
       att[r] # None /\ fan[att[r]].queue # << >> /\ fan[att[r]].queue[1].type = "Output"
  /\ att[r] # None =>
       /\ Flowing(<< >>, fan[att[r]], local[r].view.pos, Head0)
       /\ StartsIn(fan[att[r]].queue, {local[r].view.pos})
ViewsOK == \A r \in Reader : ViewOK(r)

IInv == TypeOK /\ FeedsOK /\ AskOK /\ SlotOK /\ SoundOK /\ HeldOK /\ ViewsOK

-----------------------------------------------------------------------------
LEMMA LocalIs ==
  ASSUME TypeOK, NEW r \in Reader
  PROVE  /\ local[r] \in LocalState /\ local[r].open \in BOOLEAN /\ local[r].view \in View
         /\ local[r].view.pos \in 0..MaxOut /\ local[r].view.pos \in Nat /\ local[r].next \in 0..MaxOut
         /\ local[r].hold \in 0..(MaxOut + SnapSize) \cup {None} /\ Held(r) \in Nat
         /\ att[r] \in Att \cup {None} /\ None \notin Att /\ (att[r] # None => fan[att[r]] \in Slot)
<1>1. local[r] \in LocalState /\ att[r] \in Att \cup {None} /\ None \notin Att /\ MaxOut \in Nat /\ SnapSize \in Nat
  BY AttIs, SessionEngineAssumption DEF TypeOK, EngineTypeOK
<1>2. local[r].hold \in 0..(MaxOut + SnapSize) \cup {None} /\ Held(r) \in Nat
  BY <1>1 DEF LocalState, Held
<1>3. att[r] # None => fan[att[r]] \in Slot
  BY <1>1 DEF TypeOK, EngineTypeOK
<1> QED
  BY <1>1, <1>2, <1>3 DEF LocalState, View

(* The owner's steps that only go on leave every view as it is. *)
LEMMA GoesOn ==
  ASSUME IInv, local' = local, att' = att, first' = first,
         Head0 \in Nat, Head0' \in Nat, Head0 <= Head0',
         \A a \in Att : Goes(fan[a], fan'[a], Head0, Head0')
  PROVE  SlotOK' /\ SoundOK' /\ HeldOK' /\ ViewsOK'
<1>1. SlotOK'
  <2>1. ASSUME NEW a \in Att
        PROVE  fan'[a].open = fan[a].open /\ (fan'[a].live => fan[a].live) /\ (~fan[a].live => fan'[a].queue = fan[a].queue)
    BY DEF Goes
  <2>2. \A r \in Reader : att[r] # None => att[r] \in Att
    BY LocalIs DEF IInv
  <2> QED
    BY <2>1, <2>2 DEF IInv, SlotOK
<1>2. SoundOK'
  BY DEF IInv, SoundOK, Goes
<1>3. HeldOK'
  <2>1. ASSUME NEW r \in Reader, att[r] # None PROVE Exact(fan'[att[r]], Held(r)')
    <3>1. att[r] \in Att /\ Held(r) \in Nat /\ Held(r)' = Held(r)
      BY <2>1, LocalIs DEF IInv, Held
    <3>2. Sound(fan[att[r]]) /\ Exact(fan[att[r]], Held(r)) /\ Goes(fan[att[r]], fan'[att[r]], Head0, Head0')
      BY <2>1, <3>1 DEF IInv, SoundOK, HeldOK
    <3>3. Exact(fan'[att[r]], Held(r))
      BY <3>1, <3>2 DEF Goes
    <3> QED
      BY <3>1, <3>3
  <2> QED
    BY <2>1 DEF HeldOK
<1>4. ASSUME NEW r \in Reader PROVE ViewOK(r)'
  <2>0. ViewOK(r) /\ local'[r] = local[r] /\ att'[r] = att[r]
    BY DEF IInv, ViewsOK
  <2>p. PICK p \in Nat : p = local[r].view.pos
    BY LocalIs DEF IInv
  <2>1. local[r].view.fault = "none" /\ p <= Head0'
    BY <2>0, <2>p DEF ViewOK
  <2>2. ASSUME att[r] # None
        PROVE  /\ Flowing(<< >>, fan'[att[r]], p, Head0') /\ StartsIn(fan'[att[r]].queue, {p})
               /\ fan[att[r]].queue # << >> =>
                    fan'[att[r]].queue # << >> /\ fan'[att[r]].queue[1] = fan[att[r]].queue[1]
    <3>1. PICK a \in Att : a = att[r]
      BY <2>2, LocalIs DEF IInv
    <3>2. Flowing(<< >>, fan[a], p, Head0) /\ StartsIn(fan[a].queue, {p}) /\ fan[a] \in Slot
      BY <2>0, <2>p, <2>2, <3>1, LocalIs DEF ViewOK, IInv
    <3>3. Goes(fan[a], fan'[a], Head0, Head0')
      OBVIOUS
    <3>4. << >> \in Seq(Chunk)
      OBVIOUS
    <3>5. Flowing(<< >>, fan'[a], p, Head0') /\ Begins(<< >>, fan[a], fan'[a], p) /\ fan'[a] \in Slot
      BY <3>2, <3>3, <3>4 DEF Goes
    <3>6. << >> \o fan[a].queue = fan[a].queue /\ << >> \o fan'[a].queue = fan'[a].queue
      BY <3>2, <3>5, CatNone DEF Slot
    <3>7. p \in {p}
      OBVIOUS
    <3>8. /\ StartsIn(fan'[a].queue, {p})
          /\ fan[a].queue # << >> => fan'[a].queue # << >> /\ fan'[a].queue[1] = fan[a].queue[1]
      BY <3>2, <3>5, <3>6, <3>7 DEF Begins
    <3> QED
      BY <3>1, <3>5, <3>8
  <2> QED
    BY <2>0, <2>p, <2>1, <2>2 DEF ViewOK
<1> QED
  BY <1>1, <1>2, <1>3, <1>4 DEF ViewsOK

LEMMA NothingGoes ==
  ASSUME IInv, local' = local, att' = att, first' = first, fan' = fan, out' = out
  PROVE  SlotOK' /\ SoundOK' /\ HeldOK' /\ ViewsOK'
<1>1. Head0 \in Nat /\ Head0' = Head0
  BY HeadIs DEF IInv, TypeOK, Head0
<1>2. \A a \in Att : Goes(fan[a], fan'[a], Head0, Head0')
  BY <1>1, SameGoes DEF IInv, TypeOK, EngineTypeOK
<1> QED
  BY <1>1, <1>2, GoesOn

(* A command less. *)
LEMMA AskServed ==
  ASSUME IInv, local' = local, att' = att, commands # << >>, commands' = Tail(commands)
  PROVE  AskOK'
<1>1. /\ Len(commands) \in Nat /\ Len(commands') \in Nat /\ Len(commands') + 1 = Len(commands)
      /\ \A k \in 1..Len(commands') : commands'[k] = commands[k + 1] /\ k + 1 \in 1..Len(commands)
  BY TailIs DEF IInv, TypeOK, EngineTypeOK
<1>2. \A j, k \in 1..Len(commands') : j + 1 = k + 1 => j = k
  BY <1>1
<1>3. \A r \in Reader : \A k \in 1..Len(commands') : Asks(commands', k, r) => Asks(commands, k + 1, r)
  BY <1>1 DEF Asks
<1>4. \A k \in 1..Len(commands') : commands'[k].op # "detach"
  BY <1>1 DEF IInv, AskOK
<1>5. ASSUME NEW r \in Reader
      PROVE  /\ \A k \in 1..Len(commands') : Asks(commands', k, r) =>
                  local[r].open /\ att[r] = None /\ commands'[k].from \in {None, local[r].next}
             /\ \A j, k \in 1..Len(commands') : Asks(commands', j, r) /\ Asks(commands', k, r) => j = k
             /\ att[r] # None => local[r].open
             /\ local[r].hold # None => att[r] # None
  BY <1>1, <1>2, <1>3 DEF IInv, AskOK
<1> QED
  BY <1>4, <1>5 DEF AskOK

LEMMA DrainKeeps ==
  ASSUME IInv, NEW k \in {"text", "switch"}, Drain(k), UNCHANGED <<local, timeouts>>
  PROVE  IInv'
<1>1. /\ EngineTypeOK' /\ FeedsOK' /\ Head0 \in Nat /\ Head0' \in Nat /\ Head0 <= Head0'
      /\ \A a \in Att : Goes(fan[a], fan'[a], Head0, Head0')
  BY DrainStep DEF IInv, TypeOK
<1>2. SlotOK' /\ SoundOK' /\ HeldOK' /\ ViewsOK'
  BY <1>1, GoesOn DEF Drain
<1>3. AskOK' /\ TypeOK'
  BY <1>1 DEF IInv, TypeOK, AskOK, Asks, Drain
<1> QED
  BY <1>1, <1>2, <1>3 DEF IInv

LEMMA EndDrainKeeps ==
  ASSUME SnapSize <= Limit, IInv, EndDrain, UNCHANGED <<local, timeouts>>
  PROVE  IInv'
<1>1. /\ EngineTypeOK' /\ FeedsOK' /\ Head0 \in Nat /\ Head0' = Head0
      /\ \A a \in Att : Goes(fan[a], fan'[a], Head0, Head0)
  BY EndDrainStep DEF IInv, TypeOK
<1>2. SlotOK' /\ SoundOK' /\ HeldOK' /\ ViewsOK'
  BY <1>1, GoesOn DEF EndDrain
<1>3. AskOK' /\ TypeOK'
  BY <1>1 DEF IInv, TypeOK, AskOK, Asks, EndDrain
<1> QED
  BY <1>1, <1>2, <1>3 DEF IInv

LEMMA ServeFeedKeeps ==
  ASSUME IInv, ServeFeed, UNCHANGED <<local, timeouts>>
  PROVE  IInv'
<1>1. /\ EngineTypeOK' /\ FeedsOK' /\ Head0 \in Nat /\ Head0' \in Nat /\ Head0 <= Head0'
      /\ \A a \in Att : Goes(fan[a], fan'[a], Head0, Head0')
  BY ServeFeedStep DEF IInv, TypeOK
<1>2. SlotOK' /\ SoundOK' /\ HeldOK' /\ ViewsOK'
  BY <1>1, GoesOn DEF ServeFeed
<1>3. AskOK' /\ TypeOK'
  BY <1>1, AskServed DEF IInv, TypeOK, ServeFeed
<1> QED
  BY <1>1, <1>2, <1>3 DEF IInv

LEMMA EndTickKeeps ==
  ASSUME IInv, EndTick, UNCHANGED <<local, timeouts>>
  PROVE  IInv'
<1>1. EngineTypeOK' /\ FeedsOK'
  BY EndTickStep DEF IInv, TypeOK
<1>2. SlotOK' /\ SoundOK' /\ HeldOK' /\ ViewsOK'
  BY NothingGoes DEF EndTick
<1>3. AskOK' /\ TypeOK'
  BY <1>1 DEF IInv, TypeOK, AskOK, Asks, EndTick
<1> QED
  BY <1>1, <1>2, <1>3 DEF IInv

(* One more command, which is not an attach. *)
LEMMA AskFeedKeeps ==
  ASSUME IInv, AskFeed, UNCHANGED <<local, timeouts>>
  PROVE  IInv'
<1>1. EngineTypeOK' /\ FeedsOK'
  BY AskFeedStep DEF IInv, TypeOK
<1>2. SlotOK' /\ SoundOK' /\ HeldOK' /\ ViewsOK'
  BY NothingGoes DEF AskFeed
<1>3. AskOK'
  <2>1. FeedCommand \in Command /\ FeedCommand.op = "feed"
    BY DEF FeedCommand, Command
  <2>l. PICK l \in Nat : l = Len(commands) + 1
    BY DEF IInv, TypeOK, EngineTypeOK
  <2>2. /\ commands'[l].op = "feed" /\ \A k \in 1..Len(commands) : commands'[k] = commands[k]
        /\ \A k : k \in 1..Len(commands') <=> k \in 1..Len(commands) \/ k = l
    BY <2>1, <2>l, Appended DEF IInv, TypeOK, EngineTypeOK, AskFeed
  <2> QED
    BY <2>2 DEF IInv, AskOK, Asks, AskFeed
<1> QED
  BY <1>1, <1>2, <1>3 DEF IInv, TypeOK

(* A view's attach request is served from where the view is. *)
LEMMA ServeAttachKeeps ==
  ASSUME SnapSize <= Limit, IInv, ServeAttach, UNCHANGED <<local, timeouts>>
  PROVE  IInv'
<1>1. EngineTypeOK' /\ FeedsOK' /\ Head0 \in Nat /\ Head0' = Head0 /\ Head0 <= MaxOut
  BY ServeAttachTypes, HeadIs DEF IInv, TypeOK
<1>2. PICK a \in FreshIds :
        /\ fan' = [fan EXCEPT ![a] = [Started([NoSlot EXCEPT !.live = TRUE, !.open = TRUE], Head(commands).from)
                                        EXCEPT !.open = (Head(commands).who # None)]]
        /\ att' = IF Head(commands).who = None THEN att ELSE [att EXCEPT ![Head(commands).who] = a]
  BY DEF ServeAttach
<1>3. a \in Att /\ \A r \in Reader : att[r] # a
  BY <1>2, AttIs DEF FreshIds, Unnamed, IInv, SlotOK
<1>4. /\ commands # << >> /\ commands' = Tail(commands) /\ 1 \in 1..Len(commands) /\ commands[1].op = "attach"
      /\ commands[1] \in Command /\ Head(commands) = commands[1] /\ first'
      /\ commands \in Seq(Command)
  BY TailIs DEF ServeAttach, IInv, TypeOK, EngineTypeOK
<1>f. PICK from \in 0..MaxOut \cup {None} : from = commands[1].from
  BY <1>4 DEF Command
<1>w. PICK who \in Reader \cup {None} : who = commands[1].who
  BY <1>4 DEF Command
<1>5. /\ fan'[a] \in Slot /\ (fan'[a].open <=> who # None) /\ Sound(fan'[a]) /\ Exact(fan'[a], 0)
      /\ Resumes(fan'[a], from)
  <2>1. PICK w \in BOOLEAN : w = (who # None)
    OBVIOUS
  <2>2. PICK s : s = [Started([NoSlot EXCEPT !.live = TRUE, !.open = TRUE], from) EXCEPT !.open = w]
    OBVIOUS
  <2>3. /\ s \in Slot /\ s.open = w /\ Sound(s) /\ Exact(s, 0)
        /\ Resumes(s, from)
    BY <1>1, <2>2, AttachedIs
  <2>4. fan'[a] = s
    BY <1>2, <1>3, <1>4, <1>f, <1>w, <2>1, <2>2 DEF IInv, TypeOK, EngineTypeOK
  <2> QED
    BY <2>1, <2>3, <2>4
<1>6. \A b \in Att : b # a => fan'[b] = fan[b]
  BY <1>2 DEF IInv, TypeOK, EngineTypeOK
<1>7. \A r \in Reader : att'[r] = IF r = who THEN a ELSE att[r]
  BY <1>2, <1>4, <1>w, SessionEngineAssumption DEF IInv, TypeOK, EngineTypeOK
<1>8. \A r \in Reader : att[r] # None => att[r] \in Att /\ att[r] # a
  BY <1>3, LocalIs DEF IInv
<1>9. who \in Reader => Asks(commands, 1, who) /\ local[who].open /\ att[who] = None /\ from \in {None, local[who].next}
  BY <1>4, <1>f, <1>w DEF IInv, AskOK, Asks
<1>10. AskOK'
  <2>1. /\ Len(commands) \in Nat /\ Len(commands') \in Nat /\ Len(commands') + 1 = Len(commands)
        /\ \A k \in 1..Len(commands') : commands'[k] = commands[k + 1] /\ k + 1 \in 1..Len(commands)
    BY <1>4, TailIs
  <2>2. \A j, k \in 1..Len(commands') : (j + 1 = k + 1 => j = k) /\ k + 1 # 1
    BY <2>1
  <2>3. \A r \in Reader : \A k \in 1..Len(commands') : Asks(commands', k, r) => Asks(commands, k + 1, r) /\ r # who
    <3>1. ASSUME NEW r \in Reader, NEW k \in 1..Len(commands'), Asks(commands', k, r)
          PROVE  Asks(commands, k + 1, r) /\ r # who
      <4>1. Asks(commands, k + 1, r) /\ k + 1 \in 1..Len(commands) /\ k + 1 # 1
        BY <2>1, <2>2, <3>1 DEF Asks
      <4>2. r = who => Asks(commands, 1, r)
        BY <1>9
      <4> QED
        BY <1>4, <4>1, <4>2 DEF IInv, AskOK
    <3> QED
      BY <3>1
  <2>4. \A k \in 1..Len(commands') : commands'[k].op # "detach"
    BY <2>1 DEF IInv, AskOK
  <2>5. ASSUME NEW r \in Reader
        PROVE  /\ \A k \in 1..Len(commands') : Asks(commands', k, r) =>
                    local[r].open /\ att'[r] = None /\ commands'[k].from \in {None, local[r].next}
               /\ \A j, k \in 1..Len(commands') : Asks(commands', j, r) /\ Asks(commands', k, r) => j = k
               /\ att'[r] # None => local[r].open
               /\ local[r].hold # None => att'[r] # None
    <3>1. ASSUME NEW k \in 1..Len(commands'), Asks(commands', k, r)
          PROVE  local[r].open /\ att'[r] = None /\ commands'[k].from \in {None, local[r].next}
      BY <1>7, <2>1, <2>3, <3>1 DEF IInv, AskOK
    <3>2. ASSUME NEW j \in 1..Len(commands'), NEW k \in 1..Len(commands'), Asks(commands', j, r), Asks(commands', k, r)
          PROVE  j = k
      BY <2>1, <2>2, <2>3, <3>2 DEF IInv, AskOK
    <3>3. att'[r] # None => local[r].open
      BY <1>7, <1>9 DEF IInv, AskOK
    <3>4. local[r].hold # None => att'[r] # None
      BY <1>3, <1>7, AttIs DEF IInv, AskOK
    <3> QED
      BY <3>1, <3>2, <3>3, <3>4
  <2> QED
    BY <2>4, <2>5 DEF AskOK
<1>11. SlotOK'
  <2>1. \A r, s \in Reader : att'[r] = att'[s] /\ att'[r] # None => r = s
    BY <1>7, <1>8 DEF IInv, SlotOK
  <2>2. ASSUME NEW b \in Att, fan'[b].open PROVE \E r \in Reader : att'[r] = b
    <3>1. CASE b = a
      BY <1>5, <1>7, <2>2, <3>1
    <3>2. CASE b # a
      <4>1. PICK r \in Reader : att[r] = b
        BY <1>6, <2>2, <3>2 DEF IInv, SlotOK
      <4>2. r # who
        BY <1>9, <4>1, AttIs
      <4> QED
        BY <1>7, <4>1, <4>2
    <3> QED
      BY <3>1, <3>2
  <2>3. ASSUME NEW r \in Reader, att'[r] # None PROVE fan'[att'[r]].open
    <3>1. CASE r = who
      BY <1>5, <1>7, <3>1, SessionEngineAssumption
    <3>2. CASE r # who
      BY <1>6, <1>7, <1>8, <2>3, <3>2 DEF IInv, SlotOK
    <3> QED
      BY <3>1, <3>2
  <2> QED
    BY <1>4, <2>1, <2>2, <2>3 DEF SlotOK
<1>12. SoundOK'
  BY <1>5, <1>6 DEF IInv, SoundOK
<1>13. HeldOK'
  <2>1. ASSUME NEW r \in Reader, att'[r] # None PROVE Exact(fan'[att'[r]], Held(r)')
    <3>0. Held(r)' = Held(r)
      BY DEF Held
    <3>1. CASE r = who
      <4>1. Held(r) = 0
        BY <1>9, <3>1 DEF IInv, AskOK, Held
      <4> QED
        BY <1>5, <1>7, <3>0, <3>1, <4>1
    <3>2. CASE r # who
      BY <1>6, <1>7, <1>8, <2>1, <3>0, <3>2 DEF IInv, HeldOK
    <3> QED
      BY <3>1, <3>2
  <2> QED
    BY <2>1 DEF HeldOK
<1>14. ViewsOK'
  <2>1. ASSUME NEW r \in Reader PROVE ViewOK(r)'
    <3>0. ViewOK(r) /\ local[r].view.pos \in Nat
      BY LocalIs DEF IInv, ViewsOK
    <3>1. CASE r = who
      <4>1. att[r] = None /\ local[r].next = local[r].view.pos
        BY <1>9, <3>0, <3>1 DEF ViewOK
      <4>2. Resumable(from) => from <= local[r].view.pos /\ from \in {local[r].view.pos}
        BY <1>9, <3>0, <3>1, <4>1 DEF Resumable
      <4>3. Flowing(<< >>, fan'[a], local[r].view.pos, Head0) /\ StartsIn(fan'[a].queue, {local[r].view.pos})
        BY <1>5, <3>0, <4>2 DEF ViewOK, Resumes
      <4> QED
        BY <1>1, <1>7, <3>0, <3>1, <4>1, <4>3 DEF ViewOK
    <3>2. CASE r # who
      <4>1. att'[r] = att[r] /\ (att[r] # None => fan'[att[r]] = fan[att[r]])
        BY <1>6, <1>7, <1>8, <3>2
      <4> QED
        BY <1>1, <3>0, <4>1 DEF ViewOK
    <3> QED
      BY <3>1, <3>2
  <2> QED
    BY <2>1 DEF ViewsOK
<1> QED
  BY <1>1, <1>10, <1>11, <1>12, <1>13, <1>14 DEF IInv, TypeOK

-----------------------------------------------------------------------------
(* A view's steps. *)

(* A view asks, once there is no request of its own among those of the others. *)
LEMMA AskAgain ==
  ASSUME IInv, NEW r \in Reader, NEW q \in Seq(Command), NEW from \in 0..MaxOut \cup {None},
         \A k \in 1..Len(q) : k \in 1..Len(commands) /\ q[k].op # "detach",
         \A k \in 1..Len(q) : \A s \in Reader :
           Asks(q, k, s) => s # r /\ Asks(commands, k, s) /\ q[k].from = commands[k].from,
         commands' = Append(q, AttachCommand(r, from)), from \in {None, local'[r].next},
         att'[r] = None, local'[r].open, local'[r].hold = None,
         \A s \in Reader : s # r => att'[s] = att[s] /\ local'[s] = local[s]
  PROVE  AskOK' /\ commands' \in Seq(Command) /\ Cardinality(FeedAt(commands')) = Cardinality(FeedAt(q))
<1>c. PICK c : c = AttachCommand(r, from)
  OBVIOUS
<1>1. c \in Command /\ c.op = "attach" /\ c.who = r /\ c.from = from
  BY <1>c DEF AttachCommand, Command
<1>l. PICK l \in Nat : l = Len(q) + 1
  OBVIOUS
<1>2. /\ commands'[l] = c /\ (\A k \in 1..Len(q) : commands'[k] = q[k]) /\ l \notin 1..Len(q)
      /\ (\A k : k \in 1..Len(commands') <=> k \in 1..Len(q) \/ k = l)
  BY <1>c, <1>1, <1>l, Appended
<1>3. commands' \in Seq(Command) /\ Cardinality(FeedAt(commands')) = Cardinality(FeedAt(q))
  BY <1>c, <1>1, CommandSent
<1>4. \A k \in 1..Len(commands') : commands'[k].op # "detach"
  BY <1>1, <1>2
<1>5. \A s \in Reader : \A k \in 1..Len(commands') :
        Asks(commands', k, s) => \/ k = l /\ s = r
                                 \/ k # l /\ k \in 1..Len(commands) /\ s # r /\ Asks(commands, k, s) /\ commands'[k].from = commands[k].from
  <2>1. ASSUME NEW s \in Reader, NEW k \in 1..Len(commands'), Asks(commands', k, s), k # l
        PROVE  k \in 1..Len(commands) /\ s # r /\ Asks(commands, k, s) /\ commands'[k].from = commands[k].from
    <3>1. k \in 1..Len(q) /\ commands'[k] = q[k]
      BY <1>2, <2>1
    <3>2. Asks(q, k, s)
      BY <2>1, <3>1 DEF Asks
    <3> QED
      BY <3>1, <3>2
  <2>2. ASSUME NEW s \in Reader, Asks(commands', l, s) PROVE s = r
    BY <1>1, <1>2, <2>2 DEF Asks
  <2> QED
    BY <2>1, <2>2
<1>6. ASSUME NEW s \in Reader
      PROVE  /\ \A k \in 1..Len(commands') : Asks(commands', k, s) =>
                  local'[s].open /\ att'[s] = None /\ commands'[k].from \in {None, local'[s].next}
             /\ \A j, k \in 1..Len(commands') : Asks(commands', j, s) /\ Asks(commands', k, s) => j = k
             /\ att'[s] # None => local'[s].open
             /\ local'[s].hold # None => att'[s] # None
  <2>1. ASSUME NEW k \in 1..Len(commands'), Asks(commands', k, s)
        PROVE  local'[s].open /\ att'[s] = None /\ commands'[k].from \in {None, local'[s].next}
    <3>1. CASE k = l /\ s = r
      BY <1>1, <1>2, <3>1
    <3>2. CASE k # l /\ k \in 1..Len(commands) /\ s # r /\ Asks(commands, k, s) /\ commands'[k].from = commands[k].from
      BY <3>2 DEF IInv, AskOK
    <3> QED
      BY <1>5, <2>1, <3>1, <3>2
  <2>2. ASSUME NEW j \in 1..Len(commands'), NEW k \in 1..Len(commands'), Asks(commands', j, s), Asks(commands', k, s)
        PROVE  j = k
    <3>1. CASE s = r
      BY <1>5, <2>2, <3>1
    <3>2. CASE s # r
      BY <1>5, <2>2, <3>2 DEF IInv, AskOK
    <3> QED
      BY <3>1, <3>2
  <2>3. (att'[s] # None => local'[s].open) /\ (local'[s].hold # None => att'[s] # None)
    BY DEF IInv, AskOK
  <2> QED
    BY <2>1, <2>2, <2>3
<1> QED
  BY <1>3, <1>4, <1>6 DEF AskOK

LEMMA OpenKeeps ==
  ASSUME IInv, NEW r \in Reader, Open(r)
  PROVE  IInv'
<1>1. local' = [local EXCEPT ![r].open = TRUE] /\ ~local[r].open
  BY DEF Open
<1>2. /\ local'[r] \in LocalState /\ local'[r].open /\ local'[r].hold = local[r].hold /\ local'[r].next = local[r].next
      /\ local'[r].view = local[r].view
      /\ (\A s \in Reader : s # r => local'[s] = local[s]) /\ local' \in [Reader -> LocalState]
  <2>1. local[r] \in LocalState /\ local'[r] = [local[r] EXCEPT !.open = TRUE]
    BY <1>1 DEF IInv, TypeOK
  <2> QED
    BY <1>1, <2>1 DEF IInv, TypeOK, LocalState
<1>3. att[r] = None /\ local[r].hold = None /\ \A k \in 1..Len(commands) : ~Asks(commands, k, r)
  BY <1>1 DEF IInv, AskOK
<1>4. Head0 \in Nat /\ Head0' = Head0 /\ commands \in Seq(Command)
  BY HeadIs DEF IInv, TypeOK, EngineTypeOK, Head0, Open
<1>5. AskOK' /\ commands' \in Seq(Command) /\ Cardinality(FeedAt(commands')) = Cardinality(FeedAt(commands))
  <2>1. commands' = Append(commands, AttachCommand(r, None)) /\ att' = att
    BY DEF Open
  <2>2. \A k \in 1..Len(commands) : k \in 1..Len(commands) /\ commands[k].op # "detach"
    BY DEF IInv, AskOK
  <2> QED
    BY <1>2, <1>3, <1>4, <2>1, <2>2, AskAgain
<1>6. TypeOK' /\ FeedsOK'
  BY <1>2, <1>4, <1>5 DEF IInv, TypeOK, EngineTypeOK, FeedsOK, Open
<1>7. SlotOK' /\ SoundOK'
  BY DEF IInv, SlotOK, SoundOK, Open
<1>8. HeldOK'
  BY <1>2 DEF IInv, HeldOK, Held, Open
<1>9. ViewsOK'
  <2>1. ASSUME NEW s \in Reader PROVE ViewOK(s)'
    <3>1. ViewOK(s) /\ local'[s].view = local[s].view /\ local'[s].next = local[s].next /\ att' = att /\ fan' = fan
      BY <1>2 DEF IInv, ViewsOK, Open
    <3> QED
      BY <1>4, <3>1 DEF ViewOK
  <2> QED
    BY <2>1 DEF ViewsOK
<1> QED
  BY <1>5, <1>6, <1>7, <1>8, <1>9 DEF IInv

LEMMA AttachTimesOutKeeps ==
  ASSUME IInv, NEW r \in Reader, AttachTimesOut(r)
  PROVE  IInv'
<1>1. PICK w \in 1..Len(commands) : Asks(commands, w, r)
  BY DEF AttachTimesOut, Waiting, Asks
<1>2. local[r].open /\ att[r] = None /\ local[r].hold = None
  BY <1>1 DEF IInv, AskOK
<1>q. PICK q \in Seq(Command) : q = Abandon(r)
  BY Abandoned DEF IInv, TypeOK
<1>3. /\ Len(q) = Len(commands) /\ FeedAt(q) = FeedAt(commands)
      /\ \A k \in 1..Len(commands) :
           /\ q[k].op = commands[k].op /\ q[k].from = commands[k].from
           /\ q[k].who = IF commands[k].who = r THEN None ELSE commands[k].who
  BY <1>q, Abandoned DEF IInv, TypeOK
<1>4. Head0 \in Nat /\ Head0' = Head0 /\ timeouts' \in 0..MaxTimeOut
  <2>1. timeouts \in Nat /\ timeouts' = timeouts + 1 /\ timeouts < MaxTimeOut /\ MaxTimeOut \in Nat
    BY LocalViewAssumption DEF IInv, TypeOK, AttachTimesOut
  <2> QED
    BY <2>1, HeadIs DEF IInv, TypeOK, Head0, AttachTimesOut
<1>f. PICK from \in 0..MaxOut \cup {None} : from = local[r].next
  BY LocalIs DEF IInv
<1>5. AskOK' /\ commands' \in Seq(Command) /\ Cardinality(FeedAt(commands')) = Cardinality(FeedAt(commands))
  <2>1. commands' = Append(q, AttachCommand(r, from)) /\ att' = att /\ local' = local
    BY <1>q, <1>f DEF AttachTimesOut
  <2>2. \A k \in 1..Len(q) : k \in 1..Len(commands) /\ q[k].op # "detach"
    BY <1>3 DEF IInv, AskOK
  <2>3. \A k \in 1..Len(q) : \A s \in Reader :
           Asks(q, k, s) => s # r /\ Asks(commands, k, s) /\ q[k].from = commands[k].from
    <3>1. None \notin Reader
      BY SessionEngineAssumption
    <3> QED
      BY <1>3, <3>1 DEF Asks
  <2>4. from \in {None, local'[r].next}
    BY <1>f, <2>1
  <2> QED
    BY <1>2, <1>3, <2>1, <2>2, <2>3, <2>4, AskAgain
<1>6. TypeOK' /\ FeedsOK'
  BY <1>4, <1>5 DEF IInv, TypeOK, EngineTypeOK, FeedsOK, AttachTimesOut
<1>7. SlotOK' /\ SoundOK' /\ HeldOK' /\ ViewsOK'
  BY NothingGoes DEF AttachTimesOut
<1> QED
  BY <1>5, <1>6, <1>7 DEF IInv

LEMMA ReattachKeeps ==
  ASSUME IInv, NEW r \in Reader, Reattach(r)
  PROVE  IInv'
<1>a. PICK a \in Att : a = att[r] /\ a # None
  BY LocalIs DEF IInv, Reattach
<1>1. /\ local' = local /\ local[r].hold = None /\ out' = out /\ local[r].open
      /\ att' = [att EXCEPT ![r] = None] /\ fan' = [fan EXCEPT ![a].open = FALSE, ![a].queue = << >>]
  BY <1>a DEF Reattach, Closed, IInv, AskOK
<1>2. Head0 \in Nat /\ Head0' = Head0 /\ commands \in Seq(Command)
  BY <1>1, HeadIs DEF IInv, TypeOK, EngineTypeOK, Head0
<1>3. /\ fan'[a] \in Slot /\ ~fan'[a].open /\ fan'[a].queue = << >> /\ fan'[a].live = fan[a].live
      /\ fan'[a].charge = fan[a].charge /\ (\A b \in Att : b # a => fan'[b] = fan[b]) /\ fan' \in [Att -> Slot]
  <2>e. PICK e \in Seq(Chunk) : e = << >>
    <3>1. << >> \in Seq(Chunk)
      OBVIOUS
    <3> QED
      BY <3>1
  <2>1. fan[a] \in Slot /\ fan \in [Att -> Slot] /\ fan' = [fan EXCEPT ![a] = [fan[a] EXCEPT !.open = FALSE, !.queue = e]]
    BY <1>1, <2>e DEF IInv, TypeOK, EngineTypeOK
  <2>2. [fan[a] EXCEPT !.open = FALSE, !.queue = e] \in Slot
    BY <2>1 DEF Slot
  <2> QED
    BY <2>1, <2>2, <2>e DEF Slot
<1>4. /\ att'[r] = None /\ (\A s \in Reader : s # r => att'[s] = att[s]) /\ att' \in [Reader -> Att \cup {None}]
  BY <1>1 DEF IInv, TypeOK, EngineTypeOK
<1>5. \A s \in Reader : s # r /\ att[s] # None => att[s] \in Att /\ att[s] # a
  BY <1>a, LocalIs DEF IInv, SlotOK
<1>f. PICK from \in 0..MaxOut \cup {None} : from = local[r].next
  BY LocalIs DEF IInv
<1>6. AskOK' /\ commands' \in Seq(Command) /\ Cardinality(FeedAt(commands')) = Cardinality(FeedAt(commands))
  <2>1. commands' = Append(commands, AttachCommand(r, from))
    BY <1>f DEF Reattach
  <2>2. \A k \in 1..Len(commands) : k \in 1..Len(commands) /\ commands[k].op # "detach"
    BY DEF IInv, AskOK
  <2>3. \A k \in 1..Len(commands) : \A s \in Reader :
           Asks(commands, k, s) => s # r /\ Asks(commands, k, s) /\ commands[k].from = commands[k].from
    BY <1>a DEF IInv, AskOK
  <2>4. from \in {None, local'[r].next}
    BY <1>f, <1>1
  <2> QED
    BY <1>1, <1>2, <1>4, <2>1, <2>2, <2>3, <2>4, AskAgain
<1>7. TypeOK' /\ FeedsOK'
  BY <1>1, <1>2, <1>3, <1>4, <1>6 DEF IInv, TypeOK, EngineTypeOK, FeedsOK, Reattach
<1>8. SlotOK'
  <2>1. ~first' => /\ \A b \in Att : ~fan'[b].live /\ fan'[b].queue = << >>
                   /\ \A s \in Reader : att'[s] = None
    BY <1>3, <1>4 DEF IInv, SlotOK, Reattach
  <2>2. ASSUME NEW b \in Att, fan'[b].open PROVE \E s \in Reader : att'[s] = b
    <3>1. b # a /\ fan[b].open
      BY <1>3, <2>2
    <3> QED
      BY <1>a, <1>4, <3>1 DEF IInv, SlotOK
  <2>3. \A s \in Reader : att'[s] # None => fan'[att'[s]].open
    BY <1>3, <1>4, <1>5 DEF IInv, SlotOK
  <2>4. \A s, t \in Reader : att'[s] = att'[t] /\ att'[s] # None => s = t
    BY <1>4 DEF IInv, SlotOK
  <2> QED
    BY <2>1, <2>2, <2>3, <2>4 DEF SlotOK
<1>9. SoundOK'
  <2>1. Sound(fan'[a])
    <3>1. Len(fan'[a].queue) = 0
      BY <1>3, EmptyIs DEF Slot
    <3>2. LastLag(fan'[a]) /\ OneWeighs(fan'[a].queue)
      BY <3>1 DEF LastLag, OneWeighs
    <3> QED
      BY <1>3, <3>2 DEF Sound, Bounded
  <2> QED
    BY <1>3, <2>1 DEF IInv, SoundOK
<1>10. HeldOK'
  BY <1>1, <1>3, <1>4, <1>5 DEF IInv, HeldOK, Held
<1>11. ViewsOK'
  <2>1. ASSUME NEW s \in Reader PROVE ViewOK(s)'
    <3>0. ViewOK(s)
      BY DEF IInv, ViewsOK
    <3>1. CASE s = r
      <4>1. local[r].next = local[r].view.pos
        <5>1. \/ fan[a].queue # << >> /\ fan[a].queue[1].type = "Lagged"
              \/ fan[a].queue = << >>
          BY <1>a DEF Reattach, IInv, TypeOK, EngineTypeOK, Slot
        <5> QED
          BY <1>a, <3>0, <3>1, <5>1 DEF ViewOK
      <4> QED
        BY <1>1, <1>2, <1>4, <3>0, <3>1, <4>1 DEF ViewOK
    <3>2. CASE s # r
      BY <1>1, <1>2, <1>3, <1>4, <1>5, <3>0, <3>2 DEF ViewOK
    <3> QED
      BY <3>1, <3>2
  <2> QED
    BY <2>1 DEF ViewsOK
<1> QED
  BY <1>6, <1>7, <1>8, <1>9, <1>10, <1>11 DEF IInv

(* The counter of an attachment loses the weight its view had in hand. *)
LEMMA ConsumeKeeps ==
  ASSUME IInv, NEW r \in Reader, Consume(r)
  PROVE  IInv'
<1>a. PICK a \in Att : a = att[r] /\ a # None
  BY LocalIs DEF IInv, AskOK, Consume
<1>h. PICK w \in Nat : w = local[r].hold /\ w = Held(r)
  BY LocalIs, SessionEngineAssumption DEF IInv, Consume, Held
<1>q. PICK z \in Nat, y \in Nat : z = fan[a].charge /\ y = QueuedWeight(fan[a].queue) /\ z = y + w
  <2>1. fan[a] \in Slot /\ Exact(fan[a], Held(r)) /\ Sound(fan[a])
    BY <1>a, LocalIs DEF IInv, HeldOK, SoundOK
  <2>2. fan[a].charge \in Nat /\ QueuedWeight(fan[a].queue) \in Nat
    <3>1. \E c : c \in Chunk
      BY ChunksAre, SessionEngineAssumption
    <3> QED
      BY <2>1, <3>1, WeightAppend DEF Slot
  <2> QED
    BY <1>h, <2>1, <2>2 DEF Exact
<1>1. /\ local' = [local EXCEPT ![r].hold = None] /\ out' = out /\ att' = att
      /\ fan' = [fan EXCEPT ![a].charge = IF fan[a].charge > w THEN fan[a].charge - w ELSE 0]
  BY <1>a, <1>h DEF Consume, Consumed, IInv, TypeOK, EngineTypeOK
<1>2. Head0 \in Nat /\ Head0' = Head0
  BY <1>1, HeadIs DEF IInv, TypeOK, Head0
<1>3. (IF z > w THEN z - w ELSE 0) = y
  BY <1>q
<1>4. /\ fan'[a] \in Slot /\ fan'[a].charge = y /\ fan'[a].queue = fan[a].queue /\ fan'[a].live = fan[a].live
      /\ fan'[a].open = fan[a].open /\ (\A b \in Att : b # a => fan'[b] = fan[b]) /\ fan' \in [Att -> Slot]
  <2>1. fan[a] \in Slot /\ fan \in [Att -> Slot] /\ fan' = [fan EXCEPT ![a] = [fan[a] EXCEPT !.charge = y]]
    BY <1>1, <1>q, <1>3 DEF IInv, TypeOK, EngineTypeOK
  <2>2. [fan[a] EXCEPT !.charge = y] \in Slot
    BY <2>1 DEF Slot
  <2> QED
    BY <2>1, <2>2 DEF Slot
<1>5. /\ local'[r].open = local[r].open /\ local'[r].hold = None /\ local'[r].next = local[r].next
      /\ local'[r].view = local[r].view
      /\ (\A s \in Reader : s # r => local'[s] = local[s]) /\ local' \in [Reader -> LocalState]
  <2>1. local[r] \in LocalState /\ local'[r] = [local[r] EXCEPT !.hold = None]
    BY <1>1 DEF IInv, TypeOK
  <2> QED
    BY <1>1, <2>1 DEF IInv, TypeOK, LocalState
<1>6. \A s \in Reader : s # r /\ att[s] # None => att[s] \in Att /\ att[s] # a
  BY <1>a, LocalIs DEF IInv, SlotOK
<1>7. TypeOK' /\ FeedsOK'
  BY <1>1, <1>2, <1>4, <1>5 DEF IInv, TypeOK, EngineTypeOK, FeedsOK, Consume
<1>8. AskOK'
  BY <1>1, <1>5 DEF IInv, AskOK, Asks, Consume
<1>9. SlotOK'
  BY <1>1, <1>4, LocalIs DEF IInv, SlotOK, Consume
<1>10. SoundOK'
  <2>1. Sound(fan'[a])
    <3>1. Sound(fan[a])
      BY DEF IInv, SoundOK
    <3>2. LastLag(fan'[a])
      BY <1>4, <3>1 DEF Sound, LastLag
    <3>3. Bounded(fan'[a])
      BY <1>q, <1>4, <3>1, SessionEngineAssumption DEF Sound, Bounded
    <3>4. QueuedWeight(fan'[a].queue) <= fan'[a].charge
      BY <1>q, <1>4
    <3> QED
      BY <3>2, <3>3, <3>4 DEF Sound
  <2> QED
    BY <1>4, <2>1 DEF IInv, SoundOK
<1>11. HeldOK'
  <2>1. ASSUME NEW s \in Reader, att'[s] # None PROVE Exact(fan'[att'[s]], Held(s)')
    <3>1. CASE s = r
      <4>1. Held(s)' = 0 /\ att'[s] = a
        BY <1>a, <1>1, <1>5, <3>1 DEF Held
      <4> QED
        BY <1>q, <1>4, <4>1 DEF Exact
    <3>2. CASE s # r
      BY <1>1, <1>4, <1>5, <1>6, <2>1, <3>2 DEF IInv, HeldOK, Held
    <3> QED
      BY <3>1, <3>2
  <2> QED
    BY <2>1 DEF HeldOK
<1>12. ViewsOK'
  <2>1. ASSUME NEW s \in Reader PROVE ViewOK(s)'
    <3>0. ViewOK(s) /\ att'[s] = att[s] /\ local'[s].view = local[s].view /\ local'[s].next = local[s].next
      BY <1>1, <1>5 DEF IInv, ViewsOK
    <3>1. att[s] # None => fan'[att[s]].queue = fan[att[s]].queue /\ fan'[att[s]].live = fan[att[s]].live
      BY <1>a, <1>4, <1>6
    <3> QED
      BY <1>2, <3>0, <3>1 DEF ViewOK, Flowing
  <2> QED
    BY <2>1 DEF ViewsOK
<1> QED
  BY <1>7, <1>8, <1>9, <1>10, <1>11, <1>12 DEF IInv

(* What the view makes of the chunk it is given, and what that leaves queued. *)
Forwards(r, a, c, g) ==
  /\ a \in Att /\ c \in Chunk /\ c = fan[a].queue[1] /\ c.type # "Lagged" /\ fan[a].queue # << >>
  /\ local'[r] = [ open |-> local[r].open, hold |-> Weight(c), next |-> NextOffset(local[r], c),
                   view |-> Shown(local[r].view, c) ]
  /\ (\A s \in Reader : s # r => local'[s] = local[s]) /\ local[r].hold = None
  /\ fan'[a] = [fan[a] EXCEPT !.queue = Tail(fan[a].queue)] /\ (\A b \in Att : b # a => fan'[b] = fan[b])
  /\ g \in Nat /\ local[r].view.pos <= g /\ g <= Head0
  /\ Flowing(<< >>, fan'[a], g, Head0) /\ StartsIn(fan'[a].queue, {g})
  /\ c.type = "Snapshot" => fan'[a].queue # << >> /\ fan'[a].queue[1].type = "Output"
  /\ c.type = "Output" => c.at = local[r].view.pos

LEMMA ForwardMoves ==
  ASSUME IInv, NEW r \in Reader, Forward(r), NEW a, a = att[r], NEW c, c = Head(fan[a].queue),
         NEW g, g = IF Placed(c) THEN End(c) ELSE local[r].view.pos
  PROVE  Forwards(r, a, c, g)
<1>1. a \in Att /\ fan[a] \in Slot /\ fan \in [Att -> Slot]
  BY LocalIs DEF Forward, IInv, TypeOK, EngineTypeOK
<1>2. fan[a].queue \in Seq(Chunk) /\ fan[a].queue # << >>
  BY <1>1 DEF Forward, Slot
<1>q. PICK q \in Seq(Chunk) : q = fan[a].queue
  BY <1>2
<1>t. PICK t : t = Tail(q)
  OBVIOUS
<1>3. t \in Seq(Chunk) /\ c \in Chunk /\ c = q[1]
  BY <1>2, <1>q, <1>t, TailIs
<1>4. c.type # "Lagged" /\ local[r].hold = None
  BY DEF Forward
<1>5. /\ local'[r] = [ open |-> local[r].open, hold |-> Weight(c), next |-> NextOffset(local[r], c),
                       view |-> Shown(local[r].view, c) ]
      /\ \A s \in Reader : s # r => local'[s] = local[s]
  <2>1. local \in [Reader -> LocalState] /\ local[r] \in LocalState
    BY DEF IInv, TypeOK
  <2>2. local' = [local EXCEPT ![r] = [local[r] EXCEPT !.hold = Weight(c), !.view = Shown(local[r].view, c),
                                                     !.next = NextOffset(local[r], c)]]
    BY <2>1 DEF Forward, Charged
  <2> QED
    BY <2>1, <2>2 DEF LocalState
<1>6. fan'[a] = [fan[a] EXCEPT !.queue = t] /\ (\A b \in Att : b # a => fan'[b] = fan[b])
  BY <1>1, <1>q, <1>t DEF Forward, Received
<1>7. fan'[a].queue = t /\ fan'[a].live = fan[a].live
  BY <1>1, <1>3, <1>6 DEF Slot
<1>p. PICK p \in Nat : p = local[r].view.pos
  BY LocalIs DEF IInv
<1>h. PICK h \in Nat : h = Head0
  BY HeadIs DEF IInv, TypeOK
<1>8. Flowing(<< >>, fan[a], p, h) /\ StartsIn(q, {p})
  BY <1>1, <1>p, <1>h, <1>q, AttIs DEF IInv, ViewsOK, ViewOK
<1>9. Flows(q, p, h) /\ (fan[a].live => Reaches(q, p, h))
  <2>1. << >> \o q = q
    BY CatNone
  <2> QED
    BY <1>8, <1>q, <2>1 DEF Flowing
<1>10. /\ Flows(t, g, h) /\ (Reaches(q, p, h) => Reaches(t, g, h)) /\ StartsIn(t, {g})
       /\ c.type = "Snapshot" => t # << >> /\ t[1].type = "Output"
       /\ p <= g /\ g <= h /\ g \in Nat
  <2>1. q # << >> /\ q[1].type # "Lagged" /\ g = IF Placed(q[1]) THEN End(q[1]) ELSE p
    BY <1>2, <1>3, <1>4, <1>q, <1>p
  <2> QED
    BY <1>3, <1>9, <1>t, <2>1, FlowTake
<1>11. Flowing(<< >>, fan'[a], g, h)
  <2>1. << >> \o t = t
    BY <1>3, CatNone
  <2> QED
    BY <1>7, <1>9, <1>10, <2>1 DEF Flowing
<1>12. c.type = "Output" => c.at = p
  BY <1>2, <1>3, <1>q, <1>8 DEF StartsIn
<1> QED
  BY <1>1, <1>2, <1>3, <1>4, <1>5, <1>6, <1>7, <1>10, <1>11, <1>12, <1>q, <1>t, <1>p, <1>h DEF Forwards

(* The view is where the chunk leaves it, and nothing was lost or repeated. *)
LEMMA ShownIs ==
  ASSUME NEW v \in View, NEW c \in Chunk, NEW g, g = IF Placed(c) THEN End(c) ELSE v.pos, g <= MaxOut,
         c.type # "Lagged", c.type = "Output" => c.at = v.pos, v.fault = "none"
  PROVE  Shown(v, c) \in View /\ Shown(v, c).pos = g /\ Shown(v, c).fault = "none"
<1>1. v.pos \in 0..MaxOut /\ v.primary \in BOOLEAN /\ c.at \in Nat /\ c.len \in Nat /\ c.at \in 0..MaxOut /\ MaxOut \in Nat
  BY SessionEngineAssumption DEF View, Chunk
<1>2. CASE c.type = "Snapshot"
  <2>1. PICK b \in BOOLEAN : b = ~AltAfter(out, c.at)
    OBVIOUS
  <2>2. Shown(v, c) = [ pos |-> c.at, primary |-> b, fault |-> "none" ]
    BY <1>2, <2>1 DEF Shown
  <2> QED
    BY <1>1, <1>2, <2>2 DEF View, Placed, End
<1>3. CASE c.type = "Output" /\ c.len > 0
  <2>1. c.at + c.len \in 0..MaxOut /\ g = c.at + c.len
    BY <1>1, <1>3 DEF Placed, End
  <2>2. ~(c.at > v.pos) /\ ~(c.at < v.pos)
    BY <1>1, <1>3
  <2>3. Shown(v, c) = [ v EXCEPT !.pos = c.at + c.len, !.fault = v.fault ]
    BY <1>3, <2>2 DEF Shown
  <2> QED
    BY <2>1, <2>3 DEF View
<1>4. CASE c.type = "Output" /\ ~(c.len > 0)
  <2>1. Shown(v, c) = v /\ g = v.pos
    BY <1>1, <1>4 DEF Shown, Placed, End
  <2> QED
    BY <2>1
<1>5. CASE c.type \notin {"Snapshot", "Output"}
  BY <1>5 DEF Shown, Placed
<1> QED
  BY <1>2, <1>3, <1>4, <1>5

LEMMA ForwardKeeps ==
  ASSUME IInv, NEW r \in Reader, Forward(r)
  PROVE  IInv'
<1>a. PICK a : a = att[r]
  OBVIOUS
<1>c. PICK c : c = Head(fan[a].queue)
  OBVIOUS
<1>g. PICK g : g = IF Placed(c) THEN End(c) ELSE local[r].view.pos
  OBVIOUS
<1>f. Forwards(r, a, c, g)
  BY <1>a, <1>c, <1>g, ForwardMoves
<1>1. /\ a \in Att /\ c \in Chunk /\ c = fan[a].queue[1] /\ c.type # "Lagged" /\ fan[a].queue # << >>
      /\ local'[r] = [ open |-> local[r].open, hold |-> Weight(c), next |-> NextOffset(local[r], c),
                       view |-> Shown(local[r].view, c) ]
      /\ (\A s \in Reader : s # r => local'[s] = local[s]) /\ local[r].hold = None
      /\ fan'[a] = [fan[a] EXCEPT !.queue = Tail(fan[a].queue)] /\ (\A b \in Att : b # a => fan'[b] = fan[b])
      /\ g \in Nat /\ local[r].view.pos <= g /\ g <= Head0
      /\ Flowing(<< >>, fan'[a], g, Head0) /\ StartsIn(fan'[a].queue, {g})
      /\ c.type = "Snapshot" => fan'[a].queue # << >> /\ fan'[a].queue[1].type = "Output"
      /\ c.type = "Output" => c.at = local[r].view.pos
  BY <1>f DEF Forwards
<1>2. Head0 \in Nat /\ Head0 <= MaxOut /\ Head0' = Head0 /\ MaxOut \in Nat /\ SnapSize \in Nat
  BY HeadIs, SessionEngineAssumption DEF IInv, TypeOK, Head0, Forward
<1>3. ViewOK(r) /\ local[r].view \in View /\ local[r].next \in 0..MaxOut /\ local[r].open \in BOOLEAN
  BY LocalIs DEF IInv, ViewsOK
<1>4. /\ local'[r].view \in View /\ local'[r].view.pos = g /\ local'[r].view.fault = "none"
      /\ local'[r].open = local[r].open /\ local'[r].hold = Weight(c) /\ local'[r].next = NextOffset(local[r], c)
  <2>1. g <= MaxOut /\ local[r].view.fault = "none"
    BY <1>1, <1>2, <1>3 DEF ViewOK
  <2>2. Shown(local[r].view, c) \in View /\ Shown(local[r].view, c).pos = g /\ Shown(local[r].view, c).fault = "none"
    BY <1>1, <1>3, <1>g, <2>1, ShownIs
  <2> QED
    BY <1>1, <2>2
<1>5. Weight(c) \in 0..(MaxOut + SnapSize) /\ Weight(c) \in Nat /\ Weight(c) # None
  <2>1. Weight(c) \in Nat /\ (Weight(c) = SnapSize \/ Weight(c) = c.len) /\ c.len <= MaxOut
    BY <1>1, <1>2 DEF Weight, Chunk
  <2> QED
    BY <1>2, <2>1, SessionEngineAssumption
<1>6. /\ local'[r].next \in 0..MaxOut
      /\ local'[r].next # g => fan'[a].queue # << >> /\ fan'[a].queue[1].type = "Output"
  <2>1. CASE c.type = "Output"
    BY <1>1, <1>2, <1>4, <1>g, <2>1 DEF NextOffset, Placed, End
  <2>2. CASE c.type = "Snapshot"
    BY <1>1, <1>3, <1>4, <2>2 DEF NextOffset
  <2>3. CASE c.type \notin {"Output", "Snapshot"}
    <3>1. local[r].next = local[r].view.pos
      BY <1>1, <1>3, <1>a, <2>3 DEF ViewOK
    <3> QED
      BY <1>3, <1>4, <1>g, <2>3, <3>1 DEF NextOffset, Placed
  <2> QED
    BY <2>1, <2>2, <2>3
<1>7. local' \in [Reader -> LocalState]
  <2>1. local'[r] \in LocalState
    BY <1>1, <1>3, <1>4, <1>5, <1>6 DEF LocalState
  <2>2. local' = [s \in Reader |-> local'[s]]
    BY DEF Forward, IInv, TypeOK
  <2>3. \A s \in Reader : local'[s] \in LocalState
    BY <1>1, <2>1 DEF IInv, TypeOK
  <2> QED
    BY <2>2, <2>3
<1>8. PICK q \in Seq(Chunk), t \in Seq(Chunk) : q = fan[a].queue /\ t = Tail(q) /\ fan[a] \in Slot
  <2>1. fan[a] \in Slot /\ fan[a].queue \in Seq(Chunk)
    BY <1>1 DEF IInv, TypeOK, EngineTypeOK, Slot
  <2>2. Tail(fan[a].queue) \in Seq(Chunk)
    BY <1>1, <2>1, TailIs
  <2> QED
    BY <2>1, <2>2
<1>9. /\ fan'[a] \in Slot /\ fan'[a].queue = t /\ fan'[a].charge = fan[a].charge /\ fan'[a].live = fan[a].live
      /\ fan'[a].open = fan[a].open /\ fan' \in [Att -> Slot]
  <2>1. fan'[a] = [fan[a] EXCEPT !.queue = t]
    BY <1>1, <1>8
  <2>2. /\ fan'[a] \in Slot /\ fan'[a].queue = t /\ fan'[a].charge = fan[a].charge /\ fan'[a].live = fan[a].live
        /\ fan'[a].open = fan[a].open
    BY <1>8, <2>1 DEF Slot
  <2>3. fan' = [b \in Att |-> fan'[b]]
    BY DEF Forward, Received, IInv, TypeOK, EngineTypeOK
  <2>4. \A b \in Att : fan'[b] \in Slot
    BY <1>1, <2>2 DEF IInv, TypeOK, EngineTypeOK
  <2> QED
    BY <2>2, <2>3, <2>4
<1>10. /\ Len(q) \in Nat /\ Len(t) \in Nat /\ Len(t) + 1 = Len(q) /\ 1 \in 1..Len(q)
       /\ \A k \in 1..Len(t) : t[k] = q[k + 1] /\ k + 1 \in 1..Len(q)
  BY <1>1, <1>8, TailIs
<1>11. att' = att /\ out' = out /\ first' = first /\ commands' = commands
  BY DEF Forward
<1>12. \A s \in Reader : s # r /\ att[s] # None => att[s] \in Att /\ att[s] # a
  BY <1>1, <1>a, LocalIs, AttIs DEF IInv, SlotOK
<1>13. TypeOK' /\ FeedsOK'
  BY <1>2, <1>7, <1>9 DEF IInv, TypeOK, EngineTypeOK, FeedsOK, Forward
<1>14. AskOK'
  <2>1. att[r] # None
    BY DEF Forward
  <2> QED
    BY <1>1, <1>4, <1>11, <2>1 DEF IInv, AskOK, Asks
<1>15. SlotOK'
  <2>1. first
    BY <1>1, <1>a, AttIs DEF IInv, SlotOK
  <2>2. \A b \in Att : fan'[b].open = fan[b].open
    BY <1>1, <1>9
  <2>3. \A s \in Reader : att[s] # None => att[s] \in Att
    BY LocalIs DEF IInv
  <2> QED
    BY <1>11, <2>1, <2>2, <2>3 DEF IInv, SlotOK
<1>w. PICK x \in Nat, y \in Nat, z \in Nat, w \in Nat :
        /\ x = QueuedWeight(q) /\ y = QueuedWeight(t) /\ z = fan[a].charge /\ w = Weight(c) /\ x = w + y /\ z = x + 0
  <2>1. QueuedWeight(q) = Weight(Head(q)) + QueuedWeight(t) /\ QueuedWeight(t) \in Nat /\ Head(q) = c
    BY <1>1, <1>8, <1>c, WeightTail
  <2>2. Exact(fan[a], Held(r)) /\ Held(r) = 0
    BY <1>1, <1>a, AttIs DEF IInv, HeldOK, Held
  <2>3. fan[a].charge \in Nat
    BY <1>8 DEF Slot
  <2>4. fan[a].charge = QueuedWeight(q) + 0
    BY <1>8, <2>2 DEF Exact
  <2> QED
    BY <1>5, <2>1, <2>3, <2>4
<1>16. SoundOK'
  <2>1. Sound(fan'[a])
    <3>1. Sound(fan[a])
      BY <1>1 DEF IInv, SoundOK
    <3>2. LastLag(fan'[a])
      <4>1. ASSUME NEW k \in 1..Len(t), t[k].type = "Lagged" PROVE ~fan[a].live /\ k = Len(t)
        <5>1. q[k + 1].type = "Lagged" /\ k + 1 \in 1..Len(q)
          BY <1>10, <4>1
        <5>2. ~fan[a].live /\ k + 1 = Len(q)
          BY <1>8, <3>1, <5>1 DEF Sound, LastLag
        <5> QED
          BY <1>10, <5>2
      <4> QED
        BY <1>9, <4>1 DEF LastLag
    <3>3. Bounded(fan'[a])
      <4>1. ASSUME OneWeighs(q) PROVE OneWeighs(t)
        <5>1. ASSUME NEW j \in 1..Len(t), NEW k \in 1..Len(t), Weight(t[j]) > 0, Weight(t[k]) > 0 PROVE j = k
          <6>1. j + 1 = k + 1
            BY <1>10, <4>1, <5>1 DEF OneWeighs
          <6> QED
            BY <6>1
        <5> QED
          BY <5>1 DEF OneWeighs
      <4> QED
        BY <1>8, <1>9, <3>1, <4>1 DEF Sound, Bounded
    <3>4. QueuedWeight(fan'[a].queue) <= fan'[a].charge
      BY <1>9, <1>w
    <3> QED
      BY <3>2, <3>3, <3>4 DEF Sound
  <2> QED
    BY <1>1, <2>1 DEF IInv, SoundOK
<1>17. HeldOK'
  <2>1. ASSUME NEW s \in Reader, att'[s] # None PROVE Exact(fan'[att'[s]], Held(s)')
    <3>1. CASE s = r
      <4>1. Held(s)' = w /\ att'[s] = a
        BY <1>4, <1>5, <1>11, <1>a, <1>w, <3>1 DEF Held
      <4>2. z = y + w
        BY <1>w
      <4> QED
        BY <1>9, <1>w, <4>1, <4>2 DEF Exact
    <3>2. CASE s # r
      BY <1>1, <1>11, <1>12, <2>1, <3>2 DEF IInv, HeldOK, Held
    <3> QED
      BY <3>1, <3>2
  <2> QED
    BY <2>1 DEF HeldOK
<1>18. ViewsOK'
  <2>1. ASSUME NEW s \in Reader PROVE ViewOK(s)'
    <3>1. CASE s = r
      BY <1>1, <1>2, <1>4, <1>6, <1>11, <1>a, <3>1, AttIs DEF ViewOK
    <3>2. CASE s # r
      <4>1. ViewOK(s) /\ local'[s] = local[s] /\ (att[s] # None => fan'[att[s]] = fan[att[s]])
        BY <1>1, <1>12, <3>2 DEF IInv, ViewsOK
      <4> QED
        BY <1>2, <1>11, <4>1 DEF ViewOK
    <3> QED
      BY <3>1, <3>2
  <2> QED
    BY <2>1 DEF ViewsOK
<1> QED
  BY <1>13, <1>14, <1>15, <1>16, <1>17, <1>18 DEF IInv

-----------------------------------------------------------------------------
LEMMA InitOK ==
  Init => IInv
<1> SUFFICES ASSUME Init PROVE IInv
  OBVIOUS
<1>0. /\ 0 \in Nat /\ MaxOut \in Nat /\ MaxFeed \in Nat /\ MaxTimeOut \in Nat /\ Limit \in Nat /\ SnapSize \in Nat
      /\ None \notin Nat /\ None \notin Att
  BY AttIs, SessionEngineAssumption, LocalViewAssumption
<1>1. out = << >> /\ commands = << >> /\ Len(out) = 0 /\ Len(commands) = 0 /\ Head0 = 0
  BY DEF Init, EngineInit, Head0
<1>2. /\ NoSlot \in Slot /\ NoSlot.queue = << >> /\ ~NoSlot.live /\ ~NoSlot.open /\ NoSlot.charge = 0
      /\ Len(NoSlot.queue) = 0
  <2>1. << >> \in Seq(Chunk)
    OBVIOUS
  <2> QED
    BY <2>1 DEF NoSlot, Slot
<1>3. (\A a \in Att : fan[a] = NoSlot) /\ fan \in [Att -> Slot]
  BY <1>2 DEF Init, EngineInit
<1>4. /\ NewLocal \in LocalState /\ NewLocal.hold = None /\ NewLocal.next = 0 /\ ~NewLocal.open
      /\ NewLocal.view.pos = 0 /\ NewLocal.view.fault = "none"
  BY <1>0 DEF NewLocal, LocalState, EmptyView, View
<1>5. (\A r \in Reader : local[r] = NewLocal /\ att[r] = None) /\ local \in [Reader -> LocalState]
      /\ att \in [Reader -> Att \cup {None}]
  BY <1>4 DEF Init, EngineInit
<1>6. EngineTypeOK
  <2>1. out \in Seq({"text", "switch"}) /\ commands \in Seq(Command)
    <3>1. << >> \in Seq({"text", "switch"}) /\ << >> \in Seq(Command)
      OBVIOUS
    <3> QED
      BY <1>1, <3>1
  <2>2. /\ phase \in {"drain", "commands"} /\ wasAlt \in BOOLEAN /\ saw \subseteq Att /\ first \in BOOLEAN
        /\ feeds \in 0..MaxFeed
    <3>1. phase = "drain" /\ wasAlt = FALSE /\ saw = {} /\ first = FALSE /\ feeds = 0
      BY DEF Init, EngineInit
    <3>2. {} \subseteq Att
      OBVIOUS
    <3>3. saw \subseteq Att
      BY <3>1, <3>2
    <3>4. feeds \in 0..MaxFeed
      BY <1>0, <3>1
    <3> QED
      BY <3>1, <3>3, <3>4
  <2> QED
    BY <1>0, <1>1, <1>3, <1>5, <2>1, <2>2 DEF EngineTypeOK
<1>7. TypeOK
  BY <1>0, <1>5, <1>6 DEF TypeOK, Init
<1>8. FeedsOK
  <2>1. FeedAt(commands) = {}
    BY <1>1 DEF FeedAt
  <2>2. Cardinality(FeedAt(commands)) = 0
    BY <2>1, FS_EmptySet
  <2> QED
    BY <1>0, <1>1, <2>2 DEF FeedsOK, Init, EngineInit
<1>9. AskOK
  BY <1>1, <1>4, <1>5 DEF AskOK
<1>10. SlotOK
  BY <1>2, <1>3, <1>5 DEF SlotOK
<1>11. SoundOK
  <2>1. LastLag(NoSlot) /\ OneWeighs(NoSlot.queue)
    BY <1>2 DEF LastLag, OneWeighs
  <2>2. Sound(NoSlot)
    BY <1>2, <2>1 DEF Sound, Bounded
  <2> QED
    BY <1>3, <2>2 DEF SoundOK
<1>12. HeldOK
  BY <1>5 DEF HeldOK
<1>13. ViewsOK
  BY <1>0, <1>1, <1>4, <1>5 DEF ViewsOK, ViewOK
<1> QED
  BY <1>7, <1>8, <1>9, <1>10, <1>11, <1>12, <1>13 DEF IInv

LEMMA StepKeeps ==
  ASSUME SnapSize <= Limit, IInv, [Next]_localVars
  PROVE  IInv'
<1>1. CASE Next
  <2>1. CASE (\E k \in {"text", "switch"} : Drain(k)) /\ UNCHANGED <<local, timeouts>>
    BY <2>1, DrainKeeps
  <2>2. CASE OwnerStep /\ UNCHANGED <<local, timeouts>>
    <3>1. CASE EndDrain
      BY <2>2, <3>1, EndDrainKeeps
    <3>2. CASE ServeAttach
      BY <2>2, <3>2, ServeAttachKeeps
    <3>3. CASE ServeDetach
      <4>1. commands # << >> /\ Head(commands).op = "detach" /\ commands \in Seq(Command)
        BY <3>3 DEF ServeDetach, IInv, TypeOK, EngineTypeOK
      <4>2. 1 \in 1..Len(commands) /\ Head(commands) = commands[1]
        BY <4>1, TailIs
      <4> QED
        BY <4>1, <4>2 DEF IInv, AskOK
    <3>4. CASE ServeFeed
      BY <2>2, <3>4, ServeFeedKeeps
    <3>5. CASE EndTick
      BY <2>2, <3>5, EndTickKeeps
    <3> QED
      BY <2>2, <3>1, <3>2, <3>3, <3>4, <3>5 DEF OwnerStep
  <2>3. CASE AskFeed /\ UNCHANGED <<local, timeouts>>
    BY <2>3, AskFeedKeeps
  <2>4. ASSUME NEW r \in Reader, ReaderStep(r) \/ AttachTimesOut(r) PROVE IInv'
    <3>1. CASE Open(r)
      BY <3>1, OpenKeeps
    <3>2. CASE Forward(r)
      BY <3>2, ForwardKeeps
    <3>3. CASE Consume(r)
      BY <3>3, ConsumeKeeps
    <3>4. CASE Reattach(r)
      BY <3>4, ReattachKeeps
    <3>5. CASE AttachTimesOut(r)
      BY <3>5, AttachTimesOutKeeps
    <3> QED
      BY <2>4, <3>1, <3>2, <3>3, <3>4, <3>5 DEF ReaderStep
  <2> QED
    BY <1>1, <2>1, <2>2, <2>3, <2>4 DEF Next
<1>2. CASE UNCHANGED localVars
  <2>1. SlotOK' /\ SoundOK' /\ HeldOK' /\ ViewsOK'
    BY <1>2, NothingGoes DEF localVars, engineVars
  <2>2. TypeOK' /\ FeedsOK' /\ AskOK'
    BY <1>2 DEF localVars, engineVars, IInv, TypeOK, EngineTypeOK, FeedsOK, AskOK, Asks, Head0
  <2> QED
    BY <2>1, <2>2 DEF IInv
<1> QED
  BY <1>1, <1>2

(* IInv is an inductive invariant of a program whose snapshots fit the queue:
   the chunks queued for a view go on where it is, what its attachment is
   charged with is queued or in its hand, and what it waits for it asked for
   once, from where it is. *)
THEOREM IInvHolds ==
  ASSUME SnapSize <= Limit
  PROVE  Spec => []IInv
<1>1. IInv /\ [Next]_localVars => IInv'
  BY StepKeeps
<1> QED
  BY <1>1, InitOK, PTL DEF Spec

(* What the forwarder has in hand is the weight of a chunk, and offsets stay
   within the output (forward_local). *)
THEOREM TypeCorrect ==
  ASSUME SnapSize <= Limit
  PROVE  Spec => []TypeOK
<1>1. IInv => TypeOK
  BY DEF IInv
<1> QED
  BY <1>1, IInvHolds, PTL

(* Through lagging, a wrapped journal, resynchronisation and abandoned attaches
   no view loses or repeats a byte: next_offset is where the view is whenever
   forward_local attaches again. *)
THEOREM ViewsAreExactHolds ==
  ASSUME SnapSize <= Limit
  PROVE  Spec => []ViewsAreExact
<1>1. IInv => ViewsAreExact
  BY DEF IInv, ViewsOK, ViewOK, ViewsAreExact
<1> QED
  BY <1>1, IInvHolds, PTL

(* The counter of an attachment that is read is what is queued and in hand:
   Attachment::consumed gives back exactly what deliver charged. *)
THEOREM ChargeIsExactHolds ==
  ASSUME SnapSize <= Limit
  PROVE  Spec => []ChargeIsExact
<1>1. IInv => ChargeIsExact
  BY DEF IInv, HeldOK, Exact, Held, ChargeIsExact
<1> QED
  BY <1>1, IInvHolds, PTL

(* Lagged is the last chunk of its attachment (fanout.rs deliver). *)
THEOREM LaggedIsLastHolds ==
  ASSUME SnapSize <= Limit
  PROVE  Spec => []LaggedIsLast
<1>1. IInv => LaggedIsLast
  BY DEF IInv, SoundOK, Sound, LastLag, LaggedIsLast
<1> QED
  BY <1>1, IInvHolds, PTL

(* What an attachment has queued stays within STREAM_QUEUE_BYTES, unless it is
   one chunk that found the queue empty. *)
THEOREM QueueIsBoundedHolds ==
  ASSUME SnapSize <= Limit
  PROVE  Spec => []QueueIsBounded
<1>1. IInv => QueueIsBounded
  BY SoundIsBounded DEF IInv, TypeOK, SoundOK
<1> QED
  BY <1>1, IInvHolds, PTL

(* Every step of a view keeps what OutputView promises: the session's output
   grows byte by byte, and a view only ever moves on, never past it. *)
THEOREM PromiseSteps ==
  ASSUME SnapSize <= Limit
  PROVE  Spec => Promise!Init /\ [][Promise!Next]_(Promise!outputVars)
<1>1. Init => Promise!Init
  <2>1. ASSUME Init PROVE Promise!Init
    <3>1. Head0 = 0 /\ \A r \in Reader : local[r].view.pos = 0
      BY <2>1 DEF Init, EngineInit, Head0, NewLocal, EmptyView
    <3> QED
      BY <3>1 DEF Promise!Init
  <2> QED
    BY <2>1
<1>2. IInv /\ [Next]_localVars => [Promise!Next]_(Promise!outputVars)
  <2> SUFFICES ASSUME IInv, [Next]_localVars PROVE [Promise!Next]_(Promise!outputVars)
    OBVIOUS
  <2>1. CASE (\E k \in {"text", "switch"} : Broadcast(k)) /\ local' = local
    <3>1. Head0' = Head0 + 1
      BY <2>1, Appended DEF Broadcast, Head0, IInv, TypeOK, EngineTypeOK
    <3>2. Promise!Make
      BY <2>1, <3>1 DEF Promise!Make
    <3> QED
      BY <3>2 DEF Promise!Next
  <2>2. CASE out' = out /\ \A r \in Reader : local'[r].view.pos = local[r].view.pos
    BY <2>2 DEF Promise!outputVars, Head0
  <2>3. ASSUME NEW r \in Reader, Forward(r) PROVE [Promise!Next]_(Promise!outputVars)
    <3>a. PICK a : a = att[r]
      OBVIOUS
    <3>c. PICK c : c = Head(fan[a].queue)
      OBVIOUS
    <3>g. PICK g : g = IF Placed(c) THEN End(c) ELSE local[r].view.pos
      OBVIOUS
    <3>f. Forwards(r, a, c, g)
      BY <2>3, <3>a, <3>c, <3>g, ForwardMoves
    <3>1. /\ c \in Chunk /\ c.type # "Lagged" /\ (c.type = "Output" => c.at = local[r].view.pos)
          /\ local'[r].view = Shown(local[r].view, c) /\ (\A s \in Reader : s # r => local'[s] = local[s])
          /\ g \in Nat /\ local[r].view.pos <= g /\ g <= Head0
      BY <3>f DEF Forwards
    <3>2. Head0 \in Nat /\ Head0 <= MaxOut /\ Head0' = Head0 /\ MaxOut \in Nat /\ local[r].view \in View
          /\ local[r].view.pos \in Nat /\ local[r].view.fault = "none"
      BY <2>3, HeadIs, LocalIs, SessionEngineAssumption DEF IInv, TypeOK, Head0, Forward, ViewsOK, ViewOK
    <3>3. local'[r].view.pos = g
      <4>1. g <= MaxOut
        BY <3>1, <3>2
      <4> QED
        BY <3>1, <3>2, <3>g, <4>1, ShownIs
    <3>4. CASE g = local[r].view.pos
      <4>1. \A s \in Reader : local'[s].view.pos = local[s].view.pos
        BY <3>1, <3>3, <3>4
      <4> QED
        BY <3>2, <4>1 DEF Promise!outputVars
    <3>5. CASE g # local[r].view.pos
      <4>p. PICK p \in Nat : p = local[r].view.pos
        BY <3>2
      <4>1. p < Head0 /\ g \in (p + 1)..Head0
        BY <3>1, <3>2, <3>5, <4>p
      <4>2. [s \in Reader |-> local'[s].view.pos] = [[s \in Reader |-> local[s].view.pos] EXCEPT ![r] = g]
        BY <3>1, <3>3
      <4>3. Promise!Show(r)
        BY <3>2, <4>p, <4>1, <4>2 DEF Promise!Show
      <4> QED
        BY <4>3 DEF Promise!Next
    <3> QED
      BY <3>4, <3>5
  <2>4. \/ (\E k \in {"text", "switch"} : Broadcast(k)) /\ local' = local
        \/ out' = out /\ \A r \in Reader : local'[r].view.pos = local[r].view.pos
        \/ \E r \in Reader : Forward(r)
    <3>1. ASSUME NEW r \in Reader, Open(r) \/ Consume(r) PROVE \A s \in Reader : local'[s].view.pos = local[s].view.pos
      BY <3>1 DEF Open, Consume, IInv, TypeOK, LocalState
    <3> QED
      BY <3>1 DEF Next, OwnerStep, Drain, EndDrain, ServeAttach, ServeDetach, ServeFeed, EndTick, AskFeed,
           ReaderStep, Open, Consume, Reattach, AttachTimesOut, localVars, engineVars
  <2> QED
    BY <2>1, <2>2, <2>3, <2>4
<1> QED
  BY <1>1, <1>2, IInvHolds, PTL DEF Spec
=============================================================================
