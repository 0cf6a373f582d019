------------------------- MODULE SessionEngine_proofs -------------------------
(***************************************************************************)
(* Lemmas about what an attachment's queue holds, for LocalView and        *)
(* HostView alike: the chunks on their way to a view follow one another    *)
(* without a gap, up to where the session is, or to a Lagged.              *)
(***************************************************************************)
EXTENDS SessionEngine, FiniteSetTheorems, WellFoundedInduction, TLAPS

(* Chunks that say how far the session is, and where they leave a view. *)
Placed(c) == c.type \in {"Snapshot", "Output"}
End(c)    == IF c.type = "Snapshot" THEN c.at ELSE c.at + c.len

(* Output starts where the chunk before it ends, and Lagged is the last. *)
Linked(q) ==
  /\ \A k \in 1..Len(q) : q[k].type = "Output" /\ k > 1 => Placed(q[k - 1]) /\ q[k].at = End(q[k - 1])
  /\ \A k \in 1..Len(q) : q[k].type = "Lagged" => k = Len(q)
  /\ \A j, k \in 1..Len(q) : j <= k /\ Placed(q[j]) /\ Placed(q[k]) => End(q[j]) <= End(q[k])

(* The empty output that carries the journal's head is behind its snapshot. *)
Completed(q) ==
  \A k \in 1..Len(q) : q[k].type = "Snapshot" =>
    k + 1 \in 1..Len(q) /\ q[k + 1].type = "Output" /\ q[k + 1].len = 0

(* From position p of the view, not beyond h, and up to h. *)
Within(q, p, h)  == p <= h /\ \A k \in 1..Len(q) : Placed(q[k]) => p <= End(q[k]) /\ End(q[k]) <= h
Reaches(q, p, h) == IF q = << >> THEN p = h ELSE Placed(q[Len(q)]) /\ End(q[Len(q)]) = h

(* What is on its way to a view that is at p.  The queue of an attachment that
   gets what the session puts out next also reaches where the session is. *)
Flows(q, p, h) == Linked(q) /\ Completed(q) /\ Within(q, p, h)

NoLag(q) == \A k \in 1..Len(q) : q[k].type # "Lagged"

(* A view at one of the positions P takes the head of the queue. *)
StartsIn(q, P) == q # << >> /\ q[1].type = "Output" => q[1].at \in P

LEMMA ChunkType ==
  ASSUME NEW c \in Chunk
  PROVE  c.at \in Nat /\ c.len \in Nat /\ End(c) \in Nat /\ Weight(c) \in Nat
BY SessionEngineAssumption DEF Chunk, End, Weight

LEMMA Appended ==
  ASSUME NEW S, NEW q \in Seq(S), NEW e \in S
  PROVE  /\ Append(q, e) \in Seq(S) /\ Len(q) \in Nat /\ Len(Append(q, e)) = Len(q) + 1
         /\ Append(q, e)[Len(q) + 1] = e /\ \A k \in 1..Len(q) : Append(q, e)[k] = q[k]
         /\ \A k : k \in 1..Len(Append(q, e)) <=> k \in 1..Len(q) \/ k = Len(q) + 1
         /\ Append(q, e) # << >> /\ Len(q) + 1 \notin 1..Len(q)
OBVIOUS

LEMMA EmptyIs ==
  ASSUME NEW S, NEW q \in Seq(S)
  PROVE  q = << >> <=> Len(q) = 0
OBVIOUS

LEMMA CatAppend ==
  ASSUME NEW S, NEW x \in Seq(S), NEW q \in Seq(S), NEW e \in S
  PROVE  x \o Append(q, e) = Append(x \o q, e) /\ x \o q \in Seq(S)
OBVIOUS

LEMMA CatNone ==
  ASSUME NEW S, NEW q \in Seq(S)
  PROVE  << >> \o q = q
OBVIOUS

LEMMA CatType ==
  ASSUME NEW S, NEW x \in Seq(S), NEW q \in Seq(S)
  PROVE  x \o q \in Seq(S)
OBVIOUS

(* The session goes on without the attachment. *)
LEMMA FlowLater ==
  ASSUME NEW q \in Seq(Chunk), NEW p \in Nat, NEW h \in Nat, NEW g \in Nat, h <= g, Flows(q, p, h)
  PROVE  Flows(q, p, g)
<1>1. \A k \in 1..Len(q) : End(q[k]) \in Nat
  BY ChunkType
<1> QED
  BY <1>1 DEF Flows, Within

(* A chunk that is not a snapshot and takes the session from h to g. *)
Carries(c, h, g) ==
  c \in Chunk /\ c.type # "Snapshot" /\ h <= g /\ (Placed(c) => c.at = h /\ End(c) = g)

(* Such a chunk behind the last. *)
LEMMA FlowChunk ==
  ASSUME NEW q \in Seq(Chunk), NEW p \in Nat, NEW h \in Nat, NEW c, NEW g \in Nat,
         Flows(q, p, h), Reaches(q, p, h), Carries(c, h, g),
         NEW r, r = Append(q, c)
  PROVE  /\ Flows(r, p, g) /\ (Placed(c) => Reaches(r, p, g))
         /\ (q # << >> => r[1] = q[1])
<1> USE DEF Carries
<1>0. PICK l \in Nat : l = Len(q) + 1
  OBVIOUS
<1>1. /\ r \in Seq(Chunk) /\ Len(q) \in Nat /\ Len(r) = l
      /\ r[l] = c /\ (\A k \in 1..Len(q) : r[k] = q[k])
      /\ (\A k : k \in 1..Len(r) <=> k \in 1..Len(q) \/ k = l)
      /\ r # << >> /\ l \notin 1..Len(q)
  BY <1>0, Appended
<1>2. \A k \in 1..Len(q) : q[k] \in Chunk /\ End(q[k]) \in Nat
  BY ChunkType
<1>3. \A k \in 1..Len(q) : k < l /\ k - 1 < l /\ (k > 1 => k - 1 \in 1..Len(q)) /\ k # l
  BY <1>0
<1>4. l > 1 => Len(q) \in 1..Len(q) /\ l - 1 = Len(q) /\ q # << >>
  BY <1>0
<1>5. Linked(r)
  <2>1. ASSUME NEW k \in 1..Len(r), r[k].type = "Output", k > 1
        PROVE  Placed(r[k - 1]) /\ r[k].at = End(r[k - 1])
    <3>1. CASE k \in 1..Len(q)
      BY <1>1, <1>3, <2>1, <3>1 DEF Flows, Linked
    <3>2. CASE k = l
      <4>1. r[k - 1] = q[Len(q)] /\ Placed(q[Len(q)]) /\ End(q[Len(q)]) = h
        BY <1>1, <1>4, <2>1, <3>2 DEF Flows, Reaches
      <4> QED
        BY <1>1, <2>1, <3>2, <4>1 DEF Placed
    <3> QED
      BY <1>1, <3>1, <3>2
  <2>2. ASSUME NEW k \in 1..Len(r), r[k].type = "Lagged" PROVE k = Len(r)
    <3>1. CASE k \in 1..Len(q)
      <4>1. q[k].type = "Lagged" /\ k = Len(q) /\ q # << >>
        BY <1>1, <2>2, <3>1 DEF Flows, Linked
      <4>2. Placed(q[k])
        BY <4>1 DEF Flows, Reaches
      <4> QED
        BY <4>1, <4>2 DEF Placed
    <3> QED
      BY <1>1, <3>1
  <2>3. ASSUME NEW j \in 1..Len(r), NEW k \in 1..Len(r), j <= k, Placed(r[j]), Placed(r[k])
        PROVE  End(r[j]) <= End(r[k])
    <3>1. CASE k \in 1..Len(q)
      <4>1. j \in 1..Len(q)
        BY <1>0, <1>1, <2>3, <3>1
      <4> QED
        BY <1>1, <2>3, <3>1, <4>1 DEF Flows, Linked
    <3>2. CASE k = l /\ j \in 1..Len(q)
      <4>1. End(r[j]) \in Nat /\ End(r[j]) <= h /\ End(r[k]) = g
        BY <1>1, <1>2, <2>3, <3>2 DEF Flows, Within
      <4> QED
        BY <4>1
    <3>3. CASE k = l /\ j = l
      BY <1>1, <3>3, ChunkType
    <3> QED
      BY <1>1, <3>1, <3>2, <3>3
  <2> QED
    BY <2>1, <2>2, <2>3 DEF Linked
<1>6. Completed(r)
  <2>1. ASSUME NEW k \in 1..Len(r), r[k].type = "Snapshot"
        PROVE  k + 1 \in 1..Len(r) /\ r[k + 1].type = "Output" /\ r[k + 1].len = 0
    <3>1. k \in 1..Len(q) /\ q[k].type = "Snapshot"
      BY <1>1, <2>1
    <3>2. k + 1 \in 1..Len(q) /\ q[k + 1].type = "Output" /\ q[k + 1].len = 0
      BY <3>1 DEF Flows, Completed
    <3> QED
      BY <1>1, <3>2
  <2> QED
    BY <2>1 DEF Completed
<1>7. Within(r, p, g)
  <2>1. p <= h
    BY DEF Flows, Within
  <2>2. ASSUME NEW k \in 1..Len(r), Placed(r[k]) PROVE p <= End(r[k]) /\ End(r[k]) <= g
    <3>1. CASE k \in 1..Len(q)
      <4>1. p <= End(q[k]) /\ End(q[k]) <= h /\ r[k] = q[k] /\ End(q[k]) \in Nat
        BY <1>1, <1>2, <2>2, <3>1 DEF Flows, Within
      <4> QED
        BY <4>1
    <3>2. CASE k = l
      BY <1>1, <2>1, <2>2, <3>2
    <3> QED
      BY <1>1, <3>1, <3>2
  <2> QED
    BY <2>1, <2>2 DEF Within
<1>8. Placed(c) => Reaches(r, p, g)
  BY <1>1 DEF Reaches
<1>9. q # << >> => r[1] = q[1]
  BY <1>1
<1> QED
  BY <1>5, <1>6, <1>7, <1>8, <1>9 DEF Flows

(* A snapshot and the empty output behind it. *)
LEMMA FlowSnapshot ==
  ASSUME NEW q \in Seq(Chunk), NEW p \in Nat, NEW h \in Nat, NEW s \in Chunk, NEW c \in Chunk,
         Flows(q, p, h), \A k \in 1..Len(q) : q[k].type # "Lagged",
         s.type = "Snapshot", End(s) = h, c.type = "Output", c.at = h, c.len = 0,
         NEW r, r = Append(Append(q, s), c)
  PROVE  /\ Flows(r, p, h) /\ Reaches(r, p, h) /\ r # << >>
         /\ (q # << >> => r[1] = q[1]) /\ (q = << >> => r[1].type = "Snapshot")
<1>0. PICK l \in Nat, m \in Nat : l = Len(q) + 1 /\ m = l + 1
  OBVIOUS
<1>1. /\ r \in Seq(Chunk) /\ Len(q) \in Nat /\ Len(r) = m
      /\ r[l] = s /\ r[m] = c /\ (\A k \in 1..Len(q) : r[k] = q[k])
      /\ (\A k : k \in 1..Len(r) <=> k \in 1..Len(q) \/ k = l \/ k = m)
      /\ r # << >> /\ l \notin 1..Len(q) /\ m \notin 1..Len(q) /\ l # m
  <2>1. /\ Append(q, s) \in Seq(Chunk) /\ Len(Append(q, s)) = l
        /\ Append(q, s)[l] = s /\ (\A k \in 1..Len(q) : Append(q, s)[k] = q[k])
        /\ (\A k : k \in 1..Len(Append(q, s)) <=> k \in 1..Len(q) \/ k = l)
    BY <1>0, Appended
  <2>2. /\ r \in Seq(Chunk) /\ Len(r) = m /\ r[m] = c /\ r # << >>
        /\ (\A k \in 1..l : r[k] = Append(q, s)[k])
        /\ (\A k : k \in 1..Len(r) <=> k \in 1..l \/ k = m)
    BY <1>0, <2>1, Appended
  <2> QED
    BY <1>0, <2>1, <2>2
<1>2. \A k \in 1..Len(q) : q[k] \in Chunk /\ End(q[k]) \in Nat
  BY ChunkType
<1>3. \A k \in 1..Len(q) : k < l /\ (k > 1 => k - 1 \in 1..Len(q))
  BY <1>0
<1>4. End(c) = h
  BY DEF End
<1>5. Linked(r)
  <2>1. ASSUME NEW k \in 1..Len(r), r[k].type = "Output", k > 1
        PROVE  Placed(r[k - 1]) /\ r[k].at = End(r[k - 1])
    <3>1. CASE k \in 1..Len(q)
      BY <1>1, <1>3, <2>1, <3>1 DEF Flows, Linked
    <3>2. CASE k = m
      <4>1. k - 1 = l
        BY <1>0, <3>2
      <4> QED
        BY <1>1, <3>2, <4>1 DEF Placed
    <3> QED
      BY <1>1, <2>1, <3>1, <3>2
  <2>2. ASSUME NEW k \in 1..Len(r), r[k].type = "Lagged" PROVE k = Len(r)
    BY <1>1, <2>2
  <2>3. ASSUME NEW j \in 1..Len(r), NEW k \in 1..Len(r), j <= k, Placed(r[j]), Placed(r[k])
        PROVE  End(r[j]) <= End(r[k])
    <3>1. CASE k \in 1..Len(q)
      <4>1. j \in 1..Len(q)
        BY <1>0, <1>1, <2>3, <3>1
      <4> QED
        BY <1>1, <2>3, <3>1, <4>1 DEF Flows, Linked
    <3>2. CASE k \notin 1..Len(q) /\ j \in 1..Len(q)
      <4>1. End(r[j]) <= h /\ End(r[k]) = h
        BY <1>1, <1>4, <2>3, <3>2 DEF Flows, Within
      <4> QED
        BY <4>1
    <3>3. CASE k \notin 1..Len(q) /\ j \notin 1..Len(q)
      BY <1>1, <1>4, <3>3
    <3> QED
      BY <3>1, <3>2, <3>3
  <2> QED
    BY <2>1, <2>2, <2>3 DEF Linked
<1>6. Completed(r)
  <2>1. ASSUME NEW k \in 1..Len(r), r[k].type = "Snapshot"
        PROVE  k + 1 \in 1..Len(r) /\ r[k + 1].type = "Output" /\ r[k + 1].len = 0
    <3>1. CASE k \in 1..Len(q)
      <4>1. k + 1 \in 1..Len(q) /\ q[k + 1].type = "Output" /\ q[k + 1].len = 0
        BY <1>1, <2>1, <3>1 DEF Flows, Completed
      <4> QED
        BY <1>1, <4>1
    <3>2. CASE k = l
      BY <1>0, <1>1, <3>2
    <3> QED
      BY <1>1, <2>1, <3>1, <3>2
  <2> QED
    BY <2>1 DEF Completed
<1>7. Within(r, p, h)
  BY <1>1, <1>4 DEF Flows, Within
<1>8. Reaches(r, p, h)
  BY <1>1, <1>4 DEF Reaches, Placed
<1>9. r # << >> /\ (q # << >> => r[1] = q[1]) /\ (q = << >> => r[1].type = "Snapshot")
  BY <1>0, <1>1
<1> QED
  BY <1>5, <1>6, <1>7, <1>8, <1>9 DEF Flows

(* The attachment has lagged before the snapshot. *)
LEMMA FlowLag ==
  ASSUME NEW q \in Seq(Chunk), NEW p \in Nat, NEW h \in Nat, Flows(q, p, h), NoLag(q),
         NEW r, r = Append(q, Lagged)
  PROVE  /\ Flows(r, p, h) /\ r # << >>
         /\ (q # << >> => r[1] = q[1]) /\ (q = << >> => r[1].type = "Lagged")
<1>0. PICK l \in Nat : l = Len(q) + 1
  OBVIOUS
<1>2. Lagged \in Chunk /\ Lagged.type = "Lagged" /\ ~Placed(Lagged)
  BY SessionEngineAssumption DEF Lagged, Chunk, Placed
<1>1. /\ r \in Seq(Chunk) /\ Len(q) \in Nat /\ Len(r) = l
      /\ r[l] = Lagged /\ (\A k \in 1..Len(q) : r[k] = q[k])
      /\ (\A k : k \in 1..Len(r) <=> k \in 1..Len(q) \/ k = l)
      /\ r # << >> /\ l \notin 1..Len(q)
  BY <1>0, <1>2, Appended
<1>3. \A k \in 1..Len(q) : k < l /\ (k > 1 => k - 1 \in 1..Len(q))
  BY <1>0
<1>4. Linked(r)
  <2>1. ASSUME NEW k \in 1..Len(r), r[k].type = "Output", k > 1
        PROVE  Placed(r[k - 1]) /\ r[k].at = End(r[k - 1])
    <3>1. k \in 1..Len(q) /\ k - 1 \in 1..Len(q)
      BY <1>1, <1>2, <1>3, <2>1
    <3> QED
      BY <1>1, <2>1, <3>1 DEF Flows, Linked
  <2>2. ASSUME NEW k \in 1..Len(r), r[k].type = "Lagged" PROVE k = Len(r)
    BY <1>1, <2>2 DEF NoLag
  <2>3. ASSUME NEW j \in 1..Len(r), NEW k \in 1..Len(r), j <= k, Placed(r[j]), Placed(r[k])
        PROVE  End(r[j]) <= End(r[k])
    BY <1>1, <1>2, <2>3 DEF Flows, Linked
  <2> QED
    BY <2>1, <2>2, <2>3 DEF Linked
<1>5. Completed(r)
  <2>1. ASSUME NEW k \in 1..Len(r), r[k].type = "Snapshot"
        PROVE  k + 1 \in 1..Len(r) /\ r[k + 1].type = "Output" /\ r[k + 1].len = 0
    <3>1. k \in 1..Len(q) /\ q[k].type = "Snapshot"
      BY <1>1, <1>2, <2>1
    <3>2. k + 1 \in 1..Len(q) /\ q[k + 1].type = "Output" /\ q[k + 1].len = 0
      BY <3>1 DEF Flows, Completed
    <3> QED
      BY <1>1, <3>2
  <2> QED
    BY <2>1 DEF Completed
<1>6. Within(r, p, h)
  BY <1>1, <1>2 DEF Flows, Within
<1>7. (q # << >> => r[1] = q[1]) /\ (q = << >> => r[1].type = "Lagged")
  BY <1>0, <1>1, <1>2
<1> QED
  BY <1>1, <1>4, <1>5, <1>6, <1>7 DEF Flows

(* The view takes the head of the queue. *)
LEMMA FlowTake ==
  ASSUME NEW q \in Seq(Chunk), q # << >>, NEW p \in Nat, NEW h \in Nat, Flows(q, p, h),
         q[1].type # "Lagged", NEW g, g = IF Placed(q[1]) THEN End(q[1]) ELSE p
  PROVE  /\ Flows(Tail(q), g, h) /\ (Reaches(q, p, h) => Reaches(Tail(q), g, h)) /\ StartsIn(Tail(q), {g})
         /\ q[1].type = "Snapshot" => Tail(q) # << >> /\ Tail(q)[1].type = "Output"
         /\ p <= g /\ g <= h /\ g \in Nat
<1> DEFINE r == Tail(q)
<1>1. /\ r \in Seq(Chunk) /\ Len(q) \in Nat /\ Len(r) + 1 = Len(q) /\ Len(r) \in Nat
      /\ 1 \in 1..Len(q)
      /\ \A k \in 1..Len(r) : r[k] = q[k + 1] /\ k + 1 \in 1..Len(q)
      /\ r # << >> => 1 \in 1..Len(r) /\ Len(r) \in 1..Len(r)
      /\ r = << >> => Len(q) = 1
  <2>1. /\ r \in Seq(Chunk) /\ Len(q) \in Nat /\ Len(r) + 1 = Len(q) /\ Len(r) \in Nat
        /\ 1 \in 1..Len(q)
        /\ \A k \in 1..Len(r) : r[k] = q[k + 1] /\ k + 1 \in 1..Len(q)
    OBVIOUS
  <2> HIDE DEF r
  <2>2. r = << >> <=> Len(r) = 0
    BY <2>1, EmptyIs
  <2> QED
    BY <2>1, <2>2
<1>2. \A k \in 1..Len(q) : q[k] \in Chunk /\ End(q[k]) \in Nat
  BY ChunkType
<1> HIDE DEF r
<1>3. p <= g /\ g <= h /\ g \in Nat
  BY <1>1, <1>2 DEF Flows, Within
<1>4. Linked(r)
  <2>1. ASSUME NEW k \in 1..Len(r), r[k].type = "Output", k > 1
        PROVE  Placed(r[k - 1]) /\ r[k].at = End(r[k - 1])
    <3>1. k - 1 \in 1..Len(r) /\ (k - 1) + 1 = k /\ (k + 1) - 1 = k /\ k + 1 > 1
      BY <1>1, <2>1
    <3>2. r[k - 1] = q[k] /\ r[k] = q[k + 1] /\ k + 1 \in 1..Len(q)
      BY <1>1, <3>1
    <3> QED
      BY <2>1, <3>1, <3>2 DEF Flows, Linked
  <2>2. ASSUME NEW k \in 1..Len(r), r[k].type = "Lagged" PROVE k = Len(r)
    <3>1. k + 1 = Len(q)
      BY <1>1, <2>2 DEF Flows, Linked
    <3> QED
      BY <1>1, <3>1
  <2>3. ASSUME NEW j \in 1..Len(r), NEW k \in 1..Len(r), j <= k, Placed(r[j]), Placed(r[k])
        PROVE  End(r[j]) <= End(r[k])
    <3>1. j + 1 <= k + 1
      BY <2>3
    <3> QED
      BY <1>1, <2>3, <3>1 DEF Flows, Linked
  <2> QED
    BY <2>1, <2>2, <2>3 DEF Linked
<1>5. Completed(r)
  <2>1. ASSUME NEW k \in 1..Len(r), r[k].type = "Snapshot"
        PROVE  k + 1 \in 1..Len(r) /\ r[k + 1].type = "Output" /\ r[k + 1].len = 0
    <3>1. (k + 1) + 1 \in 1..Len(q) /\ q[(k + 1) + 1].type = "Output" /\ q[(k + 1) + 1].len = 0
      BY <1>1, <2>1 DEF Flows, Completed
    <3>2. k + 1 \in 1..Len(r)
      BY <1>1, <3>1
    <3> QED
      BY <1>1, <3>1, <3>2
  <2> QED
    BY <2>1 DEF Completed
<1>6. Within(r, g, h)
  <2>1. ASSUME NEW k \in 1..Len(r), Placed(r[k]) PROVE g <= End(r[k]) /\ End(r[k]) <= h
    <3>1. k + 1 \in 1..Len(q) /\ r[k] = q[k + 1] /\ 1 <= k + 1
      BY <1>1
    <3>2. p <= End(q[k + 1]) /\ End(q[k + 1]) <= h
      BY <2>1, <3>1 DEF Flows, Within
    <3>3. Placed(q[1]) => End(q[1]) <= End(q[k + 1])
      BY <1>1, <2>1, <3>1 DEF Flows, Linked
    <3> QED
      BY <3>1, <3>2, <3>3
  <2> QED
    BY <1>3, <2>1 DEF Within
<1>7. Reaches(q, p, h) => Reaches(r, g, h)
  <2>1. CASE r = << >>
    BY <1>1, <2>1 DEF Flows, Reaches
  <2>2. CASE r # << >>
    <3>1. r[Len(r)] = q[Len(q)] /\ q # << >>
      BY <1>1, <2>2
    <3> QED
      BY <2>2, <3>1 DEF Flows, Reaches
  <2> QED
    BY <2>1, <2>2
<1>8. StartsIn(r, {g})
  <2>1. ASSUME r # << >>, r[1].type = "Output" PROVE r[1].at = g
    <3>1. 1 + 1 \in 1..Len(q) /\ r[1] = q[1 + 1] /\ (1 + 1) - 1 = 1 /\ 1 + 1 > 1
      BY <1>1, <2>1
    <3>2. Placed(q[1]) /\ q[1 + 1].at = End(q[1])
      BY <2>1, <3>1 DEF Flows, Linked
    <3> QED
      BY <3>1, <3>2
  <2> QED
    BY <2>1 DEF StartsIn
<1>9. q[1].type = "Snapshot" => r # << >> /\ r[1].type = "Output"
  <2>1. ASSUME q[1].type = "Snapshot" PROVE r # << >> /\ r[1].type = "Output"
    <3>1. 1 + 1 \in 1..Len(q) /\ q[1 + 1].type = "Output"
      BY <1>1, <2>1 DEF Flows, Completed
    <3>2. 1 \in 1..Len(r) /\ r # << >>
      BY <1>1, <3>1
    <3> QED
      BY <1>1, <3>1, <3>2
  <2> QED
    BY <2>1
<1> QED
  BY <1>3, <1>4, <1>5, <1>6, <1>7, <1>8, <1>9 DEF Flows, r

-----------------------------------------------------------------------------
(* Weights: what is queued, chunk by chunk. *)

(* A set of numbers that is not empty has a least one. *)
LEMMA Least ==
  ASSUME NEW T \in SUBSET Nat, T # {}
  PROVE  \E n \in T : \A m \in T : n <= m
<1>1. PICK n \in T : \A m \in T : ~(<<m, n>> \in OpToRel(<, Nat))
  BY NatLessThanWellFounded, WFMin
<1>2. ASSUME NEW m \in T PROVE n <= m
  <2>1. <<m, n>> \in Nat \X Nat /\ ~(<<m, n>> \in OpToRel(<, Nat))
    BY <1>1
  <2>2. ~(m < n)
    BY <2>1, Zenon DEF OpToRel
  <2> QED
    BY <2>2
<1> QED
  BY <1>2

(* f[n] weighs the first n chunks of q. *)
Weighs(f, q, n) ==
  f \in [0..n -> Nat] /\ f[0] = 0 /\ \A k \in 1..n : f[k] = f[k - 1] + Weight(q[k])

LEMMA WeighsExist ==
  ASSUME NEW q \in Seq(Chunk)
  PROVE  \E f : Weighs(f, q, Len(q))
<1> DEFINE T == { n \in 0..Len(q) : ~\E f : Weighs(f, q, n) }
<1>0. Len(q) \in Nat /\ \A k \in 1..Len(q) : Weight(q[k]) \in Nat
  BY ChunkType
<1>1. SUFFICES ASSUME T # {} PROVE FALSE
  BY <1>0
<1>t. T \in SUBSET Nat
  BY <1>0
<1>2. PICK n \in T : \A m \in T : n <= m
  <2> HIDE DEF T
  <2> QED
    BY <1>1, <1>t, Least
<1>3. n # 0
  <2>1. Weighs([k \in 0..0 |-> 0], q, 0)
    BY DEF Weighs
  <2> QED
    BY <2>1
<1>4. n - 1 \in 0..Len(q) /\ n - 1 \notin T /\ n \in 1..Len(q)
  BY <1>0, <1>2, <1>3
<1>5. PICK f : Weighs(f, q, n - 1)
  BY <1>4
<1> DEFINE g == [k \in 0..n |-> IF k = n THEN f[n - 1] + Weight(q[n]) ELSE f[k]]
<1>6. f[n - 1] \in Nat /\ Weight(q[n]) \in Nat
  BY <1>0, <1>4, <1>5 DEF Weighs
<1>7. Weighs(g, q, n)
  <2>1. g \in [0..n -> Nat]
    BY <1>4, <1>5, <1>6 DEF Weighs
  <2>2. g[0] = 0
    BY <1>4, <1>5 DEF Weighs
  <2>3. ASSUME NEW k \in 1..n PROVE g[k] = g[k - 1] + Weight(q[k])
    <3>1. CASE k = n
      BY <1>4, <3>1
    <3>2. CASE k # n
      <4>1. k \in 1..(n - 1) /\ k \in 0..n /\ k - 1 \in 0..n /\ k - 1 # n
        BY <1>4, <3>2
      <4>2. f[k] = f[k - 1] + Weight(q[k])
        BY <1>5, <4>1 DEF Weighs
      <4> QED
        BY <3>2, <4>1, <4>2
    <3> QED
      BY <3>1, <3>2
  <2> HIDE DEF g
  <2> QED
    BY <2>1, <2>2, <2>3 DEF Weighs
<1> QED
  BY <1>2, <1>7

(* Two such functions of which one starts behind the first m chunks. *)
Alongside(f, g, n, m) ==
  /\ \A k \in 0..n : f[k] \in Nat /\ g[k + m] \in Nat
  /\ \A k \in 1..n : f[k] - f[k - 1] = g[k + m] - g[(k - 1) + m]

LEMMA SameSteps ==
  ASSUME NEW n \in Nat, NEW m \in Nat, NEW f, NEW g, Alongside(f, g, n, m)
  PROVE  f[n] - f[0] = g[n + m] - g[m]
<1> USE DEF Alongside
<1> DEFINE T == { k \in 0..n : f[k] - f[0] # g[k + m] - g[m] }
<1>1. SUFFICES ASSUME T # {} PROVE FALSE
  OBVIOUS
<1>2. PICK k \in T : \A j \in T : k <= j
  <2>1. T \in SUBSET Nat
    OBVIOUS
  <2> HIDE DEF T
  <2> QED
    BY <1>1, <2>1, Least
<1>3. k # 0
  BY <1>2
<1>4. k - 1 \in 0..n /\ k - 1 \notin T /\ k \in 1..n
  BY <1>2, <1>3
<1>5. f[k - 1] - f[0] = g[(k - 1) + m] - g[m]
  BY <1>4
<1>6. f[k] - f[k - 1] = g[k + m] - g[(k - 1) + m]
  BY <1>4
<1>7. f[k] \in Nat /\ f[k - 1] \in Nat /\ f[0] \in Nat /\ g[k + m] \in Nat /\ g[(k - 1) + m] \in Nat /\ g[m] \in Nat
  <2>1. k \in 0..n /\ k - 1 \in 0..n /\ 0 \in 0..n /\ 0 + m = m
    BY <1>4
  <2> QED
    BY <2>1
<1>8. f[k] - f[0] = g[k + m] - g[m]
  BY <1>5, <1>6, <1>7
<1> QED
  BY <1>2, <1>8

LEMMA QueuedWeightIs ==
  ASSUME NEW q \in Seq(Chunk), NEW f, Weighs(f, q, Len(q))
  PROVE  QueuedWeight(q) = f[Len(q)]
<1> DEFINE w == CHOOSE w : w = [k \in 0..Len(q) |-> IF k = 0 THEN 0 ELSE w[k - 1] + Weight(q[k])]
<1>0. Len(q) \in Nat
  OBVIOUS
<1>1. f = [k \in 0..Len(q) |-> IF k = 0 THEN 0 ELSE f[k - 1] + Weight(q[k])]
  BY <1>0 DEF Weighs
<1>2. w = [k \in 0..Len(q) |-> IF k = 0 THEN 0 ELSE w[k - 1] + Weight(q[k])]
  BY <1>1
<1>3. QueuedWeight(q) = w[Len(q)]
  BY DEF QueuedWeight
<1> HIDE DEF w
<1> DEFINE T == { k \in 0..Len(q) : w[k] # f[k] }
<1>4. SUFFICES ASSUME T # {} PROVE FALSE
  BY <1>0, <1>3
<1>5. PICK k \in T : \A j \in T : k <= j
  <2>1. T \in SUBSET Nat
    BY <1>0
  <2> HIDE DEF T
  <2> QED
    BY <1>4, <2>1, Least
<1>6. w[k] = IF k = 0 THEN 0 ELSE w[k - 1] + Weight(q[k])
  BY <1>2, <1>5
<1>7. k # 0
  BY <1>5, <1>6 DEF Weighs
<1>8. k - 1 \in 0..Len(q) /\ k - 1 \notin T /\ k \in 1..Len(q)
  BY <1>0, <1>5, <1>7
<1>9. w[k - 1] = f[k - 1] /\ f[k] = f[k - 1] + Weight(q[k])
  BY <1>8 DEF Weighs
<1> QED
  BY <1>5, <1>6, <1>7, <1>9

(* The weight of what is queued, as the queue changes. *)
LEMMA WeightNone ==
  QueuedWeight(<< >>) = 0
<1>1. << >> \in Seq(Chunk) /\ Len(<< >>) = 0
  OBVIOUS
<1>2. Weighs([k \in 0..0 |-> 0], << >>, 0)
  BY DEF Weighs
<1> QED
  BY <1>1, <1>2, QueuedWeightIs

LEMMA WeightAppend ==
  ASSUME NEW q \in Seq(Chunk), NEW c \in Chunk
  PROVE  QueuedWeight(Append(q, c)) = QueuedWeight(q) + Weight(c) /\ QueuedWeight(q) \in Nat
<1> DEFINE l == Len(q)
<1>0. /\ Append(q, c) \in Seq(Chunk) /\ Len(Append(q, c)) = l + 1 /\ l \in Nat
      /\ Append(q, c)[l + 1] = c /\ \A k \in 1..l : Append(q, c)[k] = q[k]
  OBVIOUS
<1>1. PICK f : Weighs(f, q, l)
  BY WeighsExist
<1> DEFINE g == [k \in 0..(l + 1) |-> IF k = l + 1 THEN f[l] + Weight(c) ELSE f[k]]
<1>2. Weighs(g, Append(q, c), l + 1)
  <2>1. f[l] \in Nat /\ Weight(c) \in Nat /\ g[0] = 0
    BY <1>0, <1>1, ChunkType DEF Weighs
  <2>2. g \in [0..(l + 1) -> Nat]
    BY <1>0, <1>1, <2>1 DEF Weighs
  <2>3. ASSUME NEW k \in 1..(l + 1) PROVE g[k] = g[k - 1] + Weight(Append(q, c)[k])
    <3>1. CASE k = l + 1
      BY <1>0, <3>1
    <3>2. CASE k # l + 1
      <4>1. k \in 1..l /\ k \in 0..(l + 1) /\ k - 1 \in 0..(l + 1) /\ k - 1 # l + 1
        BY <1>0, <3>2
      <4>2. f[k] = f[k - 1] + Weight(q[k]) /\ Append(q, c)[k] = q[k]
        BY <1>0, <1>1, <4>1 DEF Weighs
      <4> QED
        BY <3>2, <4>1, <4>2
    <3> QED
      BY <3>1, <3>2
  <2> HIDE DEF g
  <2> QED
    BY <2>1, <2>2, <2>3 DEF Weighs
<1>3. QueuedWeight(q) = f[l] /\ f[l] \in Nat
  BY <1>0, <1>1, QueuedWeightIs DEF Weighs
<1>4. g[l + 1] = f[l] + Weight(c)
  BY <1>0
<1> HIDE DEF g
<1>5. QueuedWeight(Append(q, c)) = g[l + 1]
  BY <1>0, <1>2, QueuedWeightIs
<1> QED
  BY <1>3, <1>4, <1>5

LEMMA WeightTail ==
  ASSUME NEW q \in Seq(Chunk), q # << >>
  PROVE  QueuedWeight(q) = Weight(Head(q)) + QueuedWeight(Tail(q)) /\ QueuedWeight(Tail(q)) \in Nat
<1>0. /\ Tail(q) \in Seq(Chunk) /\ Len(q) \in Nat \ {0} /\ Len(Tail(q)) = Len(q) - 1 /\ Head(q) = q[1]
      /\ q[1] \in Chunk /\ \A k \in 1..Len(Tail(q)) : Tail(q)[k] = q[k + 1]
  OBVIOUS
<1>1. PICK n \in Nat : n = Len(Tail(q)) /\ Len(q) = n + 1
  <2>1. Len(Tail(q)) \in Nat /\ Len(q) = Len(Tail(q)) + 1
    BY <1>0
  <2> QED
    BY <2>1
<1>2. PICK f : Weighs(f, Tail(q), n)
  BY <1>0, <1>1, WeighsExist
<1>3. PICK g : Weighs(g, q, n + 1)
  BY <1>0, <1>1, WeighsExist
<1>4. /\ QueuedWeight(Tail(q)) = f[n] /\ QueuedWeight(q) = g[n + 1]
      /\ f[n] \in Nat /\ g[n + 1] \in Nat /\ f[0] = 0
  <2>1. Weighs(f, Tail(q), Len(Tail(q))) /\ Weighs(g, q, Len(q))
    BY <1>1, <1>2, <1>3
  <2>2. QueuedWeight(Tail(q)) = f[n] /\ QueuedWeight(q) = g[n + 1]
    BY <1>0, <1>1, <2>1, QueuedWeightIs
  <2> QED
    BY <1>2, <1>3, <2>2 DEF Weighs
<1>5. g[1] = Weight(q[1]) /\ g[1] \in Nat
  BY <1>0, <1>3, ChunkType DEF Weighs
<1>6. \A k \in 0..n : f[k] \in Nat /\ g[k + 1] \in Nat
  BY <1>2, <1>3 DEF Weighs
<1>m. PICK m \in Nat : m = 1
  OBVIOUS
<1>7. ASSUME NEW k \in 1..n PROVE f[k] - f[k - 1] = g[k + m] - g[(k - 1) + m]
  <2>1. k + 1 \in 1..(n + 1) /\ k \in 0..n /\ k - 1 \in 0..n /\ (k + 1) - 1 = k /\ k \in 0..(n + 1)
    OBVIOUS
  <2>2. f[k] = f[k - 1] + Weight(Tail(q)[k]) /\ g[k + 1] = g[(k + 1) - 1] + Weight(q[k + 1])
    BY <1>2, <1>3, <2>1 DEF Weighs
  <2>3. Tail(q)[k] = q[k + 1] /\ q[k + 1] \in Chunk
    BY <1>0, <1>1, <2>1
  <2>4. f[k - 1] \in Nat /\ g[(k + 1) - 1] \in Nat /\ Weight(q[k + 1]) \in Nat
    BY <1>2, <1>3, <2>1, <2>3, ChunkType DEF Weighs
  <2> QED
    <3>1. f[k] = f[k - 1] + Weight(q[k + 1])
      BY <2>2, <2>3
    <3>2. f[k] - f[k - 1] = g[k + 1] - g[(k + 1) - 1]
      <4>1. PICK x \in Nat : x = f[k - 1]
        BY <2>4
      <4>2. PICK y \in Nat : y = g[(k + 1) - 1]
        BY <2>4
      <4>3. PICK z \in Nat : z = Weight(q[k + 1])
        BY <2>4
      <4>4. f[k] = x + z /\ g[k + 1] = y + z
        BY <2>2, <3>1, <4>1, <4>2, <4>3
      <4>5. (x + z) - x = z /\ (y + z) - y = z
        OBVIOUS
      <4> QED
        BY <4>1, <4>2, <4>4, <4>5
    <3>3. (k - 1) + m = (k + 1) - 1 /\ k + m = k + 1
      BY <1>m
    <3> QED
      BY <3>2, <3>3
<1>8. f[n] - f[0] = g[n + 1] - g[1]
  <2>1. \A k \in 0..n : f[k] \in Nat /\ g[k + m] \in Nat
    BY <1>6, <1>m
  <2>2. f[n] - f[0] = g[n + m] - g[m]
    <3>1. \A k \in 1..n : f[k] - f[k - 1] = g[k + m] - g[(k - 1) + m]
      BY <1>7
    <3> QED
      <4>1. Alongside(f, g, n, m)
        BY <2>1, <3>1, Zenon DEF Alongside
      <4> QED
        BY <4>1, SameSteps
  <2> QED
    BY <1>m, <2>2
<1> QED
  BY <1>0, <1>4, <1>5, <1>8

(* An empty counter means that nothing queued weighs anything. *)
LEMMA WeightMember ==
  ASSUME NEW q \in Seq(Chunk), NEW k \in 1..Len(q)
  PROVE  Weight(q[k]) <= QueuedWeight(q) /\ QueuedWeight(q) \in Nat
<1>0. Len(q) \in Nat /\ \A j \in 1..Len(q) : Weight(q[j]) \in Nat
  BY ChunkType
<1>1. PICK f : Weighs(f, q, Len(q))
  BY WeighsExist
<1> DEFINE T == { n \in k..Len(q) : ~(Weight(q[k]) <= f[n]) }
<1>2. ASSUME T # {} PROVE FALSE
  <2>1. T \in SUBSET Nat
    BY <1>0
  <2>2. PICK n \in T : \A m \in T : n <= m
    <3> HIDE DEF T
    <3> QED
      BY <1>2, <2>1, Least
  <2>3. n \in 1..Len(q) /\ n - 1 \in 0..Len(q) /\ n \in 0..Len(q)
    BY <1>0, <2>2
  <2>4. f[n] = f[n - 1] + Weight(q[n]) /\ f[n - 1] \in Nat /\ Weight(q[n]) \in Nat
    BY <1>0, <1>1, <2>3 DEF Weighs
  <2>5. n # k
    BY <2>2, <2>4
  <2>6. n - 1 \in k..Len(q) /\ n - 1 \notin T
    BY <1>0, <2>2, <2>5
  <2>7. Weight(q[k]) <= f[n - 1]
    BY <2>6
  <2> QED
    BY <1>0, <2>2, <2>4, <2>7
<1>3. Len(q) \in k..Len(q) /\ Len(q) \in 0..Len(q)
  BY <1>0
<1>4. Weight(q[k]) <= f[Len(q)] /\ f[Len(q)] \in Nat
  BY <1>0, <1>1, <1>2, <1>3 DEF Weighs
<1> QED
  BY <1>1, <1>4, QueuedWeightIs

-----------------------------------------------------------------------------
(* Deliver, and what is made of it. *)

LEMMA DeliverIs ==
  ASSUME NEW slot \in Slot, NEW c \in Chunk, NEW s, s = Deliver(slot, c)
  PROVE  /\ s \in Slot /\ s.open = slot.open /\ Lagged \in Chunk
         /\ \/ ~s.live /\ s.queue = slot.queue /\ s.charge = slot.charge /\ (slot.live => ~slot.open)
            \/ /\ slot.live /\ slot.open /\ slot.charge > 0 /\ slot.charge + Weight(c) > Limit
               /\ ~s.live /\ s.queue = Append(slot.queue, Lagged) /\ s.charge = slot.charge
            \/ /\ slot.live /\ slot.open /\ ~(slot.charge > 0 /\ slot.charge + Weight(c) > Limit)
               /\ s.live /\ s.queue = Append(slot.queue, c) /\ s.charge = slot.charge + Weight(c)
<1>1. Lagged \in Chunk /\ Weight(c) \in Nat
  BY ChunkType, SessionEngineAssumption DEF Lagged, Chunk
<1>2. Append(slot.queue, Lagged) \in Seq(Chunk) /\ Append(slot.queue, c) \in Seq(Chunk)
  BY <1>1, Appended DEF Slot
<1>3. /\ slot.queue \in Seq(Chunk) /\ slot.charge \in Nat /\ slot.live \in BOOLEAN /\ slot.open \in BOOLEAN
      /\ slot = [queue |-> slot.queue, charge |-> slot.charge, live |-> slot.live, open |-> slot.open]
  BY DEF Slot
<1>5. CASE ~slot.live
  BY <1>1, <1>5 DEF Deliver
<1>6. CASE slot.live /\ ~slot.open
  <2>1. s = [queue |-> slot.queue, charge |-> slot.charge, live |-> FALSE, open |-> slot.open]
    BY <1>3, <1>6 DEF Deliver
  <2> QED
    BY <1>1, <1>3, <1>6, <2>1 DEF Slot
<1>7. CASE slot.live /\ slot.open /\ slot.charge > 0 /\ slot.charge + Weight(c) > Limit
  <2>1. s = [queue |-> Append(slot.queue, Lagged), charge |-> slot.charge, live |-> FALSE, open |-> slot.open]
    BY <1>3, <1>7 DEF Deliver
  <2> QED
    BY <1>1, <1>2, <1>3, <1>7, <2>1 DEF Slot
<1>8. CASE slot.live /\ slot.open /\ ~(slot.charge > 0 /\ slot.charge + Weight(c) > Limit)
  <2>1. s = [queue |-> Append(slot.queue, c), charge |-> slot.charge + Weight(c), live |-> slot.live, open |-> slot.open]
    BY <1>3, <1>8 DEF Deliver
  <2> QED
    BY <1>1, <1>2, <1>3, <1>8, <2>1 DEF Slot
<1> QED
  BY <1>3, <1>5, <1>6, <1>7, <1>8

LEMMA ChunksAre ==
  ASSUME NEW h \in Nat, NEW n \in Nat, h + n <= MaxOut
  PROVE  /\ Output(h, n) \in Chunk /\ Snapshot(h) \in Chunk /\ Resync \in Chunk /\ Lagged \in Chunk
         /\ Placed(Output(h, n)) /\ Output(h, n).at = h /\ End(Output(h, n)) = h + n
         /\ Output(h, n).len = n /\ Output(h, n).type = "Output" /\ Weight(Output(h, n)) = n
         /\ Snapshot(h).type = "Snapshot" /\ End(Snapshot(h)) = h /\ Weight(Snapshot(h)) = SnapSize
         /\ ~Placed(Resync) /\ Resync.type = "Resync" /\ Weight(Resync) = 0
         /\ ~Placed(Lagged) /\ Lagged.type = "Lagged" /\ Weight(Lagged) = 0
BY SessionEngineAssumption DEF Output, Snapshot, Resync, Lagged, Chunk, Placed, End, Weight

(* The queue goes on with the chunk it began with, one that a view at p takes. *)
Begins(x, slot, s, p) ==
  /\ \A P : p \in P /\ StartsIn(x \o slot.queue, P) => StartsIn(x \o s.queue, P)
  /\ x \o slot.queue # << >> => x \o s.queue # << >> /\ (x \o s.queue)[1] = (x \o slot.queue)[1]

(* A chunk for an attachment of which x is under way already. *)
LEMMA DeliverFlows ==
  ASSUME NEW slot \in Slot, NEW x \in Seq(Chunk), NEW p \in Nat, NEW h \in Nat, NEW g \in Nat, NEW c,
         Flows(x \o slot.queue, p, h), slot.live => Reaches(x \o slot.queue, p, h), Carries(c, h, g),
         NEW s, s = Deliver(slot, c)
  PROVE  /\ Flows(x \o s.queue, p, g) /\ (Placed(c) /\ s.live => Reaches(x \o s.queue, p, g))
         /\ Begins(x, slot, s, p)
<1>0. slot.queue \in Seq(Chunk) /\ c \in Chunk /\ h <= g
  BY DEF Slot, Carries
<1>q. PICK q \in Seq(Chunk) : q = x \o slot.queue
  BY <1>0, CatType
<1>1. Flows(q, p, h) /\ (slot.live => Reaches(q, p, h))
  BY <1>q
<1>2. Carries(Lagged, h, g)
  <2>1. Lagged \in Chunk /\ ~Placed(Lagged) /\ Lagged.type = "Lagged"
    BY SessionEngineAssumption DEF Lagged, Chunk, Placed
  <2> QED
    BY <1>0, <2>1 DEF Carries
<1>3. CASE ~s.live /\ s.queue = slot.queue
  <2>1. Flows(q, p, g)
    BY <1>0, <1>1, FlowLater
  <2> QED
    BY <1>q, <1>3, <2>1 DEF Begins
<1>4. ASSUME NEW d, Carries(d, h, g), slot.live, s.queue = Append(slot.queue, d), s.live => d = c
      PROVE  /\ Flows(x \o s.queue, p, g) /\ (Placed(c) /\ s.live => Reaches(x \o s.queue, p, g))
             /\ \A P : p \in P /\ StartsIn(q, P) => StartsIn(x \o s.queue, P)
             /\ q # << >> => x \o s.queue # << >> /\ (x \o s.queue)[1] = q[1]
  <2>0. d \in Chunk
    BY <1>4 DEF Carries
  <2>r. PICK r : r = Append(q, d)
    OBVIOUS
  <2>1. x \o s.queue = r
    <3>1. x \o Append(slot.queue, d) = Append(x \o slot.queue, d)
      BY <1>0, <2>0, CatAppend
    <3> QED
      BY <1>q, <1>4, <2>r, <3>1
  <2>2. /\ Flows(r, p, g) /\ (Placed(d) => Reaches(r, p, g))
        /\ (q # << >> => r[1] = q[1])
        /\ q = << >> /\ d.type = "Output" => d.at = p
    <3>1. Carries(d, h, g) /\ Flows(q, p, h) /\ Reaches(q, p, h)
      BY <1>1, <1>4
    <3>2. Flows(r, p, g) /\ (Placed(d) => Reaches(r, p, g))
      BY <2>r, <3>1, FlowChunk
    <3>3. q # << >> => r[1] = q[1]
      BY <2>r, <3>1, FlowChunk
    <3>4. q = << >> /\ d.type = "Output" => d.at = p
      BY <3>1 DEF Reaches, Carries, Placed
    <3> QED
      BY <3>2, <3>3, <3>4
  <2>3. q = << >> => r[1] = d
    BY <2>r
  <2>4. r # << >>
    BY <2>0, <2>r, Appended
  <2>5. \A P : p \in P /\ StartsIn(q, P) => StartsIn(r, P)
    BY <2>2, <2>3 DEF StartsIn
  <2> QED
    BY <1>4, <2>1, <2>2, <2>4, <2>5
<1>5. CASE slot.live /\ ~s.live /\ s.queue = Append(slot.queue, Lagged)
  BY <1>q, <1>2, <1>4, <1>5 DEF Begins
<1>6. CASE slot.live /\ s.live /\ s.queue = Append(slot.queue, c)
  BY <1>q, <1>4, <1>6 DEF Begins
<1>7. \/ ~s.live /\ s.queue = slot.queue
      \/ slot.live /\ ~s.live /\ s.queue = Append(slot.queue, Lagged)
      \/ slot.live /\ s.live /\ s.queue = Append(slot.queue, c)
  BY <1>0, DeliverIs
<1> QED
  BY <1>q, <1>3, <1>5, <1>6, <1>7 DEF Begins

(* A live attachment that reaches the session has not lagged. *)
LEMMA ReachedHasNoLag ==
  ASSUME NEW q \in Seq(Chunk), NEW p, NEW h, Flows(q, p, h), Reaches(q, p, h)
  PROVE  NoLag(q)
<1>1. ASSUME NEW k \in 1..Len(q), q[k].type = "Lagged" PROVE FALSE
  <2>1. k = Len(q) /\ q # << >>
    BY <1>1 DEF Flows, Linked
  <2>2. Placed(q[k])
    BY <2>1 DEF Reaches
  <2> QED
    BY <1>1, <2>2 DEF Placed
<1> QED
  BY <1>1 DEF NoLag

(* A slot keeps its place: Lagged is the last of its queue, the counter of an
   attachment that is read is exact up to what its reader holds, and beyond the
   limit only one chunk weighs anything. *)
LastLag(slot)  == \A k \in 1..Len(slot.queue) : slot.queue[k].type = "Lagged" => ~slot.live /\ k = Len(slot.queue)
Exact(slot, n) == slot.charge = QueuedWeight(slot.queue) + n
OneWeighs(q)   == \A j, k \in 1..Len(q) : Weight(q[j]) > 0 /\ Weight(q[k]) > 0 => j = k
Bounded(slot)  == slot.charge <= Limit \/ OneWeighs(slot.queue)
Sound(slot)    == LastLag(slot) /\ Bounded(slot) /\ (slot.open => QueuedWeight(slot.queue) <= slot.charge)

LEMMA SoundIsBounded ==
  ASSUME EngineTypeOK, \A a \in Att : Sound(fan[a])
  PROVE  QueueIsBounded
<1>1. ASSUME NEW a \in Att, ~(fan[a].charge <= Limit)
      PROVE  Cardinality({ k \in 1..Len(fan[a].queue) : Weight(fan[a].queue[k]) > 0 }) <= 1
  <2> DEFINE T == { k \in 1..Len(fan[a].queue) : Weight(fan[a].queue[k]) > 0 }
  <2>1. \A j, k \in T : j = k
    BY <1>1 DEF Sound, Bounded, OneWeighs
  <2> HIDE DEF T
  <2>2. CASE T = {}
    <3>1. Cardinality(T) = 0
      BY <2>2, FS_EmptySet
    <3> QED
      BY <3>1 DEF T
  <2>3. CASE T # {}
    <3>1. PICK i \in T : TRUE
      BY <2>3
    <3>2. T = {i}
      BY <2>1, <3>1
    <3>3. Cardinality(T) = 1
      BY <3>2, FS_Singleton
    <3> QED
      BY <3>3 DEF T
  <2> QED
    BY <2>2, <2>3
<1> QED
  BY <1>1 DEF QueueIsBounded

LEMMA DeliverIsSound ==
  ASSUME NEW slot \in Slot, NEW c \in Chunk, c.type # "Lagged", Sound(slot), NEW s, s = Deliver(slot, c)
  PROVE  Sound(s) /\ \A n \in Nat : Exact(slot, n) => Exact(s, n)
<1>0. /\ slot.queue \in Seq(Chunk) /\ slot.charge \in Nat /\ s.queue \in Seq(Chunk) /\ s.charge \in Nat
      /\ s \in Slot /\ Weight(c) \in Nat /\ Lagged \in Chunk /\ Weight(Lagged) = 0 /\ Limit \in Nat /\ Len(slot.queue) \in Nat
      /\ Lagged.type = "Lagged"
  <2>1. s \in Slot /\ Lagged \in Chunk
    BY DeliverIs
  <2>2. Weight(Lagged) = 0 /\ Lagged.type = "Lagged"
    BY DEF Lagged, Weight
  <2> QED
    BY <2>1, <2>2, ChunkType, SessionEngineAssumption DEF Slot
<1>1. CASE ~s.live /\ s.queue = slot.queue /\ s.charge = slot.charge /\ s.open = slot.open
  <2>1. \A n \in Nat : Exact(slot, n) <=> Exact(s, n)
    BY <1>1 DEF Exact
  <2>2. LastLag(s) /\ Bounded(s)
    BY <1>1 DEF Sound, LastLag, Bounded
  <2> QED
    BY <1>1, <2>1, <2>2 DEF Sound
<1>2. CASE slot.live /\ ~s.live /\ s.queue = Append(slot.queue, Lagged) /\ s.charge = slot.charge /\ s.open = slot.open
  <2>a. PICK l \in Nat : l = Len(slot.queue) + 1
    BY <1>0
  <2>0. /\ Len(s.queue) = l /\ s.queue[l] = Lagged /\ (\A k \in 1..Len(slot.queue) : s.queue[k] = slot.queue[k])
        /\ (\A k : k \in 1..Len(s.queue) <=> k \in 1..Len(slot.queue) \/ k = l)
    BY <1>0, <1>2, <2>a, Appended
  <2>1. QueuedWeight(s.queue) = QueuedWeight(slot.queue) /\ \A n \in Nat : Exact(slot, n) <=> Exact(s, n)
    <3>1. QueuedWeight(s.queue) = QueuedWeight(slot.queue) + Weight(Lagged) /\ QueuedWeight(slot.queue) \in Nat
      BY <1>0, <1>2, WeightAppend
    <3>2. QueuedWeight(s.queue) = QueuedWeight(slot.queue)
      BY <1>0, <3>1
    <3> QED
      BY <1>2, <3>2 DEF Exact
  <2>2. LastLag(s)
    BY <1>2, <2>0 DEF Sound, LastLag
  <2>3. Bounded(s)
    <3>1. ASSUME NEW k \in 1..Len(s.queue), Weight(s.queue[k]) > 0
          PROVE  k \in 1..Len(slot.queue) /\ Weight(slot.queue[k]) > 0
      <4>1. Weight(s.queue[l]) = 0
        BY <1>0, <2>0
      <4>2. k # l
        BY <3>1, <4>1
      <4> QED
        BY <2>0, <3>1, <4>2
    <3>2. OneWeighs(slot.queue) => OneWeighs(s.queue)
      BY <3>1 DEF OneWeighs
    <3> QED
      BY <1>2, <3>2 DEF Sound, Bounded
  <2> QED
    BY <1>2, <2>1, <2>2, <2>3 DEF Sound
<1>3. CASE /\ slot.live /\ slot.open /\ s.live /\ s.queue = Append(slot.queue, c) /\ s.charge = slot.charge + Weight(c)
           /\ s.open = slot.open /\ ~(slot.charge > 0 /\ slot.charge + Weight(c) > Limit)
  <2>a. PICK l \in Nat : l = Len(slot.queue) + 1
    BY <1>0
  <2>0. /\ Len(s.queue) = l /\ s.queue[l] = c /\ (\A k \in 1..Len(slot.queue) : s.queue[k] = slot.queue[k])
        /\ (\A k : k \in 1..Len(s.queue) <=> k \in 1..Len(slot.queue) \/ k = l)
    BY <1>0, <1>3, <2>a, Appended
  <2>1. PICK x \in Nat, y \in Nat, z \in Nat : x = QueuedWeight(slot.queue) /\ y = Weight(c) /\ z = slot.charge
    BY <1>0, WeightAppend
  <2>2. QueuedWeight(s.queue) = x + y /\ s.charge = z + y
    BY <1>0, <1>3, <2>1, WeightAppend
  <2>3. ASSUME NEW n \in Nat, Exact(slot, n) PROVE Exact(s, n)
    <3>1. z = x + n
      BY <2>1, <2>3 DEF Exact
    <3> QED
      BY <2>2, <3>1 DEF Exact
  <2>4. LastLag(s)
    BY <1>3, <2>0 DEF Sound, LastLag
  <2>5. Bounded(s)
    <3>1. CASE z > 0
      BY <1>0, <1>3, <2>1, <2>2, <3>1 DEF Bounded
    <3>2. CASE z = 0
      <4>1. x <= z
        BY <1>3, <2>1 DEF Sound
      <4>2. x = 0
        BY <3>2, <4>1
      <4>3. \A k \in 1..Len(slot.queue) : ~(Weight(slot.queue[k]) > 0)
        <5>1. ASSUME NEW k \in 1..Len(slot.queue) PROVE ~(Weight(slot.queue[k]) > 0)
          <6>1. Weight(slot.queue[k]) <= QueuedWeight(slot.queue) /\ slot.queue[k] \in Chunk
            BY <1>0, WeightMember
          <6>2. Weight(slot.queue[k]) \in Nat
            BY <6>1, ChunkType
          <6> QED
            BY <2>1, <4>2, <6>1, <6>2
        <5> QED
          BY <5>1
      <4>4. OneWeighs(s.queue)
        BY <2>0, <4>3 DEF OneWeighs
      <4> QED
        BY <4>4 DEF Bounded
    <3> QED
      BY <2>1, <3>1, <3>2
  <2>6. QueuedWeight(s.queue) <= s.charge
    <3>1. x <= z
      BY <1>3, <2>1 DEF Sound
    <3> QED
      BY <2>2, <3>1
  <2> QED
    BY <2>3, <2>4, <2>5, <2>6 DEF Sound
<1> QED
  BY <1>1, <1>2, <1>3, DeliverIs

(* DeliverSnapshot, in full, for a program whose snapshots fit the limit. *)
LEMMA DeliverSnapshotIs ==
  ASSUME SnapSize <= Limit, Head0 \in Nat, Head0 <= MaxOut,
         NEW slot \in Slot, NEW s, s = DeliverSnapshot(slot)
  PROVE  /\ s \in Slot /\ s.open = slot.open
         /\ \/ ~s.live /\ s.queue = slot.queue /\ s.charge = slot.charge /\ (slot.live => ~slot.open)
            \/ /\ slot.live /\ slot.open /\ slot.charge > 0
               /\ ~s.live /\ s.queue = Append(slot.queue, Lagged) /\ s.charge = slot.charge
            \/ /\ slot.live /\ slot.open /\ s.live
               /\ s.queue = Append(Append(slot.queue, Snapshot(Head0)), Output(Head0, 0))
               /\ s.charge = slot.charge + SnapSize
<1>1. PICK m : m = Deliver(slot, Snapshot(Head0))
  OBVIOUS
<1>o. PICK o : o = Output(Head0, 0)
  OBVIOUS
<1>2. s = Deliver(m, o)
  BY <1>1, <1>o DEF DeliverSnapshot
<1>3. Snapshot(Head0) \in Chunk /\ o \in Chunk /\ Weight(Snapshot(Head0)) = SnapSize /\ Weight(o) = 0
  BY <1>o, ChunksAre
<1>4. /\ m \in Slot /\ m.open = slot.open
      /\ \/ ~m.live /\ m.queue = slot.queue /\ m.charge = slot.charge /\ (slot.live => ~slot.open)
         \/ /\ slot.live /\ slot.open /\ slot.charge > 0
            /\ ~m.live /\ m.queue = Append(slot.queue, Lagged) /\ m.charge = slot.charge
         \/ /\ slot.live /\ slot.open /\ ~(slot.charge > 0 /\ slot.charge + SnapSize > Limit)
            /\ m.live /\ m.queue = Append(slot.queue, Snapshot(Head0)) /\ m.charge = slot.charge + SnapSize
  BY <1>1, <1>3, DeliverIs
<1>5. CASE ~m.live
  <2>1. s = m
    BY <1>2, <1>5 DEF Deliver
  <2> QED
    BY <1>4, <1>5, <2>1
<1>6. CASE m.live
  <2>0. slot.charge \in Nat /\ m.charge \in Nat /\ SnapSize \in Nat /\ Limit \in Nat
    BY <1>4, SessionEngineAssumption DEF Slot
  <2>1. /\ slot.live /\ slot.open /\ m.open /\ m.queue = Append(slot.queue, Snapshot(Head0))
        /\ m.charge = slot.charge + SnapSize /\ m.charge <= Limit
    BY <1>4, <1>6, <2>0
  <2>2. ~(m.charge > 0 /\ m.charge + Weight(o) > Limit)
    BY <1>3, <2>0, <2>1
  <2>3. /\ s \in Slot /\ s.open = m.open /\ s.live /\ s.queue = Append(m.queue, o)
        /\ s.charge = m.charge + Weight(o)
    <3>1. m \in Slot /\ o \in Chunk /\ m.live /\ m.open
      BY <1>3, <1>4, <1>6, <2>1
    <3>2. /\ s \in Slot /\ s.open = m.open
          /\ \/ ~s.live /\ s.queue = m.queue /\ s.charge = m.charge /\ (m.live => ~m.open)
             \/ /\ m.live /\ m.open /\ m.charge > 0 /\ m.charge + Weight(o) > Limit
                /\ ~s.live /\ s.queue = Append(m.queue, Lagged) /\ s.charge = m.charge
             \/ /\ m.live /\ m.open /\ ~(m.charge > 0 /\ m.charge + Weight(o) > Limit)
                /\ s.live /\ s.queue = Append(m.queue, o) /\ s.charge = m.charge + Weight(o)
      BY <1>2, <3>1, DeliverIs
    <3> QED
      BY <2>2, <3>1, <3>2
  <2> QED
    BY <1>o, <1>3, <1>4, <2>0, <2>1, <2>3
<1> QED
  BY <1>5, <1>6

LEMMA SnapshotIsSound ==
  ASSUME Head0 \in Nat, Head0 <= MaxOut, NEW slot \in Slot, Sound(slot), NEW s, s = DeliverSnapshot(slot)
  PROVE  Sound(s) /\ \A n \in Nat : Exact(slot, n) => Exact(s, n)
<1>1. PICK m : m = Deliver(slot, Snapshot(Head0))
  OBVIOUS
<1>2. s = Deliver(m, Output(Head0, 0))
  BY <1>1 DEF DeliverSnapshot
<1>3. /\ Snapshot(Head0) \in Chunk /\ Output(Head0, 0) \in Chunk
      /\ Snapshot(Head0).type # "Lagged" /\ Output(Head0, 0).type # "Lagged"
  BY ChunksAre
<1>4. m \in Slot
  BY <1>1, <1>3, DeliverIs
<1>5. Sound(m) /\ \A n \in Nat : Exact(slot, n) => Exact(m, n)
  BY <1>1, <1>3, DeliverIsSound
<1>6. Sound(s) /\ \A n \in Nat : Exact(m, n) => Exact(s, n)
  BY <1>2, <1>3, <1>4, <1>5, DeliverIsSound
<1> QED
  BY <1>5, <1>6

(* What the view is going to make of a slot's queue stays in order. *)
Flowing(x, slot, p, h) ==
  Flows(x \o slot.queue, p, h) /\ (slot.live => Reaches(x \o slot.queue, p, h))

LEMMA SnapshotFlows ==
  ASSUME SnapSize <= Limit, Head0 \in Nat, Head0 <= MaxOut,
         NEW slot \in Slot, NEW x \in Seq(Chunk), NEW p \in Nat,
         Flows(x \o slot.queue, p, Head0), slot.live => NoLag(x \o slot.queue),
         NEW s, s = DeliverSnapshot(slot)
  PROVE  Flowing(x, s, p, Head0) /\ Begins(x, slot, s, p)
<1>0. slot.queue \in Seq(Chunk)
  BY DEF Slot
<1>q. PICK q \in Seq(Chunk) : q = x \o slot.queue
  BY <1>0, CatType
<1>h. PICK h \in Nat : h = Head0
  OBVIOUS
<1>1. Flows(q, p, h) /\ (slot.live => NoLag(q))
  BY <1>q, <1>h
<1>c. PICK c, o : c = Snapshot(h) /\ o = Output(h, 0)
  OBVIOUS
<1>2. /\ c \in Chunk /\ o \in Chunk /\ Lagged \in Chunk
      /\ c.type = "Snapshot" /\ o.type = "Output" /\ End(c) = h
      /\ o.at = h /\ o.len = 0 /\ ~Placed(Lagged) /\ Lagged.type = "Lagged"
  <2>1. PICK n \in Nat : n = 0
    OBVIOUS
  <2>2. h + n <= MaxOut
    BY <1>h, <2>1
  <2>3. c \in Chunk /\ Lagged \in Chunk /\ c.type = "Snapshot" /\ End(c) = h /\ ~Placed(Lagged) /\ Lagged.type = "Lagged"
    BY <1>c, <2>2, ChunksAre
  <2>4. Output(h, n) \in Chunk /\ Output(h, n).at = h /\ Output(h, n).len = n /\ Output(h, n).type = "Output"
    BY <2>2, ChunksAre
  <2> QED
    BY <1>c, <2>1, <2>3, <2>4
<1>t. c \in Chunk /\ o \in Chunk /\ Lagged \in Chunk
  BY <1>2
<1>3. CASE ~s.live /\ s.queue = slot.queue
  BY <1>q, <1>h, <1>1, <1>3 DEF Flowing, Begins
<1>4. CASE slot.live /\ ~s.live /\ s.queue = Append(slot.queue, Lagged)
  <2>r. PICK r : r = Append(q, Lagged)
    OBVIOUS
  <2>1. x \o s.queue = r
    <3>1. x \o Append(slot.queue, Lagged) = Append(x \o slot.queue, Lagged)
      BY <1>0, <1>t, CatAppend
    <3> QED
      BY <1>q, <1>4, <2>r, <3>1
  <2>2. Flows(r, p, h) /\ r # << >> /\ (q # << >> => r[1] = q[1]) /\ (q = << >> => r[1].type = "Lagged")
    <3>1. Flows(q, p, h) /\ NoLag(q)
      BY <1>1, <1>4
    <3> QED
      BY <2>r, <3>1, FlowLag
  <2> QED
    BY <1>q, <1>h, <1>4, <2>1, <2>2 DEF Flowing, Begins, StartsIn
<1>5. CASE slot.live /\ s.live /\ s.queue = Append(Append(slot.queue, c), o)
  <2>r. PICK r : r = Append(Append(q, c), o)
    OBVIOUS
  <2>1. x \o s.queue = r
    <3>1. x \o Append(slot.queue, c) = Append(x \o slot.queue, c)
      BY <1>0, <1>t, CatAppend
    <3>2. Append(slot.queue, c) \in Seq(Chunk)
      BY <1>0, <1>t, Appended
    <3>3. x \o Append(Append(slot.queue, c), o) = Append(x \o Append(slot.queue, c), o)
      <4>1. PICK y \in Seq(Chunk) : y = Append(slot.queue, c)
        BY <3>2
      <4>2. x \o Append(y, o) = Append(x \o y, o)
        BY <1>t, CatAppend
      <4> QED
        BY <4>1, <4>2
    <3> QED
      BY <1>q, <1>5, <2>r, <3>1, <3>3
  <2>2. /\ Flows(r, p, h) /\ Reaches(r, p, h) /\ r # << >>
        /\ (q # << >> => r[1] = q[1]) /\ (q = << >> => r[1].type = "Snapshot")
    <3>1. Flows(q, p, h) /\ \A k \in 1..Len(q) : q[k].type # "Lagged"
      BY <1>1, <1>5 DEF NoLag
    <3>2. r # << >> /\ (q # << >> => r[1] = q[1]) /\ (q = << >> => r[1].type = "Snapshot")
      BY <1>2, <2>r, <3>1, FlowSnapshot
    <3>3. Flows(r, p, h)
      BY <1>2, <2>r, <3>1, FlowSnapshot
    <3>4. Reaches(r, p, h)
      BY <1>2, <2>r, <3>1, FlowSnapshot
    <3> QED
      BY <3>2, <3>3, <3>4
  <2> QED
    BY <1>q, <1>h, <1>5, <2>1, <2>2 DEF Flowing, Begins, StartsIn
<1>6. \/ ~s.live /\ s.queue = slot.queue
      \/ slot.live /\ ~s.live /\ s.queue = Append(slot.queue, Lagged)
      \/ slot.live /\ s.live /\ s.queue = Append(Append(slot.queue, c), o)
  BY <1>h, <1>c, DeliverSnapshotIs
<1> QED
  BY <1>3, <1>4, <1>5, <1>6

LEMMA DeliverNoLag ==
  ASSUME NEW slot \in Slot, NEW x \in Seq(Chunk), NEW c \in Chunk, c.type # "Lagged",
         slot.live => NoLag(x \o slot.queue), NEW s, s = Deliver(slot, c)
  PROVE  s.live => NoLag(x \o s.queue)
<1>0. slot.queue \in Seq(Chunk)
  BY DEF Slot
<1>q. PICK q \in Seq(Chunk) : q = x \o slot.queue
  BY <1>0, CatType
<1>1. ASSUME s.live PROVE slot.live /\ s.queue = Append(slot.queue, c)
  BY <1>1, DeliverIs
<1>2. ASSUME s.live PROVE NoLag(x \o s.queue)
  <2>1. x \o Append(slot.queue, c) = Append(x \o slot.queue, c)
    BY <1>0, CatAppend
  <2>2. PICK r : r = Append(q, c)
    OBVIOUS
  <2>3. x \o s.queue = r /\ NoLag(q)
    BY <1>q, <1>1, <1>2, <2>1, <2>2
  <2>4. /\ r[Len(q) + 1] = c /\ (\A k \in 1..Len(q) : r[k] = q[k])
        /\ (\A k : k \in 1..Len(r) <=> k \in 1..Len(q) \/ k = Len(q) + 1)
    BY <2>2, Appended
  <2>5. NoLag(r)
    BY <2>3, <2>4 DEF NoLag
  <2> QED
    BY <2>3, <2>5
<1> QED
  BY <1>2

(* What the owner does to a slot that goes on: the session moves from h to g. *)
Goes(slot, s, h, g) ==
  /\ s \in Slot /\ s.open = slot.open /\ (s.live => slot.live)
  /\ ~slot.live => s.queue = slot.queue
  /\ Sound(slot) => Sound(s) /\ \A n \in Nat : Exact(slot, n) => Exact(s, n)
  /\ \A x \in Seq(Chunk), p \in Nat : Flowing(x, slot, p, h) => Flowing(x, s, p, g) /\ Begins(x, slot, s, p)

LEMMA SameGoes ==
  ASSUME NEW slot \in Slot, NEW h
  PROVE  Goes(slot, slot, h, h)
BY DEF Goes, Begins

LEMMA OutputGoes ==
  ASSUME NEW slot \in Slot, NEW h \in Nat, h + 1 <= MaxOut
  PROVE  Goes(slot, Deliver(slot, Output(h, 1)), h, h + 1)
<1>g. PICK g \in Nat : g = h + 1
  OBVIOUS
<1>s. PICK o, s : o = Output(h, 1) /\ s = Deliver(slot, o)
  OBVIOUS
<1>0. o = Output(h, 1) /\ s = Deliver(slot, o) /\ g = h + 1
  BY <1>g, <1>s
<1>1. o \in Chunk /\ o.type = "Output" /\ Placed(o) /\ Carries(o, h, g)
  <2>1. PICK n \in Nat : n = 1
    OBVIOUS
  <2>2. h + n <= MaxOut /\ g = h + n /\ o = Output(h, n)
    BY <1>0, <2>1
  <2>3. /\ Output(h, n) \in Chunk /\ Output(h, n).at = h /\ End(Output(h, n)) = h + n
        /\ Output(h, n).type = "Output" /\ Placed(Output(h, n))
    BY <2>2, ChunksAre
  <2> QED
    BY <1>0, <2>2, <2>3 DEF Carries
<1>2. s \in Slot /\ s.open = slot.open /\ (s.live => slot.live) /\ (~slot.live => s.queue = slot.queue)
  <2>1. s \in Slot /\ s.open = slot.open /\ (s.live => slot.live)
    BY <1>0, <1>1, DeliverIs
  <2> QED
    BY <1>0, <2>1 DEF Deliver
<1>3. Sound(slot) => Sound(s) /\ \A n \in Nat : Exact(slot, n) => Exact(s, n)
  BY <1>0, <1>1, DeliverIsSound
<1>4. ASSUME NEW x \in Seq(Chunk), NEW p \in Nat, Flowing(x, slot, p, h)
      PROVE  Flowing(x, s, p, g) /\ Begins(x, slot, s, p)
  <2>1. Flows(x \o slot.queue, p, h) /\ (slot.live => Reaches(x \o slot.queue, p, h))
    BY <1>4 DEF Flowing
  <2>2. /\ Flows(x \o s.queue, p, g) /\ (Placed(o) /\ s.live => Reaches(x \o s.queue, p, g))
        /\ Begins(x, slot, s, p)
    BY <1>0, <1>1, <2>1, DeliverFlows
  <2> QED
    BY <1>1, <2>2 DEF Flowing, Begins
<1>5. Goes(slot, s, h, g)
  BY <1>2, <1>3, <1>4 DEF Goes
<1> QED
  BY <1>0, <1>5

LEMMA ResyncGoes ==
  ASSUME SnapSize <= Limit, Head0 \in Nat, Head0 <= MaxOut, NEW slot \in Slot
  PROVE  Goes(slot, Resynced(slot), Head0, Head0)
<1>h. PICK h \in Nat : h = Head0
  OBVIOUS
<1>s. PICK m, s : m = Deliver(slot, Resync) /\ s = DeliverSnapshot(m)
  OBVIOUS
<1>0. h = Head0 /\ m = Deliver(slot, Resync) /\ s = DeliverSnapshot(m)
  BY <1>h, <1>s
<1>1. Resync \in Chunk /\ Resync.type = "Resync" /\ Carries(Resync, h, h)
  <2>1. Resync \in Chunk /\ Resync.type = "Resync" /\ ~Placed(Resync)
    BY SessionEngineAssumption DEF Resync, Chunk, Placed
  <2> QED
    BY <2>1 DEF Carries
<1>2. m \in Slot /\ m.open = slot.open /\ (m.live => slot.live)
  BY <1>0, <1>1, DeliverIs
<1>3. s \in Slot /\ s.open = m.open /\ (s.live => m.live)
  BY <1>0, <1>2, DeliverSnapshotIs
<1>4. ~slot.live => s.queue = slot.queue
  <2>1. ASSUME ~slot.live PROVE s.queue = slot.queue
    <3>1. m = slot
      BY <1>0, <2>1 DEF Deliver
    <3>2. s = slot
      BY <1>0, <2>1, <3>1 DEF Deliver, DeliverSnapshot
    <3> QED
      BY <3>2
  <2> QED
    BY <2>1
<1>5. ASSUME Sound(slot) PROVE Sound(s) /\ \A n \in Nat : Exact(slot, n) => Exact(s, n)
  <2>1. Sound(m) /\ \A n \in Nat : Exact(slot, n) => Exact(m, n)
    BY <1>0, <1>1, <1>5, DeliverIsSound
  <2>2. Sound(s) /\ \A n \in Nat : Exact(m, n) => Exact(s, n)
    BY <1>0, <1>2, <2>1, SnapshotIsSound
  <2> QED
    BY <2>1, <2>2
<1>6. ASSUME NEW x \in Seq(Chunk), NEW p \in Nat, Flowing(x, slot, p, h)
      PROVE  Flowing(x, s, p, h) /\ Begins(x, slot, s, p)
  <2>1. Flows(x \o slot.queue, p, h) /\ (slot.live => Reaches(x \o slot.queue, p, h))
    BY <1>6 DEF Flowing
  <2>2. Flows(x \o m.queue, p, h) /\ Begins(x, slot, m, p)
    BY <1>0, <1>1, <2>1, DeliverFlows DEF Begins
  <2>3. slot.live => NoLag(x \o slot.queue)
    <3>1. x \o slot.queue \in Seq(Chunk)
      BY CatType DEF Slot
    <3> QED
      BY <2>1, <3>1, ReachedHasNoLag
  <2>4. m.live => NoLag(x \o m.queue)
    BY <1>0, <1>1, <2>3, DeliverNoLag
  <2>5. Flowing(x, s, p, Head0) /\ Begins(x, m, s, p)
    BY <1>0, <1>2, <2>2, <2>4, SnapshotFlows
  <2> QED
    BY <1>0, <2>2, <2>5 DEF Begins
<1>7. Goes(slot, s, h, h)
  BY <1>2, <1>3, <1>4, <1>5, <1>6 DEF Goes
<1>8. s = Resynced(slot)
  BY <1>0 DEF Resynced
<1> QED
  BY <1>0, <1>7, <1>8

LEMMA DetachedGoes ==
  ASSUME NEW slot \in Slot, NEW h
  PROVE  Goes(slot, [slot EXCEPT !.live = FALSE], h, h)
<1>0. PICK s : s = [slot EXCEPT !.live = FALSE]
  OBVIOUS
<1>1. s \in Slot /\ s.open = slot.open /\ ~s.live /\ s.queue = slot.queue /\ s.charge = slot.charge
  BY <1>0 DEF Slot
<1>2. Sound(slot) => Sound(s) /\ \A n \in Nat : Exact(slot, n) => Exact(s, n)
  <2>1. \A n \in Nat : Exact(slot, n) <=> Exact(s, n)
    BY <1>1 DEF Exact
  <2>2. Sound(slot) => LastLag(s) /\ Bounded(s)
    BY <1>1 DEF Sound, LastLag, Bounded
  <2> QED
    BY <1>1, <2>1, <2>2 DEF Sound
<1>3. \A x \in Seq(Chunk), p \in Nat : Flowing(x, slot, p, h) => Flowing(x, s, p, h) /\ Begins(x, slot, s, p)
  BY <1>1 DEF Flowing, Begins
<1>4. Goes(slot, s, h, h)
  BY <1>1, <1>2, <1>3 DEF Goes
<1> QED
  BY <1>0, <1>4

(* The queue a slot starts with, for a view that is not behind where it resumes. *)
Resumes(slot, from) ==
  \A P : \A p \in Nat : p <= Head0 /\ (Resumable(from) => from <= p /\ from \in P) =>
    Flowing(<< >>, slot, p, Head0) /\ StartsIn(slot.queue, P)

(* What an attachment starts from, for a view that is at p and asks to resume
   there or takes a snapshot. *)
LEMMA StartedIs ==
  ASSUME SnapSize <= Limit, Head0 \in Nat, Head0 <= MaxOut,
         NEW from \in 0..MaxOut \cup {None}, NEW fresh \in Slot,
         fresh.queue = << >>, fresh.charge = 0, fresh.live, fresh.open,
         NEW t, t = Started(fresh, from)
  PROVE  /\ t \in Slot /\ t.open /\ Sound(t) /\ Exact(t, 0)
         /\ Resumes(t, from)
         /\ from = None => t.live /\ Len(t.queue) = 2 /\ t.queue[1] = Snapshot(Head0) /\ t.queue[2] = Output(Head0, 0)
<1>h. PICK h \in Nat : h = Head0
  OBVIOUS
<1>0. h = Head0
  BY <1>h
<1>2. << >> \in Seq(Chunk) /\ Len(<< >>) = 0 /\ << >> \o << >> = << >>
  OBVIOUS
<1>3. /\ fresh.queue = << >> /\ fresh.charge = 0 /\ fresh.live /\ fresh.open
      /\ << >> \o fresh.queue = << >>
  BY <1>2
<1>4. Exact(fresh, 0) /\ Sound(fresh)
  <2>1. Exact(fresh, 0)
    BY <1>3, WeightNone DEF Exact
  <2>2. LastLag(fresh) /\ OneWeighs(fresh.queue)
    BY <1>2, <1>3 DEF LastLag, OneWeighs
  <2>3. QueuedWeight(fresh.queue) <= fresh.charge
    BY <1>3, WeightNone
  <2> QED
    BY <2>1, <2>2, <2>3 DEF Sound, Bounded
<1>5. ASSUME NEW p \in Nat, NEW k \in Nat, p <= k PROVE Flows(<< >>, p, k) /\ Reaches(<< >>, p, p) /\ NoLag(<< >>)
  BY <1>2, <1>5 DEF Flows, Linked, Completed, Within, Reaches, NoLag
<1>6. /\ t \in Slot /\ t.open /\ Sound(t) /\ Exact(t, 0)
      /\ \A p \in Nat : p <= h /\ (Resumable(from) => p = from) =>
           Flowing(<< >>, t, p, h) /\ Begins(<< >>, fresh, t, p)
      /\ Resumable(from) => \A k \in 1..Len(t.queue) : Placed(t.queue[k]) => End(t.queue[k]) = h
  <2>1. CASE ~Resumable(from)
    <3>1. t = DeliverSnapshot(fresh)
      BY <1>0, <2>1 DEF Started
    <3>2. t \in Slot /\ t.open
      BY <1>3, <3>1, DeliverSnapshotIs
    <3>3. Sound(t) /\ Exact(t, 0)
      <4>1. 0 \in Nat
        OBVIOUS
      <4> QED
        BY <1>3, <1>4, <3>1, <4>1, SnapshotIsSound
    <3>4. ASSUME NEW p \in Nat, p <= h PROVE Flowing(<< >>, t, p, h) /\ Begins(<< >>, fresh, t, p)
      <4>1. Flows(<< >> \o fresh.queue, p, Head0) /\ NoLag(<< >> \o fresh.queue)
        BY <1>0, <1>3, <1>5, <3>4
      <4> QED
        BY <1>0, <1>2, <1>3, <3>1, <4>1, SnapshotFlows
    <3> QED
      BY <2>1, <3>2, <3>3, <3>4
  <2>2. CASE Resumable(from) /\ from < Head0
    <3>f. PICK f \in Nat, n \in Nat : f = from /\ n = h - f
      BY <1>0, <2>2, SessionEngineAssumption DEF Resumable
    <3>o. PICK o : o = Output(f, n)
      OBVIOUS
    <3>0. f = from /\ n = h - f /\ o = Output(f, n)
      BY <3>f, <3>o
    <3>1. t = Deliver(fresh, o)
      BY <1>0, <2>2, <3>0 DEF Started
    <3>2. o \in Chunk /\ o.type = "Output" /\ Placed(o) /\ Carries(o, f, h)
      <4>1. f + n = h /\ f + n <= MaxOut /\ f <= h
        BY <1>0, <2>2, <3>0
      <4>2. /\ Output(f, n) \in Chunk /\ Output(f, n).at = f /\ End(Output(f, n)) = f + n
            /\ Output(f, n).type = "Output" /\ Placed(Output(f, n))
        BY <4>1, ChunksAre
      <4> QED
        BY <3>0, <4>1, <4>2 DEF Carries
    <3>3. t \in Slot /\ t.open
      BY <1>3, <3>1, <3>2, DeliverIs
    <3>4. Sound(t) /\ Exact(t, 0)
      <4>1. 0 \in Nat
        OBVIOUS
      <4> QED
        BY <1>3, <1>4, <3>1, <3>2, <4>1, DeliverIsSound
    <3>5. Flowing(<< >>, t, f, h) /\ Begins(<< >>, fresh, t, f)
      <4>1. Flows(<< >> \o fresh.queue, f, f) /\ Reaches(<< >> \o fresh.queue, f, f)
        BY <1>3, <1>5
      <4>2. /\ Flows(<< >> \o t.queue, f, h) /\ (Placed(o) /\ t.live => Reaches(<< >> \o t.queue, f, h))
            /\ Begins(<< >>, fresh, t, f)
        <5>1. f <= f /\ << >> \in Seq(Chunk)
          OBVIOUS
        <5> QED
          BY <1>3, <3>1, <3>2, <4>1, <5>1, DeliverFlows
      <4> QED
        BY <3>2, <4>2 DEF Flowing
    <3>6. \A k \in 1..Len(t.queue) : Placed(t.queue[k]) => End(t.queue[k]) = h
      <4>1. (t.queue = Append(fresh.queue, Lagged) \/ t.queue = Append(fresh.queue, o) \/ t.queue = fresh.queue)
            /\ Lagged \in Chunk /\ ~Placed(Lagged) /\ End(o) = h
        <5>1. ~Placed(Lagged)
          BY DEF Placed, Lagged
        <5> QED
          BY <1>3, <3>1, <3>2, <5>1, DeliverIs DEF Carries
      <4>2. ASSUME NEW c \in Chunk, t.queue = Append(fresh.queue, c), NEW k \in 1..Len(t.queue) PROVE t.queue[k] = c
        <5>1. t.queue[1] = c /\ Len(t.queue) = 1
          BY <1>3, <4>2
        <5> QED
          BY <4>2, <5>1
      <4>3. CASE t.queue = fresh.queue
        BY <1>2, <1>3, <4>3
      <4> QED
        BY <3>2, <4>1, <4>2, <4>3
    <3> QED
      BY <2>2, <3>0, <3>3, <3>4, <3>5, <3>6
  <2>3. CASE Resumable(from) /\ ~(from < Head0)
    <3>1. t = fresh /\ from = Head0
      BY <1>0, <2>3 DEF Started, Resumable
    <3>2. Flowing(<< >>, t, h, h) /\ Begins(<< >>, fresh, t, h)
      BY <1>3, <1>5, <3>1 DEF Flowing, Begins
    <3>3. \A k \in 1..Len(t.queue) : Placed(t.queue[k]) => End(t.queue[k]) = h
      BY <1>2, <1>3, <3>1
    <3> QED
      BY <1>0, <1>3, <1>4, <2>3, <3>1, <3>2, <3>3
  <2> QED
    BY <2>1, <2>2, <2>3
<1>7. ASSUME NEW p \in Nat, NEW P, p <= Head0, Resumable(from) => from <= p /\ from \in P
      PROVE  Flowing(<< >>, t, p, Head0) /\ StartsIn(t.queue, P)
  <2>f. PICK f \in Nat : f <= p /\ f <= h /\ (Resumable(from) => f = from /\ f \in P) /\ (~Resumable(from) => f = p)
    <3>1. Resumable(from) => from \in Nat /\ from <= p
      BY <1>7, SessionEngineAssumption DEF Resumable
    <3> QED
      BY <1>0, <1>7, <3>1
  <2>1. Flowing(<< >>, t, f, h) /\ Begins(<< >>, fresh, t, f)
    BY <1>0, <1>6, <2>f
  <2>2. ASSUME NEW Q, f \in Q PROVE StartsIn(<< >> \o t.queue, Q)
    BY <1>3, <2>1, <2>2 DEF Begins, StartsIn
  <2>3. << >> \o t.queue = t.queue
    BY <1>6, CatNone DEF Slot
  <2>4. CASE f = p
    <3>1. CASE Resumable(from)
      BY <1>0, <2>f, <2>1, <2>2, <2>3, <2>4, <3>1
    <3>2. CASE ~Resumable(from)
      <4>1. t = DeliverSnapshot(fresh)
        BY <1>0, <3>2 DEF Started
      <4>2. t.queue # << >> => t.queue[1].type # "Output"
        <5>1. /\ Snapshot(Head0) \in Chunk /\ Output(Head0, 0) \in Chunk /\ Snapshot(Head0).type = "Snapshot"
              /\ Lagged \in Chunk /\ Lagged.type = "Lagged"
          BY ChunksAre
        <5>2. \/ t.queue = fresh.queue \/ t.queue = Append(fresh.queue, Lagged)
              \/ t.queue = Append(Append(fresh.queue, Snapshot(Head0)), Output(Head0, 0))
          BY <4>1, DeliverSnapshotIs
        <5>3. CASE t.queue = Append(fresh.queue, Lagged)
          <6>1. t.queue[1] = Lagged
            BY <1>3, <5>3
          <6> QED
            BY <5>1, <6>1
        <5>4. CASE t.queue = Append(Append(fresh.queue, Snapshot(Head0)), Output(Head0, 0))
          <6>1. t.queue[1] = Snapshot(Head0)
            BY <1>3, <5>4
          <6> QED
            BY <5>1, <6>1
        <5> QED
          BY <1>3, <5>2, <5>3, <5>4
      <4>3. StartsIn(t.queue, P)
        BY <4>2 DEF StartsIn
      <4> QED
        BY <1>0, <2>1, <2>4, <4>3
    <3> QED
      BY <3>1, <3>2
  <2>5. CASE f # p
    <3>1. Resumable(from) /\ f \in P /\ f < p
      BY <2>f, <2>5
    <3>2. Flows(t.queue, f, h) /\ (t.live => Reaches(t.queue, f, h))
      BY <2>1, <2>3 DEF Flowing
    <3>3. p <= h /\ \A k \in 1..Len(t.queue) : Placed(t.queue[k]) => End(t.queue[k]) = h
      BY <1>0, <1>6, <1>7, <3>1
    <3>4. Flows(t.queue, p, h)
      BY <3>2, <3>3 DEF Flows, Within
    <3>5. t.live => Reaches(t.queue, p, h)
      BY <3>1, <3>2, <3>3 DEF Reaches
    <3>6. StartsIn(t.queue, P)
      BY <2>2, <2>3, <3>1
    <3> QED
      BY <1>0, <2>3, <3>4, <3>5, <3>6 DEF Flowing
  <2> QED
    BY <2>4, <2>5
<1>8. ASSUME from = None PROVE t.live /\ Len(t.queue) = 2 /\ t.queue[1] = Snapshot(Head0) /\ t.queue[2] = Output(Head0, 0)
  <2>1. t = DeliverSnapshot(fresh)
    BY <1>8 DEF Started, Resumable
  <2>2. t.live /\ t.queue = Append(Append(fresh.queue, Snapshot(Head0)), Output(Head0, 0))
    BY <1>3, <2>1, DeliverSnapshotIs
  <2>3. Snapshot(Head0) \in Chunk /\ Output(Head0, 0) \in Chunk
    BY ChunksAre
  <2>4. ASSUME NEW a \in Chunk, NEW b \in Chunk, NEW q \in Seq(Chunk), Len(q) = 0, NEW r, r = Append(Append(q, a), b)
        PROVE  Len(r) = 2 /\ r[1] = a /\ r[2] = b
    BY <2>4
  <2>5. fresh.queue \in Seq(Chunk) /\ Len(fresh.queue) = 0
    BY <1>2, <1>3
  <2> QED
    BY <2>2, <2>3, <2>4, <2>5
<1> QED
  BY <1>6, <1>7, <1>8 DEF Resumes

(* The same for the slot Command::Attach adds, whose receiver may be gone. *)
LEMMA AttachedIs ==
  ASSUME SnapSize <= Limit, Head0 \in Nat, Head0 <= MaxOut,
         NEW from \in 0..MaxOut \cup {None}, NEW w \in BOOLEAN, NEW s,
         s = [Started([NoSlot EXCEPT !.live = TRUE, !.open = TRUE], from) EXCEPT !.open = w]
  PROVE  /\ s \in Slot /\ s.open = w /\ Sound(s) /\ Exact(s, 0)
         /\ Resumes(s, from)
         /\ from = None => s.live /\ Len(s.queue) = 2 /\ s.queue[1] = Snapshot(Head0) /\ s.queue[2] = Output(Head0, 0)
<1>1. PICK f : f = [NoSlot EXCEPT !.live = TRUE, !.open = TRUE]
  OBVIOUS
<1>2. f \in Slot /\ f.queue = << >> /\ f.charge = 0 /\ f.live /\ f.open
  <2>1. NoSlot \in Slot /\ NoSlot.queue = << >> /\ NoSlot.charge = 0
    <3>1. << >> \in Seq(Chunk)
      OBVIOUS
    <3> QED
      BY <3>1 DEF NoSlot, Slot
  <2> QED
    BY <1>1, <2>1 DEF Slot
<1>3. PICK t : t = Started(f, from)
  OBVIOUS
<1>4. /\ t \in Slot /\ t.open /\ Sound(t) /\ Exact(t, 0)
      /\ Resumes(t, from)
      /\ from = None => t.live /\ Len(t.queue) = 2 /\ t.queue[1] = Snapshot(Head0) /\ t.queue[2] = Output(Head0, 0)
  BY <1>2, <1>3, StartedIs
<1>5. s = [t EXCEPT !.open = w]
  BY <1>1, <1>3
<1>6. /\ s \in Slot /\ s.open = w /\ s.queue = t.queue /\ s.charge = t.charge /\ s.live = t.live
  BY <1>4, <1>5 DEF Slot
<1>7. Sound(s) /\ Exact(s, 0)
  <2>1. Exact(s, 0) /\ LastLag(s) /\ Bounded(s)
    BY <1>4, <1>6 DEF Exact, Sound, LastLag, Bounded
  <2>2. QueuedWeight(s.queue) <= s.charge
    BY <1>4, <1>6 DEF Sound
  <2> QED
    BY <2>1, <2>2 DEF Sound
<1>8. ASSUME NEW p \in Nat, NEW P, p <= Head0, Resumable(from) => from <= p /\ from \in P
      PROVE  Flowing(<< >>, s, p, Head0) /\ StartsIn(s.queue, P)
  <2>1. Flowing(<< >>, t, p, Head0) /\ StartsIn(t.queue, P)
    BY <1>4, <1>8 DEF Resumes
  <2> QED
    BY <1>6, <2>1 DEF Flowing
<1>9. from = None => s.live /\ Len(s.queue) = 2 /\ s.queue[1] = Snapshot(Head0) /\ s.queue[2] = Output(Head0, 0)
  BY <1>4, <1>6
<1> QED
  BY <1>6, <1>7, <1>8, <1>9 DEF Resumes

-----------------------------------------------------------------------------
(* The owner's commands: output still to come is counted. *)
FeedAt(q) == { k \in 1..Len(q) : q[k].op = "feed" }
FeedsOK   == feeds = Cardinality(FeedAt(commands)) /\ Head0 + feeds <= MaxOut

LEMMA TailIs ==
  ASSUME NEW S, NEW q \in Seq(S), q # << >>, NEW t, t = Tail(q)
  PROVE  /\ t \in Seq(S) /\ Len(q) \in Nat /\ Len(t) \in Nat /\ Len(t) + 1 = Len(q)
         /\ 1 \in 1..Len(q) /\ Head(q) = q[1] /\ Head(q) \in S
         /\ \A k \in 1..Len(t) : t[k] = q[k + 1] /\ k + 1 \in 1..Len(q)
OBVIOUS

LEMMA FeedsAreFinite ==
  ASSUME NEW q \in Seq(Command)
  PROVE  IsFiniteSet(FeedAt(q)) /\ Cardinality(FeedAt(q)) \in Nat
<1>1. IsFiniteSet(1..Len(q))
  BY FS_Interval
<1>2. FeedAt(q) \in SUBSET (1..Len(q))
  BY DEF FeedAt
<1> QED
  BY <1>1, <1>2, FS_Subset, FS_CardinalityType

LEMMA FeedsAppended ==
  ASSUME NEW q \in Seq(Command), NEW c \in Command
  PROVE  Cardinality(FeedAt(Append(q, c))) = Cardinality(FeedAt(q)) + (IF c.op = "feed" THEN 1 ELSE 0)
<1>0. PICK r : r = Append(q, c)
  OBVIOUS
<1>l. PICK l \in Nat : l = Len(q) + 1
  OBVIOUS
<1>1. /\ Len(r) = l /\ r[l] = c /\ (\A k \in 1..Len(q) : r[k] = q[k]) /\ l \notin 1..Len(q)
      /\ (\A k : k \in 1..Len(r) <=> k \in 1..Len(q) \/ k = l)
  BY <1>0, <1>l, Appended
<1>2. IsFiniteSet(FeedAt(q)) /\ Cardinality(FeedAt(q)) \in Nat
  BY FeedsAreFinite
<1>3. CASE c.op = "feed"
  <2>1. FeedAt(r) = FeedAt(q) \cup {l} /\ l \notin FeedAt(q)
    BY <1>1, <1>3 DEF FeedAt
  <2> QED
    BY <1>0, <1>2, <1>3, <2>1, FS_AddElement
<1>4. CASE c.op # "feed"
  <2>1. FeedAt(r) = FeedAt(q)
    BY <1>1, <1>4 DEF FeedAt
  <2> QED
    BY <1>0, <1>2, <1>4, <2>1
<1> QED
  BY <1>3, <1>4

LEMMA FeedsServed ==
  ASSUME NEW q \in Seq(Command), q # << >>
  PROVE  Cardinality(FeedAt(q)) = Cardinality(FeedAt(Tail(q))) + (IF Head(q).op = "feed" THEN 1 ELSE 0)
<1>0. PICK t : t = Tail(q)
  OBVIOUS
<1>1. /\ t \in Seq(Command) /\ Len(q) \in Nat /\ Len(t) \in Nat /\ Len(t) + 1 = Len(q)
      /\ 1 \in 1..Len(q) /\ Head(q) = q[1] /\ \A k \in 1..Len(t) : t[k] = q[k + 1] /\ k + 1 \in 1..Len(q)
  BY <1>0, TailIs
<1>2. /\ IsFiniteSet(FeedAt(q)) /\ IsFiniteSet(FeedAt(t))
      /\ Cardinality(FeedAt(q)) \in Nat /\ Cardinality(FeedAt(t)) \in Nat
  BY <1>1, FeedsAreFinite
<1>3. ExistsBijection(FeedAt(t), FeedAt(q) \ {1})
  <2> DEFINE f == [k \in FeedAt(t) |-> k + 1]
  <2>1. f \in [FeedAt(t) -> FeedAt(q) \ {1}]
    BY <1>1 DEF FeedAt
  <2>2. \A j, k \in FeedAt(t) : f[j] = f[k] => j = k
    BY <1>1 DEF FeedAt
  <2>3. ASSUME NEW k \in FeedAt(q) \ {1} PROVE \E j \in FeedAt(t) : f[j] = k
    <3>1. k - 1 \in 1..Len(t) /\ (k - 1) + 1 = k /\ q[k].op = "feed"
      BY <1>1 DEF FeedAt
    <3>2. k - 1 \in FeedAt(t)
      BY <1>1, <3>1 DEF FeedAt
    <3> QED
      BY <3>1, <3>2
  <2>4. f \in Bijection(FeedAt(t), FeedAt(q) \ {1})
    <3> HIDE DEF f
    <3> QED
      BY <2>1, <2>2, <2>3 DEF Bijection, Injection, Surjection, IsInjective
  <2> HIDE DEF f
  <2> QED
    BY <2>4 DEF ExistsBijection
<1>4. Cardinality(FeedAt(q) \ {1}) = Cardinality(FeedAt(t))
  BY <1>2, <1>3, FS_Bijection
<1>5. Cardinality(FeedAt(q) \ {1}) = IF 1 \in FeedAt(q) THEN Cardinality(FeedAt(q)) - 1 ELSE Cardinality(FeedAt(q))
  BY <1>2, FS_RemoveElement
<1>6. 1 \in FeedAt(q) <=> Head(q).op = "feed"
  BY <1>1 DEF FeedAt
<1> QED
  BY <1>0, <1>2, <1>4, <1>5, <1>6

-----------------------------------------------------------------------------
(* The owner's steps. *)

LEMMA AttIs ==
  Att \subseteq Nat /\ 1 \in Att /\ None \notin Att /\ FreshIds \subseteq Att
<1>1. Att \subseteq Nat /\ 1 \in Att /\ None \notin Att
  BY SessionEngineAssumption DEF Att
<1> QED
  BY <1>1 DEF FreshIds

LEMMA HeadIs ==
  ASSUME EngineTypeOK
  PROVE  Head0 \in Nat /\ Head0 <= MaxOut
BY DEF EngineTypeOK, Head0

LEMMA BroadcastGoes ==
  ASSUME EngineTypeOK, Head0 + 1 <= MaxOut, NEW k \in {"text", "switch"}, Broadcast(k)
  PROVE  /\ out' \in Seq({"text", "switch"}) /\ Head0' = Head0 + 1 /\ Head0' \in Nat /\ Head0 <= Head0'
         /\ fan' \in [Att -> Slot] /\ \A a \in Att : Goes(fan[a], fan'[a], Head0, Head0')
<1>1. out' \in Seq({"text", "switch"}) /\ Len(out') = Len(out) + 1 /\ Len(out) \in Nat
  BY Appended DEF EngineTypeOK, Broadcast
<1>2. Head0' = Head0 + 1 /\ Head0 \in Nat
  BY <1>1 DEF Head0
<1>3. ASSUME NEW a \in Att PROVE Goes(fan[a], fan'[a], Head0, Head0') /\ fan'[a] \in Slot
  <2>1. fan[a] \in Slot /\ fan'[a] = Deliver(fan[a], Output(Head0, 1))
    BY DEF EngineTypeOK, Broadcast
  <2>2. Goes(fan[a], fan'[a], Head0, Head0 + 1)
    BY <1>2, <2>1, OutputGoes
  <2> QED
    BY <1>2, <2>2 DEF Goes
<1>4. fan' \in [Att -> Slot]
  <2>1. fan' = [a \in Att |-> fan'[a]]
    BY DEF Broadcast
  <2> QED
    BY <1>3, <2>1
<1> QED
  BY <1>1, <1>2, <1>3, <1>4

LEMMA DrainStep ==
  ASSUME EngineTypeOK, FeedsOK, NEW k \in {"text", "switch"}, Drain(k)
  PROVE  /\ EngineTypeOK' /\ FeedsOK' /\ Head0 \in Nat /\ Head0' \in Nat /\ Head0 <= Head0'
         /\ \A a \in Att : Goes(fan[a], fan'[a], Head0, Head0')
<1>1. Head0 \in Nat /\ feeds \in Nat /\ Head0 + feeds < MaxOut /\ MaxOut \in Nat
  BY HeadIs, SessionEngineAssumption DEF EngineTypeOK, Drain
<1>2. Head0 + 1 <= MaxOut /\ Broadcast(k)
  BY <1>1 DEF Drain
<1>3. /\ out' \in Seq({"text", "switch"}) /\ Head0' = Head0 + 1 /\ Head0' \in Nat /\ Head0 <= Head0'
      /\ fan' \in [Att -> Slot] /\ \A a \in Att : Goes(fan[a], fan'[a], Head0, Head0')
  BY <1>2, BroadcastGoes
<1>4. EngineTypeOK'
  BY <1>2, <1>3 DEF EngineTypeOK, Drain
<1>5. FeedsOK'
  BY <1>1, <1>3 DEF FeedsOK, Drain
<1> QED
  BY <1>1, <1>3, <1>4, <1>5

LEMMA EndDrainStep ==
  ASSUME SnapSize <= Limit, EngineTypeOK, FeedsOK, EndDrain
  PROVE  /\ EngineTypeOK' /\ FeedsOK' /\ Head0 \in Nat /\ Head0' = Head0
         /\ \A a \in Att : Goes(fan[a], fan'[a], Head0, Head0)
<1>1. Head0 \in Nat /\ Head0 <= MaxOut /\ Head0' = Head0
  BY HeadIs DEF EndDrain, Head0
<1>2. ASSUME NEW a \in Att PROVE Goes(fan[a], fan'[a], Head0, Head0) /\ fan'[a] \in Slot
  <2>1. fan[a] \in Slot
    BY DEF EngineTypeOK
  <2>2. fan'[a] = fan[a] \/ fan'[a] = Resynced(fan[a])
    BY DEF EndDrain
  <2>3. Goes(fan[a], fan'[a], Head0, Head0)
    BY <1>1, <2>1, <2>2, SameGoes, ResyncGoes
  <2> QED
    BY <2>3 DEF Goes
<1>3. fan' \in [Att -> Slot]
  <2>1. fan' = [a \in Att |-> fan'[a]]
    BY DEF EndDrain, EngineTypeOK
  <2> QED
    BY <1>2, <2>1
<1>4. saw' \subseteq Att /\ wasAlt' \in BOOLEAN
  BY DEF EndDrain, EngineTypeOK, Alternate, AltAfter
<1>5. EngineTypeOK'
  BY <1>1, <1>3, <1>4 DEF EngineTypeOK, EndDrain
<1>6. FeedsOK'
  BY <1>1 DEF FeedsOK, EndDrain
<1> QED
  BY <1>1, <1>2, <1>5, <1>6

LEMMA ServeFeedStep ==
  ASSUME EngineTypeOK, FeedsOK, ServeFeed
  PROVE  /\ EngineTypeOK' /\ FeedsOK' /\ Head0 \in Nat /\ Head0' \in Nat /\ Head0 <= Head0'
         /\ \A a \in Att : Goes(fan[a], fan'[a], Head0, Head0')
<1>0. /\ commands # << >> /\ Head(commands).op = "feed" /\ commands' = Tail(commands)
      /\ Broadcast("text") /\ commands \in Seq(Command)
  BY DEF ServeFeed, EngineTypeOK
<1>1. Head0 \in Nat /\ feeds \in Nat /\ MaxOut \in Nat /\ Head0 + feeds <= MaxOut /\ feeds <= MaxFeed /\ MaxFeed \in Nat
  BY HeadIs, SessionEngineAssumption DEF EngineTypeOK, FeedsOK
<1>2. commands' \in Seq(Command)
  BY <1>0, TailIs
<1>3. feeds = Cardinality(FeedAt(commands')) + 1 /\ Cardinality(FeedAt(commands')) \in Nat
  BY <1>0, <1>2, FeedsServed, FeedsAreFinite DEF FeedsOK
<1>4. feeds' = feeds - 1 /\ feeds' = Cardinality(FeedAt(commands')) /\ feeds' \in 0..MaxFeed
  BY <1>1, <1>3 DEF ServeFeed
<1>5. Head0 + 1 <= MaxOut
  BY <1>1, <1>3
<1>6. /\ out' \in Seq({"text", "switch"}) /\ Head0' = Head0 + 1 /\ Head0' \in Nat /\ Head0 <= Head0'
      /\ fan' \in [Att -> Slot] /\ \A a \in Att : Goes(fan[a], fan'[a], Head0, Head0')
  BY <1>0, <1>5, BroadcastGoes
<1>7. EngineTypeOK'
  BY <1>2, <1>4, <1>5, <1>6 DEF EngineTypeOK, ServeFeed
<1>8. FeedsOK'
  BY <1>1, <1>4, <1>6 DEF FeedsOK
<1> QED
  BY <1>1, <1>6, <1>7, <1>8

LEMMA ServeAttachTypes ==
  ASSUME SnapSize <= Limit, EngineTypeOK, FeedsOK, ServeAttach
  PROVE  EngineTypeOK' /\ FeedsOK' /\ Head0 \in Nat /\ Head0' = Head0
<1>0. /\ commands # << >> /\ Head(commands).op = "attach" /\ commands' = Tail(commands)
      /\ commands \in Seq(Command)
  BY DEF ServeAttach, EngineTypeOK
<1>1. PICK a \in FreshIds :
        /\ fan' = [fan EXCEPT ![a] = [Started([NoSlot EXCEPT !.live = TRUE, !.open = TRUE], Head(commands).from)
                                        EXCEPT !.open = (Head(commands).who # None)]]
        /\ att' = IF Head(commands).who = None THEN att ELSE [att EXCEPT ![Head(commands).who] = a]
        /\ saw' = IF Alternate THEN saw \cup {a} ELSE saw \ {a}
  BY DEF ServeAttach
<1>2. a \in Att
  BY <1>1, AttIs
<1>3. Head0 \in Nat /\ Head0 <= MaxOut /\ Head0' = Head0
  BY HeadIs DEF ServeAttach, Head0
<1>4. commands' \in Seq(Command) /\ Head(commands) \in Command
  BY <1>0, TailIs
<1>5. /\ Head(commands).from \in 0..MaxOut \cup {None} /\ Head(commands).who \in Reader \cup {None}
  BY <1>4 DEF Command
<1>6. [Started([NoSlot EXCEPT !.live = TRUE, !.open = TRUE], Head(commands).from)
                                        EXCEPT !.open = (Head(commands).who # None)] \in Slot
  <2>1. PICK w \in BOOLEAN : w = (Head(commands).who # None)
    OBVIOUS
  <2>2. PICK from \in 0..MaxOut \cup {None} : from = Head(commands).from
    BY <1>5
  <2>3. [Started([NoSlot EXCEPT !.live = TRUE, !.open = TRUE], from) EXCEPT !.open = w] \in Slot
    BY <1>3, AttachedIs
  <2> QED
    BY <2>1, <2>2, <2>3
<1>7. fan' \in [Att -> Slot] /\ att' \in [Reader -> Att \cup {None}] /\ saw' \subseteq Att
  BY <1>1, <1>2, <1>5, <1>6 DEF EngineTypeOK
<1>8. EngineTypeOK'
  BY <1>3, <1>4, <1>7 DEF EngineTypeOK, ServeAttach
<1>9. FeedsOK'
  <2>1. Cardinality(FeedAt(commands)) = Cardinality(FeedAt(commands')) + 0
    BY <1>0, FeedsServed
  <2>2. Cardinality(FeedAt(commands')) \in Nat
    BY <1>4, FeedsAreFinite
  <2> QED
    BY <1>3, <2>1, <2>2 DEF FeedsOK, ServeAttach
<1> QED
  BY <1>3, <1>8, <1>9

LEMMA ServeDetachStep ==
  ASSUME EngineTypeOK, FeedsOK, ServeDetach, Head(commands).id \in Att
  PROVE  /\ EngineTypeOK' /\ FeedsOK' /\ Head0 \in Nat /\ Head0' = Head0
         /\ \A a \in Att : Goes(fan[a], fan'[a], Head0, Head0)
<1>0. /\ commands # << >> /\ Head(commands).op = "detach" /\ commands' = Tail(commands)
      /\ commands \in Seq(Command) /\ fan \in [Att -> Slot]
  BY DEF ServeDetach, EngineTypeOK
<1>1. PICK d \in Att : d = Head(commands).id
  OBVIOUS
<1>2. fan' = [fan EXCEPT ![d] = [fan[d] EXCEPT !.live = FALSE]] /\ saw' \subseteq Att
  BY <1>1 DEF ServeDetach, EngineTypeOK
<1>3. Head0 \in Nat /\ Head0 <= MaxOut /\ Head0' = Head0
  BY HeadIs DEF ServeDetach, Head0
<1>4. commands' \in Seq(Command)
  BY <1>0, TailIs
<1>5. ASSUME NEW a \in Att PROVE Goes(fan[a], fan'[a], Head0, Head0) /\ fan'[a] \in Slot
  <2>1. fan[a] \in Slot
    BY <1>0
  <2>2. fan'[a] = fan[a] \/ fan'[a] = [fan[a] EXCEPT !.live = FALSE]
    BY <1>0, <1>2
  <2>3. Goes(fan[a], fan'[a], Head0, Head0)
    BY <2>1, <2>2, SameGoes, DetachedGoes
  <2> QED
    BY <2>3 DEF Goes
<1>6. fan' \in [Att -> Slot]
  <2>1. fan' = [a \in Att |-> fan'[a]]
    BY <1>0, <1>2
  <2> QED
    BY <1>5, <2>1
<1>7. EngineTypeOK'
  BY <1>2, <1>3, <1>4, <1>6 DEF EngineTypeOK, ServeDetach
<1>8. FeedsOK'
  <2>1. Cardinality(FeedAt(commands)) = Cardinality(FeedAt(commands')) + 0
    BY <1>0, FeedsServed
  <2>2. Cardinality(FeedAt(commands')) \in Nat
    BY <1>4, FeedsAreFinite
  <2> QED
    BY <1>3, <2>1, <2>2 DEF FeedsOK, ServeDetach
<1> QED
  BY <1>3, <1>5, <1>7, <1>8

LEMMA EndTickStep ==
  ASSUME EngineTypeOK, FeedsOK, EndTick
  PROVE  EngineTypeOK' /\ FeedsOK' /\ Head0 \in Nat /\ Head0' = Head0
<1>1. Head0 \in Nat /\ Head0' = Head0
  BY HeadIs DEF EndTick, Head0
<1>2. EngineTypeOK'
  BY <1>1 DEF EngineTypeOK, EndTick
<1>3. FeedsOK'
  BY <1>1 DEF FeedsOK, EndTick
<1> QED
  BY <1>1, <1>2, <1>3

LEMMA AskFeedStep ==
  ASSUME EngineTypeOK, FeedsOK, AskFeed
  PROVE  EngineTypeOK' /\ FeedsOK' /\ Head0 \in Nat /\ Head0' = Head0
<1>1. Head0 \in Nat /\ Head0' = Head0 /\ MaxFeed \in Nat
  BY HeadIs, SessionEngineAssumption DEF AskFeed, Head0
<1>2. FeedCommand \in Command /\ FeedCommand.op = "feed"
  BY DEF FeedCommand, Command
<1>3. commands' \in Seq(Command)
  BY <1>2, Appended DEF AskFeed, EngineTypeOK
<1>4. feeds' = feeds + 1 /\ feeds' \in 0..MaxFeed /\ feeds \in Nat
  BY <1>1 DEF AskFeed, EngineTypeOK
<1>5. EngineTypeOK'
  BY <1>1, <1>3, <1>4 DEF EngineTypeOK, AskFeed
<1>6. FeedsOK'
  <2>1. Cardinality(FeedAt(commands')) = Cardinality(FeedAt(commands)) + 1
    BY <1>2, FeedsAppended DEF AskFeed, EngineTypeOK
  <2>2. Head0 + feeds < MaxOut /\ MaxOut \in Nat
    BY SessionEngineAssumption DEF AskFeed
  <2> QED
    BY <1>1, <1>4, <2>1, <2>2 DEF FeedsOK
<1> QED
  BY <1>1, <1>5, <1>6

(* A reader's commands leave those of the others, and the output to come. *)
LEMMA CommandSent ==
  ASSUME NEW q \in Seq(Command), NEW c \in Command, c.op # "feed"
  PROVE  Append(q, c) \in Seq(Command) /\ Cardinality(FeedAt(Append(q, c))) = Cardinality(FeedAt(q))
<1>1. Cardinality(FeedAt(Append(q, c))) = Cardinality(FeedAt(q)) + 0 /\ Cardinality(FeedAt(q)) \in Nat
  BY FeedsAppended, FeedsAreFinite
<1> QED
  BY <1>1, Appended

LEMMA Abandoned ==
  ASSUME EngineTypeOK, NEW r
  PROVE  /\ Abandon(r) \in Seq(Command) /\ Len(Abandon(r)) = Len(commands) /\ FeedAt(Abandon(r)) = FeedAt(commands)
         /\ \A k \in 1..Len(commands) :
              /\ Abandon(r)[k].op = commands[k].op /\ Abandon(r)[k].from = commands[k].from
              /\ Abandon(r)[k].id = commands[k].id
              /\ Abandon(r)[k].who = IF commands[k].who = r THEN None ELSE commands[k].who
<1>1. ASSUME NEW k \in 1..Len(commands)
      PROVE  LET b == IF commands[k].who = r THEN [commands[k] EXCEPT !.who = None] ELSE commands[k]
             IN /\ b \in Command /\ b.op = commands[k].op /\ b.from = commands[k].from /\ b.id = commands[k].id
                /\ b.who = IF commands[k].who = r THEN None ELSE commands[k].who
  <2>1. commands[k] \in Command
    BY DEF EngineTypeOK
  <2> QED
    BY <2>1 DEF Command
<1>2. PICK n \in Nat : n = Len(commands)
  BY DEF EngineTypeOK
<1>3. Abandon(r) \in [1..n -> Command] /\ \A k \in 1..n :
              /\ Abandon(r)[k].op = commands[k].op /\ Abandon(r)[k].from = commands[k].from
              /\ Abandon(r)[k].id = commands[k].id
              /\ Abandon(r)[k].who = IF commands[k].who = r THEN None ELSE commands[k].who
  BY <1>1, <1>2 DEF Abandon
<1>4. Abandon(r) \in Seq(Command) /\ Len(Abandon(r)) = n
  BY <1>3
<1> QED
  BY <1>2, <1>3, <1>4 DEF FeedAt
=============================================================================
