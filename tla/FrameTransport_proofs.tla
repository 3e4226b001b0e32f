------------------------ MODULE FrameTransport_proofs ------------------------
(***************************************************************************)
(* Theorems about FrameTransport.tla for every number of links, keys,      *)
(* frames and messages and every value of the limits.  The inductive       *)
(* invariant IInv has five parts: ShapeInv on the variables that are not   *)
(* queues, LinkInv on what each link has waiting and in flight, SlotInv on *)
(* the slot that the server links share, NoStall, and PartsInv on what the *)
(* peers have collected.                                                   *)
(***************************************************************************)
EXTENDS FrameTransport, FiniteSetTheorems, FunctionTheorems, SequenceTheorems, TLAPS

-----------------------------------------------------------------------------
(* The part of a list at given positions *)

\* The size of a numbering.
LEMMA NumbersCounted ==
  ASSUME NEW n \in Nat
  PROVE  IsFiniteSet(1 .. n) /\ Cardinality(1 .. n) = n
<1>1. 1 \in Int /\ n \in Int /\ (1 > n => n = 0)
  OBVIOUS
<1>2. IsFiniteSet(1 .. n) /\ Cardinality(1 .. n) = IF 1 > n THEN 0 ELSE n - 1 + 1
  BY <1>1, FS_Interval
<1> QED
  BY <1>1, <1>2

\* The ranks in a finite set of integers are the numbers from 1, in the same
\* order.
LEMMA Ranks ==
  ASSUME NEW S \in SUBSET Int, IsFiniteSet(S)
  PROVE  /\ Cardinality(S) \in Nat
         /\ \A c \in S : Rank(S, c) \in 1 .. Cardinality(S)
         /\ \A c, d \in S : c < d => Rank(S, c) < Rank(S, d)
<1>1. Cardinality(S) \in Nat
  BY FS_CardinalityType
<1>2. ASSUME NEW c \in S
      PROVE  Rank(S, c) \in 1 .. Cardinality(S)
  <2> DEFINE upTo == {d \in S : d <= c}
  <2>1. IsFiniteSet(upTo) /\ Cardinality(upTo) <= Cardinality(S)
    BY FS_Subset, upTo \in SUBSET S
  <2>2. c \in upTo
    OBVIOUS
  <2>3. Cardinality(upTo) \in Nat /\ Cardinality(upTo) # 0
    BY <2>1, <2>2, FS_CardinalityType, FS_EmptySet
  <2> QED
    BY <1>1, <2>1, <2>3 DEF Rank
<1>3. ASSUME NEW c \in S, NEW d \in S, c < d
      PROVE  Rank(S, c) < Rank(S, d)
  <2> DEFINE upTo(k) == {m \in S : m <= k}
  <2>1. upTo(c) \in SUBSET upTo(d) /\ d \in upTo(d) /\ d \notin upTo(c)
    <3>1. c \in Int /\ d \in Int /\ \A m \in S : m \in Int
      OBVIOUS
    <3>2. \A m \in S : m <= c => m <= d
      BY <3>1, <1>3
    <3>3. d <= d /\ ~ (d <= c)
      BY <3>1, <1>3
    <3> QED
      BY <3>2, <3>3
  <2>2. IsFiniteSet(upTo(d)) /\ IsFiniteSet(upTo(c))
    BY FS_Subset, upTo(c) \in SUBSET S, upTo(d) \in SUBSET S
  <2>3. Cardinality(upTo(c)) <= Cardinality(upTo(d)) /\ Cardinality(upTo(c)) # Cardinality(upTo(d))
    BY <2>1, <2>2, FS_Subset
  <2>4. Cardinality(upTo(c)) \in Nat /\ Cardinality(upTo(d)) \in Nat
    BY <2>2, FS_CardinalityType
  <2> QED
    BY <2>3, <2>4 DEF Rank
<1> QED
  BY <1>1, <1>2, <1>3

\* Every number up to the size of the set is the rank of one member.
LEMMA Ranked ==
  ASSUME NEW S \in SUBSET Int, IsFiniteSet(S), NEW k \in 1 .. Cardinality(S)
  PROVE  \E c \in S : Rank(S, c) = k
<1> DEFINE rank == [c \in S |-> Rank(S, c)]
           n == Cardinality(S)
<1>1. n \in Nat /\ IsFiniteSet(1 .. n) /\ Cardinality(1 .. n) = n
  <2>1. n \in Nat
    BY Ranks
  <2> QED
    BY <2>1, NumbersCounted
<1>2. rank \in [S -> 1 .. n]
  BY Ranks
<1>3. \A c, d \in S : rank[c] = rank[d] => c = d
  <2> SUFFICES ASSUME NEW c \in S, NEW d \in S, c # d PROVE rank[c] # rank[d]
    OBVIOUS
  <2>1. c \in Int /\ d \in Int /\ (c < d \/ d < c)
    OBVIOUS
  <2>2. Rank(S, c) \in Nat /\ Rank(S, d) \in Nat
    BY Ranks
  <2>3. Rank(S, c) < Rank(S, d) \/ Rank(S, d) < Rank(S, c)
    BY <2>1, Ranks
  <2> QED
    BY <2>2, <2>3
<1>4. rank \in Injection(S, 1 .. n)
  BY <1>2, <1>3 DEF Injection, IsInjective
<1>5. rank \in Surjection(S, 1 .. n)
  BY <1>1, <1>4, FS_Injection
<1> QED
  BY <1>5 DEF Surjection

\* Positions of a sequence are such a set.
LEMMA PositionsFinite ==
  ASSUME NEW n \in Nat, NEW at \in SUBSET (1 .. n)
  PROVE  IsFiniteSet(at) /\ Cardinality(at) \in 0 .. n /\ at \in SUBSET Int
<1>1. IsFiniteSet(1 .. n) /\ Cardinality(1 .. n) = n
  BY NumbersCounted
<1>2. IsFiniteSet(at) /\ Cardinality(at) <= n
  BY <1>1, FS_Subset
<1>3. Cardinality(at) \in Nat
  BY <1>2, FS_CardinalityType
<1> QED
  BY <1>2, <1>3

\* Pick follows a rising numbering of the positions.
LEMMA PickPositions ==
  ASSUME NEW S, NEW s \in Seq(S), NEW at \in SUBSET DOMAIN s
  PROVE  \E pos \in [1 .. Cardinality(at) -> at] :
           /\ \A m, n \in 1 .. Cardinality(at) : m < n => pos[m] < pos[n]
           /\ \A i \in at : \E n \in 1 .. Cardinality(at) : pos[n] = i
           /\ Pick(s, at) = [n \in 1 .. Cardinality(at) |-> s[pos[n]]]
<1> DEFINE c == Cardinality(at)
           pos == [n \in 1 .. c |-> CHOOSE i \in at : Rank(at, i) = n]
<1>1. /\ Len(s) \in Nat /\ at \in SUBSET (1 .. Len(s))
     /\ at \in SUBSET Int /\ IsFiniteSet(at)
  BY PositionsFinite
<1>2. \A n \in 1 .. c : pos[n] \in at /\ Rank(at, pos[n]) = n
  BY <1>1, Ranked
<1>3. pos \in [1 .. c -> at] 
  BY <1>2
<1>4. ASSUME NEW m \in 1 .. c, NEW n \in 1 .. c, m < n
      PROVE  pos[m] < pos[n]
  <2>1. pos[m] \in Nat /\ pos[n] \in Nat /\ Rank(at, pos[m]) = m /\ Rank(at, pos[n]) = n
    BY <1>1, <1>2
  <2>2. CASE pos[m] = pos[n]
    <3>1. m = n
      BY <2>1, <2>2
    <3>2. m \in Nat
      OBVIOUS
    <3> QED
      BY <3>1, <3>2, <1>4
  <2>3. CASE pos[n] < pos[m]
    <3>1. Rank(at, pos[n]) < Rank(at, pos[m])
      BY <1>1, <1>2, <2>3, Ranks
    <3>2. c \in Nat
      BY <1>1, Ranks
    <3> QED
      BY <3>1, <3>2, <2>1, <1>4
  <2> QED
    BY <2>1, <2>2, <2>3
<1>5. ASSUME NEW i \in at
      PROVE  \E n \in 1 .. c : pos[n] = i
  <2>1. Rank(at, i) \in 1 .. c
    BY <1>1, Ranks
  <2>2. pos[Rank(at, i)] \in at /\ Rank(at, pos[Rank(at, i)]) = Rank(at, i)
    BY <2>1, <1>2
  <2>3. \A j \in at : Rank(at, j) = Rank(at, i) => j = i
    <3> SUFFICES ASSUME NEW j \in at, j # i PROVE Rank(at, j) # Rank(at, i)
      OBVIOUS
    <3>1. Rank(at, i) \in Nat /\ Rank(at, j) \in Nat
      BY <1>1, Ranks
    <3>2. i < j \/ j < i
      BY <1>1
    <3>3. Rank(at, i) < Rank(at, j) \/ Rank(at, j) < Rank(at, i)
      BY <1>1, <3>2, Ranks
    <3> QED
      BY <3>1, <3>3
  <2>4. pos[Rank(at, i)] = i
    BY <2>2, <2>3
  <2> QED
    BY <2>1, <2>4
<1>6. Pick(s, at) = [n \in 1 .. c |-> s[pos[n]]]
  BY DEF Pick
<1> HIDE DEF pos
<1> QED
  BY <1>3, <1>4, <1>5, <1>6

\* What is picked, how much it is, and that nothing else is.
LEMMA Picked ==
  ASSUME NEW S, NEW s \in Seq(S), NEW at \in SUBSET DOMAIN s
  PROVE  /\ Pick(s, at) \in Seq(S)
         /\ Len(Pick(s, at)) = Cardinality(at)
         /\ \A n \in DOMAIN Pick(s, at) : \E i \in at : Pick(s, at)[n] = s[i]
         /\ \A i \in at : \E n \in DOMAIN Pick(s, at) : Pick(s, at)[n] = s[i]
<1> DEFINE c == Cardinality(at)
<1>1. c \in Nat
  BY PositionsFinite, Len(s) \in Nat, at \in SUBSET (1 .. Len(s))
<1>2. PICK pos \in [1 .. c -> at] :
        /\ \A i \in at : \E n \in 1 .. c : pos[n] = i
        /\ Pick(s, at) = [n \in 1 .. c |-> s[pos[n]]]
  BY PickPositions
<1>3. \A n \in 1 .. c : s[pos[n]] \in S
  BY <1>2
<1>4. Pick(s, at) \in Seq(S) /\ Len(Pick(s, at)) = c /\ DOMAIN Pick(s, at) = 1 .. c
  BY <1>1, <1>2, <1>3
<1>5. \A n \in 1 .. c : Pick(s, at)[n] = s[pos[n]] /\ pos[n] \in at
  BY <1>2
<1>6. \A i \in at : \E n \in 1 .. c : Pick(s, at)[n] = s[i]
  BY <1>2, <1>5
<1> QED
  BY <1>4, <1>5, <1>6

\* A sequence falls into the part at some positions and the part elsewhere.
LEMMA PickSplits ==
  ASSUME NEW S, NEW s \in Seq(S), NEW at \in SUBSET DOMAIN s
  PROVE  /\ Len(Pick(s, at)) \in Nat
         /\ Len(Pick(s, DOMAIN s \ at)) \in Nat
         /\ Len(Pick(s, at)) + Len(Pick(s, DOMAIN s \ at)) = Len(s)
<1> DEFINE n == Len(s)
           D == 1 .. n
<1>1. n \in Nat /\ DOMAIN s = D
  OBVIOUS
<1>2. IsFiniteSet(D) /\ Cardinality(D) = n
  BY <1>1, NumbersCounted
<1>3. D \cap at = at
  BY <1>1
<1>4. Cardinality(D \ at) = n - Cardinality(at)
  <2>1. Cardinality(D \ at) = Cardinality(D) - Cardinality(D \cap at)
    BY <1>2, FS_Difference
  <2> QED
    BY <1>2, <1>3, <2>1
<1>5. Cardinality(at) \in 0 .. n
  BY <1>1, PositionsFinite
<1>6. Len(Pick(s, at)) = Cardinality(at)
  BY Picked
<1>7. Len(Pick(s, DOMAIN s \ at)) = Cardinality(D \ at)
  BY <1>1, Picked, (DOMAIN s \ at) \in SUBSET DOMAIN s
<1> QED
  BY <1>1, <1>4, <1>5, <1>6, <1>7

-----------------------------------------------------------------------------
(* The inductive invariant *)

Number == 1 .. MaxMessages

\* The frames that process p and those before it made, by their urgency.
FrameOf(p, u) ==
  {f \in [msg : (1 .. p) \X Number, id : Nat, key : Key, urgent : {u},
          seq : Nat, total : Nat] :
     f.total = Frames[f.key] /\ f.seq \in 1 .. f.total /\ f.id = f.msg[2]}

AnyFrame(p) == FrameOf(p, TRUE) \cup FrameOf(p, FALSE)

QueueOf(p) ==
  [urgent : Seq(FrameOf(p, TRUE)), normal : Seq(FrameOf(p, FALSE)), keys : SUBSET Key]

\* How many of the frames in flight would go back among the normal ones.
Borrowed(b) == IF b # << >> /\ ~ b[1].urgent THEN 1 ELSE 0

\* A link with queue q and b in flight keeps its limits, also if b comes back,
\* and still has the last frame of every message whose key it holds.
GoodLink(q, b, p) ==
  /\ q \in QueueOf(p)
  /\ b \in Seq(AnyFrame(p)) /\ Len(b) <= 1
  /\ Len(q.urgent) + Len(q.normal) + Len(b) <= MaxFrames
  /\ Len(q.normal) + Borrowed(b) <= MaxFrames - Reserve
  /\ \A k \in q.keys : \E f \in Waiting(q) \cup ToSet(b) : f.key = k /\ IsLast(f)

CallOf == [previous : SUBSET Server, exclude : SUBSET Server]

ShapeInv ==
  /\ state \in [Link -> {"none", "open", "ready"}]
  /\ active \subseteq Server /\ due \subseteq Link /\ next \subseteq CallOf
  /\ failures \in [Link -> 0 .. (MaxFailures - 1)]
  /\ nextId \in Nat \ {0} /\ process \in Nat \ {0} /\ upsets \in Nat

LinkInv ==
  /\ DOMAIN queue = Link /\ DOMAIN busy = Link
  /\ \A l \in Link : GoodLink(queue[l], busy[l], process)
  /\ air \in [Link -> Seq(AnyFrame(process))]

\* A link that is not ready has nothing in flight, and only a client link that
\* is being set up has something to send.
Settled(l) ==
  /\ state[l] # "ready" => busy[l] = << >>
  /\ state[l] = "none" \/ (l \in Server /\ state[l] # "ready") => IsIdle(queue[l])

\* At most one server link has the slot.
SlotInv ==
  /\ active = {} \/ \E l \in Server : active = {l}
  /\ OneSender
  /\ \A l \in Link : Settled(l)

\* What is collected under an id was cut from messages with this number.
GoodParts(parts) ==
  /\ IsFiniteSet(DOMAIN parts) /\ Cardinality(DOMAIN parts) <= MaxInbound
  /\ \A i \in DOMAIN parts : \A s \in DOMAIN parts[i].chunks : parts[i].chunks[s] \in Nat \X {i}

Numbered(chunks) == \E i \in Number : \A s \in DOMAIN chunks : chunks[s] \in Nat \X {i}

PartsInv ==
  /\ DOMAIN inbound = Link /\ DOMAIN handled = Link
  /\ \A l \in Link : GoodParts(inbound[l]) /\ \A chunks \in handled[l] : Numbered(chunks)

IInv == ShapeInv /\ LinkInv /\ SlotInv /\ NoStall /\ PartsInv

-----------------------------------------------------------------------------
(* Sequences and their elements *)

LEMMA ElementsOfEmpty == ToSet(<< >>) = {}
BY DEF ToSet

LEMMA ElementsOfOne ==
  ASSUME NEW e
  PROVE  ToSet(<<e>>) = {e}
BY DEF ToSet

LEMMA ElementsOfConcat ==
  ASSUME NEW S, NEW s \in Seq(S), NEW t \in Seq(S)
  PROVE  /\ s \o t \in Seq(S) /\ Len(s \o t) = Len(s) + Len(t)
         /\ ToSet(s \o t) = ToSet(s) \cup ToSet(t)
<1>1. ToSet(s) = Range(s) /\ ToSet(t) = Range(t) /\ ToSet(s \o t) = Range(s \o t)
  BY DEF ToSet, Range
<1> QED
  BY <1>1, RangeConcatenation

\* A sequence is its first element and the rest.
LEMMA ElementsOfHeadTail ==
  ASSUME NEW S, NEW s \in Seq(S), s # << >>
  PROVE  /\ Head(s) \in S /\ Tail(s) \in Seq(S) /\ Len(Tail(s)) = Len(s) - 1
         /\ Head(s) = s[1] /\ 1 \in 1 .. Len(s)
         /\ \A i \in 1 .. Len(Tail(s)) : Tail(s)[i] = s[i + 1] /\ i + 1 \in 1 .. Len(s)
         /\ ToSet(s) = {Head(s)} \cup ToSet(Tail(s))
<1>1. /\ Head(s) \in S /\ Tail(s) \in Seq(S) /\ Len(Tail(s)) = Len(s) - 1
      /\ Head(s) = s[1] /\ 1 \in 1 .. Len(s)
      /\ \A i \in 1 .. Len(Tail(s)) : Tail(s)[i] = s[i + 1] /\ i + 1 \in 1 .. Len(s)
  OBVIOUS
<1>2. <<Head(s)>> \o Tail(s) = s /\ <<Head(s)>> \in Seq(S)
  BY <1>1
<1>3. ToSet(s) = ToSet(<<Head(s)>>) \cup ToSet(Tail(s))
  BY <1>1, <1>2, ElementsOfConcat
<1> QED
  BY <1>1, <1>3, ElementsOfOne

LEMMA ElementsAreMembers ==
  ASSUME NEW S, NEW s \in Seq(S)
  PROVE  ToSet(s) \subseteq S
BY DEF ToSet

-----------------------------------------------------------------------------
(* What the operations on a queue do to a link *)

\* Limits that are needed again and again.
LEMMA Limits ==
  /\ MaxFrames \in Nat \ {0} /\ Reserve \in Nat /\ MaxFrames - Reserve \in Nat \ {0}
  /\ MaxFrames - Reserve <= MaxFrames
  /\ \A k \in Key : Frames[k] \in Nat \ {0}
BY LimitAssumption, MessageAssumption

\* A message number does not wrap around.
LEMMA NoWrap ==
  ASSUME NEW n \in Number
  PROVE  n % IdSpace = n
BY LimitAssumption DEF Number

LEMMA EmptyGood ==
  ASSUME NEW p
  PROVE  GoodLink(EmptyQueue, << >>, p)
BY Limits DEF GoodLink, QueueOf, EmptyQueue, Borrowed

LEMMA GoodTypes ==
  ASSUME NEW p, NEW q, NEW b, GoodLink(q, b, p)
  PROVE  /\ q \in QueueOf(p)
         /\ q.urgent \in Seq(FrameOf(p, TRUE)) /\ q.normal \in Seq(FrameOf(p, FALSE))
         /\ q.keys \subseteq Key /\ b \in Seq(AnyFrame(p))
         /\ Len(q.urgent) \in Nat /\ Len(q.normal) \in Nat /\ Len(b) \in Nat /\ Len(b) <= 1
         /\ Borrowed(b) \in Nat /\ Borrowed(b) <= Len(b)
<1>1. /\ q.urgent \in Seq(FrameOf(p, TRUE)) /\ q.normal \in Seq(FrameOf(p, FALSE))
      /\ q \in QueueOf(p) /\ q.keys \subseteq Key
      /\ b \in Seq(AnyFrame(p)) /\ Len(b) <= 1
  BY DEF GoodLink, QueueOf
<1>2. Len(q.urgent) \in Nat /\ Len(q.normal) \in Nat /\ Len(b) \in Nat
  BY <1>1
<1>3. b # << >> => Len(b) # 0
  BY <1>1
<1>4. Borrowed(b) \in Nat /\ Borrowed(b) <= Len(b)
  BY <1>2, <1>3 DEF Borrowed
<1> QED
  BY <1>1, <1>2, <1>4

\* The frames of a new message.
FramesOfNew(k, u) == [i \in 1 .. Frames[k] |-> Frame(nextId, k, u, i)]

LEMMA NewFrames ==
  ASSUME NEW k \in Key, NEW u \in BOOLEAN, nextId \in Number, process \in Nat \ {0}
  PROVE  /\ FramesOfNew(k, u) \in Seq(FrameOf(process, u))
         /\ Len(FramesOfNew(k, u)) = Frames[k]
         /\ \E f \in ToSet(FramesOfNew(k, u)) : f.key = k /\ IsLast(f)
<1> DEFINE n == Frames[k]
           fs == FramesOfNew(k, u)
<1>1. n \in Nat \ {0}
  BY Limits
<1>2. ASSUME NEW i \in 1 .. n
      PROVE  Frame(nextId, k, u, i) \in FrameOf(process, u)
  BY NoWrap, <1>1 DEF Frame, FrameOf, Number
<1>3. fs \in Seq(FrameOf(process, u)) /\ Len(fs) = n
  BY <1>1, <1>2 DEF FramesOfNew
<1>4. n \in DOMAIN fs /\ fs[n].key = k /\ IsLast(fs[n])
  BY <1>1 DEF Frame, IsLast, FramesOfNew
<1>5. fs[n] \in ToSet(fs)
  BY <1>4 DEF ToSet
<1> QED
  BY <1>3, <1>4, <1>5

LEMMA AddedGood ==
  ASSUME NEW q, NEW b, GoodLink(q, b, process), NEW k \in Key, NEW u \in BOOLEAN,
         nextId \in Number, process \in Nat \ {0},
         Len(q.urgent) + Len(q.normal) + Len(b) + Frames[k] <=
           IF u THEN MaxFrames ELSE MaxFrames - Reserve
  PROVE  GoodLink(Added(q, k, u), b, process)
<1> DEFINE fs == FramesOfNew(k, u)
           r == Added(q, k, u)
           n == Frames[k]
           U == FrameOf(process, TRUE)
           N == FrameOf(process, FALSE)
<1>1. /\ fs \in Seq(FrameOf(process, u)) /\ Len(fs) = n
      /\ \E f \in ToSet(fs) : f.key = k /\ IsLast(f)
  BY NewFrames
<1>2. /\ q \in [urgent : Seq(U), normal : Seq(N), keys : SUBSET Key]
      /\ q.urgent \in Seq(U) /\ q.normal \in Seq(N)
      /\ Len(q.urgent) \in Nat /\ Len(q.normal) \in Nat /\ Len(b) \in Nat
      /\ Borrowed(b) \in Nat /\ Borrowed(b) <= Len(b)
  BY GoodTypes DEF QueueOf
<1>3. r = IF u THEN [q EXCEPT !.urgent = @ \o fs, !.keys = @ \cup {k}]
          ELSE [q EXCEPT !.normal = @ \o fs, !.keys = @ \cup {k}]
  BY DEF Added, FramesOfNew
<1>4. n \in Nat
  BY Limits
<1>5. n + Len(q.urgent) + Len(q.normal) + Len(b) <= IF u THEN MaxFrames ELSE MaxFrames - Reserve
  BY <1>2, <1>4
<1> HIDE DEF r, fs, U, N, n
<1>6. CASE u
  <2>1. fs \in Seq(U)
    BY <1>1, <1>6 DEF U
  <2>2. /\ q.urgent \o fs \in Seq(U) /\ Len(q.urgent \o fs) = Len(q.urgent) + n
        /\ ToSet(q.urgent \o fs) = ToSet(q.urgent) \cup ToSet(fs)
    <3>1. q.urgent \in Seq(U) /\ Len(fs) = n
      BY <1>1, <1>2
    <3> QED
      BY <2>1, <3>1, ElementsOfConcat
  <2>3. r.urgent = q.urgent \o fs /\ r.normal = q.normal /\ r.keys = q.keys \cup {k}
        /\ r \in [urgent : Seq(U), normal : Seq(N), keys : SUBSET Key]
    BY <1>2, <1>3, <1>6, <2>2
  <2>4. Waiting(r) = Waiting(q) \cup ToSet(fs)
    BY <2>2, <2>3 DEF Waiting
  <2>5. \A kk \in r.keys : \E f \in Waiting(r) \cup ToSet(b) : f.key = kk /\ IsLast(f)
    BY <1>1, <2>3, <2>4 DEF GoodLink
  <2>6. Len(r.urgent) + Len(r.normal) + Len(b) <= MaxFrames
    BY <1>2, <1>4, <1>5, <1>6, <2>2, <2>3, Limits
  <2> QED
    BY <2>3, <2>5, <2>6 DEF GoodLink, QueueOf, r, U, N
<1>7. CASE ~ u
  <2>1. fs \in Seq(N)
    BY <1>1, <1>7 DEF N
  <2>2. /\ q.normal \o fs \in Seq(N) /\ Len(q.normal \o fs) = Len(q.normal) + n
        /\ ToSet(q.normal \o fs) = ToSet(q.normal) \cup ToSet(fs)
    <3>1. q.normal \in Seq(N) /\ Len(fs) = n
      BY <1>1, <1>2
    <3> QED
      BY <2>1, <3>1, ElementsOfConcat
  <2>3. r.urgent = q.urgent /\ r.normal = q.normal \o fs /\ r.keys = q.keys \cup {k}
        /\ r \in [urgent : Seq(U), normal : Seq(N), keys : SUBSET Key]
    BY <1>2, <1>3, <1>7, <2>2
  <2>4. Waiting(r) = Waiting(q) \cup ToSet(fs)
    BY <2>2, <2>3 DEF Waiting
  <2>5. \A kk \in r.keys : \E f \in Waiting(r) \cup ToSet(b) : f.key = kk /\ IsLast(f)
    BY <1>1, <2>3, <2>4 DEF GoodLink
  <2>6. Len(r.urgent) = Len(q.urgent) /\ Len(r.normal) = Len(q.normal) + n
    BY <2>2, <2>3
  <2>7. Len(r.urgent) + Len(r.normal) + Len(b) <= MaxFrames
    BY <1>2, <1>4, <1>5, <1>7, <2>6, Limits
  <2>8. Len(r.normal) + Borrowed(b) <= MaxFrames - Reserve
    BY <1>2, <1>4, <1>5, <1>7, <2>6, Limits
  <2> QED
    BY <2>3, <2>5, <2>7, <2>8 DEF GoodLink, QueueOf, r, U, N
<1> QED
  BY <1>6, <1>7

\* A frame that moves up stays the same frame.
LEMMA MovedUp ==
  ASSUME NEW p, NEW f \in FrameOf(p, FALSE)
  PROVE  LET g == [f EXCEPT !.urgent = TRUE]
         IN g \in FrameOf(p, TRUE) /\ g.key = f.key /\ (IsLast(f) => IsLast(g))
BY DEF FrameOf, IsLast

LEMMA PromotedGood ==
  ASSUME NEW p, NEW q, NEW b, GoodLink(q, b, p), NEW k
  PROVE  GoodLink(Promoted(q, k), b, p) /\ (IsIdle(q) <=> IsIdle(Promoted(q, k)))
<1> DEFINE U == FrameOf(p, TRUE)
           N == FrameOf(p, FALSE)
           same == {i \in DOMAIN q.normal : q.normal[i].key = k}
           moved == Pick(q.normal, same)
           rest == Pick(q.normal, DOMAIN q.normal \ same)
           up == [i \in 1 .. Len(moved) |-> [moved[i] EXCEPT !.urgent = TRUE]]
           r == Promoted(q, k)
<1>1. /\ q \in [urgent : Seq(U), normal : Seq(N), keys : SUBSET Key]
      /\ q.urgent \in Seq(U) /\ q.normal \in Seq(N)
      /\ Len(q.urgent) \in Nat /\ Len(q.normal) \in Nat /\ Len(b) \in Nat
      /\ Borrowed(b) \in Nat
  BY GoodTypes DEF QueueOf
<1>2. /\ moved \in Seq(N)
      /\ \A i \in same : \E n \in DOMAIN moved : moved[n] = q.normal[i]
  BY <1>1, Picked, same \in SUBSET DOMAIN q.normal
<1>3. /\ rest \in Seq(N)
      /\ \A i \in DOMAIN q.normal \ same : \E n \in DOMAIN rest : rest[n] = q.normal[i]
  BY <1>1, Picked, (DOMAIN q.normal \ same) \in SUBSET DOMAIN q.normal
<1>4. Len(moved) \in Nat /\ Len(rest) \in Nat /\ Len(moved) + Len(rest) = Len(q.normal)
  BY <1>1, PickSplits, same \in SUBSET DOMAIN q.normal
<1>5. r = [q EXCEPT !.normal = rest, !.urgent = @ \o up]
  BY DEF Promoted
<1> HIDE DEF moved, rest, r, U, N
<1>6. ASSUME NEW n \in 1 .. Len(moved)
      PROVE  /\ up[n] \in U /\ up[n].key = moved[n].key
             /\ IsLast(moved[n]) => IsLast(up[n])
  <2>1. moved[n] \in N
    BY <1>2
  <2> QED
    BY <2>1, MovedUp DEF U, N
<1>7. up \in Seq(U) /\ Len(up) = Len(moved) /\ DOMAIN up = 1 .. Len(moved)
  BY <1>4, <1>6
<1>8. DOMAIN moved = 1 .. Len(moved)
  BY <1>2
<1> HIDE DEF up
<1>9. /\ q.urgent \o up \in Seq(U) /\ Len(q.urgent \o up) = Len(q.urgent) + Len(up)
      /\ ToSet(q.urgent \o up) = ToSet(q.urgent) \cup ToSet(up)
  BY <1>1, <1>7, ElementsOfConcat
<1>10. /\ r.urgent = q.urgent \o up /\ r.normal = rest /\ r.keys = q.keys
       /\ r \in [urgent : Seq(U), normal : Seq(N), keys : SUBSET Key]
  BY <1>1, <1>3, <1>5, <1>9
<1> DEFINE qu == Len(q.urgent)
           qn == Len(q.normal)
           ru == Len(r.urgent)
           rn == Len(r.normal)
           m == Len(moved)
<1>11. ru + rn = qu + qn /\ rn <= qn /\ rn \in Nat /\ ru \in Nat /\ qu \in Nat /\ qn \in Nat
  <2>1. ru = qu + m /\ rn = Len(rest)
    BY <1>7, <1>9, <1>10
  <2>2. qu \in Nat /\ qn \in Nat /\ m \in Nat /\ Len(rest) \in Nat /\ m + Len(rest) = qn
    BY <1>1, <1>4
  <2> HIDE DEF ru, rn, qu, qn, m
  <2> QED
    BY <2>1, <2>2
<1>12. ASSUME NEW f \in Waiting(q)
       PROVE  \E g \in Waiting(r) : g.key = f.key /\ (IsLast(f) => IsLast(g))
  <2>1. CASE f \in ToSet(q.urgent)
    BY <1>9, <1>10, <2>1 DEF Waiting
  <2>2. CASE f \in ToSet(q.normal)
    <3>1. PICK i \in DOMAIN q.normal : f = q.normal[i]
      BY <2>2 DEF ToSet
    <3>2. CASE i \in same
      <4>1. PICK n \in DOMAIN moved : moved[n] = f
        BY <1>2, <3>1, <3>2
      <4>2. up[n] \in ToSet(up) /\ up[n].key = f.key /\ (IsLast(f) => IsLast(up[n]))
        BY <1>6, <1>7, <1>8, <4>1 DEF ToSet
      <4> QED
        BY <4>2, <1>9, <1>10 DEF Waiting
    <3>3. CASE i \notin same
      <4>1. f \in ToSet(rest)
        BY <1>3, <3>1, <3>3 DEF ToSet
      <4> QED
        BY <4>1, <1>10 DEF Waiting
    <3> QED
      BY <3>2, <3>3
  <2> QED
    BY <2>1, <2>2 DEF Waiting
<1>13. \A kk \in r.keys : \E f \in Waiting(r) \cup ToSet(b) : f.key = kk /\ IsLast(f)
  <2> SUFFICES ASSUME NEW kk \in q.keys
               PROVE  \E f \in Waiting(r) \cup ToSet(b) : f.key = kk /\ IsLast(f)
    BY <1>10
  <2>1. PICK f \in Waiting(q) \cup ToSet(b) : f.key = kk /\ IsLast(f)
    BY DEF GoodLink
  <2> QED
    BY <2>1, <1>12
<1>14. ru + rn + Len(b) <= MaxFrames /\ rn + Borrowed(b) <= MaxFrames - Reserve
  <2>1. qu + qn + Len(b) <= MaxFrames /\ qn + Borrowed(b) <= MaxFrames - Reserve
    BY DEF GoodLink
  <2>2. Len(b) \in Nat /\ Borrowed(b) \in Nat
    BY <1>1
  <2> HIDE DEF ru, rn, qu, qn
  <2> QED
    BY <1>11, <2>1, <2>2, Limits
<1>15. IsIdle(q) <=> IsIdle(r)
  <2>1. IsIdle(q) <=> qu = 0 /\ qn = 0
    <3>1. (q.urgent = << >> <=> Len(q.urgent) = 0) /\ (q.normal = << >> <=> Len(q.normal) = 0)
      BY <1>1
    <3> QED
      BY <3>1 DEF IsIdle
  <2>2. IsIdle(r) <=> ru = 0 /\ rn = 0
    <3>1. r.urgent \in Seq(U) /\ r.normal \in Seq(N)
      BY <1>10
    <3>2. (r.urgent = << >> <=> Len(r.urgent) = 0) /\ (r.normal = << >> <=> Len(r.normal) = 0)
      BY <3>1
    <3> QED
      BY <3>2 DEF IsIdle
  <2>3. qu = 0 /\ qn = 0 <=> ru = 0 /\ rn = 0
    <3> HIDE DEF ru, rn, qu, qn
    <3> QED
      BY <1>11
  <2> QED
    BY <2>1, <2>2, <2>3
<1> QED
  BY <1>10, <1>13, <1>14, <1>15, GoodTypes DEF GoodLink, QueueOf, r, U, N

\* The first frame leaves the queue for the air.
LEMMA TakenGood ==
  ASSUME NEW p, NEW q, GoodLink(q, << >>, p), ~ IsIdle(q)
  PROVE  /\ First(q) \in AnyFrame(p)
         /\ GoodLink(WithoutFirst(q), <<First(q)>>, p)
<1> DEFINE U == FrameOf(p, TRUE)
           N == FrameOf(p, FALSE)
           f == First(q)
           r == WithoutFirst(q)
           b == <<f>>
<1>1. /\ q \in [urgent : Seq(U), normal : Seq(N), keys : SUBSET Key]
      /\ q.urgent \in Seq(U) /\ q.normal \in Seq(N)
      /\ Len(q.urgent) \in Nat /\ Len(q.normal) \in Nat
  BY GoodTypes DEF QueueOf
<1>2. /\ Len(q.urgent) + Len(q.normal) <= MaxFrames
      /\ Len(q.normal) <= MaxFrames - Reserve
  <2>1. Len(<< >>) = 0 /\ Borrowed(<< >>) = 0
    BY DEF Borrowed
  <2> QED
    BY <1>1, <2>1, Limits DEF GoodLink
<1>3. \A x : x \in U => x.urgent = TRUE
  BY DEF U, FrameOf
<1>4. \A x : x \in N => x.urgent = FALSE
  BY DEF N, FrameOf
<1> HIDE DEF U, N
<1>5. CASE q.urgent # << >>
  <2>1. f = Head(q.urgent) /\ r = [q EXCEPT !.urgent = Tail(@)]
    BY <1>5 DEF First, WithoutFirst
  <2>2. /\ Head(q.urgent) \in U /\ Tail(q.urgent) \in Seq(U)
        /\ Len(Tail(q.urgent)) = Len(q.urgent) - 1
        /\ ToSet(q.urgent) = {Head(q.urgent)} \cup ToSet(Tail(q.urgent))
    BY <1>1, <1>5, ElementsOfHeadTail
  <2> HIDE DEF r, f
  <2>3. /\ r \in [urgent : Seq(U), normal : Seq(N), keys : SUBSET Key]
        /\ r.urgent = Tail(q.urgent) /\ r.normal = q.normal /\ r.keys = q.keys
    BY <1>1, <2>1, <2>2
  <2>4. f.urgent /\ f \in U /\ Borrowed(b) = 0 /\ Len(b) = 1
    BY <2>1, <2>2, <1>3 DEF Borrowed
  <2>5. Waiting(r) \cup ToSet(b) = Waiting(q)
    BY <2>1, <2>2, <2>3, ElementsOfOne DEF Waiting
  <2>6. /\ Len(r.urgent) + Len(r.normal) + Len(b) <= MaxFrames
        /\ Len(r.normal) + Borrowed(b) <= MaxFrames - Reserve
    BY <1>1, <1>2, <2>2, <2>3, <2>4
  <2>7. \A kk \in r.keys : \E x \in Waiting(r) \cup ToSet(b) : x.key = kk /\ IsLast(x)
    BY <2>3, <2>5, ElementsOfEmpty DEF GoodLink
  <2>8. f \in AnyFrame(p) /\ b \in Seq(AnyFrame(p)) /\ Len(b) <= 1
    <3>1. f \in AnyFrame(p)
      BY <2>4 DEF AnyFrame, U
    <3> HIDE DEF AnyFrame
    <3> QED
      BY <3>1
  <2> QED
    BY <2>3, <2>6, <2>7, <2>8 DEF GoodLink, QueueOf, r, f, U, N
<1>6. CASE q.urgent = << >>
  <2>1. f = Head(q.normal) /\ r = [q EXCEPT !.normal = Tail(@)] /\ q.normal # << >>
    BY <1>6 DEF First, WithoutFirst, IsIdle
  <2>2. /\ Head(q.normal) \in N /\ Tail(q.normal) \in Seq(N)
        /\ Len(Tail(q.normal)) = Len(q.normal) - 1
        /\ ToSet(q.normal) = {Head(q.normal)} \cup ToSet(Tail(q.normal))
    BY <1>1, <2>1, ElementsOfHeadTail
  <2> HIDE DEF r, f
  <2>3. /\ r \in [urgent : Seq(U), normal : Seq(N), keys : SUBSET Key]
        /\ r.urgent = q.urgent /\ r.normal = Tail(q.normal) /\ r.keys = q.keys
    BY <1>1, <2>1, <2>2
  <2>4. f \in N /\ Borrowed(b) <= 1 /\ Borrowed(b) \in Nat /\ Len(b) = 1
    BY <2>1, <2>2 DEF Borrowed
  <2>5. Waiting(r) \cup ToSet(b) = Waiting(q)
    BY <2>1, <2>2, <2>3, ElementsOfOne DEF Waiting
  <2>6. Len(r.urgent) + Len(r.normal) + Len(b) <= MaxFrames
    BY <1>1, <1>2, <2>2, <2>3, <2>4, Limits
  <2>7. Len(r.normal) + Borrowed(b) <= MaxFrames - Reserve
    BY <1>1, <1>2, <2>2, <2>3, <2>4, Limits
  <2>8. \A kk \in r.keys : \E x \in Waiting(r) \cup ToSet(b) : x.key = kk /\ IsLast(x)
    BY <2>3, <2>5, ElementsOfEmpty DEF GoodLink
  <2>9. f \in AnyFrame(p) /\ b \in Seq(AnyFrame(p)) /\ Len(b) <= 1
    <3>1. f \in AnyFrame(p)
      BY <2>4 DEF AnyFrame, N
    <3> HIDE DEF AnyFrame
    <3> QED
      BY <3>1
  <2> QED
    BY <2>3, <2>6, <2>7, <2>8, <2>9 DEF GoodLink, QueueOf, r, f, U, N
<1> QED
  BY <1>5, <1>6

\* A link with a frame in flight has exactly one.
LEMMA OneInFlight ==
  ASSUME NEW p, NEW q, NEW b, GoodLink(q, b, p), b # << >>
  PROVE  b[1] \in AnyFrame(p) /\ b = <<b[1]>> /\ Len(b) = 1 /\ ToSet(b) = {b[1]}
<1>1. b \in Seq(AnyFrame(p)) /\ Len(b) = 1
  <2>1. b \in Seq(AnyFrame(p)) /\ Len(b) \in Nat /\ Len(b) <= 1
    BY GoodTypes
  <2> DEFINE n == Len(b)
  <2>2. n # 0
    BY <2>1
  <2>3. n \in Nat /\ n <= 1
    BY <2>1
  <2>4. n = 1
    <3> HIDE DEF n
    <3> QED
      BY <2>2, <2>3
  <2> QED
    BY <2>1, <2>4
<1>2. b[1] \in AnyFrame(p) /\ b = <<b[1]>>
  BY <1>1
<1> QED
  BY <1>1, <1>2, ElementsOfOne

\* The callback reported success.
LEMMA CompletedGood ==
  ASSUME NEW p, NEW q, NEW b, GoodLink(q, b, p), b # << >>
  PROVE  GoodLink(Completed(q, b[1]), << >>, p) /\ (IsIdle(q) <=> IsIdle(Completed(q, b[1])))
<1> DEFINE f == b[1]
           r == Completed(q, f)
<1>1. /\ q \in QueueOf(p) /\ q.urgent \in Seq(FrameOf(p, TRUE)) /\ q.normal \in Seq(FrameOf(p, FALSE))
      /\ Len(q.urgent) \in Nat /\ Len(q.normal) \in Nat
      /\ q.keys \subseteq Key
      /\ Borrowed(b) \in Nat
  BY GoodTypes
<1>2. Len(b) = 1 /\ ToSet(b) = {f}
  BY OneInFlight
<1>3. /\ r \in QueueOf(p) /\ r.urgent = q.urgent /\ r.normal = q.normal
      /\ r.keys = IF IsLast(f) THEN q.keys \ {f.key} ELSE q.keys
  BY <1>1 DEF Completed, QueueOf
<1> HIDE DEF r
<1>4. Waiting(r) = Waiting(q)
  BY <1>3 DEF Waiting
<1>5. \A kk \in r.keys : \E x \in Waiting(r) : x.key = kk /\ IsLast(x)
  <2> SUFFICES ASSUME NEW kk \in r.keys
               PROVE  \E x \in Waiting(q) : x.key = kk /\ IsLast(x)
    BY <1>4
  <2>1. PICK x \in Waiting(q) \cup ToSet(b) : x.key = kk /\ IsLast(x)
    BY <1>3 DEF GoodLink
  <2>2. x # f
    BY <1>3, <2>1
  <2> QED
    BY <1>2, <2>1, <2>2
<1> DEFINE e == << >>
           qu == Len(q.urgent)
           qn == Len(q.normal)
<1>6. qu + qn + Len(b) <= MaxFrames /\ qn + Borrowed(b) <= MaxFrames - Reserve
  BY DEF GoodLink
<1>7. Len(e) = 0 /\ Borrowed(e) = 0 /\ e \in Seq(AnyFrame(p))
  BY DEF Borrowed
<1>8. IsIdle(q) <=> IsIdle(r)
  BY <1>3 DEF IsIdle
<1>9. Len(r.urgent) = qu /\ Len(r.normal) = qn
  BY <1>3
<1>10. qu + qn + Len(e) <= MaxFrames /\ qn + Borrowed(e) <= MaxFrames - Reserve
  <2>1. qu \in Nat /\ qn \in Nat
    BY <1>1
  <2> HIDE DEF e, qu, qn
  <2> QED
    BY <1>1, <1>2, <1>6, <1>7, <2>1, Limits
<1>11. GoodLink(r, e, p)
  <2> HIDE DEF e, qu, qn
  <2> QED
    BY <1>3, <1>5, <1>7, <1>9, <1>10 DEF GoodLink
<1> QED
  BY <1>8, <1>11 DEF r

\* The frame in flight comes back, to the front.
LEMMA PutBackGood ==
  ASSUME NEW p, NEW q, NEW b, GoodLink(q, b, p), b # << >>
  PROVE  GoodLink(PutBack(q, b[1]), << >>, p)
<1> DEFINE f == b[1]
           r == PutBack(q, f)
           U == FrameOf(p, TRUE)
           N == FrameOf(p, FALSE)
           qu == Len(q.urgent)
           qn == Len(q.normal)
           ru == Len(r.urgent)
           rn == Len(r.normal)
<1>1. /\ q \in [urgent : Seq(U), normal : Seq(N), keys : SUBSET Key]
      /\ q.urgent \in Seq(U) /\ q.normal \in Seq(N)
      /\ qu \in Nat /\ qn \in Nat
  BY GoodTypes DEF QueueOf
<1>2. Len(b) = 1 /\ ToSet(b) = {f} /\ f \in AnyFrame(p)
  BY OneInFlight
<1>3. qu + qn + 1 <= MaxFrames /\ qn <= MaxFrames - Reserve
      /\ (~ f.urgent => qn + 1 <= MaxFrames - Reserve)
  <2>1. qu + qn + Len(b) <= MaxFrames /\ qn + Borrowed(b) <= MaxFrames - Reserve
        /\ Borrowed(b) \in Nat
    BY GoodTypes DEF GoodLink
  <2>2. ~ f.urgent => Borrowed(b) = 1
    BY DEF Borrowed
  <2> HIDE DEF qu, qn, f
  <2> QED
    BY <1>1, <1>2, <2>1, <2>2, Limits
<1> DEFINE e == << >>
<1>4. (f \in U /\ f.urgent) \/ (f \in N /\ ~ f.urgent)
  BY <1>2 DEF AnyFrame, U, N, FrameOf
<1>5. Len(e) = 0 /\ Borrowed(e) = 0 /\ e \in Seq(AnyFrame(p))
  BY DEF Borrowed
<1>6. /\ r \in [urgent : Seq(U), normal : Seq(N), keys : SUBSET Key] /\ r.keys = q.keys
      /\ Waiting(r) = Waiting(q) \cup ToSet(b)
      /\ ru + rn <= MaxFrames /\ rn <= MaxFrames - Reserve /\ ru \in Nat /\ rn \in Nat
  <2> HIDE DEF U, N, f, r
  <2>1. CASE f \in U /\ f.urgent
    <3>1. r = [q EXCEPT !.urgent = <<f>> \o @]
      BY <2>1 DEF r, PutBack
    <3>2. <<f>> \in Seq(U) /\ Len(<<f>>) = 1 /\ ToSet(<<f>>) = {f}
      BY <2>1, ElementsOfOne
    <3>3. /\ <<f>> \o q.urgent \in Seq(U) /\ Len(<<f>> \o q.urgent) = 1 + qu
          /\ ToSet(<<f>> \o q.urgent) = {f} \cup ToSet(q.urgent)
      <4> DEFINE t == q.urgent
                 h == <<f>>
      <4>1. t \in Seq(U) /\ h \in Seq(U) /\ Len(h) = 1 /\ ToSet(h) = {f} /\ Len(t) = qu
        BY <1>1, <3>2
      <4> HIDE DEF t, h, qu, qn, f
      <4>2. t \in Seq(U) /\ h \in Seq(U)
        BY <4>1
      <4>3. /\ h \o t \in Seq(U) /\ Len(h \o t) = Len(h) + Len(t)
            /\ ToSet(h \o t) = ToSet(h) \cup ToSet(t)
        BY <4>2, ElementsOfConcat
      <4>4. h \o t \in Seq(U) /\ Len(h \o t) = 1 + qu /\ ToSet(h \o t) = {f} \cup ToSet(t)
        BY <4>1, <4>3
      <4> QED
        BY <4>4 DEF t, h
    <3>4. /\ r \in [urgent : Seq(U), normal : Seq(N), keys : SUBSET Key]
          /\ r.urgent = <<f>> \o q.urgent /\ r.normal = q.normal /\ r.keys = q.keys
      BY <1>1, <3>1, <3>3
    <3>5. ru = 1 + qu /\ rn = qn
      BY <3>3, <3>4
    <3>6. Waiting(r) = Waiting(q) \cup ToSet(b)
      BY <1>2, <3>3, <3>4 DEF Waiting
    <3>7. qu \in Nat /\ qn \in Nat
      BY <1>1
    <3> HIDE DEF ru, rn, qu, qn
    <3>8. ru + rn <= MaxFrames /\ rn <= MaxFrames - Reserve /\ ru \in Nat /\ rn \in Nat
      BY <1>3, <3>5, <3>7, Limits
    <3> QED
      BY <3>4, <3>6, <3>8
  <2>2. CASE f \in N /\ ~ f.urgent
    <3>1. r = [q EXCEPT !.normal = <<f>> \o @]
      BY <2>2 DEF r, PutBack
    <3>2. <<f>> \in Seq(N) /\ Len(<<f>>) = 1 /\ ToSet(<<f>>) = {f}
      BY <2>2, ElementsOfOne
    <3>3. /\ <<f>> \o q.normal \in Seq(N) /\ Len(<<f>> \o q.normal) = 1 + qn
          /\ ToSet(<<f>> \o q.normal) = {f} \cup ToSet(q.normal)
      <4> DEFINE t == q.normal
                 h == <<f>>
      <4>1. t \in Seq(N) /\ h \in Seq(N) /\ Len(h) = 1 /\ ToSet(h) = {f} /\ Len(t) = qn
        BY <1>1, <3>2
      <4> HIDE DEF t, h, qu, qn, f
      <4>2. t \in Seq(N) /\ h \in Seq(N)
        BY <4>1
      <4>3. /\ h \o t \in Seq(N) /\ Len(h \o t) = Len(h) + Len(t)
            /\ ToSet(h \o t) = ToSet(h) \cup ToSet(t)
        BY <4>2, ElementsOfConcat
      <4>4. h \o t \in Seq(N) /\ Len(h \o t) = 1 + qn /\ ToSet(h \o t) = {f} \cup ToSet(t)
        BY <4>1, <4>3
      <4> QED
        BY <4>4 DEF t, h
    <3>4. /\ r \in [urgent : Seq(U), normal : Seq(N), keys : SUBSET Key]
          /\ r.normal = <<f>> \o q.normal /\ r.urgent = q.urgent /\ r.keys = q.keys
      BY <1>1, <3>1, <3>3
    <3>5. rn = 1 + qn /\ ru = qu
      BY <3>3, <3>4
    <3>6. Waiting(r) = Waiting(q) \cup ToSet(b)
      BY <1>2, <3>3, <3>4 DEF Waiting
    <3>7. qu \in Nat /\ qn \in Nat
      BY <1>1
    <3> HIDE DEF ru, rn, qu, qn
    <3>8. ru + rn <= MaxFrames /\ rn <= MaxFrames - Reserve /\ ru \in Nat /\ rn \in Nat
      BY <1>3, <2>2, <3>5, <3>7, Limits
    <3> QED
      BY <3>4, <3>6, <3>8
  <2> QED
    BY <1>4, <2>1, <2>2
<1>7. ru + rn + Len(e) <= MaxFrames /\ rn + Borrowed(e) <= MaxFrames - Reserve
  <2> HIDE DEF ru, rn, e
  <2> QED
    BY <1>5, <1>6, Limits
<1>8. r \in QueueOf(p)
  BY <1>6 DEF QueueOf
<1>9. Len(r.urgent) = ru /\ Len(r.normal) = rn
  OBVIOUS
<1>10. \A kk \in r.keys : \E x \in Waiting(r) : x.key = kk /\ IsLast(x)
  BY <1>6 DEF GoodLink
<1>11. GoodLink(r, e, p)
  <2> HIDE DEF e, ru, rn, r, f
  <2> QED
    BY <1>5, <1>7, <1>8, <1>9, <1>10 DEF GoodLink
<1> QED
  BY <1>11

-----------------------------------------------------------------------------
(* The steps: queues and frames in flight *)

LEMMA KeyUrgency ==
  ASSUME NEW k \in Key, NEW u \in Urgency[k]
  PROVE  u \in BOOLEAN
BY MessageAssumption

\* A step that concerns one link.
LEMMA OneLinkChanged ==
  ASSUME LinkInv, NEW l \in Link,
         process' = process, DOMAIN queue' = Link, DOMAIN busy' = Link,
         \A m \in Link \ {l} : queue'[m] = queue[m] /\ busy'[m] = busy[m],
         GoodLink(queue'[l], busy'[l], process),
         air' \in [Link -> Seq(AnyFrame(process))]
  PROVE  LinkInv'
<1>1. \A m \in Link : GoodLink(queue'[m], busy'[m], process')
  BY DEF LinkInv
<1> QED
  BY <1>1 DEF LinkInv

LEMMA LinkTypes ==
  ASSUME LinkInv, NEW l \in Link
  PROVE  /\ GoodLink(queue[l], busy[l], process)
         /\ DOMAIN queue = Link /\ DOMAIN busy = Link
         /\ air \in [Link -> Seq(AnyFrame(process))] /\ air[l] \in Seq(AnyFrame(process))
BY DEF LinkInv

LEMMA OfferLink ==
  ASSUME ShapeInv, LinkInv, NEW l \in Link, NEW k \in Key, NEW u \in BOOLEAN, NEW anyway,
         Offer(l, k, u, anyway), UNCHANGED <<busy, air, process>>
  PROVE  LinkInv'
<1> DEFINE q == queue[l]
           known == k \in q.keys
           taken == ~ known /\ Fits(l, k, u)
           r == IF taken THEN Added(q, k, u) ELSE IF known /\ u THEN Promoted(q, k) ELSE q
<1>1. GoodLink(q, busy[l], process) /\ DOMAIN queue = Link /\ DOMAIN busy = Link
  BY LinkTypes
<1>2. queue' = [queue EXCEPT ![l] = r]
  BY DEF Offer
<1>3. GoodLink(r, busy[l], process)
  <2>1. CASE taken
    <3>1. nextId \in Number /\ process \in Nat \ {0}
      BY DEF ShapeInv, Offer, Number
    <3>2. Len(q.urgent) + Len(q.normal) + Len(busy[l]) + Frames[k] <=
            IF u THEN MaxFrames ELSE MaxFrames - Reserve
      BY <2>1 DEF Fits, Pending
    <3> QED
      BY <1>1, <2>1, <3>1, <3>2, AddedGood
  <2>2. CASE ~ taken /\ known /\ u
    BY <1>1, <2>2, PromotedGood
  <2>3. CASE ~ taken /\ ~ (known /\ u)
    BY <1>1, <2>3
  <2> QED
    BY <2>1, <2>2, <2>3
<1> HIDE DEF r
<1>4. /\ DOMAIN queue' = Link /\ queue'[l] = r
      /\ \A m \in Link \ {l} : queue'[m] = queue[m]
  BY <1>1, <1>2
<1>5. air' \in [Link -> Seq(AnyFrame(process))]
  BY DEF LinkInv
<1> QED
  BY <1>1, <1>3, <1>4, <1>5, OneLinkChanged

LEMMA DroppedLink ==
  ASSUME LinkInv, NEW l \in Link, Dropped(l), process' = process
  PROVE  LinkInv'
<1>1. /\ DOMAIN queue' = Link /\ DOMAIN busy' = Link
      /\ queue'[l] = EmptyQueue /\ busy'[l] = << >>
      /\ \A m \in Link \ {l} : queue'[m] = queue[m] /\ busy'[m] = busy[m]
  BY DEF LinkInv, Dropped
<1>2. air' \in [Link -> Seq(AnyFrame(process))]
  BY DEF LinkInv, Dropped
<1> QED
  BY <1>1, <1>2, EmptyGood, OneLinkChanged

LEMMA FailedLink ==
  ASSUME LinkInv, NEW l \in Link, NEW q, Failed(l, q), process' = process,
         GoodLink(q, << >>, process)
  PROVE  LinkInv'
<1>1. CASE Dropped(l)
  BY <1>1, DroppedLink
<1>2. CASE ~ Dropped(l)
  <2>1. /\ queue' = [queue EXCEPT ![l] = q] /\ busy' = [busy EXCEPT ![l] = << >>]
        /\ air' = air
    BY <1>2 DEF Failed
  <2>2. /\ DOMAIN queue' = Link /\ DOMAIN busy' = Link
        /\ queue'[l] = q /\ busy'[l] = << >>
        /\ \A m \in Link \ {l} : queue'[m] = queue[m] /\ busy'[m] = busy[m]
    BY <2>1 DEF LinkInv
  <2> QED
    BY <2>1, <2>2, OneLinkChanged, LinkTypes
<1> QED
  BY <1>1, <1>2

LEMMA LinkStep ==
  ASSUME IInv, [Next]_vars
  PROVE  LinkInv'
<1> USE DEF IInv
<1>1. CASE UNCHANGED vars
  BY <1>1 DEF LinkInv, vars
<1>2. ASSUME NEW l \in Link, NEW k \in Key, NEW u \in Urgency[k], Enqueue(l, k, u)
      PROVE  LinkInv'
  BY <1>2, KeyUrgency, OfferLink DEF Enqueue
<1>3. ASSUME NEW l \in Link, Connect(l)
      PROVE  LinkInv'
  BY <1>3 DEF Connect, LinkInv
<1>4. ASSUME NEW l \in Link, Ready(l)
      PROVE  LinkInv'
  <2>1. PICK u \in Urgency[Greeting] : Offer(l, Greeting, u, l \in Client)
    BY <1>4 DEF Ready
  <2> QED
    BY <1>4, <2>1, KeyUrgency, OfferLink, LinkAssumption DEF Ready
<1>5. ASSUME NEW l \in Link, Drop(l)
      PROVE  LinkInv'
  BY <1>5, DroppedLink DEF Drop
<1>6. ASSUME NEW l \in Link, DrainNothing(l)
      PROVE  LinkInv'
  BY <1>6 DEF DrainNothing, LinkInv
<1>7. ASSUME NEW l \in Link, Drain(l)
      PROVE  LinkInv'
  <2>1. /\ GoodLink(queue[l], << >>, process) /\ ~ IsIdle(queue[l])
        /\ DOMAIN queue = Link /\ DOMAIN busy = Link
        /\ air \in [Link -> Seq(AnyFrame(process))] /\ air[l] \in Seq(AnyFrame(process))
    BY <1>7, LinkTypes DEF Drain, CanStart
  <2>2. /\ First(queue[l]) \in AnyFrame(process)
        /\ GoodLink(WithoutFirst(queue[l]), <<First(queue[l])>>, process)
    BY <2>1, TakenGood
  <2>3. /\ queue' = [queue EXCEPT ![l] = WithoutFirst(queue[l])]
        /\ busy' = [busy EXCEPT ![l] = <<First(queue[l])>>]
        /\ air' = [air EXCEPT ![l] = Append(air[l], First(queue[l]))]
        /\ process' = process
    BY <1>7 DEF Drain
  <2>4. /\ DOMAIN queue' = Link /\ DOMAIN busy' = Link
        /\ queue'[l] = WithoutFirst(queue[l]) /\ busy'[l] = <<First(queue[l])>>
        /\ \A m \in Link \ {l} : queue'[m] = queue[m] /\ busy'[m] = busy[m]
    BY <2>1, <2>3
  <2>5. Append(air[l], First(queue[l])) \in Seq(AnyFrame(process))
    BY <2>1, <2>2, AppendProperties
  <2>6. air' \in [Link -> Seq(AnyFrame(process))]
    BY <2>1, <2>3, <2>5
  <2> QED
    BY <2>2, <2>3, <2>4, <2>6, OneLinkChanged
<1>8. ASSUME NEW l \in Link, StartFailed(l)
      PROVE  LinkInv'
  <2>1. GoodLink(queue[l], << >>, process)
    BY <1>8, LinkTypes DEF StartFailed, CanStart
  <2> QED
    BY <1>8, <2>1, FailedLink DEF StartFailed
<1>9. ASSUME NEW l \in Link, Sent(l)
      PROVE  LinkInv'
  <2>1. /\ GoodLink(queue[l], busy[l], process) /\ busy[l] # << >>
        /\ DOMAIN queue = Link /\ DOMAIN busy = Link
    BY <1>9, LinkTypes DEF Sent
  <2>2. GoodLink(Completed(queue[l], busy[l][1]), << >>, process)
    BY <2>1, CompletedGood
  <2>3. /\ queue' = [queue EXCEPT ![l] = Completed(queue[l], busy[l][1])]
        /\ busy' = [busy EXCEPT ![l] = << >>]
        /\ air' = air /\ process' = process
    BY <1>9 DEF Sent
  <2>4. /\ DOMAIN queue' = Link /\ DOMAIN busy' = Link
        /\ queue'[l] = Completed(queue[l], busy[l][1]) /\ busy'[l] = << >>
        /\ \A m \in Link \ {l} : queue'[m] = queue[m] /\ busy'[m] = busy[m]
    BY <2>1, <2>3
  <2> QED
    BY <2>2, <2>3, <2>4, OneLinkChanged, LinkTypes
<1>10. ASSUME NEW l \in Link, SendFailed(l)
       PROVE  LinkInv'
  <2>1. GoodLink(PutBack(queue[l], busy[l][1]), << >>, process)
    BY <1>10, LinkTypes, PutBackGood DEF SendFailed
  <2> QED
    BY <1>10, <2>1, FailedLink DEF SendFailed
<1>11. ASSUME NEW call \in next, NextServer(call)
       PROVE  LinkInv'
  BY <1>11 DEF NextServer, LinkInv
<1>12. ASSUME NEW l \in Link, LoseFrame(l) \/ ReceiveFrame(l)
       PROVE  LinkInv'
  <2>1. /\ air' = [air EXCEPT ![l] = Tail(air[l])] /\ air[l] # << >>
        /\ UNCHANGED <<queue, busy, process>>
    BY <1>12 DEF LoseFrame, ReceiveFrame
  <2>2. air \in [Link -> Seq(AnyFrame(process))] /\ Tail(air[l]) \in Seq(AnyFrame(process))
    BY <2>1, LinkTypes, HeadTailProperties
  <2>3. air' \in [Link -> Seq(AnyFrame(process'))]
    BY <2>1, <2>2
  <2> QED
    BY <2>1, <2>3 DEF LinkInv
<1>13. ASSUME NEW l \in Link, NEW i \in DOMAIN inbound[l], Prune(l, i)
       PROVE  LinkInv'
  BY <1>13 DEF Prune, LinkInv
<1>14. ASSUME NoLinks
       PROVE  LinkInv'
  <2>1. /\ DOMAIN queue' = Link /\ DOMAIN busy' = Link
        /\ \A m \in Link : queue'[m] = EmptyQueue /\ busy'[m] = << >>
        /\ air' \in [Link -> Seq(AnyFrame(process'))]
    BY <1>14 DEF NoLinks
  <2> QED
    BY <2>1, EmptyGood DEF LinkInv
<1> QED
  BY <1>1, <1>2, <1>3, <1>4, <1>5, <1>6, <1>7, <1>8, <1>9, <1>10, <1>11, <1>12, <1>13, <1>14
  DEF Next, Stop, KillApp

-----------------------------------------------------------------------------
(* The steps: the other variables *)

LEMMA ShapeTypes ==
  ASSUME ShapeInv
  PROVE  /\ Call({}, {}) \in CallOf
         /\ \A l \in Server : Call({l}, {}) \in CallOf /\ Call({l}, {l}) \in CallOf
         /\ Client \subseteq Link /\ Server \subseteq Link
BY DEF Call, CallOf, Link

LEMMA DroppedShape ==
  ASSUME ShapeInv, NEW l \in Link, Dropped(l), UNCHANGED <<nextId, process>>, upsets' \in Nat
  PROVE  ShapeInv'
<1>1. Gone(l) \subseteq CallOf
  BY ShapeTypes DEF Gone
<1>2. state' \in [Link -> {"none", "open", "ready"}]
  BY DEF ShapeInv, Dropped
<1>3. failures' \in [Link -> 0 .. (MaxFailures - 1)]
  <2>1. 0 \in 0 .. (MaxFailures - 1)
    BY LimitAssumption
  <2> QED
    BY <2>1 DEF ShapeInv, Dropped
<1>4. active' \subseteq Server /\ due' \subseteq Link /\ next' \subseteq CallOf
  BY <1>1 DEF ShapeInv, Dropped
<1> QED
  BY <1>2, <1>3, <1>4 DEF ShapeInv

LEMMA FailedShape ==
  ASSUME ShapeInv, NEW l \in Link, NEW q, Failed(l, q), UNCHANGED <<nextId, process>>,
         upsets' \in Nat
  PROVE  ShapeInv'
<1>1. CASE Dropped(l)
  BY <1>1, DroppedShape
<1>2. CASE ~ Dropped(l)
  <2>1. /\ failures[l] + 1 < MaxFailures
        /\ failures' = [failures EXCEPT ![l] = failures[l] + 1]
        /\ due' = due \cup {l}
        /\ next' = IF l \in Server THEN next \cup {Call({l}, {l})} ELSE next
        /\ active' = active \ {l} /\ state' = state
    BY <1>2 DEF Failed
  <2>2. failures[l] + 1 \in 0 .. (MaxFailures - 1)
    BY <2>1, LimitAssumption DEF ShapeInv
  <2>3. failures' \in [Link -> 0 .. (MaxFailures - 1)]
    BY <2>1, <2>2 DEF ShapeInv
  <2>4. next' \subseteq CallOf
    BY <2>1, ShapeTypes DEF ShapeInv
  <2> QED
    BY <2>1, <2>3, <2>4 DEF ShapeInv
<1> QED
  BY <1>1, <1>2

LEMMA ShapeStep ==
  ASSUME IInv, [Next]_vars
  PROVE  ShapeInv'
<1> USE DEF IInv
<1>0. upsets \in Nat /\ upsets + 1 \in Nat
  BY DEF ShapeInv
<1>1. CASE UNCHANGED vars
  BY <1>1 DEF ShapeInv, vars
<1>2. ASSUME NEW l \in Link, NEW k \in Key, NEW u \in Urgency[k], Enqueue(l, k, u)
      PROVE  ShapeInv'
  BY <1>2 DEF Enqueue, Offer, ShapeInv
<1>3. ASSUME NEW l \in Link, Connect(l)
      PROVE  ShapeInv'
  BY <1>3 DEF Connect, ShapeInv
<1>4. ASSUME NEW l \in Link, Ready(l)
      PROVE  ShapeInv'
  BY <1>4 DEF Ready, Offer, ShapeInv
<1>5. ASSUME NEW l \in Link, Drop(l)
      PROVE  ShapeInv'
  BY <1>0, <1>5, DroppedShape DEF Drop
<1>6. ASSUME NEW l \in Link, DrainNothing(l)
      PROVE  ShapeInv'
  BY <1>6 DEF DrainNothing, ShapeInv
<1>7. ASSUME NEW l \in Link, Drain(l)
      PROVE  ShapeInv'
  BY <1>7 DEF Drain, ShapeInv
<1>8. ASSUME NEW l \in Link, StartFailed(l)
      PROVE  ShapeInv'
  BY <1>0, <1>8, FailedShape DEF StartFailed
<1>9. ASSUME NEW l \in Link, Sent(l)
      PROVE  ShapeInv'
  <2>1. failures' \in [Link -> 0 .. (MaxFailures - 1)]
    <3>1. 0 \in 0 .. (MaxFailures - 1)
      BY LimitAssumption
    <3> QED
      BY <1>9, <3>1 DEF Sent, ShapeInv
  <2>2. active' \subseteq Server /\ due' \subseteq Link /\ next' \subseteq CallOf
    BY <1>9, ShapeTypes DEF Sent, ShapeInv
  <2> QED
    BY <1>9, <2>1, <2>2 DEF Sent, ShapeInv
<1>10. ASSUME NEW l \in Link, SendFailed(l)
       PROVE  ShapeInv'
  BY <1>0, <1>10, FailedShape DEF SendFailed
<1>11. ASSUME NEW call \in next, NextServer(call)
       PROVE  ShapeInv'
  <2>1. next' \subseteq next /\ UNCHANGED <<state, active, failures, nextId, process, upsets>>
    BY <1>11 DEF NextServer
  <2>2. due' \subseteq due \cup Server
    BY <1>11 DEF NextServer
  <2> QED
    BY <2>1, <2>2, ShapeTypes DEF ShapeInv
<1>12. ASSUME NEW l \in Link, LoseFrame(l)
       PROVE  ShapeInv'
  BY <1>0, <1>12 DEF LoseFrame, ShapeInv
<1>13. ASSUME NEW l \in Link, ReceiveFrame(l)
       PROVE  ShapeInv'
  BY <1>13 DEF ReceiveFrame, ShapeInv
<1>14. ASSUME NEW l \in Link, NEW i \in DOMAIN inbound[l], Prune(l, i)
       PROVE  ShapeInv'
  BY <1>14 DEF Prune, ShapeInv
<1>15. ASSUME Stop \/ KillApp
       PROVE  ShapeInv'
  <2>1. 0 \in 0 .. (MaxFailures - 1)
    BY LimitAssumption
  <2>2. /\ state' \in [Link -> {"none", "open", "ready"}]
        /\ failures' \in [Link -> 0 .. (MaxFailures - 1)]
        /\ active' = {} /\ due' = {} /\ next' = {} /\ upsets' \in Nat
    BY <1>0, <1>15, <2>1 DEF Stop, KillApp, NoLinks
  <2>3. nextId' \in Nat \ {0} /\ process' \in Nat \ {0}
    BY <1>15 DEF Stop, KillApp, ShapeInv
  <2> QED
    BY <2>2, <2>3 DEF ShapeInv
<1> QED
  BY <1>1, <1>2, <1>3, <1>4, <1>5, <1>6, <1>7, <1>8, <1>9, <1>10, <1>11, <1>12, <1>13, <1>14, <1>15
  DEF Next

-----------------------------------------------------------------------------
(* The steps: the slot of the server links *)

\* Only a link's own steps change its state, its queue and what it has in flight.
SameLink(m) ==
  state'[m] = state[m] /\ queue'[m] = queue[m] /\ busy'[m] = busy[m]

\* A step of link l that ends what it had in flight.
LEMMA SlotFreed ==
  ASSUME ShapeInv, SlotInv, NEW l \in Link,
         busy'[l] = << >>, active' = active \ {l},
         \A m \in Link \ {l} : SameLink(m), Settled(l)'
  PROVE  SlotInv'
<1>1. PICK s : active = {} \/ (s \in Server /\ active = {s})
  BY DEF SlotInv
<1>2. active' = {} \/ (s \in Server /\ active' = {s})
  BY <1>1
<1>3. ASSUME NEW m \in Server
      PROVE  busy'[m] # << >> <=> active' = {m}
  <2>1. CASE m = l
    BY <2>1, <1>1
  <2>2. CASE m # l
    <3>1. busy'[m] = busy[m] /\ (busy[m] # << >> <=> active = {m})
      BY <2>2, ShapeTypes DEF SlotInv, OneSender, SameLink
    <3>2. active = {m} <=> active' = {m}
      <4>1. active' = {m} => active = {m}
        BY <1>1
      <4>2. active = {m} => active' = {m}
        BY <2>2
      <4> QED
        BY <4>1, <4>2
    <3> QED
      BY <3>1, <3>2
  <2> QED
    BY <2>1, <2>2
<1>4. \A m \in Link : Settled(m)'
  BY DEF SlotInv, SameLink, Settled
<1> QED
  BY <1>2, <1>3, <1>4 DEF SlotInv, OneSender

\* A step of link l that leaves what is in flight.
LEMMA SlotKept ==
  ASSUME ShapeInv, SlotInv, NEW l \in Link,
         busy' = busy, active' = active,
         \A m \in Link \ {l} : SameLink(m), Settled(l)'
  PROVE  SlotInv'
<1>1. \A m \in Link : Settled(m)'
  BY DEF SlotInv, SameLink, Settled
<1> QED
  BY <1>1 DEF SlotInv, OneSender

LEMMA DroppedOthers ==
  ASSUME ShapeInv, LinkInv, NEW l \in Link, Dropped(l)
  PROVE  /\ \A m \in Link \ {l} : SameLink(m)
         /\ state'[l] = "none" /\ queue'[l] = EmptyQueue /\ busy'[l] = << >>
         /\ active' = active \ {l} /\ Settled(l)'
BY DEF Dropped, SameLink, ShapeInv, LinkInv, IsIdle, EmptyQueue, Settled

LEMMA FailedOthers ==
  ASSUME ShapeInv, LinkInv, NEW l \in Link, NEW q, Failed(l, q), state[l] = "ready"
  PROVE  /\ \A m \in Link \ {l} : SameLink(m)
         /\ busy'[l] = << >> /\ active' = active \ {l} /\ Settled(l)'
<1>1. CASE Dropped(l)
  BY <1>1, DroppedOthers
<1>2. CASE ~ Dropped(l)
  BY <1>2 DEF Failed, SameLink, ShapeInv, LinkInv, Settled
<1> QED
  BY <1>1, <1>2

LEMMA SlotStep ==
  ASSUME IInv, [Next]_vars
  PROVE  SlotInv'
<1> USE DEF IInv
<1>0. DOMAIN queue = Link /\ DOMAIN busy = Link /\ DOMAIN state = Link
  BY DEF LinkInv, ShapeInv
<1>1. CASE UNCHANGED vars
  BY <1>1 DEF SlotInv, OneSender, Settled, vars
<1>2. ASSUME NEW l \in Link, NEW k \in Key, NEW u \in Urgency[k], Enqueue(l, k, u)
      PROVE  SlotInv'
  <2>1. busy' = busy /\ active' = active /\ state' = state
        /\ \A m \in Link \ {l} : SameLink(m)
    BY <1>0, <1>2 DEF Enqueue, Offer, SameLink
  <2>2. Settled(l)'
    BY <1>2, <2>1, LinkAssumption DEF Enqueue, SlotInv, Settled
  <2> QED
    BY <2>1, <2>2, SlotKept
<1>3. ASSUME NEW l \in Link, Connect(l)
      PROVE  SlotInv'
  <2>1. busy' = busy /\ active' = active /\ Settled(l)'
        /\ \A m \in Link \ {l} : SameLink(m)
    BY <1>0, <1>3 DEF Connect, SameLink, SlotInv, Settled
  <2> QED
    BY <2>1, SlotKept
<1>4. ASSUME NEW l \in Link, Ready(l)
      PROVE  SlotInv'
  <2>1. busy' = busy /\ active' = active /\ Settled(l)'
        /\ \A m \in Link \ {l} : SameLink(m)
    BY <1>0, <1>4 DEF Ready, Offer, SameLink, Settled
  <2> QED
    BY <2>1, SlotKept
<1>5. ASSUME NEW l \in Link, Drop(l)
      PROVE  SlotInv'
  BY <1>5, DroppedOthers, SlotFreed DEF Drop
<1>6. ASSUME NEW l \in Link, DrainNothing(l)
      PROVE  SlotInv'
  BY <1>6 DEF DrainNothing, SlotInv, OneSender, Settled
<1>7. ASSUME NEW l \in Link, Drain(l)
      PROVE  SlotInv'
  <2>1. /\ state' = state /\ state[l] = "ready"
        /\ \A m \in Link \ {l} : SameLink(m)
        /\ busy'[l] # << >>
        /\ active' = IF l \in Server THEN {l} ELSE active
        /\ l \in Server => active = {}
    BY <1>0, <1>7 DEF Drain, CanStart, SameLink
  <2>2. active' = {} \/ \E m \in Server : active' = {m}
    BY <2>1 DEF SlotInv
  <2>3. ASSUME NEW m \in Server
        PROVE  busy'[m] # << >> <=> active' = {m}
    <3>1. busy[m] # << >> <=> active = {m}
      BY DEF SlotInv, OneSender
    <3>2. m # l => busy'[m] = busy[m]
      BY <2>1, ShapeTypes DEF SameLink
    <3>3. CASE l \in Server
      BY <2>1, <3>1, <3>2, <3>3
    <3>4. CASE l \notin Server
      BY <2>1, <3>1, <3>2, <3>4
    <3> QED
      BY <3>3, <3>4
  <2>4. \A m \in Link : Settled(m)'
    BY <2>1 DEF SlotInv, SameLink, Settled
  <2> QED
    BY <2>2, <2>3, <2>4 DEF SlotInv, OneSender
<1>8. ASSUME NEW l \in Link, StartFailed(l)
      PROVE  SlotInv'
  BY <1>8, FailedOthers, SlotFreed DEF StartFailed, CanStart
<1>9. ASSUME NEW l \in Link, Sent(l)
      PROVE  SlotInv'
  <2>1. /\ state' = state /\ busy'[l] = << >>
        /\ \A m \in Link \ {l} : SameLink(m)
        /\ busy[l] # << >>
        /\ queue'[l] = Completed(queue[l], busy[l][1])
    BY <1>0, <1>9 DEF Sent, SameLink
  <2>2. active' = active \ {l}
    <3>1. CASE l \in Server
      BY <1>9, <2>1, <3>1 DEF Sent, SlotInv, OneSender
    <3>2. CASE l \notin Server
      BY <1>9, <3>2 DEF Sent, ShapeInv
    <3> QED
      BY <3>1, <3>2
  <2>3. IsIdle(queue[l]) => IsIdle(queue'[l])
    BY <2>1, LinkTypes, CompletedGood
  <2>4. Settled(l)'
    BY <2>1, <2>3 DEF SlotInv, Settled
  <2> QED
    BY <2>1, <2>2, <2>4, SlotFreed
<1>10. ASSUME NEW l \in Link, SendFailed(l)
       PROVE  SlotInv'
  <2>1. state[l] = "ready"
    BY <1>10 DEF SendFailed, SlotInv, Settled
  <2> QED
    BY <1>10, <2>1, FailedOthers, SlotFreed DEF SendFailed
<1>11. ASSUME NEW call \in next, NextServer(call)
       PROVE  SlotInv'
  BY <1>11 DEF NextServer, SlotInv, OneSender, Settled
<1>12. ASSUME NEW l \in Link, LoseFrame(l) \/ ReceiveFrame(l)
       PROVE  SlotInv'
  BY <1>12 DEF LoseFrame, ReceiveFrame, SlotInv, OneSender, Settled
<1>13. ASSUME NEW l \in Link, NEW i \in DOMAIN inbound[l], Prune(l, i)
       PROVE  SlotInv'
  BY <1>13 DEF Prune, SlotInv, OneSender, Settled
<1>14. ASSUME NoLinks
       PROVE  SlotInv'
  BY <1>14, ShapeTypes DEF NoLinks, SlotInv, OneSender, Settled, IsIdle, EmptyQueue
<1> QED
  BY <1>1, <1>2, <1>3, <1>4, <1>5, <1>6, <1>7, <1>8, <1>9, <1>10, <1>11, <1>12, <1>13, <1>14
  DEF Next, Stop, KillApp

-----------------------------------------------------------------------------
(* The steps: nobody is forgotten *)

Stuck(l) == state[l] = "ready" /\ ~ IsIdle(queue[l]) /\ busy[l] = << >>

Helped(l) ==
  \/ l \in due
  \/ /\ l \in Server
     /\ \/ active # {}
        \/ \E s \in due \cap Server : CanStart(s)
        \/ \E c \in next : l \notin c.exclude

LEMMA NobodyStuck == NoStall <=> \A l \in Link : Stuck(l) => Helped(l)
BY DEF NoStall, Stuck, Helped

LEMMA AllHelped ==
  ASSUME \A l \in Link : Stuck(l)' => Helped(l)'
  PROVE  NoStall'
BY DEF NoStall, Stuck, Helped

\* A step of link l does not take their help from the others, if l was not the
\* one that was about to be drained for them.
LEMMA HelpKept ==
  ASSUME ShapeInv, NoStall, NEW l \in Link,
         \A m \in Link \ {l} : SameLink(m),
         due \ {l} \subseteq due', next \subseteq next', active' = {} => active = {},
         l \in Server /\ l \in due /\ CanStart(l) =>
           active' # {} \/ (l \in due' /\ CanStart(l)')
  PROVE  \A m \in Link \ {l} : Stuck(m)' => Helped(m)'
<1> SUFFICES ASSUME NEW m \in Link \ {l}, Stuck(m)', active' = {}, m \notin due'
             PROVE  Helped(m)'
  BY NobodyStuck DEF Stuck, SameLink, Helped
<1>1. Stuck(m) /\ active = {} /\ m \notin due
  BY DEF Stuck, SameLink
<1>2. m \in Server
  BY <1>1, NobodyStuck DEF Helped
<1>3. CASE \E s \in due \cap Server : CanStart(s)
  <2>1. PICK s \in due \cap Server : CanStart(s)
    BY <1>3
  <2>2. CASE s = l
    BY <1>2, <2>1, <2>2 DEF Helped
  <2>3. CASE s # l
    BY <1>1, <1>2, <2>1, <2>3, ShapeTypes DEF Helped, CanStart, SameLink
  <2> QED
    BY <2>2, <2>3
<1>4. CASE \E c \in next : m \notin c.exclude
  BY <1>2, <1>4 DEF Helped
<1> QED
  BY <1>1, <1>2, <1>3, <1>4, NobodyStuck DEF Helped

\* A call of drainNextServer that excludes nobody but l helps all the others.
LEMMA NextHelps ==
  ASSUME ShapeInv, NoStall, NEW l \in Link, l \in Server,
         \A m \in Link \ {l} : SameLink(m), due \ {l} \subseteq due',
         \E c \in next' : c.exclude \subseteq {l}
  PROVE  \A m \in Link \ {l} : Stuck(m)' => Helped(m)'
BY NobodyStuck DEF Stuck, SameLink, Helped

LEMMA DroppedHelps ==
  ASSUME ShapeInv, LinkInv, NoStall, NEW l \in Link, Dropped(l)
  PROVE  NoStall'
<1>1. /\ \A m \in Link \ {l} : SameLink(m)
      /\ state'[l] = "none" /\ active' = active \ {l}
  BY DroppedOthers
<1>2. ~ Stuck(l)'
  BY <1>1 DEF Stuck
<1>3. \A m \in Link \ {l} : Stuck(m)' => Helped(m)'
  <2>1. due' = due \ {l} /\ next' = next \cup Gone(l)
    BY DEF Dropped
  <2>2. CASE l \in Server
    <3>1. Call({}, {}) \in next' /\ Call({}, {}).exclude = {}
      BY <2>1, <2>2 DEF Gone, Call
    <3> QED
      BY <1>1, <2>1, <2>2, <3>1, NextHelps
  <2>3. CASE l \notin Server
    <3>1. active' = active
      BY <1>1, <2>3 DEF ShapeInv
    <3> QED
      BY <1>1, <2>1, <2>3, <3>1, HelpKept
  <2> QED
    BY <2>2, <2>3
<1> QED
  BY <1>2, <1>3, AllHelped

LEMMA FailedHelps ==
  ASSUME ShapeInv, LinkInv, NoStall, NEW l \in Link, NEW q, Failed(l, q), state[l] = "ready"
  PROVE  NoStall'
<1>1. CASE Dropped(l)
  BY <1>1, DroppedHelps
<1>2. CASE ~ Dropped(l)
  <2>1. /\ due' = due \cup {l} /\ active' = active \ {l}
        /\ next' = IF l \in Server THEN next \cup {Call({l}, {l})} ELSE next
    BY <1>2 DEF Failed
  <2>2. \A m \in Link \ {l} : SameLink(m)
    BY FailedOthers
  <2>3. Helped(l)'
    BY <2>1 DEF Helped
  <2>4. \A m \in Link \ {l} : Stuck(m)' => Helped(m)'
    <3>1. CASE l \in Server
      <4>1. Call({l}, {l}) \in next' /\ Call({l}, {l}).exclude = {l}
        BY <2>1, <3>1 DEF Call
      <4> QED
        BY <2>1, <2>2, <3>1, <4>1, NextHelps
    <3>2. CASE l \notin Server
      <4>1. active' = active
        BY <2>1, <3>2 DEF ShapeInv
      <4> QED
        BY <2>1, <2>2, <3>2, <4>1, HelpKept
    <3> QED
      BY <3>1, <3>2
  <2> QED
    BY <2>3, <2>4, AllHelped
<1> QED
  BY <1>1, <1>2

LEMMA ConcatNotEmpty ==
  ASSUME NEW S, NEW T, NEW s \in Seq(S), NEW t \in Seq(T), Len(t) # 0
  PROVE  s \o t # << >>
<1>1. Len(s) \in Nat /\ Len(t) \in Nat /\ Len(s \o t) = Len(s) + Len(t)
  OBVIOUS
<1> QED
  BY <1>1

\* Offering a message never empties a queue.
LEMMA OfferFills ==
  ASSUME LinkInv, NEW l \in Link, NEW k \in Key, NEW u \in BOOLEAN,
         NEW anyway \in BOOLEAN, Offer(l, k, u, anyway)
  PROVE  /\ ~ IsIdle(queue[l]) => ~ IsIdle(queue'[l])
         /\ queue'[l] # queue[l] => l \in due'
         /\ anyway = TRUE => l \in due'
         /\ due' = due \/ due' = due \cup {l}
<1> DEFINE q == queue[l]
           known == k \in q.keys
           taken == ~ known /\ Fits(l, k, u)
           r == IF taken THEN Added(q, k, u) ELSE IF known /\ u THEN Promoted(q, k) ELSE q
<1>1. GoodLink(q, busy[l], process) /\ DOMAIN queue = Link
  BY LinkTypes
<1>2. queue' = [queue EXCEPT ![l] = r]
  BY DEF Offer
<1>3. ~ IsIdle(q) => ~ IsIdle(r)
  <2>1. CASE taken
    <3> DEFINE fs == FramesOfNew(k, u)
    <3>1. Len(fs) # 0 /\ fs \in Seq({fs[i] : i \in 1 .. Frames[k]})
      BY Limits DEF FramesOfNew
    <3>2. q.urgent \o fs # << >> /\ q.normal \o fs # << >>
      <4>1. q.urgent \in Seq(FrameOf(process, TRUE)) /\ q.normal \in Seq(FrameOf(process, FALSE))
        BY <1>1, GoodTypes
      <4> HIDE DEF q, fs
      <4> QED
        BY <3>1, <4>1, ConcatNotEmpty
    <3>3. q \in QueueOf(process)
      BY <1>1, GoodTypes
    <3> HIDE DEF q
    <3>4. r.urgent = q.urgent \o fs \/ r.normal = q.normal \o fs
      BY <2>1, <3>3 DEF Added, FramesOfNew, QueueOf
    <3> QED
      BY <3>2, <3>4 DEF IsIdle
  <2>2. CASE ~ taken /\ known /\ u
    BY <1>1, <2>2, PromotedGood
  <2>3. CASE ~ taken /\ ~ (known /\ u)
    BY <1>1, <2>3
  <2> QED
    BY <2>1, <2>2, <2>3
<1>4. queue'[l] = r
  BY <1>1, <1>2
<1>5. ~ known /\ ~ taken => queue'[l] = queue[l]
  BY <1>4
<1> QED
  BY <1>3, <1>4, <1>5 DEF Offer

LEMMA StallStep ==
  ASSUME IInv, [Next]_vars
  PROVE  NoStall'
<1> USE DEF IInv
<1>0. DOMAIN queue = Link /\ DOMAIN busy = Link /\ DOMAIN state = Link
  BY DEF LinkInv, ShapeInv
<1>1. CASE UNCHANGED vars
  BY <1>1 DEF NoStall, CanStart, vars
<1>2. ASSUME NEW l \in Link, NEW k \in Key, NEW u \in Urgency[k], Enqueue(l, k, u)
      PROVE  NoStall'
  <2>1. /\ \A m \in Link \ {l} : SameLink(m)
        /\ next' = next /\ active' = active /\ state' = state /\ busy' = busy
        /\ Offer(l, k, u, FALSE)
    BY <1>0, <1>2 DEF Enqueue, Offer, SameLink
  <2>2. /\ ~ IsIdle(queue[l]) => ~ IsIdle(queue'[l])
        /\ queue'[l] # queue[l] => l \in due'
        /\ due' = due \/ due' = due \cup {l}
    <3> DEFINE no == FALSE
    <3>1. u \in BOOLEAN /\ no \in BOOLEAN
      BY KeyUrgency
    <3>2. Offer(l, k, u, no)
      BY <2>1
    <3> HIDE DEF no
    <3> QED
      BY <3>1, <3>2, OfferFills
  <2>3. CanStart(l) => CanStart(l)'
    BY <2>1, <2>2 DEF CanStart
  <2>4. \A m \in Link \ {l} : Stuck(m)' => Helped(m)'
    BY <2>1, <2>2, <2>3, HelpKept
  <2>5. Stuck(l)' => Helped(l)'
    <3>1. CASE l \in due'
      BY <3>1 DEF Helped
    <3>2. CASE l \notin due'
      <4>1. queue'[l] = queue[l] /\ due' = due
        BY <2>2, <3>2
      <4> QED
        <5>1. \A m \in Server : CanStart(m) => CanStart(m)'
          BY <2>1, <4>1, ShapeTypes DEF CanStart, SameLink
        <5> QED
          BY <2>1, <4>1, <5>1, NobodyStuck DEF Stuck, Helped
    <3> QED
      BY <3>1, <3>2
  <2> QED
    BY <2>4, <2>5, AllHelped
<1>3. ASSUME NEW l \in Link, Connect(l)
      PROVE  NoStall'
  <2>1. /\ \A m \in Link \ {l} : SameLink(m)
        /\ next' = next /\ active' = active /\ due' = due
        /\ ~ CanStart(l) /\ ~ Stuck(l)'
    BY <1>0, <1>3 DEF Connect, SameLink, CanStart, Stuck
  <2> QED
    BY <2>1, HelpKept, AllHelped
<1>4. ASSUME NEW l \in Link, Ready(l)
      PROVE  NoStall'
  <2>1. /\ \A m \in Link \ {l} : SameLink(m)
        /\ next' = next /\ active' = active /\ ~ CanStart(l)
    BY <1>0, <1>4 DEF Ready, Offer, SameLink, CanStart
  <2>2. PICK u \in Urgency[Greeting] : Offer(l, Greeting, u, l \in Client)
    BY <1>4 DEF Ready
  <2>3. /\ queue'[l] # queue[l] => l \in due'
        /\ l \in Client => l \in due'
        /\ due' = due \/ due' = due \cup {l}
    <3> DEFINE client == l \in Client
    <3>1. u \in BOOLEAN /\ Greeting \in Key /\ client \in BOOLEAN
      BY KeyUrgency, LinkAssumption
    <3>2. Offer(l, Greeting, u, client)
      BY <2>2
    <3> HIDE DEF client
    <3>3. /\ queue'[l] # queue[l] => l \in due'
          /\ client = TRUE => l \in due'
          /\ due' = due \/ due' = due \cup {l}
      BY <3>1, <3>2, OfferFills
    <3> QED
      BY <3>3 DEF client
  <2>4. \A m \in Link \ {l} : Stuck(m)' => Helped(m)'
    BY <2>1, <2>3, HelpKept
  <2>5. Stuck(l)' => l \in due'
    <3>1. l \notin Client => IsIdle(queue[l])
      BY <1>4 DEF Ready, SlotInv, Settled, Link
    <3> QED
      BY <2>3, <3>1 DEF Stuck
  <2> QED
    BY <2>4, <2>5, AllHelped DEF Helped
<1>5. ASSUME NEW l \in Link, Drop(l)
      PROVE  NoStall'
  BY <1>5, DroppedHelps DEF Drop
<1>6. ASSUME NEW l \in Link, DrainNothing(l)
      PROVE  NoStall'
  <2>1. /\ \A m \in Link : SameLink(m)
        /\ next' = next /\ active' = active /\ due' = due \ {l} /\ ~ CanStart(l)
    BY <1>6 DEF DrainNothing, SameLink
  <2>2. \A m \in Link \ {l} : Stuck(m)' => Helped(m)'
    BY <2>1, HelpKept
  <2>3. Stuck(l)' => Helped(l)'
    BY <2>1 DEF Stuck, Helped, CanStart, SameLink
  <2> QED
    BY <2>2, <2>3, AllHelped
<1>7. ASSUME NEW l \in Link, Drain(l)
      PROVE  NoStall'
  <2>1. /\ \A m \in Link \ {l} : SameLink(m)
        /\ next' = next /\ due' = due \ {l} /\ ~ Stuck(l)'
        /\ active' = IF l \in Server THEN {l} ELSE active
    BY <1>0, <1>7 DEF Drain, SameLink, Stuck
  <2> QED
    BY <2>1, HelpKept, AllHelped
<1>8. ASSUME NEW l \in Link, StartFailed(l)
      PROVE  NoStall'
  BY <1>8, FailedHelps DEF StartFailed, CanStart
<1>9. ASSUME NEW l \in Link, Sent(l)
      PROVE  NoStall'
  <2>1. \A m \in Link \ {l} : SameLink(m)
    BY <1>0, <1>9 DEF Sent, SameLink
  <2>2. CASE l \in Server
    <3>1. /\ Call({l}, {}) \in next' /\ Call({l}, {}).exclude = {} /\ due' = due
      BY <1>9, <2>2 DEF Sent, Call
    <3>2. \A m \in Link \ {l} : Stuck(m)' => Helped(m)'
      BY <2>1, <2>2, <3>1, NextHelps
    <3>3. Helped(l)'
      BY <2>2, <3>1 DEF Helped
    <3> QED
      BY <3>2, <3>3, AllHelped
  <2>3. CASE l \notin Server
    <3>1. due' = due \cup {l} /\ active' = active /\ next' = next
      BY <1>9, <2>3 DEF Sent
    <3>2. \A m \in Link \ {l} : Stuck(m)' => Helped(m)'
      BY <2>1, <2>3, <3>1, HelpKept
    <3> QED
      BY <3>1, <3>2, AllHelped DEF Helped
  <2> QED
    BY <2>2, <2>3
<1>10. ASSUME NEW l \in Link, SendFailed(l)
       PROVE  NoStall'
  <2>1. state[l] = "ready"
    BY <1>10 DEF SendFailed, SlotInv, Settled
  <2> QED
    BY <1>10, <2>1, FailedHelps DEF SendFailed
<1>11. ASSUME NEW call \in next, NextServer(call)
       PROVE  NoStall'
  <2> DEFINE able == {l \in Server \ call.exclude : CanStart(l)}
  <2>1. /\ next' = next \ {call} /\ due \subseteq due'
        /\ UNCHANGED <<state, queue, busy, active>>
    BY <1>11 DEF NextServer
  <2>2. able # {} => \E s \in able : s \in due'
    BY <1>11 DEF NextServer
  <2> SUFFICES ASSUME NEW m \in Link, Stuck(m)'
               PROVE  Helped(m)'
    BY AllHelped
  <2>3. Stuck(m) /\ Helped(m)
    BY <2>1, NobodyStuck DEF Stuck
  <2>4. CASE m \in Server /\ m \notin call.exclude
    <3>1. active # {} \/ m \in able
      BY <2>3, <2>4 DEF Stuck, CanStart
    <3>2. active' # {} \/ \E s \in due' \cap Server : CanStart(s)'
      BY <2>1, <2>2, <3>1 DEF CanStart
    <3> QED
      BY <2>4, <3>2 DEF Helped
  <2>5. CASE ~ (m \in Server /\ m \notin call.exclude)
    <3>1. \A s \in Server : CanStart(s) => CanStart(s)'
      BY <2>1 DEF CanStart
    <3> QED
      BY <2>1, <2>3, <2>5, <3>1 DEF Helped
  <2> QED
    BY <2>4, <2>5
<1>12. ASSUME NEW l \in Link, LoseFrame(l) \/ ReceiveFrame(l)
       PROVE  NoStall'
  BY <1>12 DEF LoseFrame, ReceiveFrame, NoStall, CanStart
<1>13. ASSUME NEW l \in Link, NEW i \in DOMAIN inbound[l], Prune(l, i)
       PROVE  NoStall'
  BY <1>13 DEF Prune, NoStall, CanStart
<1>14. ASSUME NoLinks
       PROVE  NoStall'
  BY <1>14 DEF NoLinks, NoStall
<1> QED
  BY <1>1, <1>2, <1>3, <1>4, <1>5, <1>6, <1>7, <1>8, <1>9, <1>10, <1>11, <1>12, <1>13, <1>14
  DEF Next, Stop, KillApp

-----------------------------------------------------------------------------
(* The steps: what the peers collect *)

LEMMA CollectedWhole ==
  ASSUME NEW p \in Nat, NEW f \in AnyFrame(p), NEW parts, GoodParts(parts)
  PROVE  /\ \A s \in DOMAIN Collected(parts, f) : Collected(parts, f)[s] \in Nat \X {f.id}
         /\ Numbered(Collected(parts, f))
<1> DEFINE old == IF f.id \in DOMAIN parts THEN parts[f.id].chunks ELSE << >>
<1>1. f.msg \in Nat \X {f.id} /\ f.id \in Number
  <2>1. f.msg \in (1 .. p) \X Number /\ f.id = f.msg[2]
    BY DEF AnyFrame, FrameOf
  <2> QED
    BY <2>1
<1>2. \A s \in DOMAIN old : old[s] \in Nat \X {f.id}
  <2>1. CASE f.id \in DOMAIN parts
    BY <2>1 DEF GoodParts
  <2>2. CASE f.id \notin DOMAIN parts
    <3>1. DOMAIN old = {}
      BY <2>2
    <3> QED
      BY <3>1
  <2> QED
    BY <2>1, <2>2
<1>3. Collected(parts, f) = [s \in DOMAIN old \cup {f.seq} |-> IF s = f.seq THEN f.msg ELSE old[s]]
  BY DEF Collected
<1> HIDE DEF old
<1>4. \A s \in DOMAIN Collected(parts, f) : Collected(parts, f)[s] \in Nat \X {f.id}
  BY <1>1, <1>2, <1>3
<1> QED
  BY <1>1, <1>4 DEF Numbered

LEMMA WithoutGood ==
  ASSUME NEW parts, GoodParts(parts), NEW i
  PROVE  GoodParts(Without(parts, i))
<1>1. DOMAIN Without(parts, i) = DOMAIN parts \ {i}
      /\ \A j \in DOMAIN parts \ {i} : Without(parts, i)[j] = parts[j]
  BY DEF Without
<1>2. IsFiniteSet(DOMAIN parts \ {i}) /\ Cardinality(DOMAIN parts \ {i}) <= Cardinality(DOMAIN parts)
  BY FS_Subset DEF GoodParts
<1>3. Cardinality(DOMAIN parts \ {i}) <= MaxInbound
  <2>1. Cardinality(DOMAIN parts) \in Nat /\ Cardinality(DOMAIN parts \ {i}) \in Nat
    BY <1>2, FS_CardinalityType DEF GoodParts
  <2> QED
    BY <1>2, <2>1, LimitAssumption DEF GoodParts
<1> QED
  BY <1>1, <1>2, <1>3 DEF GoodParts

LEMMA WithGood ==
  ASSUME NEW p \in Nat, NEW f \in AnyFrame(p), NEW parts, GoodParts(parts),
         f.id \in DOMAIN parts \/ Cardinality(DOMAIN parts) < MaxInbound
  PROVE  GoodParts(With(parts, f))
<1>1. /\ DOMAIN With(parts, f) = DOMAIN parts \cup {f.id}
      /\ With(parts, f)[f.id].chunks = Collected(parts, f)
      /\ \A i \in DOMAIN parts \ {f.id} : With(parts, f)[i] = parts[i]
  BY DEF With
<1>2. IsFiniteSet(DOMAIN parts \cup {f.id}) /\ Cardinality(DOMAIN parts \cup {f.id}) <= MaxInbound
  <2>1. CASE f.id \in DOMAIN parts
    <3>1. DOMAIN parts \cup {f.id} = DOMAIN parts
      BY <2>1
    <3> QED
      BY <3>1 DEF GoodParts
  <2>2. CASE f.id \notin DOMAIN parts
    <3>1. /\ IsFiniteSet(DOMAIN parts \cup {f.id})
          /\ Cardinality(DOMAIN parts \cup {f.id}) = Cardinality(DOMAIN parts) + 1
          /\ Cardinality(DOMAIN parts) \in Nat
      BY <2>2, FS_AddElement, FS_CardinalityType DEF GoodParts
    <3> QED
      BY <2>2, <3>1, LimitAssumption
  <2> QED
    BY <2>1, <2>2
<1>3. ASSUME NEW i \in DOMAIN parts \cup {f.id}
      PROVE  \A s \in DOMAIN With(parts, f)[i].chunks : With(parts, f)[i].chunks[s] \in Nat \X {i}
  <2>1. CASE i = f.id
    BY <1>1, <2>1, CollectedWhole
  <2>2. CASE i # f.id
    BY <1>1, <2>2 DEF GoodParts
  <2> QED
    BY <2>1, <2>2
<1> QED
  BY <1>1, <1>2, <1>3 DEF GoodParts

LEMMA ReceivedParts ==
  ASSUME ShapeInv, LinkInv, PartsInv, NEW l \in Link, ReceiveFrame(l)
  PROVE  PartsInv'
<1> DEFINE f == Head(air[l])
           parts == inbound[l]
           known == f.id \in DOMAIN parts
           full == ~ known /\ Cardinality(DOMAIN parts) >= MaxInbound
           differs == known /\ parts[f.id].total # f.total
           chunks == Collected(parts, f)
           done == ~ full /\ ~ differs /\ Cardinality(DOMAIN chunks) = f.total
           r == IF full THEN parts
                ELSE IF differs \/ done THEN Without(parts, f.id) ELSE With(parts, f)
<1>1. /\ inbound' = [inbound EXCEPT ![l] = r]
      /\ handled' = IF done THEN [handled EXCEPT ![l] = handled[l] \cup {chunks}] ELSE handled
  BY DEF ReceiveFrame
<1>2. GoodParts(parts) /\ DOMAIN inbound = Link /\ DOMAIN handled = Link
  BY DEF PartsInv
<1>3. f \in AnyFrame(process) /\ process \in Nat
  <2>1. air[l] \in Seq(AnyFrame(process)) /\ air[l] # << >>
    BY LinkTypes DEF ReceiveFrame
  <2> QED
    BY <2>1, ElementsOfHeadTail DEF ShapeInv
<1> HIDE DEF f, parts
<1>4. Numbered(chunks)
  BY <1>2, <1>3, CollectedWhole
<1>5. GoodParts(r)
  <2>1. CASE full
    BY <1>2, <2>1
  <2>2. CASE ~ full /\ (differs \/ done)
    BY <1>2, <2>2, WithoutGood
  <2>3. CASE ~ full /\ ~ (differs \/ done)
    <3>1. known \/ Cardinality(DOMAIN parts) < MaxInbound
      <4>1. Cardinality(DOMAIN parts) \in Nat /\ MaxInbound \in Nat
        BY <1>2, FS_CardinalityType, LimitAssumption DEF GoodParts
      <4> QED
        BY <2>3, <4>1
    <3>2. GoodParts(With(parts, f))
      BY <1>2, <1>3, <3>1, WithGood
    <3> QED
      BY <2>3, <3>2
  <2> QED
    BY <2>1, <2>2, <2>3
<1> HIDE DEF r, done, chunks
<1>6. DOMAIN inbound' = Link /\ DOMAIN handled' = Link
  BY <1>1, <1>2
<1>7. ASSUME NEW m \in Link
      PROVE  GoodParts(inbound'[m]) /\ \A c \in handled'[m] : Numbered(c)
  BY <1>1, <1>2, <1>4, <1>5 DEF PartsInv
<1> QED
  BY <1>6, <1>7 DEF PartsInv, GoodParts, Numbered

LEMMA PartsStep ==
  ASSUME IInv, [Next]_vars
  PROVE  PartsInv'
<1> USE DEF IInv
<1>1. CASE UNCHANGED <<inbound, handled>>
  BY <1>1 DEF PartsInv, GoodParts
<1>2. ASSUME NEW l \in Link, ReceiveFrame(l)
      PROVE  PartsInv'
  BY <1>2, ReceivedParts
<1>3. ASSUME NEW l \in Link, NEW i \in DOMAIN inbound[l], Prune(l, i)
      PROVE  PartsInv'
  <2>1. GoodParts(Without(inbound[l], i))
    BY WithoutGood DEF PartsInv
  <2>2. /\ DOMAIN inbound' = Link /\ handled' = handled
        /\ inbound'[l] = Without(inbound[l], i)
        /\ \A m \in Link \ {l} : inbound'[m] = inbound[m]
    BY <1>3 DEF Prune, PartsInv
  <2>3. \A m \in Link : GoodParts(inbound'[m])
    BY <2>1, <2>2 DEF PartsInv
  <2> QED
    BY <2>2, <2>3 DEF PartsInv, GoodParts
<1>4. ASSUME NEW l \in Link, NEW k \in Key, NEW u \in Urgency[k], Enqueue(l, k, u)
      PROVE  PartsInv'
  BY <1>1, <1>4 DEF Enqueue
<1>5. ASSUME NEW l \in Link, Connect(l) \/ Ready(l) \/ Drop(l)
      PROVE  PartsInv'
  BY <1>1, <1>5 DEF Connect, Ready, Drop
<1>6. ASSUME NEW l \in Link,
             DrainNothing(l) \/ Drain(l) \/ StartFailed(l) \/ Sent(l) \/ SendFailed(l)
      PROVE  PartsInv'
  BY <1>1, <1>6 DEF DrainNothing, Drain, StartFailed, Sent, SendFailed
<1>7. ASSUME NEW call \in next, NextServer(call)
      PROVE  PartsInv'
  BY <1>1, <1>7 DEF NextServer
<1>8. ASSUME NEW l \in Link, LoseFrame(l)
      PROVE  PartsInv'
  BY <1>1, <1>8 DEF LoseFrame
<1>9. CASE Stop \/ KillApp
  BY <1>1, <1>9 DEF Stop, KillApp
<1>10. CASE UNCHANGED vars
  BY <1>1, <1>10 DEF vars
<1> QED
  BY <1>2, <1>3, <1>4, <1>5, <1>6, <1>7, <1>8, <1>9, <1>10 DEF Next

-----------------------------------------------------------------------------
(* The invariant, and what follows from it *)

LEMMA InitInv == Init => IInv
<1> SUFFICES ASSUME Init PROVE IInv
  OBVIOUS
<1>1. ShapeInv
  <2>1. 0 \in 0 .. (MaxFailures - 1)
    BY LimitAssumption
  <2> QED
    BY <2>1 DEF Init, ShapeInv
<1>2. LinkInv
  <2>1. /\ DOMAIN queue = Link /\ DOMAIN busy = Link
        /\ \A l \in Link : queue[l] = EmptyQueue /\ busy[l] = << >>
        /\ air \in [Link -> Seq(AnyFrame(process))]
    BY DEF Init
  <2> QED
    BY <2>1, EmptyGood DEF LinkInv
<1>3. SlotInv /\ NoStall
  BY DEF Init, SlotInv, OneSender, Settled, NoStall, Link, IsIdle, EmptyQueue
<1>4. PartsInv
  <2>1. GoodParts(<< >>)
    <3>1. DOMAIN << >> = {}
      OBVIOUS
    <3>2. IsFiniteSet({}) /\ Cardinality({}) = 0
      BY FS_EmptySet
    <3> QED
      BY <3>1, <3>2, LimitAssumption DEF GoodParts
  <2> QED
    BY <2>1 DEF Init, PartsInv
<1> QED
  BY <1>1, <1>2, <1>3, <1>4 DEF IInv

\* What every other theorem of this module follows from.
THEOREM Inductive == Spec => []IInv
<1>1. IInv /\ [Next]_vars => IInv'
  <2> SUFFICES ASSUME IInv, [Next]_vars PROVE IInv'
    OBVIOUS
  <2>1. ShapeInv' /\ LinkInv' /\ SlotInv' /\ NoStall' /\ PartsInv'
    BY ShapeStep, LinkStep, SlotStep, StallStep, PartsStep
  <2> QED
    BY <2>1 DEF IInv
<1> QED
  BY <1>1, InitInv, PTL DEF Spec

LEMMA InvFrames ==
  ASSUME ShapeInv, NEW f \in AnyFrame(process)
  PROVE  IsFrame(f)
<1>1. /\ f.msg \in (1 .. process) \X Number /\ f.key \in Key
      /\ f.urgent \in BOOLEAN /\ f.total = Frames[f.key] /\ f.seq \in 1 .. f.total
      /\ f.id = f.msg[2]
  BY DEF AnyFrame, FrameOf
<1>2. f.msg[1] \in 1 .. process /\ f.msg[2] \in Number
  BY <1>1
<1>3. f.msg[2] % IdSpace = f.msg[2]
  BY <1>2, NoWrap
<1> QED
  BY <1>1, <1>2, <1>3 DEF IsFrame

LEMMA InvTypes == IInv => TypeOK
<1> SUFFICES ASSUME IInv PROVE TypeOK
  OBVIOUS
<1> USE DEF IInv
<1>1. /\ state \in [Link -> {"none", "open", "ready"}]
      /\ active \subseteq Server /\ due \subseteq Link
      /\ failures \in [Link -> 0 .. (MaxFailures - 1)]
      /\ \A c \in next : c.previous \subseteq Server /\ c.exclude \subseteq Server
  BY DEF ShapeInv, CallOf
<1>2. ASSUME NEW l \in Link
      PROVE  /\ queue[l].keys \subseteq Key
             /\ Len(busy[l]) <= 1
             /\ \A f \in Waiting(queue[l]) \cup ToSet(busy[l]) \cup ToSet(air[l]) : IsFrame(f)
             /\ \A f \in ToSet(queue[l].urgent) : f.urgent
             /\ \A f \in ToSet(queue[l].normal) : ~ f.urgent
             /\ Pending(l) <= MaxFrames /\ Len(queue[l].normal) <= MaxFrames - Reserve
             /\ Cardinality(DOMAIN inbound[l]) <= MaxInbound
  <2> DEFINE q == queue[l]
             b == busy[l]
  <2>1. GoodLink(q, b, process) /\ air[l] \in Seq(AnyFrame(process))
    BY LinkTypes
  <2>2. /\ q.urgent \in Seq(FrameOf(process, TRUE)) /\ q.normal \in Seq(FrameOf(process, FALSE))
        /\ q.keys \subseteq Key /\ b \in Seq(AnyFrame(process)) /\ Len(b) <= 1
        /\ Len(q.normal) \in Nat /\ Borrowed(b) \in Nat
    BY <2>1, GoodTypes
  <2>3. /\ ToSet(q.urgent) \subseteq FrameOf(process, TRUE)
        /\ ToSet(q.normal) \subseteq FrameOf(process, FALSE)
        /\ ToSet(b) \subseteq AnyFrame(process) /\ ToSet(air[l]) \subseteq AnyFrame(process)
    BY <2>1, <2>2, ElementsAreMembers
  <2>4. \A f \in Waiting(q) \cup ToSet(b) \cup ToSet(air[l]) : IsFrame(f)
    BY <2>3, InvFrames DEF Waiting, AnyFrame
  <2>5. \A f \in ToSet(q.urgent) : f.urgent
    BY <2>3 DEF FrameOf
  <2>6. \A f \in ToSet(q.normal) : ~ f.urgent
    BY <2>3 DEF FrameOf
  <2>7. Pending(l) <= MaxFrames
    BY <2>1 DEF GoodLink, Pending
  <2>8. Len(q.normal) <= MaxFrames - Reserve
    <3> DEFINE n == Len(q.normal)
    <3>1. n + Borrowed(b) <= MaxFrames - Reserve /\ n \in Nat /\ Borrowed(b) \in Nat
      BY <2>1, <2>2 DEF GoodLink
    <3> HIDE DEF n, b
    <3>2. n <= MaxFrames - Reserve
      BY <3>1, Limits
    <3> QED
      BY <3>2 DEF n
  <2>9. Cardinality(DOMAIN inbound[l]) <= MaxInbound
    BY DEF PartsInv, GoodParts
  <2> QED
    BY <2>2, <2>4, <2>5, <2>6, <2>7, <2>8, <2>9
<1> QED
  BY <1>1, <1>2 DEF TypeOK

LEMMA InvWhole == IInv => HandledWhole
<1> SUFFICES ASSUME IInv, NEW l \in Link, NEW chunks \in handled[l],
                    NEW i \in DOMAIN chunks, NEW j \in DOMAIN chunks, chunks[i] # chunks[j]
             PROVE  chunks[i][1] # chunks[j][1]
  BY DEF HandledWhole
<1>1. PICK n \in Number : \A s \in DOMAIN chunks : chunks[s] \in Nat \X {n}
  BY DEF IInv, PartsInv, Numbered
<1>2. chunks[i] \in Nat \X {n} /\ chunks[j] \in Nat \X {n}
  BY <1>1
<1> QED
  BY <1>2

\* The state keeps the shape the code gives it: a queue never exceeds its bounds,
\* retries included, and the frames of bulk messages never take the reserve of
\* control messages (enqueue, addFirst).
THEOREM TypeCorrect == Spec => []TypeOK
BY Inductive, InvTypes, PTL

\* A peer that puts chunks together never mixes two messages of one process of
\* the app, whatever was lost, repeated, or left over (receiveFrame, makeFrames).
THEOREM NeverMixed == Spec => []HandledWhole
BY Inductive, InvWhole, PTL

\* A key that hides newer messages belongs to a message whose last frame the
\* link still has (BleOutboundQueue).
THEOREM NothingSilenced == Spec => []KeysHeld
<1>1. IInv => KeysHeld
  BY DEF IInv, LinkInv, GoodLink, KeysHeld
<1> QED
  BY <1>1, Inductive, PTL

\* activeServerLink is the one server link with a notification in flight
\* (drainServer, onNotificationSent, dropServerLink).
THEOREM SlotIsTheSenders == Spec => []OneSender
<1>1. IInv => OneSender
  BY DEF IInv, SlotInv
<1> QED
  BY <1>1, Inductive, PTL

\* Frames that wait on a usable link always have somebody who will look at them:
\* no failure, drop or callback ends with a full queue that nobody drains.
THEOREM NobodyForgotten == Spec => []NoStall
<1>1. IInv => NoStall
  BY DEF IInv
<1> QED
  BY <1>1, Inductive, PTL
=============================================================================
