------------------------- MODULE TinyInvites_proofs -------------------------
(***************************************************************************)
(* Theorems about TinyInvites.tla for any number of people, invitations,   *)
(* places and stamps.  The inductive invariant IInv says that all events   *)
(* of a board together are Sound: every phone that publishes one has all   *)
(* of its own, and its checks keep them so.  Soundness passes to any part  *)
(* of the events (PartSound), so it holds of what a phone has, however     *)
(* little that is, and there the sums of wb_meta_state come out simple:    *)
(* all invitations count (AllCount), each has one answer (OneAnswer), and  *)
(* the members are the creator and those placed by their acceptances.      *)
(***************************************************************************)
EXTENDS TinyInvites, Subsequences, FiniteSetTheorems, FunctionTheorems, SequenceTheorems,
        TLAPS

-----------------------------------------------------------------------------
(* Ranks in a set of numbers *)

\* The size of a numbering.
LEMMA NumbersCounted ==
  ASSUME NEW n \in Nat
  PROVE  IsFiniteSet(1 .. n) /\ Cardinality(1 .. n) = n
<1>1. 1 \in Int /\ n \in Int /\ (1 > n => n = 0)
  OBVIOUS
<1>2. IsFiniteSet(1 .. n) /\ Cardinality(1 .. n) = IF 1 > n THEN 0 ELSE n - 1 + 1
  BY <1>1, FS_Interval
<1> QED
  BY <1>1, <1>2

\* The ranks in a finite set of integers are the numbers from 1, in the same
\* order.
LEMMA Ranks ==
  ASSUME NEW S \in SUBSET Int, IsFiniteSet(S)
  PROVE  /\ Cardinality(S) \in Nat
         /\ \A c \in S : Rank(S, c) \in 1 .. Cardinality(S)
         /\ \A c, d \in S : c < d => Rank(S, c) < Rank(S, d)
<1>1. Cardinality(S) \in Nat
  BY FS_CardinalityType
<1>2. ASSUME NEW c \in S
      PROVE  Rank(S, c) \in 1 .. Cardinality(S)
  <2> DEFINE upTo == {d \in S : d <= c}
  <2>1. IsFiniteSet(upTo) /\ Cardinality(upTo) <= Cardinality(S)
    BY FS_Subset, upTo \in SUBSET S
  <2>2. c \in upTo
    OBVIOUS
  <2>3. Cardinality(upTo) \in Nat /\ Cardinality(upTo) # 0
    BY <2>1, <2>2, FS_CardinalityType, FS_EmptySet
  <2> QED
    BY <1>1, <2>1, <2>3 DEF Rank
<1>3. ASSUME NEW c \in S, NEW d \in S, c < d
      PROVE  Rank(S, c) < Rank(S, d)
  <2> DEFINE upTo(k) == {m \in S : m <= k}
  <2>1. upTo(c) \in SUBSET upTo(d) /\ d \in upTo(d) /\ d \notin upTo(c)
    <3>1. c \in Int /\ d \in Int /\ \A m \in S : m \in Int
      OBVIOUS
    <3>2. \A m \in S : m <= c => m <= d
      BY <3>1, <1>3
    <3>3. d <= d /\ ~ (d <= c)
      BY <3>1, <1>3
    <3> QED
      BY <3>2, <3>3
  <2>2. IsFiniteSet(upTo(d)) /\ IsFiniteSet(upTo(c))
    BY FS_Subset, upTo(c) \in SUBSET S, upTo(d) \in SUBSET S
  <2>3. Cardinality(upTo(c)) <= Cardinality(upTo(d)) /\ Cardinality(upTo(c)) # Cardinality(upTo(d))
    BY <2>1, <2>2, FS_Subset
  <2>4. Cardinality(upTo(c)) \in Nat /\ Cardinality(upTo(d)) \in Nat
    BY <2>2, FS_CardinalityType
  <2> QED
    BY <2>3, <2>4 DEF Rank
<1> QED
  BY <1>1, <1>2, <1>3

\* Every number up to the size of the set is the rank of one member.
LEMMA Ranked ==
  ASSUME NEW S \in SUBSET Int, IsFiniteSet(S), NEW k \in 1 .. Cardinality(S)
  PROVE  \E c \in S : Rank(S, c) = k
<1> DEFINE rank == [c \in S |-> Rank(S, c)]
           n == Cardinality(S)
<1>1. n \in Nat /\ IsFiniteSet(1 .. n) /\ Cardinality(1 .. n) = n
  <2>1. n \in Nat
    BY Ranks
  <2> QED
    BY <2>1, NumbersCounted
<1>2. rank \in [S -> 1 .. n]
  BY Ranks
<1>3. \A c, d \in S : rank[c] = rank[d] => c = d
  <2> SUFFICES ASSUME NEW c \in S, NEW d \in S, c # d PROVE rank[c] # rank[d]
    OBVIOUS
  <2>1. c \in Int /\ d \in Int /\ (c < d \/ d < c)
    OBVIOUS
  <2>2. Rank(S, c) \in Nat /\ Rank(S, d) \in Nat
    BY Ranks
  <2>3. Rank(S, c) < Rank(S, d) \/ Rank(S, d) < Rank(S, c)
    BY <2>1, Ranks
  <2> QED
    BY <2>2, <2>3
<1>4. rank \in Injection(S, 1 .. n)
  BY <1>2, <1>3 DEF Injection, IsInjective
<1>5. rank \in Surjection(S, 1 .. n)
  BY <1>1, <1>4, FS_Injection
<1> QED
  BY <1>5 DEF Surjection

\* The rank of a member is one more than the number of smaller ones.
LEMMA Smaller ==
  ASSUME NEW S \in SUBSET Int, IsFiniteSet(S), NEW c \in S
  PROVE  /\ Cardinality({d \in S : d < c}) \in Nat
         /\ Rank(S, c) = Cardinality({d \in S : d < c}) + 1
<1> DEFINE upTo == {d \in S : d <= c}
           below == {d \in S : d < c}
<1>1. IsFiniteSet(upTo) /\ IsFiniteSet(below)
  BY FS_Subset, upTo \in SUBSET S, below \in SUBSET S
<1>2. upTo = below \cup {c} /\ c \notin below
  <2>1. c \in Int /\ \A d \in S : d \in Int
    OBVIOUS
  <2>2. \A d \in S : d <= c <=> (d < c \/ d = c)
    BY <2>1
  <2>3. ~ (c < c)
    BY <2>1
  <2> QED
    BY <2>2, <2>3
<1>3. Cardinality(upTo) = Cardinality(below) + 1
  BY <1>1, <1>2, FS_AddElement
<1> QED
  BY <1>1, <1>3, FS_CardinalityType DEF Rank

\* There is a smallest member.
LEMMA Smallest ==
  ASSUME NEW S \in SUBSET Int, IsFiniteSet(S), S # {}
  PROVE  \E c \in S : \A d \in S : c <= d
<1>1. Cardinality(S) \in Nat /\ Cardinality(S) # 0
  BY FS_CardinalityType, FS_EmptySet
<1>2. PICK c \in S : Rank(S, c) = 1
  BY <1>1, Ranked, 1 \in 1 .. Cardinality(S)
<1>3. ASSUME NEW d \in S, d < c
      PROVE  FALSE
  <2>1. Rank(S, d) < Rank(S, c) /\ Rank(S, d) \in 1 .. Cardinality(S)
    BY <1>3, Ranks
  <2> QED
    BY <1>1, <1>2, <2>1
<1>4. \A d \in S : c <= d
  <2>1. \A d \in S : d \in Int /\ c \in Int
    OBVIOUS
  <2> QED
    BY <1>3, <2>1
<1> QED
  BY <1>4

\* Positions of a sequence are such a set.
LEMMA PositionsFinite ==
  ASSUME NEW n \in Nat, NEW at \in SUBSET (1 .. n)
  PROVE  IsFiniteSet(at) /\ Cardinality(at) \in 0 .. n /\ at \in SUBSET Int
<1>1. IsFiniteSet(1 .. n) /\ Cardinality(1 .. n) = n
  BY NumbersCounted
<1>2. IsFiniteSet(at) /\ Cardinality(at) <= n
  BY <1>1, FS_Subset
<1>3. Cardinality(at) \in Nat
  BY <1>2, FS_CardinalityType
<1> QED
  BY <1>2, <1>3

-----------------------------------------------------------------------------
(* Events *)

\* The event that creates the board.
Wc == [k |-> "wc", by |-> Creator, at |-> 0, of |-> None]

\* The invitations, the answers, and whom invitations are for.
Invites(c) == Of(c, {"wi"})
Answers(c) == Of(c, {"wa", "wd"})
Invitees(S) == {i.of : i \in S}

\* What may be known of a board, on one phone or on all together: one creation,
\* invitations of the creator that all count, different stamps, one answer to
\* an invitation.
Sound(c) ==
  /\ c \subseteq Event
  /\ \A e \in Of(c, {"wc"}) : e = Wc
  /\ \A i \in Invites(c) : i.by = Creator /\ i.of # Creator
  /\ \A e, f \in c : e.at = f.at /\ e.at # 0 => e = f
  /\ \A e, f \in Answers(c) : e.of = f.of /\ e.by = f.by => e = f
  /\ Cardinality(Invitees(Invites(c))) <= MaxInvites
  /\ \A e \in Invites(c) : Counts({i \in Invites(c) : i.at < e.at}, e)

\* The fields of an event, by its kind.
LEMMA EventFields ==
  ASSUME NEW e \in Event
  PROVE  /\ e.k \in {"wc", "s", "wi", "wa", "wd"} /\ e.by \in Person
         /\ e.at \in 0 .. MaxStamp /\ e.at \in Nat
         /\ e.k \in {"wc", "s"} => e.at = 0 /\ e.of = None
         /\ e.k = "wi" => e.at \in Stamp /\ e.of \in Person
         /\ e.k \in {"wa", "wd"} => e.at \in Stamp /\ e.of \in Stamp
BY BoundAssumption DEF Event, Stamp

\* Among invitations there is a last one.
LEMMA LastThere ==
  ASSUME NEW S \in SUBSET Event, S # {}
  PROVE  /\ Latest(S) # {}
         /\ \A i \in S, j \in Latest(S) : i.at <= j.at
<1> DEFINE back == {MaxStamp - i.at : i \in S}
<1>1. \A i \in S : i.at \in 0 .. MaxStamp
  BY EventFields
<1>2. back \in SUBSET (0 .. MaxStamp) /\ back # {} /\ MaxStamp \in Nat
  BY <1>1, BoundAssumption
<1>3. back \in SUBSET Int /\ IsFiniteSet(back)
  <2>1. 0 \in Int /\ MaxStamp \in Int
    BY <1>2
  <2>2. IsFiniteSet(0 .. MaxStamp)
    BY <2>1, FS_Interval
  <2>3. back \in SUBSET Int
    BY <1>2
  <2> QED
    BY <1>2, <2>2, <2>3, FS_Subset
<1>4. PICK m \in back : \A d \in back : m <= d
  BY <1>2, <1>3, Smallest
<1>5. PICK j \in S : m = MaxStamp - j.at
  BY <1>4
<1>6. \A i \in S : i.at <= j.at
  <2> SUFFICES ASSUME NEW i \in S PROVE i.at <= j.at
    OBVIOUS
  <2>1. m <= MaxStamp - i.at /\ i.at \in Nat /\ j.at \in Nat
    BY <1>1, <1>4
  <2> QED
    BY <1>2, <1>5, <2>1
<1>7. j \in Latest(S)
  BY <1>6 DEF Latest
<1>8. \A i \in S, l \in Latest(S) : i.at <= l.at
  BY DEF Latest
<1> QED
  BY <1>7, <1>8

\* Whoever was invited has a last invitation.
LEMMA LastForThere ==
  ASSUME NEW S \in SUBSET Event, NEW q
  PROVE  LatestFor(S, q) = {} <=> q \notin Invitees(S)
<1> DEFINE T == {i \in S : i.of = q}
<1>1. T # {} => Latest(T) # {}
  BY LastThere, T \in SUBSET Event
<1>2. Latest(T) \subseteq T
  BY DEF Latest
<1>3. T = {} <=> q \notin Invitees(S)
  BY DEF Invitees
<1> QED
  BY <1>1, <1>2, <1>3 DEF LatestFor

\* Invitees are people.
LEMMA InviteesFinite ==
  ASSUME NEW c \in SUBSET Event, NEW S \in SUBSET Invites(c)
  PROVE  Invitees(S) \in SUBSET Person /\ IsFiniteSet(Invitees(S))
<1>1. Invitees(S) \in SUBSET Person
  BY EventFields DEF Invitees, Invites, Of
<1> QED
  BY <1>1, BoundAssumption, FS_Subset

\* Fewer invitations leave more room for each of them.
LEMMA StillCounts ==
  ASSUME NEW c \in SUBSET Event, NEW S \in SUBSET Invites(c), NEW T \in SUBSET S,
         NEW e \in Invites(c), Counts(S, e), Cardinality(Invitees(S)) <= MaxInvites
  PROVE  Counts(T, e)
<1>1. S \in SUBSET Event /\ T \in SUBSET Event /\ T \in SUBSET Invites(c)
  BY DEF Invites, Of
<1>2. /\ IsFiniteSet(Invitees(S)) /\ IsFiniteSet(Invitees(T)) /\ Invitees(T) \in SUBSET Invitees(S)
  BY <1>1, InviteesFinite DEF Invitees
<1>3. /\ Cardinality(Invitees(S)) \in Nat /\ Cardinality(Invitees(T)) \in Nat
      /\ Cardinality(Invitees(T)) <= Cardinality(Invitees(S))
      /\ Invitees(T) # Invitees(S) => Cardinality(Invitees(T)) # Cardinality(Invitees(S))
  BY <1>2, FS_CardinalityType, FS_Subset
<1>4. LatestFor(T, e.of) = {} => Cardinality(Invitees(T)) < MaxInvites
  <2> SUFFICES ASSUME e.of \notin Invitees(T) PROVE Cardinality(Invitees(T)) < MaxInvites
    BY <1>1, LastForThere
  <2>1. CASE e.of \in Invitees(S)
    BY <1>3, <2>1, BoundAssumption
  <2>2. CASE e.of \notin Invitees(S)
    <3>1. LatestFor(S, e.of) = {}
      BY <1>1, <2>2, LastForThere
    <3>2. Cardinality(Invitees(S)) < MaxInvites
      BY <3>1 DEF Counts, Invitees
    <3> QED
      BY <1>3, <3>2, BoundAssumption
  <2> QED
    BY <2>1, <2>2
<1>5. ASSUME NEW i \in LatestFor(T, e.of)
      PROVE  e.at - i.at >= Cooldown
  <2> DEFINE own == {j \in S : j.of = e.of}
  <2>1. i \in own
    BY DEF LatestFor, Latest
  <2>2. Latest(own) # {} /\ \A j \in Latest(own) : i.at <= j.at
    BY <1>1, <2>1, LastThere, own \in SUBSET Event
  <2>3. PICK j \in Latest(own) : i.at <= j.at
    BY <2>2
  <2>4. e.at - j.at >= Cooldown
    BY <2>3 DEF Counts, LatestFor
  <2>5. e \in Event /\ i \in Event /\ j \in Event
    BY <1>1, <2>1, <2>3 DEF Latest, Invites, Of
  <2>6. e.at \in Nat /\ i.at \in Nat /\ j.at \in Nat
    BY <2>5, EventFields
  <2> QED
    BY <2>3, <2>4, <2>6, BoundAssumption
<1> QED
  BY <1>4, <1>5 DEF Counts, Invitees

\* A phone that has only some of the events has no wrong picture of them.
LEMMA PartSound ==
  ASSUME NEW w, Sound(w), NEW c \in SUBSET w
  PROVE  Sound(c)
<1>1. /\ c \in SUBSET Event /\ w \in SUBSET Event
      /\ Invites(c) \in SUBSET Invites(w) /\ Answers(c) \in SUBSET Answers(w)
      /\ Of(c, {"wc"}) \in SUBSET Of(w, {"wc"})
  BY DEF Sound, Invites, Answers, Of
<1>2. Cardinality(Invitees(Invites(c))) <= MaxInvites
  <2>1. /\ Invitees(Invites(c)) \in SUBSET Invitees(Invites(w))
        /\ IsFiniteSet(Invitees(Invites(w)))
    BY <1>1, InviteesFinite DEF Invitees
  <2>2. /\ Cardinality(Invitees(Invites(c))) <= Cardinality(Invitees(Invites(w)))
        /\ IsFiniteSet(Invitees(Invites(c)))
    BY <2>1, FS_Subset
  <2>3. Cardinality(Invitees(Invites(c))) \in Nat /\ Cardinality(Invitees(Invites(w))) \in Nat
    BY <2>1, <2>2, FS_CardinalityType
  <2> QED
    BY <2>2, <2>3, BoundAssumption DEF Sound
<1>3. ASSUME NEW e \in Invites(c)
      PROVE  Counts({i \in Invites(c) : i.at < e.at}, e)
  <2> DEFINE S == {i \in Invites(w) : i.at < e.at}
             T == {i \in Invites(c) : i.at < e.at}
  <2>1. S \in SUBSET Invites(w) /\ T \in SUBSET S /\ e \in Invites(w) /\ Counts(S, e)
    BY <1>1 DEF Sound
  <2>2. Cardinality(Invitees(S)) <= MaxInvites
    <3>1. /\ Invitees(S) \in SUBSET Invitees(Invites(w))
          /\ IsFiniteSet(Invitees(Invites(w)))
      BY <1>1, InviteesFinite DEF Invitees
    <3>2. /\ Cardinality(Invitees(S)) <= Cardinality(Invitees(Invites(w)))
          /\ IsFiniteSet(Invitees(S))
      BY <3>1, FS_Subset
    <3>3. Cardinality(Invitees(S)) \in Nat /\ Cardinality(Invitees(Invites(w))) \in Nat
      BY <3>1, <3>2, FS_CardinalityType
    <3> QED
      BY <3>2, <3>3, BoundAssumption DEF Sound
  <2> HIDE DEF S, T
  <2>3. Counts(T, e)
    BY <1>1, <2>1, <2>2, StillCounts
  <2> QED
    BY <2>3 DEF T
<1> QED
  BY <1>1, <1>2, <1>3 DEF Sound

-----------------------------------------------------------------------------
(* What follows from the events *)

\* All invitations of a sound set count.
LEMMA AllCount ==
  ASSUME NEW c, Sound(c), Managed(c)
  PROVE  OwnerOf(c) = Creator /\ Invitations(c) = Invites(c)
<1>1. OwnerOf(c) = Creator
  BY DEF Sound, Managed, OwnerOf, Wc
<1> DEFINE sent == {e \in Of(c, {"wi"}) : e.by = OwnerOf(c)}
           upTo[t \in 0 .. MaxStamp] ==
             IF t = 0 THEN {}
             ELSE upTo[t - 1] \cup {e \in sent : e.at = t /\ Counts(upTo[t - 1], e)}
           part == [t \in 0 .. MaxStamp |-> {e \in Invites(c) : e.at <= t}]
<1>2. Invitations(c) = upTo[MaxStamp]
  BY DEF Invitations
<1> DEFINE Grown(f, t) == f[t - 1] \cup {e \in sent : e.at = t /\ Counts(f[t - 1], e)}
<1>3. sent = Invites(c) /\ \A e \in sent : e \in Event /\ e.at \in Stamp /\ e.k = "wi"
  BY <1>1, EventFields DEF Sound, Invites, Of
<1>4. \A t \in 0 .. MaxStamp : part[t] = IF t = 0 THEN {} ELSE Grown(part, t)
  <2> HIDE DEF sent
  <2> SUFFICES ASSUME NEW t \in 0 .. MaxStamp
               PROVE  part[t] = IF t = 0 THEN {} ELSE Grown(part, t)
    OBVIOUS
  <2>1. t \in Nat /\ MaxStamp \in Nat
    BY BoundAssumption
  <2>2. CASE t = 0
    BY <1>3, <2>1, <2>2 DEF Stamp
  <2>3. CASE t # 0
    <3>1. t - 1 \in 0 .. MaxStamp
      BY <2>1, <2>3
    <3>2. part[t - 1] = {e \in Invites(c) : e.at <= t - 1} /\ part[t] = {e \in Invites(c) : e.at <= t}
      BY <3>1
    <3>3. \A e \in Invites(c) : e.at \in Nat
      BY <1>3 DEF Stamp
    <3>4. \A e \in Invites(c) : (e.at <= t - 1 <=> e.at < t) /\ (e.at <= t <=> e.at < t \/ e.at = t)
      BY <2>1, <3>3
    <3>5. part[t - 1] = {e \in Invites(c) : e.at < t}
      BY <3>2, <3>4
    <3>6. \A e \in Invites(c) : e.at = t => Counts(part[t - 1], e)
      BY <3>5 DEF Sound
    <3> HIDE DEF part
    <3> QED
      BY <1>3, <2>3, <3>2, <3>4, <3>5, <3>6
  <2> QED
    BY <2>2, <2>3
<1>5. part = [t \in 0 .. MaxStamp |-> IF t = 0 THEN {} ELSE Grown(part, t)]
  BY <1>4
<1>6. upTo = [t \in 0 .. MaxStamp |-> IF t = 0 THEN {} ELSE Grown(upTo, t)]
  <2> HIDE DEF sent, part
  <2> QED
    BY <1>5
<1>7. \A t \in 0 .. MaxStamp : upTo[t] = part[t]
  <2> HIDE DEF part, upTo, sent
  <2> DEFINE wrong == {t \in 0 .. MaxStamp : upTo[t] # part[t]}
  <2> SUFFICES ASSUME wrong # {} PROVE FALSE
    OBVIOUS
  <2>1. wrong \in SUBSET Int /\ IsFiniteSet(wrong)
    <3>1. 0 \in Int /\ MaxStamp \in Int /\ wrong \in SUBSET (0 .. MaxStamp)
      BY BoundAssumption
    <3>2. IsFiniteSet(0 .. MaxStamp)
      BY <3>1, FS_Interval
    <3> QED
      BY <3>1, <3>2, FS_Subset
  <2>2. PICK t \in wrong : \A u \in wrong : t <= u
    BY <2>1, Smallest
  <2>3. t \in 0 .. MaxStamp /\ t \in Nat /\ upTo[t] # part[t]
    BY <2>2
  <2>4. CASE t = 0
    BY <1>4, <1>6, <2>3, <2>4
  <2>5. CASE t # 0
    <3>1. t - 1 \in 0 .. MaxStamp /\ ~ (t <= t - 1)
      BY <2>3, <2>5, BoundAssumption
    <3>2. t - 1 \notin wrong
      BY <2>2, <3>1
    <3>3. upTo[t - 1] = part[t - 1]
      BY <3>1, <3>2
    <3>4. part[t] = Grown(part, t) /\ upTo[t] = Grown(upTo, t)
      <4> HIDE DEF Grown
      <4> QED
        BY <1>4, <1>6, <2>3, <2>5
    <3> QED
      BY <2>3, <3>3, <3>4
  <2> QED
    BY <2>4, <2>5
<1>8. part[MaxStamp] = Invites(c)
  <2>1. \A e \in Invites(c) : e.at <= MaxStamp
    BY <1>3, BoundAssumption DEF Stamp
  <2>2. MaxStamp \in 0 .. MaxStamp
    BY BoundAssumption
  <2> QED
    BY <2>1, <2>2
<1>9. MaxStamp \in 0 .. MaxStamp
  BY BoundAssumption
<1> HIDE DEF upTo, part
<1> QED
  BY <1>1, <1>2, <1>7, <1>8, <1>9

\* The invitations that were accepted, in terms of the events alone.
Accepted(c) ==
  {a \in Of(c, {"wa"}) : \E i \in Invites(c) : i.at = a.of /\ i.of = a.by}

\* An invitation has at most one answer.
LEMMA OneAnswer ==
  ASSUME NEW c, Sound(c), NEW i
  PROVE  Response(c, i) = {e \in Answers(c) : e.of = i.at /\ e.by = i.of}
<1> DEFINE R == {e \in Answers(c) : e.of = i.at /\ e.by = i.of}
<1>1. \A e, f \in R : e = f
  BY DEF Sound
<1>2. \A e \in R : e.at \in Nat
  BY EventFields DEF Sound, Answers, Of
<1>3. \A e, f \in R : e.at <= f.at
  BY <1>1, <1>2
<1> QED
  BY <1>3 DEF Response, First, Answers

\* What wb_meta_state takes for acceptances are all of them.
LEMMA AcceptedOnes ==
  ASSUME NEW c, Sound(c), Managed(c)
  PROVE  Acceptances(c) = Accepted(c)
<1>1. Invitations(c) = Invites(c)
  BY AllCount
<1>2. \A i : Response(c, i) = {e \in Answers(c) : e.of = i.at /\ e.by = i.of}
  BY OneAnswer
<1> QED
  BY <1>1, <1>2 DEF Acceptances, Accepted, Answers, Of

\* Acceptances are by different people than the creator, at different times.
LEMMA AcceptedFields ==
  ASSUME NEW c, Sound(c)
  PROVE  /\ \A a \in Accepted(c) :
              a \in c /\ a.k = "wa" /\ a.at \in Stamp /\ a.at \in Nat /\ a.at \in Int
              /\ a.by \in Person /\ a.by # Creator
         /\ \A a, b \in Accepted(c) : a.at = b.at => a = b
         /\ \A w \in SUBSET c : Accepted(w) \in SUBSET Accepted(c)
<1>1. \A a \in Accepted(c) : a \in c /\ a \in Event /\ a.k = "wa"
  BY DEF Accepted, Sound, Of
<1>2. \A a \in Accepted(c) : a.by # Creator
  BY DEF Accepted, Sound
<1>3. \A a \in Accepted(c) : a.at \in Stamp /\ a.at \in Nat /\ a.at \in Int /\ a.at # 0 /\ a.by \in Person
  BY <1>1, EventFields DEF Stamp
<1>4. \A a, b \in Accepted(c) : a.at = b.at => a = b
  BY <1>1, <1>3 DEF Sound
<1>5. \A w \in SUBSET c : Accepted(w) \in SUBSET Accepted(c)
  BY DEF Accepted, Invites, Of
<1> QED
  BY <1>1, <1>2, <1>3, <1>4, <1>5

-----------------------------------------------------------------------------
(* Places *)

\* Who accepted before the stamp t.
Before(c, t) == {b.by : b \in {b \in Accepted(c) : b.at < t}}

\* Those who have a place besides the creator.
Placed(c) == {a.by : a \in {a \in Accepted(c) : Cardinality(Before(c, a.at)) < MaxMembers - 1}}

\* The members, from the acceptances alone.
LEMMA MembersArePlaced ==
  ASSUME NEW c, Sound(c), Managed(c)
  PROVE  Members(c) = {Creator} \cup Placed(c)
<1>1. OwnerOf(c) = Creator /\ Acceptances(c) = Accepted(c)
  BY AllCount, AcceptedOnes
<1>2. Placed(c) = {e.by : e \in {a \in Accepted(c) :
        Cardinality({b.by : b \in {b \in Accepted(c) : b.at < a.at}}) < MaxMembers - 1}}
  BY DEF Placed, Before
<1> HIDE DEF Placed
<1> QED
  BY <1>1, <1>2, Zenon DEF Members

\* Later answers have more answers before them.
LEMMA MoreBefore ==
  ASSUME NEW c, Sound(c), NEW t \in Nat, NEW u \in Nat, t <= u
  PROVE  /\ Cardinality(Before(c, t)) \in Nat /\ Cardinality(Before(c, u)) \in Nat
         /\ Cardinality(Before(c, t)) <= Cardinality(Before(c, u))
<1>1. Before(c, t) \in SUBSET Before(c, u)
  <2>1. \A b \in Accepted(c) : b.at < t => b.at < u
    BY AcceptedFields
  <2> QED
    BY <2>1 DEF Before
<1>2. Before(c, u) \in SUBSET Person
  BY AcceptedFields DEF Before
<1>3. IsFiniteSet(Before(c, u))
  BY <1>2, BoundAssumption, FS_Subset
<1> QED
  BY <1>1, <1>3, FS_Subset, FS_CardinalityType

\* If somebody who accepted has no place, the others have taken them all.
LEMMA Full ==
  ASSUME NEW c, Sound(c), NEW a \in Accepted(c), a.by \notin Placed(c)
  PROVE  IsFiniteSet(Placed(c)) /\ Cardinality(Placed(c)) = MaxMembers - 1
<1> DEFINE A == Accepted(c)
           P == {b.by : b \in A}
           IsFirst(r, t) == /\ \E f \in A : f.by = r /\ f.at = t
                            /\ \A b \in A : b.by = r => t <= b.at
           first == [r \in P |-> CHOOSE t \in Stamp : IsFirst(r, t)]
           T == {first[r] : r \in P}
           rank == [r \in P |-> Rank(T, first[r])]
           n == MaxMembers - 1
<1>1. /\ \A b \in A : b.at \in Stamp /\ b.at \in Nat /\ b.by \in P
      /\ \A b, d \in A : b.at = d.at => b = d
  BY AcceptedFields
<1>2. \A r \in P : first[r] \in Stamp /\ IsFirst(r, first[r])
  <2> SUFFICES ASSUME NEW r \in P PROVE \E t \in Stamp : IsFirst(r, t)
    OBVIOUS
  <2> DEFINE S == {b.at : b \in {b \in A : b.by = r}}
  <2>1. S \in SUBSET (1 .. MaxStamp) /\ S # {}
    BY <1>1 DEF Stamp
  <2>2. S \in SUBSET Int /\ IsFiniteSet(S)
    BY <2>1, PositionsFinite, BoundAssumption
  <2>3. PICK t \in S : \A d \in S : t <= d
    BY <2>1, <2>2, Smallest
  <2>4. IsFirst(r, t) /\ t \in Stamp
    BY <2>1, <2>3 DEF Stamp
  <2> QED
    BY <2>4
<1> HIDE DEF first
<1>3. \A r \in P : first[r] \in Nat
  BY <1>2 DEF Stamp
<1>4. \A r, s \in P : first[r] = first[s] => r = s
  BY <1>1, <1>2
<1>5. T \in SUBSET Int /\ IsFiniteSet(T)
  <2>1. T \in SUBSET (1 .. MaxStamp)
    BY <1>2 DEF Stamp
  <2> QED
    BY <2>1, PositionsFinite, BoundAssumption
<1>6. P \in SUBSET Person /\ IsFiniteSet(P)
  <2>1. P \in SUBSET Person
    BY AcceptedFields
  <2> QED
    BY <2>1, BoundAssumption, FS_Subset
<1>7. ASSUME NEW r \in P
      PROVE  Cardinality(Before(c, first[r])) = rank[r] - 1 /\ rank[r] \in 1 .. Cardinality(T)
  <2> DEFINE earlier == {s \in P : first[s] < first[r]}
             below == {d \in T : d < first[r]}
             firsts == [s \in earlier |-> first[s]]
  <2>1. Before(c, first[r]) = earlier
    <3>1. \A b \in A : b.at < first[r] => first[b.by] < first[r]
      <4> SUFFICES ASSUME NEW b \in A, b.at < first[r] PROVE first[b.by] < first[r]
        OBVIOUS
      <4>1. first[b.by] <= b.at /\ first[b.by] \in Nat /\ first[r] \in Nat /\ b.at \in Nat
        BY <1>1, <1>2, <1>3
      <4> QED
        BY <4>1
    <3>2. \A s \in P : first[s] < first[r] => \E b \in A : b.by = s /\ b.at < first[r]
      BY <1>2
    <3> QED
      BY <3>1, <3>2 DEF Before
  <2>2. firsts \in Bijection(earlier, below)
    <3>1. firsts \in [earlier -> below]
      OBVIOUS
    <3>2. \A s, u \in earlier : firsts[s] = firsts[u] => s = u
      BY <1>4
    <3>3. \A d \in below : \E s \in earlier : firsts[s] = d
      OBVIOUS
    <3> HIDE DEF firsts, earlier, below
    <3> QED
      BY <3>1, <3>2, <3>3 DEF Bijection, Injection, Surjection, IsInjective
  <2>3. IsFiniteSet(earlier)
    BY <1>6, FS_Subset, earlier \in SUBSET P
  <2>4. Cardinality(earlier) = Cardinality(below)
    <3> HIDE DEF firsts, earlier, below
    <3> QED
      BY <2>2, <2>3, FS_Bijection DEF ExistsBijection
  <2>5. first[r] \in T
    OBVIOUS
  <2>6. Rank(T, first[r]) = Cardinality(below) + 1 /\ Cardinality(below) \in Nat
    <3> HIDE DEF T
    <3> QED
      BY <1>5, <2>5, Smaller
  <2>7. Rank(T, first[r]) \in 1 .. Cardinality(T)
    <3> HIDE DEF T
    <3> QED
      BY <1>5, <2>5, Ranks
  <2> HIDE DEF T, earlier, below
  <2> QED
    BY <2>1, <2>4, <2>6, <2>7
<1>8. n \in Nat /\ Cardinality(T) \in Nat
  <2> HIDE DEF T
  <2> QED
    BY <1>5, FS_CardinalityType, BoundAssumption
<1>9. Placed(c) = {r \in P : rank[r] <= n}
  <2>1. ASSUME NEW b \in A, Cardinality(Before(c, b.at)) < n
        PROVE  rank[b.by] <= n
    <3>1. first[b.by] <= b.at /\ first[b.by] \in Nat /\ b.at \in Nat /\ b.by \in P
      BY <1>1, <1>2, <1>3
    <3>2. /\ Cardinality(Before(c, first[b.by])) <= Cardinality(Before(c, b.at))
          /\ Cardinality(Before(c, b.at)) \in Nat
      BY <3>1, MoreBefore
    <3>3. Cardinality(Before(c, first[b.by])) = rank[b.by] - 1 /\ rank[b.by] \in 1 .. Cardinality(T)
      BY <1>7, <3>1
    <3> HIDE DEF rank, T, n
    <3> QED
      BY <1>8, <2>1, <3>2, <3>3
  <2>2. ASSUME NEW r \in P, rank[r] <= n
        PROVE  \E b \in A : b.by = r /\ Cardinality(Before(c, b.at)) < n
    <3>1. PICK b \in A : b.by = r /\ b.at = first[r]
      BY <1>2
    <3>2. Cardinality(Before(c, first[r])) = rank[r] - 1 /\ rank[r] \in 1 .. Cardinality(T)
      BY <1>7
    <3>3. Cardinality(Before(c, first[r])) < n
      <4> HIDE DEF rank, T, n
      <4> QED
        BY <1>8, <2>2, <3>2
    <3> QED
      BY <3>1, <3>3
  <2> HIDE DEF rank
  <2> QED
    BY <2>1, <2>2 DEF Placed
<1>10. n < Cardinality(T)
  <2>1. a.by \in P /\ ~ (rank[a.by] <= n) /\ rank[a.by] \in 1 .. Cardinality(T)
    <3> HIDE DEF rank, T, n
    <3> QED
      BY <1>7, <1>9
  <2> HIDE DEF rank, T, n
  <2> QED
    BY <1>8, <2>1
<1>11. ASSUME NEW k \in 1 .. n
       PROVE  \E r \in Placed(c) : rank[r] = k
  <2>1. k \in 1 .. Cardinality(T)
    <3> HIDE DEF n, T
    <3> QED
      BY <1>8, <1>10
  <2>2. PICK t \in T : Rank(T, t) = k
    <3> HIDE DEF T
    <3> QED
      BY <1>5, <2>1, Ranked
  <2>3. PICK r \in P : t = first[r]
    BY <2>2
  <2>4. rank[r] = k /\ k <= n
    <3>1. rank[r] = Rank(T, first[r])
      OBVIOUS
    <3> HIDE DEF T, rank, n
    <3> QED
      BY <1>8, <2>2, <2>3, <3>1
  <2> HIDE DEF rank, n
  <2> QED
    BY <1>9, <2>4
<1>12. \A r, s \in P : rank[r] = rank[s] => r = s
  <2> SUFFICES ASSUME NEW r \in P, NEW s \in P, r # s PROVE rank[r] # rank[s]
    OBVIOUS
  <2>1. first[r] \in T /\ first[s] \in T /\ first[r] # first[s]
    BY <1>4
  <2>2. first[r] < first[s] \/ first[s] < first[r]
    BY <1>3, <2>1
  <2>3. Rank(T, first[r]) < Rank(T, first[s]) \/ Rank(T, first[s]) < Rank(T, first[r])
    <3> HIDE DEF T
    <3> QED
      BY <1>5, <2>1, <2>2, Ranks
  <2>4. rank[r] \in 1 .. Cardinality(T) /\ rank[s] \in 1 .. Cardinality(T)
    BY <1>7
  <2>5. rank[r] = Rank(T, first[r]) /\ rank[s] = Rank(T, first[s])
    OBVIOUS
  <2> HIDE DEF rank, T
  <2> QED
    BY <1>8, <2>3, <2>4, <2>5
<1>13. Placed(c) \in SUBSET P /\ IsFiniteSet(Placed(c))
  <2> HIDE DEF P
  <2>1. Placed(c) \in SUBSET P
    BY <1>9
  <2> QED
    BY <1>6, <2>1, FS_Subset
<1> DEFINE place == [r \in Placed(c) |-> rank[r]]
<1>14. place \in Bijection(Placed(c), 1 .. n)
  <2>1. \A r \in Placed(c) : rank[r] \in 1 .. n
    <3> HIDE DEF rank, n, T
    <3> QED
      BY <1>7, <1>8, <1>9
  <2> HIDE DEF rank, n
  <2>2. place \in [Placed(c) -> 1 .. n]
    BY <2>1
  <2>3. \A r, s \in Placed(c) : place[r] = place[s] => r = s
    BY <1>12, <1>13
  <2>4. \A k \in 1 .. n : \E r \in Placed(c) : place[r] = k
    BY <1>11
  <2> HIDE DEF place
  <2> QED
    BY <2>2, <2>3, <2>4 DEF Bijection, Injection, Surjection, IsInjective
<1>15. Cardinality(Placed(c)) = Cardinality(1 .. n)
  <2> HIDE DEF place, n, rank
  <2> QED
    BY <1>13, <1>14, FS_Bijection DEF ExistsBijection
<1> HIDE DEF n
<1>16. Cardinality(Placed(c)) = n
  BY <1>8, <1>15, NumbersCounted
<1> QED
  BY <1>13, <1>16 DEF n

\* So a board with room has a place for everybody who accepted.
LEMMA FullBoard ==
  ASSUME NEW c, Sound(c), Managed(c), NEW a \in Accepted(c), a.by \notin Members(c)
  PROVE  Cardinality(Members(c)) = MaxMembers
<1>1. Members(c) = Placed(c) \cup {Creator} /\ a.by \notin Placed(c)
  BY MembersArePlaced
<1>2. IsFiniteSet(Placed(c)) /\ Cardinality(Placed(c)) = MaxMembers - 1
  BY <1>1, Full
<1>3. Creator \notin Placed(c)
  BY AcceptedFields DEF Placed
<1>4. Cardinality(Placed(c) \cup {Creator}) = Cardinality(Placed(c)) + 1
  BY <1>2, <1>3, FS_AddElement
<1> HIDE DEF Placed
<1> QED
  BY <1>1, <1>2, <1>4, BoundAssumption

\* More acceptances cost somebody the place only on a full board, and only those
\* who accepted after everybody who has one.
LEMMA LateOnesGo ==
  ASSUME NEW d, Sound(d), NEW c \in SUBSET d, Managed(c),
         NEW q \in Members(c), q \notin Members(d)
  PROVE  /\ Cardinality(Members(d)) = MaxMembers
         /\ \A r \in Members(d) \ {Creator} :
              \E a \in Acceptances(d) :
                 /\ a.by = r
                 /\ \A b \in Acceptances(d) : b.by = q => a.at < b.at
<1>1. Sound(c) /\ Managed(d)
  BY PartSound DEF Managed, Of
<1>2. /\ Members(c) = {Creator} \cup Placed(c) /\ Members(d) = {Creator} \cup Placed(d)
      /\ Acceptances(d) = Accepted(d)
  BY <1>1, MembersArePlaced, AcceptedOnes
<1>3. PICK a \in Accepted(c) : a.by = q
  BY <1>2 DEF Placed
<1>4. a \in Accepted(d)
  BY AcceptedFields
<1>5. Cardinality(Members(d)) = MaxMembers
  BY <1>1, <1>3, <1>4, FullBoard
<1>6. ASSUME NEW r \in Members(d) \ {Creator}
      PROVE  \E x \in Accepted(d) : x.by = r /\ \A b \in Accepted(d) : b.by = q => x.at < b.at
  <2>1. PICK x \in Accepted(d) : x.by = r /\ Cardinality(Before(d, x.at)) < MaxMembers - 1
    BY <1>2 DEF Placed
  <2>2. ASSUME NEW b \in Accepted(d), b.by = q
        PROVE  x.at < b.at
    <3>1. x.at \in Nat /\ b.at \in Nat
      BY AcceptedFields
    <3>2. ~ (Cardinality(Before(d, b.at)) < MaxMembers - 1)
      BY <1>2, <2>2 DEF Placed
    <3>3. b.at <= x.at => Cardinality(Before(d, b.at)) <= Cardinality(Before(d, x.at))
      BY <3>1, MoreBefore
    <3>4. Cardinality(Before(d, b.at)) \in Nat /\ Cardinality(Before(d, x.at)) \in Nat
      BY <3>1, MoreBefore
    <3> QED
      BY <2>1, <3>1, <3>2, <3>3, <3>4, BoundAssumption
  <2> QED
    BY <2>1, <2>2
<1> QED
  BY <1>2, <1>5, <1>6

-----------------------------------------------------------------------------
(* The inductive invariant *)

\* What all phones together know of the board.
Everything == UNION {cache[q] : q \in Person}

\* The types of the variables.
TypeInv ==
  /\ cache \in [Person -> SUBSET Event]
  /\ open \in [Person -> BOOLEAN] /\ listed \in [Person -> BOOLEAN]
  /\ board \in [Person -> SUBSET Event]

\* Every phone has its own events, and all events together make sense.
EventsInv ==
  /\ Sound(Everything)
  /\ \A p \in Person : \A e \in cache[p] : e \in cache[e.by]

\* A phone shows only boards it was told about, and on them only drawings of
\* the creator and of people whose acceptance it has.
BoardInv ==
  \A p \in Person :
    /\ open[p] \/ listed[p] \/ board[p] # {} => Managed(cache[p])
    /\ \A e \in board[p] :
         e.by = Creator \/ \E answer \in Of(cache[p], {"wa"}) : answer.by = e.by

\* The inductive invariant.
IInv == TypeInv /\ EventsInv /\ BoardInv

\* Each phone's part of the events.
LEMMA Parts ==
  ASSUME IInv, NEW p \in Person
  PROVE  Sound(cache[p]) /\ cache[p] \in SUBSET Everything
<1>1. cache[p] \in SUBSET Everything
  BY DEF Everything
<1> QED
  BY <1>1, PartSound DEF IInv, EventsInv

\* A new event is stored at the phone that publishes it.
LEMMA Published ==
  ASSUME IInv, NEW p \in Person, NEW e \in Event, Store(p, e)
  PROVE  /\ cache' \in [Person -> SUBSET Event]
         /\ cache'[p] = cache[p] \cup {e}
         /\ \A q \in Person : q # p => cache'[q] = cache[q]
         /\ Everything' = Everything \cup {e}
<1>1. cache \in [Person -> SUBSET Event]
  BY DEF IInv, TypeInv
<1>2. /\ cache' \in [Person -> SUBSET Event]
      /\ cache'[p] = cache[p] \cup {e}
      /\ \A q \in Person : q # p => cache'[q] = cache[q]
  BY <1>1 DEF Store
<1>3. \A q \in Person : cache'[q] \subseteq Everything \cup {e}
  BY <1>2 DEF Everything
<1>4. \A q \in Person : cache[q] \subseteq cache'[q]
  BY <1>2
<1>5. Everything \cup {e} \subseteq Everything'
  BY <1>2, <1>4 DEF Everything
<1>6. Everything' \subseteq Everything \cup {e}
  BY <1>3 DEF Everything
<1> QED
  BY <1>2, <1>5, <1>6

\* What the clock of p may give.
LEMMA ClockIsNew ==
  ASSUME NEW p, NEW at \in Clock(p)
  PROVE  /\ at \in Stamp /\ at \in Nat /\ at # 0 /\ at \in 1 .. MaxStamp
         /\ \A e \in Everything : e.at # at /\ (e.by = p => e.at < at)
BY DEF Clock, Everything, Stamp

-----------------------------------------------------------------------------
(* New events *)

\* An invitation goes to somebody else than the creator, and it counts.
LEMMA InviteSound ==
  ASSUME IInv, NEW p \in Person, NEW q \in Person, NEW at \in Clock(p),
         NEW e, e = [k |-> "wi", by |-> p, at |-> at, of |-> q],
         q \in Offered(p), Counts(Invitations(cache[p]), e)
  PROVE  e \in Event /\ Sound(Everything \cup {e})
<1> DEFINE W == Everything
           c == cache[p]
<1>1. /\ at \in Stamp /\ at \in Nat /\ at # 0
      /\ \A f \in W : f.at # at /\ (f.by = p => f.at < at)
  BY ClockIsNew
<1>2. e \in Event
  BY <1>1 DEF Event
<1>3. /\ Managed(c) /\ Sound(c) /\ Sound(W) /\ OwnerOf(c) = p /\ q \notin Members(c)
      /\ c \in SUBSET W
  BY Parts DEF Offered, IInv, EventsInv
<1>4. p = Creator /\ q # Creator /\ Invitations(c) = Invites(c)
  BY <1>3, AllCount, MembersArePlaced
<1>5. Invites(c) = Invites(W)
  <2>1. \A i \in Invites(W) : i.by = Creator /\ i \in W
    BY <1>3 DEF Sound, Invites, Of
  <2>2. \A i \in Invites(W) : i \in cache[Creator]
    BY <2>1 DEF Everything, IInv, EventsInv
  <2> QED
    BY <1>3, <1>4, <2>2 DEF Invites, Of
<1>6. /\ e.k = "wi" /\ e.by = Creator /\ e.of = q /\ e.at = at
      /\ Counts(Invites(W), e)
  BY <1>4, <1>5
<1>7. /\ Invites(W \cup {e}) = Invites(W) \cup {e} /\ Answers(W \cup {e}) = Answers(W)
      /\ Of(W \cup {e}, {"wc"}) = Of(W, {"wc"})
  BY <1>6 DEF Invites, Answers, Of
<1>8. \A i \in Invites(W) : i.at < at /\ i.at \in Nat /\ i.by = Creator /\ i.of # Creator
  <2>1. \A i \in Invites(W) : i \in W /\ i \in Event /\ i.by = Creator /\ i.of # Creator
    BY <1>3 DEF Sound, Invites, Of
  <2> QED
    BY <1>1, <1>4, <2>1, EventFields
<1> HIDE DEF W, c
<1>9. Cardinality(Invitees(Invites(W \cup {e}))) <= MaxInvites
  <2> DEFINE Q == Invitees(Invites(W))
  <2>1. Invites(W) \in SUBSET Event /\ W \in SUBSET Event
    BY <1>3 DEF Sound, Invites, Of
  <2>2. IsFiniteSet(Q)
    BY <2>1, InviteesFinite
  <2>3. Invitees(Invites(W \cup {e})) = Q \cup {q}
    BY <1>6, <1>7 DEF Invitees
  <2>4. CASE q \in Q
    <3>1. Q \cup {q} = Q
      BY <2>4
    <3> QED
      BY <1>3, <2>3, <3>1 DEF Sound
  <2>5. CASE q \notin Q
    <3>1. LatestFor(Invites(W), q) = {}
      BY <2>1, <2>5, LastForThere
    <3>2. Cardinality(Q) < MaxInvites
      BY <1>6, <3>1 DEF Counts, Invitees
    <3> HIDE DEF Q
    <3>3. Cardinality(Q \cup {q}) = Cardinality(Q) + 1 /\ Cardinality(Q) \in Nat
      BY <2>2, <2>5, FS_AddElement, FS_CardinalityType
    <3>4. Cardinality(Q) + 1 <= MaxInvites
      BY <3>2, <3>3, BoundAssumption
    <3> QED
      BY <2>3, <3>3, <3>4
  <2> QED
    BY <2>4, <2>5
<1>10. ASSUME NEW f \in Invites(W \cup {e})
       PROVE  Counts({i \in Invites(W \cup {e}) : i.at < f.at}, f)
  <2>1. CASE f = e
    <3>1. {i \in Invites(W \cup {e}) : i.at < f.at} = Invites(W)
      <4>1. f.at = at /\ e.at = at /\ ~ (at < at)
        BY <1>1, <1>6, <2>1
      <4>2. \A i \in Invites(W) : i.at < f.at
        BY <1>8, <4>1
      <4> QED
        BY <1>7, <4>1, <4>2
    <3> QED
      BY <1>6, <2>1, <3>1
  <2>2. CASE f \in Invites(W)
    <3>1. f.at < at /\ f.at \in Nat
      BY <1>8, <2>2
    <3>2. {i \in Invites(W \cup {e}) : i.at < f.at} = {i \in Invites(W) : i.at < f.at}
      <4>1. ~ (e.at < f.at)
        BY <1>1, <1>6, <3>1
      <4> QED
        BY <1>7, <4>1
    <3> QED
      BY <1>3, <2>2, <3>2 DEF Sound
  <2> QED
    BY <1>7, <2>1, <2>2
<1>11. \A f, g \in W \cup {e} : f.at = g.at /\ f.at # 0 => f = g
  BY <1>1, <1>3, <1>6 DEF Sound, W
<1>12. \A i \in Invites(W \cup {e}) : i.by = Creator /\ i.of # Creator
  BY <1>4, <1>6, <1>7, <1>8
<1>13. W \cup {e} \subseteq Event
  BY <1>2, <1>3 DEF Sound
<1> QED
  BY <1>2, <1>3, <1>7, <1>9, <1>10, <1>11, <1>12, <1>13 DEF Sound, W

\* An answer is the only one its author gave to the invitation.
LEMMA AnswerSound ==
  ASSUME IInv, NEW p \in Person, NEW at \in Clock(p), NEW i \in Pending(p), NEW k \in {"wa", "wd"},
         NEW e, e = [k |-> k, by |-> p, at |-> at, of |-> i.at]
  PROVE  e \in Event /\ Sound(Everything \cup {e}) /\ Managed(cache[p])
<1> DEFINE W == Everything
           c == cache[p]
<1>1. /\ at \in Stamp /\ at \in Nat /\ at # 0
      /\ \A f \in W : f.at # at /\ (f.by = p => f.at < at)
  BY ClockIsNew
<1>2. Managed(c) /\ Sound(c) /\ Sound(W)
  BY Parts DEF Pending, IInv, EventsInv
<1>3. i \in Invites(c) /\ i.of = p /\ Response(c, i) = {}
  BY <1>2, AllCount DEF Pending, LatestFor, Latest
<1>4. i \in Event /\ i.k = "wi"
  BY <1>2, <1>3 DEF Sound, Invites, Of
<1>5. i.at \in Stamp
  BY <1>4, EventFields
<1>6. e \in Event
  BY <1>1, <1>5 DEF Event
<1>7. e.k = k /\ e.by = p /\ e.of = i.at /\ e.at = at
  OBVIOUS
<1>8. \A f \in Answers(W) : f.of = i.at /\ f.by = p => FALSE
  <2>1. \A f \in Answers(W) : f.by = p => f \in Answers(c)
    BY DEF Everything, IInv, EventsInv, Answers, Of
  <2>2. {f \in Answers(c) : f.of = i.at /\ f.by = p} = {}
    BY <1>2, <1>3, OneAnswer
  <2> QED
    BY <2>1, <2>2
<1>9. /\ Invites(W \cup {e}) = Invites(W) /\ Answers(W \cup {e}) = Answers(W) \cup {e}
      /\ Of(W \cup {e}, {"wc"}) = Of(W, {"wc"})
  BY <1>7 DEF Invites, Answers, Of
<1> HIDE DEF W, c
<1>10. \A f, g \in Answers(W \cup {e}) : f.of = g.of /\ f.by = g.by => f = g
  <2>1. \A f, g \in Answers(W) : f.of = g.of /\ f.by = g.by => f = g
    BY <1>2 DEF Sound
  <2>2. \A f \in Answers(W) : ~ (f.of = e.of /\ f.by = e.by)
    BY <1>7, <1>8
  <2> QED
    BY <1>9, <2>1, <2>2
<1>11. \A f, g \in W \cup {e} : f.at = g.at /\ f.at # 0 => f = g
  BY <1>1, <1>2, <1>7 DEF Sound
<1>12. W \cup {e} \subseteq Event
  BY <1>2, <1>6 DEF Sound
<1> QED
  BY <1>2, <1>6, <1>9, <1>10, <1>11, <1>12 DEF Sound, W, c

\* A drawing changes nothing of who may draw.
LEMMA DrawingSound ==
  ASSUME NEW w, Sound(w), NEW e \in Event, e.k = "s"
  PROVE  Sound(w \cup {e})
<1>1. /\ Invites(w \cup {e}) = Invites(w) /\ Answers(w \cup {e}) = Answers(w)
      /\ Of(w \cup {e}, {"wc"}) = Of(w, {"wc"})
  BY DEF Invites, Answers, Of
<1>2. e.at = 0
  BY EventFields
<1>3. \A f, g \in w \cup {e} : f.at = g.at /\ f.at # 0 => f = g
  BY <1>2 DEF Sound
<1> QED
  BY <1>1, <1>3 DEF Sound

\* The first event creates the board.
LEMMA CreateSound == Wc \in Event /\ Sound({Wc})
<1>1. Wc \in Event /\ Wc.k = "wc" /\ Wc.at = 0
  BY CreatorAssumption DEF Event, Wc
<1>2. Invites({Wc}) = {} /\ Answers({Wc}) = {}
  BY <1>1 DEF Invites, Answers, Of
<1>3. Invitees({}) = {} /\ Cardinality({}) = 0
  BY FS_EmptySet DEF Invitees
<1>4. Cardinality(Invitees(Invites({Wc}))) <= MaxInvites
  BY <1>2, <1>3, BoundAssumption
<1>5. \A e \in Of({Wc}, {"wc"}) : e = Wc
  BY DEF Of
<1> QED
  BY <1>1, <1>2, <1>4, <1>5 DEF Sound

-----------------------------------------------------------------------------
(* Steps *)

\* What a phone does with an event that is new to it.
Changed(p, e) == e.k # "s" /\ AfterChange(p, e)
Activated(p, e) == e.k \in {"wc", "wa"} /\ Managed(cache[p] \cup {e}) /\ Activate(p, e)
Painted(p, e) ==
  /\ e.k = "s"
  /\ board' = IF open[p] /\ CanEdit(cache[p], e.by)
              THEN [board EXCEPT ![p] = @ \cup {e}] ELSE board
  /\ UNCHANGED <<open, listed>>

\* A step makes one event known to one phone, or opens or closes a board.
LEMMA StepForms ==
  ASSUME IInv, Next
  PROVE  \E p \in Person :
           \/ OpenSaved(p)
           \/ Leave(p)
           \/ \E e \in Event :
                /\ Store(p, e) /\ Sound(Everything \cup {e}) /\ (e.by = p \/ e \in Everything)
                /\ Changed(p, e) \/ Activated(p, e) \/ Painted(p, e)
<1>1. CASE Create
  <2>1. Store(Creator, Wc) /\ Activate(Creator, Wc) /\ \A q \in Person : cache[q] = {}
    BY <1>1 DEF Create, Wc
  <2>2. Everything \cup {Wc} = {Wc}
    BY <2>1 DEF Everything
  <2>3. Wc.k = "wc" /\ Wc.by = Creator
    BY DEF Wc
  <2>4. Managed(cache[Creator] \cup {Wc})
    BY <2>3 DEF Managed, Of
  <2> QED
    BY <2>1, <2>2, <2>3, <2>4, CreateSound, CreatorAssumption DEF Activated
<1>2. ASSUME NEW p \in Person, NEW at \in Clock(p), NEW q \in Person, Invite(p, q, at)
      PROVE  \E e \in Event :
                /\ Store(p, e) /\ Sound(Everything \cup {e}) /\ (e.by = p \/ e \in Everything)
                /\ Changed(p, e)
  <2> DEFINE e == [k |-> "wi", by |-> p, at |-> at, of |-> q]
  <2>1. /\ q \in Offered(p) /\ Counts(Invitations(cache[p]), e)
        /\ Store(p, e) /\ AfterChange(p, e)
    BY <1>2 DEF Invite
  <2>2. e \in Event /\ Sound(Everything \cup {e})
    BY <2>1, InviteSound
  <2>3. e.k = "wi" /\ e.by = p
    OBVIOUS
  <2> HIDE DEF e
  <2> QED
    BY <2>1, <2>2, <2>3 DEF Changed
<1>3. ASSUME NEW p \in Person, NEW at \in Clock(p), NEW i \in Pending(p), Accept(p, i, at)
      PROVE  \E e \in Event :
                /\ Store(p, e) /\ Sound(Everything \cup {e}) /\ (e.by = p \/ e \in Everything)
                /\ Activated(p, e)
  <2> DEFINE e == [k |-> "wa", by |-> p, at |-> at, of |-> i.at]
  <2>1. Store(p, e) /\ Activate(p, e)
    BY <1>3 DEF Accept
  <2>2. e \in Event /\ Sound(Everything \cup {e}) /\ Managed(cache[p])
    BY AnswerSound
  <2>3. e.k = "wa" /\ e.by = p
    OBVIOUS
  <2> HIDE DEF e
  <2>4. Managed(cache[p] \cup {e})
    BY <2>2 DEF Managed, Of
  <2> QED
    BY <2>1, <2>2, <2>3, <2>4 DEF Activated
<1>4. ASSUME NEW p \in Person, NEW at \in Clock(p), NEW i \in Pending(p), Decline(p, i, at)
      PROVE  \E e \in Event :
                /\ Store(p, e) /\ Sound(Everything \cup {e}) /\ (e.by = p \/ e \in Everything)
                /\ Changed(p, e)
  <2> DEFINE e == [k |-> "wd", by |-> p, at |-> at, of |-> i.at]
  <2>1. Store(p, e) /\ AfterChange(p, e)
    BY <1>4 DEF Decline
  <2>2. e \in Event /\ Sound(Everything \cup {e})
    BY AnswerSound
  <2>3. e.k = "wd" /\ e.by = p
    OBVIOUS
  <2> HIDE DEF e
  <2> QED
    BY <2>1, <2>2, <2>3 DEF Changed
<1>5. ASSUME NEW p \in Person, Draw(p)
      PROVE  \E e \in Event :
                /\ Store(p, e) /\ Sound(Everything \cup {e}) /\ (e.by = p \/ e \in Everything)
                /\ Painted(p, e)
  <2> DEFINE e == [k |-> "s", by |-> p, at |-> 0, of |-> None]
  <2>1. /\ Store(p, e) /\ open[p] /\ CanEdit(cache[p], p)
        /\ board' = [board EXCEPT ![p] = @ \cup {e}] /\ UNCHANGED <<open, listed>>
    BY <1>5 DEF Draw
  <2>2. e \in Event /\ e.k = "s" /\ e.by = p
    BY DEF Event
  <2> HIDE DEF e
  <2>3. Sound(Everything \cup {e})
    BY <2>2, DrawingSound DEF IInv, EventsInv
  <2> QED
    BY <2>1, <2>2, <2>3 DEF Painted
<1>6. ASSUME NEW p \in Person, NEW e \in Everything, NewEvent(p, e)
      PROVE  /\ e \in Event /\ Store(p, e) /\ Sound(Everything \cup {e})
             /\ Changed(p, e) \/ Painted(p, e)
  <2>1. Everything \cup {e} = Everything /\ Sound(Everything)
    BY DEF IInv, EventsInv
  <2>2. e \in Event
    BY <2>1 DEF Sound
  <2>3. Sound(Everything \cup {e})
    BY <2>1
  <2> QED
    BY <1>6, <2>2, <2>3 DEF NewEvent, Changed, Painted
<1>7. CASE \E p \in Person : Step(p)
  <2>1. PICK p \in Person : Step(p)
    BY <1>7
  <2>2. CASE \E at \in Clock(p) : \E q \in Person : Invite(p, q, at)
    BY <1>2, <2>2
  <2>3. CASE \E at \in Clock(p) : AcceptInvite(p, at) \/ JoinBoard(p, at)
    BY <1>3, <2>3 DEF AcceptInvite, JoinBoard, Received
  <2>4. CASE \E at \in Clock(p) : \E i \in Pending(p) : Decline(p, i, at)
    BY <1>4, <2>4
  <2>5. CASE Draw(p)
    BY <1>5, <2>5
  <2>6. CASE \E e \in Everything : NewEvent(p, e)
    BY <1>6, <2>6
  <2>7. CASE OpenSaved(p) \/ Leave(p)
    BY <2>7
  <2> QED
    BY <2>1, <2>2, <2>3, <2>4, <2>5, <2>6, <2>7 DEF Step, Everything
<1> QED
  BY <1>1, <1>7 DEF Next

\* What is drawn is by the creator or by people who accepted.
LEMMA DrawnOnes ==
  ASSUME NEW c, Sound(c), Managed(c)
  PROVE  /\ Drawn(c) \in SUBSET c
         /\ \A e \in Drawn(c) :
              e.by = Creator \/ \E answer \in Of(c, {"wa"}) : answer.by = e.by
<1>1. Members(c) = {Creator} \cup Placed(c)
  BY MembersArePlaced
<1>2. \A e \in Drawn(c) : e \in c /\ e.by \in Members(c)
  BY DEF Drawn, CanEdit, Of
<1>3. \A q \in Placed(c) : \E answer \in Of(c, {"wa"}) : answer.by = q
  BY DEF Placed, Accepted
<1> QED
  BY <1>1, <1>2, <1>3

\* Events that are neither invitations nor acceptances leave the editors alone.
LEMMA SameEditors ==
  ASSUME NEW c, NEW e, Sound(c \cup {e}), Managed(c), Accepted(c \cup {e}) = Accepted(c)
  PROVE  Sound(c) /\ Managed(c \cup {e}) /\ Members(c \cup {e}) = Members(c)
<1>1. Sound(c) /\ Managed(c \cup {e})
  BY PartSound DEF Managed, Of
<1>2. Placed(c \cup {e}) = Placed(c)
  BY DEF Placed, Before
<1> QED
  BY <1>1, <1>2, MembersArePlaced

\* Only an acceptance, or the invitation it answers, adds to the acceptances.
LEMMA SameAcceptances ==
  ASSUME NEW c, NEW e, Sound(c \cup {e}), e.k # "wa",
         e.k = "wi" => ~ \E answer \in Of(c, {"wa"}) : answer.of = e.at
  PROVE  Accepted(c \cup {e}) = Accepted(c)
<1>1. Of(c \cup {e}, {"wa"}) = Of(c, {"wa"})
  BY DEF Of
<1>2. /\ e.k = "wi" => Invites(c \cup {e}) = Invites(c) \cup {e}
      /\ e.k # "wi" => Invites(c \cup {e}) = Invites(c)
  BY DEF Invites, Of
<1> QED
  BY <1>1, <1>2 DEF Accepted

-----------------------------------------------------------------------------
(* The invariant is inductive *)

\* Before a board is created there is nothing to be wrong.
LEMMA InitInv == Init => IInv
<1> SUFFICES ASSUME Init PROVE IInv
  OBVIOUS
<1>1. TypeInv /\ BoardInv /\ Everything = {}
  BY DEF Init, TypeInv, BoardInv, Everything
<1>2. Sound({})
  <2>1. Sound({Wc})
    BY CreateSound
  <2> QED
    BY <2>1, PartSound, {} \in SUBSET {Wc}
<1>3. \A p \in Person : cache[p] = {}
  BY DEF Init
<1> QED
  BY <1>1, <1>2, <1>3 DEF IInv, EventsInv

\* What a step leaves of the boards.
LEMMA BoardStep ==
  ASSUME IInv, NEW p \in Person, NEW e \in Event, Store(p, e), Sound(Everything \cup {e}),
         Changed(p, e) \/ Activated(p, e) \/ Painted(p, e)
  PROVE  /\ open' \in [Person -> BOOLEAN] /\ listed' \in [Person -> BOOLEAN]
         /\ board' \in [Person -> SUBSET Event]
         /\ \A q \in Person : q # p => open'[q] = open[q] /\ listed'[q] = listed[q]
                                       /\ board'[q] = board[q]
         /\ open'[p] \/ listed'[p] \/ board'[p] # {} => Managed(cache'[p])
         /\ Sound(cache'[p])
         /\ board'[p] \in SUBSET (board[p] \cup Drawn(cache'[p]))
<1> DEFINE c == cache[p] \cup {e}
<1>1. cache'[p] = c /\ Sound(c) /\ Sound(cache[p])
  <2>1. cache'[p] = c /\ c \in SUBSET (Everything \cup {e})
    BY Published, Parts
  <2> QED
    BY <2>1, PartSound
<1>2. /\ open \in [Person -> BOOLEAN] /\ listed \in [Person -> BOOLEAN]
      /\ board \in [Person -> SUBSET Event]
      /\ open[p] \/ listed[p] \/ board[p] # {} => Managed(cache[p])
  BY DEF IInv, TypeInv, BoardInv
<1>3. Managed(cache[p]) => Managed(c)
  BY DEF Managed, Of
<1>4. Drawn(c) \in SUBSET Event
  BY <1>1 DEF Drawn, Sound, Of
<1>5. CASE Changed(p, e)
  <2> DEFINE displaced == open[p] /\ HasAcceptance(c, p) /\ p \notin Members(c)
             b == CASE displaced -> {}
                    [] open[p] /\ e.k = "wa" -> Drawn(c)
                    [] OTHER -> board[p]
  <2>1. /\ open' = [open EXCEPT ![p] = @ /\ ~displaced]
        /\ listed' = [listed EXCEPT ![p] = @ /\ ~displaced]
        /\ board' = [board EXCEPT ![p] = b]
    BY <1>5 DEF Changed, AfterChange
  <2>2. displaced \in BOOLEAN
    BY <1>2
  <2>3. b = {} \/ b = board[p] \/ (open[p] /\ b = Drawn(c))
    OBVIOUS
  <2> HIDE DEF displaced, b, c
  <2> QED
    BY <1>1, <1>2, <1>3, <1>4, <2>1, <2>2, <2>3
<1>6. CASE Activated(p, e)
  <2>1. /\ open' = [open EXCEPT ![p] = TRUE] /\ listed' = [listed EXCEPT ![p] = TRUE]
        /\ board' = [board EXCEPT ![p] = Drawn(c)] /\ Managed(c)
    BY <1>6 DEF Activated, Activate
  <2> HIDE DEF c
  <2> QED
    BY <1>1, <1>2, <1>4, <2>1
<1>7. CASE Painted(p, e)
  <2>1. /\ UNCHANGED <<open, listed>> /\ e.k = "s"
        /\ board' = IF open[p] /\ CanEdit(cache[p], e.by)
                    THEN [board EXCEPT ![p] = @ \cup {e}] ELSE board
    BY <1>7 DEF Painted
  <2>2. CASE open[p] /\ CanEdit(cache[p], e.by)
    <3>1. e \in Drawn(c)
      <4>1. Accepted(c) = Accepted(cache[p])
        BY <1>1, <2>1, SameAcceptances
      <4>2. Members(c) = Members(cache[p]) /\ Managed(cache[p]) /\ Managed(c)
        BY <1>1, <1>2, <2>2, <4>1, SameEditors
      <4> QED
        BY <2>1, <2>2, <4>2 DEF Drawn, CanEdit, Of
    <3> HIDE DEF c
    <3> QED
      BY <1>1, <1>2, <1>3, <2>1, <2>2, <3>1
  <2>3. CASE ~ (open[p] /\ CanEdit(cache[p], e.by))
    <3> HIDE DEF c
    <3> QED
      BY <1>1, <1>2, <1>3, <2>1, <2>3
  <2> QED
    BY <2>2, <2>3
<1> QED
  BY <1>5, <1>6, <1>7

\* Every step keeps the invariant.
LEMMA InvKept == IInv /\ [Next]_vars => IInv'
<1> SUFFICES ASSUME IInv, [Next]_vars PROVE IInv'
  OBVIOUS
<1>1. CASE UNCHANGED vars
  BY <1>1 DEF vars, IInv, TypeInv, EventsInv, BoardInv, Everything
<1>2. CASE Next
  <2>1. PICK p \in Person :
           \/ OpenSaved(p)
           \/ Leave(p)
           \/ \E e \in Event :
                /\ Store(p, e) /\ Sound(Everything \cup {e}) /\ (e.by = p \/ e \in Everything)
                /\ Changed(p, e) \/ Activated(p, e) \/ Painted(p, e)
    BY <1>2, StepForms
  <2>2. CASE OpenSaved(p) \/ Leave(p)
    <3>1. UNCHANGED <<cache, listed>> /\ EventsInv'
      <4>1. UNCHANGED <<cache, listed>>
        BY <2>2 DEF OpenSaved, Leave
      <4>2. Everything' = Everything
        BY <4>1 DEF Everything
      <4>3. EventsInv
        BY DEF IInv
      <4> QED
        BY <4>1, <4>2, <4>3 DEF EventsInv
    <3>2. /\ \A q \in Person : q # p => open'[q] = open[q] /\ board'[q] = board[q]
          /\ open' \in [Person -> BOOLEAN] /\ board' \in [Person -> SUBSET Event]
          /\ board'[p] \in SUBSET (board[p] \cup Drawn(cache[p]))
          /\ open'[p] \/ board'[p] # {} => Managed(cache[p])
      <4>1. /\ open \in [Person -> BOOLEAN] /\ board \in [Person -> SUBSET Event]
            /\ open[p] \/ listed[p] \/ board[p] # {} => Managed(cache[p])
        BY DEF IInv, TypeInv, BoardInv
      <4>2. Drawn(cache[p]) \in SUBSET Event
        BY DEF IInv, TypeInv, Drawn, Of
      <4>3. CASE Leave(p)
        BY <4>1, <4>3 DEF Leave
      <4>4. CASE OpenSaved(p)
        <5> DEFINE d == Drawn(cache[p])
        <5>1. /\ open' = [open EXCEPT ![p] = TRUE] /\ board' = [board EXCEPT ![p] = @ \cup d]
              /\ listed[p]
          BY <4>4 DEF OpenSaved
        <5> HIDE DEF d
        <5> QED
          BY <4>1, <4>2, <5>1 DEF d
      <4> QED
        BY <2>2, <4>3, <4>4
    <3>3. \A q \in Person : (\A x \in board'[q] : x \in board[q]) \/ q = p
      BY <3>2
    <3>4. board'[p] # {} => Managed(cache[p]) /\ Sound(cache[p])
      BY <3>2, Parts
    <3>5. BoardInv'
      BY <3>1, <3>2, <3>4, DrawnOnes DEF IInv, BoardInv
    <3> QED
      BY <3>1, <3>2, <3>5 DEF IInv, TypeInv
  <2>3. ASSUME NEW e \in Event, Store(p, e), Sound(Everything \cup {e}), e.by = p \/ e \in Everything,
               Changed(p, e) \/ Activated(p, e) \/ Painted(p, e)
        PROVE  IInv'
    <3>1. /\ cache' \in [Person -> SUBSET Event]
          /\ cache'[p] = cache[p] \cup {e}
          /\ \A q \in Person : q # p => cache'[q] = cache[q]
          /\ Everything' = Everything \cup {e}
      BY <2>3, Published
    <3>2. /\ open' \in [Person -> BOOLEAN] /\ listed' \in [Person -> BOOLEAN]
          /\ board' \in [Person -> SUBSET Event]
          /\ \A q \in Person : q # p => open'[q] = open[q] /\ listed'[q] = listed[q]
                                        /\ board'[q] = board[q]
          /\ open'[p] \/ listed'[p] \/ board'[p] # {} => Managed(cache'[p])
          /\ Sound(cache'[p])
          /\ board'[p] \in SUBSET (board[p] \cup Drawn(cache'[p]))
      BY <2>3, BoardStep
    <3>3. EventsInv'
      <4>1. \A q \in Person : cache[q] \subseteq cache'[q]
        BY <3>1
      <4>2. e \in cache'[e.by]
        <5>1. e \in Everything => e \in cache[e.by]
          BY DEF Everything, IInv, EventsInv
        <5>2. e.by \in Person
          BY <2>3, EventFields
        <5> QED
          BY <2>3, <3>1, <4>1, <5>1, <5>2
      <4>3. ASSUME NEW q \in Person, NEW f \in cache'[q] PROVE f \in cache'[f.by]
        <5>1. f = e \/ f \in cache[q]
          BY <3>1
        <5>2. CASE f \in cache[q]
          <6>1. f \in cache[f.by] /\ f \in Event
            BY <5>2 DEF IInv, EventsInv, TypeInv
          <6>2. f.by \in Person
            BY <6>1, EventFields
          <6> QED
            BY <4>1, <6>1, <6>2
        <5> QED
          BY <4>2, <5>1, <5>2
      <4>4. Sound(Everything')
        BY <2>3, <3>1
      <4> QED
        BY <4>3, <4>4 DEF EventsInv
    <3>4. BoardInv'
      <4>1. ASSUME NEW x \in board'[p]
            PROVE  x.by = Creator \/ \E answer \in Of(cache'[p], {"wa"}) : answer.by = x.by
        <5>1. CASE x \in board[p]
          <6>1. Of(cache[p], {"wa"}) \in SUBSET Of(cache'[p], {"wa"})
            BY <3>1 DEF Of
          <6> QED
            BY <5>1, <6>1 DEF IInv, BoardInv
        <5>2. CASE x \in Drawn(cache'[p])
          BY <3>2, <5>2, DrawnOnes
        <5> QED
          BY <3>2, <5>1, <5>2
      <4>2. ASSUME NEW q \in Person, q # p
            PROVE  /\ open'[q] \/ listed'[q] \/ board'[q] # {} => Managed(cache'[q])
                   /\ \A x \in board'[q] :
                        x.by = Creator \/ \E answer \in Of(cache'[q], {"wa"}) : answer.by = x.by
        <5>1. /\ cache'[q] = cache[q] /\ open'[q] = open[q] /\ listed'[q] = listed[q]
              /\ board'[q] = board[q]
          BY <3>1, <3>2, <4>2
        <5>2. /\ open[q] \/ listed[q] \/ board[q] # {} => Managed(cache[q])
              /\ \A x \in board[q] :
                   x.by = Creator \/ \E answer \in Of(cache[q], {"wa"}) : answer.by = x.by
          BY DEF IInv, BoardInv
        <5> QED
          BY <5>1, <5>2
      <4> QED
        BY <3>2, <4>1, <4>2 DEF BoardInv
    <3> QED
      BY <3>1, <3>2, <3>3, <3>4 DEF IInv, TypeInv
  <2> QED
    BY <2>1, <2>2, <2>3
<1> QED
  BY <1>1, <1>2

\* What a phone has of the board it keeps.
LEMMA Grown ==
  ASSUME IInv, Next, NEW q \in Person
  PROVE  cache[q] \subseteq cache'[q]
<1>1. PICK p \in Person :
         \/ OpenSaved(p)
         \/ Leave(p)
         \/ \E e \in Event :
              /\ Store(p, e) /\ Sound(Everything \cup {e}) /\ (e.by = p \/ e \in Everything)
              /\ Changed(p, e) \/ Activated(p, e) \/ Painted(p, e)
  BY StepForms
<1>2. CASE OpenSaved(p) \/ Leave(p)
  BY <1>2 DEF OpenSaved, Leave
<1>3. CASE \E e \in Event : Store(p, e)
  <2>1. PICK e \in Event : Store(p, e)
    BY <1>3
  <2> QED
    BY <2>1, Published
<1> QED
  BY <1>1, <1>2, <1>3

\* All events together make sense, whoever has which of them, and boards show
\* only what those events allow.
THEOREM Inductive == Spec => []IInv
BY InitInv, InvKept, PTL DEF Spec

-----------------------------------------------------------------------------
(* What the runs check, for any number of people, invitations and places *)

\* Nothing is shown of a person from whom the phone has no acceptance
\* (whiteboard_new_event, wb_rebuild_active_board).
THEOREM NobodyUninvited == Spec => []OnlyInvited
<1>1. IInv => OnlyInvited
  <2> SUFFICES ASSUME IInv, NEW p \in Person, NEW e \in board[p]
               PROVE  \/ e.by = OwnerOf(cache[p])
                      \/ \E answer \in Of(cache[p], {"wa"}) : answer.by = e.by
    BY DEF OnlyInvited
  <2>1. Managed(cache[p]) /\ Sound(cache[p])
    BY Parts DEF IInv, BoardInv
  <2>2. OwnerOf(cache[p]) = Creator
    BY <2>1, AllCount
  <2> QED
    BY <2>2 DEF IInv, BoardInv
<1> QED
  BY <1>1, Inductive, PTL

\* Whoever the owner's list says is waited for can still answer, once both have
\* the same events (wb_invitation_status, wb_pending_invitations).
THEOREM WaitingIsTrue == Spec => []WaitedForCanAnswer
<1>1. IInv => WaitedForCanAnswer
  <2> SUFFICES ASSUME IInv, NEW p \in Person, NEW q \in Person, cache[p] = cache[q],
                      [to |-> q, status |-> "Waiting"] \in Sent(p),
                      Cardinality(Members(cache[p])) < MaxMembers
               PROVE  Received(q) # {}
    BY DEF WaitedForCanAnswer
  <2> DEFINE c == cache[p]
  <2>1. Managed(c) /\ Sound(c)
    BY Parts DEF Sent
  <2>2. PICK i \in UNION {LatestFor(Invitations(c), x) : x \in Person} :
          i.of = q /\ Status(c, i) = "Waiting"
    BY <2>1 DEF Sent
  <2>3. i \in LatestFor(Invitations(c), q)
    BY <2>2 DEF LatestFor, Latest
  <2>4. /\ Of(Response(c, i), {"wd"}) = {}
        /\ q \notin Members(c)
        /\ Of(Response(c, i), {"wa"}) = {}
    BY <2>2 DEF Status
  <2>5. Response(c, i) = {}
    BY <2>1, <2>4, OneAnswer DEF Answers, Of
  <2>6. ~ HasAcceptance(c, q)
    BY <2>1, <2>4, AcceptedOnes, FullBoard, BoundAssumption DEF HasAcceptance
  <2>7. i \in Pending(q)
    BY <2>1, <2>3, <2>5, <2>6 DEF Pending
  <2> QED
    BY <2>7 DEF Received
<1> QED
  BY <1>1, Inductive, PTL

\* Whatever arrives, an editor only loses the place to those who accepted
\* before, and only on a full board (wb_meta_state).
THEOREM PlacesAreKept == Spec => PlacesKept
<1>1. IInv /\ IInv' /\ [Next]_vars =>
      [\A p \in Person : cache[p] # cache'[p] /\ Managed(cache[p]) =>
         LET old == Members(cache[p])
             new == Members(cache'[p])
             AcceptedAt(q) == {e.at : e \in {e \in Acceptances(cache'[p]) : e.by = q}}
         IN \A q \in old \ new :
              /\ Cardinality(new) = MaxMembers
              /\ \A r \in new \ {Creator} :
                   \E t \in AcceptedAt(r) : \A u \in AcceptedAt(q) : t < u]_vars
  <2> SUFFICES ASSUME IInv, IInv', Next, NEW p \in Person, Managed(cache[p]),
                      NEW q \in Members(cache[p]) \ Members(cache'[p])
               PROVE  /\ Cardinality(Members(cache'[p])) = MaxMembers
                      /\ \A r \in Members(cache'[p]) \ {Creator} :
                           \E t \in {e.at : e \in {e \in Acceptances(cache'[p]) : e.by = r}} :
                             \A u \in {e.at : e \in {e \in Acceptances(cache'[p]) : e.by = q}} :
                               t < u
    BY Zenon DEF vars
  <2>1. cache[p] \subseteq cache'[p]
    BY Grown
  <2>2. Sound(cache'[p])
    <3>1. Sound(Everything') /\ cache'[p] \in SUBSET Everything'
      BY DEF IInv, EventsInv, Everything
    <3> QED
      BY <3>1, PartSound
  <2>3. /\ Cardinality(Members(cache'[p])) = MaxMembers
        /\ \A r \in Members(cache'[p]) \ {Creator} :
             \E a \in Acceptances(cache'[p]) :
                /\ a.by = r
                /\ \A b \in Acceptances(cache'[p]) : b.by = q => a.at < b.at
    BY <2>1, <2>2, LateOnesGo
  <2> QED
    BY <2>3
<1> QED
  BY <1>1, Inductive, PTL DEF PlacesKept, Spec

\* A board that shows what its editors drew keeps doing so while it is open,
\* unless an invitation arrives after its answer (wb_rebuild_active_board).
THEOREM RightStays == Spec => StaysRight
<1>1. IInv /\ IInv' /\ [Next]_vars =>
      [\A p \in Person :
         cache[p] # cache'[p] /\ open[p] /\ open'[p] /\ Right(p) /\ ~Right(p)' =>
           \E e \in cache'[p] \ cache[p] :
              e.k = "wi" /\ \E answer \in Of(cache[p], {"wa"}) : answer.of = e.at]_vars
  <2> SUFFICES ASSUME IInv, Next, NEW p \in Person, cache[p] # cache'[p],
                      open[p], open'[p], Right(p), ~ Right(p)'
               PROVE  \E e \in cache'[p] \ cache[p] :
                        e.k = "wi" /\ \E answer \in Of(cache[p], {"wa"}) : answer.of = e.at
    BY Zenon DEF vars
  <2>1. PICK o \in Person :
           \/ OpenSaved(o)
           \/ Leave(o)
           \/ \E e \in Event :
                /\ Store(o, e) /\ Sound(Everything \cup {e}) /\ (e.by = o \/ e \in Everything)
                /\ Changed(o, e) \/ Activated(o, e) \/ Painted(o, e)
    BY StepForms
  <2>2. PICK e \in Event :
           /\ Store(o, e) /\ Sound(Everything \cup {e})
           /\ Changed(o, e) \/ Activated(o, e) \/ Painted(o, e)
    BY <2>1 DEF OpenSaved, Leave
  <2>3. o = p /\ cache'[p] = cache[p] \cup {e} /\ e \in cache'[p] \ cache[p]
    <3>1. /\ cache'[o] = cache[o] \cup {e}
          /\ \A q \in Person : q # o => cache'[q] = cache[q]
      BY <2>2, Published
    <3>2. o = p
      BY <3>1
    <3> QED
      BY <3>1, <3>2
  <2> DEFINE c == cache[p]
             d == cache[p] \cup {e}
  <2>4. Managed(c) /\ Managed(d) /\ Sound(c) /\ Sound(d)
    <3>1. Managed(c)
      BY DEF IInv, BoardInv
    <3>2. d \in SUBSET (Everything \cup {e}) /\ c \in SUBSET (Everything \cup {e})
      BY Parts
    <3> QED
      BY <2>2, <3>1, <3>2, PartSound DEF Managed, Of
  <2>5. board[p] = Drawn(c) /\ board'[p] # Drawn(d) /\ board \in [Person -> SUBSET Event]
    BY <2>3 DEF Right, IInv, TypeInv
  <2>6. ~ Activated(p, e)
    <3> HIDE DEF d
    <3>1. Activated(p, e) => board' = [board EXCEPT ![p] = Drawn(d)]
      BY DEF Activated, Activate, d
    <3> QED
      BY <2>5, <3>1
  <2> SUFFICES ASSUME ~ (e.k = "wi" /\ \E answer \in Of(c, {"wa"}) : answer.of = e.at)
               PROVE  FALSE
    BY <2>3
  <2>7. e.k # "wa" => Accepted(d) = Accepted(c)
    BY <2>4, SameAcceptances
  <2>8. e.k # "wa" => Members(d) = Members(c)
    BY <2>4, <2>7, SameEditors
  <2>9. CASE Painted(p, e)
    <3>1. /\ e.k = "s"
          /\ board' = IF open[p] /\ CanEdit(c, e.by)
                      THEN [board EXCEPT ![p] = @ \cup {e}] ELSE board
      BY <2>9 DEF Painted
    <3>2. Drawn(d) = IF CanEdit(c, e.by) THEN Drawn(c) \cup {e} ELSE Drawn(c)
      BY <2>4, <2>8, <3>1 DEF Drawn, CanEdit, Of
    <3> HIDE DEF c, d
    <3> QED
      BY <2>5, <3>1, <3>2
  <2>10. CASE Changed(p, e)
    <3> DEFINE displaced == open[p] /\ HasAcceptance(d, p) /\ p \notin Members(d)
    <3>1. /\ open' = [open EXCEPT ![p] = @ /\ ~displaced]
          /\ board' = [board EXCEPT ![p] = CASE displaced -> {}
                                             [] open[p] /\ e.k = "wa" -> Drawn(d)
                                             [] OTHER -> @]
          /\ e.k # "s"
      BY <2>10 DEF Changed, AfterChange
    <3>2. open \in [Person -> BOOLEAN]
      BY DEF IInv, TypeInv
    <3>3. ~ displaced
      <4> HIDE DEF displaced
      <4> QED
        BY <3>1, <3>2
    <3>4. board'[p] = IF e.k = "wa" THEN Drawn(d) ELSE board[p]
      <4> DEFINE drawn == Drawn(d)
      <4> HIDE DEF displaced, drawn
      <4> QED
        BY <2>5, <3>1, <3>3 DEF drawn
    <3>5. e.k # "wa"
      BY <2>5, <3>4
    <3>6. Drawn(d) = Drawn(c)
      BY <2>4, <2>8, <3>1, <3>5 DEF Drawn, CanEdit, Of
    <3> QED
      BY <2>5, <3>4, <3>5, <3>6
  <2> QED
    BY <2>2, <2>3, <2>6, <2>9, <2>10
<1> QED
  BY <1>1, Inductive, PTL DEF StaysRight, Spec
=============================================================================
