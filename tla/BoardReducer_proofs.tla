------------------------ MODULE BoardReducer_proofs ------------------------
(***************************************************************************)
(* Theorems about BoardReducer.tla for any phones, kinds of events and     *)
(* limits, as long as the page remembers all events (SeenAssumption).      *)
(* A reducer's state represents a set of events when its lists are the     *)
(* newest of each category, in order; applying an event makes it represent *)
(* the set with that event, whatever the order.  Hence the pages of all    *)
(* phones show a function of what they were given.                         *)
(***************************************************************************)
EXTENDS BoardReducer, FiniteSetTheorems, FunctionTheorems, SequenceTheorems,
        WellFoundedInduction, TLAPS

-----------------------------------------------------------------------------
(* Numbers *)

\* A set of naturals has a least element.
LEMMA LeastNatural ==
  ASSUME NEW T \in SUBSET Nat, T # {}
  PROVE  \E m \in T : \A n \in T : m <= n
<1>1. PICK m \in T : \A n \in T : ~ (<<n, m>> \in OpToRel(<, Nat))
  BY NatLessThanWellFounded, WFMin
<1>2. \A n \in T : ~ (n < m)
  BY <1>1 DEF OpToRel
<1> QED
  BY <1>2

\* A set of positions that has, with a position, all smaller ones.
LEMMA InitialSegment ==
  ASSUME NEW l \in Nat, NEW K \in SUBSET (1 .. l),
         \A i \in K : \A j \in 1 .. i : j \in K
  PROVE  Cardinality(K) \in 0 .. l /\ K = 1 .. Cardinality(K)
<1> DEFINE T == {n \in Nat : n + 1 \notin K}
<1>1. l \in T
  OBVIOUS
<1>2. PICK m \in T : \A n \in T : m <= n
  BY <1>1, LeastNatural
<1>3. \A i \in 1 .. m : i \in K
  <2> SUFFICES ASSUME NEW i \in 1 .. m, i \notin K PROVE FALSE
    OBVIOUS
  <2>1. i - 1 \in T
    OBVIOUS
  <2> QED
    BY <2>1, <1>2
<1>4. \A i \in K : i \in 1 .. m
  <2> SUFFICES ASSUME NEW i \in K, ~ (i <= m) PROVE FALSE
    OBVIOUS
  <2>1. m + 1 \in 1 .. i
    OBVIOUS
  <2> QED
    BY <2>1
<1>5. K = 1 .. m
  BY <1>3, <1>4
<1>6. Cardinality(K) = m
  BY <1>5, FS_Interval
<1>7. m <= l
  BY <1>1, <1>2
<1> QED
  BY <1>5, <1>6, <1>7

-----------------------------------------------------------------------------
(* The order of events, and the newest of a set *)

\* cb_compare_events is a strict order, total on events with different ids.
LEMMA BeforeOrders ==
  ASSUME NEW x \in Event, NEW y \in Event, NEW z \in Event
  PROVE  /\ ~ Before(x, x)
         /\ Before(x, y) /\ Before(y, z) => Before(x, z)
         /\ EventId(x) # EventId(y) => Before(x, y) \/ Before(y, x)
<1>1. \A e \in {x, y, z} : e.l \in Nat /\ e.by \in Nat /\ e.nr \in Nat
  BY PhoneAssumption DEF Event
<1>2. ~ Before(x, x)
  BY <1>1 DEF Before
<1>3. Before(x, y) /\ Before(y, z) => Before(x, z)
  BY <1>1 DEF Before
<1>4. EventId(x) # EventId(y) => Before(x, y) \/ Before(y, x)
  <2>1. EventId(x) # EventId(y) => x.by # y.by \/ x.nr # y.nr
    BY DEF EventId
  <2> QED
    BY <1>1, <2>1 DEF Before
<1> QED
  BY <1>2, <1>3, <1>4

\* What comes after x.
After(x, S) == {y \in S : Before(x, y)}

LEMMA AfterFinite ==
  ASSUME NEW S, IsFiniteSet(S), NEW x
  PROVE  IsFiniteSet(After(x, S)) /\ Cardinality(After(x, S)) \in Nat
BY FS_Subset, FS_CardinalityType DEF After

\* Finitely many events have a last one.
LEMMA LastOfSome ==
  ASSUME NEW S \in SUBSET Event, IsFiniteSet(S), NEW X \in SUBSET S, X # {}
  PROVE  \E m \in X : \A y \in X : ~ Before(m, y)
<1> DEFINE T == {Cardinality(After(x, S)) : x \in X}
<1>1. T \in SUBSET Nat /\ T # {}
  BY AfterFinite
<1>2. PICK k \in T : \A n \in T : k <= n
  BY <1>1, LeastNatural
<1>3. PICK m \in X : k = Cardinality(After(m, S))
  OBVIOUS
<1>4. ASSUME NEW y \in X, Before(m, y) PROVE FALSE
  <2>1. After(y, S) \subseteq After(m, S) \ {y}
    BY <1>4, BeforeOrders DEF After
  <2>2. y \in After(m, S)
    BY <1>4 DEF After
  <2>3. /\ IsFiniteSet(After(m, S) \ {y})
        /\ Cardinality(After(m, S) \ {y}) = Cardinality(After(m, S)) - 1
    BY <2>2, AfterFinite, FS_RemoveElement
  <2>4. Cardinality(After(y, S)) <= Cardinality(After(m, S)) - 1
    BY <2>1, <2>3, FS_Subset
  <2>5. Cardinality(After(m, S)) <= Cardinality(After(y, S))
    BY <1>2, <1>3
  <2> QED
    BY <2>4, <2>5, AfterFinite
<1> QED
  BY <1>4

LEMMA NewestOfDef ==
  ASSUME NEW n, NEW S
  PROVE  NewestOf(n, S) = {x \in S : Cardinality(After(x, S)) < n}
BY DEF NewestOf, After

\* Of the newest and one event more the newest are those of all: what was
\* pruned is never missed.
LEMMA PruningIsSound ==
  ASSUME NEW S \in SUBSET Event, IsFiniteSet(S), NEW e \in Event, NEW n \in Nat
  PROVE  NewestOf(n, NewestOf(n, S) \cup {e}) = NewestOf(n, S \cup {e})
<1> DEFINE N == NewestOf(n, S)
<1>1. N = {x \in S : Cardinality(After(x, S)) < n} /\ N \subseteq S
  BY NewestOfDef
<1>2. IsFiniteSet(S \cup {e}) /\ IsFiniteSet(N \cup {e}) /\ IsFiniteSet(N)
  <2>1. IsFiniteSet(N)
    BY <1>1, FS_Subset
  <2> QED
    BY <2>1, FS_AddElement
<1>3. ASSUME NEW x \in S \cup {e}, Cardinality(After(x, S \cup {e})) < n
      PROVE  x \in N \cup {e} /\ Cardinality(After(x, N \cup {e})) < n
  <2>1. /\ After(x, S) \subseteq After(x, S \cup {e})
        /\ After(x, N \cup {e}) \subseteq After(x, S \cup {e})
    BY <1>1 DEF After
  <2>2. /\ Cardinality(After(x, S)) <= Cardinality(After(x, S \cup {e}))
        /\ Cardinality(After(x, N \cup {e})) <= Cardinality(After(x, S \cup {e}))
    BY <2>1, <1>2, AfterFinite, FS_Subset
  <2>3. Cardinality(After(x, S)) < n /\ Cardinality(After(x, N \cup {e})) < n
    BY <2>2, <1>2, <1>3, AfterFinite
  <2> QED
    BY <2>3, <1>1
<1>4. ASSUME NEW x \in N \cup {e}, Cardinality(After(x, N \cup {e})) < n
      PROVE  x \in S \cup {e} /\ Cardinality(After(x, S \cup {e})) < n
  <2>1. x \in Event
    BY <1>1
  <2>2. After(x, S) \subseteq N
    <3> SUFFICES ASSUME After(x, S) \ N # {} PROVE FALSE
      OBVIOUS
    <3>1. After(x, S) \ N \in SUBSET S
      BY DEF After
    <3>2. PICK m \in After(x, S) \ N : \A y \in After(x, S) \ N : ~ Before(m, y)
      BY <3>1, LastOfSome
    <3>3. m \in S /\ Before(x, m) /\ m \notin N
      BY <3>2 DEF After
    <3>4. After(m, S) \subseteq After(x, N \cup {e})
      <4> SUFFICES ASSUME NEW y \in After(m, S) PROVE y \in After(x, N \cup {e})
        OBVIOUS
      <4>1. y \in S /\ Before(m, y)
        BY DEF After
      <4>2. Before(x, y)
        BY <4>1, <3>3, <2>1, BeforeOrders
      <4>3. y \in N
        BY <4>1, <4>2, <3>2 DEF After
      <4> QED
        BY <4>2, <4>3 DEF After
    <3>5. Cardinality(After(m, S)) <= Cardinality(After(x, N \cup {e}))
      BY <3>4, <1>2, AfterFinite, FS_Subset
    <3>6. Cardinality(After(m, S)) < n
      BY <3>5, <1>2, <1>4, AfterFinite
    <3> QED
      BY <3>3, <3>6, <1>1
  <2>3. After(x, S \cup {e}) = After(x, N \cup {e})
    BY <2>2, <1>1 DEF After
  <2> QED
    BY <2>3, <1>1, <1>4
<1>5. /\ NewestOf(n, N \cup {e}) = {x \in N \cup {e} : Cardinality(After(x, N \cup {e})) < n}
      /\ NewestOf(n, S \cup {e}) = {x \in S \cup {e} : Cardinality(After(x, S \cup {e})) < n}
  BY NewestOfDef
<1> QED
  BY <1>3, <1>4, <1>5

-----------------------------------------------------------------------------
(* Sorted lists *)

Ascending(s) == \A i, j \in 1 .. Len(s) : i < j => Before(s[i], s[j])

LEMMA ToSetDef ==
  ASSUME NEW S, NEW s \in Seq(S)
  PROVE  ToSet(s) = {s[i] : i \in 1 .. Len(s)} /\ ToSet(s) \in SUBSET S
BY DEF ToSet

LEMMA ToSetFinite ==
  ASSUME NEW S, NEW s \in Seq(S)
  PROVE  IsFiniteSet(ToSet(s)) /\ Cardinality(ToSet(s)) <= Len(s)
<1> DEFINE f == [i \in 1 .. Len(s) |-> s[i]]
<1>1. f \in Surjection(1 .. Len(s), ToSet(s))
  BY ToSetDef DEF Surjection
<1>0. Len(s) \in Nat
  OBVIOUS
<1>2. IsFiniteSet(1 .. Len(s)) /\ Cardinality(1 .. Len(s)) = Len(s)
  BY <1>0, FS_Interval
<1> QED
  BY <1>1, <1>2, FS_Surjection

\* In a sorted list the elements after an element are those to its right.
LEMMA RightIsAfter ==
  ASSUME NEW s \in Seq(Event), Ascending(s), NEW i \in 1 .. Len(s)
  PROVE  Cardinality(After(s[i], ToSet(s))) = Len(s) - i
<1> DEFINE R == (i + 1) .. Len(s)
           f == [j \in R |-> s[j]]
<1>1. \A j \in 1 .. Len(s) : s[j] \in Event
  OBVIOUS
<1>2. After(s[i], ToSet(s)) = {s[j] : j \in R}
  <2>1. \A j \in R : Before(s[i], s[j])
    BY DEF Ascending
  <2>2. ASSUME NEW j \in 1 .. Len(s), j \notin R PROVE ~ Before(s[i], s[j])
    <3>1. j = i \/ Before(s[j], s[i])
      BY <2>2 DEF Ascending
    <3> QED
      BY <3>1, <1>1, BeforeOrders
  <2> QED
    BY <2>1, <2>2, ToSetDef DEF After
<1>3. f \in Bijection(R, After(s[i], ToSet(s)))
  <2>1. \A j, k \in R : j # k => s[j] # s[k]
    <3> SUFFICES ASSUME NEW j \in R, NEW k \in R, j # k PROVE s[j] # s[k]
      OBVIOUS
    <3>1. Before(s[j], s[k]) \/ Before(s[k], s[j])
      BY DEF Ascending
    <3>2. s[j] \in Event /\ ~ Before(s[j], s[j])
      BY <1>1, BeforeOrders
    <3> QED
      BY <3>1, <3>2
  <2>2. f \in [R -> After(s[i], ToSet(s))]
    BY <1>2
  <2>3. \A x \in After(s[i], ToSet(s)) : \E j \in R : f[j] = x
    BY <1>2
  <2>4. \A j, k \in R : f[j] = f[k] => j = k
    BY <2>1
  <2> HIDE DEF f, R
  <2> QED
    BY <2>2, <2>3, <2>4 DEF Bijection, Injection, Surjection, IsInjective
<1>4. IsFiniteSet(R) /\ Cardinality(R) = Len(s) - i
  BY FS_Interval
<1> QED
  BY <1>3, <1>4, FS_Bijection DEF ExistsBijection

\* The last n elements of a sorted list are the newest n.
LEMMA NewestOfList ==
  ASSUME NEW s \in Seq(Event), Ascending(s), NEW n \in Nat
  PROVE  /\ Newest(n, s) \in Seq(Event) /\ Ascending(Newest(n, s))
         /\ Len(Newest(n, s)) <= n
         /\ ToSet(Newest(n, s)) = NewestOf(n, ToSet(s))
<1> DEFINE l == Len(s)
           r == Newest(n, s)
           k == IF l <= n THEN 0 ELSE l - n
<1>1. l \in Nat /\ k \in 0 .. l /\ l - k <= n /\ \A i \in 1 .. l : s[i] \in Event
  OBVIOUS
<1>2. /\ r \in Seq(Event) /\ Len(r) = l - k
      /\ \A i \in 1 .. l - k : r[i] = s[k + i]
  <2>1. CASE l <= n
    BY <2>1, <1>1 DEF Newest
  <2>2. CASE ~ (l <= n)
    <3>1. r = SubSeq(s, l - n + 1, l)
      BY <2>2 DEF Newest
    <3>2. /\ r \in Seq(Event) /\ Len(r) = l - (l - n + 1) + 1
          /\ \A i \in 1 .. l - (l - n + 1) + 1 : r[i] = s[l - n + 1 + i - 1]
      <4>1. l - n + 1 \in Int /\ l \in Int /\ \A i \in (l - n + 1) .. l : s[i] \in Event
        BY <2>2, <1>1
      <4>2. (IF l - n + 1 <= l THEN l - (l - n + 1) + 1 ELSE 0) = l - (l - n + 1) + 1
        BY <1>1
      <4>3. /\ r \in Seq(Event)
            /\ Len(r) = IF l - n + 1 <= l THEN l - (l - n + 1) + 1 ELSE 0
            /\ \A i \in 1 .. l - (l - n + 1) + 1 : r[i] = s[l - n + 1 + i - 1]
        BY <4>1, <3>1, SubSeqProperties
      <4> QED
        BY <4>2, <4>3
    <3>3. l - n \in 0 .. l /\ l - (l - n) = n /\ l - (l - n + 1) + 1 = n
      BY <2>2, <1>1
    <3>4. \A i \in 1 .. n : l - n + 1 + i - 1 = l - n + i
      BY <1>1
    <3> QED
      BY <3>2, <3>3, <3>4, <2>2
  <2> QED
    BY <2>1, <2>2
<1>3. Ascending(r)
  <2> HIDE DEF k, r
  <2> SUFFICES ASSUME NEW i \in 1 .. l - k, NEW j \in 1 .. l - k, i < j
               PROVE  Before(r[i], r[j])
    BY <1>2 DEF Ascending
  <2>1. k + i \in 1 .. l /\ k + j \in 1 .. l /\ k + i < k + j
    BY <1>1
  <2> QED
    BY <2>1, <1>2 DEF Ascending
<1>4. ToSet(r) = {s[i] : i \in (k + 1) .. l}
  <2> HIDE DEF k, r
  <2>1. ToSet(r) = {r[i] : i \in 1 .. l - k}
    BY <1>2, ToSetDef
  <2>2. \A i \in 1 .. l - k : r[i] = s[k + i] /\ k + i \in (k + 1) .. l
    BY <1>1, <1>2
  <2>3. \A j \in (k + 1) .. l : j - k \in 1 .. l - k /\ k + (j - k) = j
    BY <1>1, <1>2
  <2>4. \A j \in (k + 1) .. l : s[j] = r[j - k]
    BY <2>2, <2>3
  <2> QED
    BY <2>1, <2>2, <2>3, <2>4
<1>5. \A i \in 1 .. l : Cardinality(After(s[i], ToSet(s))) < n <=> i \in (k + 1) .. l
  <2> SUFFICES ASSUME NEW i \in 1 .. l
               PROVE  Cardinality(After(s[i], ToSet(s))) < n <=> i \in (k + 1) .. l
    OBVIOUS
  <2>1. Cardinality(After(s[i], ToSet(s))) = l - i
    BY RightIsAfter
  <2> QED
    BY <2>1, <1>1, <1>2
<1>6. NewestOf(n, ToSet(s)) = {s[i] : i \in (k + 1) .. l}
  <2>1. NewestOf(n, ToSet(s)) = {x \in ToSet(s) : Cardinality(After(x, ToSet(s))) < n}
    BY NewestOfDef
  <2>2. ToSet(s) = {s[i] : i \in 1 .. l}
    BY ToSetDef
  <2>3. (k + 1) .. l \subseteq 1 .. l
    BY <1>1
  <2> HIDE DEF k
  <2> QED
    BY <2>1, <2>2, <2>3, <1>5
<1> QED
  BY <1>1, <1>2, <1>3, <1>4, <1>6

\* push and sort put the element where it belongs.
LEMMA SortedType ==
  ASSUME NEW s \in Seq(Event), Ascending(s), NEW e \in Event,
         \A x \in ToSet(s) : EventId(x) # EventId(e)
  PROVE  /\ Sorted(s, e) \in Seq(Event) /\ Ascending(Sorted(s, e))
         /\ ToSet(Sorted(s, e)) = ToSet(s) \cup {e}
<1> DEFINE l == Len(s)
           K == {i \in DOMAIN s : ~ Before(e, s[i])}
           k == Cardinality(K)
           r == Sorted(s, e)
<1>1. l \in Nat /\ DOMAIN s = 1 .. l /\ \A i \in 1 .. l : s[i] \in Event
  OBVIOUS
<1>2. K \in SUBSET (1 .. l)
  BY <1>1
<1>3. ASSUME NEW i \in K, NEW j \in 1 .. i PROVE j \in K
  <2>1. i \in 1 .. l /\ j \in 1 .. l /\ ~ Before(e, s[i])
    BY <1>1
  <2>2. j = i \/ Before(s[j], s[i])
    BY <2>1 DEF Ascending
  <2>3. ~ Before(e, s[j])
    BY <2>1, <2>2, <1>1, BeforeOrders
  <2> QED
    BY <2>1, <2>3, <1>1
<1>4. k \in 0 .. l /\ K = 1 .. k
  BY <1>1, <1>2, <1>3, InitialSegment
<1> HIDE DEF k
<1>5. r = SubSeq(s, 1, k) \o <<e>> \o SubSeq(s, k + 1, l)
  <2>1. r = InsertAt(s, 1 + k, e)
    BY DEF Sorted, k
  <2>2. (1 + k) - 1 = k /\ 1 + k = k + 1
    BY <1>4
  <2> QED
    BY <2>1, <2>2 DEF InsertAt
<1>6. /\ r \in Seq(Event) /\ Len(r) = l + 1
      /\ \A i \in 1 .. l + 1 :
           r[i] = IF i <= k THEN s[i] ELSE IF i = k + 1 THEN e ELSE s[i - 1]
  <2> DEFINE a == SubSeq(s, 1, k)
             b == SubSeq(s, k + 1, l)
  <2>1. /\ a \in Seq(Event) /\ Len(a) = k
        /\ \A i \in 1 .. k : a[i] = s[i]
    BY <1>1, <1>4
  <2>2. /\ b \in Seq(Event) /\ Len(b) = l - k
        /\ \A i \in 1 .. l - k : b[i] = s[k + i]
    <3>1. k + 1 \in Int /\ l \in Int /\ \A i \in (k + 1) .. l : s[i] \in Event
      BY <1>1, <1>4
    <3>2. /\ b \in Seq(Event)
          /\ Len(b) = IF k + 1 <= l THEN l - (k + 1) + 1 ELSE 0
          /\ \A i \in 1 .. l - (k + 1) + 1 : b[i] = s[k + 1 + i - 1]
      BY <3>1, SubSeqProperties
    <3>3. l - (k + 1) + 1 = l - k /\ \A i \in 1 .. l - k : k + 1 + i - 1 = k + i
      BY <1>1, <1>4
    <3>4. Len(b) = l - k
      <4>1. (IF k + 1 <= l THEN l - (k + 1) + 1 ELSE 0) = l - k
        <5>1. k \in 0 .. l /\ l \in Nat
          BY <1>1, <1>4
        <5> QED
          BY <5>1
      <4> QED
        BY <4>1, <3>2
    <3>5. ASSUME NEW i \in 1 .. l - k PROVE b[i] = s[k + i]
      <4>1. i \in 1 .. l - (k + 1) + 1 /\ k + 1 + i - 1 = k + i
        BY <3>3
      <4> QED
        BY <4>1, <3>2
    <3> QED
      BY <3>2, <3>4, <3>5
  <2> HIDE DEF a, b
  <2>3. /\ a \o <<e>> \in Seq(Event) /\ Len(a \o <<e>>) = k + 1
        /\ \A i \in 1 .. k + 1 : (a \o <<e>>)[i] = IF i <= k THEN s[i] ELSE e
    BY <2>1, <1>4
  <2> DEFINE ae == a \o <<e>>
  <2> HIDE DEF ae
  <2>4. /\ ae \o b \in Seq(Event) /\ Len(ae \o b) = l + 1
        /\ \A i \in 1 .. l + 1 : (ae \o b)[i] = IF i <= k + 1 THEN ae[i] ELSE b[i - (k + 1)]
    BY <2>2, <2>3, <1>1, <1>4 DEF ae
  <2>5. ASSUME NEW i \in 1 .. l + 1
        PROVE (ae \o b)[i] = IF i <= k THEN s[i] ELSE IF i = k + 1 THEN e ELSE s[i - 1]
    <3>1. CASE i <= k + 1
      BY <3>1, <2>3, <2>4, <1>1, <1>4 DEF ae
    <3>2. CASE ~ (i <= k + 1)
      <4>1. i - (k + 1) \in 1 .. l - k /\ k + (i - (k + 1)) = i - 1
        BY <3>2, <1>1, <1>4
      <4>2. b[i - (k + 1)] = s[i - 1]
        BY <4>1, <2>2
      <4>3. ~ (i <= k) /\ i # k + 1 /\ (ae \o b)[i] = b[i - (k + 1)]
        BY <3>2, <2>4, <1>4
      <4> QED
        BY <4>2, <4>3
    <3> QED
      BY <3>1, <3>2
  <2> QED
    BY <1>5, <2>4, <2>5 DEF ae, a, b
<1>7. \A i \in 1 .. k : Before(s[i], e)
  <2> SUFFICES ASSUME NEW i \in 1 .. k PROVE Before(s[i], e)
    OBVIOUS
  <2>1. i \in 1 .. l /\ ~ Before(e, s[i])
    BY <1>4, <1>1
  <2>2. EventId(s[i]) # EventId(e)
    BY <2>1, ToSetDef
  <2> QED
    BY <2>1, <2>2, <1>1, BeforeOrders
<1>8. \A i \in (k + 1) .. l : Before(e, s[i])
  <2> SUFFICES ASSUME NEW i \in (k + 1) .. l PROVE Before(e, s[i])
    OBVIOUS
  <2>1. i \in 1 .. l /\ i \notin K
    BY <1>4, <1>1
  <2> QED
    BY <2>1, <1>1
<1>9. Ascending(r)
  <2> SUFFICES ASSUME NEW i \in 1 .. l + 1, NEW j \in 1 .. l + 1, i < j
               PROVE  Before(r[i], r[j])
    BY <1>6 DEF Ascending
  <2>1. CASE j <= k
    BY <2>1, <1>1, <1>4, <1>6 DEF Ascending
  <2>2. CASE j = k + 1
    BY <2>2, <1>1, <1>4, <1>6, <1>7
  <2>3. CASE j > k + 1 /\ i = k + 1
    BY <2>3, <1>1, <1>4, <1>6, <1>8
  <2>4. CASE j > k + 1 /\ i <= k
    <3>1. r[i] = s[i] /\ r[j] = s[j - 1] /\ i \in 1 .. l /\ j - 1 \in 1 .. l /\ i < j - 1
      BY <2>4, <1>1, <1>4, <1>6
    <3> QED
      BY <3>1 DEF Ascending
  <2>5. CASE j > k + 1 /\ i > k + 1
    <3>1. /\ r[i] = s[i - 1] /\ r[j] = s[j - 1]
          /\ i - 1 \in 1 .. l /\ j - 1 \in 1 .. l /\ i - 1 < j - 1
      BY <2>5, <1>1, <1>4, <1>6
    <3> QED
      BY <3>1 DEF Ascending
  <2> QED
    BY <2>1, <2>2, <2>3, <2>4, <2>5, <1>4
<1>10. ToSet(r) = ToSet(s) \cup {e}
  <2>1. ToSet(r) = {r[i] : i \in 1 .. l + 1} /\ ToSet(s) = {s[i] : i \in 1 .. l}
    BY <1>6, ToSetDef
  <2>2. \A i \in 1 .. l + 1 : r[i] = e \/ \E j \in 1 .. l : r[i] = s[j]
    <3> SUFFICES ASSUME NEW i \in 1 .. l + 1 PROVE r[i] = e \/ \E j \in 1 .. l : r[i] = s[j]
      OBVIOUS
    <3>1. CASE i <= k
      BY <3>1, <1>1, <1>4, <1>6
    <3>2. CASE i = k + 1
      BY <3>2, <1>4, <1>6
    <3>3. CASE i > k + 1
      <4>1. i - 1 \in 1 .. l /\ r[i] = s[i - 1]
        BY <3>3, <1>1, <1>4, <1>6
      <4> QED
        BY <4>1
    <3> QED
      BY <3>1, <3>2, <3>3, <1>4
  <2>3. r[k + 1] = e /\ k + 1 \in 1 .. l + 1
    BY <1>1, <1>4, <1>6
  <2>4. \A j \in 1 .. l : \E i \in 1 .. l + 1 : r[i] = s[j]
    <3> SUFFICES ASSUME NEW j \in 1 .. l PROVE \E i \in 1 .. l + 1 : r[i] = s[j]
      OBVIOUS
    <3>1. CASE j <= k
      BY <3>1, <1>1, <1>4, <1>6
    <3>2. CASE ~ (j <= k)
      <4>1. j + 1 \in 1 .. l + 1 /\ (j + 1) - 1 = j /\ r[j + 1] = s[(j + 1) - 1]
        BY <3>2, <1>1, <1>4, <1>6
      <4> QED
        BY <4>1
    <3> QED
      BY <3>1, <3>2
  <2> HIDE DEF r, l
  <2>5. ToSet(r) \subseteq ToSet(s) \cup {e}
    BY <2>1, <2>2
  <2>6. e \in ToSet(r)
    BY <2>1, <2>3
  <2>7. ToSet(s) \subseteq ToSet(r)
    BY <2>1, <2>4
  <2> QED
    BY <2>5, <2>6, <2>7
<1> QED
  BY <1>6, <1>9, <1>10

-----------------------------------------------------------------------------
(* The reducer *)

State == [lists : [Category -> Seq(Event)], seen : Seq(Id), order : Nat]

Unique(S) == \A x, y \in S : EventId(x) = EventId(y) => x = y

\* A reducer's state that has the events S behind it.
Represents(st, S) ==
  /\ st \in State
  /\ Len(st.seen) <= Cardinality(S) /\ ToSet(st.seen) = {EventId(e) : e \in S}
  /\ \A c \in Category :
       /\ Ascending(st.lists[c]) /\ Len(st.lists[c]) <= Cap[c]
       /\ ToSet(st.lists[c]) = NewestOf(Cap[c], OfCategory(c, S))
  /\ \A e \in S : e.l <= st.order

LEMMA CategoryType ==
  ASSUME NEW e \in Event
  PROVE  CategoryOf[e.k] \in Category /\ EventId(e) \in Id /\ e.l \in Nat
<1>1. e.k \in DOMAIN CategoryOf /\ e.by \in Phone /\ e.nr \in Nat /\ e.l \in Nat
  BY KindAssumption DEF Event
<1>2. CategoryOf[e.k] \in Category
  BY <1>1 DEF CategoryOf, Category
<1> QED
  BY <1>1, <1>2 DEF EventId, Id

\* The state of an empty board.
LEMMA EmptyRepresents == Represents(EmptyPage, {})
<1>1. EmptyPage \in State
  BY DEF EmptyPage, State
<1>2. \A n : NewestOf(n, {}) = {}
  BY DEF NewestOf
<1>3. \A c : OfCategory(c, {}) = {}
  BY DEF OfCategory
<1>4. ToSet(<< >>) = {} /\ Len(<< >>) = 0 /\ Ascending(<< >>)
  BY DEF ToSet, Ascending
<1>5. Cardinality({}) = 0
  BY FS_EmptySet
<1>6. EmptyPage.seen = << >> /\ EmptyPage.order = 0
  BY DEF EmptyPage
<1>7. ASSUME NEW c \in Category
      PROVE  /\ EmptyPage.lists[c] = << >> /\ Cap[c] \in Nat
             /\ NewestOf(Cap[c], OfCategory(c, {})) = {}
  BY <1>2, <1>3, CapAssumption DEF EmptyPage
<1>8. Len(EmptyPage.seen) <= Cardinality({}) /\ ToSet(EmptyPage.seen) = {}
  BY <1>4, <1>5, <1>6
<1>9. \A c \in Category :
        /\ Ascending(EmptyPage.lists[c]) /\ Len(EmptyPage.lists[c]) <= Cap[c]
        /\ ToSet(EmptyPage.lists[c]) = NewestOf(Cap[c], OfCategory(c, {}))
  <2> SUFFICES ASSUME NEW c \in Category
               PROVE  /\ Ascending(EmptyPage.lists[c]) /\ Len(EmptyPage.lists[c]) <= Cap[c]
                      /\ ToSet(EmptyPage.lists[c]) = NewestOf(Cap[c], OfCategory(c, {}))
    OBVIOUS
  <2>1. EmptyPage.lists[c] = << >> /\ 0 <= Cap[c]
    BY <1>7
  <2>2. ToSet(EmptyPage.lists[c]) = NewestOf(Cap[c], OfCategory(c, {}))
    BY <2>1, <1>4, <1>7
  <2> QED
    BY <2>1, <2>2, <1>4
<1> QED
  BY <1>1, <1>8, <1>9 DEF Represents

\* What an event does to the list of its category.
LEMMA ListMerges ==
  ASSUME NEW S \in SUBSET Event, IsFiniteSet(S), NEW e \in Event, NEW n \in Nat,
         Unique(S \cup {e}), e \notin S,
         NEW s \in Seq(Event), Ascending(s), ToSet(s) = NewestOf(n, S)
  PROVE  /\ Newest(n, Sorted(s, e)) \in Seq(Event) /\ Ascending(Newest(n, Sorted(s, e)))
         /\ Len(Newest(n, Sorted(s, e))) <= n
         /\ ToSet(Newest(n, Sorted(s, e))) = NewestOf(n, S \cup {e})
<1>1. \A x \in ToSet(s) : EventId(x) # EventId(e)
  BY DEF Unique, NewestOf
<1>2. /\ Sorted(s, e) \in Seq(Event) /\ Ascending(Sorted(s, e))
      /\ ToSet(Sorted(s, e)) = ToSet(s) \cup {e}
  BY <1>1, SortedType
<1>3. NewestOf(n, ToSet(s) \cup {e}) = NewestOf(n, S \cup {e})
  BY PruningIsSound
<1> QED
  BY <1>2, <1>3, NewestOfList

\* cb_apply, of an event seen before or not.
LEMMA ApplyRepresents ==
  ASSUME NEW S \in SUBSET Event, IsFiniteSet(S), NEW e \in Event, NEW st,
         Represents(st, S), Unique(S \cup {e}), Cardinality(S \cup {e}) <= MaxSeen
  PROVE  Represents(Apply(st, e), S \cup {e})
<1> DEFINE c == CategoryOf[e.k]
           listed == c = "objects" /\ \E x \in ToSet(st.lists[c]) : EventId(x) = EventId(e)
<1>1. /\ st \in State /\ st.seen \in Seq(Id) /\ st.order \in Nat
      /\ \A d \in Category : st.lists[d] \in Seq(Event)
      /\ c \in Category /\ EventId(e) \in Id /\ e.l \in Nat
  BY CategoryType DEF Represents, State
<1>2. /\ OrderAfter(st, e) \in Nat /\ st.order <= OrderAfter(st, e)
      /\ e.l <= OrderAfter(st, e)
  BY <1>1 DEF OrderAfter, Larger
<1>3. \A x \in S \cup {e} : x.l <= OrderAfter(st, e)
  <2> SUFFICES ASSUME NEW x \in S PROVE x.l <= OrderAfter(st, e)
    BY <1>2
  <2>1. x.l \in Nat /\ x.l <= st.order
    BY CategoryType DEF Represents
  <2> QED
    BY <2>1, <1>1, <1>2
<1>4. Known(st, e) <=> e \in S
  <2>1. Known(st, e) <=> EventId(e) \in ToSet(st.seen)
    BY <1>1, ToSetDef DEF Known, Contains
  <2>2. ToSet(st.seen) = {EventId(x) : x \in S}
    BY DEF Represents
  <2> QED
    BY <2>1, <2>2 DEF Unique
<1>5. CASE e \in S
  <2>1. S \cup {e} = S
    BY <1>5
  <2>2. Apply(st, e) = [st EXCEPT !.order = OrderAfter(st, e)]
    BY <1>4, <1>5 DEF Apply
  <2>3. /\ Apply(st, e) \in State
        /\ Apply(st, e).lists = st.lists /\ Apply(st, e).seen = st.seen
        /\ Apply(st, e).order = OrderAfter(st, e)
    BY <2>2, <1>1, <1>2 DEF State
  <2> QED
    BY <2>1, <2>3, <1>3 DEF Represents
<1>6. CASE e \notin S
  <2> DEFINE new == Newest(Cap[c], Sorted(st.lists[c], e))
             lists == [st.lists EXCEPT ![c] = new]
             seen == Newest(MaxSeen, Append(st.seen, EventId(e)))
  <2>1. ~ listed
    <3>1. \A x \in ToSet(st.lists[c]) : x \in S
      BY <1>1 DEF Represents, NewestOf, OfCategory
    <3> QED
      BY <3>1, <1>6 DEF Unique
  <2>2. Apply(st, e) = [lists |-> lists, seen |-> seen, order |-> OrderAfter(st, e)]
    BY <2>1, <1>4, <1>6 DEF Apply
  <2>3. Cardinality(S) \in Nat /\ Cardinality(S \cup {e}) = Cardinality(S) + 1
    BY <1>6, FS_AddElement, FS_CardinalityType
  <2>4. /\ seen \in Seq(Id) /\ Len(seen) <= Cardinality(S \cup {e})
        /\ ToSet(seen) = ToSet(st.seen) \cup {EventId(e)}
    <3> DEFINE a == Append(st.seen, EventId(e))
    <3>1. /\ a \in Seq(Id) /\ Len(a) = Len(st.seen) + 1 /\ Len(st.seen) \in Nat
          /\ \A i \in 1 .. Len(st.seen) : a[i] = st.seen[i]
          /\ a[Len(st.seen) + 1] = EventId(e)
      BY <1>1
    <3>2. Len(st.seen) <= Cardinality(S)
      BY DEF Represents
    <3>3. Len(a) <= Cardinality(S \cup {e}) /\ Len(a) <= MaxSeen
      BY <3>1, <3>2, <2>3, SeenAssumption
    <3>4. seen = a
      BY <3>3 DEF Newest
    <3>5. ToSet(a) = ToSet(st.seen) \cup {EventId(e)}
      <4> HIDE DEF a
      <4>1. ToSet(a) = {a[i] : i \in 1 .. Len(st.seen) + 1}
        BY <3>1, ToSetDef
      <4>2. ToSet(st.seen) = {st.seen[i] : i \in 1 .. Len(st.seen)}
        BY <1>1, ToSetDef
      <4>3. \A i \in 1 .. Len(st.seen) + 1 : i \in 1 .. Len(st.seen) \/ i = Len(st.seen) + 1
        BY <3>1
      <4>4. 1 .. Len(st.seen) \subseteq 1 .. Len(st.seen) + 1
        BY <3>1
      <4>5. Len(st.seen) + 1 \in 1 .. Len(st.seen) + 1
        BY <3>1
      <4> QED
        BY <4>1, <4>2, <4>3, <4>4, <4>5, <3>1
    <3> QED
      BY <3>1, <3>3, <3>4, <3>5
  <2>5. /\ new \in Seq(Event) /\ Ascending(new) /\ Len(new) <= Cap[c]
        /\ ToSet(new) = NewestOf(Cap[c], OfCategory(c, S \cup {e}))
    <3>1. OfCategory(c, S \cup {e}) = OfCategory(c, S) \cup {e}
      BY DEF OfCategory
    <3>2. /\ OfCategory(c, S) \in SUBSET Event /\ IsFiniteSet(OfCategory(c, S))
          /\ Unique(OfCategory(c, S) \cup {e}) /\ e \notin OfCategory(c, S)
      BY <1>6, FS_Subset DEF OfCategory, Unique
    <3>3. Cap[c] \in Nat
      BY <1>1, CapAssumption
    <3>4. Ascending(st.lists[c]) /\ ToSet(st.lists[c]) = NewestOf(Cap[c], OfCategory(c, S))
      BY <1>1 DEF Represents
    <3>5. st.lists[c] \in Seq(Event)
      BY <1>1
    <3> DEFINE s == st.lists[c]
               O == OfCategory(c, S)
               n == Cap[c]
    <3> HIDE DEF s, O, n
    <3>6. /\ Newest(n, Sorted(s, e)) \in Seq(Event) /\ Ascending(Newest(n, Sorted(s, e)))
          /\ Len(Newest(n, Sorted(s, e))) <= n
          /\ ToSet(Newest(n, Sorted(s, e))) = NewestOf(n, O \cup {e})
      <4>1. /\ O \in SUBSET Event /\ IsFiniteSet(O) /\ Unique(O \cup {e}) /\ e \notin O
            /\ n \in Nat /\ s \in Seq(Event) /\ Ascending(s) /\ ToSet(s) = NewestOf(n, O)
        BY <3>2, <3>3, <3>4, <3>5 DEF s, O, n
      <4> QED
        BY <4>1, ListMerges
    <3> QED
      BY <3>1, <3>6 DEF s, O, n
  <2>6. ASSUME NEW d \in Category, d # c
        PROVE  OfCategory(d, S \cup {e}) = OfCategory(d, S)
    BY <2>6 DEF OfCategory
  <2> HIDE DEF new, seen, c
  <2>7. /\ lists \in [Category -> Seq(Event)] /\ lists[c] = new
        /\ \A d \in Category : d # c => lists[d] = st.lists[d]
    BY <2>5, <1>1 DEF State
  <2>8. \A d \in Category :
          /\ Ascending(lists[d]) /\ Len(lists[d]) <= Cap[d]
          /\ ToSet(lists[d]) = NewestOf(Cap[d], OfCategory(d, S \cup {e}))
    BY <2>5, <2>6, <2>7 DEF Represents
  <2>9. ToSet(seen) = {EventId(x) : x \in S \cup {e}}
    BY <2>4 DEF Represents
  <2> HIDE DEF lists
  <2>10. Apply(st, e) \in State
    BY <2>2, <2>4, <2>7, <1>2 DEF State
  <2>11. /\ Apply(st, e).lists = lists /\ Apply(st, e).seen = seen
         /\ Apply(st, e).order = OrderAfter(st, e)
    BY <2>2
  <2>12. Len(seen) <= Cardinality(S \cup {e})
    BY <2>4
  <2> QED
    BY <2>8, <2>9, <2>10, <2>11, <2>12, <1>3 DEF Represents
<1> QED
  BY <1>5, <1>6

-----------------------------------------------------------------------------
(* Replaying a log *)

\* f[n] is the state after the first n events of the log, up to m.
IsRun(f, st, log, m) ==
  f = [n \in 0 .. m |-> IF n = 0 THEN st ELSE Apply(f[n - 1], log[n])]

LEMMA RunExists ==
  ASSUME NEW st, NEW log, NEW l \in Nat
  PROVE  \E f : IsRun(f, st, log, l)
<1> SUFFICES ASSUME ~ \E f : IsRun(f, st, log, l) PROVE FALSE
  OBVIOUS
<1> DEFINE T == {m \in Nat : ~ \E f : IsRun(f, st, log, m)}
<1>1. PICK m \in T : \A n \in T : m <= n
  BY LeastNatural
<1>2. m # 0
  <2> DEFINE f == [n \in 0 .. 0 |-> st]
  <2>1. f = [n \in 0 .. 0 |-> IF n = 0 THEN st ELSE Apply(f[n - 1], log[n])]
    OBVIOUS
  <2>2. IsRun(f, st, log, 0)
    BY <2>1 DEF IsRun
  <2> QED
    BY <2>2
<1>3. m \in Nat /\ m - 1 \in Nat
  BY <1>2
<1>4. PICK f : IsRun(f, st, log, m - 1)
  BY <1>1, <1>3
<1> DEFINE g == [n \in 0 .. m |-> IF n = m THEN Apply(f[m - 1], log[m]) ELSE f[n]]
<1>5. ASSUME NEW n \in 0 .. m
      PROVE  g[n] = IF n = 0 THEN st ELSE Apply(g[n - 1], log[n])
  <2>1. CASE n = m
    <3>1. n - 1 \in 0 .. m /\ n - 1 # m /\ n # 0
      BY <2>1, <1>2, <1>3
    <3>2. g[n] = Apply(f[m - 1], log[m]) /\ g[n - 1] = f[n - 1]
      BY <3>1, <2>1
    <3> QED
      BY <3>1, <3>2, <2>1
  <2>2. CASE n # m
    <3>1. n \in 0 .. m - 1 /\ g[n] = f[n]
      BY <2>2, <1>3
    <3>2. f[n] = IF n = 0 THEN st ELSE Apply(f[n - 1], log[n])
      BY <3>1, <1>4 DEF IsRun
    <3>3. n # 0 => g[n - 1] = f[n - 1]
      BY <3>1, <1>3
    <3> QED
      BY <3>1, <3>2, <3>3
  <2> QED
    BY <2>1, <2>2
<1>6. IsRun(g, st, log, m)
  <2>1. g = [n \in 0 .. m |-> g[n]]
    OBVIOUS
  <2> HIDE DEF g
  <2>2. [n \in 0 .. m |-> g[n]]
          = [n \in 0 .. m |-> IF n = 0 THEN st ELSE Apply(g[n - 1], log[n])]
    BY <1>5
  <2> QED
    BY <2>1, <2>2 DEF IsRun
<1> QED
  BY <1>1, <1>6

LEMMA ReplayRun ==
  ASSUME NEW st, NEW log, Len(log) \in Nat
  PROVE  \E f : IsRun(f, st, log, Len(log)) /\ Replay(st, log) = f[Len(log)]
<1> DEFINE f == CHOOSE f : f = [n \in 0 .. Len(log) |->
                                  IF n = 0 THEN st ELSE Apply(f[n - 1], log[n])]
<1>1. Replay(st, log) = f[Len(log)]
  BY DEF Replay
<1>2. IsRun(f, st, log, Len(log))
  <2>1. \E g : g = [n \in 0 .. Len(log) |-> IF n = 0 THEN st ELSE Apply(g[n - 1], log[n])]
    <3>1. PICK g : IsRun(g, st, log, Len(log))
      BY RunExists
    <3> QED
      BY <3>1 DEF IsRun
  <2>2. f = [n \in 0 .. Len(log) |-> IF n = 0 THEN st ELSE Apply(f[n - 1], log[n])]
    BY <2>1
  <2> QED
    BY <2>2 DEF IsRun
<1> QED
  BY <1>1, <1>2

\* What the state after a log represents does not depend on its order, nor on
\* how often an event is in it.
LEMMA ReplayRepresents ==
  ASSUME NEW S \in SUBSET Event, IsFiniteSet(S), NEW log \in Seq(Event), NEW st,
         Represents(st, S), Unique(S \cup ToSet(log)),
         Cardinality(S \cup ToSet(log)) <= MaxSeen
  PROVE  Represents(Replay(st, log), S \cup ToSet(log))
<1> DEFINE l == Len(log)
           G(n) == S \cup {log[i] : i \in 1 .. n}
<1>1. l \in Nat /\ \A i \in 1 .. l : log[i] \in Event
  OBVIOUS
<1>2. PICK f : IsRun(f, st, log, l) /\ Replay(st, log) = f[l]
  BY <1>1, ReplayRun
<1>3. G(l) = S \cup ToSet(log) /\ IsFiniteSet(G(l))
  <2>1. ToSet(log) = {log[i] : i \in 1 .. l}
    BY ToSetDef
  <2>2. IsFiniteSet(ToSet(log))
    BY ToSetFinite
  <2>3. IsFiniteSet(S \cup ToSet(log))
    BY <2>2, FS_Union
  <2> QED
    BY <2>1, <2>3
<1> SUFFICES ASSUME ~ Represents(f[l], G(l)) PROVE FALSE
  BY <1>2, <1>3
<1> DEFINE T == {n \in 0 .. l : ~ Represents(f[n], G(n))}
<1>4. T \in SUBSET Nat /\ T # {}
  <2> HIDE DEF G, l
  <2>1. l \in 0 .. l
    BY <1>1
  <2>2. l \in T
    BY <2>1
  <2> QED
    BY <2>2
<1>5. PICK n \in T : \A k \in T : n <= k
  BY <1>4, LeastNatural
<1>6. n # 0
  <2>1. f[0] = st
    BY <1>1, <1>2 DEF IsRun
  <2>2. G(0) = S
    OBVIOUS
  <2> QED
    BY <2>1, <2>2, <1>5
<1>7. n \in 1 .. l /\ n - 1 \in 0 .. l /\ log[n] \in Event
  BY <1>1, <1>6
<1>8. Represents(f[n - 1], G(n - 1))
  <2>1. n - 1 \notin T
    <3>1. n \in Nat /\ n - 1 < n
      BY <1>7
    <3> HIDE DEF T
    <3> QED
      BY <3>1, <1>5
  <2> QED
    BY <2>1, <1>7
<1>9. f[n] = Apply(f[n - 1], log[n])
  BY <1>2, <1>6, <1>7 DEF IsRun
<1>10. G(n) = G(n - 1) \cup {log[n]}
  <2>1. \A i \in 1 .. n : i \in 1 .. n - 1 \/ i = n
    BY <1>7
  <2>2. 1 .. n - 1 \subseteq 1 .. n /\ n \in 1 .. n
    BY <1>7
  <2> QED
    BY <2>1, <2>2
<1>11. G(n) \subseteq G(l) /\ G(n - 1) \subseteq G(l)
  BY <1>7
<1>12. G(n - 1) \in SUBSET Event /\ IsFiniteSet(G(n - 1)) /\ Unique(G(n))
  <2>1. G(n - 1) \in SUBSET Event
    BY <1>1, <1>7
  <2>2. IsFiniteSet(G(n - 1))
    BY <1>3, <1>11, FS_Subset
  <2>3. Unique(G(n))
    BY <1>3, <1>11 DEF Unique
  <2> QED
    BY <2>1, <2>2, <2>3
<1>13. Cardinality(G(n)) <= MaxSeen
  <2>1. Cardinality(G(n)) <= Cardinality(G(l)) /\ IsFiniteSet(G(n))
    BY <1>3, <1>11, FS_Subset
  <2>2. Cardinality(G(n)) \in Nat /\ Cardinality(G(l)) \in Nat
    BY <2>1, <1>3, FS_CardinalityType
  <2>3. Cardinality(G(l)) <= MaxSeen
    BY <1>3
  <2> HIDE DEF G
  <2> QED
    BY <2>1, <2>2, <2>3, SeenAssumption
<1> HIDE DEF G
<1>14. Represents(f[n], G(n))
  BY <1>7, <1>8, <1>9, <1>10, <1>12, <1>13, ApplyRepresents
<1> QED
  BY <1>14, <1>5

-----------------------------------------------------------------------------
(* The inductive invariant *)

TableType == db \in [Phone -> Seq(Event)] /\ inbox \in [Phone -> Seq(Event)]

\* Ids are given once: an author numbers its events, and has them all.
EventInv ==
  /\ IsFiniteSet(Events) /\ Cardinality(Events) <= MaxEvents
  /\ Unique(Events)
  /\ \A e \in Events : /\ e.nr <= Cardinality({x \in Events : x.by = e.by})
                       /\ e \in ToSet(db[e.by])
                       /\ e.t = NoTarget \/ \E x \in Events : e.t = EventId(x)

\* What is on its way to the page is stored, and comes once.
InboxInv ==
  \A p \in Phone :
    /\ ToSet(inbox[p]) \subseteq ToSet(db[p])
    /\ \A i, j \in 1 .. Len(inbox[p]) : inbox[p][i] = inbox[p][j] => i = j

PageInv == page \in [Phone -> State] /\ \A p \in Phone : Represents(page[p], Given(p))

IInv == TableType /\ EventInv /\ InboxInv /\ PageInv

LEMMA InitInv == Init => IInv
<1> SUFFICES ASSUME Init PROVE IInv
  OBVIOUS
<1>1. ToSet(<< >>) = {} /\ Len(<< >>) = 0 /\ << >> \in Seq(Event)
  BY DEF ToSet
<1>2. \A p \in Phone : db[p] = << >> /\ inbox[p] = << >> /\ page[p] = EmptyPage
  BY DEF Init
<1>3. TableType
  BY <1>1 DEF Init, TableType
<1>4. Events = {} /\ \A p \in Phone : Given(p) = {}
  BY <1>1, <1>2 DEF Events, Given
<1>5. EventInv
  BY <1>4, FS_EmptySet, SeenAssumption DEF EventInv, Unique
<1>6. InboxInv
  BY <1>1, <1>2 DEF InboxInv
<1>7. EmptyPage \in State
  BY EmptyRepresents DEF Represents
<1>8. PageInv
  BY <1>2, <1>4, <1>7, EmptyRepresents DEF PageInv, Init
<1> QED
  BY <1>3, <1>5, <1>6, <1>8 DEF IInv

\* All that a phone stored are events.
LEMMA Stored ==
  ASSUME TableType, NEW p \in Phone
  PROVE  /\ db[p] \in Seq(Event) /\ inbox[p] \in Seq(Event)
         /\ ToSet(db[p]) \subseteq Events /\ Events \in SUBSET Event
<1>1. \A q \in Phone : db[q] \in Seq(Event) /\ inbox[q] \in Seq(Event)
  BY DEF TableType
<1>2. \A q \in Phone : ToSet(db[q]) \in SUBSET Event
  BY <1>1, ToSetDef
<1> QED
  BY <1>1, <1>2 DEF Events

LEMMA ToSetAppend ==
  ASSUME NEW s \in Seq(Event), NEW e \in Event
  PROVE  /\ Append(s, e) \in Seq(Event) /\ Len(Append(s, e)) = Len(s) + 1
         /\ ToSet(Append(s, e)) = ToSet(s) \cup {e}
         /\ Append(s, e)[Len(s) + 1] = e /\ \A i \in 1 .. Len(s) : Append(s, e)[i] = s[i]
<1> DEFINE a == Append(s, e)
           l == Len(s)
<1>1. /\ a \in Seq(Event) /\ Len(a) = l + 1 /\ l \in Nat
      /\ \A i \in 1 .. l : a[i] = s[i]
      /\ a[l + 1] = e
  OBVIOUS
<1> HIDE DEF a, l
<1>2. ToSet(a) = {a[i] : i \in 1 .. l + 1} /\ ToSet(s) = {s[i] : i \in 1 .. l}
  BY <1>1, ToSetDef DEF l
<1>3. \A i \in 1 .. l + 1 : i \in 1 .. l \/ i = l + 1
  BY <1>1
<1>4. 1 .. l \subseteq 1 .. l + 1 /\ l + 1 \in 1 .. l + 1
  BY <1>1
<1>5. ToSet(a) = ToSet(s) \cup {e}
  BY <1>1, <1>2, <1>3, <1>4
<1> QED
  BY <1>1, <1>5 DEF a, l

LEMMA ToSetConcat ==
  ASSUME NEW s \in Seq(Event), NEW t \in Seq(Event)
  PROVE  s \o t \in Seq(Event) /\ ToSet(s \o t) = ToSet(s) \cup ToSet(t)
<1> DEFINE l == Len(s)
           m == Len(t)
           u == s \o t
<1>1. /\ u \in Seq(Event) /\ l \in Nat /\ m \in Nat /\ Len(u) = l + m
      /\ \A i \in 1 .. l + m : u[i] = IF i <= l THEN s[i] ELSE t[i - l]
  OBVIOUS
<1>2. /\ ToSet(u) = {u[i] : i \in 1 .. l + m}
      /\ ToSet(s) = {s[i] : i \in 1 .. l} /\ ToSet(t) = {t[i] : i \in 1 .. m}
  BY <1>1, ToSetDef
<1> HIDE DEF l, m, u
<1>3. \A i \in 1 .. l : i \in 1 .. l + m /\ u[i] = s[i]
  BY <1>1
<1>4. \A i \in 1 .. m : l + i \in 1 .. l + m /\ u[l + i] = t[i]
  <2> SUFFICES ASSUME NEW i \in 1 .. m PROVE l + i \in 1 .. l + m /\ u[l + i] = t[i]
    OBVIOUS
  <2>1. l + i \in 1 .. l + m /\ ~ (l + i <= l) /\ (l + i) - l = i
    BY <1>1
  <2> QED
    BY <2>1, <1>1
<1>5. \A i \in 1 .. l + m : (i \in 1 .. l /\ u[i] = s[i]) \/ (i - l \in 1 .. m /\ u[i] = t[i - l])
  BY <1>1
<1>6. ToSet(u) \subseteq ToSet(s) \cup ToSet(t)
  BY <1>2, <1>5
<1>7. ToSet(s) \subseteq ToSet(u)
  BY <1>2, <1>3
<1>8. ToSet(t) \subseteq ToSet(u)
  BY <1>2, <1>4
<1> QED
  BY <1>1, <1>6, <1>7, <1>8 DEF u

\* What a page was given, and what all phones stored, are not more than a page
\* remembers.
LEMMA GivenType ==
  ASSUME IInv, NEW p \in Phone
  PROVE  /\ Given(p) \in SUBSET Event /\ IsFiniteSet(Given(p))
         /\ Given(p) \subseteq Events
         /\ ToSet(db[p]) = Given(p) \cup ToSet(inbox[p])
<1>1. Given(p) \subseteq ToSet(db[p]) /\ ToSet(db[p]) \subseteq Events /\ Events \in SUBSET Event
  BY Stored DEF Given, IInv
<1>2. IsFiniteSet(Given(p))
  BY <1>1, FS_Subset DEF IInv, EventInv
<1>3. ToSet(db[p]) = Given(p) \cup ToSet(inbox[p])
  BY DEF Given, IInv, InboxInv
<1> QED
  BY <1>1, <1>2, <1>3

LEMMA FewEvents ==
  ASSUME IInv, NEW S \in SUBSET Events
  PROVE  Cardinality(S) <= MaxSeen /\ IsFiniteSet(S) /\ Unique(S)
<1>1. Cardinality(S) <= Cardinality(Events) /\ IsFiniteSet(S)
  BY FS_Subset DEF IInv, EventInv
<1>2. Cardinality(S) \in Nat /\ Cardinality(Events) \in Nat
  BY <1>1, FS_CardinalityType DEF IInv, EventInv
<1>3. Cardinality(Events) <= MaxEvents /\ Unique(Events)
  BY DEF IInv, EventInv
<1> QED
  BY <1>1, <1>2, <1>3, SeenAssumption DEF Unique

-----------------------------------------------------------------------------
(* Steps *)

\* The event that an edit makes.
NewEvent(p, k, t) ==
  [by |-> p, nr |-> 1 + Cardinality({x \in Events : x.by = p}),
   l |-> page[p].order + 1, k |-> k, t |-> t]

\* The event of an edit: new, with a new id that no event is about, and after all
\* that its phone was given.
LEMMA NewEventType ==
  ASSUME IInv, NEW p \in Phone, NEW k \in Kinds,
         NEW t \in {EventId(e) : e \in Events} \cup {NoTarget}
  PROVE  LET e == NewEvent(p, k, t)
         IN  /\ e \in Event
             /\ \A x \in Events : EventId(x) # EventId(e)
             /\ \A x \in Events \cup {e} : x.t # EventId(e)
             /\ \A x \in Given(p) : Before(x, e)
<1> DEFINE e == NewEvent(p, k, t)
           own == {x \in Events : x.by = p}
<1>1. Events \in SUBSET Event /\ \A x \in Events : x.nr \in Nat /\ x.l \in Nat /\ EventId(x) \in Id
  <2>1. Events \in SUBSET Event
    BY Stored DEF IInv
  <2> QED
    BY <2>1, CategoryType DEF Event
<1>2. Cardinality(own) \in Nat
  <2>1. IsFiniteSet(Events)
    BY DEF IInv, EventInv
  <2> QED
    BY <2>1, FS_Subset, FS_CardinalityType
<1>3. page[p].order \in Nat
  BY DEF IInv, PageInv, Represents, State
<1>4. /\ e.by = p /\ e.nr = 1 + Cardinality(own) /\ e.l = page[p].order + 1
      /\ e.k = k /\ e.t = t
  BY DEF NewEvent
<1>5. t \in Id \cup {NoTarget}
  BY <1>1
<1>6. e \in Event
  BY <1>2, <1>3, <1>5 DEF NewEvent, Event
<1> HIDE DEF e
<1>7. ASSUME NEW x \in Events PROVE EventId(x) # EventId(e)
  <2>1. x.by = p => x.nr <= Cardinality(own)
    BY DEF IInv, EventInv
  <2>2. x.by # e.by \/ x.nr # e.nr
    BY <2>1, <1>1, <1>2, <1>4
  <2> QED
    BY <2>2 DEF EventId
<1>8. NoTarget # EventId(e)
  <2>1. Len(<< >>) = 0 /\ Len(<<e.by, e.nr>>) = 2
    OBVIOUS
  <2> QED
    BY <2>1 DEF NoTarget, EventId
<1>9. \A x \in Events \cup {e} : x.t # EventId(e)
  <2>1. \A x \in Events : x.t = NoTarget \/ \E y \in Events : x.t = EventId(y)
    BY DEF IInv, EventInv
  <2> QED
    BY <2>1, <1>4, <1>7, <1>8
<1>10. ASSUME NEW x \in Given(p) PROVE Before(x, e)
  <2>1. x.l <= page[p].order
    BY DEF IInv, PageInv, Represents
  <2>2. x.l \in Nat
    BY <1>1, GivenType
  <2> QED
    BY <2>1, <2>2, <1>3, <1>4 DEF Before
<1> QED
  BY <1>6, <1>7, <1>9, <1>10 DEF e

LEMMA EditStep ==
  ASSUME IInv, NEW p \in Phone, NEW k \in Kinds,
         NEW t \in {EventId(e) : e \in Events} \cup {NoTarget}, Edit(p, k, t)
  PROVE  IInv' /\ Given(p)' = Given(p) \cup {NewEvent(p, k, t)}
<1> DEFINE e == NewEvent(p, k, t)
<1>1. /\ e \in Event /\ \A x \in Events : EventId(x) # EventId(e)
      /\ \A x \in Events \cup {e} : x.t # EventId(e)
  BY NewEventType
<1>2. /\ db' = [db EXCEPT ![p] = Append(db[p], e)]
      /\ page' = [page EXCEPT ![p] = Apply(page[p], e)]
      /\ inbox' = inbox
      /\ Cardinality(Events) < MaxEvents
  BY DEF Edit, NewEvent
<1>3. e.by = p /\ e.nr = 1 + Cardinality({x \in Events : x.by = p}) /\ e.t = t
  BY DEF NewEvent
<1> HIDE DEF e
<1>4. /\ \A q \in Phone : db[q] \in Seq(Event) /\ inbox[q] \in Seq(Event)
      /\ db \in [Phone -> Seq(Event)] /\ Events \in SUBSET Event
  BY Stored DEF IInv, TableType
<1>5. /\ Append(db[p], e) \in Seq(Event)
      /\ ToSet(Append(db[p], e)) = ToSet(db[p]) \cup {e}
  BY <1>1, <1>4, ToSetAppend
<1>6. /\ ToSet(db'[p]) = ToSet(db[p]) \cup {e}
      /\ \A q \in Phone : q # p => db'[q] = db[q]
      /\ TableType'
  <2>1. /\ db'[p] = Append(db[p], e) /\ \A q \in Phone : q # p => db'[q] = db[q]
        /\ db' \in [Phone -> Seq(Event)]
    BY <1>2, <1>4, <1>5
  <2> QED
    BY <2>1, <1>2, <1>5 DEF IInv, TableType
<1>7. Events' = Events \cup {e} /\ e \notin Events
  <2>1. Events' = UNION {ToSet(db'[q]) : q \in Phone}
    BY DEF Events
  <2>2. Events = UNION {ToSet(db[q]) : q \in Phone}
    BY DEF Events
  <2> QED
    BY <2>1, <2>2, <1>1, <1>6
<1>8. EventInv'
  <2>1. IsFiniteSet(Events) /\ Cardinality(Events) \in Nat
    BY FS_CardinalityType DEF IInv, EventInv
  <2>2. IsFiniteSet(Events') /\ Cardinality(Events') <= MaxEvents
    <3>1. /\ IsFiniteSet(Events \cup {e})
          /\ Cardinality(Events \cup {e}) = Cardinality(Events) + 1
      BY <2>1, <1>7, FS_AddElement
    <3>2. Cardinality(Events) + 1 <= MaxEvents
      BY <2>1, <1>2, SeenAssumption
    <3> QED
      BY <3>1, <3>2, <1>7
  <2>3. Unique(Events')
    BY <1>1, <1>7 DEF Unique, IInv, EventInv
  <2>4. ASSUME NEW x \in Events'
        PROVE  /\ x.nr <= Cardinality({y \in Events' : y.by = x.by})
               /\ x \in ToSet(db[x.by])'
               /\ x.t = NoTarget \/ \E y \in Events' : x.t = EventId(y)
    <3> DEFINE before == {y \in Events : y.by = x.by}
               after == {y \in Events' : y.by = x.by}
    <3>1. /\ IsFiniteSet(before) /\ IsFiniteSet(after) /\ before \subseteq after
          /\ Cardinality(before) \in Nat /\ Cardinality(after) \in Nat
          /\ Cardinality(before) <= Cardinality(after)
      <4>1. IsFiniteSet(before) /\ IsFiniteSet(after) /\ before \subseteq after
        BY <2>1, <2>2, <1>7, FS_Subset
      <4> QED
        BY <4>1, FS_Subset, FS_CardinalityType
    <3>2. CASE x \in Events
      <4>1. x.nr <= Cardinality(before) /\ x.nr \in Nat /\ x.by \in Phone
        BY <3>2, <1>4 DEF IInv, EventInv, Event
      <4>2. x \in ToSet(db[x.by])
        BY <3>2 DEF IInv, EventInv
      <4>3. x \in ToSet(db'[x.by])
        BY <4>1, <4>2, <1>6
      <4>4. x.t = NoTarget \/ \E y \in Events : x.t = EventId(y)
        BY <3>2 DEF IInv, EventInv
      <4>5. x.nr <= Cardinality(after)
        BY <4>1, <3>1
      <4> QED
        BY <4>3, <4>4, <4>5, <1>7
    <3>3. CASE x = e
      <4>1. after = before \cup {e} /\ e \notin before
        BY <3>3, <1>7
      <4>2. Cardinality(after) = Cardinality(before) + 1
        BY <4>1, <3>1, FS_AddElement
      <4>3. x.nr <= Cardinality(after)
        BY <4>2, <3>1, <3>3, <1>3
      <4>4. x \in ToSet(db'[x.by])
        BY <3>3, <1>3, <1>6
      <4> QED
        BY <4>3, <4>4, <3>3, <1>3, <1>7
    <3> QED
      BY <3>2, <3>3, <1>7
  <2> QED
    BY <2>2, <2>3, <2>4 DEF EventInv
<1>9. InboxInv'
  <2> SUFFICES ASSUME NEW q \in Phone
               PROVE  /\ ToSet(inbox[q]) \subseteq ToSet(db'[q])
                      /\ \A i, j \in 1 .. Len(inbox[q]) : inbox[q][i] = inbox[q][j] => i = j
    BY <1>2 DEF InboxInv
  <2>1. /\ ToSet(inbox[q]) \subseteq ToSet(db[q])
        /\ \A i, j \in 1 .. Len(inbox[q]) : inbox[q][i] = inbox[q][j] => i = j
    BY DEF IInv, InboxInv
  <2> QED
    BY <2>1, <1>6
<1>10. /\ Given(p)' = Given(p) \cup {e}
       /\ \A q \in Phone : q # p => Given(q)' = Given(q)
  <2>1. e \notin ToSet(inbox[p])
    BY <1>7, GivenType, Stored DEF IInv, InboxInv
  <2> QED
    BY <2>1, <1>2, <1>6 DEF Given
<1>11. Represents(Apply(page[p], e), Given(p) \cup {e})
  <2>1. Given(p) \in SUBSET Event /\ IsFiniteSet(Given(p)) /\ Given(p) \subseteq Events
    BY GivenType
  <2>2. Represents(page[p], Given(p))
    BY DEF IInv, PageInv
  <2>3. Unique(Given(p) \cup {e})
    BY <2>1, <1>7, <1>8 DEF EventInv, Unique
  <2>4. Cardinality(Given(p) \cup {e}) <= MaxSeen
    <3>1. /\ IsFiniteSet(Events') /\ Cardinality(Events') <= MaxEvents
          /\ Given(p) \cup {e} \subseteq Events'
      BY <2>1, <1>7, <1>8 DEF EventInv
    <3>2. /\ Cardinality(Given(p) \cup {e}) <= Cardinality(Events')
          /\ Cardinality(Given(p) \cup {e}) \in Nat /\ Cardinality(Events') \in Nat
      BY <3>1, FS_Subset, FS_CardinalityType
    <3> QED
      BY <3>1, <3>2, SeenAssumption
  <2> QED
    BY <2>1, <2>2, <2>3, <2>4, <1>1, ApplyRepresents
<1>12. PageInv'
  <2>1. page \in [Phone -> State] /\ \A q \in Phone : Represents(page[q], Given(q))
    BY DEF IInv, PageInv
  <2>2. Apply(page[p], e) \in State
    BY <1>11 DEF Represents
  <2>3. /\ page' \in [Phone -> State] /\ page'[p] = Apply(page[p], e)
        /\ \A q \in Phone : q # p => page'[q] = page[q]
    BY <2>1, <2>2, <1>2
  <2>4. \A q \in Phone : Represents(page'[q], Given(q)')
    BY <2>1, <2>3, <1>10, <1>11
  <2> QED
    BY <2>3, <2>4 DEF PageInv
<1> QED
  BY <1>6, <1>8, <1>9, <1>10, <1>12 DEF IInv, e

\* A delivery between phones, and to the page, adds no event.
LEMMA SameEvents ==
  ASSUME IInv, Events' = Events,
         \A p \in Phone : ToSet(db[p]) \subseteq ToSet(db'[p])
  PROVE  EventInv'
<1>1. ASSUME NEW e \in Events PROVE e.by \in Phone
  <2>1. \E p \in Phone : e \in ToSet(db[p])
    BY DEF Events
  <2>2. e \in Event
    BY <2>1, Stored DEF IInv
  <2> QED
    BY <2>2 DEF Event
<1>2. \A e \in Events : e \in ToSet(db'[e.by])
  BY <1>1 DEF IInv, EventInv
<1>3. IsFiniteSet(Events') /\ Cardinality(Events') <= MaxEvents /\ Unique(Events')
  BY DEF IInv, EventInv
<1>4. \A e \in Events' : /\ e.nr <= Cardinality({x \in Events' : x.by = e.by})
                         /\ e.t = NoTarget \/ \E x \in Events' : e.t = EventId(x)
  BY DEF IInv, EventInv
<1> QED
  BY <1>2, <1>3, <1>4 DEF EventInv

LEMMA ReceiveStep ==
  ASSUME IInv, NEW p \in Phone, NEW e \in Events, Receive(p, e)
  PROVE  IInv' /\ \A q \in Phone : Given(q)' = Given(q)
<1>1. /\ e \notin ToSet(db[p])
      /\ db' = [db EXCEPT ![p] = Append(db[p], e)]
      /\ inbox' = [inbox EXCEPT ![p] = Append(inbox[p], e)]
      /\ page' = page
  BY DEF Receive
<1>2. /\ \A q \in Phone : db[q] \in Seq(Event) /\ inbox[q] \in Seq(Event)
      /\ db \in [Phone -> Seq(Event)] /\ inbox \in [Phone -> Seq(Event)]
      /\ e \in Event
  BY Stored DEF IInv, TableType
<1>3. /\ Append(db[p], e) \in Seq(Event) /\ Append(inbox[p], e) \in Seq(Event)
      /\ ToSet(Append(db[p], e)) = ToSet(db[p]) \cup {e}
      /\ ToSet(Append(inbox[p], e)) = ToSet(inbox[p]) \cup {e}
      /\ Len(Append(inbox[p], e)) = Len(inbox[p]) + 1 /\ Len(inbox[p]) \in Nat
      /\ Append(inbox[p], e)[Len(inbox[p]) + 1] = e
      /\ \A i \in 1 .. Len(inbox[p]) : Append(inbox[p], e)[i] = inbox[p][i]
  BY <1>2, ToSetAppend
<1>4. /\ db' \in [Phone -> Seq(Event)] /\ db'[p] = Append(db[p], e)
      /\ inbox' \in [Phone -> Seq(Event)] /\ inbox'[p] = Append(inbox[p], e)
      /\ \A q \in Phone : q # p => db'[q] = db[q] /\ inbox'[q] = inbox[q]
  BY <1>1, <1>2, <1>3
<1>5. TableType'
  BY <1>4 DEF TableType
<1>6. \A q \in Phone : ToSet(db[q]) \subseteq ToSet(db'[q])
  BY <1>3, <1>4
<1>7. Events' = Events
  <2>1. Events' = UNION {ToSet(db'[q]) : q \in Phone}
    BY DEF Events
  <2>2. Events = UNION {ToSet(db[q]) : q \in Phone}
    BY DEF Events
  <2>3. \A q \in Phone : ToSet(db'[q]) \subseteq ToSet(db[q]) \cup {e}
    BY <1>3, <1>4
  <2> QED
    BY <2>1, <2>2, <2>3, <1>6
<1>8. EventInv'
  BY <1>6, <1>7, SameEvents
<1>9. e \notin ToSet(inbox[p])
  BY <1>1 DEF IInv, InboxInv
<1>10. InboxInv'
  <2>1. \A q \in Phone : ToSet(inbox'[q]) \subseteq ToSet(db'[q])
    BY <1>3, <1>4 DEF IInv, InboxInv
  <2>2. ASSUME NEW q \in Phone, q # p
        PROVE  \A i, j \in 1 .. Len(inbox'[q]) : inbox'[q][i] = inbox'[q][j] => i = j
    BY <2>2, <1>4 DEF IInv, InboxInv
  <2>3. \A i, j \in 1 .. Len(inbox'[p]) : inbox'[p][i] = inbox'[p][j] => i = j
    <3> DEFINE a == Append(inbox[p], e)
               l == Len(inbox[p])
    <3>1. /\ \A i, j \in 1 .. l : inbox[p][i] = inbox[p][j] => i = j
          /\ \A i \in 1 .. l : inbox[p][i] # e
      BY <1>2, <1>9, ToSetDef DEF IInv, InboxInv
    <3>2. /\ l \in Nat /\ a[l + 1] = e /\ \A i \in 1 .. l : a[i] = inbox[p][i]
          /\ inbox'[p] = a /\ Len(a) = l + 1
      BY <1>3, <1>4
    <3> HIDE DEF a, l
    <3>3. \A i \in 1 .. l + 1 : i \in 1 .. l \/ i = l + 1
      BY <3>2
    <3>4. \A i, j \in 1 .. l + 1 : a[i] = a[j] => i = j
      BY <3>1, <3>2, <3>3
    <3> QED
      BY <3>2, <3>4
  <2> QED
    BY <2>1, <2>2, <2>3 DEF InboxInv
<1>11. \A q \in Phone : Given(q)' = Given(q)
  BY <1>1, <1>3, <1>4, <1>9 DEF Given
<1>12. PageInv'
  BY <1>1, <1>11 DEF IInv, PageInv
<1> QED
  BY <1>5, <1>8, <1>10, <1>11, <1>12 DEF IInv

\* The page of p changes to a state of its new events, the table does not.
LEMMA PageStep ==
  ASSUME IInv, NEW p \in Phone, NEW st, NEW rest \in Seq(Event),
         db' = db, inbox' = [inbox EXCEPT ![p] = rest], page' = [page EXCEPT ![p] = st],
         ToSet(rest) \subseteq ToSet(inbox[p]),
         \A i, j \in 1 .. Len(rest) : rest[i] = rest[j] => i = j,
         Represents(st, ToSet(db[p]) \ ToSet(rest))
  PROVE  IInv'
<1>1. /\ inbox \in [Phone -> Seq(Event)] /\ db \in [Phone -> Seq(Event)]
      /\ page \in [Phone -> State] /\ st \in State
  BY DEF IInv, TableType, PageInv, Represents
<1>2. /\ inbox' \in [Phone -> Seq(Event)] /\ inbox'[p] = rest
      /\ page' \in [Phone -> State] /\ page'[p] = st
      /\ \A q \in Phone : q # p => inbox'[q] = inbox[q] /\ page'[q] = page[q]
  BY <1>1
<1>3. TableType'
  BY <1>1, <1>2 DEF TableType
<1>4. Events' = Events
  BY DEF Events
<1>5. EventInv'
  BY <1>4, SameEvents
<1>6. InboxInv'
  BY <1>2 DEF IInv, InboxInv
<1>7. Given(p)' = ToSet(db[p]) \ ToSet(rest) /\ \A q \in Phone : q # p => Given(q)' = Given(q)
  BY <1>2 DEF Given
<1>8. \A q \in Phone : Represents(page'[q], Given(q)')
  BY <1>2, <1>7 DEF IInv, PageInv
<1>9. PageInv'
  BY <1>2, <1>8 DEF PageInv
<1> QED
  BY <1>3, <1>5, <1>6, <1>9 DEF IInv

LEMMA DeliverStep ==
  ASSUME IInv, NEW p \in Phone, Deliver(p)
  PROVE  IInv'
<1> DEFINE e == Head(inbox[p])
           rest == Tail(inbox[p])
           l == Len(inbox[p])
<1>1. /\ inbox[p] \in Seq(Event) /\ inbox[p] # << >>
      /\ db' = db /\ inbox' = [inbox EXCEPT ![p] = rest]
      /\ page' = [page EXCEPT ![p] = Apply(page[p], e)]
  BY DEF Deliver, IInv, TableType
<1>2. /\ e \in Event /\ rest \in Seq(Event) /\ l \in Nat \ {0} /\ Len(rest) = l - 1
      /\ e = inbox[p][1] /\ \A i \in 1 .. l - 1 : rest[i] = inbox[p][i + 1]
  <2>1. /\ e \in Event /\ rest \in Seq(Event) /\ Len(rest) = l - 1
        /\ \A i \in 1 .. Len(rest) : rest[i] = inbox[p][i + 1]
    BY <1>1, HeadTailProperties
  <2>2. l \in Nat \ {0}
    BY <1>1, EmptySeq
  <2>3. e = inbox[p][1]
    BY DEF Head
  <2> QED
    BY <2>1, <2>2, <2>3
<1> HIDE DEF e, rest
<1>3. \A i, j \in 1 .. l : inbox[p][i] = inbox[p][j] => i = j
  BY DEF IInv, InboxInv
<1>4. /\ ToSet(inbox[p]) = {inbox[p][i] : i \in 1 .. l}
      /\ ToSet(rest) = {rest[i] : i \in 1 .. l - 1}
  BY <1>1, <1>2, ToSetDef
<1> HIDE DEF l
<1>5. \A i \in 1 .. l - 1 : i + 1 \in 1 .. l /\ i + 1 # 1 /\ 1 \in 1 .. l
  BY <1>2
<1>6. \A i, j \in 1 .. Len(rest) : rest[i] = rest[j] => i = j
  <2> SUFFICES ASSUME NEW i \in 1 .. l - 1, NEW j \in 1 .. l - 1, rest[i] = rest[j]
               PROVE  i = j
    BY <1>2
  <2>1. i + 1 = j + 1
    BY <1>2, <1>3, <1>5
  <2> QED
    BY <2>1
<1>7. e \notin ToSet(rest)
  BY <1>2, <1>3, <1>4, <1>5
<1>8. ToSet(inbox[p]) = ToSet(rest) \cup {e}
  <2>1. \A i \in 1 .. l : i = 1 \/ (i - 1 \in 1 .. l - 1 /\ (i - 1) + 1 = i)
    BY <1>2
  <2>2. ToSet(inbox[p]) \subseteq ToSet(rest) \cup {e}
    <3>1. \A i \in 1 .. l : inbox[p][i] \in ToSet(rest) \cup {e}
      <4> SUFFICES ASSUME NEW i \in 1 .. l, i # 1 PROVE inbox[p][i] \in ToSet(rest)
        BY <1>2
      <4>1. i - 1 \in 1 .. l - 1 /\ (i - 1) + 1 = i
        BY <2>1
      <4>2. inbox[p][i] = rest[i - 1]
        BY <4>1, <1>2
      <4> QED
        BY <4>1, <4>2, <1>4
    <3> QED
      BY <3>1, <1>4
  <2>3. ToSet(rest) \subseteq ToSet(inbox[p])
    BY <1>2, <1>4, <1>5
  <2>4. e \in ToSet(inbox[p])
    <3>1. 1 \in 1 .. l
      BY <1>2
    <3> QED
      BY <3>1, <1>2, <1>4
  <2> QED
    BY <2>2, <2>3, <2>4
<1>9. ToSet(db[p]) \ ToSet(rest) = Given(p) \cup {e}
  BY <1>7, <1>8 DEF Given, IInv, InboxInv
<1>10. Represents(Apply(page[p], e), Given(p) \cup {e})
  <2>1. Given(p) \in SUBSET Event /\ IsFiniteSet(Given(p))
    BY GivenType
  <2>2. Given(p) \cup {e} \in SUBSET Events
    BY <1>8, GivenType, Stored DEF IInv
  <2>3. Represents(page[p], Given(p))
    BY DEF IInv, PageInv
  <2> QED
    BY <2>1, <2>2, <2>3, <1>2, FewEvents, ApplyRepresents
<1> QED
  BY <1>1, <1>2, <1>6, <1>8, <1>9, <1>10, PageStep

\* A replay onto a state of some events of the table ends with one of all.
LEMMA ReplayStep ==
  ASSUME IInv, NEW p \in Phone, NEW from, NEW S \in SUBSET ToSet(db[p]),
         Represents(from, S), ReplayOnto(p, from)
  PROVE  IInv'
<1> DEFINE log == inbox[p] \o db[p]
<1>1. /\ inbox[p] \in Seq(Event) /\ db[p] \in Seq(Event)
      /\ ToSet(db[p]) \in SUBSET Events /\ Events \in SUBSET Event
      /\ ToSet(inbox[p]) \subseteq ToSet(db[p])
  BY Stored DEF IInv, InboxInv
<1>2. log \in Seq(Event) /\ S \cup ToSet(log) = ToSet(db[p])
  BY <1>1, ToSetConcat
<1>3. S \in SUBSET Event /\ S \in SUBSET Events
  BY <1>1
<1>4. Represents(Replay(from, log), ToSet(db[p]))
  <2> HIDE DEF log
  <2>1. /\ IsFiniteSet(S) /\ Unique(S \cup ToSet(log))
        /\ Cardinality(S \cup ToSet(log)) <= MaxSeen
    BY <1>1, <1>2, <1>3, FewEvents
  <2>2. Represents(Replay(from, log), S \cup ToSet(log))
    BY <2>1, <1>2, <1>3, ReplayRepresents
  <2> QED
    BY <2>2, <1>2
<1>5. ToSet(<< >>) = {} /\ Len(<< >>) = 0 /\ << >> \in Seq(Event)
  BY DEF ToSet
<1>6. /\ db' = db /\ inbox' = [inbox EXCEPT ![p] = << >>]
      /\ page' = [page EXCEPT ![p] = Replay(from, log)]
  BY DEF ReplayOnto
<1> HIDE DEF log
<1>7. ToSet(db[p]) \ ToSet(<< >>) = ToSet(db[p])
  BY <1>5
<1>8. \A i, j \in 1 .. Len(<< >>) : << >>[i] = << >>[j] => i = j
  BY <1>5
<1> QED
  BY <1>4, <1>5, <1>6, <1>7, <1>8, PageStep

LEMMA NextInv == IInv /\ [Next]_vars => IInv'
<1> SUFFICES ASSUME IInv, [Next]_vars PROVE IInv'
  OBVIOUS
<1>1. ASSUME NEW p \in Phone, NEW k \in Kinds,
             NEW t \in {EventId(e) : e \in Events} \cup {NoTarget}, Edit(p, k, t)
      PROVE  IInv'
  BY <1>1, EditStep
<1>2. ASSUME NEW p \in Phone, NEW e \in Events, Receive(p, e) PROVE IInv'
  BY <1>2, ReceiveStep
<1>3. ASSUME NEW p \in Phone, Deliver(p) PROVE IInv'
  BY <1>3, DeliverStep
<1>4. ASSUME NEW p \in Phone, Reopen(p) PROVE IInv'
  <2>1. {} \in SUBSET ToSet(db[p])
    OBVIOUS
  <2> QED
    BY <2>1, <1>4, EmptyRepresents, ReplayStep DEF Reopen
<1>5. ASSUME NEW p \in Phone, Resume(p) PROVE IInv'
  <2>1. Given(p) \in SUBSET ToSet(db[p]) /\ Represents(page[p], Given(p))
    BY DEF Given, IInv, PageInv
  <2> QED
    BY <2>1, <1>5, ReplayStep DEF Resume
<1>6. CASE UNCHANGED vars
  <2>1. db' = db /\ inbox' = inbox /\ page' = page
    BY <1>6 DEF vars
  <2>2. Events' = Events /\ \A p \in Phone : Given(p)' = Given(p)
    BY <2>1 DEF Events, Given
  <2>3. EventInv'
    BY <2>1, <2>2, SameEvents
  <2> QED
    BY <2>1, <2>2, <2>3 DEF IInv, TableType, InboxInv, PageInv
<1> QED
  BY <1>1, <1>2, <1>3, <1>4, <1>5, <1>6 DEF Next

-----------------------------------------------------------------------------
(* Theorems *)

\* What every table, delivery and page hold: events with ids of their own, and
\* lists that are the newest of each category of what the page was given.
THEOREM Inductive == Spec => []IInv
<1>1. Init => IInv
  BY InitInv
<1>2. IInv /\ [Next]_vars => IInv'
  BY NextInv
<1> QED
  BY <1>1, <1>2, PTL DEF Spec

\* Type correctness, for any phones, kinds of events and limits.
THEOREM TypeCorrect == Spec => []TypeOK
<1>1. IInv => TypeOK
  <2> SUFFICES ASSUME IInv PROVE TypeOK
    OBVIOUS
  <2>1. ASSUME NEW p \in Phone
        PROVE  page[p].order \in Nat /\ Len(page[p].seen) <= MaxSeen
    <3>1. /\ page[p] \in State /\ Len(page[p].seen) <= Cardinality(Given(p))
      BY DEF IInv, PageInv, Represents
    <3>2. Cardinality(Given(p)) <= MaxSeen /\ Cardinality(Given(p)) \in Nat
      BY GivenType, FewEvents, FS_CardinalityType
    <3> QED
      BY <3>1, <3>2, SeenAssumption DEF State
  <2>2. ASSUME NEW p \in Phone, NEW c \in Category, NEW i \in 1 .. Len(page[p].lists[c])
        PROVE  LET s == page[p].lists[c]
               IN  /\ s[i] \in ToSet(db[p]) /\ CategoryOf[s[i].k] = c
                   /\ i > 1 => ~ Before(s[i], s[i - 1])
    <3> DEFINE s == page[p].lists[c]
    <3>1. /\ s \in Seq(Event) /\ Ascending(s)
          /\ ToSet(s) = NewestOf(Cap[c], OfCategory(c, Given(p)))
      BY DEF IInv, PageInv, Represents, State
    <3>2. i \in 1 .. Len(s) /\ Len(s) \in Nat
      BY <3>1
    <3> HIDE DEF s
    <3>3. s[i] \in ToSet(s)
      BY <3>1, <3>2, ToSetDef
    <3>4. s[i] \in ToSet(db[p]) /\ CategoryOf[s[i].k] = c
      BY <3>1, <3>3 DEF NewestOf, OfCategory, Given
    <3>5. ASSUME i > 1 PROVE ~ Before(s[i], s[i - 1])
      <4>1. i - 1 \in 1 .. Len(s) /\ i - 1 < i
        BY <3>2, <3>5
      <4>2. Before(s[i - 1], s[i])
        BY <4>1, <3>1, <3>2 DEF Ascending
      <4>3. s[i] \in Event /\ s[i - 1] \in Event
        BY <4>1, <3>1, <3>2
      <4> QED
        BY <4>2, <4>3, BeforeOrders
    <3> QED
      BY <3>4, <3>5 DEF s
  <2>3. ASSUME NEW p \in Phone, NEW c \in Category PROVE Len(page[p].lists[c]) <= Cap[c]
    BY DEF IInv, PageInv, Represents
  <2>4. db \in [Phone -> Seq(Event)] /\ inbox \in [Phone -> Seq(Event)]
    BY DEF IInv, TableType
  <2> QED
    BY <2>1, <2>2, <2>3, <2>4 DEF TypeOK
<1> QED
  BY <1>1, Inductive, PTL

LEMMA ListedIsNewest ==
  ASSUME IInv, NEW p \in Phone
  PROVE  Listed(p) = [c \in Category |-> NewestOf(Cap[c], OfCategory(c, Given(p)))]
BY DEF IInv, PageInv, Represents, Listed

\* The board of a page is a function of the set of events it was given, whatever
\* their order and number, and whatever was pruned meanwhile.
THEOREM ShowsMerge == Spec => []BoardIsMerge
<1>1. IInv => BoardIsMerge
  BY ListedIsNewest DEF BoardIsMerge, Board
<1> QED
  BY <1>1, Inductive, PTL

\* Two phones that stored the same events, and whose pages were given all of
\* them, show the same board.
THEOREM SameEventsSameBoard ==
  Spec => [](\A p, q \in Phone :
               ToSet(db[p]) = ToSet(db[q]) /\ inbox[p] = << >> /\ inbox[q] = << >> =>
                 Board(p) = Board(q))
<1>1. IInv => \A p, q \in Phone :
                ToSet(db[p]) = ToSet(db[q]) /\ inbox[p] = << >> /\ inbox[q] = << >> =>
                  Board(p) = Board(q)
  BY ListedIsNewest DEF Board, Given
<1> QED
  BY <1>1, Inductive, PTL

-----------------------------------------------------------------------------
(* The user's own edits *)

\* An event after all others, that none is about, is not pruned nor cancelled.
LEMMA LastIsListed ==
  ASSUME NEW S \in SUBSET Event, NEW e \in S, \A x \in S \ {e} : Before(x, e),
         \A x \in S : x.t # EventId(e), NEW L,
         L = [c \in Category |-> NewestOf(Cap[c], OfCategory(c, S))]
  PROVE  /\ e \in Live(L, L[CategoryOf[e.k]])
         /\ \A c \in Category : \A x \in L[c] : x \in S /\ ~ Before(e, x)
<1> DEFINE c == CategoryOf[e.k]
<1>1. c \in Category /\ Cap[c] \in Nat \ {0}
  BY CategoryType, CapAssumption
<1>2. \A x \in S : ~ Before(e, x)
  <2> SUFFICES ASSUME NEW x \in S, Before(e, x) PROVE FALSE
    OBVIOUS
  <2>1. x = e \/ Before(x, e)
    OBVIOUS
  <2> QED
    BY <2>1, BeforeOrders
<1>3. \A d \in Category : L[d] = NewestOf(Cap[d], OfCategory(d, S))
  OBVIOUS
<1>4. \A d \in Category : \A x \in L[d] : x \in S
  BY <1>3 DEF NewestOf, OfCategory
<1>5. e \in L[c]
  <2>1. e \in OfCategory(c, S)
    BY DEF OfCategory
  <2>2. {y \in OfCategory(c, S) : Before(e, y)} = {}
    BY <1>2 DEF OfCategory
  <2>3. Cardinality({}) < Cap[c]
    BY <1>1, FS_EmptySet
  <2> QED
    BY <2>1, <2>2, <2>3, <1>1, <1>3 DEF NewestOf
<1>6. \A x \in L["cancels"] : x.t # EventId(e)
  BY <1>4 DEF Category
<1> QED
  BY <1>2, <1>4, <1>5, <1>6 DEF Live

\* What such an event does to the board.
LEMMA LastWins ==
  ASSUME NEW S \in SUBSET Event, NEW e \in S, \A x \in S \ {e} : Before(x, e),
         \A x \in S : x.t # EventId(e), NEW L,
         L = [c \in Category |-> NewestOf(Cap[c], OfCategory(c, S))]
  PROVE  LET shown == BoardOf(L).objects
         IN /\ e.k = "c" => DOMAIN shown = {}
            /\ e.k = "d" => \A o \in DOMAIN shown : EventId(o) # e.t
            /\ e.k \in {"m", "k"} => \A o \in DOMAIN shown :
                 EventId(o) = e.t => e \in shown[o][1] \cup shown[o][2]
<1> DEFINE shown == BoardOf(L).objects
<1>1. /\ e \in Live(L, L[CategoryOf[e.k]])
      /\ \A c \in Category : \A x \in L[c] : x \in S /\ ~ Before(e, x)
  BY LastIsListed
<1>2. /\ shown = [o \in VisibleIn(L) |-> <<LatestMod(L, o, "m"), LatestMod(L, o, "k")>>]
      /\ DOMAIN shown = VisibleIn(L)
  BY DEF BoardOf
<1>3. \A o \in VisibleIn(L) : o \in L["objects"] /\ ~ Before(e, o)
  <2>1. \A o \in VisibleIn(L) : o \in L["objects"]
    BY DEF VisibleIn, Live
  <2> QED
    BY <2>1, <1>1 DEF Category
<1>4. ASSUME e.k = "c" PROVE VisibleIn(L) = {}
  <2>1. e \in Live(L, L["clears"])
    BY <1>1, <1>4 DEF CategoryOf
  <2>2. e \in Latest(Live(L, L["clears"]))
    BY <2>1, <1>1 DEF Latest, Live, Category
  <2>3. \A o \in VisibleIn(L) : Before(e, o)
    BY <2>2 DEF VisibleIn
  <2> QED
    BY <2>3, <1>3
<1>5. ASSUME e.k = "d", NEW o \in VisibleIn(L) PROVE EventId(o) # e.t
  <2>1. e \in Live(L, L["deletes"])
    BY <1>1, <1>5 DEF CategoryOf
  <2>2. e.t = EventId(o) => Before(e, o)
    BY <2>1 DEF VisibleIn
  <2> QED
    BY <2>2, <1>3
<1>6. ASSUME e.k \in {"m", "k"}, NEW o \in VisibleIn(L), EventId(o) = e.t
      PROVE  e \in LatestMod(L, o, e.k)
  <2>1. e \in Live(L, L["mods"])
    BY <1>1, <1>6 DEF CategoryOf
  <2>2. \A x \in Live(L, L["mods"]) : ~ Before(e, x)
    BY <1>1 DEF Live, Category
  <2> QED
    BY <2>1, <2>2, <1>6 DEF LatestMod, Latest
<1> HIDE DEF shown
<1>7. ASSUME e.k \in {"m", "k"}, NEW o \in DOMAIN shown, EventId(o) = e.t
      PROVE  e \in shown[o][1] \cup shown[o][2]
  <2>1. o \in VisibleIn(L)
    BY <1>2, <1>7
  <2>2. shown[o][1] = LatestMod(L, o, "m") /\ shown[o][2] = LatestMod(L, o, "k")
    BY <2>1, <1>2
  <2>3. e \in LatestMod(L, o, e.k)
    BY <2>1, <1>6, <1>7
  <2> QED
    BY <2>2, <2>3, <1>7
<1> QED
  BY <1>2, <1>4, <1>5, <1>7 DEF shown

\* What the user does shows on the user's own phone, over all that came before.
THEOREM EditsWin == Spec => LocalEditWins
<1> DEFINE Wins ==
      \A p \in Phone : Len(db'[p]) > Len(db[p]) /\ Last(db'[p]).by = p =>
        LET e == Last(db'[p])
            shown == Board(p)'.objects
        IN /\ e.k = "c" => DOMAIN shown = {}
           /\ e.k = "d" => \A o \in DOMAIN shown : EventId(o) # e.t
           /\ e.k \in {"m", "k"} => \A o \in DOMAIN shown :
                EventId(o) = e.t => e \in shown[o][1] \cup shown[o][2]
<1>1. IInv /\ [Next]_vars => Wins
  <2> SUFFICES ASSUME IInv, [Next]_vars, NEW p \in Phone,
                      Len(db'[p]) > Len(db[p]), Last(db'[p]).by = p
               PROVE  LET e == Last(db'[p])
                          shown == Board(p)'.objects
                      IN /\ e.k = "c" => DOMAIN shown = {}
                         /\ e.k = "d" => \A o \in DOMAIN shown : EventId(o) # e.t
                         /\ e.k \in {"m", "k"} => \A o \in DOMAIN shown :
                              EventId(o) = e.t => e \in shown[o][1] \cup shown[o][2]
    OBVIOUS
  <2>1. /\ db \in [Phone -> Seq(Event)] /\ db[p] \in Seq(Event) /\ Len(db[p]) \in Nat
        /\ Events \in SUBSET Event
    BY Stored DEF IInv, TableType
  <2>2. db'[p] # db[p]
    BY <2>1
  <2>3. ASSUME NEW q \in Phone, NEW e \in Events, Receive(q, e) PROVE FALSE
    <3>1. e \notin ToSet(db[q]) /\ db' = [db EXCEPT ![q] = Append(db[q], e)]
      BY <2>3 DEF Receive
    <3>2. q = p
      BY <3>1, <2>1, <2>2
    <3>3. db'[p] = Append(db[p], e) /\ e \in Event
      BY <3>1, <3>2, <2>1
    <3>4. Last(db'[p]) = e
      BY <3>3, <2>1, ToSetAppend DEF Last
    <3>5. e \in ToSet(db[e.by])
      BY DEF IInv, EventInv
    <3> QED
      BY <3>1, <3>2, <3>4, <3>5
  <2>4. PICK k \in Kinds, t \in {EventId(e) : e \in Events} \cup {NoTarget} : Edit(p, k, t)
    <3>1. ASSUME NEW q \in Phone, Deliver(q) \/ Reopen(q) \/ Resume(q) PROVE FALSE
      BY <3>1, <2>2 DEF Deliver, Reopen, Resume, ReplayOnto
    <3>2. ASSUME UNCHANGED vars PROVE FALSE
      BY <3>2, <2>2 DEF vars
    <3>3. PICK q \in Phone, k \in Kinds, t \in {EventId(e) : e \in Events} \cup {NoTarget} :
            Edit(q, k, t)
      BY <2>3, <3>1, <3>2 DEF Next
    <3>4. q = p
      <4>1. \E e : db' = [db EXCEPT ![q] = Append(db[q], e)]
        BY <3>3 DEF Edit
      <4> QED
        BY <4>1, <2>1, <2>2
    <3> QED
      BY <3>3, <3>4
  <2> DEFINE e == NewEvent(p, k, t)
             S == Given(p)'
             L == Listed(p)'
  <2>5. /\ e \in Event /\ \A x \in Events \cup {e} : x.t # EventId(e)
        /\ \A x \in Given(p) : Before(x, e)
    BY NewEventType
  <2>6. IInv' /\ S = Given(p) \cup {e}
    BY <2>4, EditStep
  <2>7. Last(db'[p]) = e
    <3>1. db' = [db EXCEPT ![p] = Append(db[p], e)]
      BY <2>4 DEF Edit, NewEvent
    <3>2. db'[p] = Append(db[p], e)
      BY <3>1, <2>1
    <3> HIDE DEF e
    <3> QED
      BY <3>2, <2>1, <2>5, ToSetAppend DEF Last
  <2>8. L = [c \in Category |-> NewestOf(Cap[c], OfCategory(c, S))]
    <3>1. \A c \in Category :
            ToSet(page[p].lists[c])' = NewestOf(Cap[c], OfCategory(c, Given(p)'))
      BY <2>6 DEF IInv, PageInv, Represents
    <3> QED
      BY <3>1 DEF Listed
  <2>9. Board(p)' = BoardOf(L)
    BY DEF Board
  <2> HIDE DEF e, S, L
  <2>10. /\ S \in SUBSET Event /\ e \in S /\ \A x \in S \ {e} : Before(x, e)
         /\ \A x \in S : x.t # EventId(e)
    BY <2>5, <2>6, GivenType
  <2> QED
    BY <2>7, <2>8, <2>9, <2>10, LastWins
<1>2. IInv /\ [Next]_vars => [Wins]_vars
  BY <1>1
<1> QED
  BY <1>2, Inductive, PTL DEF Spec, LocalEditWins
=============================================================================
