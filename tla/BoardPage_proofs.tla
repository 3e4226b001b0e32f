--------------------------- MODULE BoardPage_proofs ---------------------------
(***************************************************************************)
(* Theorems about BoardPage.tla, for any boards, names, colours and bounds. *)
(* First what the operations of BoardCatalog.tla do to the list of saved   *)
(* boards: no board is listed twice, equal names have different colours,   *)
(* and an entry goes without one only when all are in use.                 *)
(* TypeInv and the colours of the catalog hold whatever the user does.     *)
(* The rest is about a patient user (Hurried = FALSE): then the page waits  *)
(* for at most one answer at a time (QueueInv), which says what can still  *)
(* happen to the open board (ConfigInv), to one that is deleted            *)
(* (DeleteInv), and so where the operations of the board on the screen are *)
(* (StoredInv, ShowInv).                                                   *)
(***************************************************************************)
EXTENDS BoardPage, FiniteSetTheorems, FunctionTheorems, SequenceTheorems, TLAPS

-----------------------------------------------------------------------------
(* Ranks in a set of numbers, and the part of a list at given positions *)

\* The size of a numbering.
LEMMA NumbersCounted ==
  ASSUME NEW n \in Nat
  PROVE  IsFiniteSet(1 .. n) /\ Cardinality(1 .. n) = n
<1>1. 1 \in Int /\ n \in Int /\ (1 > n => n = 0)
  OBVIOUS
<1>2. IsFiniteSet(1 .. n) /\ Cardinality(1 .. n) = IF 1 > n THEN 0 ELSE n - 1 + 1
  BY <1>1, FS_Interval
<1> QED
  BY <1>1, <1>2

\* The ranks in a finite set of integers are the numbers from 1, in the same
\* order.
LEMMA Ranks ==
  ASSUME NEW S \in SUBSET Int, IsFiniteSet(S)
  PROVE  /\ Cardinality(S) \in Nat
         /\ \A c \in S : Rank(S, c) \in 1 .. Cardinality(S)
         /\ \A c, d \in S : c < d => Rank(S, c) < Rank(S, d)
<1>1. Cardinality(S) \in Nat
  BY FS_CardinalityType
<1>2. ASSUME NEW c \in S
      PROVE  Rank(S, c) \in 1 .. Cardinality(S)
  <2> DEFINE upTo == {d \in S : d <= c}
  <2>1. IsFiniteSet(upTo) /\ Cardinality(upTo) <= Cardinality(S)
    BY FS_Subset, upTo \in SUBSET S
  <2>2. c \in upTo
    OBVIOUS
  <2>3. Cardinality(upTo) \in Nat /\ Cardinality(upTo) # 0
    BY <2>1, <2>2, FS_CardinalityType, FS_EmptySet
  <2> QED
    BY <1>1, <2>1, <2>3 DEF Rank
<1>3. ASSUME NEW c \in S, NEW d \in S, c < d
      PROVE  Rank(S, c) < Rank(S, d)
  <2> DEFINE upTo(k) == {m \in S : m <= k}
  <2>1. upTo(c) \in SUBSET upTo(d) /\ d \in upTo(d) /\ d \notin upTo(c)
    <3>1. c \in Int /\ d \in Int /\ \A m \in S : m \in Int
      OBVIOUS
    <3>2. \A m \in S : m <= c => m <= d
      BY <3>1, <1>3
    <3>3. d <= d /\ ~ (d <= c)
      BY <3>1, <1>3
    <3> QED
      BY <3>2, <3>3
  <2>2. IsFiniteSet(upTo(d)) /\ IsFiniteSet(upTo(c))
    BY FS_Subset, upTo(c) \in SUBSET S, upTo(d) \in SUBSET S
  <2>3. Cardinality(upTo(c)) <= Cardinality(upTo(d)) /\ Cardinality(upTo(c)) # Cardinality(upTo(d))
    BY <2>1, <2>2, FS_Subset
  <2>4. Cardinality(upTo(c)) \in Nat /\ Cardinality(upTo(d)) \in Nat
    BY <2>2, FS_CardinalityType
  <2> QED
    BY <2>3, <2>4 DEF Rank
<1> QED
  BY <1>1, <1>2, <1>3

\* Every number up to the size of the set is the rank of one member.
LEMMA Ranked ==
  ASSUME NEW S \in SUBSET Int, IsFiniteSet(S), NEW k \in 1 .. Cardinality(S)
  PROVE  \E c \in S : Rank(S, c) = k
<1> DEFINE rank == [c \in S |-> Rank(S, c)]
           n == Cardinality(S)
<1>1. n \in Nat /\ IsFiniteSet(1 .. n) /\ Cardinality(1 .. n) = n
  <2>1. n \in Nat
    BY Ranks
  <2> QED
    BY <2>1, NumbersCounted
<1>2. rank \in [S -> 1 .. n]
  BY Ranks
<1>3. \A c, d \in S : rank[c] = rank[d] => c = d
  <2> SUFFICES ASSUME NEW c \in S, NEW d \in S, c # d PROVE rank[c] # rank[d]
    OBVIOUS
  <2>1. c \in Int /\ d \in Int /\ (c < d \/ d < c)
    OBVIOUS
  <2>2. Rank(S, c) \in Nat /\ Rank(S, d) \in Nat
    BY Ranks
  <2>3. Rank(S, c) < Rank(S, d) \/ Rank(S, d) < Rank(S, c)
    BY <2>1, Ranks
  <2> QED
    BY <2>2, <2>3
<1>4. rank \in Injection(S, 1 .. n)
  BY <1>2, <1>3 DEF Injection, IsInjective
<1>5. rank \in Surjection(S, 1 .. n)
  BY <1>1, <1>4, FS_Injection
<1> QED
  BY <1>5 DEF Surjection

\* The rank of a member is one more than the number of smaller ones.
LEMMA Smaller ==
  ASSUME NEW S \in SUBSET Int, IsFiniteSet(S), NEW c \in S
  PROVE  /\ Cardinality({d \in S : d < c}) \in Nat
         /\ Rank(S, c) = Cardinality({d \in S : d < c}) + 1
<1> DEFINE upTo == {d \in S : d <= c}
           below == {d \in S : d < c}
<1>1. IsFiniteSet(upTo) /\ IsFiniteSet(below)
  BY FS_Subset, upTo \in SUBSET S, below \in SUBSET S
<1>2. upTo = below \cup {c} /\ c \notin below
  <2>1. c \in Int /\ \A d \in S : d \in Int
    OBVIOUS
  <2>2. \A d \in S : d <= c <=> (d < c \/ d = c)
    BY <2>1
  <2>3. ~ (c < c)
    BY <2>1
  <2> QED
    BY <2>2, <2>3
<1>3. Cardinality(upTo) = Cardinality(below) + 1
  BY <1>1, <1>2, FS_AddElement
<1> QED
  BY <1>1, <1>3, FS_CardinalityType DEF Rank

\* There is a smallest member.
LEMMA Smallest ==
  ASSUME NEW S \in SUBSET Int, IsFiniteSet(S), S # {}
  PROVE  \E c \in S : \A d \in S : c <= d
<1>1. Cardinality(S) \in Nat /\ Cardinality(S) # 0
  BY FS_CardinalityType, FS_EmptySet
<1>2. PICK c \in S : Rank(S, c) = 1
  BY <1>1, Ranked, 1 \in 1 .. Cardinality(S)
<1>3. ASSUME NEW d \in S, d < c
      PROVE  FALSE
  <2>1. Rank(S, d) < Rank(S, c) /\ Rank(S, d) \in 1 .. Cardinality(S)
    BY <1>3, Ranks
  <2> QED
    BY <1>1, <1>2, <2>1
<1>4. \A d \in S : c <= d
  <2>1. \A d \in S : d \in Int /\ c \in Int
    OBVIOUS
  <2> QED
    BY <1>3, <2>1
<1> QED
  BY <1>4

\* Positions of a sequence are such a set.
LEMMA PositionsFinite ==
  ASSUME NEW n \in Nat, NEW at \in SUBSET (1 .. n)
  PROVE  IsFiniteSet(at) /\ Cardinality(at) \in 0 .. n /\ at \in SUBSET Int
<1>1. IsFiniteSet(1 .. n) /\ Cardinality(1 .. n) = n
  BY NumbersCounted
<1>2. IsFiniteSet(at) /\ Cardinality(at) <= n
  BY <1>1, FS_Subset
<1>3. Cardinality(at) \in Nat
  BY <1>2, FS_CardinalityType
<1> QED
  BY <1>2, <1>3

\* Pick follows a rising numbering of the positions.
LEMMA PickPositions ==
  ASSUME NEW S, NEW s \in Seq(S), NEW at \in SUBSET DOMAIN s
  PROVE  \E pos \in [1 .. Cardinality(at) -> at] :
           /\ \A m, n \in 1 .. Cardinality(at) : m < n => pos[m] < pos[n]
           /\ \A i \in at : \E n \in 1 .. Cardinality(at) : pos[n] = i
           /\ Pick(s, at) = [n \in 1 .. Cardinality(at) |-> s[pos[n]]]
<1> DEFINE c == Cardinality(at)
           pos == [n \in 1 .. c |-> CHOOSE i \in at : Rank(at, i) = n]
<1>1. /\ Len(s) \in Nat /\ at \in SUBSET (1 .. Len(s))
     /\ at \in SUBSET Int /\ IsFiniteSet(at)
  BY PositionsFinite
<1>2. \A n \in 1 .. c : pos[n] \in at /\ Rank(at, pos[n]) = n
  BY <1>1, Ranked
<1>3. pos \in [1 .. c -> at] 
  BY <1>2
<1>4. ASSUME NEW m \in 1 .. c, NEW n \in 1 .. c, m < n
      PROVE  pos[m] < pos[n]
  <2>1. pos[m] \in Nat /\ pos[n] \in Nat /\ Rank(at, pos[m]) = m /\ Rank(at, pos[n]) = n
    BY <1>1, <1>2
  <2>2. CASE pos[m] = pos[n]
    <3>1. m = n
      BY <2>1, <2>2
    <3>2. m \in Nat
      OBVIOUS
    <3> QED
      BY <3>1, <3>2, <1>4
  <2>3. CASE pos[n] < pos[m]
    <3>1. Rank(at, pos[n]) < Rank(at, pos[m])
      BY <1>1, <1>2, <2>3, Ranks
    <3>2. c \in Nat
      BY <1>1, Ranks
    <3> QED
      BY <3>1, <3>2, <2>1, <1>4
  <2> QED
    BY <2>1, <2>2, <2>3
<1>5. ASSUME NEW i \in at
      PROVE  \E n \in 1 .. c : pos[n] = i
  <2>1. Rank(at, i) \in 1 .. c
    BY <1>1, Ranks
  <2>2. pos[Rank(at, i)] \in at /\ Rank(at, pos[Rank(at, i)]) = Rank(at, i)
    BY <2>1, <1>2
  <2>3. \A j \in at : Rank(at, j) = Rank(at, i) => j = i
    <3> SUFFICES ASSUME NEW j \in at, j # i PROVE Rank(at, j) # Rank(at, i)
      OBVIOUS
    <3>1. Rank(at, i) \in Nat /\ Rank(at, j) \in Nat
      BY <1>1, Ranks
    <3>2. i < j \/ j < i
      BY <1>1
    <3>3. Rank(at, i) < Rank(at, j) \/ Rank(at, j) < Rank(at, i)
      BY <1>1, <3>2, Ranks
    <3> QED
      BY <3>1, <3>3
  <2>4. pos[Rank(at, i)] = i
    BY <2>2, <2>3
  <2> QED
    BY <2>1, <2>4
<1>6. Pick(s, at) = [n \in 1 .. c |-> s[pos[n]]]
  BY DEF Pick
<1> HIDE DEF pos
<1> QED
  BY <1>3, <1>4, <1>5, <1>6

\* What is picked, how much it is, and that nothing else is.
LEMMA Picked ==
  ASSUME NEW S, NEW s \in Seq(S), NEW at \in SUBSET DOMAIN s
  PROVE  /\ Pick(s, at) \in Seq(S)
         /\ Len(Pick(s, at)) = Cardinality(at)
         /\ \A n \in DOMAIN Pick(s, at) : \E i \in at : Pick(s, at)[n] = s[i]
         /\ \A i \in at : \E n \in DOMAIN Pick(s, at) : Pick(s, at)[n] = s[i]
<1> DEFINE c == Cardinality(at)
<1>1. c \in Nat
  BY PositionsFinite, Len(s) \in Nat, at \in SUBSET (1 .. Len(s))
<1>2. PICK pos \in [1 .. c -> at] :
        /\ \A i \in at : \E n \in 1 .. c : pos[n] = i
        /\ Pick(s, at) = [n \in 1 .. c |-> s[pos[n]]]
  BY PickPositions
<1>3. \A n \in 1 .. c : s[pos[n]] \in S
  BY <1>2
<1>4. Pick(s, at) \in Seq(S) /\ Len(Pick(s, at)) = c /\ DOMAIN Pick(s, at) = 1 .. c
  BY <1>1, <1>2, <1>3
<1>5. \A n \in 1 .. c : Pick(s, at)[n] = s[pos[n]] /\ pos[n] \in at
  BY <1>2
<1>6. \A i \in at : \E n \in 1 .. c : Pick(s, at)[n] = s[i]
  BY <1>2, <1>5
<1> QED
  BY <1>4, <1>5, <1>6

-----------------------------------------------------------------------------
(* The catalog *)

AnyName == Name \cup {DefaultName}

Entry == [room : Room, name : AnyName, color : Int]

\* No board is listed twice.
CatalogType == {c \in Seq(Entry) : \A i, j \in DOMAIN c : i # j => c[i].room # c[j].room}

\* Equal names have different colours, as long as there are some.
Colored(cat) == Catalog!UniqueColors(cat) /\ Catalog!ColorsUsed(cat)

TidyCatalog == {c \in CatalogType : Colored(c)}

-----------------------------------------------------------------------------
(* Colours *)

\* The instance counts and picks as the modules it extends say.
LEMMA SameSize == \A S : Catalog!Cardinality(S) = Cardinality(S)
<1> SUFFICES ASSUME NEW S PROVE Catalog!Cardinality(S) = Cardinality(S)
  OBVIOUS
<1> QED
  BY DEF Catalog!Cardinality, Cardinality

LEMMA SamePick ==
  ASSUME NEW s, NEW at
  PROVE  Catalog!Pick(s, at) = Pick(s, at)
BY DEF Catalog!Pick, Pick, Catalog!Rank, Rank, Catalog!Cardinality, Cardinality

\* Nth finds the colour with nr smaller ones, if there are enough colours.
LEMMA NthOf ==
  ASSUME NEW S \in SUBSET Int, IsFiniteSet(S), NEW nr \in Nat
  PROVE  /\ nr < Cardinality(S) =>
              /\ Catalog!Nth(S, nr) \in S
              /\ Cardinality({d \in S : d < Catalog!Nth(S, nr)}) = nr
         /\ ~ nr < Cardinality(S) => Catalog!Nth(S, nr) = Catalog!NoColor
<1> DEFINE at == {c \in S : Cardinality({d \in S : d < c}) = nr}
<1>1. CASE nr < Cardinality(S)
  <2>1. nr + 1 \in 1 .. Cardinality(S)
    BY <1>1, FS_CardinalityType
  <2>2. PICK c \in S : Rank(S, c) = nr + 1
    BY <2>1, Ranked
  <2>3. Cardinality({d \in S : d < c}) = nr
    <3>1. Cardinality({d \in S : d < c}) \in Nat /\ Rank(S, c) = Cardinality({d \in S : d < c}) + 1
      BY Smaller
    <3> QED
      BY <3>1, <2>2
  <2>4. c \in at
    BY <2>3
  <2>5. Catalog!Nth(S, nr) \in at
    BY <2>4, SameSize DEF Catalog!Nth
  <2> QED
    BY <1>1, <2>5
<1>2. CASE ~ nr < Cardinality(S)
  <2>1. \A c \in S : Cardinality({d \in S : d < c}) # nr
    <3> SUFFICES ASSUME NEW c \in S PROVE Cardinality({d \in S : d < c}) # nr
      OBVIOUS
    <3>1. Rank(S, c) \in 1 .. Cardinality(S) /\ Cardinality(S) \in Nat
      BY Ranks
    <3>2. Cardinality({d \in S : d < c}) \in Nat /\ Rank(S, c) = Cardinality({d \in S : d < c}) + 1
      BY Smaller
    <3> QED
      BY <1>2, <3>1, <3>2
  <2>2. at = {}
    BY <2>1
  <2> QED
    BY <1>2, <2>2, SameSize DEF Catalog!Nth
<1> QED
  BY <1>1, <1>2

LEMMA ColorsFinite ==
  /\ IsFiniteSet(Catalog!ColorIndex) /\ Cardinality(Catalog!ColorIndex) = Colors
  /\ Catalog!ColorIndex \in SUBSET Nat
<1>1. Colors \in Nat
  BY BoundAssumption
<1>2. CASE Colors = 0
  <2>1. Catalog!ColorIndex = {}
    BY <1>2 DEF Catalog!ColorIndex
  <2> QED
    BY <1>2, <2>1, FS_EmptySet
<1>3. CASE Colors # 0
  <2> DEFINE shift == [c \in Catalog!ColorIndex |-> c + 1]
  <2>1. IsFiniteSet(1 .. Colors) /\ Cardinality(1 .. Colors) = Colors
    BY <1>1, NumbersCounted
  <2>2. shift \in [Catalog!ColorIndex -> 1 .. Colors]
    BY <1>1 DEF Catalog!ColorIndex
  <2>3. \A c, d \in Catalog!ColorIndex : shift[c] = shift[d] => c = d
    BY <1>1 DEF Catalog!ColorIndex
  <2>4. \A k \in 1 .. Colors : \E c \in Catalog!ColorIndex : shift[c] = k
    <3> SUFFICES ASSUME NEW k \in 1 .. Colors
                 PROVE  \E c \in Catalog!ColorIndex : shift[c] = k
      OBVIOUS
    <3>1. k - 1 \in Catalog!ColorIndex /\ shift[k - 1] = k
      BY <1>1 DEF Catalog!ColorIndex
    <3> QED
      BY <3>1
  <2> HIDE DEF shift
  <2>5. shift \in Bijection(Catalog!ColorIndex, 1 .. Colors)
    BY <2>2, <2>3, <2>4 DEF Bijection, Injection, Surjection, IsInjective
  <2>6. ExistsBijection(Catalog!ColorIndex, 1 .. Colors)
    BY <2>5 DEF ExistsBijection
  <2>7. ExistsBijection(1 .. Colors, Catalog!ColorIndex)
    BY <2>6, Fun_ExistsBijSymmetric
  <2>8. IsFiniteSet(Catalog!ColorIndex) /\ Cardinality(Catalog!ColorIndex) = Cardinality(1 .. Colors)
    BY <2>1, <2>7, FS_Bijection
  <2>9. Catalog!ColorIndex \in SUBSET Nat
    BY <1>1 DEF Catalog!ColorIndex
  <2> QED
    BY <2>1, <2>8, <2>9
<1> QED
  BY <1>2, <1>3

-----------------------------------------------------------------------------
(* Reconciling *)

\* The entries of the name of entry i that keep their colour, and the older
\* ones that do not.
Keepers(cat, i) == {j \in Catalog!Group(cat, cat[i].name) : Catalog!Keeps(cat, j)}
Before(cat, i) ==
  {j \in Catalog!Group(cat, cat[i].name) : j < i /\ ~ Catalog!Keeps(cat, j)}

\* Reconciling changes colours only.
LEMMA ReconciledEntries ==
  ASSUME NEW cat \in Seq(Entry)
  PROVE  LET new == Catalog!Reconciled(cat)
         IN /\ new \in Seq(Entry) /\ DOMAIN new = DOMAIN cat /\ Len(new) = Len(cat)
            /\ \A i \in DOMAIN cat :
                 /\ new[i].room = cat[i].room /\ new[i].name = cat[i].name
                 /\ Catalog!Keeps(cat, i) => new[i].color = cat[i].color
                 /\ ~ Catalog!Keeps(cat, i) =>
                      new[i].color = Catalog!Nth(Catalog!Free(cat, cat[i].name),
                                                 Cardinality(Before(cat, i)))
<1> DEFINE new == Catalog!Reconciled(cat)
           given(i) == Catalog!Nth(Catalog!Free(cat, cat[i].name), Cardinality(Before(cat, i)))
<1>1. new = [i \in DOMAIN cat |->
               IF Catalog!Keeps(cat, i) THEN cat[i] ELSE [cat[i] EXCEPT !.color = given(i)]]
  BY SameSize DEF Catalog!Reconciled, Before
<1>2. \A i \in DOMAIN cat : given(i) \in Int
  <2> SUFFICES ASSUME NEW i \in DOMAIN cat PROVE given(i) \in Int
    OBVIOUS
  <2> DEFINE S == Catalog!Free(cat, cat[i].name)
  <2>1. S \in SUBSET Int /\ IsFiniteSet(S)
    <3>1. S \in SUBSET Catalog!ColorIndex
      BY DEF Catalog!Free
    <3>2. IsFiniteSet(S)
      BY <3>1, ColorsFinite, FS_Subset
    <3>3. Catalog!ColorIndex \in SUBSET Int
      BY ColorsFinite, Nat \in SUBSET Int
    <3> QED
      BY <3>1, <3>2, <3>3
  <2>2. IsFiniteSet(Before(cat, i)) /\ Before(cat, i) \in SUBSET DOMAIN cat
    <3>1. Before(cat, i) \in SUBSET DOMAIN cat
      BY DEF Before, Catalog!Group
    <3> QED
      BY <3>1, PositionsFinite, Len(cat) \in Nat, DOMAIN cat = 1 .. Len(cat)
  <2>3. Cardinality(Before(cat, i)) \in Nat
    BY <2>2, FS_CardinalityType
  <2>4. Catalog!NoColor \in Int
    BY DEF Catalog!NoColor
  <2> HIDE DEF S
  <2>5. Catalog!Nth(S, Cardinality(Before(cat, i))) \in Int
    BY <2>1, <2>3, <2>4, NthOf
  <2> QED
    BY <2>5 DEF S
<1> HIDE DEF given
<1>3. \A i \in DOMAIN cat : cat[i] \in Entry
  OBVIOUS
<1>4. \A i \in DOMAIN cat :
        /\ new[i] \in Entry
        /\ new[i].room = cat[i].room /\ new[i].name = cat[i].name
        /\ Catalog!Keeps(cat, i) => new[i].color = cat[i].color
        /\ ~ Catalog!Keeps(cat, i) => new[i].color = given(i)
  BY <1>1, <1>2, <1>3 DEF Entry
<1>5. new \in Seq(Entry) /\ DOMAIN new = DOMAIN cat /\ Len(new) = Len(cat)
  <2>1. new = [i \in 1 .. Len(cat) |-> new[i]] /\ Len(cat) \in Nat
    BY <1>1
  <2>2. \A i \in 1 .. Len(cat) : new[i] \in Entry
    BY <1>4
  <2> QED
    BY <2>1, <2>2
<1> QED
  BY <1>4, <1>5 DEF given

\* Numbers of a group, for entry i: its keepers have one colour each, the other
\* colours are free, and an entry that keeps none has its place among the rest.
LEMMA GroupNumbers ==
  ASSUME NEW cat \in Seq(Entry), NEW i \in DOMAIN cat
  PROVE  LET free == Catalog!Free(cat, cat[i].name)
         IN /\ IsFiniteSet(free) /\ free \in SUBSET Catalog!ColorIndex
            /\ \A c \in Catalog!ColorIndex \ free : \E j \in Keepers(cat, i) : cat[j].color = c
            /\ \A j \in Keepers(cat, i) : cat[j].color \in Catalog!ColorIndex \ free
            /\ IsFiniteSet(Before(cat, i)) /\ Before(cat, i) \in SUBSET DOMAIN cat
            /\ Cardinality(Before(cat, i)) \in Nat
            /\ Cardinality(free) \in Nat
            /\ ~ Catalog!Keeps(cat, i) /\ Cardinality(Before(cat, i)) >= Cardinality(free) =>
                 Cardinality(Catalog!Group(cat, cat[i].name)) > Colors
<1> DEFINE free == Catalog!Free(cat, cat[i].name)
           group == Catalog!Group(cat, cat[i].name)
           keepers == Keepers(cat, i)
           before == Before(cat, i)
           color == [j \in keepers |-> cat[j].color]
           used == {cat[j].color : j \in keepers}
<1>1. /\ group \in SUBSET DOMAIN cat /\ keepers \in SUBSET group /\ before \in SUBSET group
      /\ i \in group
  BY DEF Catalog!Group, Keepers, Before
<1>2. IsFiniteSet(group) /\ group \in SUBSET Int
  BY <1>1, PositionsFinite, Len(cat) \in Nat, DOMAIN cat = 1 .. Len(cat)
<1>3. IsFiniteSet(keepers) /\ IsFiniteSet(before)
  BY <1>1, <1>2, FS_Subset
<1>4. /\ free = Catalog!ColorIndex \ used
  BY DEF Catalog!Free, Keepers
<1>5. used \in SUBSET Catalog!ColorIndex
  BY DEF Keepers, Catalog!Keeps
<1>6. IsFiniteSet(free) /\ IsFiniteSet(used)
  BY <1>4, <1>5, ColorsFinite, FS_Subset, free \in SUBSET Catalog!ColorIndex
<1>7. Cardinality(free) = Colors - Cardinality(used)
  <2>1. Cardinality(Catalog!ColorIndex \ used) =
          Cardinality(Catalog!ColorIndex) - Cardinality(Catalog!ColorIndex \cap used)
    BY ColorsFinite, FS_Difference
  <2>2. Catalog!ColorIndex \cap used = used
    BY <1>5
  <2> QED
    BY <1>4, <2>1, <2>2, ColorsFinite
<1>8. Cardinality(used) <= Cardinality(keepers)
  <2>1. color \in Surjection(keepers, used)
    BY DEF Surjection
  <2> QED
    BY <1>3, <2>1, FS_Surjection
<1>9. ASSUME ~ Catalog!Keeps(cat, i)
      PROVE  Cardinality(keepers) + Cardinality(before) + 1 <= Cardinality(group)
  <2>1. keepers \cap before = {} /\ i \notin keepers \cup before
    <3>1. ~ (i < i)
      BY <1>1, <1>2
    <3> QED
      BY <1>9, <3>1 DEF Keepers, Before
  <2>2. /\ IsFiniteSet(keepers \cup before)
        /\ Cardinality(keepers \cup before) =
             Cardinality(keepers) + Cardinality(before) - Cardinality(keepers \cap before)
    BY <1>3, FS_Union
  <2>3. Cardinality(keepers \cap before) = 0
    BY <2>1, FS_EmptySet
  <2>4. /\ IsFiniteSet((keepers \cup before) \cup {i})
        /\ Cardinality((keepers \cup before) \cup {i}) = Cardinality(keepers \cup before) + 1
    BY <2>1, <2>2, FS_AddElement
  <2>5. Cardinality((keepers \cup before) \cup {i}) <= Cardinality(group)
    BY <1>1, <1>2, FS_Subset, ((keepers \cup before) \cup {i}) \in SUBSET group
  <2>6. Cardinality(keepers) \in Nat /\ Cardinality(before) \in Nat
    BY <1>3, FS_CardinalityType
  <2> QED
    BY <2>2, <2>3, <2>4, <2>5, <2>6
<1>10. /\ Cardinality(keepers) \in Nat /\ Cardinality(before) \in Nat
       /\ Cardinality(free) \in Nat /\ Cardinality(used) \in Nat /\ Cardinality(group) \in Nat
       /\ Colors \in Nat
  BY <1>2, <1>3, <1>6, FS_CardinalityType, BoundAssumption
<1>11. ~ Catalog!Keeps(cat, i) /\ Cardinality(before) >= Cardinality(free) =>
         Cardinality(group) > Colors
  BY <1>7, <1>8, <1>9, <1>10
<1>12. /\ \A c \in Catalog!ColorIndex \ free : \E j \in keepers : cat[j].color = c
       /\ \A j \in keepers : cat[j].color \in Catalog!ColorIndex \ free
  BY <1>4, <1>5
<1>13. before \in SUBSET DOMAIN cat /\ free \in SUBSET Catalog!ColorIndex
  BY <1>1, <1>4
<1> HIDE DEF free, group, keepers, before, used
<1> QED
  BY <1>3, <1>6, <1>10, <1>11, <1>12, <1>13 DEF free, group, keepers, before

\* Of two entries of a name that keep no colour the older one has fewer before it.
LEMMA BeforeGrows ==
  ASSUME NEW cat \in Seq(Entry), NEW i \in DOMAIN cat, NEW j \in DOMAIN cat,
         cat[i].name = cat[j].name, ~ Catalog!Keeps(cat, i), i < j
  PROVE  Cardinality(Before(cat, i)) < Cardinality(Before(cat, j))
<1>1. i \in Int /\ j \in Int /\ DOMAIN cat \in SUBSET Int
  OBVIOUS
<1>2. Before(cat, i) \in SUBSET Before(cat, j)
  <2>1. \A k \in DOMAIN cat : k < i => k < j
    BY <1>1
  <2> QED
    BY <2>1 DEF Before, Catalog!Group
<1>3. i \in Before(cat, j) /\ i \notin Before(cat, i)
  <2>1. ~ (i < i)
    BY <1>1
  <2> QED
    BY <2>1 DEF Before, Catalog!Group
<1>4. /\ IsFiniteSet(Before(cat, j)) /\ Cardinality(Before(cat, i)) \in Nat
      /\ Cardinality(Before(cat, j)) \in Nat
  BY GroupNumbers
<1>5. /\ Cardinality(Before(cat, i)) <= Cardinality(Before(cat, j))
      /\ Cardinality(Before(cat, i)) # Cardinality(Before(cat, j))
  BY <1>2, <1>3, <1>4, FS_Subset
<1> QED
  BY <1>4, <1>5

\* Every place in the order of those that keep none is taken up to the last.
LEMMA PlaceTaken ==
  ASSUME NEW cat \in Seq(Entry), NEW i \in DOMAIN cat, NEW k \in Nat,
         k < Cardinality(Before(cat, i))
  PROVE  \E j \in Before(cat, i) : Cardinality(Before(cat, j)) = k
<1> DEFINE before == Before(cat, i)
<1>1. /\ before \in SUBSET Int /\ IsFiniteSet(before) /\ Cardinality(before) \in Nat
      /\ before \in SUBSET DOMAIN cat /\ i \in Int /\ DOMAIN cat \in SUBSET Int
  <2>1. DOMAIN cat \in SUBSET Int
    OBVIOUS
  <2> QED
    BY <2>1, GroupNumbers
<1>2. k + 1 \in 1 .. Cardinality(before)
  BY <1>1
<1>3. PICK j \in before : Rank(before, j) = k + 1
  BY <1>1, <1>2, Ranked
<1>4. {m \in before : m < j} = Before(cat, j)
  <2>1. j < i /\ cat[j].name = cat[i].name
    BY DEF Before, Catalog!Group
  <2>2. \A m \in DOMAIN cat : m < j => m < i
    BY <1>1, <2>1
  <2> QED
    BY <2>1, <2>2 DEF Before, Catalog!Group
<1>5. /\ Cardinality({m \in before : m < j}) \in Nat
      /\ Rank(before, j) = Cardinality({m \in before : m < j}) + 1
  BY <1>1, Smaller
<1>6. Cardinality(Before(cat, j)) = k
  <2> DEFINE size == Cardinality(Before(cat, j))
  <2>1. size \in Nat /\ Rank(before, j) = size + 1
    BY <1>4, <1>5
  <2> HIDE DEF size
  <2>2. size = k
    BY <1>3, <2>1
  <2> QED
    BY <2>2 DEF size
<1> QED
  BY <1>6

\* cb_reconcile_board_colors: equal names get different colours, and an entry
\* goes without one only when all are in use.
LEMMA ReconciledColors ==
  ASSUME NEW cat \in Seq(Entry)
  PROVE  Colored(Catalog!Reconciled(cat))
<1> DEFINE new == Catalog!Reconciled(cat)
           free(i) == Catalog!Free(cat, cat[i].name)
           place(i) == Cardinality(Before(cat, i))
           size(i) == Cardinality(free(i))
<1>1. /\ DOMAIN new = DOMAIN cat
      /\ \A i \in DOMAIN cat :
           /\ new[i].name = cat[i].name
           /\ Catalog!Keeps(cat, i) => new[i].color = cat[i].color
           /\ ~ Catalog!Keeps(cat, i) => new[i].color = Catalog!Nth(free(i), place(i))
  BY ReconciledEntries
<1>2. \A i \in DOMAIN cat :
        /\ free(i) \in SUBSET Catalog!ColorIndex /\ size(i) \in Nat /\ place(i) \in Nat
        /\ place(i) < size(i) =>
             /\ Catalog!Nth(free(i), place(i)) \in free(i)
             /\ Cardinality({d \in free(i) : d < Catalog!Nth(free(i), place(i))}) = place(i)
        /\ ~ place(i) < size(i) => Catalog!Nth(free(i), place(i)) = Catalog!NoColor
  <2> SUFFICES ASSUME NEW i \in DOMAIN cat
               PROVE  /\ free(i) \in SUBSET Catalog!ColorIndex
                      /\ size(i) \in Nat /\ place(i) \in Nat
                      /\ place(i) < size(i) =>
                           /\ Catalog!Nth(free(i), place(i)) \in free(i)
                           /\ Cardinality({d \in free(i) : d < Catalog!Nth(free(i), place(i))})
                                = place(i)
                      /\ ~ place(i) < size(i) => Catalog!Nth(free(i), place(i)) = Catalog!NoColor
    OBVIOUS
  <2>1. IsFiniteSet(free(i)) /\ free(i) \in SUBSET Catalog!ColorIndex /\ size(i) \in Nat
        /\ place(i) \in Nat
    BY GroupNumbers
  <2>2. free(i) \in SUBSET Int
    BY <2>1, ColorsFinite, Nat \in SUBSET Int
  <2> HIDE DEF free, place
  <2> QED
    BY <2>1, <2>2, NthOf
<1>3. Catalog!NoColor \notin Catalog!ColorIndex
  BY ColorsFinite DEF Catalog!NoColor
<1>4. \A i \in DOMAIN cat : Catalog!Group(new, new[i].name) = Catalog!Group(cat, cat[i].name)
  BY <1>1 DEF Catalog!Group
<1>5. \A i, j \in DOMAIN cat : cat[i].name = cat[j].name => free(i) = free(j) /\ size(i) = size(j)
  OBVIOUS
<1>6. \A i \in DOMAIN cat : ~ Catalog!Keeps(cat, i) /\ ~ place(i) < size(i) =>
        Cardinality(Catalog!Group(new, new[i].name)) > Colors
  <2> SUFFICES ASSUME NEW i \in DOMAIN cat, ~ Catalog!Keeps(cat, i), ~ place(i) < size(i)
               PROVE  Cardinality(Catalog!Group(new, new[i].name)) > Colors
    OBVIOUS
  <2>1. place(i) >= size(i)
    <3>1. place(i) \in Nat /\ size(i) \in Nat
      BY <1>2
    <3> HIDE DEF place, size
    <3> QED
      BY <3>1
  <2>2. Cardinality(Catalog!Group(cat, cat[i].name)) > Colors
    BY <2>1, GroupNumbers
  <2> QED
    BY <1>4, <2>2
<1>7. \A i \in DOMAIN cat : Catalog!Keeps(cat, i) => cat[i].color \in Catalog!ColorIndex \ free(i)
  <2> SUFFICES ASSUME NEW i \in DOMAIN cat, Catalog!Keeps(cat, i)
               PROVE  cat[i].color \in Catalog!ColorIndex \ free(i)
    OBVIOUS
  <2>1. i \in Keepers(cat, i)
    BY DEF Keepers, Catalog!Group
  <2> QED
    BY <2>1, GroupNumbers
<1>8. ASSUME NEW i \in DOMAIN cat, NEW j \in DOMAIN cat, i < j, cat[i].name = cat[j].name
      PROVE  \/ new[i].color # new[j].color
             \/ /\ new[i].color = Catalog!NoColor /\ new[j].color = Catalog!NoColor
                /\ Cardinality(Catalog!Group(new, new[i].name)) > Colors
  <2>1. CASE Catalog!Keeps(cat, j)
    <3>1. cat[i].color # cat[j].color
      BY <1>8, <2>1 DEF Catalog!Keeps, Catalog!Group
    <3>2. CASE Catalog!Keeps(cat, i)
      BY <1>1, <2>1, <3>1, <3>2
    <3>3. CASE ~ Catalog!Keeps(cat, i)
      <4>1. new[j].color \in Catalog!ColorIndex \ free(i)
        BY <1>1, <1>5, <1>7, <1>8, <2>1
      <4>2. new[i].color \in free(i) \/ new[i].color = Catalog!NoColor
        BY <1>1, <1>2, <3>3
      <4> HIDE DEF new, free
      <4> QED
        BY <1>3, <4>1, <4>2
    <3> QED
      BY <3>2, <3>3
  <2>2. CASE ~ Catalog!Keeps(cat, j) /\ Catalog!Keeps(cat, i)
    <3>1. new[i].color \in Catalog!ColorIndex \ free(j)
      BY <1>1, <1>5, <1>7, <1>8, <2>2
    <3>2. new[j].color \in free(j) \/ new[j].color = Catalog!NoColor
      BY <1>1, <1>2, <2>2
    <3> HIDE DEF new, free
    <3> QED
      BY <1>3, <3>1, <3>2
  <2>3. CASE ~ Catalog!Keeps(cat, j) /\ ~ Catalog!Keeps(cat, i)
    <3>1. place(i) < place(j) /\ place(i) \in Nat /\ place(j) \in Nat /\ size(i) = size(j)
          /\ size(i) \in Nat /\ free(i) = free(j)
      BY <1>2, <1>5, <1>8, <2>3, BeforeGrows
    <3>2. new[i].color = Catalog!Nth(free(i), place(i)) /\ new[j].color = Catalog!Nth(free(i), place(j))
      BY <1>1, <2>3, <3>1
    <3>3. CASE place(j) < size(j)
      <4>1. place(i) < size(i)
        BY <3>1, <3>3
      <4>2. /\ Cardinality({d \in free(i) : d < new[i].color}) = place(i)
            /\ Cardinality({d \in free(i) : d < new[j].color}) = place(j)
        BY <1>2, <3>1, <3>2, <3>3, <4>1
      <4>3. place(i) # place(j)
        <5> HIDE DEF place
        <5> QED
          BY <3>1
      <4> HIDE DEF new, place, free
      <4> QED
        BY <4>2, <4>3
    <3>4. CASE ~ place(j) < size(j) /\ place(i) < size(i)
      <4>1. new[j].color = Catalog!NoColor
        BY <1>2, <3>1, <3>2, <3>4
      <4>2. new[i].color \in Catalog!ColorIndex
        BY <1>2, <3>2, <3>4
      <4> HIDE DEF new
      <4> QED
        BY <1>3, <4>1, <4>2
    <3>5. CASE ~ place(j) < size(j) /\ ~ place(i) < size(i)
      <4>1. new[i].color = Catalog!NoColor
        BY <1>2, <3>2, <3>5
      <4>2. new[j].color = Catalog!NoColor
        BY <1>2, <3>1, <3>2, <3>5
      <4>3. Cardinality(Catalog!Group(new, new[i].name)) > Colors
        BY <1>6, <2>3, <3>5
      <4> QED
        BY <4>1, <4>2, <4>3
    <3> QED
      BY <3>3, <3>4, <3>5
  <2> QED
    BY <2>1, <2>2, <2>3
<1>9. Catalog!UniqueColors(new)
  <2> SUFFICES ASSUME NEW i \in DOMAIN cat, NEW j \in DOMAIN cat, i # j,
                      cat[i].name = cat[j].name
               PROVE  \/ new[i].color # new[j].color
                      \/ /\ new[i].color = Catalog!NoColor
                         /\ Cardinality(Catalog!Group(new, new[i].name)) > Colors
    BY <1>1, SameSize DEF Catalog!UniqueColors
  <2>1. i < j \/ j < i
    OBVIOUS
  <2>2. Catalog!Group(new, new[i].name) = Catalog!Group(new, new[j].name)
    BY <1>4
  <2> HIDE DEF new
  <2> QED
    BY <1>8, <2>1, <2>2
<1>10. Catalog!ColorsUsed(new)
  <2> SUFFICES ASSUME NEW i \in DOMAIN cat, new[i].color = Catalog!NoColor,
                      NEW c \in Catalog!ColorIndex
               PROVE  \E j \in Catalog!Group(new, new[i].name) : new[j].color = c
    BY <1>1 DEF Catalog!ColorsUsed
  <2>1. ~ Catalog!Keeps(cat, i)
    BY <1>1, <1>3 DEF Catalog!Keeps
  <2>2. new[i].color = Catalog!Nth(free(i), place(i))
    BY <1>1, <2>1
  <2>3. ~ place(i) < size(i)
    <3> SUFFICES ASSUME place(i) < size(i) PROVE FALSE
      OBVIOUS
    <3>1. new[i].color \in Catalog!ColorIndex
      BY <1>2, <2>2
    <3> HIDE DEF new
    <3> QED
      BY <1>3, <3>1
  <2>4. CASE c \notin free(i)
    <3>1. PICK j \in Keepers(cat, i) : cat[j].color = c
      BY <2>4, GroupNumbers
    <3>2. j \in Catalog!Group(cat, cat[i].name) /\ j \in DOMAIN cat /\ Catalog!Keeps(cat, j)
      BY DEF Keepers, Catalog!Group
    <3>3. new[j].color = c
      BY <1>1, <3>1, <3>2
    <3> QED
      BY <1>4, <3>2, <3>3
  <2>5. CASE c \in free(i)
    <3> DEFINE k == Cardinality({d \in free(i) : d < c})
    <3>1. IsFiniteSet(free(i)) /\ free(i) \in SUBSET Int
      <4>1. IsFiniteSet(free(i)) /\ free(i) \in SUBSET Catalog!ColorIndex
        BY GroupNumbers
      <4> QED
        BY <4>1, ColorsFinite, Nat \in SUBSET Int
    <3>2. k \in Nat /\ Rank(free(i), c) = k + 1
      <4> HIDE DEF free
      <4> QED
        BY <2>5, <3>1, Smaller
    <3>3. Rank(free(i), c) \in 1 .. size(i)
      <4> HIDE DEF free
      <4> QED
        BY <2>5, <3>1, Ranks
    <3>4. k < size(i) /\ k < place(i)
      <4>1. size(i) \in Nat /\ place(i) \in Nat
        BY <1>2
      <4> DEFINE rank == Rank(free(i), c)
      <4> HIDE DEF k, place, size, rank
      <4>2. rank = k + 1 /\ rank \in 1 .. size(i)
        BY <3>2, <3>3 DEF rank
      <4> QED
        BY <2>3, <3>2, <4>1, <4>2
    <3>5. PICK j \in Before(cat, i) : place(j) = k
      <4> HIDE DEF k
      <4> QED
        BY <3>2, <3>4, PlaceTaken
    <3>6. /\ j \in Catalog!Group(cat, cat[i].name) /\ j \in DOMAIN cat
          /\ cat[j].name = cat[i].name /\ ~ Catalog!Keeps(cat, j)
      BY DEF Before, Catalog!Group
    <3>7. new[j].color = Catalog!Nth(free(i), k)
      BY <1>1, <3>5, <3>6
    <3>8. /\ Catalog!Nth(free(i), k) \in free(i)
          /\ Cardinality({d \in free(i) : d < Catalog!Nth(free(i), k)}) = k
      <4> HIDE DEF free, k
      <4> QED
        BY <3>1, <3>2, <3>4, NthOf DEF size
    <3>9. Catalog!Nth(free(i), k) = c
      <4> SUFFICES ASSUME NEW e \in free(i), Cardinality({d \in free(i) : d < e}) = k
                   PROVE  e = c
        BY <3>8
      <4> HIDE DEF free
      <4>1. Rank(free(i), e) = k + 1
        BY <3>1, Smaller
      <4>2. e \in Int /\ c \in Int /\ Rank(free(i), e) \in Nat
        BY <2>5, <3>1, Ranks
      <4> HIDE DEF k
      <4>3. ~ (e < c) /\ ~ (c < e)
        <5>1. e < c => Rank(free(i), e) < Rank(free(i), c)
          BY <2>5, <3>1, Ranks
        <5>2. c < e => Rank(free(i), c) < Rank(free(i), e)
          BY <2>5, <3>1, Ranks
        <5> QED
          BY <3>2, <4>1, <4>2, <5>1, <5>2
      <4> QED
        BY <4>2, <4>3
    <3> QED
      BY <1>4, <3>6, <3>7, <3>9
  <2> QED
    BY <2>4, <2>5
<1> QED
  BY <1>9, <1>10 DEF Colored

-----------------------------------------------------------------------------
(* Operations *)

\* The entry of a listed board.
LEMMA ListedEntry ==
  ASSUME NEW cat \in Seq(Entry), NEW r, Catalog!Listed(cat, r)
  PROVE  Catalog!EntryOf(cat, r) \in Entry
<1>1. PICK i \in DOMAIN cat : cat[i].room = r
  BY DEF Catalog!Listed
<1>2. (CHOOSE j \in DOMAIN cat : cat[j].room = r) \in DOMAIN cat
  BY <1>1
<1> QED
  BY <1>2 DEF Catalog!EntryOf

\* Reconciling lists the same boards.
LEMMA ReconciledCatalog ==
  ASSUME NEW cat \in CatalogType
  PROVE  Catalog!Reconciled(cat) \in TidyCatalog
<1>1. cat \in Seq(Entry) /\ \A i, j \in DOMAIN cat : i # j => cat[i].room # cat[j].room
  BY DEF CatalogType
<1> DEFINE new == Catalog!Reconciled(cat)
<1>2. /\ new \in Seq(Entry) /\ DOMAIN new = DOMAIN cat
      /\ \A i \in DOMAIN cat : new[i].room = cat[i].room
  BY <1>1, ReconciledEntries
<1>3. Colored(new)
  BY <1>1, ReconciledColors
<1> HIDE DEF new
<1>4. new \in CatalogType
  BY <1>1, <1>2 DEF CatalogType
<1> QED
  BY <1>3, <1>4 DEF new, TidyCatalog

\* The catalog without a board.
LEMMA OthersCatalog ==
  ASSUME NEW cat \in CatalogType, NEW r
  PROVE  /\ Catalog!Others(cat, r) \in CatalogType
         /\ \A i \in DOMAIN Catalog!Others(cat, r) : Catalog!Others(cat, r)[i].room # r
<1> DEFINE at == {i \in DOMAIN cat : cat[i].room # r}
           c == Cardinality(at)
           new == Catalog!Others(cat, r)
<1>1. cat \in Seq(Entry) /\ \A i, j \in DOMAIN cat : i # j => cat[i].room # cat[j].room
  BY DEF CatalogType
<1>2. new = Pick(cat, at)
  BY SamePick DEF Catalog!Others
<1>3. at \in SUBSET DOMAIN cat
  OBVIOUS
<1>4. PICK pos \in [1 .. c -> at] :
        /\ \A m, n \in 1 .. c : m < n => pos[m] < pos[n]
        /\ Pick(cat, at) = [n \in 1 .. c |-> cat[pos[n]]]
  BY <1>1, <1>3, PickPositions
<1>5. new \in Seq(Entry)
  BY <1>1, <1>2, <1>3, Picked
<1>6. \A n \in DOMAIN new : n \in 1 .. c /\ pos[n] \in at /\ new[n] = cat[pos[n]]
  BY <1>2, <1>4
<1>7. ASSUME NEW m \in DOMAIN new, NEW n \in DOMAIN new, m # n
      PROVE  new[m].room # new[n].room
  <2>1. m \in 1 .. c /\ n \in 1 .. c /\ m \in Int /\ n \in Int
    BY <1>6
  <2>2. m < n \/ n < m
    BY <1>7, <2>1
  <2>3. pos[m] \in Int /\ pos[n] \in Int
    <3>1. at \in SUBSET Int
      BY <1>1, <1>3
    <3> QED
      BY <1>6, <3>1
  <2>4. pos[m] # pos[n]
    BY <1>4, <2>1, <2>2, <2>3
  <2> QED
    BY <1>1, <1>6, <2>4
<1>8. \A n \in DOMAIN new : new[n].room # r
  BY <1>6
<1> HIDE DEF new
<1>9. new \in CatalogType
  BY <1>5, <1>7 DEF CatalogType
<1> QED
  BY <1>8, <1>9 DEF new

\* cb_remember_room and cb_forget_catalog_room keep the catalog in order.
LEMMA Remembered ==
  ASSUME NEW cat \in TidyCatalog, NEW r \in Room, NEW n \in AnyName, NEW touch
  PROVE  Catalog!Remember(cat, r, n, touch) \in TidyCatalog
<1> USE cat \in CatalogType DEF TidyCatalog
<1>1. cat \in Seq(Entry) /\ \A i, j \in DOMAIN cat : i # j => cat[i].room # cat[j].room
  BY DEF CatalogType
<1> DEFINE color == IF Catalog!Listed(cat, r) THEN Catalog!EntryOf(cat, r).color
                    ELSE Catalog!NoColor
           entry == [room |-> r, name |-> n, color |-> color]
           moved == Append(Catalog!Others(cat, r), entry)
           renamed == [i \in DOMAIN cat |-> IF cat[i].room = r THEN entry ELSE cat[i]]
<1>2. entry \in Entry
  <2>1. color \in Int
    <3>1. \A e \in Entry : e.color \in Int
      BY DEF Entry
    <3>2. Catalog!NoColor \in Int
      BY DEF Catalog!NoColor
    <3>3. Catalog!Listed(cat, r) => Catalog!EntryOf(cat, r) \in Entry
      BY <1>1, ListedEntry
    <3> QED
      BY <3>1, <3>2, <3>3
  <2> QED
    BY <2>1 DEF Entry
<1>3. entry.room = r
  OBVIOUS
<1> HIDE DEF entry
<1>4. moved \in CatalogType
  <2> DEFINE others == Catalog!Others(cat, r)
  <2>1. others \in Seq(Entry) /\ \A i, j \in DOMAIN others : i # j => others[i].room # others[j].room
    BY OthersCatalog DEF CatalogType
  <2>2. \A i \in DOMAIN others : others[i].room # r
    BY OthersCatalog
  <2> HIDE DEF others
  <2>3. /\ Append(others, entry) \in Seq(Entry)
        /\ \A i \in DOMAIN Append(others, entry) :
             \/ i \in DOMAIN others /\ Append(others, entry)[i] = others[i]
             \/ i = Len(others) + 1 /\ Append(others, entry)[i] = entry
    BY <1>2, <2>1
  <2>4. Append(others, entry) \in CatalogType
    BY <1>3, <2>1, <2>2, <2>3 DEF CatalogType
  <2> QED
    BY <2>4 DEF others
<1>5. renamed \in CatalogType
  <2>1. \A i \in DOMAIN cat : renamed[i] \in Entry /\ renamed[i].room = cat[i].room
    BY <1>1, <1>2, <1>3
  <2>2. DOMAIN renamed = DOMAIN cat
    OBVIOUS
  <2>3. renamed \in Seq(Entry)
    <3>1. renamed = [i \in 1 .. Len(cat) |-> renamed[i]] /\ Len(cat) \in Nat
      BY <1>1
    <3>2. \A i \in 1 .. Len(cat) : renamed[i] \in Entry
      BY <1>1, <2>1
    <3> QED
      BY <3>1, <3>2
  <2> HIDE DEF renamed
  <2> QED
    BY <1>1, <2>1, <2>2, <2>3 DEF CatalogType
<1>6. Catalog!Remember(cat, r, n, touch) =
        Catalog!Reconciled(IF touch \/ ~ Catalog!Listed(cat, r) THEN moved ELSE renamed)
  BY DEF Catalog!Remember, entry
<1> HIDE DEF moved, renamed
<1> QED
  BY <1>4, <1>5, <1>6, ReconciledCatalog

LEMMA Forgotten ==
  ASSUME NEW cat \in TidyCatalog, NEW r
  PROVE  Catalog!Forget(cat, r) \in TidyCatalog
<1>1. Catalog!Others(cat, r) \in CatalogType
  BY OthersCatalog DEF TidyCatalog
<1> QED
  BY <1>1, ReconciledCatalog DEF Catalog!Forget

\* Every board is counted once.
LEMMA ListedOnce ==
  ASSUME NEW cat \in CatalogType
  PROVE  Catalog!Rooms(cat) \in SUBSET Room /\ Cardinality(Catalog!Rooms(cat)) = Len(cat)
<1>1. /\ cat \in Seq(Entry) /\ Len(cat) \in Nat /\ DOMAIN cat = 1 .. Len(cat)
      /\ \A i, j \in DOMAIN cat : i # j => cat[i].room # cat[j].room
  BY DEF CatalogType
<1>2. \A i \in DOMAIN cat : cat[i].room \in Room
  <2>1. \A i \in DOMAIN cat : cat[i] \in Entry
    BY <1>1
  <2> QED
    BY <2>1 DEF Entry
<1> DEFINE rooms == Catalog!Rooms(cat)
           listed == [i \in 1 .. Len(cat) |-> cat[i].room]
<1>3. IsFiniteSet(1 .. Len(cat)) /\ Cardinality(1 .. Len(cat)) = Len(cat)
  BY <1>1, NumbersCounted
<1>4. listed \in Bijection(1 .. Len(cat), rooms)
  BY <1>1 DEF Bijection, Injection, Surjection, IsInjective, Catalog!Rooms
<1>5. Cardinality(rooms) = Cardinality(1 .. Len(cat))
  <2>1. ExistsBijection(1 .. Len(cat), rooms)
    BY <1>4 DEF ExistsBijection
  <2> QED
    BY <1>3, <2>1, FS_Bijection
<1> QED
  BY <1>2, <1>3, <1>5 DEF Catalog!Rooms

-----------------------------------------------------------------------------
(* The inductive invariant *)

MaybeRoom == Room \cup {NoRoom}

PageType ==
  [room : MaybeRoom, name : AnyName, board : SUBSET Operation,
   configuring : BOOLEAN, setup : BOOLEAN, front : BOOLEAN,
   kind : {"", "create", "join", "saved", "resume"}, force : BOOLEAN, resume : MaybeRoom,
   loading : BOOLEAN, done : BOOLEAN, waiting : BOOLEAN,
   remote : BOOLEAN, timer : BOOLEAN, deleting : MaybeRoom, busy : BOOLEAN]

\* Only the end of a replay names no board.
AnswerCall ==
  {c \in [t : {"configured", "code", "complete", "started", "deleted", "rejected"},
          r : MaybeRoom, n : AnyName, ok : BOOLEAN] : c.t # "complete" => c.r \in Room}

PostedCall == {c \in [t : {"op"}, r : Room, op : Operation] : c.r = c.op.r}

TaskType == [t : {"replay", "delete"}, r : Room, started : BOOLEAN, left : SUBSET Operation]

NativeType ==
  [config : MaybeRoom, profile : [Room -> AnyName \cup {NoRoom}], running : BOOLEAN,
   worker : Seq(TaskType)]

TypeInv ==
  /\ page \in PageType /\ IsFiniteSet(page.board)
  /\ catalog \in TidyCatalog
  /\ calls \in Seq(AnswerCall \cup PostedCall) /\ Len(calls) <= MaxCalls
  /\ native \in NativeType
  /\ db \in [Room -> SUBSET Operation]
  /\ \A r \in Room : IsFiniteSet(db[r]) /\ \A o \in db[r] : o.r = r
  /\ stops \in 0 .. MaxStops

\* Posts that the page or the worker wait for.
Answer == {"configured", "code", "complete", "deleted"}

Pending(t) == \E i \in DOMAIN calls : calls[i].t = t

Replaying == \E i \in DOMAIN native.worker : native.worker[i].t = "replay"

\* The worker has one task or the page waits for one answer, and neither while
\* the user is elsewhere.
QueueInv ==
  /\ Len(native.worker) <= 1
  /\ \A i, j \in DOMAIN calls : calls[i].t \in Answer /\ calls[j].t \in Answer => i = j
  /\ native.worker # << >> \/ ~ page.front => \A i \in DOMAIN calls : calls[i].t \notin Answer
  /\ ~ page.front => native.worker = << >>

\* Board r is about to be erased, or was and the page has not heard of it.
Deleting(r) ==
  \/ \E i \in DOMAIN native.worker : native.worker[i].t = "delete" /\ native.worker[i].r = r
  \/ \E i \in DOMAIN calls : calls[i].t = "deleted" /\ calls[i].r = r

\* A deletion is confirmed before its end is announced.
StartsFirst(q) ==
  \A i, j \in DOMAIN q : q[i].t = "started" =>
    /\ q[j].t = "started" => i = j
    /\ q[j].t = "deleted" => i < j

\* Meanwhile the user waits in the setup form, and r is open nowhere.
DeleteInv ==
  /\ \A r \in MaybeRoom : Deleting(r) =>
       /\ r \in Room \ Outdated
       /\ page.busy /\ page.front /\ page.setup /\ native.config # r
       /\ page.room # NoRoom => page.room \in Outdated
       /\ \A i \in DOMAIN calls : calls[i].t = "started" => calls[i].ok
  /\ Pending("started") => page.busy /\ page.front
  /\ StartsFirst(calls)

\* What the open board of the page and that of the native part have to do with
\* each other.
ConfigInv ==
  /\ native.config \notin Outdated
  /\ page.room # NoRoom /\ ~ page.configuring /\ ~ page.setup =>
       native.config \in {NoRoom, page.room}
  /\ page.room # NoRoom /\ page.setup =>
       page.room \in Outdated \/ Pending("configured") \/ (~ page.front /\ page.resume # page.room)
  /\ \A i \in DOMAIN calls :
       /\ calls[i].t = "code" => calls[i].r = native.config /\ calls[i].r \in Direct
       /\ calls[i].t = "configured" /\ calls[i].ok =>
            /\ page.room \in {NoRoom, calls[i].r} /\ native.config \in {NoRoom, calls[i].r}
            /\ page.kind \notin {"create", "join"}
       /\ calls[i].t = "configured" /\ ~ calls[i].ok => page.room \in Outdated \cup {NoRoom}
  /\ Pending("complete") => page.room = NoRoom \/ ~ page.setup
  /\ \A i \in DOMAIN native.worker : native.worker[i].t = "replay" =>
       page.room = NoRoom \/ (page.room = native.worker[i].r /\ ~ page.setup)

\* The numbers of a board's operations never get ahead of their count.
Numbered(d) == \A r \in Room : \A o \in d[r] : o.n \in 1 .. Cardinality(d[r])

\* An operation on its way is stored, unless the page will hear that its board
\* was deleted.
PostsStored(q, d) ==
  \A i \in DOMAIN q : q[i].t = "op" =>
    \/ q[i].op \in d[q[i].r]
    \/ \E j \in DOMAIN q : i < j /\ q[j].t = "deleted" /\ q[j].r = q[i].r

\* What is on the page, on its way or about to be replayed is stored.
StoredInv ==
  /\ page.room = NoRoom => page.board = {}
  /\ page.room # NoRoom => page.board \subseteq db[page.room]
  /\ Numbered(db)
  /\ \A r \in Outdated : db[r] = {} /\ native.profile[r] = NoRoom
  /\ \A i \in DOMAIN native.worker :
       native.worker[i].t = "replay" => native.worker[i].left \subseteq db[native.worker[i].r]
  /\ PostsStored(calls, db)

\* Nothing is stored for the page's board that the page has not, nor is posted.
Whole == db[page.room] \subseteq page.board \cup Posted

\* What the page has not will be posted by a replay, and it will wait for that.
Coming ==
  /\ page.loading
  /\ page.done => page.remote
  /\ \E i \in DOMAIN native.worker :
       LET w == native.worker[i]
       IN /\ w.t = "replay" /\ w.r = page.room
          /\ w.started => db[page.room] \subseteq page.board \cup Posted \cup w.left

\* The board was taken away, and its loading never ends.
Lost ==
  /\ page.loading /\ ~ page.done /\ ~ page.waiting
  /\ ~ Pending("complete") /\ ~ Replaying

ShowInv ==
  /\ page.timer => page.done /\ page.loading
  /\ stops = 0 => native.running
  /\ stops = 0 /\ page.room # NoRoom /\ ~ page.setup => Whole \/ Coming \/ Lost

PatientInv == QueueInv /\ DeleteInv /\ ConfigInv /\ StoredInv /\ ShowInv

IInv == TypeInv /\ PatientInv

-----------------------------------------------------------------------------
(* Types of what the handlers are made of *)

\* The page before anything was opened.
LEMMA IdleType == Idle \in PageType
BY DEF Idle, PageType, MaybeRoom, AnyName

\* The newest name that operations carry.
LEMMA NameOf ==
  ASSUME NEW p \in PageType
  PROVE  SyncedName(p) \in AnyName
<1>1. p.name \in AnyName /\ p.board \in SUBSET Operation
  BY DEF PageType
<1>2. NameEvent(p.board) \in SUBSET Operation
  BY <1>1 DEF NameEvent, Latest
<1>3. \A o \in Operation : o.name \in AnyName
  BY DEF Operation, AnyName
<1> QED
  BY <1>1, <1>2, <1>3 DEF SyncedName

\* The page with the name of its newest name event.
LEMMA NamedPage ==
  ASSUME NEW p \in PageType
  PROVE  /\ WithSyncedName(p) \in PageType
         /\ WithSyncedName(p) = [p EXCEPT !.name = SyncedName(p)]
BY NameOf DEF WithSyncedName, PageType

\* The catalog with that name.
LEMMA NamedCatalogTidy ==
  ASSUME NEW p \in PageType, NEW cat \in TidyCatalog, p.room \in Room
  PROVE  NamedCatalog(p, cat) \in TidyCatalog
BY NameOf, Remembered DEF NamedCatalog

\* cb_begin_board_replay, cb_stop_board_replay, and the board that is left.
LEMMA ReplayType ==
  ASSUME NEW p \in PageType, NEW kind
  PROVE  /\ BeginReplay(p, kind) \in PageType
         /\ StopReplay(p) \in PageType
         /\ WithoutRoom(p) \in PageType
         /\ Completed(p) \in PageType
         /\ BeginReplay(p, kind).board = p.board /\ BeginReplay(p, kind).room = p.room
         /\ StopReplay(p).board = p.board /\ StopReplay(p).room = p.room
         /\ Completed(p).board = p.board /\ Completed(p).room = p.room
         /\ WithoutRoom(p).board = {}
<1>1. (kind = "join") \in BOOLEAN /\ (kind \in {"join", "catchup"}) \in BOOLEAN
  OBVIOUS
<1> DEFINE waiting == kind = "join"
           remote == kind \in {"join", "catchup"}
<1> HIDE DEF waiting, remote
<1>2. BeginReplay(p, kind) = [p EXCEPT !.loading = TRUE, !.done = FALSE, !.waiting = waiting,
                                       !.remote = remote, !.timer = FALSE]
  BY DEF BeginReplay, waiting, remote
<1>3. waiting \in BOOLEAN /\ remote \in BOOLEAN
  BY <1>1 DEF waiting, remote
<1>4. BeginReplay(p, kind) \in PageType
  BY <1>2, <1>3 DEF PageType
<1>5. BeginReplay(p, kind).board = p.board /\ BeginReplay(p, kind).room = p.room
  BY <1>2 DEF PageType
<1>6. StopReplay(p) \in PageType /\ StopReplay(p).board = p.board /\ StopReplay(p).room = p.room
  BY DEF StopReplay, PageType
<1>7. WithoutRoom(p) \in PageType /\ WithoutRoom(p).board = {}
  BY DEF WithoutRoom, PageType, MaybeRoom, AnyName
<1>8. Completed(p) \in PageType /\ Completed(p).board = p.board /\ Completed(p).room = p.room
  BY DEF Completed, PageType
<1> QED
  BY <1>4, <1>5, <1>6, <1>7, <1>8

\* An operation that reaches the page.
LEMMA AppliedType ==
  ASSUME NEW p \in PageType, IsFiniteSet(p.board), NEW o \in Operation, NEW cat \in TidyCatalog
  PROVE  /\ Applied(p, o) \in PageType /\ IsFiniteSet(Applied(p, o).board)
         /\ Applied(p, o).room = p.room
         /\ Applied(p, o).board = IF p.room = o.r THEN p.board \cup {o} ELSE p.board
         /\ CatalogAfter(p, o, cat) \in TidyCatalog
<1> DEFINE q == [p EXCEPT !.board = @ \union {o}]
<1>1. q \in PageType /\ q.board = p.board \cup {o} /\ q.room = p.room /\ q.timer = p.timer
      /\ q.loading = p.loading /\ q.name = p.name
  BY DEF PageType
<1>2. IsFiniteSet(p.board \cup {o})
  BY FS_AddElement
<1>3. o \in p.board => p.board \cup {o} = p.board
  OBVIOUS
<1>4. p.room = o.r => p.room \in Room
  BY DEF Operation
<1> HIDE DEF q
<1>5. CatalogAfter(p, o, cat) \in TidyCatalog
  <2>1. CatalogAfter(p, o, cat) =
          IF News(p, o) /\ ~ p.loading
          THEN Catalog!Remember(NamedCatalog(q, cat), p.room, SyncedName(q), TRUE)
          ELSE cat
    BY DEF CatalogAfter, q
  <2>2. News(p, o) => p.room \in Room
    BY <1>4 DEF News, ForBoard
  <2>3. ASSUME p.room \in Room
        PROVE  Catalog!Remember(NamedCatalog(q, cat), p.room, SyncedName(q), TRUE) \in TidyCatalog
    <3>1. NamedCatalog(q, cat) \in TidyCatalog
      BY <1>1, <2>3, NamedCatalogTidy
    <3>2. SyncedName(q) \in AnyName
      BY <1>1, NameOf
    <3> QED
      BY <2>3, <3>1, <3>2, Remembered
  <2> QED
    BY <2>1, <2>2, <2>3
<1>6. Applied(p, o) = IF ~ News(p, o) THEN p
                      ELSE IF p.loading THEN [q EXCEPT !.timer = @ \/ p.done]
                      ELSE WithSyncedName(q)
  BY DEF Applied, q
<1>7. CASE ~ News(p, o)
  BY <1>3, <1>5, <1>6, <1>7 DEF News, ForBoard
<1>8. CASE News(p, o) /\ p.loading
  <2> DEFINE late == q.timer \/ p.done
  <2>1. late \in BOOLEAN
    BY DEF PageType
  <2>2. Applied(p, o) = [q EXCEPT !.timer = late]
    BY <1>6, <1>8
  <2> HIDE DEF late
  <2>3. Applied(p, o) \in PageType /\ Applied(p, o).board = q.board /\ Applied(p, o).room = q.room
    BY <1>1, <2>1, <2>2 DEF PageType
  <2> QED
    BY <1>1, <1>2, <1>5, <1>8, <2>3 DEF News, ForBoard
<1>9. CASE News(p, o) /\ ~ p.loading
  <2>1. /\ Applied(p, o) \in PageType /\ Applied(p, o) = [q EXCEPT !.name = SyncedName(q)]
    BY <1>1, <1>6, <1>9, NamedPage
  <2>2. Applied(p, o).board = q.board /\ Applied(p, o).room = q.room
    BY <1>1, <2>1 DEF PageType
  <2> QED
    BY <1>1, <1>2, <1>5, <1>9, <2>1, <2>2 DEF News, ForBoard
<1> QED
  BY <1>7, <1>8, <1>9

-----------------------------------------------------------------------------
(* Operations have numbers *)

\* A post is told apart by its kind.
LEMMA PostKinds ==
  /\ \A c \in AnswerCall \cup PostedCall :
       /\ c.t = "op" => c \in PostedCall /\ c.op \in Operation /\ c.r = c.op.r /\ c.r \in Room
       /\ c.t # "op" => c \in AnswerCall
  /\ \A o \in Operation : OpCall(o) \in PostedCall
  /\ \A o \in Operation : o.r \in Room /\ o.n \in 1 .. MaxOps /\ o.name \in AnyName
<1>1. \A c \in AnswerCall : c.t # "op"
  BY DEF AnswerCall
<1>2. \A c \in PostedCall : c.t = "op" /\ c.op \in Operation /\ c.r = c.op.r /\ c.r \in Room
  BY DEF PostedCall
<1>3. \A o \in Operation : o.r \in Room /\ o.n \in 1 .. MaxOps /\ o.name \in AnyName
  BY DEF Operation, AnyName
<1>4. \A o \in Operation : OpCall(o) \in PostedCall
  BY <1>3 DEF OpCall, PostedCall
<1> QED
  BY <1>1, <1>2, <1>3, <1>4

\* Posts that the native part may make.
LEMMA AnswerTypes ==
  ASSUME NEW t \in {"configured", "code", "complete", "started", "deleted", "rejected"},
         NEW r \in MaybeRoom, t # "complete" => r \in Room, NEW n \in AnyName, NEW ok \in BOOLEAN
  PROVE  Call(t, r, n, ok) \in AnswerCall /\ Call(t, r, n, ok).t = t
BY DEF Call, AnswerCall

\* Only finitely many operations are on their way.
LEMMA PostedFinite ==
  ASSUME TypeInv
  PROVE  Posted \in SUBSET Operation /\ IsFiniteSet(Posted)
<1> DEFINE at == {j \in DOMAIN calls : calls[j].t = "op"}
           op == [i \in at |-> calls[i].op]
<1>1. calls \in Seq(AnswerCall \cup PostedCall) /\ Len(calls) \in Nat
      /\ DOMAIN calls = 1 .. Len(calls)
  BY DEF TypeInv
<1>2. IsFiniteSet(at)
  BY <1>1, PositionsFinite
<1>3. op \in Surjection(at, Posted)
  BY DEF Surjection, Posted
<1>4. IsFiniteSet(Posted)
  BY <1>2, <1>3, FS_Surjection
<1>5. Posted \in SUBSET Operation
  BY <1>1, PostKinds DEF Posted
<1> QED
  BY <1>4, <1>5

\* There are only finitely many operations at all.
LEMMA AllOpsFinite ==
  ASSUME TypeInv
  PROVE  IsFiniteSet(AllOps)
<1> DEFINE stored == {db[r] : r \in Room}
           of == [r \in Room |-> db[r]]
<1>1. of \in Surjection(Room, stored)
  BY DEF Surjection
<1>2. IsFiniteSet(stored)
  BY <1>1, FS_Surjection, BoardAssumption
<1>3. \A S \in stored : IsFiniteSet(S)
  BY DEF TypeInv
<1>4. IsFiniteSet(UNION stored)
  BY <1>2, <1>3, FS_UNION
<1>5. IsFiniteSet((UNION stored) \cup page.board)
  BY <1>4, FS_Union DEF TypeInv
<1>6. IsFiniteSet(((UNION stored) \cup page.board) \cup Posted)
  BY <1>5, PostedFinite, FS_Union
<1> QED
  BY <1>6 DEF AllOps

\* A new operation has a number, as long as there is space.
LEMMA NumberFits ==
  ASSUME TypeInv, HasSpace
  PROVE  /\ native.config \in Room
         /\ NextNumber(native.config) \in 1 .. MaxOps
<1> DEFINE r == native.config
           known == db[r] \union {o \in page.board \union Posted : o.r = r}
<1>1. r \in Room
  BY DEF TypeInv, NativeType, MaybeRoom, HasSpace
<1>2. known \in SUBSET AllOps
  BY <1>1 DEF AllOps
<1>3. /\ Cardinality(known) \in Nat /\ Cardinality(AllOps) \in Nat
      /\ Cardinality(known) <= Cardinality(AllOps)
  BY <1>2, AllOpsFinite, FS_Subset, FS_CardinalityType
<1>4. Cardinality(AllOps) < MaxOps
  BY DEF HasSpace
<1>5. NextNumber(r) = 1 + Cardinality(known)
  BY DEF NextNumber
<1> HIDE DEF known
<1>6. 1 + Cardinality(known) \in 1 .. MaxOps
  BY <1>3, <1>4, BoundAssumption
<1> QED
  BY <1>1, <1>5, <1>6

\* cb_write_board_event: what is written has the right type.
LEMMA WriteType ==
  ASSUME TypeInv, HasSpace, NEW p \in PageType, IsFiniteSet(p.board), p.room \in Room,
         NEW q \in Seq(AnswerCall \cup PostedCall), Len(q) < MaxCalls,
         NEW nm \in AnyName, Write(p, q, nm), UNCHANGED <<native, stops>>
  PROVE  TypeInv'
<1> DEFINE o == [r |-> native.config, n |-> NextNumber(native.config),
                 own |-> TRUE, name |-> nm]
           here == [o EXCEPT !.r = p.room]
<1>1. native.config \in Room /\ NextNumber(native.config) \in 1 .. MaxOps
  BY NumberFits
<1>2. o \in Operation /\ here \in Operation /\ o.r = native.config
  BY <1>1 DEF Operation, AnyName
<1>3. /\ db' = [db EXCEPT ![o.r] = @ \union {o}]
      /\ calls' = Append(q, OpCall(o))
      /\ page' = Applied(p, here)
      /\ catalog' = CatalogAfter(p, here, catalog)
  BY DEF Write
<1> HIDE DEF o, here
<1>4. catalog \in TidyCatalog
  BY DEF TypeInv
<1>5. page' \in PageType /\ IsFiniteSet(page'.board) /\ catalog' \in TidyCatalog
  BY <1>2, <1>3, <1>4, AppliedType
<1>6. calls' \in Seq(AnswerCall \cup PostedCall) /\ Len(calls') <= MaxCalls
  <2>1. OpCall(o) \in AnswerCall \cup PostedCall
    BY <1>2, PostKinds
  <2>2. calls' \in Seq(AnswerCall \cup PostedCall) /\ Len(calls') = Len(q) + 1
    BY <1>3, <2>1, AppendProperties
  <2>3. Len(q) \in Nat /\ MaxCalls \in Nat
    BY BoundAssumption
  <2> QED
    BY <2>2, <2>3
<1>7. /\ db' \in [Room -> SUBSET Operation]
      /\ \A r \in Room : IsFiniteSet(db'[r]) /\ \A x \in db'[r] : x.r = r
  <2>1. /\ db \in [Room -> SUBSET Operation]
        /\ \A r \in Room : IsFiniteSet(db[r]) /\ \A x \in db[r] : x.r = r
    BY DEF TypeInv
  <2>2. IsFiniteSet(db[o.r] \cup {o})
    BY <1>1, <1>2, <2>1, FS_AddElement
  <2> QED
    BY <1>1, <1>2, <1>3, <2>1, <2>2
<1> QED
  BY <1>5, <1>6, <1>7 DEF TypeInv

-----------------------------------------------------------------------------
(* Every step keeps the types *)

\* What the parts of TypeInv are, for the steps below.
LEMMA TypeParts ==
  ASSUME TypeInv
  PROVE  /\ page \in PageType /\ IsFiniteSet(page.board) /\ page.room \in MaybeRoom
         /\ page.name \in AnyName /\ page.board \in SUBSET Operation
         /\ catalog \in TidyCatalog /\ catalog \in Seq(Entry)
         /\ calls \in Seq(AnswerCall \cup PostedCall) /\ Len(calls) \in Nat
         /\ Len(calls) <= MaxCalls
         /\ native \in NativeType /\ native.config \in MaybeRoom
         /\ native.profile \in [Room -> AnyName \cup {NoRoom}] /\ native.running \in BOOLEAN
         /\ native.worker \in Seq(TaskType)
         /\ db \in [Room -> SUBSET Operation]
         /\ \A r \in Room : IsFiniteSet(db[r]) /\ \A o \in db[r] : o.r = r
         /\ stops \in 0 .. MaxStops
         /\ NoRoom \notin Room
<1>1. page.room \in MaybeRoom /\ page.name \in AnyName /\ page.board \in SUBSET Operation
  BY DEF TypeInv, PageType
<1>2. /\ native.config \in MaybeRoom /\ native.running \in BOOLEAN
      /\ native.profile \in [Room -> AnyName \cup {NoRoom}]
      /\ native.worker \in Seq(TaskType)
  BY DEF TypeInv, NativeType
<1>3. catalog \in Seq(Entry)
  BY DEF TypeInv, TidyCatalog, CatalogType
<1>4. Len(calls) \in Nat
  BY DEF TypeInv
<1> QED
  BY <1>1, <1>2, <1>3, <1>4, BoardAssumption DEF TypeInv

\* A post is appended, or the first one is handled.
LEMMA Posting ==
  ASSUME TypeInv, Len(calls) < MaxCalls, NEW c \in AnswerCall \cup PostedCall,
         calls' = Append(calls, c)
  PROVE  calls' \in Seq(AnswerCall \cup PostedCall) /\ Len(calls') <= MaxCalls
<1>1. calls \in Seq(AnswerCall \cup PostedCall) /\ Len(calls) \in Nat /\ MaxCalls \in Nat
  BY TypeParts, BoundAssumption
<1>2. calls' \in Seq(AnswerCall \cup PostedCall) /\ Len(calls') = Len(calls) + 1
  BY <1>1, AppendProperties
<1> QED
  BY <1>1, <1>2

\* The first post, and what is left when the page has taken it.
LEMMA Handling ==
  ASSUME TypeInv, calls # << >>
  PROVE  /\ Rest \in Seq(AnswerCall \cup PostedCall) /\ Len(Rest) < MaxCalls
         /\ Len(Rest) <= MaxCalls
         /\ Post \in AnswerCall \cup PostedCall
<1>1. calls \in Seq(AnswerCall \cup PostedCall) /\ Len(calls) <= MaxCalls /\ MaxCalls \in Nat
  BY TypeParts, BoundAssumption
<1>2. /\ Head(calls) \in AnswerCall \cup PostedCall
      /\ Tail(calls) \in Seq(AnswerCall \cup PostedCall) /\ Len(Tail(calls)) = Len(calls) - 1
  BY <1>1, HeadTailProperties
<1>3. Len(calls) \in Nat
  BY <1>1
<1> QED
  BY <1>1, <1>2, <1>3 DEF Rest, Post

\* The native part opens a board, closes it, and replays what is stored for it.
LEMMA NativeTypes ==
  ASSUME TypeInv
  PROVE  /\ \A r \in Room, nm \in AnyName : Activated(r, nm) \in NativeType
         /\ Closed \in NativeType
         /\ ReplayAsked \in NativeType
         /\ \A r \in Room, t \in {"replay", "delete"} : Task(t, r) \in TaskType
<1>1. native \in NativeType /\ native.worker \in Seq(TaskType)
      /\ native.profile \in [Room -> AnyName \cup {NoRoom}] /\ native.config \in MaybeRoom
  BY TypeParts
<1>2. ASSUME NEW r \in Room, NEW nm \in AnyName
      PROVE  Activated(r, nm) \in NativeType
  BY <1>1 DEF Activated, NativeType, MaybeRoom
<1>3. Closed \in NativeType
  BY <1>1 DEF Closed, NativeType, MaybeRoom
<1>4. \A r \in Room, t \in {"replay", "delete"} : Task(t, r) \in TaskType
  BY DEF Task, TaskType
<1>5. ReplayAsked \in NativeType
  <2>1. CASE native.config # NoRoom /\ native.running
    <3>1. Append(native.worker, Task("replay", native.config)) \in Seq(TaskType)
      BY <1>1, <1>4, <2>1, AppendProperties DEF MaybeRoom
    <3> QED
      BY <1>1, <2>1, <3>1 DEF ReplayAsked, NativeType
  <2> QED
    BY <1>1, <2>1 DEF ReplayAsked
<1> QED
  BY <1>2, <1>3, <1>4, <1>5

\* TypeInv survives what the user does,
LEMMA TapTypes ==
  ASSUME TypeInv, Tap
  PROVE  TypeInv'
<1> USE TypeParts
<1>1. ASSUME NEW r \in Direct, NEW nm \in Name, Create(r, nm)
      PROVE  TypeInv'
  <2>1. r \in Room /\ nm \in AnyName
    BY DEF Direct, AnyName
  <2>2. page' \in PageType /\ page'.board = page.board
    BY <1>1 DEF Create, PageType
  <2>3. Call("code", r, nm, TRUE) \in AnswerCall
    BY <2>1, AnswerTypes DEF MaybeRoom
  <2>4. calls' \in Seq(AnswerCall \cup PostedCall) /\ Len(calls') <= MaxCalls
    BY <1>1, <2>3, Posting DEF Create, InSetup, Free
  <2>5. native' \in NativeType
    BY <1>1, <2>1, NativeTypes DEF Create
  <2> QED
    BY <1>1, <2>2, <2>4, <2>5 DEF TypeInv, Create
<1>2. ASSUME NEW r \in Direct, Join(r)
      PROVE  TypeInv'
  <2> DEFINE nm == IF native.profile[r] = NoRoom THEN DefaultName ELSE native.profile[r]
  <2>1. r \in Room /\ nm \in AnyName
    BY DEF Direct, AnyName
  <2>2. page' \in PageType /\ page'.board = page.board
    BY <1>2 DEF Join, PageType
  <2>3. Call("code", r, nm, TRUE) \in AnswerCall
    BY <2>1, AnswerTypes DEF MaybeRoom
  <2>4. calls' \in Seq(AnswerCall \cup PostedCall) /\ Len(calls') <= MaxCalls
    BY <1>2, <2>3, Posting DEF Join, InSetup, Free
  <2>5. native' \in NativeType
    BY <1>2, <2>1, NativeTypes DEF Join
  <2> QED
    BY <1>2, <2>2, <2>4, <2>5 DEF TypeInv, Join
<1>3. ASSUME NEW r \in Room, OpenSaved(r)
      PROVE  TypeInv'
  <2> DEFINE nm == Catalog!EntryOf(catalog, r).name
  <2>1. nm \in AnyName
    <3>1. Catalog!EntryOf(catalog, r) \in Entry
      BY <1>3, ListedEntry DEF OpenSaved
    <3> QED
      BY <3>1 DEF Entry
  <2>2. page' \in PageType /\ page'.board = {}
    BY <1>3, <2>1 DEF OpenSaved, PageType, MaybeRoom
  <2>3. Call("configured", r, DefaultName, r \notin Outdated) \in AnswerCall
    BY AnswerTypes, (r \notin Outdated) \in BOOLEAN DEF MaybeRoom, AnyName
  <2>4. calls' \in Seq(AnswerCall \cup PostedCall) /\ Len(calls') <= MaxCalls
    BY <1>3, <2>3, Posting DEF OpenSaved, InSetup, Free
  <2>5. native' \in NativeType
    BY <1>3, <2>1, NativeTypes DEF OpenSaved
  <2>6. catalog' \in TidyCatalog
    BY <1>3, <2>1, Remembered DEF OpenSaved
  <2> QED
    BY <1>3, <2>2, <2>4, <2>5, <2>6, FS_EmptySet DEF TypeInv, OpenSaved
<1>4. CASE Close
  <2>1. catalog' \in TidyCatalog
    BY <1>4, Remembered DEF Close, MaybeRoom
  <2>2. native' \in NativeType
    BY <1>4, NativeTypes DEF Close
  <2>3. page' \in PageType /\ page'.board = {}
    <3>1. WithoutRoom(StopReplay(page)) \in PageType /\ WithoutRoom(StopReplay(page)).board = {}
      BY ReplayType
    <3> QED
      BY <1>4, <3>1 DEF Close, PageType, MaybeRoom
  <2> QED
    BY <1>4, <2>1, <2>2, <2>3, FS_EmptySet DEF TypeInv, Close
<1>5. CASE Leave
  <2>1. page' \in PageType /\ page'.board = page.board
    BY <1>5 DEF Leave, PageType
  <2> QED
    BY <1>5, <2>1 DEF TypeInv, Leave
<1>6. CASE OpenSetup
  <2>1. page' \in PageType /\ page'.board = page.board
    BY <1>6 DEF OpenSetup, PageType
  <2> QED
    BY <1>6, <2>1 DEF TypeInv, OpenSetup
<1>7. CASE OpenExpired
  <2>1. catalog' \in TidyCatalog
    BY <1>7, Remembered DEF OpenExpired, MaybeRoom
  <2>2. native' \in NativeType
    BY <1>7, NativeTypes DEF OpenExpired
  <2>3. page' \in PageType /\ page'.board = {}
    <3>1. WithoutRoom(StopReplay(page)) \in PageType /\ WithoutRoom(StopReplay(page)).board = {}
      BY ReplayType
    <3> QED
      BY <1>7, <3>1 DEF OpenExpired, PageType
  <2> QED
    BY <1>7, <2>1, <2>2, <2>3, FS_EmptySet DEF TypeInv, OpenExpired
<1>8. CASE Resume
  <2>1. page.room \in Room
    BY <1>8 DEF Resume, MaybeRoom
  <2>2. page' \in PageType /\ page'.board = page.board
    BY <1>8 DEF Resume, PageType, MaybeRoom
  <2>3. Call("configured", page.room, DefaultName, page.room \notin Outdated) \in AnswerCall
    BY <2>1, AnswerTypes, (page.room \notin Outdated) \in BOOLEAN DEF MaybeRoom, AnyName
  <2>4. calls' \in Seq(AnswerCall \cup PostedCall) /\ Len(calls') <= MaxCalls
    BY <1>8, <2>3, Posting DEF Resume
  <2>5. native' \in NativeType
    BY <1>8, <2>1, NativeTypes DEF Resume
  <2>6. catalog' \in TidyCatalog
    BY <1>8, <2>1, Remembered DEF Resume
  <2> QED
    BY <1>8, <2>2, <2>4, <2>5, <2>6 DEF TypeInv, Resume
<1>9. CASE Draw
  <2>1. page.room \in Room
    BY <1>9 DEF Draw, MaybeRoom
  <2>2. Drawing \in AnyName
    BY DEF Drawing, AnyName
  <2> QED
    BY <1>9, <2>1, <2>2, WriteType DEF Draw, CanWrite
<1>10. ASSUME NEW r \in Room, RequestDelete(r)
       PROVE  TypeInv'
  <2>1. page' \in PageType /\ page'.board = page.board
    BY <1>10 DEF RequestDelete, PageType, MaybeRoom
  <2> QED
    BY <1>10, <2>1 DEF TypeInv, RequestDelete
<1>11. CASE CancelDelete
  <2>1. page' \in PageType /\ page'.board = page.board
    BY <1>11 DEF CancelDelete, PageType, MaybeRoom
  <2> QED
    BY <1>11, <2>1 DEF TypeInv, CancelDelete
<1>12. ASSUME NEW right \in BOOLEAN, ConfirmDelete(right)
       PROVE  TypeInv'
  <2> DEFINE r == page.deleting
             accepted == MayDelete(r, right)
  <2>1. r \in Room /\ r \in MaybeRoom
    BY <1>12 DEF ConfirmDelete, PageType, MaybeRoom
  <2>2. page' \in PageType /\ page'.board = page.board
    <3>1. page' = [page EXCEPT !.deleting = NoRoom] \/ page' = [page EXCEPT !.busy = TRUE]
      BY <1>12 DEF ConfirmDelete
    <3> QED
      BY <3>1 DEF PageType, MaybeRoom
  <2>3. native' \in NativeType
    <3>1. Append(native.worker, Task("delete", r)) \in Seq(TaskType)
      BY <2>1, NativeTypes, AppendProperties
    <3> DEFINE tasks == IF native.running THEN Append(native.worker, Task("delete", r))
                        ELSE native.worker
               profile == [native.profile EXCEPT ![r] = NoRoom]
    <3>2. native' = native \/ native' = [native EXCEPT !.profile = profile, !.worker = tasks]
      BY <1>12 DEF ConfirmDelete
    <3>3. tasks \in Seq(TaskType) /\ profile \in [Room -> AnyName \cup {NoRoom}]
      BY <2>1, <3>1
    <3> HIDE DEF tasks, profile
    <3> QED
      BY <3>2, <3>3 DEF NativeType
  <2>4. Call("started", r, DefaultName, accepted) \in AnswerCall
    <3>1. accepted \in BOOLEAN
      BY <1>12 DEF MayDelete
    <3> HIDE DEF accepted
    <3> QED
      BY <2>1, <3>1, AnswerTypes DEF AnyName
  <2>5. calls' \in Seq(AnswerCall \cup PostedCall) /\ Len(calls') <= MaxCalls
    BY <1>12, <2>4, Posting DEF ConfirmDelete, InSetup, Free
  <2> QED
    BY <1>12, <2>2, <2>3, <2>5 DEF TypeInv, ConfirmDelete
<1> QED
  BY <1>1, <1>2, <1>3, <1>4, <1>5, <1>6, <1>7, <1>8, <1>9, <1>10, <1>11, <1>12 DEF Tap

\* what the page does with a post,
LEMMA PostTypes ==
  ASSUME TypeInv, HandlePost
  PROVE  TypeInv'
<1> USE TypeParts
<1>1. calls # << >>
  BY DEF HandlePost, Configured, CodeOpened, Receive, ReplayComplete, DeleteStarted, Deleted,
         AccessRejected, Handles
<1>2. /\ Rest \in Seq(AnswerCall \cup PostedCall) /\ Len(Rest) < MaxCalls
      /\ Len(Rest) <= MaxCalls /\ Post \in AnswerCall \cup PostedCall
  BY <1>1, Handling
<1>3. CASE Configured
  <2>1. CASE Post.ok
    <3> DEFINE p == [page EXCEPT !.configuring = FALSE, !.setup = FALSE]
    <3>1. p \in PageType /\ p.board = page.board
      BY DEF PageType
    <3>2. /\ page' = BeginReplay(p, KindOr(page, "saved")) /\ native' = ReplayAsked
          /\ calls' = Rest /\ UNCHANGED <<catalog, db, stops>>
      BY <1>3, <2>1 DEF Configured, Load
    <3> HIDE DEF p
    <3>3. page' \in PageType /\ page'.board = page.board
      BY <3>1, <3>2, ReplayType
    <3> QED
      BY <1>2, <3>2, <3>3, NativeTypes DEF TypeInv
  <2>2. CASE ~ Post.ok
    <3> DEFINE p == StopReplay(page)
    <3>1. p \in PageType /\ p.board = page.board
      BY ReplayType
    <3>2. /\ page' = [p EXCEPT !.configuring = FALSE, !.setup = TRUE]
          /\ calls' = Rest /\ UNCHANGED <<catalog, native, db, stops>>
      BY <1>3, <2>2 DEF Configured
    <3> HIDE DEF p
    <3>3. page' \in PageType /\ page'.board = page.board
      BY <3>1, <3>2 DEF PageType
    <3> QED
      BY <1>2, <3>2, <3>3 DEF TypeInv
  <2> QED
    BY <2>1, <2>2
<1>4. CASE CodeOpened
  <2> DEFINE nm == Catalog!StableName(catalog, Post.r, Post.n)
             p == [page EXCEPT !.room = Post.r, !.name = nm, !.board = {},
                               !.configuring = FALSE, !.setup = FALSE]
  <2>1. Post.r \in Room /\ Post.n \in AnyName
    <3>1. Post \in AnswerCall /\ Post.t = "code"
      BY <1>2, <1>4, PostKinds DEF CodeOpened, Handles
    <3> QED
      BY <3>1 DEF AnswerCall
  <2>2. nm \in AnyName
    <3>1. \A e \in Entry : e.name \in AnyName
      BY DEF Entry
    <3>2. Catalog!Listed(catalog, Post.r) => Catalog!EntryOf(catalog, Post.r) \in Entry
      BY ListedEntry
    <3> QED
      BY <2>1, <3>1, <3>2 DEF Catalog!StableName
  <2> HIDE DEF nm
  <2>3. p \in PageType /\ p.board = {}
    BY <2>1, <2>2 DEF PageType, MaybeRoom
  <2>4. /\ page' = BeginReplay(p, KindOr(page, "join")) /\ native' = ReplayAsked
        /\ calls' = Rest /\ catalog' = Catalog!Remember(catalog, Post.r, nm, TRUE)
        /\ UNCHANGED <<db, stops>>
    BY <1>4 DEF CodeOpened, Load, nm
  <2> HIDE DEF p
  <2>5. page' \in PageType /\ page'.board = {}
    BY <2>3, <2>4, ReplayType
  <2>6. catalog' \in TidyCatalog
    BY <2>1, <2>2, <2>4, Remembered
  <2> QED
    BY <1>2, <2>4, <2>5, <2>6, NativeTypes, FS_EmptySet DEF TypeInv
<1>5. CASE Receive
  <2>1. Post.op \in Operation
    BY <1>2, <1>5, PostKinds DEF Receive, Handles
  <2> DEFINE catchup == page.waiting /\ ~ Post.op.own
             q == [BeginReplay(page, "catchup") EXCEPT !.done = TRUE]
             p == IF catchup THEN q ELSE page
  <2>2. q \in PageType /\ q.board = page.board
    <3>1. BeginReplay(page, "catchup") \in PageType /\ BeginReplay(page, "catchup").board = page.board
      BY ReplayType
    <3> QED
      BY <3>1 DEF PageType
  <2>3. p \in PageType /\ IsFiniteSet(p.board)
    <3> HIDE DEF catchup, q
    <3> QED
      BY <2>2
  <2>4. /\ \/ UNCHANGED <<page, catalog>>
           \/ page' = Applied(p, Post.op) /\ catalog' = CatalogAfter(p, Post.op, catalog)
        /\ calls' = Rest /\ UNCHANGED <<native, db, stops>>
    BY <1>5 DEF Receive
  <2> HIDE DEF p
  <2>5. page' \in PageType /\ IsFiniteSet(page'.board) /\ catalog' \in TidyCatalog
    <3>1. CASE UNCHANGED <<page, catalog>>
      BY <3>1
    <3>2. CASE page' = Applied(p, Post.op) /\ catalog' = CatalogAfter(p, Post.op, catalog)
      BY <2>1, <2>3, <3>2, AppliedType
    <3> QED
      BY <2>4, <3>1, <3>2
  <2> QED
    BY <1>2, <2>4, <2>5 DEF TypeInv
<1>6. CASE ReplayComplete
  <2> DEFINE p == Completed(page)
             named == NameEvent(page.board) # {}
  <2>1. p \in PageType /\ p.board = page.board /\ p.room = page.room
    BY ReplayType
  <2>2. \/ UNCHANGED <<page, catalog, db>> /\ calls' = Rest
        \/ /\ page.room # NoRoom /\ CanWrite
           /\ Write(p, Rest, page.name)
        \/ /\ page.room # NoRoom /\ calls' = Rest
           /\ page' = IF named THEN WithSyncedName(p) ELSE p
           /\ catalog' = IF named THEN NamedCatalog(page, catalog) ELSE catalog
           /\ UNCHANGED db
    BY <1>6 DEF ReplayComplete
  <2>3. UNCHANGED <<native, stops>>
    BY <1>6 DEF ReplayComplete
  <2>4. CASE UNCHANGED <<page, catalog, db>> /\ calls' = Rest
    BY <1>2, <2>3, <2>4 DEF TypeInv
  <2> HIDE DEF p
  <2>5. CASE page.room # NoRoom /\ CanWrite /\ Write(p, Rest, page.name)
    <3>1. p.room \in Room /\ HasSpace /\ IsFiniteSet(p.board)
      BY <2>1, <2>5 DEF MaybeRoom, CanWrite
    <3> QED
      BY <1>2, <2>1, <2>3, <2>5, <3>1, WriteType
  <2>6. CASE /\ page.room # NoRoom /\ calls' = Rest
             /\ page' = IF named THEN WithSyncedName(p) ELSE p
             /\ catalog' = IF named THEN NamedCatalog(page, catalog) ELSE catalog
             /\ UNCHANGED db
    <3>1. catalog' \in TidyCatalog
      BY <2>6, NamedCatalogTidy DEF MaybeRoom
    <3>2. WithSyncedName(p) \in PageType /\ WithSyncedName(p).board = p.board
      <4>1. WithSyncedName(p) \in PageType /\ WithSyncedName(p) = [p EXCEPT !.name = SyncedName(p)]
        BY <2>1, NamedPage
      <4> QED
        BY <2>1, <4>1 DEF PageType
    <3>3. page' \in PageType /\ page'.board = page.board
      BY <2>1, <2>6, <3>2
    <3> QED
      BY <1>2, <2>3, <2>6, <3>1, <3>3 DEF TypeInv
  <2> QED
    BY <2>2, <2>4, <2>5, <2>6
<1>7. CASE DeleteStarted
  <2>1. page' \in PageType /\ page'.board = page.board
    BY <1>7 DEF DeleteStarted, PageType
  <2> QED
    BY <1>2, <1>7, <2>1 DEF TypeInv, DeleteStarted
<1>8. CASE Deleted
  <2>1. page' \in PageType /\ page'.board = page.board
    <3> DEFINE deleting == IF Post.ok THEN NoRoom ELSE page.deleting
    <3>1. page' = [page EXCEPT !.deleting = deleting, !.busy = FALSE]
      BY <1>8 DEF Deleted, AfterDelete
    <3>2. deleting \in MaybeRoom
      BY DEF PageType, MaybeRoom
    <3> HIDE DEF deleting
    <3> QED
      BY <3>1, <3>2 DEF PageType
  <2>2. catalog' \in TidyCatalog
    BY <1>8, Forgotten DEF Deleted
  <2> QED
    BY <1>2, <1>8, <2>1, <2>2 DEF TypeInv, Deleted
<1>9. CASE AccessRejected
  <2>1. page' \in PageType /\ page'.board = {}
    <3>1. WithoutRoom(StopReplay(page)) \in PageType /\ WithoutRoom(StopReplay(page)).board = {}
      BY ReplayType
    <3> QED
      BY <1>9, <3>1 DEF AccessRejected, PageType
  <2>2. catalog' \in TidyCatalog
    BY <1>9, Forgotten DEF AccessRejected
  <2> QED
    BY <1>2, <1>9, <2>1, <2>2, FS_EmptySet DEF TypeInv, AccessRejected
<1> QED
  BY <1>3, <1>4, <1>5, <1>6, <1>7, <1>8, <1>9 DEF HandlePost

\* The next row of a replay.
LEMMA NextRow ==
  ASSUME NEW S \in SUBSET Operation, S # {}
  PROVE  (CHOOSE x \in S : \A y \in S : x.n <= y.n) \in S
<1> DEFINE N == {x.n : x \in S}
<1>1. \A x \in S : x.n \in 1 .. MaxOps
  BY DEF Operation
<1>2. N \in SUBSET (1 .. MaxOps) /\ N # {}
  BY <1>1
<1>3. IsFiniteSet(N) /\ N \in SUBSET Int
  BY <1>2, PositionsFinite, BoundAssumption
<1> HIDE DEF N
<1>4. PICK c \in N : \A d \in N : c <= d
  BY <1>2, <1>3, Smallest
<1>5. \E x \in S : \A y \in S : x.n <= y.n
  BY <1>4 DEF N
<1> QED
  BY <1>5

\* what the worker does,
LEMMA WorkerTypes ==
  ASSUME TypeInv, WorkerStep
  PROVE  TypeInv'
<1> USE TypeParts
<1>1. native.worker # << >>
  BY DEF WorkerStep, ReplayStart, ReplayRow, ReplayEnd, DeleteRows, Busy
<1>2. /\ Work \in TaskType /\ Tail(native.worker) \in Seq(TaskType)
      /\ Work = native.worker[1] /\ 1 \in 1 .. Len(native.worker)
  BY <1>1, HeadTailProperties DEF Work
<1>3. Work.r \in Room /\ Work.left \in SUBSET Operation
  BY <1>2 DEF TaskType
<1>4. ASSUME NEW w \in TaskType
      PROVE  [native EXCEPT !.worker[1] = w] \in NativeType
  <2> DEFINE tasks == [native.worker EXCEPT ![1] = w]
  <2>1. tasks \in Seq(TaskType)
    BY <1>2, ExceptSeq
  <2>2. [native EXCEPT !.worker[1] = w] = [native EXCEPT !.worker = tasks]
    OBVIOUS
  <2> HIDE DEF tasks
  <2> QED
    BY <2>1, <2>2 DEF NativeType
<1>5. [native EXCEPT !.worker = Tail(@)] \in NativeType
  BY <1>2 DEF NativeType
<1>6. CASE ReplayStart
  <2>1. [Work EXCEPT !.started = TRUE, !.left = db[Work.r]] \in TaskType
    BY <1>2, <1>3 DEF TaskType
  <2> QED
    BY <1>4, <1>6, <2>1 DEF TypeInv, ReplayStart
<1>7. CASE ReplayRow
  <2> DEFINE o == CHOOSE x \in Work.left : \A y \in Work.left : x.n <= y.n
             w == [Work EXCEPT !.left = @ \ {o}]
  <2>1. native' = [native EXCEPT !.worker[1] = w]
    <3>1. native' = [native EXCEPT !.worker[1].left = @ \ {o}]
      BY <1>7 DEF ReplayRow
    <3> QED
      BY <1>2, <3>1
  <2>2. o \in Work.left
    BY <1>3, <1>7, NextRow DEF ReplayRow
  <2>3. w \in TaskType
    BY <1>2, <1>3 DEF TaskType
  <2>4. OpCall(o) \in AnswerCall \cup PostedCall
    BY <1>3, <2>2, PostKinds
  <2>5. calls' = Append(calls, OpCall(o)) /\ Len(calls) < MaxCalls
    BY <1>7 DEF ReplayRow, HasRoom
  <2> HIDE DEF o, w
  <2>6. calls' \in Seq(AnswerCall \cup PostedCall) /\ Len(calls') <= MaxCalls
    BY <2>4, <2>5, Posting
  <2> QED
    BY <1>4, <1>7, <2>1, <2>3, <2>6 DEF TypeInv, ReplayRow
<1>8. CASE ReplayEnd
  <2>1. Call("complete", NoRoom, DefaultName, TRUE) \in AnswerCall
    BY AnswerTypes DEF MaybeRoom, AnyName
  <2>2. calls' \in Seq(AnswerCall \cup PostedCall) /\ Len(calls') <= MaxCalls
    BY <1>8, <2>1, Posting DEF ReplayEnd, HasRoom
  <2> QED
    BY <1>5, <1>8, <2>2 DEF TypeInv, ReplayEnd
<1>9. ASSUME NEW ok \in BOOLEAN, DeleteRows(ok)
      PROVE  TypeInv'
  <2>1. Call("deleted", Work.r, DefaultName, ok) \in AnswerCall
    BY <1>3, AnswerTypes DEF MaybeRoom, AnyName
  <2>2. calls' \in Seq(AnswerCall \cup PostedCall) /\ Len(calls') <= MaxCalls
    BY <1>9, <2>1, Posting DEF DeleteRows, HasRoom
  <2>3. db' = db \/ db' = [db EXCEPT ![Work.r] = {}]
    BY <1>9 DEF DeleteRows
  <2>4. /\ db' \in [Room -> SUBSET Operation]
        /\ \A r \in Room : IsFiniteSet(db'[r]) /\ \A o \in db'[r] : o.r = r
    BY <1>3, <2>3, FS_EmptySet
  <2> QED
    BY <1>5, <1>9, <2>2, <2>4 DEF TypeInv, DeleteRows
<1> QED
  BY <1>6, <1>7, <1>8, <1>9 DEF WorkerStep

\* the timers of the page,
LEMMA TimerTypes ==
  ASSUME TypeInv, ReplayTimer
  PROVE  TypeInv'
<1> USE TypeParts
<1> DEFINE p == [page EXCEPT !.loading = FALSE, !.done = FALSE, !.remote = FALSE,
                             !.timer = FALSE, !.kind = ""]
<1>1. p \in PageType /\ p.board = page.board /\ p.room = page.room
  BY DEF PageType
<1>2. UNCHANGED <<calls, native, db, stops>>
  BY DEF ReplayTimer
<1>3. CASE page.room = NoRoom
  <2>1. page' = p /\ UNCHANGED catalog
    BY <1>3 DEF ReplayTimer
  <2> HIDE DEF p
  <2> QED
    BY <1>1, <1>2, <2>1 DEF TypeInv
<1>4. CASE page.room # NoRoom
  <2>1. /\ page' = WithSyncedName(p)
        /\ catalog' = Catalog!Remember(NamedCatalog(p, catalog), p.room, SyncedName(p), TRUE)
    BY <1>4 DEF ReplayTimer
  <2>2. p.room \in Room
    BY <1>1, <1>4 DEF MaybeRoom
  <2> HIDE DEF p
  <2>3. page' \in PageType /\ page' = [p EXCEPT !.name = SyncedName(p)]
    BY <1>1, <2>1, NamedPage
  <2>4. page'.board = p.board
    BY <1>1, <2>3 DEF PageType
  <2>5. NamedCatalog(p, catalog) \in TidyCatalog /\ SyncedName(p) \in AnyName
    BY <1>1, <2>2, NamedCatalogTidy, NameOf
  <2>6. catalog' \in TidyCatalog
    BY <2>1, <2>2, <2>5, Remembered
  <2> QED
    BY <1>1, <1>2, <2>3, <2>4, <2>6 DEF TypeInv
<1> QED
  BY <1>3, <1>4

\* and everything else.
LEMMA OtherTypes ==
  ASSUME TypeInv, \/ ResumeExpires \/ Rejected \/ BluetoothOff \/ BluetoothOn \/ Restart
                  \/ \E nm \in Name \union {Drawing} : Nearby(nm)
  PROVE  TypeInv'
<1> USE TypeParts
<1>1. CASE ResumeExpires
  <2>1. page' \in PageType /\ page'.board = page.board
    BY <1>1 DEF ResumeExpires, PageType, MaybeRoom
  <2> QED
    BY <1>1, <2>1 DEF TypeInv, ResumeExpires
<1>2. ASSUME NEW nm \in Name \union {Drawing}, Nearby(nm)
      PROVE  TypeInv'
  <2> DEFINE o == [r |-> native.config, n |-> NextNumber(native.config),
                   own |-> FALSE, name |-> nm]
  <2>1. native.config \in Room /\ NextNumber(native.config) \in 1 .. MaxOps
    BY <1>2, NumberFits DEF Nearby
  <2>2. o \in Operation /\ o.r = native.config
    BY <2>1 DEF Operation, Drawing
  <2>3. db' = [db EXCEPT ![o.r] = @ \union {o}] /\ calls' = Append(calls, OpCall(o))
    BY <1>2 DEF Nearby
  <2> HIDE DEF o
  <2>4. OpCall(o) \in AnswerCall \cup PostedCall /\ Len(calls) < MaxCalls
    BY <1>2, <2>2, PostKinds DEF Nearby, HasRoom
  <2>5. calls' \in Seq(AnswerCall \cup PostedCall) /\ Len(calls') <= MaxCalls
    BY <2>3, <2>4, Posting
  <2>6. IsFiniteSet(db[o.r] \cup {o})
    BY <2>1, <2>2, FS_AddElement
  <2>7. /\ db' \in [Room -> SUBSET Operation]
        /\ \A r \in Room : IsFiniteSet(db'[r]) /\ \A x \in db'[r] : x.r = r
    BY <2>1, <2>2, <2>3, <2>6
  <2> QED
    BY <1>2, <2>5, <2>7 DEF TypeInv, Nearby
<1>3. CASE Rejected
  <2>1. native.config \in Room
    BY <1>3, BoardAssumption DEF Rejected
  <2>2. Call("rejected", native.config, DefaultName, TRUE) \in AnswerCall
    BY <2>1, AnswerTypes DEF AnyName
  <2>3. calls' \in Seq(AnswerCall \cup PostedCall) /\ Len(calls') <= MaxCalls
    BY <1>3, <2>2, Posting DEF Rejected, HasRoom
  <2> QED
    BY <1>3, <2>3, NativeTypes DEF TypeInv, Rejected
<1>4. CASE BluetoothOff
  <2> DEFINE kept == Pick(native.worker, {i \in DOMAIN native.worker : native.worker[i].started})
  <2>1. kept \in Seq(TaskType)
    BY Picked
  <2>2. native' = [native EXCEPT !.running = FALSE, !.worker = kept]
    BY <1>4 DEF BluetoothOff
  <2> HIDE DEF kept
  <2>3. native' \in NativeType
    BY <2>1, <2>2 DEF NativeType
  <2>4. stops' \in 0 .. MaxStops
    BY <1>4, BoundAssumption DEF BluetoothOff
  <2> QED
    BY <1>4, <2>3, <2>4 DEF TypeInv, BluetoothOff
<1>5. CASE BluetoothOn
  <2>1. native' \in NativeType
    BY <1>5 DEF BluetoothOn, NativeType
  <2> QED
    BY <1>5, <2>1 DEF TypeInv, BluetoothOn
<1>6. CASE Restart
  <2>1. PICK saved \in {{}, page.board} :
          page' = [Idle EXCEPT !.room = page.room, !.name = page.name, !.board = saved]
    BY <1>6 DEF Restart
  <2>2. saved \in SUBSET Operation /\ IsFiniteSet(saved)
    BY FS_EmptySet
  <2>3. page' \in PageType /\ page'.board = saved
    BY <2>1, <2>2, IdleType DEF PageType
  <2>4. native' \in NativeType
    BY <1>6, EmptySeq DEF Restart, NativeType
  <2>5. calls' \in Seq(AnswerCall \cup PostedCall) /\ Len(calls') <= MaxCalls
    BY <1>6, EmptySeq, BoundAssumption DEF Restart
  <2> QED
    BY <1>6, <2>2, <2>3, <2>4, <2>5 DEF TypeInv, Restart
<1> QED
  BY <1>1, <1>2, <1>3, <1>4, <1>5, <1>6

LEMMA TypesKept == TypeInv /\ [Next]_vars => TypeInv'
<1> SUFFICES ASSUME TypeInv, [Next]_vars PROVE TypeInv'
  OBVIOUS
<1>1. CASE UNCHANGED vars
  BY <1>1 DEF TypeInv, vars
<1>2. CASE Next
  BY <1>2, TapTypes, PostTypes, WorkerTypes, TimerTypes, OtherTypes DEF Next
<1> QED
  BY <1>1, <1>2

\* The first boards in the list are those of older versions.
LEMMA InitTypes == Init => TypeInv
<1> SUFFICES ASSUME Init PROVE TypeInv
  OBVIOUS
<1>1. PICK old \in SetToSeqs(Room \ Direct) :
        catalog = Catalog!Reconciled(
          [i \in DOMAIN old |-> [room |-> old[i], name |-> DefaultName,
                                 color |-> Catalog!NoColor]])
  BY DEF Init
<1> DEFINE cat == [i \in DOMAIN old |-> [room |-> old[i], name |-> DefaultName,
                                         color |-> Catalog!NoColor]]
           n == Cardinality(Room \ Direct)
<1>2. IsFiniteSet(Room \ Direct) /\ n \in Nat
  BY BoardAssumption, FS_Difference, FS_CardinalityType
<1>3. /\ old \in [1 .. n -> Room \ Direct]
      /\ \A i, j \in 1 .. n : i # j => old[i] # old[j]
  BY DEF SetToSeqs
<1>4. cat \in CatalogType
  <2>1. Catalog!NoColor \in Int /\ DefaultName \in AnyName
    BY DEF Catalog!NoColor, AnyName
  <2>2. \A i \in 1 .. n : cat[i] \in Entry /\ cat[i].room = old[i]
    BY <1>3, <2>1 DEF Entry
  <2>3. DOMAIN cat = 1 .. n
    BY <1>3
  <2>4. cat \in [1 .. n -> Entry]
    BY <2>2, <2>3
  <2> HIDE DEF cat, n
  <2>5. cat \in Seq(Entry)
    <3>1. cat \in UNION {[1 .. k -> Entry] : k \in Nat}
      BY <1>2, <2>4
    <3> QED
      BY <3>1, SeqDef
  <2>6. \A i, j \in DOMAIN cat : i # j => cat[i].room # cat[j].room
    BY <1>3, <2>2, <2>3
  <2> QED
    BY <2>5, <2>6 DEF CatalogType
<1>5. catalog \in TidyCatalog
  <2> HIDE DEF cat
  <2>1. Catalog!Reconciled(cat) \in TidyCatalog
    BY <1>4, ReconciledCatalog
  <2> QED
    BY <1>1, <2>1 DEF cat
<1>6. page \in PageType /\ page.board = {}
  BY IdleType DEF Init, Idle
<1>7. native \in NativeType
  <2>1. [r \in Room |-> IF r \in Unadmitted THEN DefaultName ELSE NoRoom]
          \in [Room -> AnyName \cup {NoRoom}]
    BY DEF AnyName
  <2> QED
    BY <2>1, EmptySeq DEF Init, NativeType, MaybeRoom
<1> QED
  BY <1>5, <1>6, <1>7, FS_EmptySet, EmptySeq, BoundAssumption DEF TypeInv, Init

-----------------------------------------------------------------------------
(* Whatever the user does *)

\* What every variable may hold, in every behaviour: the type part of IInv.
THEOREM Typed == Spec => []TypeInv
BY InitTypes, TypesKept, PTL DEF Spec

\* TypeOK holds of every behaviour.
THEOREM TypeCorrect == Spec => []TypeOK
<1>1. TypeInv => TypeOK
  <2> SUFFICES ASSUME TypeInv PROVE TypeOK
    OBVIOUS
  <2>1. DOMAIN page = DOMAIN Idle
    BY TypeParts DEF PageType, Idle
  <2>2. Catalog!Rooms(catalog) \in SUBSET Room /\ Cardinality(Catalog!Rooms(catalog)) = Len(catalog)
    BY TypeParts, ListedOnce DEF TidyCatalog
  <2> QED
    BY <2>1, <2>2, TypeParts DEF TypeOK, MaybeRoom, AnyName
<1> QED
  BY <1>1, Typed, PTL

\* Saved boards of one name have different colours, and one goes without only
\* when all are in use, through everything a user does and everything that
\* reaches the page late (cb_remember_room, cb_reconcile_board_colors).
THEOREM ColorsTellBoardsApart == Spec => []CatalogColors
<1>1. TypeInv => CatalogColors
  BY TypeParts DEF TidyCatalog, Colored, CatalogColors
<1> QED
  BY <1>1, Typed, PTL

-----------------------------------------------------------------------------
(* Queues *)

\* A queue with one more post, and one that lost its first.
LEMMA AppendedPosts ==
  ASSUME NEW S, NEW q \in Seq(S), NEW c \in S
  PROVE  LET new == Append(q, c)
         IN /\ Len(q) + 1 \in DOMAIN new /\ new[Len(q) + 1] = c
            /\ \A i \in DOMAIN q : i \in DOMAIN new /\ new[i] = q[i] /\ i < Len(q) + 1
            /\ \A i \in DOMAIN new : i \in DOMAIN q \/ i = Len(q) + 1
<1> DEFINE new == Append(q, c)
           n == Len(q)
<1>1. /\ n \in Nat /\ DOMAIN q = 1 .. n
      /\ DOMAIN new = 1 .. n + 1 /\ new[n + 1] = c /\ \A i \in 1 .. n : new[i] = q[i]
  BY AppendProperties
<1> HIDE DEF new, n
<1>2. \A i \in 1 .. n : i \in 1 .. n + 1 /\ i < n + 1
  BY <1>1
<1>3. \A i \in 1 .. n + 1 : i \in 1 .. n \/ i = n + 1
  BY <1>1
<1>4. n + 1 \in 1 .. n + 1
  BY <1>1
<1> QED
  BY <1>1, <1>2, <1>3, <1>4 DEF new, n

LEMMA RemainingPosts ==
  ASSUME NEW S, NEW q \in Seq(S), q # << >>
  PROVE  /\ 1 \in DOMAIN q /\ Head(q) = q[1]
         /\ \A i \in DOMAIN Tail(q) : i + 1 \in DOMAIN q /\ Tail(q)[i] = q[i + 1]
         /\ \A i \in DOMAIN q : i = 1 \/ (i - 1 \in DOMAIN Tail(q) /\ Tail(q)[i - 1] = q[i])
         /\ DOMAIN q \in SUBSET Int /\ DOMAIN Tail(q) \in SUBSET Int
<1> DEFINE rest == Tail(q)
           n == Len(q)
<1>1. /\ n \in Nat /\ n # 0 /\ DOMAIN q = 1 .. n /\ Head(q) = q[1]
      /\ DOMAIN rest = 1 .. n - 1 /\ \A i \in 1 .. n - 1 : rest[i] = q[i + 1]
  BY HeadTailProperties
<1> HIDE DEF rest, n
<1>2. \A i \in 1 .. n : i = 1 \/ (i - 1 \in 1 .. n - 1 /\ rest[i - 1] = q[i])
  <2> SUFFICES ASSUME NEW i \in 1 .. n, i # 1
               PROVE  i - 1 \in 1 .. n - 1 /\ rest[i - 1] = q[i]
    OBVIOUS
  <2>1. i - 1 \in 1 .. n - 1 /\ (i - 1) + 1 = i
    BY <1>1
  <2> QED
    BY <1>1, <2>1
<1>3. \A i \in 1 .. n - 1 : i + 1 \in 1 .. n
  BY <1>1
<1>4. 1 \in 1 .. n
  BY <1>1
<1> QED
  BY <1>1, <1>2, <1>3, <1>4 DEF rest, n

\* The operations among the posts.
OpsIn(q) == {q[i].op : i \in {j \in DOMAIN q : q[j].t = "op"}}

LEMMA PostedIs == Posted = OpsIn(calls) /\ Posted' = OpsIn(calls')
BY DEF Posted, OpsIn

\* The operations of a queue when it grows and when it shrinks.
LEMMA OpsAppended ==
  ASSUME NEW S, NEW q \in Seq(S), NEW c \in S
  PROVE  OpsIn(Append(q, c)) = IF c.t = "op" THEN OpsIn(q) \cup {c.op} ELSE OpsIn(q)
<1> DEFINE new == Append(q, c)
<1>1. /\ Len(q) + 1 \in DOMAIN new /\ new[Len(q) + 1] = c
      /\ \A i \in DOMAIN q : i \in DOMAIN new /\ new[i] = q[i]
      /\ \A i \in DOMAIN new : i \in DOMAIN q \/ i = Len(q) + 1
  BY AppendedPosts
<1> HIDE DEF new
<1>2. \A o : o \in OpsIn(new) <=> \E i \in DOMAIN new : new[i].t = "op" /\ new[i].op = o
  BY DEF OpsIn
<1>3. \A o : o \in OpsIn(q) <=> \E i \in DOMAIN q : q[i].t = "op" /\ q[i].op = o
  BY DEF OpsIn
<1>4. \A o : o \in OpsIn(new) <=> (o \in OpsIn(q) \/ (c.t = "op" /\ c.op = o))
  BY <1>1, <1>2, <1>3
<1> HIDE DEF OpsIn
<1>5. OpsIn(new) = IF c.t = "op" THEN OpsIn(q) \cup {c.op} ELSE OpsIn(q)
  BY <1>4
<1> QED
  BY <1>5 DEF new

LEMMA OpsRemaining ==
  ASSUME NEW S, NEW q \in Seq(S), q # << >>
  PROVE  OpsIn(q) = IF Head(q).t = "op" THEN OpsIn(Tail(q)) \cup {Head(q).op} ELSE OpsIn(Tail(q))
<1> DEFINE rest == Tail(q)
<1>1. /\ 1 \in DOMAIN q /\ Head(q) = q[1]
      /\ \A i \in DOMAIN rest : i + 1 \in DOMAIN q /\ rest[i] = q[i + 1]
      /\ \A i \in DOMAIN q : i = 1 \/ (i - 1 \in DOMAIN rest /\ rest[i - 1] = q[i])
  BY RemainingPosts
<1> HIDE DEF rest
<1>2. \A o : o \in OpsIn(rest) <=> \E i \in DOMAIN rest : rest[i].t = "op" /\ rest[i].op = o
  BY DEF OpsIn
<1>3. \A o : o \in OpsIn(q) <=> \E i \in DOMAIN q : q[i].t = "op" /\ q[i].op = o
  BY DEF OpsIn
<1>4. \A o : o \in OpsIn(q) <=> (o \in OpsIn(rest) \/ (Head(q).t = "op" /\ Head(q).op = o))
  BY <1>1, <1>2, <1>3
<1>5. OpsIn(q) = IF Head(q).t = "op" THEN OpsIn(rest) \cup {Head(q).op} ELSE OpsIn(rest)
  BY <1>4
<1> QED
  BY <1>5 DEF rest

-----------------------------------------------------------------------------
(* What a patient user finds *)

Quiet ==
  /\ native.worker = << >>
  /\ \A i \in DOMAIN calls : calls[i].t \notin Answer /\ calls[i].t # "started"

\* When he may tap, nothing is under way.
LEMMA FreeQuiet ==
  ASSUME IInv, Hurried = FALSE, Free
  PROVE  Quiet /\ page.front /\ ~ page.busy /\ ~ page.loading
<1>1. Settled /\ page.front
  BY DEF Free
<1>2. \A i \in DOMAIN calls : calls[i].t # "deleted"
  <2> SUFFICES ASSUME NEW i \in DOMAIN calls, calls[i].t = "deleted" PROVE FALSE
    OBVIOUS
  <2>1. calls[i] \in AnswerCall
    <3>1. calls[i] \in AnswerCall \cup PostedCall
      BY TypeParts DEF IInv
    <3> QED
      BY <3>1, PostKinds
  <2>2. calls[i].r \in MaybeRoom /\ Deleting(calls[i].r)
    BY <2>1 DEF AnswerCall, Deleting
  <2>3. page.busy
    BY <2>2 DEF IInv, PatientInv, DeleteInv
  <2> QED
    BY <1>1, <2>3 DEF Settled
<1>3. \A i \in DOMAIN calls : calls[i].t # "started"
  BY <1>1 DEF Settled, IInv, PatientInv, DeleteInv, Pending
<1> QED
  BY <1>1, <1>2, <1>3 DEF Quiet, Settled, Answer

\* Nor when he is elsewhere.
LEMMA AwayQuiet ==
  ASSUME IInv, ~ page.front
  PROVE  Quiet
BY DEF Quiet, IInv, PatientInv, QueueInv, DeleteInv, Pending

\* Nothing is deleted when it is quiet.
LEMMA QuietKeepsBoards ==
  ASSUME Quiet
  PROVE  \A r : ~ Deleting(r)
BY DEF Quiet, Deleting, Answer

\* A new operation has a number that no stored one has.
LEMMA FreshNumber ==
  ASSUME IInv, NEW r \in Room, ~ Deleting(r)
  PROVE  /\ NextNumber(r) = 1 + Cardinality(db[r])
         /\ Cardinality(db[r]) \in Nat
         /\ \A o \in db[r] : o.n # NextNumber(r)
<1>1. /\ IsFiniteSet(db[r]) /\ \A o \in db[r] : o.n \in 1 .. Cardinality(db[r])
  BY DEF IInv, TypeInv, PatientInv, StoredInv, Numbered
<1>2. Cardinality(db[r]) \in Nat
  BY <1>1, FS_CardinalityType
<1>3. ASSUME NEW o \in page.board, o.r = r
      PROVE  o \in db[r]
  <2>1. page.room \in Room /\ o \in db[page.room]
    BY TypeParts DEF IInv, PatientInv, StoredInv, MaybeRoom
  <2>2. o.r = page.room
    BY <2>1, TypeParts DEF IInv
  <2> QED
    BY <1>3, <2>1, <2>2
<1>4. ASSUME NEW o \in Posted, o.r = r
      PROVE  o \in db[r]
  <2>1. PICK i \in DOMAIN calls : calls[i].t = "op" /\ calls[i].op = o
    BY DEF Posted
  <2>2. calls[i].r = r
    <3>1. calls[i] \in AnswerCall \cup PostedCall
      BY TypeParts DEF IInv
    <3> QED
      BY <1>4, <2>1, <3>1, PostKinds
  <2>3. o \in db[r] \/ \E j \in DOMAIN calls : calls[j].t = "deleted" /\ calls[j].r = r
    BY <2>1, <2>2 DEF IInv, PatientInv, StoredInv, PostsStored
  <2> QED
    BY <2>3 DEF Deleting
<1>5. db[r] \union {o \in page.board \union Posted : o.r = r} = db[r]
  BY <1>3, <1>4
<1>6. NextNumber(r) = 1 + Cardinality(db[r])
  BY <1>5 DEF NextNumber
<1> DEFINE n == Cardinality(db[r])
<1> HIDE DEF n
<1>7. \A o \in db[r] : o.n \in 1 .. n
  BY <1>1 DEF n
<1>8. NextNumber(r) = 1 + n /\ n \in Nat
  BY <1>2, <1>6 DEF n
<1>9. \A o \in db[r] : o.n # NextNumber(r)
  BY <1>7, <1>8
<1> QED
  BY <1>2, <1>6, <1>9

\* The fields that an operation leaves alone.
LEMMA AppliedFields ==
  ASSUME NEW p \in PageType, NEW o
  PROVE  LET q == Applied(p, o)
         IN /\ q.front = p.front /\ q.setup = p.setup /\ q.busy = p.busy /\ q.room = p.room
            /\ q.configuring = p.configuring /\ q.kind = p.kind /\ q.resume = p.resume
            /\ q.loading = p.loading /\ q.done = p.done /\ q.waiting = p.waiting
            /\ q.remote = p.remote
            /\ q.timer => p.timer \/ (p.loading /\ p.done)
<1> DEFINE q == [p EXCEPT !.board = @ \union {o}]
<1>1. CASE ~ News(p, o)
  BY <1>1 DEF Applied
<1>2. CASE News(p, o) /\ p.loading
  <2> DEFINE late == q.timer \/ p.done
  <2>1. Applied(p, o) = [q EXCEPT !.timer = late]
    BY <1>2 DEF Applied
  <2>2. late = (p.timer \/ p.done)
    BY DEF PageType
  <2> HIDE DEF late
  <2>3. Applied(p, o).timer = late
    BY <2>1 DEF PageType
  <2> QED
    BY <1>2, <2>1, <2>2, <2>3 DEF PageType
<1>3. CASE News(p, o) /\ ~ p.loading
  <2> DEFINE nm == SyncedName(q)
  <2>1. Applied(p, o) = [q EXCEPT !.name = nm]
    BY <1>3 DEF Applied, WithSyncedName
  <2> HIDE DEF nm
  <2> QED
    BY <2>1 DEF PageType
<1> QED
  BY <1>1, <1>2, <1>3

-----------------------------------------------------------------------------
(* What the steps do *)

\* The operation as the page applies it.
LEMMA Redirected ==
  ASSUME NEW o \in Operation, NEW r \in Room
  PROVE  /\ [o EXCEPT !.r = r] \in Operation /\ [o EXCEPT !.r = r].r = r
         /\ o.r = r => [o EXCEPT !.r = r] = o
BY DEF Operation

\* What cb_write_board_event writes, and where.
LEMMA Written ==
  ASSUME TypeInv, HasSpace, NEW p \in PageType, p.room \in Room,
         NEW q \in Seq(AnswerCall \cup PostedCall), NEW nm \in AnyName, Write(p, q, nm)
  PROVE  \E o \in Operation :
           /\ o.r = native.config /\ o.n = NextNumber(native.config)
           /\ db' = [db EXCEPT ![native.config] = @ \union {o}]
           /\ calls' = Append(q, OpCall(o))
           /\ page'.front = p.front /\ page'.setup = p.setup /\ page'.busy = p.busy
           /\ page'.room = p.room
           /\ page'.configuring = p.configuring /\ page'.kind = p.kind /\ page'.resume = p.resume
           /\ page'.loading = p.loading /\ page'.done = p.done /\ page'.waiting = p.waiting
           /\ page'.remote = p.remote
           /\ page'.timer => p.timer \/ (p.loading /\ p.done)
           /\ native.config = p.room => page'.board = p.board \cup {o}
<1> DEFINE o == [r |-> native.config, n |-> NextNumber(native.config),
                 own |-> TRUE, name |-> nm]
           here == [o EXCEPT !.r = p.room]
<1>1. native.config \in Room /\ NextNumber(native.config) \in 1 .. MaxOps
  BY NumberFits
<1>2. /\ o \in Operation /\ here \in Operation /\ o.r = native.config /\ here.r = p.room
      /\ o.n = NextNumber(native.config) /\ (native.config = p.room => here = o)
  <2>1. o \in Operation /\ o.r = native.config /\ o.n = NextNumber(native.config)
    BY <1>1 DEF Operation, AnyName
  <2> HIDE DEF o
  <2> QED
    BY <2>1, Redirected
<1>3. /\ db' = [db EXCEPT ![o.r] = @ \union {o}]
      /\ calls' = Append(q, OpCall(o))
      /\ page' = Applied(p, here)
  BY DEF Write
<1> HIDE DEF o, here
<1>4. page'.board = p.board \cup {here}
  <2>1. CASE News(p, here)
    <3> DEFINE x == [p EXCEPT !.board = @ \union {here}]
               late == x.timer \/ p.done
               named == SyncedName(x)
    <3>1. x.board = p.board \cup {here} /\ x \in PageType
      BY <1>2 DEF PageType
    <3>2. page' = [x EXCEPT !.timer = late] \/ page' = [x EXCEPT !.name = named]
      BY <1>3, <2>1 DEF Applied, WithSyncedName
    <3> HIDE DEF x, late, named
    <3> QED
      BY <3>1, <3>2 DEF PageType
  <2>2. CASE ~ News(p, here)
    BY <1>2, <1>3, <2>2 DEF News, ForBoard, Applied
  <2> QED
    BY <2>1, <2>2
<1>5. /\ page'.front = p.front /\ page'.setup = p.setup /\ page'.busy = p.busy
      /\ page'.room = p.room
      /\ page'.configuring = p.configuring /\ page'.kind = p.kind /\ page'.resume = p.resume
      /\ page'.loading = p.loading /\ page'.done = p.done /\ page'.waiting = p.waiting
      /\ page'.remote = p.remote
      /\ page'.timer => p.timer \/ (p.loading /\ p.done)
  BY <1>3, AppliedFields
<1> QED
  BY <1>2, <1>3, <1>4, <1>5

\* What another phone's operation leaves here.
LEMMA Arrived ==
  ASSUME TypeInv, NEW nm \in Name \union {Drawing}, Nearby(nm)
  PROVE  \E o \in Operation :
           /\ native.config \in Room
           /\ o.r = native.config /\ o.n = NextNumber(native.config)
           /\ db' = [db EXCEPT ![native.config] = @ \union {o}]
           /\ calls' = Append(calls, OpCall(o))
           /\ UNCHANGED <<page, native, stops>>
<1> DEFINE o == [r |-> native.config, n |-> NextNumber(native.config),
                 own |-> FALSE, name |-> nm]
<1>1. native.config \in Room /\ NextNumber(native.config) \in 1 .. MaxOps
  BY NumberFits DEF Nearby
<1>2. o \in Operation /\ o.r = native.config /\ o.n = NextNumber(native.config)
  BY <1>1 DEF Operation, Drawing
<1>3. /\ db' = [db EXCEPT ![o.r] = @ \union {o}] /\ calls' = Append(calls, OpCall(o))
      /\ UNCHANGED <<page, native, stops>>
  BY DEF Nearby
<1> QED
  BY <1>1, <1>2, <1>3

\* A drawing goes to the board that is shown.
LEMMA DrawsHere ==
  ASSUME IInv, Draw
  PROVE  native.config = page.room /\ page.room \in Room
BY TypeParts DEF Draw, CanWrite, HasSpace, IInv, PatientInv, ConfigInv, MaybeRoom

\* So does the name that a board gets when its replay is complete.
LEMMA CompletePublishes ==
  ASSUME IInv, ReplayComplete
  PROVE  \/ page.room = NoRoom /\ calls' = Rest /\ UNCHANGED <<page, db>>
         \/ /\ page.room \in Room /\ native.config = page.room /\ HasSpace
            /\ Write(Completed(page), Rest, page.name)
         \/ /\ page.room \in Room /\ calls' = Rest /\ UNCHANGED db
            /\ page' \in {Completed(page), WithSyncedName(Completed(page))}
<1>1. Pending("complete")
  <2>1. calls # << >> /\ Head(calls).t = "complete"
    BY DEF ReplayComplete, Handles, Post
  <2>2. 1 \in DOMAIN calls /\ Head(calls) = calls[1]
    BY <2>1, TypeParts, RemainingPosts DEF IInv
  <2> QED
    BY <2>1, <2>2 DEF Pending
<1>2. page.room # NoRoom => ~ page.setup
  BY <1>1 DEF IInv, PatientInv, ConfigInv
<1>3. page.room # NoRoom => page.room \in Room
  BY TypeParts DEF IInv, MaybeRoom
<1>4. page.room # NoRoom /\ ~ page.configuring /\ CanWrite => native.config = page.room /\ HasSpace
  BY <1>2 DEF CanWrite, HasSpace, IInv, PatientInv, ConfigInv
<1> QED
  BY <1>3, <1>4 DEF ReplayComplete

-----------------------------------------------------------------------------
(* One answer at a time *)

\* QueueInv when no answer is asked for: nothing changes, a notice is posted,
\* the worker's task becomes an answer, or the page handles a post.
LEMMA QueueUnchanged ==
  ASSUME IInv, calls' = calls, native'.worker = native.worker,
         page'.front = page.front \/ page'.front \/ Quiet
  PROVE  QueueInv'
BY DEF QueueInv, Quiet, IInv, PatientInv

LEMMA QueueNotice ==
  ASSUME IInv, NEW c \in AnswerCall \cup PostedCall, calls' = Append(calls, c),
         c.t \notin Answer, native'.worker = native.worker, page'.front = page.front
  PROVE  QueueInv'
<1>1. \A i \in DOMAIN calls' : calls'[i].t \in Answer => i \in DOMAIN calls /\ calls'[i] = calls[i]
  BY TypeParts, AppendedPosts DEF IInv
<1> QED
  BY <1>1 DEF QueueInv, IInv, PatientInv

LEMMA QueueAnswer ==
  ASSUME IInv, NEW c \in AnswerCall \cup PostedCall, calls' = Append(calls, c),
         \A i \in DOMAIN calls : calls[i].t \notin Answer,
         native'.worker = << >>, page'.front
  PROVE  QueueInv'
<1>1. \A i \in DOMAIN calls' : calls'[i].t \in Answer => i = Len(calls) + 1
  BY TypeParts, AppendedPosts DEF IInv
<1>2. Len(native'.worker) <= 1
  OBVIOUS
<1> QED
  BY <1>1, <1>2 DEF QueueInv

\* The first post goes.
LEMMA FirstPost ==
  ASSUME IInv, calls # << >>
  PROVE  /\ 1 \in DOMAIN calls /\ Post = calls[1]
         /\ \A i \in DOMAIN Rest : i \in Int /\ i + 1 \in DOMAIN calls /\ Rest[i] = calls[i + 1]
         /\ \A i \in DOMAIN calls : /\ i \in Int
                                    /\ i = 1 \/ (i - 1 \in DOMAIN Rest /\ Rest[i - 1] = calls[i])
BY TypeParts, RemainingPosts DEF IInv, Rest, Post

LEMMA QueueHandled ==
  ASSUME IInv, calls # << >>, calls' = Rest, page'.front = page.front,
         \/ native'.worker = native.worker
         \/ Post.t \in Answer /\ Len(native'.worker) <= 1
  PROVE  QueueInv'
<1>1. /\ DOMAIN calls \in SUBSET Int
      /\ Len(native.worker) <= 1
      /\ \A i, j \in DOMAIN calls : calls[i].t \in Answer /\ calls[j].t \in Answer => i = j
      /\ native.worker # << >> \/ ~ page.front => \A i \in DOMAIN calls : calls[i].t \notin Answer
      /\ ~ page.front => native.worker = << >>
  BY TypeParts DEF IInv, PatientInv, QueueInv
<1>2. \A i \in DOMAIN calls' : i \in Int /\ i + 1 \in DOMAIN calls /\ calls'[i] = calls[i + 1]
  BY FirstPost
<1>3. \A i, j \in DOMAIN calls' : calls'[i].t \in Answer /\ calls'[j].t \in Answer => i = j
  <2> SUFFICES ASSUME NEW i \in DOMAIN calls', NEW j \in DOMAIN calls',
                      calls'[i].t \in Answer, calls'[j].t \in Answer
               PROVE  i = j
    OBVIOUS
  <2>1. i + 1 = j + 1
    BY <1>1, <1>2
  <2> QED
    BY <1>2, <2>1
<1>4. CASE native'.worker = native.worker
  BY <1>1, <1>2, <1>3, <1>4 DEF QueueInv
<1>5. CASE Post.t \in Answer /\ Len(native'.worker) <= 1
  <2>1. page.front
    BY <1>1, <1>5, FirstPost
  <2>2. \A i \in DOMAIN calls' : calls'[i].t \notin Answer
    <3> SUFFICES ASSUME NEW i \in DOMAIN calls', calls'[i].t \in Answer PROVE FALSE
      OBVIOUS
    <3>1. i + 1 = 1
      BY <1>1, <1>2, <1>5, FirstPost
    <3>2. i \in 1 .. Len(Rest)
      BY Handling DEF IInv
    <3> QED
      BY <3>1, <3>2
  <2> QED
    BY <1>5, <2>1, <2>2 DEF QueueInv
<1> QED
  BY <1>4, <1>5

\* Fields of the page after the handlers' helpers.
LEMMA HelperFields ==
  ASSUME NEW p \in PageType, NEW kind
  PROVE  /\ LET q == BeginReplay(p, kind) IN
              /\ q.loading /\ ~ q.done /\ ~ q.timer /\ (q.waiting => kind = "join")
              /\ (q.remote <=> kind \in {"join", "catchup"})
              /\ q.front = p.front /\ q.setup = p.setup /\ q.busy = p.busy /\ q.room = p.room
              /\ q.board = p.board /\ q.configuring = p.configuring /\ q.kind = p.kind
              /\ q.resume = p.resume
         /\ LET q == StopReplay(p) IN
              /\ ~ q.loading /\ ~ q.done /\ ~ q.timer
              /\ q.front = p.front /\ q.setup = p.setup /\ q.busy = p.busy /\ q.room = p.room
              /\ q.board = p.board /\ q.configuring = p.configuring /\ q.kind = p.kind
              /\ q.resume = p.resume
         /\ LET q == WithoutRoom(StopReplay(p)) IN
              /\ ~ q.loading /\ ~ q.done /\ ~ q.timer /\ q.room = NoRoom /\ q.board = {}
              /\ q.front = p.front /\ q.setup = p.setup /\ q.busy = p.busy
              /\ q.configuring = p.configuring /\ q.kind = p.kind /\ q.resume = p.resume
         /\ \A q \in {Completed(p), WithSyncedName(Completed(p))} :
              /\ q.loading = p.loading /\ q.done /\ q.timer = p.loading /\ q.waiting = p.waiting
              /\ q.remote = p.remote
              /\ q.front = p.front /\ q.setup = p.setup /\ q.busy = p.busy /\ q.room = p.room
              /\ q.board = p.board /\ q.configuring = p.configuring /\ q.kind = p.kind
              /\ q.resume = p.resume
<1>1. LET q == BeginReplay(p, kind) IN
              /\ q.loading /\ ~ q.done /\ ~ q.timer /\ (q.waiting => kind = "join")
              /\ (q.remote <=> kind \in {"join", "catchup"})
              /\ q.front = p.front /\ q.setup = p.setup /\ q.busy = p.busy /\ q.room = p.room
              /\ q.board = p.board /\ q.configuring = p.configuring /\ q.kind = p.kind
              /\ q.resume = p.resume
  BY DEF BeginReplay, PageType
<1>2. LET q == StopReplay(p) IN
              /\ ~ q.loading /\ ~ q.done /\ ~ q.timer
              /\ q.front = p.front /\ q.setup = p.setup /\ q.busy = p.busy /\ q.room = p.room
              /\ q.board = p.board /\ q.configuring = p.configuring /\ q.kind = p.kind
              /\ q.resume = p.resume
  BY DEF StopReplay, PageType
<1>3. LET q == WithoutRoom(StopReplay(p)) IN
              /\ ~ q.loading /\ ~ q.done /\ ~ q.timer /\ q.room = NoRoom /\ q.board = {}
              /\ q.front = p.front /\ q.setup = p.setup /\ q.busy = p.busy
              /\ q.configuring = p.configuring /\ q.kind = p.kind /\ q.resume = p.resume
  <2>1. StopReplay(p) \in PageType
    BY ReplayType
  <2> DEFINE x == StopReplay(p)
  <2> HIDE DEF x
  <2>2. /\ ~ x.loading /\ ~ x.done /\ ~ x.timer
        /\ x.front = p.front /\ x.setup = p.setup /\ x.busy = p.busy
        /\ x.configuring = p.configuring /\ x.kind = p.kind /\ x.resume = p.resume
    BY <1>2 DEF x
  <2>3. x \in PageType
    BY <2>1 DEF x
  <2>4. LET q == WithoutRoom(x) IN
              /\ q.loading = x.loading /\ q.done = x.done /\ q.timer = x.timer
              /\ q.room = NoRoom /\ q.board = {}
              /\ q.front = x.front /\ q.setup = x.setup /\ q.busy = x.busy
              /\ q.configuring = x.configuring /\ q.kind = x.kind /\ q.resume = x.resume
    BY <2>3 DEF WithoutRoom, PageType
  <2> QED
    BY <2>2, <2>4 DEF x
<1>4. LET q == Completed(p) IN
              /\ q.loading = p.loading /\ q.done /\ q.timer = p.loading /\ q.waiting = p.waiting
              /\ q.remote = p.remote
              /\ q.front = p.front /\ q.setup = p.setup /\ q.busy = p.busy /\ q.room = p.room
              /\ q.board = p.board /\ q.configuring = p.configuring /\ q.kind = p.kind
              /\ q.resume = p.resume
  BY DEF Completed, PageType
<1>5. ASSUME NEW x \in PageType
      PROVE  LET q == WithSyncedName(x) IN
              /\ q.loading = x.loading /\ q.done = x.done /\ q.timer = x.timer
              /\ q.waiting = x.waiting /\ q.remote = x.remote
              /\ q.front = x.front /\ q.setup = x.setup /\ q.busy = x.busy /\ q.room = x.room
              /\ q.board = x.board /\ q.configuring = x.configuring /\ q.kind = x.kind
              /\ q.resume = x.resume
  <2> DEFINE nm == SyncedName(x)
  <2>1. WithSyncedName(x) = [x EXCEPT !.name = nm]
    BY DEF WithSyncedName
  <2> HIDE DEF nm
  <2> QED
    BY <2>1 DEF PageType
<1>6. Completed(p) \in PageType
  BY ReplayType
<1> QED
  BY <1>1, <1>2, <1>3, <1>4, <1>5, <1>6

\* How far the loading of the board has come.
Progress(p) == <<p.loading, p.done, p.waiting, p.remote, p.timer>>

\* A code is entered: cb_create_board, cb_join_board.
LEMMA CodeAsked ==
  ASSUME IInv, Hurried = FALSE, NEW r \in Direct, Join(r) \/ \E nm \in Name : Create(r, nm)
  PROVE  /\ Quiet /\ page.setup /\ page.front /\ r \in Room \ (Unadmitted \cup Outdated)
         /\ \E c \in AnswerCall : c.t = "code" /\ c.r = r /\ calls' = Append(calls, c)
         /\ native'.config = r /\ native'.worker = << >> /\ native'.running = native.running
         /\ \A x \in Outdated : native'.profile[x] = native.profile[x]
         /\ page'.front = page.front /\ page'.setup = page.setup /\ page'.busy = page.busy
         /\ page'.room = page.room /\ page'.board = page.board /\ page'.configuring
         /\ page'.resume = page.resume /\ Progress(page') = Progress(page)
         /\ UNCHANGED <<db, stops>>
<1> USE TypeParts DEF IInv
<1>1. Quiet /\ page.setup /\ page.front
  BY FreeQuiet DEF Join, Create, InSetup
<1>2. r \in Room \ (Unadmitted \cup Outdated)
  BY DEF Direct
<1>3. \E nm \in AnyName :
        /\ native' = Activated(r, nm)
        /\ calls' = Append(calls, Call("code", r, nm, TRUE))
  <2> DEFINE known == IF native.profile[r] = NoRoom THEN DefaultName ELSE native.profile[r]
  <2>1. known \in AnyName
    BY <1>2 DEF AnyName
  <2>2. CASE Join(r)
    BY <2>1, <2>2 DEF Join
  <2>3. CASE \E nm \in Name : Create(r, nm)
    BY <2>3 DEF Create, AnyName
  <2> QED
    BY <2>2, <2>3
<1>4. PICK nm \in AnyName : /\ native' = Activated(r, nm)
                            /\ calls' = Append(calls, Call("code", r, nm, TRUE))
  BY <1>3
<1>5. /\ native'.config = r /\ native'.worker = << >> /\ native'.running = native.running
      /\ \A x \in Outdated : native'.profile[x] = native.profile[x]
  BY <1>1, <1>2, <1>4, BoardAssumption DEF Activated, NativeType, Quiet
<1>6. LET c == Call("code", r, nm, TRUE) IN c \in AnswerCall /\ c.t = "code" /\ c.r = r
  BY <1>2, AnswerTypes DEF Call, MaybeRoom
<1>7. /\ page'.front = page.front /\ page'.setup = page.setup /\ page'.busy = page.busy
      /\ page'.room = page.room /\ page'.board = page.board /\ page'.configuring
      /\ page'.resume = page.resume /\ Progress(page') = Progress(page)
      /\ UNCHANGED <<db, stops>>
  BY DEF Join, Create, PageType, Progress
<1> QED
  BY <1>1, <1>2, <1>4, <1>5, <1>6, <1>7

\* A saved board is opened or resumed: cb_open_saved_board, cb_open.
LEMMA BoardAsked ==
  ASSUME IInv, Hurried = FALSE, Resume \/ \E r \in Room : OpenSaved(r)
  PROVE  /\ Quiet /\ page'.room \in Room
         /\ \E c \in AnswerCall : /\ c.t = "configured" /\ c.r = page'.room
                                  /\ c.ok = (page'.room \notin Outdated)
                                  /\ calls' = Append(calls, c)
         /\ native'.config = IF page'.room \in Outdated THEN native.config ELSE page'.room
         /\ native'.worker = << >> /\ native'.running = native.running
         /\ \A x \in Outdated : native'.profile[x] = native.profile[x]
         /\ page'.front /\ page'.busy = page.busy /\ page'.configuring
         /\ page'.kind \in {"saved", "resume"} /\ Progress(page') = Progress(page)
         /\ \/ page'.setup /\ page'.board = {}
            \/ /\ ~ page'.setup /\ page'.room = page.room /\ page'.board = page.board
               /\ ~ page.front /\ page.resume = page.room
         /\ UNCHANGED <<db, stops>>
<1> USE TypeParts DEF IInv
<1>1. Quiet
  BY FreeQuiet, AwayQuiet DEF OpenSaved, InSetup, Resume
<1>2. ASSUME NEW r \in Room, NEW nm \in AnyName, native' = Activated(r, nm),
             calls' = Append(calls, Call("configured", r, DefaultName, r \notin Outdated))
      PROVE  /\ native'.config = IF r \in Outdated THEN native.config ELSE r
             /\ native'.worker = << >> /\ native'.running = native.running
             /\ \A x \in Outdated : native'.profile[x] = native.profile[x]
             /\ \E c \in AnswerCall : /\ c.t = "configured" /\ c.r = r
                                      /\ c.ok = (r \notin Outdated)
                                      /\ calls' = Append(calls, c)
  <2>1. /\ native'.config = IF r \in Outdated THEN native.config ELSE r
        /\ native'.worker = << >> /\ native'.running = native.running
        /\ \A x \in Outdated : native'.profile[x] = native.profile[x]
    BY <1>1, <1>2, BoardAssumption DEF Activated, NativeType, Quiet
  <2> DEFINE ok == r \notin Outdated
             c == Call("configured", r, DefaultName, ok)
  <2>2. ok \in BOOLEAN
    OBVIOUS
  <2>3. c \in AnswerCall /\ c.t = "configured" /\ c.r = r /\ c.ok = ok
    <3> HIDE DEF ok
    <3> QED
      BY <2>2, AnswerTypes DEF Call, MaybeRoom, AnyName
  <2> QED
    BY <1>2, <2>1, <2>3
<1>3. CASE Resume
  <2>1. page.room \in Room
    BY <1>3 DEF Resume, MaybeRoom
  <2>2. /\ page'.room = page.room /\ page'.front /\ page'.busy = page.busy /\ page'.configuring
        /\ page'.kind = "resume" /\ Progress(page') = Progress(page)
        /\ ~ page'.setup /\ page'.board = page.board
    BY <1>3 DEF Resume, PageType, Progress
  <2>3. /\ ~ page.front /\ page.resume = page.room /\ native' = Activated(page.room, page.name)
        /\ calls' = Append(calls, Call("configured", page.room, DefaultName,
                                       page.room \notin Outdated))
        /\ UNCHANGED <<db, stops>>
    BY <1>3 DEF Resume
  <2> QED
    BY <1>1, <1>2, <2>1, <2>2, <2>3
<1>4. ASSUME NEW r \in Room, OpenSaved(r)
      PROVE  /\ page'.room = r /\ page'.front /\ page'.busy = page.busy /\ page'.configuring
             /\ page'.kind = "saved" /\ Progress(page') = Progress(page)
             /\ page'.setup /\ page'.board = {}
             /\ \E nm \in AnyName : native' = Activated(r, nm)
             /\ calls' = Append(calls, Call("configured", r, DefaultName, r \notin Outdated))
             /\ UNCHANGED <<db, stops>>
  <2> DEFINE nm == Catalog!EntryOf(catalog, r).name
  <2>1. nm \in AnyName
    <3>1. Catalog!EntryOf(catalog, r) \in Entry
      BY <1>4, ListedEntry DEF OpenSaved
    <3> QED
      BY <3>1 DEF Entry
  <2>2. page.setup /\ page.front
    BY <1>4 DEF OpenSaved, InSetup, Free
  <2>3. page' = [page EXCEPT !.kind = "saved", !.force = FALSE, !.room = r,
                             !.name = nm, !.board = {}, !.configuring = TRUE]
    BY <1>4 DEF OpenSaved
  <2>4. /\ native' = Activated(r, nm)
        /\ calls' = Append(calls, Call("configured", r, DefaultName, r \notin Outdated))
        /\ UNCHANGED <<db, stops>>
    BY <1>4 DEF OpenSaved
  <2> HIDE DEF nm
  <2>5. /\ page'.room = r /\ page'.front /\ page'.busy = page.busy /\ page'.configuring
        /\ page'.kind = "saved" /\ Progress(page') = Progress(page)
        /\ page'.setup /\ page'.board = {}
    BY <2>2, <2>3 DEF PageType, Progress
  <2> QED
    BY <2>1, <2>4, <2>5
<1> QED
  BY <1>1, <1>2, <1>3, <1>4

\* The board is left: cb_close_board, cb_open after the time of a resume.
LEMMA BoardLeft ==
  ASSUME IInv, Hurried = FALSE, Close \/ OpenExpired
  PROVE  /\ Quiet
         /\ page'.room = NoRoom /\ page'.board = {} /\ page'.setup /\ page'.front
         /\ ~ page'.timer /\ page'.busy = page.busy
         /\ native'.config = NoRoom /\ native'.worker = << >>
         /\ native'.running = native.running /\ native'.profile = native.profile
         /\ UNCHANGED <<calls, db, stops>>
<1> USE TypeParts DEF IInv
<1>1. Quiet
  BY FreeQuiet, AwayQuiet DEF Close, OpenExpired
<1> DEFINE p == WithoutRoom(StopReplay(page))
<1>2. /\ p \in PageType /\ p.room = NoRoom /\ p.board = {} /\ ~ p.timer /\ p.busy = page.busy
      /\ p.front = page.front
  BY ReplayType, HelperFields
<1>3. \/ /\ page.front
         /\ page' = [p EXCEPT !.kind = "", !.force = FALSE, !.resume = NoRoom, !.setup = TRUE]
      \/ page' = [p EXCEPT !.front = TRUE, !.setup = TRUE]
  BY FreeQuiet DEF Close, OpenExpired
<1> HIDE DEF p
<1>4. /\ page'.room = NoRoom /\ page'.board = {} /\ page'.setup /\ page'.front
      /\ ~ page'.timer /\ page'.busy = page.busy
  BY <1>2, <1>3 DEF PageType
<1>5. native' = Closed /\ UNCHANGED <<calls, db, stops>>
  BY DEF Close, OpenExpired
<1>6. /\ native'.config = NoRoom /\ native'.worker = << >>
      /\ native'.running = native.running /\ native'.profile = native.profile
  BY <1>1, <1>5 DEF Closed, NativeType, Quiet
<1> QED
  BY <1>1, <1>4, <1>5, <1>6

\* Steps that only change where the user is, or what he is asked.
LEMMA PageTurned ==
  ASSUME IInv, Hurried = FALSE,
         \/ ResumeExpires \/ OpenSetup \/ Leave \/ CancelDelete
         \/ \E r \in Room : RequestDelete(r)
  PROVE  /\ UNCHANGED <<calls, native, db, stops>>
         /\ page'.room = page.room /\ page'.board = page.board
         /\ page'.configuring = page.configuring /\ page'.kind = page.kind
         /\ page'.busy = page.busy /\ Progress(page') = Progress(page)
         /\ \/ /\ page'.front = page.front /\ page'.setup = page.setup
               /\ page'.resume \in {page.resume, NoRoom}
            \/ /\ Quiet /\ page.room = NoRoom /\ page'.front /\ page'.setup
            \/ /\ Quiet /\ page.front /\ ~ page'.front /\ page'.setup = page.setup
<1> USE TypeParts DEF IInv
<1>1. CASE ResumeExpires
  BY <1>1 DEF ResumeExpires, PageType, Progress
<1>2. CASE OpenSetup
  BY <1>2, AwayQuiet DEF OpenSetup, PageType, Progress
<1>3. CASE Leave
  <2> DEFINE resume == IF page.room # NoRoom THEN page.room ELSE page.resume
  <2>1. page' = [page EXCEPT !.front = FALSE, !.resume = resume]
    BY <1>3 DEF Leave
  <2>2. UNCHANGED <<calls, native, db, stops>> /\ Quiet /\ page.front
    BY <1>3, FreeQuiet DEF Leave
  <2> HIDE DEF resume
  <2>3. /\ page'.room = page.room /\ page'.board = page.board
        /\ page'.configuring = page.configuring /\ page'.kind = page.kind
        /\ page'.busy = page.busy /\ Progress(page') = Progress(page)
        /\ ~ page'.front /\ page'.setup = page.setup
    BY <2>1 DEF PageType, Progress
  <2> QED
    BY <2>2, <2>3
<1>4. CASE CancelDelete \/ \E r \in Room : RequestDelete(r)
  <2>1. ~ page.busy
    BY <1>4, FreeQuiet DEF CancelDelete, RequestDelete, InSetup
  <2>2. \E d : page' = [page EXCEPT !.deleting = d, !.busy = FALSE]
    BY <1>4 DEF CancelDelete, RequestDelete
  <2>3. PICK d : page' = [page EXCEPT !.deleting = d, !.busy = FALSE]
    BY <2>2
  <2>4. UNCHANGED <<calls, native, db, stops>>
    BY <1>4 DEF CancelDelete, RequestDelete
  <2>5. page'.busy = page.busy
    BY <2>1, <2>3 DEF PageType
  <2> QED
    BY <2>3, <2>4, <2>5 DEF PageType, Progress
<1> QED
  BY <1>1, <1>2, <1>3, <1>4

\* cb_confirm_delete_board
LEMMA DeleteAsked ==
  ASSUME IInv, Hurried = FALSE, NEW right \in BOOLEAN, ConfirmDelete(right)
  PROVE  /\ Quiet /\ page.front /\ page.setup
         /\ page'.front /\ page'.setup /\ page'.room = page.room /\ page'.board = page.board
         /\ page'.configuring = page.configuring /\ page'.kind = page.kind
         /\ page'.resume = page.resume /\ Progress(page') = Progress(page)
         /\ native'.config = native.config /\ native'.running = native.running
         /\ \A x \in Room : native'.profile[x] \in {native.profile[x], NoRoom}
         /\ UNCHANGED <<db, stops>>
         /\ \/ page'.busy = page.busy /\ calls' = calls /\ native'.worker = native.worker
            \/ \E r \in Room, c \in AnswerCall :
                 /\ page'.busy /\ c.t = "started" /\ calls' = Append(calls, c)
                 /\ \/ native'.worker = native.worker
                    \/ /\ native'.worker = Append(native.worker, Task("delete", r))
                       /\ c.ok /\ native.config # r /\ native.profile[r] # NoRoom
<1> USE TypeParts DEF IInv
<1>1. Quiet /\ page.front /\ page.setup
  BY FreeQuiet DEF ConfirmDelete, InSetup
<1> DEFINE r == page.deleting
           accepted == MayDelete(r, right)
           c == Call("started", r, DefaultName, accepted)
<1>2. r \in Room
  BY DEF ConfirmDelete, PageType, MaybeRoom
<1>3. UNCHANGED <<db, stops>>
  BY DEF ConfirmDelete
<1>4. CASE ~ Catalog!Listed(catalog, r)
  <2>1. page' = [page EXCEPT !.deleting = NoRoom] /\ UNCHANGED <<calls, native>>
    BY <1>4 DEF ConfirmDelete
  <2>2. /\ page'.front /\ page'.setup /\ page'.room = page.room /\ page'.board = page.board
        /\ page'.configuring = page.configuring /\ page'.kind = page.kind
        /\ page'.resume = page.resume /\ Progress(page') = Progress(page)
        /\ page'.busy = page.busy
    BY <1>1, <2>1 DEF PageType, Progress
  <2> QED
    BY <1>1, <1>3, <2>1, <2>2
<1>5. CASE Catalog!Listed(catalog, r)
  <2> DEFINE tasks == IF native.running THEN Append(native.worker, Task("delete", r))
                      ELSE native.worker
             profile == [native.profile EXCEPT ![r] = NoRoom]
  <2>1. /\ page' = [page EXCEPT !.busy = TRUE]
        /\ native' = IF ~ accepted THEN native
                     ELSE [native EXCEPT !.profile = profile, !.worker = tasks]
        /\ calls' = Append(calls, c)
    BY <1>5 DEF ConfirmDelete
  <2>2. /\ page'.front /\ page'.setup /\ page'.room = page.room /\ page'.board = page.board
        /\ page'.configuring = page.configuring /\ page'.kind = page.kind
        /\ page'.resume = page.resume /\ Progress(page') = Progress(page)
        /\ page'.busy
    BY <1>1, <2>1 DEF PageType, Progress
  <2>3. /\ accepted \in BOOLEAN
        /\ accepted => native.config # r /\ native.profile[r] # NoRoom
    BY DEF MayDelete
  <2>4. c \in AnswerCall /\ c.t = "started" /\ c.ok = accepted
    <3> HIDE DEF accepted
    <3> QED
      BY <1>2, <2>3, AnswerTypes DEF Call, MaybeRoom, AnyName
  <2>5. \A x \in Room : profile[x] \in {native.profile[x], NoRoom}
    BY <1>2
  <2>6. /\ native'.config = native.config /\ native'.running = native.running
        /\ \A x \in Room : native'.profile[x] \in {native.profile[x], NoRoom}
        /\ native'.worker = IF accepted THEN tasks ELSE native.worker
    <3> HIDE DEF accepted, tasks, profile
    <3> QED
      BY <2>1, <2>5 DEF NativeType
  <2>7. \/ native'.worker = native.worker
        \/ /\ native'.worker = Append(native.worker, Task("delete", r))
           /\ c.ok /\ native.config # r /\ native.profile[r] # NoRoom
    <3> HIDE DEF accepted, c
    <3> QED
      BY <2>3, <2>4, <2>6
  <2> HIDE DEF c
  <2> QED
    BY <1>1, <1>2, <1>3, <2>1, <2>2, <2>4, <2>6, <2>7
<1> QED
  BY <1>4, <1>5

\* What ReplayAsked leaves: one task more, if a board is open.
LEMMA Asked ==
  ASSUME TypeInv, native' = ReplayAsked
  PROVE  /\ native'.config = native.config /\ native'.running = native.running
         /\ native'.profile = native.profile
         /\ native'.worker = IF native.config # NoRoom /\ native.running
                             THEN Append(native.worker, Task("replay", native.config))
                             ELSE native.worker
<1> DEFINE tasks == Append(native.worker, Task("replay", native.config))
<1>1. native' = IF native.config # NoRoom /\ native.running
                THEN [native EXCEPT !.worker = tasks] ELSE native
  BY DEF ReplayAsked
<1> HIDE DEF tasks
<1>2. native \in NativeType
  BY TypeParts
<1>3. /\ native'.config = native.config /\ native'.running = native.running
      /\ native'.profile = native.profile
      /\ native'.worker = IF native.config # NoRoom /\ native.running
                          THEN tasks ELSE native.worker
  BY <1>1, <1>2 DEF NativeType
<1> QED
  BY <1>3 DEF tasks

\* The board loads: cb_board_configured, cb_board_code_opened.
LEMMA Loads ==
  ASSUME IInv, Configured \/ CodeOpened
  PROVE  /\ calls # << >> /\ calls' = Rest /\ Post \in AnswerCall
         /\ Post.t \in {"configured", "code"}
         /\ page'.front = page.front /\ page'.busy = page.busy /\ ~ page'.configuring
         /\ page'.kind = page.kind /\ page'.resume = page.resume /\ ~ page'.timer
         /\ native'.config = native.config /\ native'.running = native.running
         /\ native'.profile = native.profile
         /\ \/ /\ Post.t = "configured" /\ ~ Post.ok /\ page'.setup
               /\ page'.room = page.room /\ page'.board = page.board
               /\ native'.worker = native.worker
            \/ /\ ~ page'.setup /\ page'.loading /\ ~ page'.done
               /\ \/ /\ Post.t = "code" /\ page'.room = Post.r /\ page'.board = {}
                  \/ /\ Post.t = "configured" /\ Post.ok
                     /\ page'.room = page.room /\ page'.board = page.board
                     /\ (page'.waiting => page.kind \in {"join"})
               /\ native'.worker = IF native.config # NoRoom /\ native.running
                                   THEN Append(native.worker, Task("replay", native.config))
                                   ELSE native.worker
         /\ UNCHANGED <<db, stops>>
<1> USE TypeParts DEF IInv
<1>1. /\ calls # << >> /\ calls' = Rest /\ Post.t \in {"configured", "code"}
      /\ UNCHANGED <<db, stops>>
  BY DEF Configured, CodeOpened, Handles, Load
<1>2. Post \in AnswerCall
  BY <1>1, Handling, PostKinds
<1>3. CASE Configured /\ ~ Post.ok
  <2> DEFINE p == StopReplay(page)
  <2>1. p \in PageType
    BY ReplayType
  <2>2. page' = [p EXCEPT !.configuring = FALSE, !.setup = TRUE] /\ UNCHANGED native
    BY <1>3 DEF Configured
  <2>3. /\ p.front = page.front /\ p.busy = page.busy /\ p.kind = page.kind
        /\ p.resume = page.resume /\ ~ p.timer /\ p.room = page.room /\ p.board = page.board
    BY HelperFields
  <2> HIDE DEF p
  <2>4. /\ page'.front = page.front /\ page'.busy = page.busy /\ ~ page'.configuring
        /\ page'.kind = page.kind /\ page'.resume = page.resume /\ ~ page'.timer
        /\ page'.setup /\ page'.room = page.room /\ page'.board = page.board
    BY <2>1, <2>2, <2>3 DEF PageType
  <2>5. Post.t = "configured"
    BY <1>3 DEF Configured, Handles
  <2> QED
    BY <1>1, <1>2, <1>3, <2>2, <2>4, <2>5
<1>4. CASE Configured /\ Post.ok
  <2> DEFINE p == [page EXCEPT !.configuring = FALSE, !.setup = FALSE]
             kind == KindOr(page, "saved")
  <2>1. /\ p \in PageType /\ p.front = page.front /\ p.busy = page.busy /\ p.kind = page.kind
        /\ p.resume = page.resume /\ p.room = page.room /\ p.board = page.board
        /\ ~ p.setup /\ ~ p.configuring
    BY DEF PageType
  <2>2. page' = BeginReplay(p, kind) /\ native' = ReplayAsked /\ Post.t = "configured"
    BY <1>4 DEF Configured, Load, Handles
  <2>3. kind = "join" => page.kind = "join"
    BY DEF KindOr
  <2> HIDE DEF p, kind
  <2>4. /\ page'.front = page.front /\ page'.busy = page.busy /\ ~ page'.configuring
        /\ page'.kind = page.kind /\ page'.resume = page.resume /\ ~ page'.timer
        /\ ~ page'.setup /\ page'.loading /\ ~ page'.done
        /\ page'.room = page.room /\ page'.board = page.board
        /\ (page'.waiting => page.kind \in {"join"})
    BY <2>1, <2>2, <2>3, HelperFields
  <2> QED
    BY <1>1, <1>2, <1>4, <2>2, <2>4, Asked
<1>5. CASE CodeOpened
  <2> DEFINE nm == Catalog!StableName(catalog, Post.r, Post.n)
             p == [page EXCEPT !.room = Post.r, !.name = nm, !.board = {},
                               !.configuring = FALSE, !.setup = FALSE]
             kind == KindOr(page, "join")
  <2>1. page' = BeginReplay(p, kind) /\ native' = ReplayAsked /\ Post.t = "code"
    BY <1>5 DEF CodeOpened, Load, Handles
  <2>2. Post.r \in Room /\ Post.n \in AnyName
    BY <1>2, <2>1 DEF AnswerCall
  <2>3. nm \in AnyName
    <3>1. \A e \in Entry : e.name \in AnyName
      BY DEF Entry
    <3>2. Catalog!Listed(catalog, Post.r) => Catalog!EntryOf(catalog, Post.r) \in Entry
      BY ListedEntry
    <3> QED
      BY <2>2, <3>1, <3>2 DEF Catalog!StableName
  <2> HIDE DEF nm
  <2>4. /\ p \in PageType /\ p.front = page.front /\ p.busy = page.busy /\ p.kind = page.kind
        /\ p.resume = page.resume /\ p.room = Post.r /\ p.board = {}
        /\ ~ p.setup /\ ~ p.configuring
    BY <2>2, <2>3 DEF PageType, MaybeRoom
  <2> HIDE DEF p, kind
  <2>5. /\ page'.front = page.front /\ page'.busy = page.busy /\ ~ page'.configuring
        /\ page'.kind = page.kind /\ page'.resume = page.resume /\ ~ page'.timer
        /\ ~ page'.setup /\ page'.loading /\ ~ page'.done
        /\ page'.room = Post.r /\ page'.board = {}
    BY <2>1, <2>4, HelperFields
  <2> QED
    BY <1>1, <1>2, <2>1, <2>5, Asked
<1> QED
  BY <1>3, <1>4, <1>5

\* An operation reaches the page: cb_receive_board_operation.
LEMMA Receives ==
  ASSUME IInv, Receive
  PROVE  /\ calls # << >> /\ calls' = Rest /\ Post.t = "op" /\ Post.op \in Operation
         /\ Post.r = Post.op.r
         /\ UNCHANGED <<native, db, stops>>
         /\ page'.front = page.front /\ page'.setup = page.setup /\ page'.busy = page.busy
         /\ page'.room = page.room /\ page'.configuring = page.configuring
         /\ page'.kind = page.kind /\ page'.resume = page.resume
         /\ page'.board = IF page.room = Post.op.r THEN page.board \cup {Post.op} ELSE page.board
         /\ \/ page.waiting /\ page'.loading /\ page'.done /\ page'.remote
            \/ /\ page'.loading = page.loading /\ page'.done = page.done
               /\ page'.waiting = page.waiting /\ page'.remote = page.remote
               /\ page'.timer => page.timer \/ (page.loading /\ page.done)
<1> USE TypeParts DEF IInv
<1>1. /\ calls # << >> /\ calls' = Rest /\ Post.t = "op" /\ UNCHANGED <<native, db, stops>>
  BY DEF Receive, Handles
<1>2. Post.op \in Operation /\ Post.r = Post.op.r /\ Post.op.r \in Room
  BY <1>1, Handling, PostKinds
<1>3. CASE page.room = NoRoom
  <2>1. page' = page
    BY <1>3 DEF Receive
  <2> QED
    BY <1>1, <1>2, <1>3, <2>1
<1>4. CASE page.room # NoRoom
  <2> DEFINE x == BeginReplay(page, "catchup")
             q == [x EXCEPT !.done = TRUE]
             p == IF page.waiting /\ ~ Post.op.own THEN q ELSE page
  <2>1. page' = Applied(p, Post.op)
    BY <1>4 DEF Receive
  <2>2. x \in PageType
    BY ReplayType
  <2>3. /\ x.loading /\ x.remote /\ x.front = page.front /\ x.setup = page.setup
        /\ x.busy = page.busy /\ x.room = page.room /\ x.configuring = page.configuring
        /\ x.kind = page.kind /\ x.resume = page.resume /\ x.board = page.board
    BY HelperFields
  <2> HIDE DEF x
  <2>4. /\ q \in PageType /\ q.loading /\ q.done /\ q.remote
        /\ q.front = page.front /\ q.setup = page.setup
        /\ q.busy = page.busy /\ q.room = page.room /\ q.configuring = page.configuring
        /\ q.kind = page.kind /\ q.resume = page.resume /\ q.board = page.board
    BY <2>2, <2>3 DEF PageType
  <2>5. p = page \/ (page.waiting /\ p = q)
    OBVIOUS
  <2>6. IsFiniteSet(q.board)
    BY <2>4
  <2> HIDE DEF p, q
  <2>7. p \in PageType /\ IsFiniteSet(p.board)
    BY <2>4, <2>5, <2>6
  <2>8. page'.board = IF p.room = Post.op.r THEN p.board \cup {Post.op} ELSE p.board
    BY <1>2, <2>1, <2>7, AppliedType
  <2>9. /\ page'.front = p.front /\ page'.setup = p.setup /\ page'.busy = p.busy
        /\ page'.room = p.room
        /\ page'.configuring = p.configuring /\ page'.kind = p.kind /\ page'.resume = p.resume
        /\ page'.loading = p.loading /\ page'.done = p.done /\ page'.waiting = p.waiting
        /\ page'.remote = p.remote
        /\ page'.timer => p.timer \/ (p.loading /\ p.done)
    BY <2>1, <2>7, AppliedFields
  <2>10. CASE p = page
    BY <1>1, <1>2, <2>8, <2>9, <2>10
  <2>11. CASE page.waiting /\ p = q
    BY <1>1, <1>2, <2>4, <2>8, <2>9, <2>11
  <2> QED
    BY <2>5, <2>10, <2>11
<1> QED
  BY <1>3, <1>4

\* The page hears of a deletion, or that the board is not open to this phone.
LEMMA Notices ==
  ASSUME IInv, DeleteStarted \/ Deleted \/ AccessRejected
  PROVE  /\ calls # << >> /\ calls' = Rest /\ Post \in AnswerCall
         /\ UNCHANGED <<native, db, stops>>
         /\ page'.front = page.front /\ page'.kind = page.kind /\ page'.resume = page.resume
         /\ \/ /\ Post.t = "rejected"
               /\ page'.busy = page.busy /\ page'.setup /\ page'.room = NoRoom
               /\ page'.board = {} /\ ~ page'.timer
            \/ /\ \/ Post.t = "started" /\ (Post.ok => page'.busy = page.busy)
                  \/ Post.t = "deleted"
               /\ page'.setup = page.setup /\ page'.room = page.room /\ page'.board = page.board
               /\ page'.configuring = page.configuring /\ Progress(page') = Progress(page)
<1> USE TypeParts DEF IInv
<1>1. /\ calls # << >> /\ calls' = Rest /\ UNCHANGED <<native, db, stops>>
      /\ Post.t \in {"started", "deleted", "rejected"}
  BY DEF DeleteStarted, Deleted, AccessRejected, Handles
<1>2. Post \in AnswerCall
  BY <1>1, Handling, PostKinds
<1>3. CASE DeleteStarted
  <2>1. /\ Post.t = "started"
        /\ page' = IF Post.ok THEN page ELSE [page EXCEPT !.busy = FALSE]
    BY <1>3 DEF DeleteStarted, Handles
  <2> QED
    BY <1>1, <1>2, <2>1 DEF PageType, Progress
<1>4. CASE Deleted
  <2> DEFINE deleting == IF Post.ok THEN NoRoom ELSE page.deleting
  <2>1. /\ Post.t = "deleted"
        /\ page' = [page EXCEPT !.deleting = deleting, !.busy = FALSE]
    BY <1>4 DEF Deleted, AfterDelete, Handles
  <2> HIDE DEF deleting
  <2> QED
    BY <1>1, <1>2, <2>1 DEF PageType, Progress
<1>5. CASE AccessRejected
  <2> DEFINE p == WithoutRoom(StopReplay(page))
  <2>1. /\ Post.t = "rejected" /\ page' = [p EXCEPT !.configuring = FALSE, !.setup = TRUE]
    BY <1>5 DEF AccessRejected, Handles
  <2>2. /\ p \in PageType /\ p.room = NoRoom /\ p.board = {} /\ ~ p.timer /\ p.busy = page.busy
        /\ p.front = page.front /\ p.kind = page.kind /\ p.resume = page.resume
    BY ReplayType, HelperFields
  <2> HIDE DEF p
  <2>3. /\ page'.room = NoRoom /\ page'.board = {} /\ ~ page'.timer /\ page'.busy = page.busy
        /\ page'.front = page.front /\ page'.kind = page.kind /\ page'.resume = page.resume
        /\ page'.setup
    BY <2>1, <2>2 DEF PageType
  <2> QED
    BY <1>1, <1>2, <2>1, <2>3
<1> QED
  BY <1>3, <1>4, <1>5

\* cb_finish_board_replay
LEMMA TimerEnds ==
  ASSUME IInv, ReplayTimer
  PROVE  /\ UNCHANGED <<calls, native, db, stops>>
         /\ page.timer /\ (page.remote => ~ Replaying)
         /\ ~ page'.loading /\ ~ page'.timer
         /\ page'.front = page.front /\ page'.setup = page.setup /\ page'.busy = page.busy
         /\ page'.room = page.room /\ page'.board = page.board
         /\ page'.configuring = page.configuring /\ page'.resume = page.resume
         /\ page'.kind = ""
<1> USE TypeParts DEF IInv
<1> DEFINE p == [page EXCEPT !.loading = FALSE, !.done = FALSE, !.remote = FALSE,
                             !.timer = FALSE, !.kind = ""]
           nm == SyncedName(p)
<1>1. /\ p \in PageType /\ ~ p.loading /\ ~ p.timer
      /\ p.front = page.front /\ p.setup = page.setup /\ p.busy = page.busy
      /\ p.room = page.room /\ p.board = page.board
      /\ p.configuring = page.configuring /\ p.resume = page.resume /\ p.kind = ""
  BY DEF PageType
<1>2. page' = p \/ page' = [p EXCEPT !.name = nm]
  BY DEF ReplayTimer, WithSyncedName
<1> HIDE DEF p, nm
<1>3. /\ ~ page'.loading /\ ~ page'.timer
      /\ page'.front = page.front /\ page'.setup = page.setup /\ page'.busy = page.busy
      /\ page'.room = page.room /\ page'.board = page.board
      /\ page'.configuring = page.configuring /\ page'.resume = page.resume /\ page'.kind = ""
  BY <1>1, <1>2 DEF PageType
<1>4. /\ UNCHANGED <<calls, native, db, stops>>
      /\ page.timer /\ (page.remote => ~ Replaying)
  BY DEF ReplayTimer, Replaying
<1> QED
  BY <1>3, <1>4

-----------------------------------------------------------------------------
(* What a step leaves of the queues *)

\* A step handles the first post or not, and posts c or nothing.
NextPosts(c) ==
  \/ calls' = calls
  \/ calls # << >> /\ calls' = Rest
  \/ c \in AnswerCall \cup PostedCall /\ calls' = Append(calls, c)
  \/ c \in AnswerCall \cup PostedCall /\ calls # << >> /\ calls' = Append(Rest, c)

\* A step that posts nothing.
Nothing == [t |-> "nothing"]

\* Every later post is an earlier one or the new one.
LEMMA PostsAre ==
  ASSUME IInv, NEW c, NextPosts(c)
  PROVE  \A i \in DOMAIN calls' : calls'[i] = c \/ \E j \in DOMAIN calls : calls'[i] = calls[j]
<1>1. CASE calls' = calls
  BY <1>1
<1>2. CASE c \in AnswerCall \cup PostedCall /\ calls' = Append(calls, c)
  BY <1>2, TypeParts, AppendedPosts DEF IInv
<1>3. CASE calls # << >> /\ calls' = Rest
  BY <1>3, FirstPost
<1>4. CASE c \in AnswerCall \cup PostedCall /\ calls # << >> /\ calls' = Append(Rest, c)
  <2>1. \A i \in DOMAIN calls' : calls'[i] = c \/ \E j \in DOMAIN Rest : calls'[i] = Rest[j]
    BY <1>4, Handling, AppendedPosts DEF IInv
  <2> QED
    BY <1>4, <2>1, FirstPost
<1> QED
  BY <1>1, <1>2, <1>3, <1>4 DEF NextPosts

LEMMA PostsNothing ==
  ASSUME calls' = calls \/ (calls # << >> /\ calls' = Rest)
  PROVE  NextPosts(Nothing) /\ Nothing.t = "nothing"
BY DEF NextPosts, Nothing

\* When an answer is handled no other is due, and the worker is idle.
LEMMA AnswerHandled ==
  ASSUME IInv, calls # << >>, Post.t \in Answer
  PROVE  /\ native.worker = << >> /\ page.front
         /\ \A i \in DOMAIN Rest : Rest[i].t \notin Answer
<1>1. 1 \in DOMAIN calls /\ calls[1].t \in Answer
  BY FirstPost
<1>2. native.worker = << >> /\ page.front
  BY <1>1 DEF IInv, PatientInv, QueueInv
<1>3. ASSUME NEW i \in DOMAIN Rest, Rest[i].t \in Answer
      PROVE  FALSE
  <2>1. i + 1 \in DOMAIN calls /\ calls[i + 1].t \in Answer /\ i \in 1 .. Len(Rest)
    BY <1>3, FirstPost, Handling DEF IInv
  <2>2. i + 1 = 1
    BY <1>1, <2>1 DEF IInv, PatientInv, QueueInv
  <2> QED
    BY <2>1, <2>2
<1> QED
  BY <1>2, <1>3

LEMMA QueueEmpty ==
  ASSUME Len(native'.worker) <= 1, \A i \in DOMAIN calls' : calls'[i].t \notin Answer,
         page'.front \/ native'.worker = << >>
  PROVE  QueueInv'
BY DEF QueueInv

LEMMA StartsAppended ==
  ASSUME NEW q \in Seq(AnswerCall \cup PostedCall), NEW c \in AnswerCall \cup PostedCall,
         StartsFirst(q),
         \/ c.t # "started"
         \/ \A i \in DOMAIN q : q[i].t \notin {"started", "deleted"}
  PROVE  StartsFirst(Append(q, c))
<1> DEFINE new == Append(q, c)
           n == Len(q) + 1
<1>1. /\ new[n] = c
      /\ \A i \in DOMAIN q : i \in DOMAIN new /\ new[i] = q[i] /\ i < n
      /\ \A i \in DOMAIN new : i \in DOMAIN q \/ i = n
  BY AppendedPosts
<1> HIDE DEF new, n
<1>2. StartsFirst(new)
  <2> SUFFICES ASSUME NEW i \in DOMAIN new, NEW j \in DOMAIN new, new[i].t = "started"
               PROVE  (new[j].t = "started" => i = j) /\ (new[j].t = "deleted" => i < j)
    BY DEF StartsFirst
  <2>1. CASE i \in DOMAIN q /\ j \in DOMAIN q
    BY <1>1, <2>1 DEF StartsFirst
  <2>2. CASE i \in DOMAIN q /\ j = n
    BY <1>1, <2>2
  <2>3. CASE i = n /\ j \in DOMAIN q
    BY <1>1, <2>3
  <2>4. CASE i = n /\ j = n
    BY <1>1, <2>4
  <2> QED
    BY <1>1, <2>1, <2>2, <2>3, <2>4
<1> QED
  BY <1>2 DEF new

LEMMA StartsRemaining ==
  ASSUME IInv, calls # << >>
  PROVE  /\ StartsFirst(Rest)
         /\ Post.t \in {"started", "deleted"} => \A i \in DOMAIN Rest : Rest[i].t # "started"
<1>1. \A i \in DOMAIN Rest : i \in 1 .. Len(Rest) /\ i + 1 \in DOMAIN calls /\ Rest[i] = calls[i + 1]
  BY FirstPost, Handling DEF IInv
<1>2. StartsFirst(calls)
  BY DEF IInv, PatientInv, DeleteInv
<1>3. 1 \in DOMAIN calls /\ Post = calls[1]
  BY FirstPost
<1>4. StartsFirst(Rest)
  <2> SUFFICES ASSUME NEW i \in DOMAIN Rest, NEW j \in DOMAIN Rest, Rest[i].t = "started"
               PROVE  (Rest[j].t = "started" => i = j) /\ (Rest[j].t = "deleted" => i < j)
    BY DEF StartsFirst
  <2>1. /\ Rest[j].t = "started" => i + 1 = j + 1
        /\ Rest[j].t = "deleted" => i + 1 < j + 1
    BY <1>1, <1>2 DEF StartsFirst
  <2> QED
    BY <1>1, <2>1
<1>5. ASSUME NEW i \in DOMAIN Rest, Rest[i].t = "started", Post.t \in {"started", "deleted"}
      PROVE  FALSE
  <2>1. i + 1 = 1 \/ i + 1 < 1
    BY <1>1, <1>2, <1>3, <1>5 DEF StartsFirst
  <2> QED
    BY <1>1, <2>1
<1> QED
  BY <1>4, <1>5

\* A step that has nothing to do with deletions.
LEMMA DeleteCarried ==
  ASSUME IInv, NEW c, NextPosts(c), c.t \notin {"started", "deleted"},
         \A i \in DOMAIN native'.worker : native'.worker[i].t = "delete" =>
           \E j \in DOMAIN native.worker : /\ native.worker[j].t = "delete"
                                           /\ native.worker[j].r = native'.worker[i].r,
         native'.config \in {native.config, NoRoom},
         page'.busy = page.busy, page'.front = page.front,
         page'.room \in {page.room, NoRoom}, page'.setup \/ page'.setup = page.setup
  PROVE  DeleteInv'
<1>1. \A i \in DOMAIN calls' : calls'[i] = c \/ \E j \in DOMAIN calls : calls'[i] = calls[j]
  BY PostsAre
<1>2. \A r : Deleting(r)' => Deleting(r)
  BY <1>1 DEF Deleting
<1>3. Pending("started")' => Pending("started")
  BY <1>1 DEF Pending
<1>4. StartsFirst(calls')
  <2>1. StartsFirst(calls)
    BY DEF IInv, PatientInv, DeleteInv
  <2>2. calls # << >> => StartsFirst(Rest) /\ Rest \in Seq(AnswerCall \cup PostedCall)
    BY StartsRemaining, Handling DEF IInv
  <2>3. calls \in Seq(AnswerCall \cup PostedCall)
    BY TypeParts DEF IInv
  <2>4. CASE c \in AnswerCall \cup PostedCall /\ calls' = Append(calls, c)
    BY <2>1, <2>3, <2>4, StartsAppended
  <2>5. CASE c \in AnswerCall \cup PostedCall /\ calls # << >> /\ calls' = Append(Rest, c)
    BY <2>2, <2>5, StartsAppended
  <2> QED
    BY <2>1, <2>2, <2>4, <2>5 DEF NextPosts
<1>5. ASSUME NEW r \in MaybeRoom, Deleting(r)'
      PROVE  /\ r \in Room \ Outdated
             /\ page'.busy /\ page'.front /\ page'.setup /\ native'.config # r
             /\ page'.room # NoRoom => page'.room \in Outdated
             /\ \A i \in DOMAIN calls' : calls'[i].t = "started" => calls'[i].ok
  <2>1. /\ r \in Room \ Outdated
        /\ page.busy /\ page.front /\ page.setup /\ native.config # r
        /\ page.room # NoRoom => page.room \in Outdated
        /\ \A i \in DOMAIN calls : calls[i].t = "started" => calls[i].ok
    BY <1>2, <1>5 DEF IInv, PatientInv, DeleteInv
  <2>2. r # NoRoom
    BY <2>1, TypeParts DEF IInv
  <2> QED
    BY <1>1, <2>1, <2>2
<1> QED
  BY <1>3, <1>4, <1>5 DEF DeleteInv, IInv, PatientInv

\* A step after which nothing is deleted.
LEMMA DeleteOver ==
  ASSUME \A i \in DOMAIN native'.worker : native'.worker[i].t # "delete",
         \A i \in DOMAIN calls' : calls'[i].t # "deleted",
         Pending("started")' => page'.busy /\ page'.front,
         StartsFirst(calls')
  PROVE  DeleteInv'
BY DEF DeleteInv, Deleting

LEMMA DeleteNever ==
  ASSUME IInv, Quiet, NEW c, NextPosts(c), c.t \notin {"started", "deleted"},
         native'.worker = << >>
  PROVE  DeleteInv'
<1>1. \A i \in DOMAIN calls' : calls'[i] = c \/ \E j \in DOMAIN calls : calls'[i] = calls[j]
  BY PostsAre
<1>2. \A i \in DOMAIN calls' : calls'[i].t \notin {"started", "deleted"}
  BY <1>1 DEF Quiet, Answer
<1> QED
  BY <1>2, DeleteOver DEF Pending, StartsFirst

LEMMA EarlierPosts ==
  ASSUME NEW q \in Seq(AnswerCall \cup PostedCall), NEW c \in AnswerCall \cup PostedCall
  PROVE  \A i \in DOMAIN q : i \in DOMAIN Append(q, c) /\ Append(q, c)[i] = q[i]
BY AppendedPosts

\* A step that opens and closes nothing.
LEMMA ConfigCarried ==
  ASSUME IInv, NEW c, NextPosts(c), c.t \notin {"code", "configured", "complete"},
         \/ Post.t # "configured" \/ calls' = calls
         \/ c \in AnswerCall \cup PostedCall /\ calls' = Append(calls, c),
         native'.config = native.config,
         \A i \in DOMAIN native'.worker : native'.worker[i].t = "replay" =>
           \E j \in DOMAIN native.worker : /\ native.worker[j].t = "replay"
                                           /\ native.worker[j].r = native'.worker[i].r,
         page'.room = page.room, page'.setup = page.setup, page'.front = page.front,
         page'.configuring = page.configuring, page'.kind \in {page.kind, ""},
         page'.resume \in {page.resume, NoRoom}
  PROVE  ConfigInv'
<1>1. \A i \in DOMAIN calls' : calls'[i] = c \/ \E j \in DOMAIN calls : calls'[i] = calls[j]
  BY PostsAre
<1>2. Pending("configured") => Pending("configured")'
  <2> SUFFICES ASSUME NEW i \in DOMAIN calls, calls[i].t = "configured"
               PROVE  \E j \in DOMAIN calls' : calls'[j].t = "configured"
    BY DEF Pending
  <2>1. CASE calls' = calls
    BY <2>1
  <2>2. CASE c \in AnswerCall \cup PostedCall /\ calls' = Append(calls, c)
    <3>1. \A j \in DOMAIN calls : j \in DOMAIN Append(calls, c) /\ Append(calls, c)[j] = calls[j]
      BY <2>2, TypeParts, EarlierPosts DEF IInv
    <3> QED
      BY <2>2, <3>1
  <2>3. CASE calls # << >> /\ Post.t # "configured" /\ calls' = Rest
    BY <2>3, FirstPost
  <2>4. CASE /\ c \in AnswerCall \cup PostedCall /\ calls # << >> /\ Post.t # "configured"
             /\ calls' = Append(Rest, c)
    <3>1. i - 1 \in DOMAIN Rest /\ Rest[i - 1] = calls[i]
      BY <2>4, FirstPost
    <3>2. \A j \in DOMAIN Rest : j \in DOMAIN Append(Rest, c) /\ Append(Rest, c)[j] = Rest[j]
      BY <2>4, Handling, EarlierPosts DEF IInv
    <3> QED
      BY <2>4, <3>1, <3>2
  <2> QED
    BY <2>1, <2>2, <2>3, <2>4 DEF NextPosts
<1>3. Pending("complete")' => Pending("complete")
  BY <1>1 DEF Pending
<1>4. ConfigInv
  BY DEF IInv, PatientInv
<1>5. /\ native'.config \notin Outdated
      /\ page'.room # NoRoom /\ ~ page'.configuring /\ ~ page'.setup =>
           native'.config \in {NoRoom, page'.room}
  BY <1>4 DEF ConfigInv
<1>6. page'.room # NoRoom /\ page'.setup =>
        \/ page'.room \in Outdated \/ Pending("configured")'
        \/ (~ page'.front /\ page'.resume # page'.room)
  BY <1>2, <1>4 DEF ConfigInv
<1>7. ASSUME NEW i \in DOMAIN calls'
      PROVE  /\ calls'[i].t = "code" => calls'[i].r = native'.config /\ calls'[i].r \in Direct
             /\ calls'[i].t = "configured" /\ calls'[i].ok =>
                  /\ page'.room \in {NoRoom, calls'[i].r} /\ native'.config \in {NoRoom, calls'[i].r}
                  /\ page'.kind \notin {"create", "join"}
             /\ calls'[i].t = "configured" /\ ~ calls'[i].ok => page'.room \in Outdated \cup {NoRoom}
  <2>1. CASE calls'[i] = c
    BY <2>1
  <2>2. ASSUME NEW j \in DOMAIN calls, calls'[i] = calls[j]
        PROVE  /\ calls'[i].t = "code" => calls'[i].r = native'.config /\ calls'[i].r \in Direct
               /\ calls'[i].t = "configured" /\ calls'[i].ok =>
                    /\ page'.room \in {NoRoom, calls'[i].r}
                    /\ native'.config \in {NoRoom, calls'[i].r}
                    /\ page'.kind \notin {"create", "join"}
               /\ calls'[i].t = "configured" /\ ~ calls'[i].ok =>
                    page'.room \in Outdated \cup {NoRoom}
    BY <1>4, <2>2 DEF ConfigInv
  <2> QED
    BY <1>1, <2>1, <2>2
<1>8. /\ Pending("complete")' => page'.room = NoRoom \/ ~ page'.setup
      /\ \A i \in DOMAIN native'.worker : native'.worker[i].t = "replay" =>
           page'.room = NoRoom \/ (page'.room = native'.worker[i].r /\ ~ page'.setup)
  BY <1>3, <1>4 DEF ConfigInv
<1> QED
  BY <1>5, <1>6, <1>7, <1>8 DEF ConfigInv

LEMMA StoredAppended ==
  ASSUME NEW q \in Seq(AnswerCall \cup PostedCall), NEW c \in AnswerCall \cup PostedCall,
         NEW d, NEW e, PostsStored(q, d),
         \A i \in DOMAIN q : q[i].t = "op" =>
           d[q[i].r] \in SUBSET e[q[i].r] \/ (c.t = "deleted" /\ c.r = q[i].r),
         c.t = "op" => c.op \in e[c.r]
  PROVE  PostsStored(Append(q, c), e)
<1> DEFINE new == Append(q, c)
           n == Len(q) + 1
<1>1. /\ n \in DOMAIN new /\ new[n] = c
      /\ \A i \in DOMAIN q : i \in DOMAIN new /\ new[i] = q[i] /\ i < n
      /\ \A i \in DOMAIN new : i \in DOMAIN q \/ i = n
  BY AppendedPosts
<1> HIDE DEF new, n
<1>2. PostsStored(new, e)
  <2> SUFFICES ASSUME NEW i \in DOMAIN new, new[i].t = "op"
               PROVE  \/ new[i].op \in e[new[i].r]
                      \/ \E j \in DOMAIN new : i < j /\ new[j].t = "deleted" /\ new[j].r = new[i].r
    BY DEF PostsStored
  <2>1. CASE i \in DOMAIN q
    <3>1. \/ q[i].op \in d[q[i].r]
          \/ \E j \in DOMAIN q : i < j /\ q[j].t = "deleted" /\ q[j].r = q[i].r
      BY <1>1, <2>1 DEF PostsStored
    <3> QED
      BY <1>1, <2>1, <3>1
  <2>2. CASE i = n
    BY <1>1, <2>2
  <2> QED
    BY <1>1, <2>1, <2>2
<1> QED
  BY <1>2 DEF new

LEMMA StoredRemaining ==
  ASSUME IInv, calls # << >>
  PROVE  /\ PostsStored(Rest, db)
         /\ Post.t = "op" /\ ~ Deleting(Post.r) => Post.op \in db[Post.r]
<1>1. \A i \in DOMAIN Rest : i \in 1 .. Len(Rest) /\ i + 1 \in DOMAIN calls /\ Rest[i] = calls[i + 1]
  BY FirstPost, Handling DEF IInv
<1>2. PostsStored(calls, db)
  BY DEF IInv, PatientInv, StoredInv
<1>3. 1 \in DOMAIN calls /\ Post = calls[1]
  BY FirstPost
<1>4. PostsStored(Rest, db)
  <2> SUFFICES ASSUME NEW i \in DOMAIN Rest, Rest[i].t = "op", Rest[i].op \notin db[Rest[i].r]
               PROVE  \E j \in DOMAIN Rest : i < j /\ Rest[j].t = "deleted" /\ Rest[j].r = Rest[i].r
    BY DEF PostsStored
  <2>1. PICK k \in DOMAIN calls : /\ i + 1 < k /\ calls[k].t = "deleted"
                                  /\ calls[k].r = calls[i + 1].r
    BY <1>1, <1>2 DEF PostsStored
  <2>2. k \in Int /\ (k = 1 \/ (k - 1 \in DOMAIN Rest /\ Rest[k - 1] = calls[k]))
    BY FirstPost
  <2>3. k # 1 /\ i < k - 1
    BY <1>1, <2>1, <2>2
  <2> QED
    BY <1>1, <2>1, <2>2, <2>3
<1>5. Post.t = "op" /\ ~ Deleting(Post.r) => Post.op \in db[Post.r]
  BY <1>2, <1>3 DEF PostsStored, Deleting
<1> QED
  BY <1>4, <1>5

\* A step that stores nothing.
LEMMA StoredCarried ==
  ASSUME IInv, db' = db, NEW c, NextPosts(c), c.t = "op" => c.op \in db[c.r],
         \A r \in Outdated : native'.profile[r] \in {native.profile[r], NoRoom},
         \A i \in DOMAIN native'.worker : native'.worker[i].t = "replay" =>
           native'.worker[i].left \in SUBSET db[native'.worker[i].r],
         page'.room = NoRoom => page'.board = {},
         page'.room # NoRoom => page'.board \in SUBSET db[page'.room]
  PROVE  StoredInv'
<1> USE DEF IInv, PatientInv, StoredInv
<1>1. PostsStored(calls', db')
  <2>1. PostsStored(calls, db)
    OBVIOUS
  <2>2. calls # << >> => PostsStored(Rest, db)
    BY StoredRemaining
  <2>3. CASE c \in AnswerCall \cup PostedCall /\ calls' = Append(calls, c)
    BY <2>1, <2>3, TypeParts, StoredAppended
  <2>4. CASE c \in AnswerCall \cup PostedCall /\ calls # << >> /\ calls' = Append(Rest, c)
    BY <2>2, <2>4, Handling, StoredAppended
  <2> QED
    BY <2>1, <2>2, <2>3, <2>4 DEF NextPosts
<1>2. Numbered(db')
  OBVIOUS
<1>3. \A r \in Outdated : db'[r] = {} /\ native'.profile[r] = NoRoom
  OBVIOUS
<1> QED
  BY <1>1, <1>2, <1>3

\* The operations on their way, after one more post.
LEMMA OpsPosted ==
  ASSUME NEW q \in Seq(AnswerCall \cup PostedCall)
  PROVE  /\ \A c \in AnswerCall : OpsIn(Append(q, c)) = OpsIn(q)
         /\ \A o \in Operation : OpsIn(Append(q, OpCall(o))) = OpsIn(q) \cup {o}
<1>1. ASSUME NEW c \in AnswerCall
      PROVE  OpsIn(Append(q, c)) = OpsIn(q)
  <2>1. c \in AnswerCall \cup PostedCall /\ c.t # "op"
    BY DEF AnswerCall
  <2> QED
    BY <2>1, OpsAppended
<1>2. ASSUME NEW o \in Operation
      PROVE  OpsIn(Append(q, OpCall(o))) = OpsIn(q) \cup {o}
  <2> DEFINE c == OpCall(o)
  <2>1. c \in AnswerCall \cup PostedCall /\ c.t = "op" /\ c.op = o
    BY PostKinds DEF OpCall
  <2> HIDE DEF c
  <2>2. OpsIn(Append(q, c)) = OpsIn(q) \cup {o}
    BY <2>1, OpsAppended
  <2> QED
    BY <2>2 DEF c
<1> QED
  BY <1>1, <1>2

LEMMA PostedGrows ==
  ASSUME IInv, NEW o \in Operation
  PROVE  /\ calls' = Append(calls, OpCall(o)) => Posted' = Posted \cup {o}
         /\ calls # << >> /\ calls' = Append(Rest, OpCall(o)) => Posted' = OpsIn(Rest) \cup {o}
<1>1. calls \in Seq(AnswerCall \cup PostedCall)
  BY TypeParts DEF IInv
<1>2. calls # << >> => Rest \in Seq(AnswerCall \cup PostedCall)
  BY Handling DEF IInv
<1>3. OpsIn(Append(calls, OpCall(o))) = OpsIn(calls) \cup {o}
  BY <1>1, OpsPosted
<1>4. calls # << >> => OpsIn(Append(Rest, OpCall(o))) = OpsIn(Rest) \cup {o}
  BY <1>2, OpsPosted
<1> QED
  BY <1>3, <1>4, PostedIs

\* A new operation is stored and posted.
LEMMA StoredGrown ==
  ASSUME IInv, NEW o \in Operation, o.r = native.config, o.n = NextNumber(native.config),
         native.config \in Room, ~ Deleting(native.config), native' = native,
         db' = [db EXCEPT ![native.config] = @ \union {o}],
         \/ calls' = Append(calls, OpCall(o))
         \/ calls # << >> /\ calls' = Append(Rest, OpCall(o)),
         page'.room = page.room,
         page'.board = page.board \/ (page.room = o.r /\ page'.board = page.board \cup {o})
  PROVE  StoredInv'
<1> DEFINE r == native.config
<1> USE TypeParts DEF IInv, PatientInv, StoredInv
<1>1. /\ db'[r] = db[r] \cup {o}
      /\ \A x \in Room : x # r => db'[x] = db[x]
      /\ \A x \in Room : db[x] \in SUBSET db'[x]
  OBVIOUS
<1>2. /\ NextNumber(r) = 1 + Cardinality(db[r]) /\ Cardinality(db[r]) \in Nat
      /\ \A x \in db[r] : x.n # NextNumber(r)
  BY FreshNumber
<1>3. Numbered(db')
  <2>1. Cardinality(db'[r]) = Cardinality(db[r]) + 1
    BY <1>1, <1>2, FS_AddElement
  <2>2. \A x \in db[r] : x.n \in 1 .. Cardinality(db[r])
    BY DEF Numbered
  <2> DEFINE n == Cardinality(db[r])
             m == Cardinality(db'[r])
  <2> HIDE DEF n, m
  <2>3. m = n + 1 /\ n \in Nat /\ o.n = 1 + n
    BY <1>2, <2>1 DEF n, m
  <2>4. \A x \in db'[r] : x.n \in 1 .. m
    <3>1. \A x \in db[r] : x.n \in 1 .. n
      BY <2>2 DEF n
    <3>2. \A x \in db[r] : x.n \in 1 .. m
      BY <2>3, <3>1
    <3>3. o.n \in 1 .. m
      BY <2>3
    <3> QED
      BY <1>1, <3>2, <3>3
  <2>5. \A x \in Room : x # r => \A y \in db'[x] : y.n \in 1 .. Cardinality(db'[x])
    BY <1>1 DEF Numbered
  <2> QED
    BY <2>4, <2>5 DEF Numbered, m
<1>4. /\ OpCall(o) \in AnswerCall \cup PostedCall /\ OpCall(o).t = "op" /\ OpCall(o).op = o
      /\ OpCall(o).r = r
  BY PostKinds DEF OpCall
<1>5. ASSUME NEW q \in Seq(AnswerCall \cup PostedCall), PostsStored(q, db)
      PROVE  PostsStored(Append(q, OpCall(o)), db')
  <2>1. \A i \in DOMAIN q : q[i].t = "op" => db[q[i].r] \in SUBSET db'[q[i].r]
    BY <1>1, PostKinds
  <2>2. OpCall(o).t = "op" /\ OpCall(o).op \in db'[OpCall(o).r]
    BY <1>1, <1>4
  <2> DEFINE d == db
             e == db'
  <2>3. PostsStored(q, d) /\ \A i \in DOMAIN q : q[i].t = "op" => d[q[i].r] \in SUBSET e[q[i].r]
    BY <1>5, <2>1
  <2>4. OpCall(o).op \in e[OpCall(o).r]
    BY <2>2
  <2> HIDE DEF d, e
  <2>5. PostsStored(Append(q, OpCall(o)), e)
    BY <1>4, <2>3, <2>4, StoredAppended
  <2> QED
    BY <2>5 DEF e
<1>6. PostsStored(calls', db')
  <2>1. calls # << >> => PostsStored(Rest, db) /\ Rest \in Seq(AnswerCall \cup PostedCall)
    BY StoredRemaining, Handling
  <2>2. PostsStored(calls, db) /\ calls \in Seq(AnswerCall \cup PostedCall)
    OBVIOUS
  <2>3. CASE calls' = Append(calls, OpCall(o))
    BY <1>5, <2>2, <2>3
  <2>4. CASE calls # << >> /\ calls' = Append(Rest, OpCall(o))
    BY <1>5, <2>1, <2>4
  <2> QED
    BY <2>3, <2>4
<1>7. \A x \in Outdated : db'[x] = {} /\ native'.profile[x] = NoRoom
  <2>1. r \notin Outdated
    BY DEF ConfigInv
  <2> QED
    BY <1>1, <2>1, BoardAssumption
<1>8. \A i \in DOMAIN native'.worker : native'.worker[i].t = "replay" =>
        native'.worker[i].left \in SUBSET db'[native'.worker[i].r]
  <2>1. \A i \in DOMAIN native.worker : native.worker[i].r \in Room
    <3>1. \A i \in DOMAIN native.worker : native.worker[i] \in TaskType
      OBVIOUS
    <3> QED
      BY <3>1 DEF TaskType
  <2> QED
    BY <1>1, <2>1
<1>9. /\ page'.room = NoRoom => page'.board = {}
      /\ page'.room # NoRoom => page'.board \in SUBSET db'[page'.room]
  BY <1>1 DEF MaybeRoom
<1> QED
  BY <1>3, <1>6, <1>7, <1>8, <1>9

\* A step that shows nothing else.
LEMMA ShowCarried ==
  ASSUME IInv, stops' = stops, native'.running = native.running, native'.worker = native.worker,
         page'.room = page.room, page'.setup = page.setup, page'.board = page.board,
         Progress(page') = Progress(page),
         Pending("complete")' => Pending("complete"),
         Posted \in SUBSET Posted',
         page.room # NoRoom => db'[page.room] \in SUBSET (db[page.room] \cup Posted')
  PROVE  ShowInv'
<1>1. /\ page'.loading = page.loading /\ page'.done = page.done /\ page'.waiting = page.waiting
      /\ page'.remote = page.remote /\ page'.timer = page.timer
  BY DEF Progress
<1>2. ShowInv
  BY DEF IInv, PatientInv
<1>3. page.room # NoRoom /\ Whole => Whole'
  BY DEF Whole
<1>4. page.room # NoRoom /\ Coming => Coming'
  BY <1>1 DEF Coming
<1>5. Lost => Lost'
  BY <1>1 DEF Lost, Replaying
<1> QED
  BY <1>1, <1>2, <1>3, <1>4, <1>5 DEF ShowInv

\* While the worker has a task.
LEMMA OneTask ==
  ASSUME IInv, native.worker # << >>
  PROVE  /\ DOMAIN native.worker = {1} /\ Work = native.worker[1] /\ Work \in TaskType
         /\ Work.r \in Room /\ Tail(native.worker) = << >> /\ page.front
         /\ Len(native.worker) = 1
         /\ \A i \in DOMAIN calls : calls[i].t \notin Answer
<1>1. /\ Len(native.worker) <= 1 /\ page.front /\ \A i \in DOMAIN calls : calls[i].t \notin Answer
  BY DEF IInv, PatientInv, QueueInv
<1>2. native.worker \in Seq(TaskType)
  BY TypeParts DEF IInv
<1> DEFINE q == native.worker
           S == TaskType
<1>3. q \in Seq(S) /\ Len(q) <= 1 /\ q # << >>
  BY <1>1, <1>2
<1> HIDE DEF q, S
<1>4. DOMAIN q = 1 .. Len(q) /\ Len(q) \in Nat /\ Len(q) # 0
  BY <1>3, EmptySeq
<1>5. DOMAIN q = {1} /\ Len(q) = 1
  BY <1>3, <1>4
<1>6. Head(q) = q[1] /\ q[1] \in S
  BY <1>3, <1>5
<1>7. Tail(q) = << >>
  BY <1>3, <1>4
<1> QED
  BY <1>1, <1>5, <1>6, <1>7 DEF q, S, Work, TaskType

\* The worker reads the stored operations, then posts them one by one.
LEMMA Replays ==
  ASSUME IInv, ReplayStart \/ ReplayRow
  PROVE  /\ UNCHANGED <<page, db, stops>>
         /\ native'.config = native.config /\ native'.running = native.running
         /\ native'.profile = native.profile
         /\ native.worker # << >> /\ Work.t = "replay"
         /\ Len(native'.worker) = 1 /\ DOMAIN native'.worker = {1}
         /\ native'.worker[1].t = "replay" /\ native'.worker[1].r = Work.r
         /\ native'.worker[1].started
         /\ \/ ~ Work.started /\ calls' = calls /\ native'.worker[1].left = db[Work.r]
            \/ /\ Work.started
               /\ \E o \in Work.left : /\ calls' = Append(calls, OpCall(o))
                                       /\ native'.worker[1].left = Work.left \ {o}
<1>1. native.worker # << >> /\ Work.t = "replay" /\ UNCHANGED <<page, db, stops>>
  BY DEF ReplayStart, ReplayRow, Busy, Work
<1>2. /\ DOMAIN native.worker = {1} /\ Work = native.worker[1] /\ Work \in TaskType
      /\ native \in NativeType /\ native.worker \in Seq(TaskType)
  BY <1>1, OneTask, TypeParts DEF IInv
<1>3. \E w \in TaskType :
        /\ native' = [native EXCEPT !.worker[1] = w]
        /\ w.t = "replay" /\ w.r = Work.r /\ w.started
        /\ \/ ~ Work.started /\ calls' = calls /\ w.left = db[Work.r]
           \/ /\ Work.started
              /\ \E o \in Work.left : calls' = Append(calls, OpCall(o)) /\ w.left = Work.left \ {o}
  <2>1. CASE ReplayStart
    <3> DEFINE left == db[Work.r]
               w == [Work EXCEPT !.started = TRUE, !.left = left]
    <3>1. native' = [native EXCEPT !.worker[1] = w] /\ calls' = calls /\ ~ Work.started
      BY <2>1 DEF ReplayStart
    <3>2. left \in SUBSET Operation
      BY <1>2, TypeParts DEF IInv, TaskType
    <3> HIDE DEF left
    <3>3. w \in TaskType /\ w.t = "replay" /\ w.r = Work.r /\ w.started /\ w.left = left
      BY <1>1, <1>2, <3>2 DEF TaskType
    <3> HIDE DEF w
    <3> QED
      BY <3>1, <3>3 DEF left
  <2>2. CASE ReplayRow
    <3> DEFINE o == CHOOSE x \in Work.left : \A y \in Work.left : x.n <= y.n
               left == Work.left \ {o}
               w == [Work EXCEPT !.left = left]
    <3>1. Work.left # {} /\ Work.left \in SUBSET Operation /\ Work.started
      BY <1>2, <2>2 DEF ReplayRow, TaskType
    <3>2. o \in Work.left
      BY <3>1, NextRow
    <3>3. /\ native' = [native EXCEPT !.worker[1].left = left]
          /\ calls' = Append(calls, OpCall(o))
      BY <1>2, <2>2 DEF ReplayRow
    <3> HIDE DEF o
    <3>4. left \in SUBSET Operation
      BY <3>1
    <3>5. native' = [native EXCEPT !.worker[1] = w]
      BY <1>2, <3>3
    <3> HIDE DEF left
    <3>6. w \in TaskType /\ w.t = "replay" /\ w.r = Work.r /\ w.started /\ w.left = left
      BY <1>1, <1>2, <3>1, <3>4 DEF TaskType
    <3> HIDE DEF w
    <3> QED
      BY <3>1, <3>2, <3>3, <3>5, <3>6 DEF left
  <2> QED
    BY <2>1, <2>2
<1>4. PICK w \in TaskType :
        /\ native' = [native EXCEPT !.worker[1] = w]
        /\ w.t = "replay" /\ w.r = Work.r /\ w.started
        /\ \/ ~ Work.started /\ calls' = calls /\ w.left = db[Work.r]
           \/ /\ Work.started
              /\ \E o \in Work.left : calls' = Append(calls, OpCall(o)) /\ w.left = Work.left \ {o}
  BY <1>3
<1> DEFINE tasks == [native.worker EXCEPT ![1] = w]
<1>5. tasks \in Seq(TaskType) /\ Len(tasks) = 1 /\ DOMAIN tasks = {1} /\ tasks[1] = w
  <2>1. tasks \in Seq(TaskType) /\ Len(tasks) = Len(native.worker) /\ DOMAIN tasks = {1}
        /\ tasks[1] = w
    BY <1>2
  <2>2. Len(native.worker) = 1
    BY <1>1, OneTask
  <2> QED
    BY <2>1, <2>2
<1>6. native' = [native EXCEPT !.worker = tasks]
  BY <1>4
<1> HIDE DEF tasks
<1>7. /\ native'.config = native.config /\ native'.running = native.running
      /\ native'.profile = native.profile /\ native'.worker = tasks
  BY <1>2, <1>6 DEF NativeType
<1> QED
  BY <1>1, <1>4, <1>5, <1>7

\* A replay or a deletion is over.
LEMMA TaskEnds ==
  ASSUME IInv, NEW ok \in BOOLEAN, ReplayEnd \/ DeleteRows(ok)
  PROVE  /\ UNCHANGED <<page, stops>>
         /\ native'.config = native.config /\ native'.running = native.running
         /\ native'.profile = native.profile
         /\ native.worker # << >> /\ native'.worker = << >>
         /\ \E c \in AnswerCall :
              /\ calls' = Append(calls, c)
              /\ \/ c.t = "complete" /\ Work.t = "replay" /\ Ended(Work) /\ db' = db
                 \/ /\ c.t = "deleted" /\ c.r = Work.r /\ Work.t = "delete"
                    /\ db' \in {db, [db EXCEPT ![Work.r] = {}]}
<1>1. native.worker # << >> /\ UNCHANGED <<page, stops>> /\ native' = [native EXCEPT !.worker = Tail(@)]
  BY DEF ReplayEnd, DeleteRows, Busy
<1>2. Work.r \in Room /\ Tail(native.worker) = << >> /\ native \in NativeType
  BY <1>1, OneTask, TypeParts DEF IInv
<1>3. /\ native'.config = native.config /\ native'.running = native.running
      /\ native'.profile = native.profile /\ native'.worker = << >>
  BY <1>1, <1>2 DEF NativeType
<1>4. CASE ReplayEnd
  <2> DEFINE c == Call("complete", NoRoom, DefaultName, TRUE)
  <2>1. c \in AnswerCall /\ c.t = "complete"
    BY AnswerTypes DEF MaybeRoom, AnyName
  <2>2. calls' = Append(calls, c) /\ Work.t = "replay" /\ Ended(Work) /\ db' = db
    BY <1>4 DEF ReplayEnd, Busy, Work
  <2> HIDE DEF c
  <2> QED
    BY <1>1, <1>3, <2>1, <2>2
<1>5. CASE DeleteRows(ok)
  <2> DEFINE c == Call("deleted", Work.r, DefaultName, ok)
  <2>1. c \in AnswerCall /\ c.t = "deleted" /\ c.r = Work.r
    BY <1>2, AnswerTypes DEF MaybeRoom, AnyName, Call
  <2>2. /\ calls' = Append(calls, c) /\ Work.t = "delete"
        /\ db' \in {db, [db EXCEPT ![Work.r] = {}]}
    BY <1>5 DEF DeleteRows, Busy, Work
  <2> HIDE DEF c
  <2> QED
    BY <1>1, <1>3, <2>1, <2>2
<1> QED
  BY <1>4, <1>5

-----------------------------------------------------------------------------
(* The steps of a patient user *)

\* PatientInv survives opening a board by its code, ...
LEMMA CodeKeeps ==
  ASSUME IInv, Hurried = FALSE, NEW r \in Direct, Join(r) \/ \E nm \in Name : Create(r, nm)
  PROVE  PatientInv'
<1>1. /\ Quiet /\ page.setup /\ page.front /\ r \in Room \ (Unadmitted \cup Outdated)
      /\ native'.config = r /\ native'.worker = << >> /\ native'.running = native.running
      /\ \A x \in Outdated : native'.profile[x] = native.profile[x]
      /\ page'.front = page.front /\ page'.setup = page.setup /\ page'.busy = page.busy
      /\ page'.room = page.room /\ page'.board = page.board /\ page'.configuring
      /\ page'.resume = page.resume /\ Progress(page') = Progress(page)
      /\ UNCHANGED <<db, stops>>
  BY CodeAsked
<1>2. PICK c \in AnswerCall : c.t = "code" /\ c.r = r /\ calls' = Append(calls, c)
  BY CodeAsked
<1>3. NextPosts(c) /\ QueueInv'
  BY <1>1, <1>2, QueueAnswer DEF Quiet, NextPosts
<1>4. DeleteInv'
  BY <1>1, <1>2, <1>3, DeleteNever
<1>5. ConfigInv'
  <2>1. \A i \in DOMAIN calls' : calls'[i] = c \/ calls'[i].t \notin Answer
    BY <1>1, <1>2, <1>3, PostsAre DEF Quiet
  <2>2. /\ ~ Pending("configured") /\ ~ Pending("complete")'
        /\ \A i \in DOMAIN calls' : /\ calls'[i].t # "configured"
                                    /\ calls'[i].t = "code" => calls'[i] = c
    BY <1>1, <1>2, <2>1 DEF Quiet, Pending, Answer
  <2>3. page.room # NoRoom => page.room \in Outdated
    BY <1>1, <2>2 DEF IInv, PatientInv, ConfigInv
  <2> QED
    BY <1>1, <1>2, <2>2, <2>3 DEF ConfigInv
<1>6. StoredInv'
  BY <1>1, <1>2, <1>3, StoredCarried DEF IInv, PatientInv, StoredInv
<1>7. ShowInv'
  BY <1>1 DEF IInv, PatientInv, ShowInv, Progress
<1> QED
  BY <1>3, <1>4, <1>5, <1>6, <1>7 DEF PatientInv

\* ... opening a saved board and a quick resume, ...
LEMMA BoardKeeps ==
  ASSUME IInv, Hurried = FALSE, Resume \/ \E r \in Room : OpenSaved(r)
  PROVE  PatientInv'
<1>1. /\ Quiet /\ page'.room \in Room
      /\ native'.config = IF page'.room \in Outdated THEN native.config ELSE page'.room
      /\ native'.worker = << >> /\ native'.running = native.running
      /\ \A x \in Outdated : native'.profile[x] = native.profile[x]
      /\ page'.front /\ page'.busy = page.busy /\ page'.configuring
      /\ page'.kind \in {"saved", "resume"} /\ Progress(page') = Progress(page)
      /\ \/ page'.setup /\ page'.board = {}
         \/ /\ ~ page'.setup /\ page'.room = page.room /\ page'.board = page.board
            /\ ~ page.front /\ page.resume = page.room
      /\ UNCHANGED <<db, stops>>
  BY BoardAsked
<1>2. PICK c \in AnswerCall : /\ c.t = "configured" /\ c.r = page'.room
                              /\ c.ok = (page'.room \notin Outdated)
                              /\ calls' = Append(calls, c)
  BY BoardAsked
<1>3. NoRoom \notin Room
  BY BoardAssumption
<1>4. NextPosts(c) /\ QueueInv'
  BY <1>1, <1>2, QueueAnswer DEF Quiet, NextPosts
<1>5. DeleteInv'
  BY <1>1, <1>2, <1>4, DeleteNever
<1>6. /\ Pending("configured")'
      /\ ~ Pending("configured") /\ ~ Pending("complete")'
      /\ \A i \in DOMAIN calls' : /\ calls'[i].t # "code"
                                  /\ calls'[i].t = "configured" => calls'[i] = c
  <2>1. \A i \in DOMAIN calls' : calls'[i] = c \/ calls'[i].t \notin Answer
    BY <1>1, <1>2, <1>4, PostsAre DEF Quiet
  <2>2. \E i \in DOMAIN calls' : calls'[i] = c
    BY <1>2, TypeParts, AppendedPosts DEF IInv
  <2> QED
    BY <1>1, <1>2, <2>1, <2>2 DEF Quiet, Pending, Answer
<1>7. ConfigInv'
  <2>1. native.config \notin Outdated
    BY DEF IInv, PatientInv, ConfigInv
  <2>2. native'.config \notin Outdated
    BY <1>1, <2>1
  <2>3. \A i \in DOMAIN calls' :
          /\ calls'[i].t = "configured" /\ calls'[i].ok =>
               /\ page'.room = calls'[i].r /\ native'.config = calls'[i].r
               /\ page'.kind \notin {"create", "join"}
          /\ calls'[i].t = "configured" /\ ~ calls'[i].ok => page'.room \in Outdated
    BY <1>1, <1>2, <1>6
  <2> QED
    BY <1>1, <1>6, <2>2, <2>3 DEF ConfigInv
<1>8. StoredInv'
  <2>1. page'.board \in SUBSET db[page'.room]
    BY <1>1, <1>3 DEF IInv, PatientInv, StoredInv
  <2>2. c.t # "op"
    BY <1>2
  <2> QED
    BY <1>1, <1>2, <1>3, <1>4, <2>1, <2>2, StoredCarried DEF IInv, PatientInv, StoredInv
<1>9. ShowInv'
  <2>1. /\ page'.timer => page'.done /\ page'.loading
        /\ stops' = 0 => native'.running
    BY <1>1 DEF IInv, PatientInv, ShowInv, Progress
  <2>2. ASSUME stops' = 0, ~ page'.setup
        PROVE  Whole' \/ Lost'
    <3>1. /\ page'.room = page.room /\ page'.board = page.board /\ page.room # NoRoom
          /\ page.resume = page.room
      BY <1>1, <1>3, <2>2
    <3>2. Posted' = Posted
      <4>1. c.t # "op" /\ c \in AnswerCall \cup PostedCall
        BY <1>2
      <4>2. calls \in Seq(AnswerCall \cup PostedCall)
        BY TypeParts DEF IInv
      <4>3. OpsIn(calls') = OpsIn(calls)
        BY <1>2, <4>1, <4>2, OpsAppended
      <4> QED
        BY <4>3, PostedIs
    <3>3. CASE page.setup
      <4>1. page.room \in Outdated
        BY <1>6, <3>1, <3>3 DEF IInv, PatientInv, ConfigInv
      <4>2. db[page.room] = {}
        BY <4>1 DEF IInv, PatientInv, StoredInv
      <4> QED
        BY <1>1, <3>1, <4>2 DEF Whole
    <3>4. CASE ~ page.setup
      <4>1. Whole \/ Lost
        BY <1>1, <2>2, <3>1, <3>4 DEF IInv, PatientInv, ShowInv, Coming, Quiet
      <4>2. Whole => Whole'
        BY <1>1, <3>1, <3>2 DEF Whole
      <4>3. Lost => Lost'
        BY <1>1, <1>6 DEF Lost, Progress, Replaying
      <4> QED
        BY <4>1, <4>2, <4>3
    <3> QED
      BY <3>3, <3>4
  <2> QED
    BY <2>1, <2>2 DEF ShowInv
<1> QED
  BY <1>4, <1>5, <1>7, <1>8, <1>9 DEF PatientInv


\* ... closing a board and finding it expired, ...
LEMMA LeftKeeps ==
  ASSUME IInv, Hurried = FALSE, Close \/ OpenExpired
  PROVE  PatientInv'
<1>1. /\ Quiet
      /\ page'.room = NoRoom /\ page'.board = {} /\ page'.setup /\ page'.front
      /\ ~ page'.timer /\ page'.busy = page.busy
      /\ native'.config = NoRoom /\ native'.worker = << >>
      /\ native'.running = native.running /\ native'.profile = native.profile
      /\ UNCHANGED <<calls, db, stops>>
  BY BoardLeft
<1>2. QueueInv'
  BY <1>1, QueueEmpty DEF Quiet
<1>3. DeleteInv'
  BY <1>1, DeleteOver DEF Quiet, Pending, StartsFirst, Answer
<1>4. ConfigInv'
  BY <1>1, BoardAssumption DEF ConfigInv, Quiet, Answer
<1>5. StoredInv'
  BY <1>1 DEF IInv, PatientInv, StoredInv
<1>6. ShowInv'
  BY <1>1 DEF IInv, PatientInv, ShowInv
<1> QED
  BY <1>2, <1>3, <1>4, <1>5, <1>6 DEF PatientInv

\* ... leaving, coming back to the form, and asking about a deletion, ...
LEMMA TurnedKeeps ==
  ASSUME IInv, Hurried = FALSE,
         \/ ResumeExpires \/ OpenSetup \/ Leave \/ CancelDelete
         \/ \E r \in Room : RequestDelete(r)
  PROVE  PatientInv'
<1>1. /\ UNCHANGED <<calls, native, db, stops>>
      /\ page'.room = page.room /\ page'.board = page.board
      /\ page'.configuring = page.configuring /\ page'.kind = page.kind
      /\ page'.busy = page.busy /\ Progress(page') = Progress(page)
  BY PageTurned
<1>2. NextPosts(Nothing) /\ Nothing.t = "nothing"
  BY <1>1, PostsNothing
<1>3. StoredInv'
  BY <1>1 DEF IInv, PatientInv, StoredInv
<1>4. Posted' = Posted /\ (Pending("complete")' => Pending("complete"))
  BY <1>1, PostedIs DEF Pending
<1>5. CASE /\ page'.front = page.front /\ page'.setup = page.setup
           /\ page'.resume \in {page.resume, NoRoom}
  <2>1. QueueInv'
    BY <1>1, <1>5, QueueUnchanged
  <2>2. DeleteInv'
    BY <1>1, <1>2, <1>5, DeleteCarried
  <2>3. ConfigInv'
    BY <1>1, <1>2, <1>5, ConfigCarried
  <2>4. ShowInv'
    BY <1>1, <1>4, <1>5, ShowCarried
  <2> QED
    BY <1>3, <2>1, <2>2, <2>3, <2>4 DEF PatientInv
<1>6. CASE /\ Quiet
           /\ \/ page.room = NoRoom /\ page'.front /\ page'.setup
              \/ page.front /\ ~ page'.front /\ page'.setup = page.setup
  <2>1. QueueInv'
    BY <1>1, <1>6, QueueUnchanged
  <2>2. DeleteInv'
    BY <1>1, <1>2, <1>6, DeleteNever DEF Quiet
  <2>3. ConfigInv'
    <3>1. ConfigInv
      BY DEF IInv, PatientInv
    <3>2. /\ native.worker = << >> /\ ~ Pending("configured") /\ ~ Pending("complete")'
          /\ \A i \in DOMAIN calls : calls[i].t \notin {"code", "configured"}
      BY <1>1, <1>6 DEF Quiet, Pending, Answer
    <3>3. page'.room # NoRoom /\ page'.setup => page'.room \in Outdated
      BY <1>1, <1>6, <3>1, <3>2 DEF ConfigInv
    <3>4. /\ native'.config \notin Outdated
          /\ page'.room # NoRoom /\ ~ page'.configuring /\ ~ page'.setup =>
               native'.config \in {NoRoom, page'.room}
      BY <1>1, <1>6, <3>1 DEF ConfigInv
    <3>5. /\ native'.worker = << >>
          /\ \A i \in DOMAIN calls' : calls'[i].t \notin {"code", "configured"}
      BY <1>1, <3>2
    <3> QED
      BY <3>2, <3>3, <3>4, <3>5 DEF ConfigInv
  <2>4. ShowInv'
    <3>1. CASE page.room = NoRoom
      BY <1>1, <3>1 DEF IInv, PatientInv, ShowInv, Progress
    <3>2. CASE page'.setup = page.setup
      BY <1>1, <1>4, <3>2, ShowCarried
    <3> QED
      BY <1>6, <3>1, <3>2
  <2> QED
    BY <1>3, <2>1, <2>2, <2>3, <2>4 DEF PatientInv
<1> QED
  BY <1>5, <1>6, PageTurned

\* ... confirming a deletion, ...
LEMMA ConfirmKeeps ==
  ASSUME IInv, Hurried = FALSE, NEW right \in BOOLEAN, ConfirmDelete(right)
  PROVE  PatientInv'
<1>1. /\ Quiet /\ page.front /\ page.setup
      /\ page'.front /\ page'.setup /\ page'.room = page.room /\ page'.board = page.board
      /\ page'.configuring = page.configuring /\ page'.kind = page.kind
      /\ page'.resume = page.resume /\ Progress(page') = Progress(page)
      /\ native'.config = native.config /\ native'.running = native.running
      /\ \A x \in Room : native'.profile[x] \in {native.profile[x], NoRoom}
      /\ UNCHANGED <<db, stops>>
  BY DeleteAsked
<1>2. ConfigInv /\ StoredInv
  BY DEF IInv, PatientInv
<1>3. page.room # NoRoom => page.room \in Outdated
  BY <1>1, <1>2 DEF ConfigInv, Quiet, Pending, Answer
<1>4. ShowInv'
  BY <1>1 DEF IInv, PatientInv, ShowInv, Progress
<1>5. CASE page'.busy = page.busy /\ calls' = calls /\ native'.worker = native.worker
  <2>1. NextPosts(Nothing) /\ Nothing.t = "nothing"
    BY <1>5, PostsNothing
  <2>2. QueueInv' /\ DeleteInv'
    BY <1>1, <1>5, <2>1, QueueUnchanged, DeleteNever DEF Quiet
  <2>3. ConfigInv'
    BY <1>1, <1>5, <2>1, ConfigCarried
  <2>4. StoredInv'
    BY <1>1, <1>2, <1>5, <2>1, StoredCarried, BoardAssumption DEF StoredInv
  <2> QED
    BY <1>4, <2>2, <2>3, <2>4 DEF PatientInv
<1>6. ASSUME NEW r \in Room, NEW c \in AnswerCall,
             page'.busy, c.t = "started", calls' = Append(calls, c),
             \/ native'.worker = native.worker
             \/ /\ native'.worker = Append(native.worker, Task("delete", r))
                /\ c.ok /\ native.config # r /\ native.profile[r] # NoRoom
      PROVE  PatientInv'
  <2>1. NextPosts(c)
    BY <1>6 DEF NextPosts
  <2>2. \A i \in DOMAIN calls' : calls'[i] = c \/ calls'[i].t \notin Answer \cup {"started"}
    BY <1>1, <2>1, PostsAre DEF Quiet
  <2>3. /\ Len(native'.worker) <= 1
        /\ \A i \in DOMAIN native'.worker :
             /\ native'.worker[i].t = "delete" /\ native'.worker[i].r = r
             /\ c.ok /\ native.config # r /\ native.profile[r] # NoRoom
    <3>1. native.worker = << >>
      BY <1>1 DEF Quiet
    <3>2. CASE native'.worker = native.worker
      BY <3>1, <3>2
    <3>3. CASE /\ native'.worker = Append(native.worker, Task("delete", r))
               /\ c.ok /\ native.config # r /\ native.profile[r] # NoRoom
      <4>1. native'.worker = << Task("delete", r) >>
        BY <3>1, <3>3
      <4>2. Task("delete", r).t = "delete" /\ Task("delete", r).r = r
        BY DEF Task
      <4> QED
        BY <3>3, <4>1, <4>2
    <3> QED
      BY <1>6, <3>2, <3>3
  <2>4. QueueInv'
    BY <1>1, <1>6, <2>2, <2>3, QueueEmpty DEF Answer
  <2>5. DeleteInv'
    <3>1. ASSUME NEW x \in MaybeRoom, Deleting(x)'
          PROVE  /\ x \in Room \ Outdated
                 /\ page'.busy /\ page'.front /\ page'.setup /\ native'.config # x
                 /\ page'.room # NoRoom => page'.room \in Outdated
                 /\ \A i \in DOMAIN calls' : calls'[i].t = "started" => calls'[i].ok
      <4>1. x = r /\ c.ok /\ native.config # r /\ native.profile[r] # NoRoom
        BY <1>6, <2>2, <2>3, <3>1 DEF Deleting, Answer
      <4>2. r \notin Outdated
        BY <1>2, <4>1 DEF StoredInv
      <4> QED
        BY <1>1, <1>3, <1>6, <2>2, <4>1, <4>2
    <3>2. StartsFirst(calls')
      <4>1. calls \in Seq(AnswerCall \cup PostedCall) /\ c \in AnswerCall \cup PostedCall
        BY TypeParts DEF IInv
      <4>2. StartsFirst(calls) /\ \A i \in DOMAIN calls : calls[i].t \notin {"started", "deleted"}
        BY <1>1 DEF Quiet, StartsFirst, Answer
      <4> QED
        BY <1>6, <4>1, <4>2, StartsAppended
    <3> QED
      BY <1>1, <1>6, <3>1, <3>2 DEF DeleteInv
  <2>6. ConfigInv'
    BY <1>1, <1>6, <2>1, <2>3, ConfigCarried
  <2>7. StoredInv'
    BY <1>1, <1>2, <1>6, <2>1, <2>3, StoredCarried, BoardAssumption DEF StoredInv
  <2> QED
    BY <1>4, <2>4, <2>5, <2>6, <2>7 DEF PatientInv
<1> QED
  BY <1>5, <1>6, DeleteAsked

\* What a drawing leaves.
LEMMA Drawn ==
  ASSUME IInv, Draw
  PROVE  /\ page.front /\ ~ page.setup /\ ~ page.loading /\ page \in PageType
         /\ native.config = page.room /\ page.room \in Room
         /\ UNCHANGED <<native, stops>>
         /\ \E o \in Operation :
              /\ o.r = native.config /\ o.n = NextNumber(native.config)
              /\ db' = [db EXCEPT ![native.config] = @ \union {o}]
              /\ calls' = Append(calls, OpCall(o))
              /\ page'.front = page.front /\ page'.setup = page.setup /\ page'.busy = page.busy
              /\ page'.room = page.room
              /\ page'.configuring = page.configuring /\ page'.kind = page.kind
              /\ page'.resume = page.resume
              /\ page'.loading = page.loading /\ page'.done = page.done
              /\ page'.waiting = page.waiting /\ page'.remote = page.remote
              /\ page'.timer => page.timer \/ (page.loading /\ page.done)
              /\ page'.board = page.board \cup {o}
<1>1. /\ page.front /\ ~ page.setup /\ ~ page.loading /\ page \in PageType
      /\ native.config = page.room /\ page.room \in Room
      /\ UNCHANGED <<native, stops>>
  BY DrawsHere, TypeParts DEF Draw, IInv
<1>2. HasSpace /\ Write(page, calls, Drawing) /\ Drawing \in AnyName
  BY DEF Draw, CanWrite, Drawing, AnyName
<1>3. calls \in Seq(AnswerCall \cup PostedCall) /\ TypeInv
  BY TypeParts DEF IInv
<1> QED
  BY <1>1, <1>2, <1>3, Written

\* ... drawing, ...
LEMMA DrawKeeps ==
  ASSUME IInv, Draw
  PROVE  PatientInv'
<1>1. /\ page.front /\ ~ page.setup /\ ~ page.loading /\ page \in PageType
      /\ native.config = page.room /\ page.room \in Room
      /\ UNCHANGED <<native, stops>>
  BY Drawn
<1>2. PICK o \in Operation :
           /\ o.r = native.config /\ o.n = NextNumber(native.config)
           /\ db' = [db EXCEPT ![native.config] = @ \union {o}]
           /\ calls' = Append(calls, OpCall(o))
           /\ page'.front = page.front /\ page'.setup = page.setup /\ page'.busy = page.busy
           /\ page'.room = page.room
           /\ page'.configuring = page.configuring /\ page'.kind = page.kind
           /\ page'.resume = page.resume
           /\ page'.loading = page.loading /\ page'.done = page.done
           /\ page'.waiting = page.waiting /\ page'.remote = page.remote
           /\ page'.timer => page.timer \/ (page.loading /\ page.done)
           /\ page'.board = page.board \cup {o}
  BY Drawn
<1>3. OpCall(o) \in PostedCall /\ OpCall(o).t = "op"
  BY PostKinds DEF OpCall
<1>4. NextPosts(OpCall(o))
  BY <1>2, <1>3 DEF NextPosts
<1>5. ~ Deleting(page.room)
  BY <1>1 DEF IInv, PatientInv, DeleteInv, MaybeRoom
<1>6. QueueInv'
  BY <1>1, <1>2, <1>3, QueueNotice DEF Answer
<1>7. DeleteInv'
  BY <1>1, <1>2, <1>3, <1>4, DeleteCarried
<1>8. ConfigInv'
  <2>1. page'.resume \in {page.resume, NoRoom} /\ page'.kind \in {page.kind, ""}
    BY <1>2
  <2> QED
    BY <1>1, <1>2, <1>3, <1>4, <2>1, ConfigCarried DEF NextPosts
<1>9. StoredInv'
  BY <1>1, <1>2, <1>5, StoredGrown
<1>10. ShowInv'
  <2>1. Posted' = Posted \cup {o}
    BY <1>2, PostedGrows
  <2>2. stops = 0 => Whole
    BY <1>1, BoardAssumption DEF IInv, PatientInv, ShowInv, Coming, Lost
  <2>3. db'[page.room] = db[page.room] \cup {o}
    BY <1>1, <1>2, TypeParts DEF IInv
  <2>4. Whole => Whole'
    BY <1>2, <2>1, <2>3 DEF Whole
  <2> QED
    BY <1>1, <1>2, <2>2, <2>4 DEF IInv, PatientInv, ShowInv
<1> QED
  BY <1>6, <1>7, <1>8, <1>9, <1>10 DEF PatientInv

\* ... the answer to an opened board, which starts a replay, ...
LEMMA LoadKeeps ==
  ASSUME IInv, Configured \/ CodeOpened
  PROVE  PatientInv'
<1>1. /\ calls # << >> /\ calls' = Rest /\ Post \in AnswerCall
      /\ Post.t \in {"configured", "code"}
      /\ page'.front = page.front /\ page'.busy = page.busy /\ ~ page'.configuring
      /\ page'.kind = page.kind /\ page'.resume = page.resume /\ ~ page'.timer
      /\ native'.config = native.config /\ native'.running = native.running
      /\ native'.profile = native.profile
      /\ UNCHANGED <<db, stops>>
  BY Loads
<1>2. \/ /\ Post.t = "configured" /\ ~ Post.ok /\ page'.setup
         /\ page'.room = page.room /\ page'.board = page.board
         /\ native'.worker = native.worker
      \/ /\ ~ page'.setup /\ page'.loading /\ ~ page'.done
         /\ \/ /\ Post.t = "code" /\ page'.room = Post.r /\ page'.board = {}
            \/ /\ Post.t = "configured" /\ Post.ok
               /\ page'.room = page.room /\ page'.board = page.board
               /\ (page'.waiting => page.kind \in {"join"})
         /\ native'.worker = IF native.config # NoRoom /\ native.running
                             THEN Append(native.worker, Task("replay", native.config))
                             ELSE native.worker
  BY Loads
<1>3. /\ native.worker = << >> /\ page.front
      /\ \A i \in DOMAIN calls' : calls'[i].t \notin Answer
  BY <1>1, AnswerHandled DEF Answer
<1>4. PICK n \in DOMAIN calls : Post = calls[n]
  BY <1>1, FirstPost
<1>5. NextPosts(Nothing) /\ Nothing.t = "nothing"
  BY <1>1, PostsNothing
<1>6. /\ ConfigInv /\ StoredInv /\ ShowInv
      /\ native.config \in MaybeRoom /\ page.room \in MaybeRoom /\ NoRoom \notin Room
  BY TypeParts DEF IInv, PatientInv
<1>7. /\ Len(native'.worker) <= 1
      /\ \A i \in DOMAIN native'.worker :
           LET w == native'.worker[i]
           IN w.t = "replay" /\ w.r = native.config /\ w.left = {} /\ ~ page'.setup
      /\ native.config # NoRoom /\ native.running /\ ~ page'.setup =>
           /\ 1 \in DOMAIN native'.worker
           /\ LET w == native'.worker[1]
              IN w.t = "replay" /\ w.r = native.config /\ ~ w.started
  <2> DEFINE task == Task("replay", native.config)
  <2>1. task.t = "replay" /\ task.r = native.config /\ task.left = {} /\ ~ task.started
    BY DEF Task
  <2> HIDE DEF task
  <2>2. \/ /\ native'.worker = << >>
           /\ page'.setup \/ ~ (native.config # NoRoom /\ native.running)
        \/ native'.worker = << task >> /\ ~ page'.setup
    BY <1>2, <1>3 DEF task
  <2> DEFINE q == native'.worker
  <2>3. CASE q = << >> /\ (page'.setup \/ ~ (native.config # NoRoom /\ native.running))
    <3>1. DOMAIN q = {} /\ Len(q) <= 1
      BY <2>3
    <3> QED
      BY <2>3, <3>1
  <2>4. CASE q = << task >> /\ ~ page'.setup
    <3>1. DOMAIN q = {1} /\ Len(q) <= 1 /\ q[1] = task
      BY <2>4
    <3> QED
      BY <2>1, <2>4, <3>1
  <2> QED
    BY <2>2, <2>3, <2>4
<1>8. native.config # NoRoom /\ ~ page'.setup /\ page'.room # NoRoom => native.config = page'.room
  BY <1>2, <1>4, <1>6 DEF ConfigInv
<1>9. QueueInv'
  BY <1>1, <1>3, <1>7, QueueEmpty
<1>10. DeleteInv'
  <2>1. \A i \in DOMAIN calls' : calls'[i].t # "deleted"
    BY <1>3 DEF Answer
  <2>2. Pending("started")' => page'.busy /\ page'.front
    <3>1. Pending("started")' => Pending("started")
      BY <1>5, PostsAre DEF Pending
    <3> QED
      BY <1>1, <3>1 DEF IInv, PatientInv, DeleteInv
  <2>3. StartsFirst(calls')
    BY <1>1, StartsRemaining
  <2> QED
    BY <1>7, <2>1, <2>2, <2>3, DeleteOver
<1>11. ConfigInv'
  <2>1. native'.config \notin Outdated
    BY <1>1, <1>6 DEF ConfigInv
  <2>2. page'.room # NoRoom /\ ~ page'.setup => native'.config \in {NoRoom, page'.room}
    BY <1>1, <1>8
  <2>3. page'.room # NoRoom /\ page'.setup => page'.room \in Outdated
    BY <1>2, <1>4, <1>6 DEF ConfigInv
  <2>4. /\ ~ Pending("complete")'
        /\ \A i \in DOMAIN calls' : calls'[i].t \notin {"code", "configured"}
    BY <1>3 DEF Pending, Answer
  <2>5. \A i \in DOMAIN native'.worker : native'.worker[i].t = "replay" =>
          page'.room = NoRoom \/ (page'.room = native'.worker[i].r /\ ~ page'.setup)
    <3> SUFFICES ASSUME NEW i \in DOMAIN native'.worker, page'.room # NoRoom
                 PROVE  page'.room = native'.worker[i].r /\ ~ page'.setup
      OBVIOUS
    <3>1. native'.worker[i].r = native.config /\ ~ page'.setup /\ native'.worker # << >>
      BY <1>7
    <3>2. native.config # NoRoom
      BY <1>2, <1>3, <3>1
    <3> QED
      BY <1>8, <3>1, <3>2
  <2> QED
    BY <2>1, <2>2, <2>3, <2>4, <2>5 DEF ConfigInv
<1>12. StoredInv'
  <2>1. /\ page'.room = NoRoom => page'.board = {}
        /\ page'.room # NoRoom => page'.board \in SUBSET db[page'.room]
    BY <1>2, <1>6 DEF StoredInv
  <2> QED
    BY <1>1, <1>5, <1>6, <1>7, <2>1, StoredCarried DEF StoredInv
<1>13. ShowInv'
  <2>1. stops' = 0 => native'.running
    BY <1>1, <1>6 DEF ShowInv
  <2>2. ASSUME stops' = 0, page'.room # NoRoom, ~ page'.setup, native.config # NoRoom
        PROVE  Coming'
    BY <1>1, <1>2, <1>7, <1>8, <2>1, <2>2 DEF Coming
  <2>3. ASSUME page'.room # NoRoom, ~ page'.setup, native.config = NoRoom
        PROVE  Lost'
    <3>1. native'.worker = << >>
      BY <1>2, <1>3, <2>3
    <3>2. Post.t = "configured" /\ Post.ok
      BY <1>1, <1>2, <1>4, <1>6, <2>3 DEF ConfigInv, Direct
    <3>3. ~ page'.waiting
      BY <1>2, <1>4, <1>6, <2>3, <3>2 DEF ConfigInv
    <3> QED
      BY <1>2, <1>3, <2>3, <3>1, <3>3 DEF Lost, Pending, Replaying, Answer
  <2> QED
    BY <1>1, <2>1, <2>2, <2>3 DEF ShowInv
<1> QED
  BY <1>9, <1>10, <1>11, <1>12, <1>13 DEF PatientInv

\* ... an operation that reaches the page, ...
LEMMA ReceiveKeeps ==
  ASSUME IInv, Receive
  PROVE  PatientInv'
<1>1. /\ calls # << >> /\ calls' = Rest /\ Post.t = "op" /\ Post.op \in Operation
      /\ Post.r = Post.op.r
      /\ UNCHANGED <<native, db, stops>>
      /\ page'.front = page.front /\ page'.setup = page.setup /\ page'.busy = page.busy
      /\ page'.room = page.room /\ page'.configuring = page.configuring
      /\ page'.kind = page.kind /\ page'.resume = page.resume
      /\ page'.board = IF page.room = Post.op.r THEN page.board \cup {Post.op} ELSE page.board
  BY Receives
<1>2. \/ page.waiting /\ page'.loading /\ page'.done /\ page'.remote
      \/ /\ page'.loading = page.loading /\ page'.done = page.done
         /\ page'.waiting = page.waiting /\ page'.remote = page.remote
         /\ page'.timer => page.timer \/ (page.loading /\ page.done)
  BY Receives
<1>3. NextPosts(Nothing) /\ Nothing.t = "nothing"
  BY <1>1, PostsNothing
<1>4. StoredInv /\ ShowInv /\ page.room \in MaybeRoom
  BY TypeParts DEF IInv, PatientInv
<1>5. QueueInv'
  BY <1>1, QueueHandled
<1>6. DeleteInv'
  BY <1>1, <1>3, DeleteCarried
<1>7. ConfigInv'
  BY <1>1, <1>3, ConfigCarried
<1>8. StoredInv'
  <2>1. page.room = Post.op.r => Post.op \in db[page.room]
    <3>1. ~ Deleting(page.room) \/ page.room = NoRoom
      BY <1>4 DEF IInv, PatientInv, DeleteInv
    <3>2. page.room = Post.op.r => page.room # NoRoom
      BY <1>1, BoardAssumption DEF Operation
    <3> QED
      BY <1>1, <3>1, <3>2, StoredRemaining
  <2>2. page'.room # NoRoom => page'.board \in SUBSET db[page'.room]
    BY <1>1, <1>4, <2>1 DEF StoredInv
  <2>3. page'.room = NoRoom => page'.board = {}
    BY <1>1, <1>4, BoardAssumption DEF StoredInv, Operation
  <2> QED
    BY <1>1, <1>3, <1>4, <2>2, <2>3, StoredCarried DEF StoredInv
<1>9. ShowInv'
  <2>1. Posted = Posted' \cup {Post.op}
    <3>1. OpsIn(calls) = OpsIn(Rest) \cup {Post.op}
      BY <1>1, TypeParts, OpsRemaining DEF IInv, Post, Rest
    <3> QED
      BY <1>1, <3>1, PostedIs
  <2>2. page.room # NoRoom => Post.op.r = page.room \/ Post.op \notin db[page.room]
    BY <1>4, TypeParts DEF IInv, MaybeRoom
  <2>3. ASSUME page.room # NoRoom, NEW left,
               db[page.room] \in SUBSET (page.board \cup Posted \cup left)
        PROVE  db'[page'.room] \in SUBSET (page'.board \cup Posted' \cup left)
    BY <1>1, <2>1, <2>2, <2>3
  <2>4. page.room # NoRoom /\ Whole => Whole'
    <3>1. page.room # NoRoom /\ Whole => db'[page'.room] \in SUBSET (page'.board \cup Posted' \cup {})
      BY <2>3 DEF Whole
    <3> QED
      BY <3>1 DEF Whole
  <2>5. page.room # NoRoom /\ Coming => Coming'
    <3> SUFFICES ASSUME page.room # NoRoom, Coming PROVE Coming'
      OBVIOUS
    <3>1. PICK i \in DOMAIN native.worker :
            /\ native.worker[i].t = "replay" /\ native.worker[i].r = page.room
            /\ native.worker[i].started =>
                 db[page.room] \in SUBSET (page.board \cup Posted \cup native.worker[i].left)
      BY DEF Coming
    <3>2. native.worker[i].started =>
            db'[page'.room] \in SUBSET (page'.board \cup Posted' \cup native.worker[i].left)
      BY <2>3, <3>1
    <3>3. page'.loading /\ (page'.done => page'.remote)
      BY <1>2 DEF Coming
    <3> QED
      BY <1>1, <3>1, <3>2, <3>3 DEF Coming
  <2>6. Lost => Lost'
    <3>1. Pending("complete")' => Pending("complete")
      BY <1>3, PostsAre DEF Pending
    <3> QED
      BY <1>1, <1>2, <3>1 DEF Lost, Replaying
  <2>7. page'.timer => page'.done /\ page'.loading
    BY <1>2, <1>4 DEF ShowInv
  <2> QED
    BY <1>1, <1>4, <2>4, <2>5, <2>6, <2>7 DEF ShowInv
<1> QED
  BY <1>5, <1>6, <1>7, <1>8, <1>9 DEF PatientInv

\* ... the end of a replay and the name it may publish, ...
LEMMA CompleteKeeps ==
  ASSUME IInv, ReplayComplete
  PROVE  PatientInv'
<1>1. /\ calls # << >> /\ Post.t = "complete" /\ UNCHANGED <<native, stops>>
  BY DEF ReplayComplete, Handles
<1>2. /\ native.worker = << >> /\ page.front
      /\ \A i \in DOMAIN Rest : Rest[i].t \notin Answer
  BY <1>1, AnswerHandled DEF Answer
<1>3. /\ page \in PageType /\ IsFiniteSet(page.board) /\ page.name \in AnyName /\ TypeInv
      /\ Rest \in Seq(AnswerCall \cup PostedCall) /\ calls \in Seq(AnswerCall \cup PostedCall)
      /\ ConfigInv /\ StoredInv /\ ShowInv
  BY <1>1, Handling, TypeParts DEF IInv, PatientInv
<1>4. \/ page.room = NoRoom /\ calls' = Rest /\ UNCHANGED <<page, db>>
      \/ /\ page.room \in Room /\ native.config = page.room /\ HasSpace
         /\ Write(Completed(page), Rest, page.name)
      \/ /\ page.room \in Room /\ calls' = Rest /\ UNCHANGED db
         /\ page' \in {Completed(page), WithSyncedName(Completed(page))}
  BY CompletePublishes
<1>5. page.room # NoRoom => ~ page.setup
  <2>1. Pending("complete")
    BY <1>1, FirstPost DEF Pending
  <2> QED
    BY <1>3, <2>1 DEF ConfigInv
<1>6. page.room # NoRoom /\ stops = 0 => Whole
  <2>1. ~ Coming
    BY <1>2 DEF Coming
  <2>2. ~ Lost
    BY <1>1, FirstPost DEF Lost, Pending
  <2> QED
    BY <1>3, <1>5, <2>1, <2>2 DEF ShowInv
<1>7. OpsIn(calls) = OpsIn(Rest) /\ Posted = OpsIn(calls) /\ Posted' = OpsIn(calls')
  BY <1>1, <1>3, OpsRemaining, PostedIs DEF Post, Rest
<1>8. CASE page.room = NoRoom /\ calls' = Rest /\ UNCHANGED <<page, db>>
  <2>1. NextPosts(Nothing) /\ Nothing.t = "nothing"
    BY <1>1, <1>8, PostsNothing
  <2>2. QueueInv' /\ DeleteInv' /\ ConfigInv'
    BY <1>1, <1>8, <2>1, QueueHandled, DeleteCarried, ConfigCarried
  <2>3. StoredInv'
    BY <1>1, <1>3, <1>8, <2>1, StoredCarried DEF StoredInv
  <2>4. ShowInv'
    BY <1>1, <1>3, <1>8 DEF ShowInv
  <2> QED
    BY <2>2, <2>3, <2>4 DEF PatientInv
<1>9. CASE /\ page.room \in Room /\ calls' = Rest /\ UNCHANGED db
           /\ page' \in {Completed(page), WithSyncedName(Completed(page))}
  <2>1. NextPosts(Nothing) /\ Nothing.t = "nothing"
    BY <1>1, <1>9, PostsNothing
  <2>2. /\ page'.loading = page.loading /\ page'.done /\ page'.timer = page.loading
        /\ page'.front = page.front /\ page'.setup = page.setup /\ page'.busy = page.busy
        /\ page'.room = page.room
        /\ page'.board = page.board /\ page'.configuring = page.configuring
        /\ page'.kind = page.kind /\ page'.resume = page.resume
    BY <1>3, <1>9, HelperFields
  <2>3. QueueInv' /\ DeleteInv'
    BY <1>1, <1>9, <2>1, <2>2, QueueHandled, DeleteCarried
  <2>4. ConfigInv'
    BY <1>1, <1>9, <2>1, <2>2, ConfigCarried
  <2>5. StoredInv'
    BY <1>1, <1>3, <1>9, <2>1, <2>2, StoredCarried DEF StoredInv
  <2>6. ShowInv'
    <3>1. Posted' = Posted
      BY <1>7, <1>9
    <3>2. stops = 0 => Whole'
      BY <1>3, <1>6, <1>9, <2>2, <3>1, BoardAssumption DEF Whole
    <3> QED
      BY <1>1, <1>3, <2>2, <3>2 DEF ShowInv
  <2> QED
    BY <2>3, <2>4, <2>5, <2>6 DEF PatientInv
<1>10. CASE /\ page.room \in Room /\ native.config = page.room /\ HasSpace
            /\ Write(Completed(page), Rest, page.name)
  <2> DEFINE p == Completed(page)
  <2>1. /\ p.loading = page.loading /\ p.done /\ p.timer = page.loading
        /\ p.front = page.front /\ p.setup = page.setup /\ p.busy = page.busy
        /\ p.room = page.room
        /\ p.board = page.board /\ p.configuring = page.configuring
        /\ p.kind = page.kind /\ p.resume = page.resume
    BY <1>3, HelperFields
  <2>2. p \in PageType
    BY <1>3, ReplayType
  <2>3. Write(p, Rest, page.name)
    BY <1>10
  <2> HIDE DEF p
  <2>4. PICK o \in Operation :
           /\ o.r = native.config /\ o.n = NextNumber(native.config)
           /\ db' = [db EXCEPT ![native.config] = @ \union {o}]
           /\ calls' = Append(Rest, OpCall(o))
           /\ page'.front = page.front /\ page'.setup = page.setup /\ page'.busy = page.busy
           /\ page'.room = page.room
           /\ page'.configuring = page.configuring /\ page'.kind = page.kind
           /\ page'.resume = page.resume
           /\ page'.loading = page.loading /\ page'.done
           /\ page'.timer => page.loading
           /\ page'.board = page.board \cup {o}
    <3>1. p.room \in Room /\ HasSpace /\ TypeInv
          /\ Rest \in Seq(AnswerCall \cup PostedCall) /\ page.name \in AnyName
      BY <1>3, <1>10, <2>1
    <3>2. PICK o \in Operation :
           /\ o.r = native.config /\ o.n = NextNumber(native.config)
           /\ db' = [db EXCEPT ![native.config] = @ \union {o}]
           /\ calls' = Append(Rest, OpCall(o))
           /\ page'.front = p.front /\ page'.setup = p.setup /\ page'.busy = p.busy
           /\ page'.room = p.room
           /\ page'.configuring = p.configuring /\ page'.kind = p.kind /\ page'.resume = p.resume
           /\ page'.loading = p.loading /\ page'.done = p.done /\ page'.waiting = p.waiting
           /\ page'.remote = p.remote
           /\ page'.timer => p.timer \/ (p.loading /\ p.done)
           /\ native.config = p.room => page'.board = p.board \cup {o}
      BY <2>2, <2>3, <3>1, Written
    <3>3. native.config = p.room
      BY <1>10, <2>1
    <3> QED
      BY <2>1, <3>2, <3>3
  <2>5. OpCall(o) \in PostedCall /\ OpCall(o).t = "op"
    BY PostKinds DEF OpCall
  <2>6. NextPosts(OpCall(o))
    BY <1>1, <2>4, <2>5 DEF NextPosts
  <2>7. ~ Deleting(page.room) /\ page.room # NoRoom
    BY <1>5, <1>10, BoardAssumption DEF IInv, PatientInv, DeleteInv, MaybeRoom
  <2>8. QueueInv'
    <3>1. \A i \in DOMAIN calls' : calls'[i] = OpCall(o) \/ \E j \in DOMAIN Rest : calls'[i] = Rest[j]
      BY <1>3, <2>4, <2>5, AppendedPosts
    <3>2. \A i \in DOMAIN calls' : calls'[i].t \notin Answer
      BY <1>2, <2>5, <3>1 DEF Answer
    <3>3. Len(native'.worker) <= 1
      BY <1>1, <1>2
    <3> QED
      BY <1>2, <2>4, <3>2, <3>3, QueueEmpty
  <2>9. DeleteInv'
    BY <1>1, <2>4, <2>5, <2>6, DeleteCarried
  <2>10. ConfigInv'
    BY <1>1, <2>4, <2>5, <2>6, ConfigCarried
  <2>11. StoredInv'
    BY <1>1, <1>10, <2>4, <2>7, StoredGrown
  <2>12. ShowInv'
    <3>1. Posted' = Posted \cup {o}
      BY <1>1, <1>7, <2>4, PostedGrows
    <3>2. db'[page.room] = db[page.room] \cup {o}
      BY <1>10, <2>4, TypeParts DEF IInv
    <3>3. Whole => Whole'
      BY <2>4, <3>1, <3>2 DEF Whole
    <3> QED
      BY <1>1, <1>3, <1>6, <2>4, <2>7, <3>3 DEF ShowInv
  <2> QED
    BY <2>8, <2>9, <2>10, <2>11, <2>12 DEF PatientInv
<1> QED
  BY <1>4, <1>8, <1>9, <1>10

\* ... what the page hears of a deletion or a rejection, ...
LEMMA NoticeKeeps ==
  ASSUME IInv, DeleteStarted \/ Deleted \/ AccessRejected
  PROVE  PatientInv'
<1>1. /\ calls # << >> /\ calls' = Rest /\ Post \in AnswerCall
      /\ UNCHANGED <<native, db, stops>>
      /\ page'.front = page.front /\ page'.kind = page.kind /\ page'.resume = page.resume
  BY Notices
<1>2. NextPosts(Nothing) /\ Nothing.t = "nothing"
  BY <1>1, PostsNothing
<1>3. \A i \in DOMAIN calls' : \E j \in DOMAIN calls : calls'[i] = calls[j]
  BY <1>1, FirstPost
<1>4. StoredInv /\ ShowInv /\ ConfigInv /\ DeleteInv
  BY DEF IInv, PatientInv
<1>5. PICK first \in DOMAIN calls : Post = calls[first]
  BY <1>1, FirstPost
<1>6. QueueInv'
  BY <1>1, QueueHandled
<1>7. CASE /\ Post.t = "rejected"
           /\ page'.busy = page.busy /\ page'.setup /\ page'.room = NoRoom
           /\ page'.board = {} /\ ~ page'.timer
  <2>1. DeleteInv'
    BY <1>1, <1>2, <1>7, DeleteCarried
  <2>2. ConfigInv'
    BY <1>1, <1>3, <1>4, <1>7 DEF ConfigInv
  <2>3. StoredInv'
    BY <1>1, <1>2, <1>4, <1>7, StoredCarried DEF StoredInv
  <2>4. ShowInv'
    BY <1>1, <1>4, <1>7 DEF ShowInv
  <2> QED
    BY <1>6, <2>1, <2>2, <2>3, <2>4 DEF PatientInv
<1>8. CASE /\ \/ Post.t = "started" /\ (Post.ok => page'.busy = page.busy)
              \/ Post.t = "deleted"
           /\ page'.setup = page.setup /\ page'.room = page.room /\ page'.board = page.board
           /\ page'.configuring = page.configuring /\ Progress(page') = Progress(page)
  <2>1. DeleteInv'
    <3>1. CASE Post.t = "started" /\ page'.busy = page.busy
      BY <1>1, <1>2, <1>8, <3>1, DeleteCarried
    <3>2. CASE Post.t = "started" /\ ~ Post.ok
      <4>1. \A r \in MaybeRoom : ~ Deleting(r)
        BY <1>4, <1>5, <3>2 DEF DeleteInv
      <4>2. \A r : Deleting(r)' => Deleting(r)
        BY <1>1, <1>3 DEF Deleting
      <4>3. ~ Pending("started")' /\ StartsFirst(calls')
        BY <1>1, <3>2, StartsRemaining DEF Pending
      <4> QED
        BY <4>1, <4>2, <4>3 DEF DeleteInv
    <3>3. CASE Post.t = "deleted"
      <4>1. ~ Pending("started")' /\ StartsFirst(calls')
        BY <1>1, <3>3, StartsRemaining DEF Pending
      <4>2. native'.worker = << >> /\ \A i \in DOMAIN calls' : calls'[i].t # "deleted"
        BY <1>1, <3>3, AnswerHandled DEF Answer
      <4> QED
        BY <4>1, <4>2, DeleteOver
    <3> QED
      BY <1>8, <3>1, <3>2, <3>3
  <2>2. ConfigInv'
    BY <1>1, <1>2, <1>8, ConfigCarried
  <2>3. StoredInv'
    BY <1>1, <1>2, <1>4, <1>8, StoredCarried DEF StoredInv
  <2>4. ShowInv'
    <3>1. Posted' = Posted
      <4>1. Post.t # "op"
        BY <1>8
      <4>2. OpsIn(calls) = OpsIn(Rest)
        BY <1>1, <4>1, TypeParts, OpsRemaining DEF IInv, Post, Rest
      <4> QED
        BY <1>1, <4>2, PostedIs
    <3>2. Pending("complete")' => Pending("complete")
      BY <1>3 DEF Pending
    <3> QED
      BY <1>1, <1>8, <3>1, <3>2, ShowCarried
  <2> QED
    BY <1>6, <2>1, <2>2, <2>3, <2>4 DEF PatientInv
<1> QED
  BY <1>7, <1>8, Notices

\* ... the end of the loading, ...
LEMMA TimerKeeps ==
  ASSUME IInv, ReplayTimer
  PROVE  PatientInv'
<1>1. /\ UNCHANGED <<calls, native, db, stops>>
      /\ page.timer /\ (page.remote => ~ Replaying)
      /\ ~ page'.loading /\ ~ page'.timer
      /\ page'.front = page.front /\ page'.setup = page.setup /\ page'.busy = page.busy
      /\ page'.room = page.room /\ page'.board = page.board
      /\ page'.configuring = page.configuring /\ page'.resume = page.resume
      /\ page'.kind = ""
  BY TimerEnds
<1>2. NextPosts(Nothing) /\ Nothing.t = "nothing"
  BY <1>1, PostsNothing
<1>3. QueueInv' /\ DeleteInv' /\ ConfigInv'
  BY <1>1, <1>2, QueueUnchanged, DeleteCarried, ConfigCarried
<1>4. StoredInv'
  BY <1>1 DEF IInv, PatientInv, StoredInv
<1>5. ShowInv'
  <2>1. ~ Lost /\ ~ Coming /\ ShowInv
    BY <1>1 DEF IInv, PatientInv, ShowInv, Lost, Coming, Replaying
  <2>2. Posted' = Posted
    BY <1>1, PostedIs
  <2>3. page.room # NoRoom /\ Whole => Whole'
    BY <1>1, <2>2 DEF Whole
  <2> QED
    BY <1>1, <2>1, <2>3 DEF ShowInv
<1> QED
  BY <1>3, <1>4, <1>5 DEF PatientInv

-----------------------------------------------------------------------------
(* The worker, the other phones, Bluetooth, the app *)

\* ... the worker's query and each row it posts, ...
LEMMA ReplayKeeps ==
  ASSUME IInv, ReplayStart \/ ReplayRow
  PROVE  PatientInv'
<1>1. /\ UNCHANGED <<page, db, stops>>
      /\ native'.config = native.config /\ native'.running = native.running
      /\ native'.profile = native.profile
      /\ native.worker # << >> /\ Work.t = "replay"
      /\ Len(native'.worker) = 1 /\ DOMAIN native'.worker = {1}
      /\ native'.worker[1].t = "replay" /\ native'.worker[1].r = Work.r
      /\ native'.worker[1].started
  BY Replays
<1>2. \/ ~ Work.started /\ calls' = calls /\ native'.worker[1].left = db[Work.r]
      \/ /\ Work.started
         /\ \E o \in Work.left : /\ calls' = Append(calls, OpCall(o))
                                 /\ native'.worker[1].left = Work.left \ {o}
  BY Replays
<1>3. /\ DOMAIN native.worker = {1} /\ Work = native.worker[1] /\ Work \in TaskType
      /\ Work.r \in Room /\ page.front
      /\ \A i \in DOMAIN calls : calls[i].t \notin Answer
  BY <1>1, OneTask
<1>4. StoredInv /\ ShowInv
  BY DEF IInv, PatientInv
<1>5. Work.left \in SUBSET db[Work.r] /\ Work.left \in SUBSET Operation
  BY <1>1, <1>3, <1>4 DEF StoredInv, TaskType
<1>6. \E c : /\ NextPosts(c) /\ c.t \in {"op", "nothing"} /\ (c.t = "op" => c.op \in db[c.r])
             /\ calls' = calls \/ (c \in PostedCall /\ calls' = Append(calls, c))
  <2>1. CASE calls' = calls
    BY <2>1, PostsNothing
  <2>2. ASSUME NEW o \in Work.left, calls' = Append(calls, OpCall(o))
        PROVE  \E c : /\ NextPosts(c) /\ c.t \in {"op", "nothing"}
                      /\ (c.t = "op" => c.op \in db[c.r])
                      /\ calls' = calls \/ (c \in PostedCall /\ calls' = Append(calls, c))
    <3>1. o \in db[Work.r] /\ o.r = Work.r /\ o \in Operation
      BY <1>3, <1>5, <2>2, TypeParts DEF IInv
    <3>2. OpCall(o) \in PostedCall /\ OpCall(o).t = "op" /\ OpCall(o).op = o /\ OpCall(o).r = o.r
      BY <3>1, PostKinds DEF OpCall
    <3>3. NextPosts(OpCall(o))
      BY <2>2, <3>2 DEF NextPosts
    <3> QED
      BY <2>2, <3>1, <3>2, <3>3
  <2> QED
    BY <1>2, <2>1, <2>2
<1>7. PICK c : /\ NextPosts(c) /\ c.t \in {"op", "nothing"} /\ (c.t = "op" => c.op \in db[c.r])
               /\ calls' = calls \/ (c \in PostedCall /\ calls' = Append(calls, c))
  BY <1>6
<1>8. \A i \in DOMAIN calls' : calls'[i] = c \/ \E j \in DOMAIN calls : calls'[i] = calls[j]
  BY <1>7, PostsAre
<1>9. QueueInv'
  <2>1. \A i \in DOMAIN calls' : calls'[i].t \notin Answer
    BY <1>3, <1>7, <1>8 DEF Answer
  <2> QED
    BY <1>1, <1>3, <2>1, QueueEmpty
<1>10. DeleteInv'
  BY <1>1, <1>7, DeleteCarried
<1>11. ConfigInv'
  BY <1>1, <1>3, <1>7, ConfigCarried
<1>12. StoredInv'
  <2>1. native'.worker[1].left \in SUBSET db[Work.r]
    BY <1>2, <1>5
  <2> QED
    BY <1>1, <1>4, <1>7, <2>1, StoredCarried DEF StoredInv
<1>13. ShowInv'
  <2>1. ~ Lost
    BY <1>1, <1>3 DEF Lost, Replaying
  <2>2. \/ /\ Posted \in SUBSET Posted'
           /\ (Posted \cup Work.left) \in SUBSET (Posted' \cup native'.worker[1].left)
        \/ ~ Work.started /\ calls' = calls /\ native'.worker[1].left = db[Work.r]
    <3>1. ASSUME NEW o \in Work.left, calls' = Append(calls, OpCall(o)),
                 native'.worker[1].left = Work.left \ {o}
          PROVE  Posted' = Posted \cup {o}
      BY <1>5, <3>1, PostedGrows
    <3> QED
      BY <1>2, <3>1
  <2>3. Posted \in SUBSET Posted'
    <3>1. calls' = calls => Posted' = Posted
      BY PostedIs
    <3> QED
      BY <2>2, <3>1
  <2>4. Whole => Whole'
    BY <1>1, <2>3 DEF Whole
  <2>5. page.room # NoRoom /\ Coming => Coming'
    <3> SUFFICES ASSUME Coming PROVE Coming'
      OBVIOUS
    <3>1. /\ page.loading /\ (page.done => page.remote) /\ Work.r = page.room
          /\ Work.started => db[page.room] \in SUBSET (page.board \cup Posted \cup Work.left)
      BY <1>3 DEF Coming
    <3>2. db[page.room] \in SUBSET (page.board \cup Posted' \cup native'.worker[1].left)
      BY <1>2, <2>2, <3>1
    <3> QED
      BY <1>1, <3>1, <3>2 DEF Coming
  <2> QED
    BY <1>1, <1>4, <2>1, <2>4, <2>5 DEF ShowInv
<1> QED
  BY <1>9, <1>10, <1>11, <1>12, <1>13 DEF PatientInv

\* ... the end of a task of the worker, ...
LEMMA TaskKeeps ==
  ASSUME IInv, NEW ok \in BOOLEAN, ReplayEnd \/ DeleteRows(ok)
  PROVE  PatientInv'
<1>1. /\ UNCHANGED <<page, stops>>
      /\ native'.config = native.config /\ native'.running = native.running
      /\ native'.profile = native.profile
      /\ native.worker # << >> /\ native'.worker = << >>
  BY TaskEnds
<1>2. PICK c \in AnswerCall :
        /\ calls' = Append(calls, c)
        /\ \/ c.t = "complete" /\ Work.t = "replay" /\ Ended(Work) /\ db' = db
           \/ /\ c.t = "deleted" /\ c.r = Work.r /\ Work.t = "delete"
              /\ db' \in {db, [db EXCEPT ![Work.r] = {}]}
  BY TaskEnds
<1>3. /\ DOMAIN native.worker = {1} /\ Work = native.worker[1] /\ Work \in TaskType
      /\ Work.r \in Room /\ page.front
      /\ \A i \in DOMAIN calls : calls[i].t \notin Answer
  BY <1>1, OneTask
<1>4. ConfigInv /\ StoredInv /\ ShowInv /\ DeleteInv
  BY DEF IInv, PatientInv
<1>5. NextPosts(c)
  BY <1>2 DEF NextPosts
<1>6. \A i \in DOMAIN calls' : calls'[i] = c \/ \E j \in DOMAIN calls : calls'[i] = calls[j]
  BY <1>5, PostsAre
<1>7. QueueInv'
  BY <1>1, <1>2, <1>3, QueueAnswer
<1>8. Posted' = Posted
  <2>1. OpsIn(Append(calls, c)) = OpsIn(calls)
    BY TypeParts, OpsPosted DEF IInv
  <2> QED
    BY <1>2, <2>1, PostedIs
<1>9. CASE c.t = "complete" /\ Work.t = "replay" /\ Ended(Work) /\ db' = db
  <2>1. DeleteInv'
    BY <1>1, <1>5, <1>9, DeleteCarried
  <2>2. ConfigInv'
    <3>1. \A i \in DOMAIN calls' : calls'[i].t \notin {"code", "configured"}
      BY <1>3, <1>6, <1>9 DEF Answer
    <3>2. page.room = NoRoom \/ ~ page.setup
      BY <1>3, <1>4, <1>9 DEF ConfigInv
    <3> QED
      BY <1>1, <1>4, <3>1, <3>2 DEF ConfigInv
  <2>3. StoredInv'
    BY <1>1, <1>4, <1>5, <1>9, StoredCarried DEF StoredInv
  <2>4. ShowInv'
    <3>1. ~ Lost
      BY <1>3, <1>9 DEF Lost, Replaying
    <3>2. Coming => Whole
      BY <1>3, <1>9 DEF Coming, Whole, Ended
    <3>3. Whole => Whole'
      BY <1>1, <1>8, <1>9 DEF Whole
    <3> QED
      BY <1>1, <1>4, <3>1, <3>2, <3>3 DEF ShowInv
  <2> QED
    BY <1>7, <2>1, <2>2, <2>3, <2>4 DEF PatientInv
<1>10. CASE /\ c.t = "deleted" /\ c.r = Work.r /\ Work.t = "delete"
            /\ db' \in {db, [db EXCEPT ![Work.r] = {}]}
  <2>1. Deleting(Work.r)
    BY <1>3, <1>10 DEF Deleting
  <2>2. /\ Work.r \in Room \ Outdated
        /\ page.busy /\ page.front /\ page.setup /\ native.config # Work.r
        /\ page.room # NoRoom => page.room \in Outdated
        /\ \A i \in DOMAIN calls : calls[i].t = "started" => calls[i].ok
    BY <1>3, <1>4, <2>1 DEF DeleteInv, MaybeRoom
  <2>3. DeleteInv'
    <3>1. ASSUME NEW r \in MaybeRoom, Deleting(r)'
          PROVE  /\ r \in Room \ Outdated
                 /\ page'.busy /\ page'.front /\ page'.setup /\ native'.config # r
                 /\ page'.room # NoRoom => page'.room \in Outdated
                 /\ \A i \in DOMAIN calls' : calls'[i].t = "started" => calls'[i].ok
      <4>1. r = Work.r
        BY <1>1, <1>3, <1>6, <1>10, <3>1 DEF Deleting, Answer
      <4> QED
        BY <1>1, <1>6, <1>10, <2>2, <4>1
    <3>2. StartsFirst(calls')
      <4>1. calls \in Seq(AnswerCall \cup PostedCall) /\ c \in AnswerCall \cup PostedCall
        BY TypeParts DEF IInv
      <4> QED
        BY <1>2, <1>4, <1>10, <4>1, StartsAppended DEF DeleteInv
    <3>3. Pending("started")' => page'.busy /\ page'.front
      BY <1>1, <2>2
    <3> QED
      BY <3>1, <3>2, <3>3 DEF DeleteInv
  <2>4. ConfigInv'
    BY <1>1, <1>2, <1>5, <1>10, ConfigCarried
  <2>5. StoredInv'
    <3>1. /\ db' \in [Room -> SUBSET Operation]
          /\ \A r \in Room : db'[r] = db[r] \/ (db'[r] = {} /\ r = Work.r)
      BY <1>3, <1>10, TypeParts DEF IInv
    <3>2. page.room # Work.r
      BY <1>3, <2>2, BoardAssumption
    <3>3. page'.room # NoRoom => page'.board \in SUBSET db'[page'.room]
      <4>1. page.room # NoRoom => page.room \in Room
        BY TypeParts DEF IInv, MaybeRoom
      <4> QED
        BY <1>1, <1>4, <3>1, <3>2, <4>1 DEF StoredInv
    <3>4. Numbered(db')
      BY <1>4, <3>1 DEF StoredInv, Numbered
    <3>5. \A r \in Outdated : db'[r] = {} /\ native'.profile[r] = NoRoom
      BY <1>1, <1>4, <2>2, <3>1, BoardAssumption DEF StoredInv
    <3>6. PostsStored(calls', db')
      <4> DEFINE d == db
                 e == db'
      <4>1. calls \in Seq(AnswerCall \cup PostedCall) /\ c \in AnswerCall \cup PostedCall
            /\ PostsStored(calls, d)
        BY <1>4, TypeParts DEF IInv, StoredInv
      <4>2. \A i \in DOMAIN calls : calls[i].t = "op" =>
              d[calls[i].r] \in SUBSET e[calls[i].r] \/ (c.t = "deleted" /\ c.r = calls[i].r)
        BY <1>10, <3>1, <4>1, PostKinds
      <4> HIDE DEF d, e
      <4>3. PostsStored(Append(calls, c), e)
        BY <1>10, <4>1, <4>2, StoredAppended
      <4> QED
        BY <1>2, <4>3 DEF e
    <3> QED
      BY <1>1, <1>4, <3>3, <3>4, <3>5, <3>6 DEF StoredInv
  <2>6. ShowInv'
    BY <1>1, <1>4, <2>2 DEF ShowInv
  <2> QED
    BY <1>7, <2>3, <2>4, <2>5, <2>6 DEF PatientInv
<1> QED
  BY <1>2, <1>9, <1>10

\* ... the operation of another phone, ...
LEMMA NearbyKeeps ==
  ASSUME IInv, NEW nm \in Name \union {Drawing}, Nearby(nm)
  PROVE  PatientInv'
<1>1. PICK o \in Operation :
        /\ native.config \in Room
        /\ o.r = native.config /\ o.n = NextNumber(native.config)
        /\ db' = [db EXCEPT ![native.config] = @ \union {o}]
        /\ calls' = Append(calls, OpCall(o))
        /\ UNCHANGED <<page, native, stops>>
  BY Arrived DEF IInv
<1>2. OpCall(o) \in PostedCall /\ OpCall(o).t = "op"
  BY PostKinds DEF OpCall
<1>3. NextPosts(OpCall(o))
  BY <1>1, <1>2 DEF NextPosts
<1>4. ~ Deleting(native.config)
  BY <1>1 DEF IInv, PatientInv, DeleteInv, MaybeRoom
<1>5. QueueInv'
  BY <1>1, <1>2, QueueNotice DEF Answer
<1>6. DeleteInv'
  BY <1>1, <1>2, <1>3, DeleteCarried
<1>7. ConfigInv'
  <2>1. OpCall(o) \in AnswerCall \cup PostedCall
    BY <1>2
  <2> QED
    BY <1>1, <1>2, <1>3, <2>1, ConfigCarried
<1>8. StoredInv'
  BY <1>1, <1>4, StoredGrown
<1>9. ShowInv'
  <2>1. Posted' = Posted \cup {o}
    BY <1>1, PostedGrows
  <2>2. page.room # NoRoom => db'[page.room] \in SUBSET (db[page.room] \cup {o})
    BY <1>1, TypeParts DEF IInv, MaybeRoom
  <2>3. Pending("complete")' => Pending("complete")
    BY <1>2, <1>3, PostsAre DEF Pending
  <2> QED
    BY <1>1, <2>1, <2>2, <2>3, ShowCarried
<1> QED
  BY <1>5, <1>6, <1>7, <1>8, <1>9 DEF PatientInv

\* ... a late rejection, ...
LEMMA RejectKeeps ==
  ASSUME IInv, Rejected
  PROVE  PatientInv'
<1>1. /\ native.config \in Unadmitted /\ UNCHANGED <<page, db, stops>> /\ native \in NativeType
      /\ native.config \in Room /\ calls \in Seq(AnswerCall \cup PostedCall)
  BY TypeParts, BoardAssumption DEF Rejected, IInv
<1>2. /\ native'.config = NoRoom /\ native'.worker = native.worker
      /\ native'.running = native.running /\ native'.profile = native.profile
  BY <1>1 DEF Rejected, Closed, NativeType
<1>3. PICK c \in AnswerCall : c.t = "rejected" /\ calls' = Append(calls, c)
  <2> DEFINE c == Call("rejected", native.config, DefaultName, TRUE)
  <2>1. c \in AnswerCall /\ c.t = "rejected"
    BY <1>1, AnswerTypes DEF MaybeRoom, AnyName
  <2> QED
    BY <2>1 DEF Rejected
<1>4. NextPosts(c) /\ c \in AnswerCall \cup PostedCall
  BY <1>3 DEF NextPosts
<1>5. \A i \in DOMAIN calls' : calls'[i] = c \/ \E j \in DOMAIN calls : calls'[i] = calls[j]
  BY <1>4, PostsAre
<1>6. QueueInv'
  BY <1>1, <1>2, <1>3, <1>4, QueueNotice DEF Answer
<1>7. DeleteInv'
  BY <1>1, <1>2, <1>3, <1>4, DeleteCarried
<1>8. ConfigInv'
  <2>1. ConfigInv
    BY DEF IInv, PatientInv
  <2>2. \A i \in DOMAIN calls' : calls'[i].t # "code"
    BY <1>1, <1>3, <1>5, <2>1 DEF ConfigInv, Direct
  <2>3. Pending("configured") => Pending("configured")'
    BY <1>1, <1>3, <1>4, EarlierPosts DEF Pending
  <2>4. Pending("complete")' => Pending("complete")
    BY <1>3, <1>5 DEF Pending
  <2>5. \A i \in DOMAIN calls' : calls'[i].t = "configured" =>
          \E j \in DOMAIN calls : calls'[i] = calls[j]
    BY <1>3, <1>5
  <2>6. \A i \in DOMAIN calls' :
          /\ calls'[i].t = "configured" /\ calls'[i].ok =>
               page'.room \in {NoRoom, calls'[i].r} /\ page'.kind \notin {"create", "join"}
          /\ calls'[i].t = "configured" /\ ~ calls'[i].ok => page'.room \in Outdated \cup {NoRoom}
    BY <1>1, <2>1, <2>5 DEF ConfigInv
  <2> QED
    BY <1>1, <1>2, <2>1, <2>2, <2>3, <2>4, <2>6, BoardAssumption DEF ConfigInv
<1>9. StoredInv'
  BY <1>1, <1>2, <1>3, <1>4, StoredCarried DEF IInv, PatientInv, StoredInv
<1>10. ShowInv'
  <2>1. Posted' = Posted
    BY <1>1, <1>3, OpsPosted, PostedIs
  <2>2. Pending("complete")' => Pending("complete")
    BY <1>3, <1>5 DEF Pending
  <2> QED
    BY <1>1, <1>2, <2>1, <2>2, ShowCarried
<1> QED
  BY <1>6, <1>7, <1>8, <1>9, <1>10 DEF PatientInv

\* ... Bluetooth off and on, which loses the task that waits, ...
LEMMA BluetoothKeeps ==
  ASSUME IInv, BluetoothOff \/ BluetoothOn
  PROVE  PatientInv'
<1>1. /\ UNCHANGED <<page, calls, db>> /\ native \in NativeType
      /\ native.worker \in Seq(TaskType) /\ stops \in Nat
      /\ StoredInv /\ ShowInv
  BY TypeParts, BoundAssumption DEF BluetoothOff, BluetoothOn, IInv, PatientInv
<1>2. NextPosts(Nothing) /\ Nothing.t = "nothing"
  BY <1>1, PostsNothing
<1>3. /\ native'.config = native.config /\ native'.profile = native.profile
      /\ Len(native'.worker) <= Len(native.worker)
      /\ \A i \in DOMAIN native'.worker : \E j \in DOMAIN native.worker :
           native'.worker[i] = native.worker[j]
      /\ \/ stops' # 0
         \/ stops' = stops /\ native'.worker = native.worker /\ native'.running
  <2>1. CASE BluetoothOff
    <3> DEFINE q == native.worker
               S == TaskType
               keep == {i \in DOMAIN q : q[i].started}
               kept == Pick(q, keep)
    <3>1. q \in Seq(S) /\ keep \in SUBSET DOMAIN q
      BY <1>1
    <3>2. native' = [native EXCEPT !.running = FALSE, !.worker = kept] /\ stops' = stops + 1
      BY <2>1 DEF BluetoothOff
    <3> HIDE DEF keep, q, S
    <3>3. /\ kept \in Seq(S) /\ Len(kept) <= Len(q)
          /\ \A i \in DOMAIN kept : \E j \in DOMAIN q : kept[i] = q[j]
      <4>1. IsFiniteSet(DOMAIN q) /\ Cardinality(DOMAIN q) = Len(q)
        <5> DEFINE n == Len(q)
        <5>1. DOMAIN q = 1 .. n /\ n \in Nat
          BY <3>1
        <5> HIDE DEF n
        <5>2. IsFiniteSet(1 .. n) /\ Cardinality(1 .. n) = IF 1 > n THEN 0 ELSE n - 1 + 1
          BY <5>1, FS_Interval
        <5>3. (IF 1 > n THEN 0 ELSE n - 1 + 1) = n
          BY <5>1
        <5>4. IsFiniteSet(DOMAIN q) /\ Cardinality(DOMAIN q) = n
          BY <5>1, <5>2, <5>3
        <5> QED
          BY <5>4 DEF n
      <4>2. Cardinality(keep) <= Len(q)
        BY <3>1, <4>1, FS_Subset
      <4> QED
        BY <3>1, <4>2, Picked
    <3> HIDE DEF kept
    <3>4. native'.worker = kept /\ native'.config = native.config /\ native'.profile = native.profile
      BY <1>1, <3>2 DEF NativeType
    <3>5. stops' # 0
      BY <1>1, <3>2
    <3> QED
      BY <3>3, <3>4, <3>5 DEF q
  <2>2. CASE BluetoothOn
    <3>1. native' = [native EXCEPT !.running = TRUE] /\ stops' = stops
      BY <2>2 DEF BluetoothOn
    <3>2. Len(native.worker) <= Len(native.worker)
      BY <1>1
    <3> QED
      BY <1>1, <3>1, <3>2 DEF NativeType
  <2> QED
    BY <2>1, <2>2
<1>4. QueueInv'
  <2>1. QueueInv /\ Len(native.worker) \in Nat /\ native'.worker \in Seq(TaskType)
    BY <1>1, TypesKept DEF IInv, PatientInv, Next, BluetoothOff, TypeInv, NativeType
  <2> QED
    BY <1>1, <1>3, <2>1 DEF QueueInv
<1>5. DeleteInv'
  BY <1>1, <1>2, <1>3, DeleteCarried
<1>6. ConfigInv'
  BY <1>1, <1>2, <1>3, ConfigCarried
<1>7. StoredInv'
  BY <1>1, <1>2, <1>3, StoredCarried DEF StoredInv
<1>8. ShowInv'
  <2>1. CASE stops' # 0
    BY <1>1, <2>1 DEF ShowInv
  <2>2. CASE stops' = stops /\ native'.worker = native.worker /\ native'.running
    <3>1. Posted' = Posted
      BY <1>1, PostedIs
    <3>2. Whole => Whole'
      BY <1>1, <3>1 DEF Whole
    <3>3. Coming => Coming'
      BY <1>1, <2>2, <3>1 DEF Coming
    <3>4. Lost => Lost'
      BY <1>1, <2>2 DEF Lost, Pending, Replaying
    <3> QED
      BY <1>1, <2>2, <3>2, <3>3, <3>4 DEF ShowInv
  <2> QED
    BY <1>3, <2>1, <2>2
<1> QED
  BY <1>4, <1>5, <1>6, <1>7, <1>8 DEF PatientInv

\* ... and the end of the app.
LEMMA RestartKeeps ==
  ASSUME IInv, Restart
  PROVE  PatientInv'
<1>1. /\ calls' = << >> /\ UNCHANGED <<db, stops>> /\ native \in NativeType
      /\ native' = [native EXCEPT !.worker = << >>]
  BY TypeParts DEF Restart, IInv
<1>2. PICK saved \in {{}, page.board} :
        page' = [Idle EXCEPT !.room = page.room, !.name = page.name, !.board = saved]
  BY DEF Restart
<1>3. /\ page'.room = page.room /\ page'.board = saved /\ page'.setup /\ ~ page'.front
      /\ page'.resume = NoRoom /\ ~ page'.timer
  BY <1>2 DEF Idle
<1>4. /\ native'.config = native.config /\ native'.profile = native.profile
      /\ native'.running = native.running /\ native'.worker = << >>
  BY <1>1 DEF NativeType
<1>5. DOMAIN calls' = {} /\ ~ Pending("complete")' /\ Len(native'.worker) <= 1
  BY <1>1, <1>4 DEF Pending
<1>6. QueueInv'
  BY <1>4, <1>5, QueueEmpty
<1>7. DeleteInv'
  BY <1>4, <1>5, DeleteOver DEF Pending, StartsFirst
<1>8. ConfigInv'
  BY <1>3, <1>4, <1>5 DEF IInv, PatientInv, ConfigInv
<1>9. StoredInv'
  BY <1>1, <1>3, <1>4, <1>5 DEF IInv, PatientInv, StoredInv, PostsStored
<1>10. ShowInv'
  BY <1>1, <1>3, <1>4 DEF IInv, PatientInv, ShowInv
<1> QED
  BY <1>6, <1>7, <1>8, <1>9, <1>10 DEF PatientInv

-----------------------------------------------------------------------------
(* A patient user is shown whole boards *)

\* At first no board is open and nothing is on its way.
LEMMA InitPatient == Init => PatientInv
<1> SUFFICES ASSUME Init PROVE PatientInv
  OBVIOUS
<1>1. /\ page = Idle /\ calls = << >> /\ db = [r \in Room |-> {}]
      /\ native = [config |-> NoRoom,
                   profile |-> [r \in Room |-> IF r \in Unadmitted THEN DefaultName ELSE NoRoom],
                   running |-> TRUE, worker |-> << >>]
  BY DEF Init
<1>2. /\ page.room = NoRoom /\ page.board = {} /\ ~ page.timer /\ page.setup
  BY <1>1 DEF Idle
<1>3. /\ native.config = NoRoom /\ native.worker = << >> /\ native.running
      /\ \A r \in Room : r \notin Unadmitted => native.profile[r] = NoRoom
  BY <1>1
<1>4. DOMAIN calls = {} /\ DOMAIN native.worker = {} /\ Len(native.worker) = 0
  BY <1>1, <1>3
<1>5. NoRoom \notin Outdated /\ \A r \in Outdated : r \in Room /\ r \notin Unadmitted
  BY BoardAssumption
<1>6. QueueInv
  BY <1>3, <1>4 DEF QueueInv
<1>7. DeleteInv
  BY <1>4 DEF DeleteInv, Deleting, Pending, StartsFirst
<1>8. ConfigInv
  BY <1>2, <1>3, <1>4, <1>5 DEF ConfigInv, Pending
<1>9. StoredInv
  BY <1>1, <1>2, <1>3, <1>4, <1>5 DEF StoredInv, Numbered, PostsStored
<1>10. ShowInv
  BY <1>2, <1>3 DEF ShowInv
<1> QED
  BY <1>6, <1>7, <1>8, <1>9, <1>10 DEF PatientInv

\* No step of a patient user, of the page, of its worker or of another phone
\* breaks the invariant.
LEMMA PatientKept ==
  ASSUME Hurried = FALSE, IInv, [Next]_vars
  PROVE  IInv'
<1>1. TypeInv'
  BY TypesKept DEF IInv
<1>2. CASE UNCHANGED vars
  <2>1. PatientInv'
    BY <1>2 DEF IInv, PatientInv, QueueInv, DeleteInv, ConfigInv, StoredInv, ShowInv, vars,
      Deleting, Pending, StartsFirst, Numbered, PostsStored, Whole, Coming, Lost, Posted, Replaying
  <2> QED
    BY <1>1, <2>1 DEF IInv
<1>3. CASE Tap
  <2> SUFFICES PatientInv'
    BY <1>1 DEF IInv
  <2>1. CASE \E r \in Direct : Join(r) \/ \E nm \in Name : Create(r, nm)
    BY <2>1, CodeKeeps
  <2>2. CASE Resume \/ \E r \in Room : OpenSaved(r)
    BY <2>2, BoardKeeps
  <2>3. CASE Close \/ OpenExpired
    BY <2>3, LeftKeeps
  <2>4. CASE OpenSetup \/ Leave \/ CancelDelete \/ \E r \in Room : RequestDelete(r)
    BY <2>4, TurnedKeeps
  <2>5. CASE \E right \in BOOLEAN : ConfirmDelete(right)
    BY <2>5, ConfirmKeeps
  <2>6. CASE Draw
    BY <2>6, DrawKeeps
  <2> QED
    BY <1>3, <2>1, <2>2, <2>3, <2>4, <2>5, <2>6 DEF Tap
<1>4. CASE HandlePost
  <2>1. PatientInv'
    BY <1>4, LoadKeeps, ReceiveKeeps, CompleteKeeps, NoticeKeeps DEF HandlePost
  <2> QED
    BY <1>1, <2>1 DEF IInv
<1>5. CASE WorkerStep
  <2>1. PatientInv'
    BY <1>5, ReplayKeeps, TaskKeeps DEF WorkerStep
  <2> QED
    BY <1>1, <2>1 DEF IInv
<1>6. CASE \/ ReplayTimer \/ ResumeExpires \/ Rejected \/ BluetoothOff \/ BluetoothOn \/ Restart
           \/ \E nm \in Name \union {Drawing} : Nearby(nm)
  <2>1. PatientInv'
    BY <1>6, TimerKeeps, TurnedKeeps, RejectKeeps, BluetoothKeeps, RestartKeeps, NearbyKeeps
  <2> QED
    BY <1>1, <2>1 DEF IInv
<1> QED
  BY <1>2, <1>3, <1>4, <1>5, <1>6 DEF Next

\* The invariant of a patient user: what the page and the native part wait for,
\* and where the operations of the open board are.
THEOREM Patience ==
  ASSUME Hurried = FALSE
  PROVE  Spec => []IInv
<1>1. Init => IInv
  BY InitTypes, InitPatient DEF IInv
<1>2. IInv /\ [Next]_vars => IInv'
  BY PatientKept
<1> QED
  BY <1>1, <1>2, PTL DEF Spec

\* What is on its way for a board that is shown is stored for it: a board that
\* is deleted is not on the screen.
LEMMA ShownIsStored ==
  ASSUME IInv, Shown # NoRoom
  PROVE  /\ page.board \subseteq db[Shown]
         /\ \A o \in Posted : o.r = Shown => o \in db[Shown]
<1>1. /\ page.front /\ ~ page.setup /\ ~ page.loading /\ Shown = page.room
      /\ page.room # NoRoom /\ page.room \in Room
  BY TypeParts DEF Shown, IInv, MaybeRoom
<1>2. page.board \subseteq db[Shown]
  BY <1>1 DEF IInv, PatientInv, StoredInv
<1>3. ASSUME NEW o \in Posted, o.r = Shown PROVE o \in db[Shown]
  <2>1. PICK i \in DOMAIN calls : calls[i].t = "op" /\ calls[i].op = o
    BY DEF Posted
  <2>2. calls[i].r = o.r
    BY <2>1, TypeParts, PostKinds DEF IInv
  <2>3. ~ \E j \in DOMAIN calls : calls[j].t = "deleted" /\ calls[j].r = Shown
    BY <1>1 DEF IInv, PatientInv, DeleteInv, Deleting, MaybeRoom
  <2> QED
    BY <1>3, <2>1, <2>2, <2>3 DEF IInv, PatientInv, StoredInv, PostsStored
<1> QED
  BY <1>2, <1>3

\* A board that is shown is complete (cb_finish_board_replay,
\* replayBoardOperations), as long as Bluetooth stays on: every operation stored
\* for it is on the page or posted, and nothing else is.
THEOREM ShownWhole ==
  ASSUME Hurried = FALSE
  PROVE  Spec => []ShowsStored
<1>1. IInv => ShowsStored
  <2> SUFFICES ASSUME IInv, Shown # NoRoom, stops = 0
               PROVE  page.board \union {o \in Posted : o.r = Shown} = db[Shown]
    BY DEF ShowsStored
  <2>1. /\ ~ page.setup /\ ~ page.loading /\ Shown = page.room /\ page.room # NoRoom
        /\ page.room \in Room
    BY TypeParts DEF Shown, IInv, MaybeRoom
  <2>2. Whole
    BY <2>1 DEF IInv, PatientInv, ShowInv, Coming, Lost
  <2>3. \A o \in db[Shown] : o.r = Shown
    BY <2>1, TypeParts DEF IInv, TypeInv
  <2> QED
    BY <2>1, <2>2, <2>3, ShownIsStored DEF Whole
<1> QED
  BY <1>1, Patience, PTL

-----------------------------------------------------------------------------
(* The page implements BoardSession *)

\* What tells whether a board is shown.
Screen(p) == <<p.front, p.setup, p.loading, p.room>>

LEMMA SameScreen ==
  ASSUME Screen(page') = Screen(page)
  PROVE  Shown' = Shown
BY DEF Screen, Shown

\* While nothing is stored or erased, a board may appear, go away or show more.
LEMMA Looks ==
  ASSUME IInv', UNCHANGED db,
         Shown # NoRoom /\ Shown' # NoRoom => Shown' = Shown /\ page.board \subseteq page'.board
  PROVE  Session!Next
<1>1. Shown' # NoRoom => Shown' = page'.room /\ page'.room # NoRoom /\ page'.room \in Room
  <2>1. page'.room \in MaybeRoom
    BY DEF IInv, TypeInv, PageType
  <2> QED
    BY <2>1 DEF Shown, MaybeRoom
<1>2. Shown' # NoRoom => page'.board \subseteq db[Shown']
  BY <1>1 DEF IInv, PatientInv, StoredInv
<1>3. CASE Shown' = NoRoom
  BY <1>3 DEF Session!Next, Session!Hide
<1>4. CASE Shown' # NoRoom /\ Shown = NoRoom
  <2>1. Session!Show(Shown')
    BY <1>2, <1>4 DEF Session!Show
  <2> QED
    BY <1>1, <1>4, <2>1 DEF Session!Next
<1>5. CASE Shown' # NoRoom /\ Shown # NoRoom
  <2>1. Session!See
    BY <1>2, <1>5 DEF Session!See
  <2> QED
    BY <2>1 DEF Session!Next
<1> QED
  BY <1>3, <1>4, <1>5

\* An operation that is stored without being shown yet.
LEMMA Learns ==
  ASSUME IInv, NEW r \in Room, NEW o, db' = [db EXCEPT ![r] = @ \union {o}],
         Shown' = Shown, Shown # NoRoom => page'.board = page.board
  PROVE  Session!Next
<1>1. db \in [Room -> SUBSET Operation]
  BY TypeParts DEF IInv
<1>2. db'[r] = db[r] \cup {o} /\ db' = [db EXCEPT ![r] = db'[r]]
  BY <1>1
<1>3. Session!Learn(r)
  BY <1>2 DEF Session!Learn
<1> QED
  BY <1>3 DEF Session!Next

\* An operation that the page writes for the board that is shown.
LEMMA Draws ==
  ASSUME IInv, Shown # NoRoom, Shown' = Shown, NEW o \in Operation,
         o.n = NextNumber(Shown), ~ Deleting(Shown),
         db' = [db EXCEPT ![Shown] = @ \union {o}], page'.board = page.board \cup {o}
  PROVE  Session!Next
<1>1. Shown = page.room /\ page.room \in Room
  BY TypeParts DEF Shown, IInv, MaybeRoom
<1>2. o \notin db[Shown] /\ page.board \subseteq db[Shown]
  BY <1>1, FreshNumber DEF IInv, PatientInv, StoredInv
<1>3. page'.board \ page.board = {o}
  BY <1>2
<1>4. Session!Draw
  BY <1>3 DEF Session!Draw
<1> QED
  BY <1>4 DEF Session!Next

\* A board that is shown is not being deleted.
LEMMA ShownStays ==
  ASSUME IInv, Shown # NoRoom
  PROVE  ~ Deleting(Shown) /\ Shown \in Room /\ Shown = page.room
<1>1. ~ page.setup /\ Shown = page.room /\ page.room \in Room
  BY TypeParts DEF Shown, IInv, MaybeRoom
<1> QED
  BY <1>1 DEF IInv, PatientInv, DeleteInv, MaybeRoom

\* The taps of the user, except drawing.
LEMMA TapLooks ==
  ASSUME IInv, IInv', Tap, ~ Draw
  PROVE  Session!Next
<1> USE TypeParts DEF IInv
<1>1. CASE page.setup \/ page'.setup \/ ~ page.front \/ ~ page'.front
  <2>1. UNCHANGED db
    BY DEF Tap, Create, Join, OpenSaved, RequestDelete, ConfirmDelete, Resume, Close, Leave,
      OpenSetup, OpenExpired, CancelDelete
  <2>2. Shown = NoRoom \/ Shown' = NoRoom
    BY <1>1 DEF Shown
  <2> QED
    BY <2>1, <2>2, Looks
<1>2. ASSUME ~ page.setup, page.front
      PROVE  page'.setup \/ ~ page'.front
  <2>1. Close \/ Leave
    BY <1>2 DEF Tap, Create, Join, OpenSaved, RequestDelete, ConfirmDelete, InSetup, Resume,
      OpenSetup, OpenExpired, CancelDelete
  <2>2. CASE Leave
    BY <2>2 DEF Leave, PageType
  <2>3. CASE Close
    <3>1. WithoutRoom(StopReplay(page)) \in PageType
      BY ReplayType
    <3> QED
      BY <2>3, <3>1 DEF Close, PageType
  <2> QED
    BY <2>1, <2>2, <2>3
<1> QED
  BY <1>1, <1>2

\* The posts that the page handles, except the end of a replay.
LEMMA PostLooks ==
  ASSUME IInv, IInv', HandlePost, ~ ReplayComplete
  PROVE  Session!Next
<1>1. CASE Configured \/ CodeOpened
  <2>1. UNCHANGED db /\ (page'.loading \/ page'.setup)
    BY <1>1, Loads
  <2> QED
    BY <2>1, Looks DEF Shown
<1>2. CASE Receive
  <2>1. /\ UNCHANGED db /\ page'.room = page.room /\ page'.front = page.front
        /\ page'.setup = page.setup /\ page.board \subseteq page'.board
        /\ (page'.loading = page.loading \/ page'.loading)
    BY <1>2, Receives
  <2>2. Shown' = NoRoom \/ Shown' = Shown
    BY <2>1 DEF Shown
  <2> QED
    BY <2>1, <2>2, Looks
<1>3. CASE DeleteStarted \/ Deleted \/ AccessRejected
  <2>1. /\ UNCHANGED db
        /\ page'.setup \/ (Screen(page') = Screen(page) /\ page'.board = page.board)
    BY <1>3, Notices DEF Screen, Progress
  <2>2. Shown' = NoRoom \/ (Shown' = Shown /\ page'.board = page.board)
    BY <2>1, SameScreen DEF Shown
  <2> QED
    BY <2>1, <2>2, Looks
<1> QED
  BY <1>1, <1>2, <1>3 DEF HandlePost

\* cb_write_board_event of a drawing.
LEMMA DrawDraws ==
  ASSUME IInv, Draw
  PROVE  Session!Next
<1>1. /\ page.front /\ ~ page.setup /\ ~ page.loading
      /\ native.config = page.room /\ page.room \in Room
  BY Drawn
<1>2. Shown = page.room /\ Shown # NoRoom
  BY <1>1, BoardAssumption DEF Shown
<1>3. PICK o \in Operation :
        /\ o.n = NextNumber(native.config)
        /\ db' = [db EXCEPT ![native.config] = @ \union {o}]
        /\ page'.front = page.front /\ page'.setup = page.setup /\ page'.room = page.room
        /\ page'.loading = page.loading
        /\ page'.board = page.board \cup {o}
  BY Drawn
<1>4. Shown' = Shown
  BY <1>3 DEF Shown
<1> QED
  BY <1>1, <1>2, <1>3, <1>4, ShownStays, Draws

\* cb_board_replay_complete: a name is published on the board that is shown, or
\* behind the overlay.
LEMMA CompleteDraws ==
  ASSUME IInv, IInv', ReplayComplete
  PROVE  Session!Next
<1>1. page \in PageType /\ page.name \in AnyName /\ TypeInv /\ calls # << >>
  BY TypeParts DEF ReplayComplete, Handles, IInv
<1>2. CASE page.room = NoRoom /\ calls' = Rest /\ UNCHANGED <<page, db>>
  <2>1. Shown' = Shown
    BY <1>2 DEF Shown
  <2> QED
    BY <1>2, <2>1, Looks
<1>3. CASE /\ page.room \in Room /\ calls' = Rest /\ UNCHANGED db
           /\ page' \in {Completed(page), WithSyncedName(Completed(page))}
  <2>1. Screen(page') = Screen(page) /\ page'.board = page.board
    BY <1>1, <1>3, HelperFields DEF Screen
  <2> QED
    BY <1>3, <2>1, SameScreen, Looks
<1>4. CASE /\ page.room \in Room /\ native.config = page.room /\ HasSpace
           /\ Write(Completed(page), Rest, page.name)
  <2> DEFINE p == Completed(page)
  <2>1. p \in PageType /\ Screen(p) = Screen(page) /\ p.board = page.board /\ p.room = page.room
    BY <1>1, HelperFields, ReplayType DEF Screen
  <2>2. Rest \in Seq(AnswerCall \cup PostedCall)
    BY <1>1, Handling
  <2> HIDE DEF p
  <2>3. Write(p, Rest, page.name)
    BY <1>4 DEF p
  <2>4. PICK o \in Operation :
          /\ o.n = NextNumber(page.room)
          /\ db' = [db EXCEPT ![page.room] = @ \union {o}]
          /\ Screen(page') = Screen(p)
          /\ page'.board = p.board \cup {o}
    BY <1>1, <1>4, <2>1, <2>2, <2>3, Written DEF Screen
  <2>5. Shown' = Shown
    BY <2>1, <2>4, SameScreen
  <2>6. CASE Shown # NoRoom
    BY <2>1, <2>4, <2>5, <2>6, ShownStays, Draws
  <2>7. CASE Shown = NoRoom
    BY <1>4, <2>4, <2>5, <2>7, Learns
  <2> QED
    BY <2>6, <2>7
<1> QED
  BY <1>2, <1>3, <1>4, CompletePublishes

\* The worker erases only a board that is not shown, and replays none.
LEMMA WorkerErases ==
  ASSUME IInv, IInv', WorkerStep
  PROVE  Session!Next
<1>1. Shown' = Shown /\ page' = page
  BY DEF WorkerStep, ReplayStart, ReplayRow, ReplayEnd, DeleteRows, Shown
<1>2. CASE UNCHANGED db
  BY <1>1, <1>2, Looks
<1>3. CASE DeleteRows(TRUE)
  <2>1. Work.t = "delete" /\ Work.r \in Room /\ Shown # Work.r
    <3>1. native.worker # << >> /\ Head(native.worker).t = "delete"
      BY <1>3 DEF DeleteRows, Busy
    <3>2. 1 \in DOMAIN native.worker /\ Work = native.worker[1] /\ Work.r \in Room
      BY <3>1, OneTask DEF Work
    <3>3. Deleting(Work.r)
      BY <3>1, <3>2 DEF Deleting, Work
    <3>4. Work.r # NoRoom
      BY <3>2, BoardAssumption
    <3> QED
      BY <3>1, <3>2, <3>3, <3>4, ShownStays DEF Work
  <2>2. Session!Erase(Work.r)
    BY <1>1, <1>3, <2>1 DEF DeleteRows, Session!Erase
  <2> QED
    BY <2>1, <2>2 DEF Session!Next
<1>4. UNCHANGED db \/ DeleteRows(TRUE)
  BY DEF WorkerStep, ReplayStart, ReplayRow, ReplayEnd, DeleteRows
<1> QED
  BY <1>2, <1>3, <1>4

\* The page's timers, the other phones, Bluetooth, and the app that starts again.
LEMMA OthersLearn ==
  ASSUME IInv, IInv',
         \/ ReplayTimer \/ ResumeExpires \/ Rejected \/ BluetoothOff \/ BluetoothOn \/ Restart
         \/ \E nm \in Name \union {Drawing} : Nearby(nm)
  PROVE  Session!Next
<1> USE TypeParts DEF IInv
<1>1. CASE ReplayTimer
  <2>1. UNCHANGED db /\ page'.room = page.room /\ page'.board = page.board
    BY <1>1, TimerEnds
  <2>2. Shown # NoRoom => Shown = page.room
    BY DEF Shown
  <2>3. Shown' # NoRoom => Shown' = page'.room
    BY DEF Shown
  <2> QED
    BY <2>1, <2>2, <2>3, Looks
<1>2. CASE ResumeExpires
  <2>1. UNCHANGED db /\ Screen(page') = Screen(page) /\ page'.board = page.board
    BY <1>2 DEF ResumeExpires, Screen, PageType
  <2> QED
    BY <2>1, SameScreen, Looks
<1>3. CASE Rejected \/ BluetoothOff \/ BluetoothOn
  <2>1. UNCHANGED <<page, db>>
    BY <1>3 DEF Rejected, BluetoothOff, BluetoothOn
  <2>2. Shown' = Shown
    BY <2>1 DEF Shown
  <2> QED
    BY <2>1, <2>2, Looks
<1>4. CASE Restart
  <2>1. UNCHANGED db /\ page'.setup
    BY <1>4 DEF Restart, Idle
  <2>2. Shown' = NoRoom
    BY <2>1 DEF Shown
  <2> QED
    BY <2>1, <2>2, Looks
<1>5. CASE \E nm \in Name \union {Drawing} : Nearby(nm)
  <2>1. PICK nm \in Name \union {Drawing} : Nearby(nm)
    BY <1>5
  <2>2. PICK o \in Operation :
          /\ native.config \in Room
          /\ db' = [db EXCEPT ![native.config] = @ \union {o}]
          /\ UNCHANGED page
    BY <2>1, Arrived
  <2>3. Shown' = Shown
    BY <2>2 DEF Shown
  <2> QED
    BY <2>2, <2>3, Learns
<1> QED
  BY <1>1, <1>2, <1>3, <1>4, <1>5

\* For a patient user the page keeps every promise of BoardSession: a board is
\* shown whole or not at all, what is shown was stored for this board, what he
\* draws is stored for the board he draws on, and only a board that he does not
\* look at is erased.
THEOREM KeepsPromise ==
  ASSUME Hurried = FALSE
  PROVE  Spec => SessionPromise
<1>1. Init => Session!Init
  <2> SUFFICES ASSUME Init PROVE Session!Init
    OBVIOUS
  <2>1. db = [r \in Room |-> {}] /\ page = Idle
    BY DEF Init
  <2>2. Shown = NoRoom
    BY <2>1 DEF Idle, Shown
  <2> QED
    BY <2>1, <2>2 DEF Session!Init
<1>2. IInv /\ IInv' /\ [Next]_vars => [Session!Next]_(Session!vars)
  <2> SUFFICES ASSUME IInv, IInv', [Next]_vars
               PROVE  Session!Next \/ UNCHANGED Session!vars
    OBVIOUS
  <2>1. CASE UNCHANGED vars
    BY <2>1 DEF vars, Session!vars, Shown
  <2>2. CASE Tap
    BY <2>2, TapLooks, DrawDraws
  <2>3. CASE HandlePost
    BY <2>3, PostLooks, CompleteDraws
  <2>4. CASE WorkerStep
    BY <2>4, WorkerErases
  <2>5. CASE \/ ReplayTimer \/ ResumeExpires \/ Rejected \/ BluetoothOff \/ BluetoothOn \/ Restart
             \/ \E nm \in Name \union {Drawing} : Nearby(nm)
    BY <2>5, OthersLearn
  <2> QED
    BY <2>1, <2>2, <2>3, <2>4, <2>5 DEF Next
<1> QED
  BY <1>1, <1>2, Patience, PTL DEF Spec, SessionPromise, Session!Spec
=============================================================================
