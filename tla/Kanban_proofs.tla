--------------------------- MODULE Kanban_proofs ---------------------------
(***************************************************************************)
(* The timeline of scuttlesort.js is the same on every phone that has the  *)
(* same operations, in whatever order they arrived (Timeline.tla), and so  *)
(* are the lists and cards of a Kanban board (Kanban.tla).                 *)
(*                                                                         *)
(* The first half follows an arrival through the loops of ScuttleSort.tla: *)
(* a jump and a rise move one node over some others; the wave restores the *)
(* ranks along the links; rising everything it visited, the latest first,  *)
(* is an insertion sort of what it put out of order.  The loops are        *)
(* recursive functions; what they preserve is shown by taking the first    *)
(* round that would break it.                                              *)
(*                                                                         *)
(* The second half says what a list or a card shows in terms of the        *)
(* operations about it alone: the last one that overwrites it.  That holds *)
(* after one operation is applied at the end, after an independent one is  *)
(* applied anywhere, and after all are applied again on the board that is  *)
(* there.  The channels between the tabs deliver causes before effects, so *)
(* every page has the causes of what it applies.                           *)
(***************************************************************************)
EXTENDS Timeline, Kanban, FiniteSetTheorems, FunctionTheorems, SequenceTheorems,
        WellFoundedInduction, TLAPS

-----------------------------------------------------------------------------
(* Numbers *)

LEMMA LeastNatural ==
  ASSUME NEW T \in SUBSET Nat, T # {}
  PROVE  \E m \in T : \A n \in T : m <= n
<1>1. PICK m \in T : \A n \in T : ~ (<<n, m>> \in OpToRel(<, Nat))
  BY NatLessThanWellFounded, WFMin
<1>2. \A n \in T : ~ (n < m)
  BY <1>1 DEF OpToRel
<1> QED
  BY <1>2

\* The library's maximum of a set of naturals that is bounded.
LEMMA GreatestNatural ==
  ASSUME NEW T \in SUBSET Nat, T # {}, NEW b \in Nat, \A n \in T : n <= b
  PROVE  Max(T) \in T /\ \A n \in T : n <= Max(T)
<1> DEFINE D == {b - n : n \in T}
<1>1. D \in SUBSET Nat /\ D # {}
  <2>1. \A n \in T : b - n \in Nat
    OBVIOUS
  <2>2. PICK n \in T : TRUE
    OBVIOUS
  <2>3. b - n \in D
    OBVIOUS
  <2> QED
    BY <2>1, <2>3
<1>2. PICK d \in D : \A e \in D : d <= e
  <2> HIDE DEF D
  <2> QED
    BY <1>1, LeastNatural
<1>3. PICK m \in T : d = b - m
  OBVIOUS
<1>4. \A n \in T : m >= n
  <2> TAKE n \in T
  <2>1. b - n \in D
    OBVIOUS
  <2>2. b - m <= b - n
    BY <1>2, <1>3, <2>1
  <2> QED
    BY <2>2
<1>5. \E x \in T : \A n \in T : x >= n
  BY <1>4
<1>6. Max(T) \in T /\ \A n \in T : Max(T) >= n
  BY <1>5 DEF Max
<1> QED
  BY <1>6

-----------------------------------------------------------------------------
(* Timelines and their order *)

Pendings(N) == UNION {[D -> SUBSET N] : D \in SUBSET Names}

\* The timelines of the operations N.
Timelines(N) ==
  [linear : Seq(N), indx : [N -> Nat], rank : [N -> Nat], after : [N -> SUBSET Names],
   known : [N -> SUBSET N], succ : [N -> SUBSET N], pending : Pendings(N), tips : SUBSET N]

\* indx and linear are inverses.
Placement(t) ==
  /\ \A i \in 1 .. Len(t.linear) : t.indx[t.linear[i]] = i
  /\ \A n \in Nodes(t) : t.indx[n] \in 1 .. Len(t.linear) /\ t.linear[t.indx[n]] = n

\* A timeline that differs from t at most in the order of its operations.
Arranged(N, t, u) ==
  /\ u \in Timelines(N)
  /\ Placement(u)
  /\ Len(u.linear) = Len(t.linear)
  /\ u.rank = t.rank /\ u.after = t.after /\ u.known = t.known /\ u.succ = t.succ
  /\ u.pending = t.pending /\ u.tips = t.tips

\* n has moved to pos, over those between.
MovedTo(N, t, u, n, pos) ==
  \A m \in N :
    u.indx[m] = IF m = n THEN pos
                ELSE IF t.indx[m] \in (t.indx[n] + 1) .. pos THEN t.indx[m] - 1
                ELSE t.indx[m]

\* By rank, then by name.
Less(rank, a, b) == rank[a] < rank[b] \/ (rank[a] = rank[b] /\ a < b)

LEMMA NodesOf ==
  ASSUME NEW N, NEW t \in Timelines(N)
  PROVE  /\ Nodes(t) = N
         /\ t.linear \in Seq(N) /\ t.indx \in [N -> Nat] /\ t.rank \in [N -> Nat]
         /\ t.after \in [N -> SUBSET Names] /\ t.known \in [N -> SUBSET N]
         /\ t.succ \in [N -> SUBSET N] /\ t.pending \in Pendings(N) /\ t.tips \in SUBSET N
         /\ Len(t.linear) \in Nat
BY DEF Nodes, Timelines

\* An element more.
LEMMA InsertInSeq ==
  ASSUME NEW S, NEW r \in Seq(S), NEW x \in S, NEW pos \in Nat, 1 <= pos, pos <= Len(r) + 1
  PROVE  /\ InsertAt(r, pos, x) \in Seq(S)
         /\ Len(InsertAt(r, pos, x)) = Len(r) + 1
         /\ \A k \in 1 .. Len(r) + 1 :
              InsertAt(r, pos, x)[k] = IF k < pos THEN r[k] ELSE IF k = pos THEN x ELSE r[k - 1]
<1> DEFINE m == InsertAt(r, pos, x)
           l == Len(r) + 1
<1>1. l \in Nat /\ Len(r) \in Nat /\ pos \in 1 .. l
  OBVIOUS
<1>2. r \in Seq(S) /\ Len(r) = l - 1
  OBVIOUS
<1> DEFINE a == SubSeq(r, 1, pos - 1)
           b == SubSeq(r, pos, Len(r))
           c == a \o <<x>>
<1>3. m = c \o b
  BY DEF InsertAt
<1> HIDE DEF l, m
<1>4. /\ a \in Seq(S) /\ Len(a) = pos - 1
      /\ \A k \in 1 .. pos - 1 : a[k] = r[k]
  BY <1>1, <1>2
<1>5. /\ b \in Seq(S) /\ Len(b) = l - pos
      /\ \A k \in 1 .. l - pos : b[k] = r[pos + k - 1]
  BY <1>1, <1>2
<1>6. <<x>> \in Seq(S) /\ Len(<<x>>) = 1 /\ <<x>>[1] = x
  OBVIOUS
<1> HIDE DEF a, b
<1>7. /\ c \in Seq(S) /\ Len(c) = pos
      /\ \A k \in 1 .. pos - 1 : c[k] = r[k]
      /\ c[pos] = x
  <2> DEFINE e == <<x>>
  <2>1. c = a \o e /\ a \in Seq(S) /\ e \in Seq(S)
    BY <1>4, <1>6
  <2>4. Len(e) = 1 /\ e[1] = x
    OBVIOUS
  <2> HIDE DEF c, e
  <2>2. /\ c \in Seq(S) /\ Len(c) = Len(a) + Len(e)
        /\ \A k \in 1 .. Len(a) : c[k] = a[k]
        /\ \A k \in 1 .. Len(e) : c[Len(a) + k] = e[k]
    BY <2>1
  <2>3. 1 \in 1 .. Len(e) /\ c[Len(a) + 1] = x
    BY <2>2, <2>4
  <2> QED
    BY <1>1, <1>4, <2>2, <2>3, <2>4
<1> HIDE DEF c
<1>8. /\ m \in Seq(S) /\ Len(m) = l
      /\ \A k \in 1 .. pos : m[k] = c[k]
      /\ \A k \in 1 .. l - pos : m[pos + k] = r[pos + k - 1]
  <2>1. m = c \o b /\ c \in Seq(S) /\ b \in Seq(S)
    BY <1>3, <1>5, <1>7
  <2>2. /\ m \in Seq(S) /\ Len(m) = Len(c) + Len(b)
        /\ \A k \in 1 .. Len(c) : m[k] = c[k]
        /\ \A k \in 1 .. Len(b) : m[Len(c) + k] = b[k]
    BY <2>1
  <2>3. \A k \in 1 .. l - pos : m[pos + k] = b[k]
    BY <1>5, <1>7, <2>2
  <2>4. \A k \in 1 .. pos : m[k] = c[k]
    BY <1>7, <2>2
  <2>5. Len(m) = l
    BY <1>1, <1>5, <1>7, <2>2
  <2>6. \A k \in 1 .. l - pos : m[pos + k] = r[pos + k - 1]
    BY <1>5, <2>3
  <2> QED
    BY <2>2, <2>4, <2>5, <2>6
<1>9. ASSUME NEW k \in 1 .. l
      PROVE  m[k] = IF k < pos THEN r[k] ELSE IF k = pos THEN x ELSE r[k - 1]
  <2>1. CASE k < pos
    <3>1. k \in 1 .. pos - 1 /\ k \in 1 .. pos
      BY <1>1, <2>1
    <3> QED
      BY <1>7, <1>8, <3>1, <2>1
  <2>2. CASE k = pos
    <3>1. k \in 1 .. pos /\ ~ (k < pos)
      BY <1>1, <2>2
    <3> QED
      BY <1>7, <1>8, <3>1, <2>2
  <2>3. CASE k > pos
    <3>1. k - pos \in 1 .. l - pos /\ pos + (k - pos) = k /\ ~ (k < pos) /\ k # pos
      BY <1>1, <2>3
    <3>2. m[pos + (k - pos)] = r[pos + (k - pos) - 1]
      BY <1>8, <3>1
    <3> QED
      BY <3>1, <3>2
  <2> QED
    BY <1>1, <2>1, <2>2, <2>3
<1> QED
  BY <1>8, <1>9 DEF m, l

\* Taking an element out of a sequence and putting it in again further on.
LEMMA MoveInSeq ==
  ASSUME NEW S, NEW s \in Seq(S), NEW x \in S, NEW i \in Nat, NEW pos \in Nat,
         1 <= i, i <= pos, pos <= Len(s)
  PROVE  /\ InsertAt(RemoveAt(s, i), pos, x) \in Seq(S)
         /\ Len(InsertAt(RemoveAt(s, i), pos, x)) = Len(s)
         /\ \A k \in 1 .. Len(s) :
              InsertAt(RemoveAt(s, i), pos, x)[k]
                = IF k = pos THEN x ELSE IF k \in i .. pos - 1 THEN s[k + 1] ELSE s[k]
<1> DEFINE r == RemoveAt(s, i)
           m == InsertAt(r, pos, x)
           l == Len(s)
<1>1. l \in Nat /\ i \in 1 .. l /\ pos \in i .. l
  OBVIOUS
<1>2. /\ r \in Seq(S) /\ Len(r) = l - 1
      /\ \A k \in 1 .. l - 1 : r[k] = IF k < i THEN s[k] ELSE s[k + 1]
  <2>1. r = SubSeq(s, 1, i - 1) \o SubSeq(s, i + 1, l)
    BY DEF RemoveAt
  <2>2. /\ SubSeq(s, 1, i - 1) \in Seq(S) /\ Len(SubSeq(s, 1, i - 1)) = i - 1
        /\ \A k \in 1 .. i - 1 : SubSeq(s, 1, i - 1)[k] = s[k]
    BY <1>1
  <2>3. /\ SubSeq(s, i + 1, l) \in Seq(S) /\ Len(SubSeq(s, i + 1, l)) = l - i
        /\ \A k \in 1 .. l - i : SubSeq(s, i + 1, l)[k] = s[i + k]
    BY <1>1
  <2> DEFINE a == SubSeq(s, 1, i - 1)
             b == SubSeq(s, i + 1, l)
  <2> HIDE DEF r, l, a, b
  <2>4. /\ r \in Seq(S) /\ Len(r) = Len(a) + Len(b)
        /\ \A k \in 1 .. Len(a) : r[k] = a[k]
        /\ \A k \in 1 .. Len(b) : r[Len(a) + k] = b[k]
    <3>1. r = a \o b /\ a \in Seq(S) /\ b \in Seq(S)
      BY <2>1, <2>2, <2>3 DEF a, b
    <3> QED
      BY <3>1
  <2>5. /\ Len(a) = i - 1 /\ Len(b) = l - i
        /\ \A k \in 1 .. i - 1 : a[k] = s[k]
        /\ \A k \in 1 .. l - i : b[k] = s[i + k]
    BY <2>2, <2>3 DEF a, b
  <2>6. ASSUME NEW k \in 1 .. l - 1
        PROVE  r[k] = IF k < i THEN s[k] ELSE s[k + 1]
    <3>1. CASE k < i
      <4>1. k \in 1 .. i - 1
        BY <1>1, <3>1
      <4> QED
        BY <2>4, <2>5, <4>1, <3>1
    <3>2. CASE ~ (k < i)
      <4>1. k - (i - 1) \in 1 .. l - i /\ (i - 1) + (k - (i - 1)) = k /\ i + (k - (i - 1)) = k + 1
        BY <1>1, <3>2
      <4> QED
        BY <2>4, <2>5, <4>1, <3>2
    <3> QED
      BY <3>1, <3>2
  <2> QED
    BY <1>1, <2>4, <2>5, <2>6
<1>3. /\ m \in Seq(S) /\ Len(m) = l
      /\ \A k \in 1 .. l : m[k] = IF k < pos THEN r[k] ELSE IF k = pos THEN x ELSE r[k - 1]
  <2> HIDE DEF r, l
  <2>1. pos <= Len(r) + 1 /\ Len(r) + 1 = l
    BY <1>1, <1>2
  <2> QED
    BY <1>1, <1>2, <2>1, InsertInSeq
<1>4. ASSUME NEW k \in 1 .. l
      PROVE  m[k] = IF k = pos THEN x ELSE IF k \in i .. pos - 1 THEN s[k + 1] ELSE s[k]
  <2> HIDE DEF r, l, m
  <2>1. CASE k < pos
    <3>1. k \in 1 .. l - 1 /\ k # pos /\ (k < i <=> k \notin i .. pos - 1)
      BY <1>1, <2>1
    <3>2. m[k] = r[k] /\ r[k] = IF k < i THEN s[k] ELSE s[k + 1]
      BY <1>2, <1>3, <2>1, <3>1
    <3> QED
      BY <3>1, <3>2
  <2>2. CASE k = pos
    BY <1>1, <1>3, <2>2
  <2>3. CASE k > pos
    <3>1. k - 1 \in 1 .. l - 1 /\ ~ (k - 1 < i) /\ k - 1 + 1 = k
      BY <1>1, <2>3
    <3>2. m[k] = r[k - 1] /\ r[k - 1] = s[k]
      BY <1>2, <1>3, <2>3, <3>1
    <3>3. k # pos /\ k \notin i .. pos - 1
      BY <1>1, <2>3
    <3> QED
      BY <3>2, <3>3
  <2> QED
    BY <1>1, <2>1, <2>2, <2>3
<1> QED
  BY <1>3, <1>4

\* A jump (_jump) moves one node towards the future.
LEMMA JumpMoves ==
  ASSUME NEW N, NEW t \in Timelines(N), Placement(t), NEW n \in N,
         NEW pos \in t.indx[n] .. Len(t.linear)
  PROVE  /\ Arranged(N, t, Jump(t, n, pos))
         /\ MovedTo(N, t, Jump(t, n, pos), n, pos)
<1> DEFINE u == Jump(t, n, pos)
           si == t.indx[n]
           l == Len(t.linear)
           lin == InsertAt(RemoveAt(t.linear, si), pos, n)
           ind == [m \in N |-> IF m = n THEN pos
                               ELSE IF t.indx[m] \in (si + 1) .. pos THEN t.indx[m] - 1
                               ELSE t.indx[m]]
<1>1. /\ l \in Nat /\ si \in 1 .. l /\ pos \in si .. l
      /\ \A m \in N : t.indx[m] \in 1 .. l /\ t.linear[t.indx[m]] = m
      /\ \A i \in 1 .. l : t.linear[i] \in N /\ t.indx[t.linear[i]] = i
  BY NodesOf DEF Placement
<1>2. u = [t EXCEPT !.linear = lin, !.indx = ind]
  BY NodesOf DEF Jump
<1>3. /\ lin \in Seq(N) /\ Len(lin) = l
      /\ \A k \in 1 .. l : lin[k] = IF k = pos THEN n
                                    ELSE IF k \in si .. pos - 1 THEN t.linear[k + 1] ELSE t.linear[k]
  <2>1. t.linear \in Seq(N) /\ si \in 1 .. Len(t.linear) /\ pos \in si .. Len(t.linear)
    BY <1>1, NodesOf
  <2> DEFINE s == t.linear
  <2> HIDE DEF si, s
  <2>2. /\ s \in Seq(N) /\ n \in N /\ si \in Nat /\ pos \in Nat
        /\ 1 <= si /\ si <= pos /\ pos <= Len(s)
    BY <2>1, <1>1 DEF s
  <2>3. LET m == InsertAt(RemoveAt(s, si), pos, n) IN
        /\ m \in Seq(N) /\ Len(m) = Len(s)
        /\ \A k \in 1 .. Len(s) :
             m[k] = IF k = pos THEN n ELSE IF k \in si .. pos - 1 THEN s[k + 1] ELSE s[k]
    BY ONLY <2>2, MoveInSeq
  <2> QED
    BY <2>3 DEF s
<1>4. ind \in [N -> 1 .. l]
  <2> SUFFICES ASSUME NEW m \in N PROVE ind[m] \in 1 .. l
    OBVIOUS
  <2> QED
    BY <1>1
<1>5. /\ u.linear = lin /\ u.indx = ind
      /\ u.rank = t.rank /\ u.after = t.after /\ u.known = t.known /\ u.succ = t.succ
      /\ u.pending = t.pending /\ u.tips = t.tips
      /\ u \in Timelines(N)
  <2>1. ind \in [N -> Nat]
    BY <1>4
  <2> HIDE DEF ind, lin, u
  <2> QED
    BY <1>2, <1>3, <2>1 DEF Timelines
<1>6. ASSUME NEW m \in N
      PROVE  ind[m] \in 1 .. l /\ lin[ind[m]] = m
  <2>1. ind[m] \in 1 .. l
    BY <1>4
  <2>2. CASE m = n
    BY <1>1, <1>3, <2>2
  <2>3. CASE m # n
    <3> DEFINE im == t.indx[m]
    <3>1. im # si /\ im \in 1 .. l /\ t.linear[im] = m
      BY <1>1, <2>3
    <3>2. ind[m] = IF im \in (si + 1) .. pos THEN im - 1 ELSE im
      BY <2>3
    <3> HIDE DEF im, lin, ind, l, si
    <3>3. CASE im \in (si + 1) .. pos
      <4>1. im - 1 \in si .. pos - 1 /\ im - 1 # pos /\ im - 1 \in 1 .. l /\ im - 1 + 1 = im
        BY <1>1, <3>1, <3>3
      <4>2. lin[im - 1] = t.linear[im - 1 + 1]
        BY <1>3, <4>1
      <4> QED
        BY <3>1, <3>2, <3>3, <4>1, <4>2
    <3>4. CASE im \notin (si + 1) .. pos
      <4>1. im # pos /\ im \notin si .. pos - 1
        BY <1>1, <3>1, <3>4
      <4>2. lin[im] = t.linear[im]
        BY <1>3, <3>1, <4>1
      <4> QED
        BY <3>1, <3>2, <3>4, <4>2
    <3> QED
      BY <3>3, <3>4
  <2> QED
    BY <2>1, <2>2, <2>3
<1>7. ASSUME NEW k \in 1 .. l
      PROVE  ind[lin[k]] = k
  <2>1. CASE k = pos
    BY <1>3, <2>1
  <2>2. CASE k # pos /\ k \in si .. pos - 1
    <3>1. k + 1 \in 1 .. l /\ k + 1 # si /\ lin[k] = t.linear[k + 1]
      BY <1>1, <1>3, <2>2
    <3>2. t.linear[k + 1] # n /\ t.linear[k + 1] \in N /\ t.indx[t.linear[k + 1]] = k + 1
      BY <1>1, <3>1
    <3> QED
      BY <1>1, <2>2, <3>1, <3>2
  <2>3. CASE k # pos /\ k \notin si .. pos - 1
    <3>1. lin[k] = t.linear[k] /\ k # si
      BY <1>1, <1>3, <2>3
    <3>2. t.linear[k] # n /\ t.linear[k] \in N /\ t.indx[t.linear[k]] = k
      BY <1>1, <3>1
    <3>3. k \notin (si + 1) .. pos
      BY <1>1, <2>3
    <3> QED
      BY <3>1, <3>2, <3>3
  <2> QED
    BY <2>1, <2>2, <2>3
<1>8. Nodes(u) = N
  BY <1>5, NodesOf
<1>9. Placement(u)
  <2> HIDE DEF lin, ind, u
  <2> QED
    BY <1>3, <1>5, <1>6, <1>7, <1>8 DEF Placement
<1>10. Arranged(N, t, u)
  BY <1>3, <1>5, <1>9 DEF Arranged
<1>11. MovedTo(N, t, u, n, pos)
  BY <1>5 DEF MovedTo
<1> QED
  BY <1>10, <1>11
\* How far a node gets over neighbours that are behind.
LEMMA PastReaches ==
  ASSUME NEW N, NEW t \in Timelines(N), NEW behind, NEW pos \in Nat, pos <= Len(t.linear)
  PROVE  /\ Past(t, pos, behind) \in Nat
         /\ pos <= Past(t, pos, behind) /\ Past(t, pos, behind) <= Len(t.linear)
         /\ \A q \in (pos + 1) .. Past(t, pos, behind) : t.linear[q] \in behind
         /\ Past(t, pos, behind) < Len(t.linear)
              => t.linear[Past(t, pos, behind) + 1] \notin behind
<1> DEFINE l == Len(t.linear)
           T == {p \in pos .. l : \A q \in (pos + 1) .. p : t.linear[q] \in behind}
           m == Past(t, pos, behind)
<1>1. l \in Nat
  BY NodesOf
<1>2. T \in SUBSET Nat /\ \A p \in T : p <= l
  BY <1>1
<1>3. pos \in T
  BY <1>1
<1>4. Max(T) \in T /\ \A p \in T : p <= Max(T)
  <2> HIDE DEF T, l
  <2> QED
    BY <1>1, <1>2, <1>3, GreatestNatural
<1>5. m = Max(T)
  BY DEF Past
<1>6. m \in T /\ \A p \in T : p <= m
  BY <1>4, <1>5
<1> HIDE DEF m
<1>7. m \in Nat /\ pos <= m /\ m <= l /\ \A q \in (pos + 1) .. m : t.linear[q] \in behind
  BY <1>1, <1>6
<1>8. ASSUME m < l, t.linear[m + 1] \in behind
      PROVE  FALSE
  <2>1. m + 1 \in pos .. l
    BY <1>1, <1>7, <1>8
  <2>2. \A q \in (pos + 1) .. m + 1 : t.linear[q] \in behind
    BY <1>7, <1>8
  <2>3. m + 1 \in T
    BY <2>1, <2>2
  <2> QED
    BY <1>6, <1>7, <2>3
<1> QED
  BY <1>7, <1>8 DEF m

\* What moving one node does to the order.
LEMMA MovedOrder ==
  ASSUME NEW N, NEW t \in Timelines(N), NEW u \in Timelines(N), Placement(t), NEW n \in N,
         NEW pos \in Nat, t.indx[n] <= pos, MovedTo(N, t, u, n, pos)
  PROVE  /\ \A a, b \in N : a # n /\ b # n =>
              (u.indx[a] < u.indx[b] <=> t.indx[a] < t.indx[b])
         /\ \A a \in N : a # n =>
              /\ u.indx[a] < u.indx[n] <=> t.indx[a] <= pos
              /\ u.indx[n] < u.indx[a] <=> pos < t.indx[a]
         /\ \A a \in N : t.indx[a] < t.indx[n] => u.indx[a] = t.indx[a]
         /\ u.indx[n] = pos
<1>1. \A a \in N : t.indx[a] \in Nat /\ (a # n => t.indx[a] # t.indx[n])
  <2>1. \A a \in N : t.indx[a] \in Nat
    BY NodesOf
  <2>2. \A a \in N : t.linear[t.indx[a]] = a
    BY NodesOf DEF Placement
  <2> QED
    BY <2>1, <2>2
<1>2. \A m \in N : u.indx[m] = IF m = n THEN pos
                               ELSE IF t.indx[m] \in (t.indx[n] + 1) .. pos THEN t.indx[m] - 1
                               ELSE t.indx[m]
  BY DEF MovedTo
<1>3. \A a, b \in N : a # b => t.indx[a] # t.indx[b]
  BY NodesOf DEF Placement
<1>4. ASSUME NEW a \in N, NEW b \in N, a # n, b # n
      PROVE  u.indx[a] < u.indx[b] <=> t.indx[a] < t.indx[b]
  <2>1. CASE a = b
    <3>1. u.indx[a] \in Nat /\ t.indx[a] \in Nat
      BY NodesOf
    <3> QED
      BY <2>1, <3>1
  <2>2. CASE a # b
    <3> DEFINE ia == t.indx[a]
               ib == t.indx[b]
               in == t.indx[n]
    <3>1. ia \in Nat /\ ib \in Nat /\ in \in Nat /\ ia # ib /\ ia # in /\ ib # in
      BY <1>1, <1>3, <1>4, <2>2
    <3>2. u.indx[a] = IF ia \in (in + 1) .. pos THEN ia - 1 ELSE ia
      BY <1>2, <1>4
    <3>3. u.indx[b] = IF ib \in (in + 1) .. pos THEN ib - 1 ELSE ib
      BY <1>2, <1>4
    <3> HIDE DEF ia, ib, in
    <3>4. in <= pos
      BY DEF in
    <3> QED
      BY <3>1, <3>2, <3>3, <3>4 DEF ia, ib
  <2> QED
    BY <2>1, <2>2
<1>5. u.indx[n] = pos
  BY <1>2
<1>6. ASSUME NEW a \in N, a # n
      PROVE  /\ u.indx[a] < pos <=> t.indx[a] <= pos
             /\ pos < u.indx[a] <=> pos < t.indx[a]
  BY <1>1, <1>2, <1>6
<1>7. ASSUME NEW a \in N, t.indx[a] < t.indx[n]
      PROVE  u.indx[a] = t.indx[a]
  BY <1>1, <1>2, <1>7
<1> QED
  BY <1>4, <1>5, <1>6, <1>7

\* Everything behind n is in order.
SortedAfter(N, t, n) ==
  \A a, b \in N : t.indx[n] < t.indx[a] /\ t.indx[a] < t.indx[b] => Less(t.rank, a, b)

LEMMA LessOrder ==
  ASSUME NEW N \in SUBSET Names, NEW rank \in [N -> Nat]
  PROVE  /\ \A a, b, c \in N : Less(rank, a, b) /\ Less(rank, b, c) => Less(rank, a, c)
         /\ \A a, b \in N : a # b => Less(rank, a, b) \/ Less(rank, b, a)
         /\ \A a, b \in N : ~ (Less(rank, a, b) /\ Less(rank, b, a))
         /\ \A a \in N : ~ Less(rank, a, a)
<1>1. \A a \in N : rank[a] \in Nat /\ a \in Nat
  BY NamesAssumption
<1> QED
  BY <1>1 DEF Less

\* A rise (_rise) takes a node over lower ones and, when what is behind it is in
\* order, over all of these.
LEMMA RiseMoves ==
  ASSUME NEW N \in SUBSET Names, NEW t \in Timelines(N), Placement(t), NEW n \in N
  PROVE  /\ Arranged(N, t, Rise(t, n))
         /\ \E pos \in Nat :
              /\ t.indx[n] <= pos /\ pos <= Len(t.linear)
              /\ MovedTo(N, t, Rise(t, n), n, pos)
              /\ \A m \in N : t.indx[n] < t.indx[m] /\ t.indx[m] <= pos => Less(t.rank, m, n)
              /\ SortedAfter(N, t, n) => \A m \in N : pos < t.indx[m] => Less(t.rank, n, m)
<1> DEFINE u == Rise(t, n)
           l == Len(t.linear)
           lowerRank == {m \in N : t.rank[n] > t.rank[m]}
           smallerName == {m \in N : t.rank[n] = t.rank[m] /\ m < n}
           p == Past(t, t.indx[n], lowerRank)
           q == Past(t, p, smallerName)
<1>1. /\ l \in Nat
      /\ \A m \in N : t.indx[m] \in Nat /\ t.indx[m] \in 1 .. l /\ t.linear[t.indx[m]] = m
      /\ \A i \in 1 .. l : t.linear[i] \in N /\ t.indx[t.linear[i]] = i
      /\ \A m \in N : t.rank[m] \in Nat /\ m \in Nat
  <2>1. \A m \in N : t.rank[m] \in Nat /\ m \in Nat
    <3>1. t.rank \in [N -> Nat] /\ Names \subseteq Nat
      BY NodesOf, NamesAssumption
    <3> QED
      BY <3>1
  <2> QED
    BY <2>1, NodesOf DEF Placement
<1>2. u = RiseTo(t, n, q)
  BY NodesOf DEF Rise
<1>3. /\ p \in Nat /\ t.indx[n] <= p /\ p <= l
      /\ \A i \in (t.indx[n] + 1) .. p : t.linear[i] \in lowerRank
      /\ p < l => t.linear[p + 1] \notin lowerRank
  <2> HIDE DEF lowerRank, l
  <2>1. t.indx[n] \in Nat /\ t.indx[n] <= Len(t.linear)
    BY <1>1 DEF l
  <2> QED
    BY <2>1, PastReaches DEF l
<1>4. /\ q \in Nat /\ p <= q /\ q <= l
      /\ \A i \in (p + 1) .. q : t.linear[i] \in smallerName
      /\ q < l => t.linear[q + 1] \notin smallerName
  <2> HIDE DEF smallerName, p, l
  <2>1. p \in Nat /\ p <= Len(t.linear)
    BY <1>3 DEF l
  <2> QED
    BY <2>1, PastReaches DEF l
<1> HIDE DEF p, q
<1>5. Arranged(N, t, u) /\ MovedTo(N, t, u, n, q)
  <2>1. CASE t.indx[n] < q
    <3>1. u = Jump(t, n, q)
      BY <1>2, <2>1 DEF RiseTo
    <3>2. q \in t.indx[n] .. Len(t.linear)
      BY <1>1, <1>4, <2>1
    <3> QED
      BY <3>1, <3>2, JumpMoves
  <2>2. CASE ~ (t.indx[n] < q)
    <3>1. u = t /\ q = t.indx[n]
      BY <1>1, <1>2, <1>3, <1>4, <2>2 DEF RiseTo
    <3>2. Arranged(N, t, t)
      BY DEF Arranged
    <3>3. MovedTo(N, t, t, n, q)
      BY <1>1, <3>1 DEF MovedTo
    <3> QED
      BY <3>1, <3>2, <3>3
  <2> QED
    BY <2>1, <2>2
<1>6. ASSUME NEW m \in N, t.indx[n] < t.indx[m], t.indx[m] <= q
      PROVE  Less(t.rank, m, n)
  <2> DEFINE i == t.indx[m]
  <2>1. i \in Nat /\ t.linear[i] = m /\ t.indx[n] \in Nat
    BY <1>1
  <2>2. i \in (t.indx[n] + 1) .. p \/ i \in (p + 1) .. q
    BY <1>3, <1>4, <1>6, <2>1
  <2>3. m \in lowerRank \/ m \in smallerName
    <3> HIDE DEF i, lowerRank, smallerName
    <3> QED
      BY <1>3, <1>4, <2>1, <2>2
  <2> QED
    BY <1>1, <2>3 DEF Less
<1>7. ASSUME SortedAfter(N, t, n), NEW m \in N, q < t.indx[m]
      PROVE  Less(t.rank, n, m)
  <2> DEFINE b == t.linear[q + 1]
             c == t.linear[p + 1]
  <2>1. q + 1 \in 1 .. l /\ q < l /\ p + 1 \in 1 .. l /\ p < l
    BY <1>1, <1>3, <1>4, <1>7
  <2>2. b \in N /\ t.indx[b] = q + 1 /\ c \in N /\ t.indx[c] = p + 1
    BY <1>1, <2>1
  <2>3. ~ (t.rank[n] > t.rank[c])
    BY <1>3, <2>1, <2>2
  <2>4. ~ (t.rank[n] = t.rank[b] /\ b < n)
    BY <1>4, <2>1, <2>2
  <2> HIDE DEF b, c
  <2>5. b # n
    BY <1>1, <1>3, <1>4, <2>2
  <2>6. t.rank[c] <= t.rank[b]
    <3>1. CASE p = q
      <4>1. b = c
        BY <3>1 DEF b, c
      <4> QED
        BY <1>1, <2>2, <4>1
    <3>2. CASE p # q
      <4>1. t.indx[n] < t.indx[c] /\ t.indx[c] < t.indx[b]
        BY <1>1, <1>3, <1>4, <2>2, <3>2
      <4>2. Less(t.rank, c, b)
        BY <1>7, <2>2, <4>1 DEF SortedAfter
      <4> QED
        BY <1>1, <2>2, <4>2 DEF Less
    <3> QED
      BY <3>1, <3>2
  <2>7. Less(t.rank, n, b)
    BY <1>1, <2>2, <2>3, <2>4, <2>5, <2>6 DEF Less
  <2>8. CASE t.indx[m] = q + 1
    <3>1. m = b
      BY <1>1, <2>8 DEF b
    <3> QED
      BY <2>7, <3>1
  <2>9. CASE t.indx[m] # q + 1
    <3>1. t.indx[n] < t.indx[b] /\ t.indx[b] < t.indx[m]
      <4>1. t.indx[m] \in Nat /\ t.indx[n] \in Nat /\ q < t.indx[m]
        BY <1>1, <1>7
      <4>2. t.indx[n] <= q
        BY <1>3, <1>4, <4>1
      <4> QED
        BY <1>4, <2>2, <2>9, <4>1, <4>2
    <3>2. Less(t.rank, b, m)
      BY <1>7, <2>2, <3>1 DEF SortedAfter
    <3>3. t.rank \in [N -> Nat]
      BY NodesOf
    <3> QED
      BY <2>2, <2>7, <3>2, <3>3, LessOrder
  <2> QED
    BY <2>8, <2>9
<1>8. t.indx[n] <= q
  BY <1>1, <1>3, <1>4
<1> QED
  BY <1>4, <1>5, <1>6, <1>7, <1>8

\* The same, in terms of the order.
LEMMA RiseOrder ==
  ASSUME NEW N \in SUBSET Names, NEW t \in Timelines(N), Placement(t), NEW n \in N,
         NEW u, u = Rise(t, n)
  PROVE  /\ Arranged(N, t, u)
         /\ \A a, b \in N : a # n /\ b # n =>
              (u.indx[a] < u.indx[b] <=> t.indx[a] < t.indx[b])
         /\ \A a \in N : t.indx[a] < t.indx[n] =>
              u.indx[a] = t.indx[a] /\ u.indx[a] < u.indx[n]
         /\ t.indx[n] <= u.indx[n]
         /\ \A a \in N : a # n /\ u.indx[a] < u.indx[n] =>
              t.indx[a] < t.indx[n] \/ Less(t.rank, a, n)
         /\ SortedAfter(N, t, n) =>
              \A a \in N : u.indx[n] < u.indx[a] => Less(t.rank, n, a)
<1>1. PICK pos \in Nat :
        /\ t.indx[n] <= pos /\ pos <= Len(t.linear)
        /\ MovedTo(N, t, u, n, pos)
        /\ \A m \in N : t.indx[n] < t.indx[m] /\ t.indx[m] <= pos => Less(t.rank, m, n)
        /\ SortedAfter(N, t, n) => \A m \in N : pos < t.indx[m] => Less(t.rank, n, m)
  BY RiseMoves
<1>2. Arranged(N, t, u) /\ u \in Timelines(N)
  BY RiseMoves DEF Arranged
<1>3. /\ \A a, b \in N : a # n /\ b # n =>
           (u.indx[a] < u.indx[b] <=> t.indx[a] < t.indx[b])
      /\ \A a \in N : a # n =>
           /\ u.indx[a] < u.indx[n] <=> t.indx[a] <= pos
           /\ u.indx[n] < u.indx[a] <=> pos < t.indx[a]
      /\ \A a \in N : t.indx[a] < t.indx[n] => u.indx[a] = t.indx[a]
      /\ u.indx[n] = pos
  BY <1>1, <1>2, MovedOrder
<1>4. \A a \in N : t.indx[a] \in Nat /\ u.indx[a] \in Nat /\ (a # n => t.indx[a] # t.indx[n])
  <2>1. \A a \in N : t.indx[a] \in Nat /\ u.indx[a] \in Nat
    BY <1>2, NodesOf
  <2>2. \A a \in N : t.linear[t.indx[a]] = a
    BY NodesOf DEF Placement
  <2> QED
    BY <2>1, <2>2
<1>5. \A a \in N : t.indx[a] < t.indx[n] => u.indx[a] = t.indx[a] /\ u.indx[a] < u.indx[n]
  BY <1>1, <1>3, <1>4
<1>6. ASSUME NEW a \in N, a # n, u.indx[a] < u.indx[n]
      PROVE  t.indx[a] < t.indx[n] \/ Less(t.rank, a, n)
  <2>1. t.indx[a] <= pos
    BY <1>3, <1>6
  <2> QED
    BY <1>1, <1>4, <1>6, <2>1
<1>7. ASSUME SortedAfter(N, t, n), NEW a \in N, u.indx[n] < u.indx[a]
      PROVE  Less(t.rank, n, a)
  <2>1. a # n
    BY <1>4, <1>7
  <2> QED
    BY <1>1, <1>3, <1>7, <2>1
<1> QED
  BY <1>1, <1>2, <1>3, <1>5, <1>6, <1>7

-----------------------------------------------------------------------------
(* The loops.  A round of one of them, by the loop it is in. *)

Round(loop, s, k) ==
  CASE loop.kind = "wave" -> Level(loop.t, s, loop.base + k)
    [] loop.kind = "rise" ->
         (LET n == loop.t.linear[Len(loop.t.linear) + 1 - k]
          IN  IF n \in loop.visited THEN Rise(s, n) ELSE s)
    [] loop.kind = "link" -> Link(s, loop.effects[k], loop.n)
    [] loop.kind = "anchor" -> AddEdgeToThePast(s, loop.n, loop.causes[k])
    [] loop.kind = "rebuild" -> IF k \in loop.operations THEN Add(s, k, loop.ev[k].causes) ELSE s
    [] loop.kind = "apply" ->
         (LET n == loop.t.linear[k]
          IN  IF Valid(loop.t, n) THEN ApplyOperation(loop.ev, loop.p, n, s) ELSE s)
    [] loop.kind = "events" -> NewEvent(loop.ev, loop.p, loop.queue[k], s)
    [] loop.kind = "start" ->
         NewEvent(loop.ev, loop.p, loop.queue[k], Answered(loop.ev, loop.p, loop.queue[k], s))

\* f[k] is what there is after k rounds, up to m.
IsRun(f, loop, start, m) ==
  f = [k \in 0 .. m |-> IF k = 0 THEN start ELSE Round(loop, f[k - 1], k)]

LEMMA RunExists ==
  ASSUME NEW loop, NEW start, NEW l \in Nat
  PROVE  \E f : IsRun(f, loop, start, l)
<1> SUFFICES ASSUME ~ \E f : IsRun(f, loop, start, l) PROVE FALSE
  OBVIOUS
<1> DEFINE T == {m \in Nat : ~ \E f : IsRun(f, loop, start, m)}
<1>1. PICK m \in T : \A n \in T : m <= n
  BY LeastNatural
<1>2. m # 0
  <2> DEFINE f == [k \in 0 .. 0 |-> start]
  <2>1. f = [k \in 0 .. 0 |-> IF k = 0 THEN start ELSE Round(loop, f[k - 1], k)]
    OBVIOUS
  <2>2. IsRun(f, loop, start, 0)
    BY <2>1 DEF IsRun
  <2> QED
    BY <2>2
<1>3. m \in Nat /\ m - 1 \in Nat
  BY <1>2
<1>4. PICK f : IsRun(f, loop, start, m - 1)
  BY <1>1, <1>3
<1> DEFINE g == [k \in 0 .. m |-> IF k = m THEN Round(loop, f[m - 1], m) ELSE f[k]]
<1>5. ASSUME NEW k \in 0 .. m
      PROVE  g[k] = IF k = 0 THEN start ELSE Round(loop, g[k - 1], k)
  <2>1. CASE k = m
    <3>1. k - 1 \in 0 .. m /\ k - 1 # m /\ k # 0
      BY <2>1, <1>2, <1>3
    <3>2. g[k] = Round(loop, f[m - 1], m) /\ g[k - 1] = f[k - 1]
      BY <3>1, <2>1
    <3> QED
      BY <3>1, <3>2, <2>1
  <2>2. CASE k # m
    <3>1. k \in 0 .. m - 1 /\ g[k] = f[k]
      BY <2>2, <1>3
    <3>2. f[k] = IF k = 0 THEN start ELSE Round(loop, f[k - 1], k)
      BY <3>1, <1>4 DEF IsRun
    <3>3. k # 0 => g[k - 1] = f[k - 1]
      BY <3>1, <1>3
    <3> QED
      BY <3>1, <3>2, <3>3
  <2> QED
    BY <2>1, <2>2
<1>6. IsRun(g, loop, start, m)
  <2>1. g = [k \in 0 .. m |-> g[k]]
    OBVIOUS
  <2> HIDE DEF g
  <2>2. [k \in 0 .. m |-> g[k]]
          = [k \in 0 .. m |-> IF k = 0 THEN start ELSE Round(loop, g[k - 1], k)]
    BY <1>5
  <2> QED
    BY <2>1, <2>2 DEF IsRun
<1> QED
  BY <1>1, <1>6

LEMMA RiseAllRun ==
  ASSUME NEW t, Len(t.linear) \in Nat, NEW visited
  PROVE  \E f :
           /\ f[0] = t
           /\ \A k \in 1 .. Len(t.linear) :
                f[k] = IF t.linear[Len(t.linear) + 1 - k] \in visited
                       THEN Rise(f[k - 1], t.linear[Len(t.linear) + 1 - k]) ELSE f[k - 1]
           /\ RiseAll(t, visited) = f[Len(t.linear)]
<1> DEFINE l == Len(t.linear)
           loop == [kind |-> "rise", t |-> t, visited |-> visited]
           Turn(x, k) == LET n == t.linear[l + 1 - k]
                         IN  IF n \in visited THEN Rise(x, n) ELSE x
           f == CHOOSE f : f = [k \in 0 .. l |-> IF k = 0 THEN t ELSE Turn(f[k - 1], k)]
<1>1. RiseAll(t, visited) = f[l]
  BY DEF RiseAll
<1>2. \A x, k : Round(loop, x, k) = Turn(x, k)
  BY DEF Round
<1> HIDE DEF Turn, l, loop
<1>3. PICK g : IsRun(g, loop, t, l)
  BY RunExists DEF l
<1>4. g = [k \in 0 .. l |-> IF k = 0 THEN t ELSE Turn(g[k - 1], k)]
  BY <1>2, <1>3 DEF IsRun
<1>5. f = [k \in 0 .. l |-> IF k = 0 THEN t ELSE Turn(f[k - 1], k)]
  BY <1>4
<1> HIDE DEF f
<1>6. l \in Nat
  BY DEF l
<1>7. f[0] = t /\ \A k \in 1 .. l : f[k] = Turn(f[k - 1], k)
  BY <1>5, <1>6
<1> QED
  BY <1>1, <1>7 DEF Turn, l

-----------------------------------------------------------------------------
(* Everything the wave visited rises *)

LEMMA RiseAllOne ==
  ASSUME NEW N, NEW t \in Timelines(N), Placement(t), NEW n \in N
  PROVE  RiseAll(t, {n}) = Rise(t, n)
<1> DEFINE l == Len(t.linear)
           G(k) == IF l + 1 - k <= t.indx[n] THEN Rise(t, n) ELSE t
<1>1. /\ l \in Nat /\ t.indx[n] \in 1 .. l /\ t.linear[t.indx[n]] = n
      /\ \A i \in 1 .. l : t.indx[t.linear[i]] = i
  BY NodesOf DEF Placement
<1>2. PICK f :
        /\ f[0] = t
        /\ \A k \in 1 .. Len(t.linear) :
             f[k] = IF t.linear[Len(t.linear) + 1 - k] \in {n}
                    THEN Rise(f[k - 1], t.linear[Len(t.linear) + 1 - k]) ELSE f[k - 1]
        /\ RiseAll(t, {n}) = f[Len(t.linear)]
  BY <1>1, RiseAllRun
<1> DEFINE T == {k \in 0 .. l : f[k] # G(k)}
<1>3. T = {}
  <2> SUFFICES ASSUME T # {} PROVE FALSE
    OBVIOUS
  <2>1. T \in SUBSET Nat
    BY <1>1
  <2>2. PICK k \in T : \A i \in T : k <= i
    <3> HIDE DEF T
    <3> QED
      BY <2>1, LeastNatural
  <2>3. k \in 0 .. l /\ f[k] # G(k)
    OBVIOUS
  <2>4. CASE k = 0
    BY <1>1, <1>2, <2>3, <2>4
  <2>5. CASE k # 0
    <3>1. k \in 1 .. l /\ k - 1 \in 0 .. l /\ k \in Nat
      BY <1>1, <2>3, <2>5
    <3>2. k - 1 \notin T
      BY <2>2, <3>1
    <3>3. f[k - 1] = G(k - 1)
      BY <3>1, <3>2
    <3> DEFINE i == l + 1 - k
    <3>4. i \in 1 .. l /\ l + 1 - (k - 1) = i + 1
      BY <1>1, <3>1
    <3>5. f[k] = IF t.linear[i] = n THEN Rise(f[k - 1], t.linear[i]) ELSE f[k - 1]
      BY <1>2, <3>1
    <3>6. t.linear[i] = n <=> i = t.indx[n]
      BY <1>1, <3>4
    <3>7. G(k - 1) = IF i + 1 <= t.indx[n] THEN Rise(t, n) ELSE t
      BY <3>4
    <3>8. G(k) = IF i <= t.indx[n] THEN Rise(t, n) ELSE t
      OBVIOUS
    <3> HIDE DEF i, G, T
    <3>9. f[k] = G(k)
      <4>1. CASE i = t.indx[n]
        <5>1. ~ (i + 1 <= t.indx[n]) /\ i <= t.indx[n]
          BY <1>1, <4>1
        <5> QED
          BY <3>3, <3>5, <3>6, <3>7, <3>8, <4>1, <5>1
      <4>2. CASE i # t.indx[n]
        <5>1. i + 1 <= t.indx[n] <=> i <= t.indx[n]
          BY <1>1, <3>4, <4>2
        <5> QED
          BY <3>3, <3>5, <3>6, <3>7, <3>8, <4>2, <5>1
      <4> QED
        BY <4>1, <4>2
    <3> QED
      BY <2>3, <3>9
  <2> QED
    BY <2>4, <2>5
<1>4. l \in 0 .. l /\ l \notin T
  BY <1>1, <1>3
<1>5. f[l] = G(l) /\ G(l) = Rise(t, n)
  <2>1. l + 1 - l <= t.indx[n]
    BY <1>1
  <2> QED
    BY <1>4, <2>1
<1> QED
  BY <1>2, <1>5

\* After k turns the last k places hold what was there, in order.
TailSorted(N, t, u, k) ==
  /\ Arranged(N, t, u)
  /\ \A a \in N : t.indx[a] <= Len(t.linear) - k => u.indx[a] = t.indx[a]
  /\ \A a, b \in N : Len(t.linear) - k < u.indx[a] /\ u.indx[a] < u.indx[b] => Less(t.rank, a, b)

LEMMA Places ==
  ASSUME NEW N, NEW t \in Timelines(N), Placement(t)
  PROVE  /\ Len(t.linear) \in Nat
         /\ \A a \in N : t.indx[a] \in Nat /\ 1 <= t.indx[a] /\ t.indx[a] <= Len(t.linear)
         /\ \A a \in N : t.linear[t.indx[a]] = a
         /\ \A i \in 1 .. Len(t.linear) : t.linear[i] \in N /\ t.indx[t.linear[i]] = i
         /\ \A a, b \in N : t.indx[a] = t.indx[b] => a = b
<1>1. /\ Len(t.linear) \in Nat
      /\ \A a \in N : t.indx[a] \in Nat /\ 1 <= t.indx[a] /\ t.indx[a] <= Len(t.linear)
      /\ \A i \in 1 .. Len(t.linear) : t.linear[i] \in N
  BY NodesOf DEF Placement
<1>2. \A a \in N : t.linear[t.indx[a]] = a
  BY NodesOf DEF Placement
<1>3. \A i \in 1 .. Len(t.linear) : t.indx[t.linear[i]] = i
  BY DEF Placement
<1>4. ASSUME NEW a \in N, NEW b \in N, t.indx[a] = t.indx[b] PROVE a = b
  BY <1>2, <1>4
<1> QED
  BY <1>1, <1>2, <1>3, <1>4

\* A node that still has its turn to come is where it was, and what stands
\* behind it stood behind it.
LEMMA TailPlaces ==
  ASSUME NEW N, NEW t \in Timelines(N), Placement(t), NEW u, NEW k \in Nat,
         k < Len(t.linear), TailSorted(N, t, u, k)
  PROVE  /\ t.linear[Len(t.linear) - k] \in N
         /\ u.indx[t.linear[Len(t.linear) - k]] = Len(t.linear) - k
         /\ \A a \in N : u.indx[a] > Len(t.linear) - k => t.indx[a] > Len(t.linear) - k
<1> DEFINE l == Len(t.linear)
           n == t.linear[l - k]
<1>1. l \in Nat /\ l - k \in 1 .. l
  BY NodesOf
<1>2. n \in N /\ t.indx[n] = l - k
  BY <1>1, Places
<1>3. u.indx[n] = l - k
  BY <1>1, <1>2 DEF TailSorted
<1>4. ASSUME NEW a \in N, u.indx[a] > l - k
      PROVE  t.indx[a] > l - k
  <2>1. t.indx[a] \in Nat
    BY Places
  <2>2. t.indx[a] <= l - k => u.indx[a] = t.indx[a]
    BY DEF TailSorted
  <2> HIDE DEF n, l
  <2> QED
    BY <1>1, <1>4, <2>1, <2>2
<1> QED
  BY <1>2, <1>3, <1>4

\* Only what was visited can be out of order.
OutOfOrder(N, t, visited) ==
  \A a, b \in N : t.indx[a] < t.indx[b] /\ a \notin visited => Less(t.rank, a, b)

LEMMA RiseTurn ==
  ASSUME NEW N \in SUBSET Names, NEW t \in Timelines(N), Placement(t), NEW visited,
         OutOfOrder(N, t, visited),
         NEW k \in Nat, k < Len(t.linear), NEW s, TailSorted(N, t, s, k)
  PROVE  LET n == t.linear[Len(t.linear) - k] IN
         /\ n \in visited => TailSorted(N, t, Rise(s, n), k + 1)
         /\ n \notin visited => TailSorted(N, t, s, k + 1)
<1> DEFINE l == Len(t.linear)
           j == l - k
           n == t.linear[l - k]
<1>1. /\ l \in Nat /\ j \in Nat /\ 1 <= j /\ l - (k + 1) = j - 1
      /\ n \in N /\ t.indx[n] = j /\ s.indx[n] = j
  <2>1. l \in Nat /\ j \in 1 .. l
    BY NodesOf
  <2>2. n \in N /\ s.indx[n] = j
    BY TailPlaces
  <2>3. t.indx[n] = j
    BY <2>1, Places
  <2> QED
    BY <2>1, <2>2, <2>3
<1>2. /\ Arranged(N, t, s) /\ s \in Timelines(N) /\ Placement(s) /\ s.rank = t.rank
  BY DEF TailSorted, Arranged
<1>3. /\ \A a \in N : t.indx[a] <= j => s.indx[a] = t.indx[a]
      /\ \A a, b \in N : j < s.indx[a] /\ s.indx[a] < s.indx[b] => Less(t.rank, a, b)
  BY DEF TailSorted
<1>4. \A a \in N : s.indx[a] > j => t.indx[a] > j
  BY TailPlaces
<1>5. \A a \in N : t.indx[a] \in Nat /\ s.indx[a] \in Nat /\ (a # n => s.indx[a] # j)
  BY <1>1, <1>2, Places
<1> HIDE DEF l, j, n
<1>6. ASSUME n \notin visited PROVE TailSorted(N, t, s, k + 1)
  <2>2. \A a \in N : t.indx[a] <= j - 1 => s.indx[a] = t.indx[a]
    BY <1>1, <1>3, <1>5
  <2>3. ASSUME NEW a \in N, NEW b \in N, j - 1 < s.indx[a], s.indx[a] < s.indx[b]
        PROVE  Less(t.rank, a, b)
    <3>1. CASE a = n
      <4>1. t.indx[n] < t.indx[b]
        BY <1>1, <1>4, <2>3, <3>1
      <4> QED
        BY <1>6, <3>1, <4>1 DEF OutOfOrder
    <3>2. CASE a # n
      BY <1>1, <1>3, <1>5, <2>3, <3>2
    <3> QED
      BY <3>1, <3>2
  <2> QED
    BY <1>1, <1>2, <2>2, <2>3 DEF TailSorted, l
<1>7. ASSUME n \in visited PROVE TailSorted(N, t, Rise(s, n), k + 1)
  <2> DEFINE u == Rise(s, n)
  <2>1. u = Rise(s, n)
    OBVIOUS
  <2> HIDE DEF u
  <2>2. SortedAfter(N, s, n)
    BY <1>1, <1>2, <1>3 DEF SortedAfter
  <2>3. /\ Arranged(N, s, u)
        /\ \A a, b \in N : a # n /\ b # n =>
             (u.indx[a] < u.indx[b] <=> s.indx[a] < s.indx[b])
        /\ \A a \in N : s.indx[a] < s.indx[n] =>
             u.indx[a] = s.indx[a] /\ u.indx[a] < u.indx[n]
        /\ \A a \in N : a # n /\ u.indx[a] < u.indx[n] =>
             s.indx[a] < s.indx[n] \/ Less(s.rank, a, n)
        /\ \A a \in N : u.indx[n] < u.indx[a] => Less(s.rank, n, a)
    BY <1>1, <1>2, <2>1, <2>2, RiseOrder
  <2>4. Arranged(N, t, u)
    BY <1>2, <2>3 DEF Arranged
  <2>5. \A a \in N : t.indx[a] <= j - 1 => u.indx[a] = t.indx[a]
    <3> SUFFICES ASSUME NEW a \in N, t.indx[a] <= j - 1 PROVE u.indx[a] = t.indx[a]
      OBVIOUS
    <3>1. t.indx[a] <= j
      BY <1>1, <1>5
    <3>2. s.indx[a] = t.indx[a]
      BY <1>3, <3>1
    <3>3. s.indx[a] < s.indx[n]
      BY <1>1, <1>5, <3>2
    <3> QED
      BY <2>3, <3>2, <3>3
  <2>6. ASSUME NEW a \in N, NEW b \in N, j - 1 < u.indx[a], u.indx[a] < u.indx[b]
        PROVE  Less(t.rank, a, b)
    <3>1. a # n => ~ (s.indx[a] < s.indx[n])
      <4> SUFFICES ASSUME s.indx[a] < s.indx[n] PROVE FALSE
        OBVIOUS
      <4>1. u.indx[a] = s.indx[a] /\ s.indx[a] < j
        BY <1>1, <2>3
      <4> QED
        BY <1>1, <1>5, <2>6, <4>1
    <3>2. CASE a = n
      BY <1>2, <2>3, <2>6, <3>2
    <3>3. CASE a # n /\ b = n
      BY <1>2, <2>3, <2>6, <3>1, <3>3
    <3>4. CASE a # n /\ b # n
      <4>1. s.indx[a] < s.indx[b]
        BY <2>3, <2>6, <3>4
      <4>2. j < s.indx[a]
        BY <1>1, <1>5, <3>1, <3>4
      <4> QED
        BY <1>3, <4>1, <4>2
    <3> QED
      BY <3>2, <3>3, <3>4
  <2> QED
    BY <1>1, <2>1, <2>4, <2>5, <2>6 DEF TailSorted, l
<1> QED
  BY <1>6, <1>7 DEF n, l

\* When only what the wave visited can be out of order, its rising puts all in order.
LEMMA RiseAllSorts ==
  ASSUME NEW N \in SUBSET Names, NEW t \in Timelines(N), Placement(t), NEW visited,
         OutOfOrder(N, t, visited),
         NEW u, u = RiseAll(t, visited)
  PROVE  /\ Arranged(N, t, u)
         /\ \A a, b \in N : u.indx[a] < u.indx[b] => Less(t.rank, a, b)
<1> DEFINE l == Len(t.linear)
<1>1. l \in Nat
  BY NodesOf
<1>2. PICK f :
        /\ f[0] = t
        /\ \A k \in 1 .. Len(t.linear) :
             f[k] = IF t.linear[Len(t.linear) + 1 - k] \in visited
                    THEN Rise(f[k - 1], t.linear[Len(t.linear) + 1 - k]) ELSE f[k - 1]
        /\ RiseAll(t, visited) = f[Len(t.linear)]
  BY <1>1, RiseAllRun
<1> DEFINE T == {k \in 0 .. l : ~ TailSorted(N, t, f[k], k)}
<1>3. T = {}
  <2> SUFFICES ASSUME T # {} PROVE FALSE
    OBVIOUS
  <2>1. T \in SUBSET Nat
    BY <1>1
  <2>2. PICK k \in T : \A i \in T : k <= i
    <3> HIDE DEF T
    <3> QED
      BY <2>1, LeastNatural
  <2>3. k \in 0 .. l /\ ~ TailSorted(N, t, f[k], k)
    OBVIOUS
  <2>4. CASE k = 0
    <3>1. Arranged(N, t, t)
      BY DEF Arranged
    <3>2. \A a, b \in N : ~ (l - 0 < t.indx[a])
      BY <1>1, Places
    <3>3. TailSorted(N, t, t, 0)
      BY <3>1, <3>2 DEF TailSorted
    <3> QED
      BY <1>2, <2>3, <2>4, <3>3
  <2>5. CASE k # 0
    <3> DEFINE m == k - 1
               n == t.linear[l - m]
    <3>1. k \in 1 .. l /\ m \in 0 .. l /\ m \in Nat /\ m < l /\ m < k /\ k = m + 1 /\ l + 1 - k = l - m
      BY <1>1, <2>3, <2>5
    <3>2. m \notin T
      BY <2>2, <3>1
    <3>3. TailSorted(N, t, f[m], m)
      BY <3>1, <3>2
    <3>4. f[k] = IF n \in visited THEN Rise(f[m], n) ELSE f[m]
      BY <1>2, <3>1
    <3> DEFINE x == f[m]
    <3> HIDE DEF m, T, x
    <3>6. m \in Nat /\ m < Len(t.linear) /\ TailSorted(N, t, x, m)
      BY <3>1, <3>3 DEF x
    <3>7. /\ t.linear[Len(t.linear) - m] \in visited
               => TailSorted(N, t, Rise(x, t.linear[Len(t.linear) - m]), m + 1)
          /\ t.linear[Len(t.linear) - m] \notin visited => TailSorted(N, t, x, m + 1)
      BY <3>6, RiseTurn
    <3>5. TailSorted(N, t, f[k], m + 1)
      BY <3>4, <3>7 DEF x
    <3> QED
      BY <2>3, <3>1, <3>5
  <2> QED
    BY <2>4, <2>5
<1>4. TailSorted(N, t, u, l)
  BY <1>1, <1>2, <1>3
<1>5. \A a \in N : l - l < u.indx[a]
  <2>1. u \in Timelines(N) /\ Placement(u)
    BY <1>4 DEF TailSorted, Arranged
  <2> QED
    BY <1>1, <2>1, Places
<1> QED
  BY <1>4, <1>5 DEF TailSorted

-----------------------------------------------------------------------------
(* The wave *)

LEMMA NodesFinite ==
  ASSUME NEW N \in SUBSET Names
  PROVE  /\ IsFiniteSet(N) /\ Cardinality(N) \in Nat
         /\ \A n \in N : Cardinality(N) >= 1
<1>1. IsFiniteSet(N)
  BY FS_Subset, NamesAssumption
<1>2. Cardinality(N) \in Nat /\ (Cardinality(N) = 0 <=> N = {})
  BY <1>1, FS_CardinalityType, FS_EmptySet
<1> QED
  BY <1>1, <1>2

\* The levels of a wave.
IsWave(f, N, t, n, base) ==
  /\ f[0] = [front |-> {n}, visited |-> {}, rank |-> t.rank]
  /\ \A d \in 1 .. Cardinality(N) : f[d] = Level(t, f[d - 1], base + d)
  /\ Wave(t, n, base) = f[Cardinality(N)]

LEMMA WaveRun ==
  ASSUME NEW N \in SUBSET Names, NEW t \in Timelines(N), NEW n, NEW base \in Nat
  PROVE  \E f : IsWave(f, N, t, n, base)
<1> DEFINE l == Cardinality(N)
           start == [front |-> {n}, visited |-> {}, rank |-> t.rank]
           loop == [kind |-> "wave", t |-> t, base |-> base]
           Turn(x, d) == Level(t, x, base + d)
           f == CHOOSE f : f = [d \in 0 .. l |-> IF d = 0 THEN start ELSE Turn(f[d - 1], d)]
<1>1. Wave(t, n, base) = f[l]
  BY NodesOf DEF Wave
<1>2. \A x, d : Round(loop, x, d) = Turn(x, d)
  BY DEF Round
<1> HIDE DEF Turn, l, loop, start
<1>6. l \in Nat
  BY NodesFinite DEF l
<1>3. PICK g : IsRun(g, loop, start, l)
  BY <1>6, RunExists
<1>4. g = [d \in 0 .. l |-> IF d = 0 THEN start ELSE Turn(g[d - 1], d)]
  BY <1>2, <1>3 DEF IsRun
<1>5. f = [d \in 0 .. l |-> IF d = 0 THEN start ELSE Turn(f[d - 1], d)]
  BY <1>4
<1> HIDE DEF f
<1>7. f[0] = start /\ \A d \in 1 .. l : f[d] = Turn(f[d - 1], d)
  BY <1>5, <1>6
<1> QED
  BY <1>1, <1>7 DEF Turn, l, start, IsWave

\* What a level does to the ranks.
LEMMA LevelRanks ==
  ASSUME NEW N, NEW t \in Timelines(N), NEW w, NEW r \in Nat, w.front \in SUBSET N,
         w.rank \in [N -> Nat], NEW v, v = Level(t, w, r)
  PROVE  /\ v.front \in SUBSET N /\ v.visited = w.visited \cup w.front
         /\ v.rank \in [N -> Nat]
         /\ \A m \in N : v.rank[m] = IF m \in w.front /\ w.rank[m] < r THEN r ELSE w.rank[m]
         /\ \A m \in N : m \in v.front <=>
              \E c \in N : c \in w.front /\ w.rank[c] < r /\ m \in t.succ[c]
<1> DEFINE raised == {c \in w.front : w.rank[c] < r}
<1>1. v = [front |-> UNION {t.succ[c] : c \in raised},
           visited |-> w.visited \cup w.front,
           rank |-> [c \in N |-> IF c \in raised THEN r ELSE w.rank[c]]]
  BY NodesOf DEF Level
<1>2. raised \in SUBSET N
  OBVIOUS
<1>3. \A c \in N : t.succ[c] \in SUBSET N
  BY NodesOf
<1>4. v.front = UNION {t.succ[c] : c \in raised} /\ v.visited = w.visited \cup w.front
  BY <1>1
<1>5. v.rank = [c \in N |-> IF c \in raised THEN r ELSE w.rank[c]]
  BY <1>1
<1>6. v.front \in SUBSET N
  BY <1>2, <1>3, <1>4
<1>7. \A m \in N : v.rank[m] = IF m \in w.front /\ w.rank[m] < r THEN r ELSE w.rank[m]
  BY <1>5
<1>8. v.rank \in [N -> Nat]
  BY <1>5
<1>9. \A m \in N : m \in v.front <=>
        \E c \in N : c \in w.front /\ w.rank[c] < r /\ m \in t.succ[c]
  BY <1>2, <1>4
<1> QED
  BY <1>4, <1>6, <1>7, <1>8, <1>9

\* From a node without effects the wave reaches no other.
LEMMA WaveAlone ==
  ASSUME NEW N \in SUBSET Names, NEW t \in Timelines(N), NEW n \in N, t.succ[n] = {},
         NEW base \in Nat, NEW w, w = Wave(t, n, base)
  PROVE  /\ w.visited = {n}
         /\ w.rank \in [N -> Nat]
         /\ \A m \in N : w.rank[m] = IF m = n /\ t.rank[m] < base + 1 THEN base + 1 ELSE t.rank[m]
<1> DEFINE l == Cardinality(N)
           Q(x) == /\ x.front = {} /\ x.visited = {n}
                   /\ x.rank \in [N -> Nat]
                   /\ \A m \in N : x.rank[m] = IF m = n /\ t.rank[m] < base + 1 THEN base + 1
                                               ELSE t.rank[m]
<1>1. l \in Nat /\ l >= 1 /\ Nodes(t) = N /\ t.rank \in [N -> Nat]
  BY NodesFinite, NodesOf
<1>2. PICK f : IsWave(f, N, t, n, base)
  BY WaveRun
<1>3. Q(f[1])
  <2> DEFINE x == f[0]
             y == f[1]
  <2>1. x.front = {n} /\ x.visited = {} /\ x.rank = t.rank
    BY <1>2 DEF IsWave
  <2>2. y = Level(t, x, base + 1) /\ base + 1 \in Nat
    <3>1. 1 \in 1 .. l /\ 1 - 1 = 0
      BY <1>1
    <3> QED
      BY <1>2, <3>1 DEF IsWave
  <2> HIDE DEF x, y
  <2>3. x.front \in SUBSET N /\ x.rank \in [N -> Nat]
    BY <1>1, <2>1
  <2>4. /\ y.front \in SUBSET N /\ y.visited = x.visited \cup x.front
        /\ y.rank \in [N -> Nat]
        /\ \A m \in N : y.rank[m] = IF m \in x.front /\ x.rank[m] < base + 1 THEN base + 1
                                    ELSE x.rank[m]
        /\ \A m \in N : m \in y.front <=>
             \E c \in N : c \in x.front /\ x.rank[c] < base + 1 /\ m \in t.succ[c]
    BY <2>2, <2>3, LevelRanks
  <2>5. y.front = {}
    BY <2>1, <2>4
  <2>6. \A m \in N : y.rank[m] = IF m = n /\ t.rank[m] < base + 1 THEN base + 1 ELSE t.rank[m]
    BY <2>1, <2>4
  <2> QED
    BY <2>1, <2>4, <2>5, <2>6 DEF y
<1> DEFINE T == {d \in 1 .. l : ~ Q(f[d])}
<1>4. T = {}
  <2> SUFFICES ASSUME T # {} PROVE FALSE
    OBVIOUS
  <2>1. T \in SUBSET Nat
    BY <1>1
  <2>2. PICK d \in T : \A i \in T : d <= i
    <3> HIDE DEF T
    <3> QED
      BY <2>1, LeastNatural
  <2>3. d \in 1 .. l /\ ~ Q(f[d]) /\ d # 1
    <3> HIDE DEF Q
    <3> QED
      BY <1>3
  <2> DEFINE x == f[d - 1]
             y == f[d]
  <2>4. d - 1 \in 1 .. l /\ d - 1 < d /\ base + d \in Nat
    BY <1>1, <2>3
  <2>5. Q(x)
    <3> HIDE DEF Q
    <3> QED
      BY <2>2, <2>3, <2>4
  <2>6. y = Level(t, x, base + d)
    BY <1>2, <2>3 DEF IsWave
  <2> HIDE DEF x, y, T
  <2>7. x.front \in SUBSET N /\ x.rank \in [N -> Nat] /\ x.front = {}
    BY <2>5
  <2>15. x.front \in SUBSET N /\ x.rank \in [N -> Nat]
    BY <2>7
  <2> DEFINE r == base + d
  <2>14. r \in Nat /\ y = Level(t, x, r)
    BY <2>4, <2>6
  <2> HIDE DEF r
  <2>8. /\ y.front \in SUBSET N /\ y.visited = x.visited \cup x.front
        /\ y.rank \in [N -> Nat]
        /\ \A m \in N : y.rank[m] = IF m \in x.front /\ x.rank[m] < r THEN r
                                    ELSE x.rank[m]
        /\ \A m \in N : m \in y.front <=>
             \E c \in N : c \in x.front /\ x.rank[c] < r /\ m \in t.succ[c]
    BY <2>14, <2>15, LevelRanks
  <2>9. y.front = {}
    BY <2>7, <2>8
  <2>10. \A m \in N : y.rank[m] = x.rank[m]
    BY <2>7, <2>8
  <2>11. y.visited = {n}
    BY <2>5, <2>7, <2>8
  <2>12. \A m \in N : y.rank[m] = IF m = n /\ t.rank[m] < base + 1 THEN base + 1 ELSE t.rank[m]
    BY <2>5, <2>10
  <2>13. Q(y)
    BY <2>8, <2>9, <2>11, <2>12
  <2> HIDE DEF Q
  <2> QED
    BY <2>3, <2>13 DEF y
<1>5. Q(f[l])
  <2>1. l \in 1 .. l
    BY <1>1
  <2> HIDE DEF Q
  <2> QED
    BY <1>4, <2>1
<1> QED
  BY <1>2, <1>5 DEF IsWave

\* A numbering that rises along the links.
Heights(N, succ, h) ==
  /\ h \in [N -> Nat]
  /\ \A m \in N : h[m] < Cardinality(N)
  /\ \A m, k \in N : k \in succ[m] => h[m] < h[k]

\* The rank of m is its old one, the one over the new cause, or the one over a link.
Tight(N, t, n, base, rank, m) ==
  \/ rank[m] = t.rank[m]
  \/ m = n /\ rank[m] = base + 1
  \/ \E c \in N : m \in t.succ[c] /\ rank[m] = rank[c] + 1

\* After d levels: links and ranks that are not right yet have their effect in
\* front, and it is too low to stay as it is.
WaveInv(N, t, n, base, h, w, d) ==
  /\ w.front \in SUBSET N /\ w.visited \in SUBSET N /\ w.rank \in [N -> Nat]
  /\ \A m \in N : t.rank[m] <= w.rank[m] /\ (m \notin w.visited => w.rank[m] = t.rank[m])
  /\ \A m \in N : m \in w.front => h[n] + d <= h[m]
  /\ \A m \in N : m \in w.visited => h[n] <= h[m]
  /\ \A m, k \in N : k \in t.succ[m] =>
       w.rank[m] < w.rank[k] \/ (k \in w.front /\ w.rank[m] <= base + d)
  /\ \A m \in N : Tight(N, t, n, base, w.rank, m) \/ (m \in w.front /\ w.rank[m] <= base + d)
  /\ \A m \in N : m \in w.front =>
       \/ d = 0 /\ m = n
       \/ \E c \in N : m \in t.succ[c] /\ w.rank[c] = base + d
  /\ d = 0 => n \in w.front
  /\ d > 0 => n \in w.visited /\ base + 1 <= w.rank[n]

LEMMA WaveStep ==
  ASSUME NEW N, NEW t \in Timelines(N), NEW n \in N, NEW base \in Nat, NEW h,
         Heights(N, t.succ, h), NEW w, NEW d \in Nat, WaveInv(N, t, n, base, h, w, d),
         NEW v, v = Level(t, w, base + (d + 1))
  PROVE  WaveInv(N, t, n, base, h, v, d + 1)
<1> DEFINE r == base + (d + 1)
<1>1. r \in Nat /\ r = base + d + 1
  OBVIOUS
<1>2. w.front \in SUBSET N /\ w.visited \in SUBSET N /\ w.rank \in [N -> Nat]
  BY DEF WaveInv
<1>3. v = Level(t, w, r)
  OBVIOUS
<1> HIDE DEF r
<1>4. /\ v.front \in SUBSET N /\ v.visited = w.visited \cup w.front
      /\ v.rank \in [N -> Nat]
      /\ \A m \in N : v.rank[m] = IF m \in w.front /\ w.rank[m] < r THEN r ELSE w.rank[m]
      /\ \A m \in N : m \in v.front <=>
           \E c \in N : c \in w.front /\ w.rank[c] < r /\ m \in t.succ[c]
  BY <1>1, <1>2, <1>3, LevelRanks
<1> DEFINE Raised(m) == m \in w.front /\ w.rank[m] < r
<1>5. /\ \A m \in N : w.rank[m] \in Nat /\ v.rank[m] \in Nat /\ t.rank[m] \in Nat /\ h[m] \in Nat
      /\ \A m \in N : Raised(m) => v.rank[m] = r
      /\ \A m \in N : ~ Raised(m) => v.rank[m] = w.rank[m]
      /\ \A m, k \in N : Raised(m) /\ k \in t.succ[m] => k \in v.front
      /\ \A k \in N : k \in v.front => \E m \in N : Raised(m) /\ k \in t.succ[m]
  BY <1>2, <1>4, NodesOf DEF Heights
<1>6. \A m \in N : Raised(m) <=> (m \in w.front /\ w.rank[m] < r)
  OBVIOUS
<1> HIDE DEF Raised
<1>7. v.visited \in SUBSET N
  BY <1>2, <1>4
<1>8. \A m \in N : t.rank[m] <= v.rank[m] /\ (m \notin v.visited => v.rank[m] = t.rank[m])
  <2>1. \A m \in N : t.rank[m] <= w.rank[m] /\ (m \notin w.visited => w.rank[m] = t.rank[m])
    BY DEF WaveInv
  <2> QED
    BY <1>1, <1>4, <1>5, <1>6, <2>1
<1>9. \A k \in N : k \in v.front => h[n] + (d + 1) <= h[k]
  <2> SUFFICES ASSUME NEW k \in N, k \in v.front PROVE h[n] + (d + 1) <= h[k]
    OBVIOUS
  <2>1. PICK m \in N : Raised(m) /\ k \in t.succ[m]
    BY <1>5
  <2>2. h[n] + d <= h[m]
    BY <1>6, <2>1 DEF WaveInv
  <2>3. h[m] < h[k]
    BY <2>1 DEF Heights
  <2> QED
    BY <1>5, <2>2, <2>3
<1>10. \A m \in N : m \in v.visited => h[n] <= h[m]
  <2> SUFFICES ASSUME NEW m \in N, m \in v.visited PROVE h[n] <= h[m]
    OBVIOUS
  <2>1. CASE m \in w.visited
    BY <2>1 DEF WaveInv
  <2>2. CASE m \in w.front
    <3>1. h[n] + d <= h[m]
      BY <2>2 DEF WaveInv
    <3> QED
      BY <1>5, <3>1
  <2> QED
    BY <1>4, <2>1, <2>2
<1>11. \A m, k \in N : k \in t.succ[m] =>
         v.rank[m] < v.rank[k] \/ (k \in v.front /\ v.rank[m] <= base + (d + 1))
  <2> SUFFICES ASSUME NEW m \in N, NEW k \in N, k \in t.succ[m]
               PROVE  v.rank[m] < v.rank[k] \/ (k \in v.front /\ v.rank[m] <= base + (d + 1))
    OBVIOUS
  <2>1. w.rank[m] < w.rank[k] \/ (k \in w.front /\ w.rank[m] <= base + d)
    BY DEF WaveInv
  <2>2. CASE Raised(m)
    BY <1>5, <2>2 DEF r
  <2>3. CASE ~ Raised(m) /\ Raised(k)
    BY <1>1, <1>5, <1>6, <2>1, <2>3
  <2>4. CASE ~ Raised(m) /\ ~ Raised(k)
    BY <1>1, <1>5, <1>6, <2>1, <2>4
  <2> QED
    BY <2>2, <2>3, <2>4
<1>12. \A m \in N : Tight(N, t, n, base, v.rank, m) \/ (m \in v.front /\ v.rank[m] <= base + (d + 1))
  <2> SUFFICES ASSUME NEW m \in N
               PROVE  Tight(N, t, n, base, v.rank, m) \/ (m \in v.front /\ v.rank[m] <= base + (d + 1))
    OBVIOUS
  <2>1. CASE Raised(m)
    <3>1. v.rank[m] = r /\ m \in w.front
      BY <1>5, <1>6, <2>1
    <3>2. \/ d = 0 /\ m = n
          \/ \E c \in N : m \in t.succ[c] /\ w.rank[c] = base + d
      BY <3>1 DEF WaveInv
    <3>3. CASE d = 0 /\ m = n
      BY <1>1, <3>1, <3>3 DEF Tight
    <3>4. CASE \E c \in N : m \in t.succ[c] /\ w.rank[c] = base + d
      <4>1. PICK c \in N : m \in t.succ[c] /\ w.rank[c] = base + d
        BY <3>4
      <4>2. CASE Raised(c)
        <5>1. m \in v.front
          BY <1>5, <4>1, <4>2
        <5>2. v.rank[m] <= base + (d + 1)
          BY <3>1, <1>5 DEF r
        <5> QED
          BY <5>1, <5>2
      <4>3. CASE ~ Raised(c)
        <5>1. v.rank[c] = base + d
          BY <1>5, <4>1, <4>3
        <5>2. v.rank[m] = v.rank[c] + 1
          BY <1>1, <3>1, <5>1
        <5> QED
          BY <4>1, <5>2 DEF Tight
      <4> QED
        BY <4>2, <4>3
    <3> QED
      BY <3>2, <3>3, <3>4
  <2>2. CASE ~ Raised(m)
    <3>1. v.rank[m] = w.rank[m]
      BY <1>5, <2>2
    <3>2. ~ (m \in w.front /\ w.rank[m] <= base + d)
      BY <1>1, <1>5, <1>6, <2>2
    <3>3. Tight(N, t, n, base, w.rank, m)
      BY <3>2 DEF WaveInv
    <3>4. CASE w.rank[m] = t.rank[m] \/ (m = n /\ w.rank[m] = base + 1)
      BY <3>1, <3>4 DEF Tight
    <3>5. CASE \E c \in N : m \in t.succ[c] /\ w.rank[m] = w.rank[c] + 1
      <4>1. PICK c \in N : m \in t.succ[c] /\ w.rank[m] = w.rank[c] + 1
        BY <3>5
      <4>2. CASE Raised(c)
        <5>1. m \in v.front /\ w.rank[c] < r
          BY <1>5, <1>6, <4>1, <4>2
        <5>2. v.rank[m] <= base + (d + 1)
          BY <1>1, <1>5, <3>1, <4>1, <5>1
        <5> QED
          BY <5>1, <5>2
      <4>3. CASE ~ Raised(c)
        <5>1. v.rank[c] = w.rank[c]
          BY <1>5, <4>3
        <5> QED
          BY <3>1, <4>1, <5>1 DEF Tight
      <4> QED
        BY <4>2, <4>3
    <3> QED
      BY <3>3, <3>4, <3>5 DEF Tight
  <2> QED
    BY <2>1, <2>2
<1>13. \A k \in N : k \in v.front =>
         \/ d + 1 = 0 /\ k = n
         \/ \E c \in N : k \in t.succ[c] /\ v.rank[c] = base + (d + 1)
  BY <1>5 DEF r
<1>14. n \in v.visited /\ base + 1 <= v.rank[n]
  <2>1. CASE d = 0
    <3>1. n \in w.front
      BY <2>1 DEF WaveInv
    <3>2. base + 1 <= v.rank[n]
      BY <1>1, <1>5, <1>6, <2>1, <3>1
    <3> QED
      BY <1>4, <3>1, <3>2
  <2>2. CASE d # 0
    <3>1. n \in w.visited /\ base + 1 <= w.rank[n]
      BY <2>2 DEF WaveInv
    <3>2. w.rank[n] <= v.rank[n]
      BY <1>1, <1>5, <1>6
    <3> QED
      BY <1>4, <1>5, <3>1, <3>2
  <2> QED
    BY <2>1, <2>2
<1>15. ~ (d + 1 = 0)
  OBVIOUS
<1> QED
  BY <1>4, <1>7, <1>8, <1>9, <1>10, <1>11, <1>12, <1>13, <1>14, <1>15 DEF WaveInv

\* A wave (_visit) leaves every link rising again, and no rank higher than it must be.
LEMMA WaveSpreads ==
  ASSUME NEW N \in SUBSET Names, NEW t \in Timelines(N), NEW n \in N, NEW base \in Nat, NEW h,
         Heights(N, t.succ, h),
         \A m, k \in N : k \in t.succ[m] => t.rank[m] < t.rank[k],
         NEW w, w = Wave(t, n, base)
  PROVE  /\ w.visited \in SUBSET N /\ n \in w.visited /\ w.rank \in [N -> Nat]
         /\ \A m \in N : t.rank[m] <= w.rank[m] /\ (m \notin w.visited => w.rank[m] = t.rank[m])
         /\ base + 1 <= w.rank[n]
         /\ \A m \in N : m \in w.visited => h[n] <= h[m]
         /\ \A m, k \in N : k \in t.succ[m] => w.rank[m] < w.rank[k]
         /\ \A m \in N : Tight(N, t, n, base, w.rank, m)
<1> DEFINE l == Cardinality(N)
<1>1. l \in Nat /\ l >= 1 /\ t.rank \in [N -> Nat]
  BY NodesFinite, NodesOf
<1>2. PICK f : IsWave(f, N, t, n, base)
  BY WaveRun
<1> DEFINE T == {d \in 0 .. l : ~ WaveInv(N, t, n, base, h, f[d], d)}
<1>3. T = {}
  <2> SUFFICES ASSUME T # {} PROVE FALSE
    OBVIOUS
  <2>1. T \in SUBSET Nat
    BY <1>1
  <2>2. PICK d \in T : \A i \in T : d <= i
    <3> HIDE DEF T
    <3> QED
      BY <2>1, LeastNatural
  <2>3. d \in 0 .. l /\ ~ WaveInv(N, t, n, base, h, f[d], d)
    OBVIOUS
  <2>4. CASE d = 0
    <3> DEFINE x == f[0]
    <3>1. x.front = {n} /\ x.visited = {} /\ x.rank = t.rank
      BY <1>2 DEF IsWave
    <3> HIDE DEF x
    <3>2. \A m \in N : t.rank[m] \in Nat /\ h[m] \in Nat
      BY <1>1 DEF Heights
    <3>3. x.front \in SUBSET N /\ x.visited \in SUBSET N /\ x.rank \in [N -> Nat] /\ n \in x.front
      BY <1>1, <3>1
    <3>4. \A m \in N : t.rank[m] <= x.rank[m] /\ x.rank[m] = t.rank[m] /\ m \notin x.visited
      BY <3>1, <3>2
    <3>5. \A m \in N : m \in x.front => m = n /\ h[n] + 0 <= h[m]
      BY <3>1, <3>2
    <3>6. \A m \in N : Tight(N, t, n, base, x.rank, m)
      BY <3>4 DEF Tight
    <3>7. \A m, k \in N : k \in t.succ[m] => x.rank[m] < x.rank[k]
      BY <3>1
    <3>8. WaveInv(N, t, n, base, h, x, 0)
      BY <3>3, <3>4, <3>5, <3>6, <3>7 DEF WaveInv
    <3> QED
      BY <2>3, <2>4, <3>8 DEF x
  <2>5. CASE d # 0
    <3> DEFINE i == d - 1
               x == f[i]
               y == f[d]
    <3>1. i \in 0 .. l /\ i \in Nat /\ i < d /\ i + 1 = d /\ d \in 1 .. l
      BY <1>1, <2>3, <2>5
    <3>2. i \notin T
      BY <2>2, <3>1
    <3>3. WaveInv(N, t, n, base, h, x, i)
      BY <3>1, <3>2
    <3>4. y = Level(t, x, base + d)
      BY <1>2, <3>1 DEF IsWave
    <3>5. y = Level(t, x, base + (i + 1))
      BY <3>1, <3>4
    <3> HIDE DEF i, x, y, T
    <3>6. WaveInv(N, t, n, base, h, y, i + 1)
      BY <3>1, <3>3, <3>5, WaveStep
    <3> QED
      BY <2>3, <3>1, <3>6 DEF y
  <2> QED
    BY <2>4, <2>5
<1>4. WaveInv(N, t, n, base, h, w, l)
  <2>1. l \in 0 .. l
    BY <1>1
  <2>2. w = f[l]
    BY <1>2 DEF IsWave
  <2> QED
    BY <1>3, <2>1, <2>2
<1>5. \A m \in N : m \notin w.front
  <2> SUFFICES ASSUME NEW m \in N, m \in w.front PROVE FALSE
    OBVIOUS
  <2>1. h[n] + l <= h[m]
    BY <1>4 DEF WaveInv
  <2>2. h[m] < l /\ h[m] \in Nat /\ h[n] \in Nat
    BY DEF Heights
  <2> QED
    BY <1>1, <2>1, <2>2
<1> HIDE DEF l
<1>6. n \in w.visited /\ base + 1 <= w.rank[n]
  BY <1>1, <1>4 DEF WaveInv
<1>7. /\ w.visited \in SUBSET N /\ w.rank \in [N -> Nat]
      /\ \A m \in N : t.rank[m] <= w.rank[m] /\ (m \notin w.visited => w.rank[m] = t.rank[m])
      /\ \A m \in N : m \in w.visited => h[n] <= h[m]
  BY <1>4 DEF WaveInv
<1>8. \A m, k \in N : k \in t.succ[m] => w.rank[m] < w.rank[k]
  BY <1>4, <1>5 DEF WaveInv
<1>9. \A m \in N : Tight(N, t, n, base, w.rank, m)
  BY <1>4, <1>5 DEF WaveInv
<1> QED
  BY <1>6, <1>7, <1>8, <1>9

-----------------------------------------------------------------------------
(* An edge to the past *)

\* The timeline stands in the order of ranks and names.
InOrder(N, t) == \A a, b \in N : t.indx[a] < t.indx[b] => Less(t.rank, a, b)

\* A timeline with the links of t.
SameLinks(t, u) ==
  u.after = t.after /\ u.known = t.known /\ u.succ = t.succ
  /\ u.pending = t.pending /\ u.tips = t.tips

LEMMA WithRank ==
  ASSUME NEW N, NEW t \in Timelines(N), Placement(t), NEW rank \in [N -> Nat],
         NEW s, s = [t EXCEPT !.rank = rank]
  PROVE  /\ s \in Timelines(N) /\ Placement(s) /\ SameLinks(t, s)
         /\ s.rank = rank /\ s.linear = t.linear /\ s.indx = t.indx
<1>1. /\ s \in Timelines(N) /\ SameLinks(t, s)
      /\ s.rank = rank /\ s.linear = t.linear /\ s.indx = t.indx
  BY DEF Timelines, SameLinks
<1>2. Nodes(s) = Nodes(t)
  BY <1>1, NodesOf
<1> QED
  BY <1>1, <1>2 DEF Placement

LEMMA EdgeSorts ==
  ASSUME NEW N \in SUBSET Names, NEW t \in Timelines(N), Placement(t), InOrder(N, t),
         \A m, k \in N : k \in t.succ[m] => t.rank[m] < t.rank[k],
         NEW h, Heights(N, t.succ, h),
         NEW e \in N, NEW n \in N, h[n] < h[e],
         NEW u, u = AddEdgeToThePast(t, e, n)
  PROVE  /\ u \in Timelines(N) /\ Placement(u) /\ SameLinks(t, u) /\ InOrder(N, u)
         /\ u.rank[n] = t.rank[n] /\ u.rank[n] < u.rank[e]
         /\ \A m \in N : t.rank[m] <= u.rank[m]
         /\ \A m, k \in N : k \in t.succ[m] => u.rank[m] < u.rank[k]
         /\ \A m \in N : Tight(N, t, e, t.rank[n], u.rank, m)
<1> DEFINE base == t.rank[n]
           w == Wave(t, e, base)
           s == [t EXCEPT !.rank = w.rank]
           v == IF s.indx[e] < s.indx[n] THEN Jump(s, e, s.indx[n]) ELSE Rise(s, e)
<1>1. u = RiseAll(v, w.visited)
  BY DEF AddEdgeToThePast, Spread
<1>2. base \in Nat
  BY NodesOf
<1> HIDE DEF base
<1>3. w = Wave(t, e, base)
  OBVIOUS
<1> HIDE DEF w
<1>4. /\ w.visited \in SUBSET N /\ e \in w.visited /\ w.rank \in [N -> Nat]
      /\ \A m \in N : t.rank[m] <= w.rank[m] /\ (m \notin w.visited => w.rank[m] = t.rank[m])
      /\ base + 1 <= w.rank[e]
      /\ \A m \in N : m \in w.visited => h[e] <= h[m]
      /\ \A m, k \in N : k \in t.succ[m] => w.rank[m] < w.rank[k]
      /\ \A m \in N : Tight(N, t, e, base, w.rank, m)
  BY <1>2, <1>3, WaveSpreads
<1>5. \A m \in N : t.rank[m] \in Nat /\ w.rank[m] \in Nat /\ h[m] \in Nat
  BY <1>4, NodesOf DEF Heights
<1>6. n \notin w.visited /\ w.rank[n] = t.rank[n] /\ w.rank[n] < w.rank[e]
  <2>1. n \notin w.visited
    BY <1>4, <1>5
  <2>2. w.rank[n] = t.rank[n]
    BY <1>4, <2>1
  <2> QED
    BY <1>4, <1>5, <2>1, <2>2 DEF base
<1>7. /\ s \in Timelines(N) /\ Placement(s) /\ SameLinks(t, s)
      /\ s.rank = w.rank /\ s.linear = t.linear /\ s.indx = t.indx
  <2> DEFINE r == w.rank
  <2>1. r \in [N -> Nat]
    BY <1>4
  <2> HIDE DEF r
  <2>2. s = [t EXCEPT !.rank = r]
    BY DEF r
  <2> HIDE DEF s
  <2> QED
    BY <2>1, <2>2, WithRank DEF r
<1> HIDE DEF s
<1>8. /\ Arranged(N, s, v)
      /\ \A a, b \in N : a # e /\ b # e => (v.indx[a] < v.indx[b] <=> s.indx[a] < s.indx[b])
      /\ \A a \in N : a # e /\ a \notin w.visited /\ v.indx[a] < v.indx[e] =>
           s.indx[a] < s.indx[e] \/ Less(w.rank, a, e)
  <2>1. CASE s.indx[e] < s.indx[n]
    <3> DEFINE pos == s.indx[n]
    <3>1. v = Jump(s, e, pos)
      BY <2>1
    <3>2. pos \in Nat /\ pos \in s.indx[e] .. Len(s.linear) /\ s.indx[e] \in Nat /\ s.indx[e] <= pos
      BY <1>7, <2>1, Places
    <3> HIDE DEF v, pos
    <3>3. Arranged(N, s, v) /\ MovedTo(N, s, v, e, pos)
      BY <1>7, <3>1, <3>2, JumpMoves
    <3>4. v \in Timelines(N)
      BY <3>3 DEF Arranged
    <3>5. /\ \A a, b \in N : a # e /\ b # e => (v.indx[a] < v.indx[b] <=> s.indx[a] < s.indx[b])
          /\ \A a \in N : a # e => (v.indx[a] < v.indx[e] <=> s.indx[a] <= pos)
      BY <1>7, <3>2, <3>3, <3>4, MovedOrder
    <3>6. ASSUME NEW a \in N, a # e, a \notin w.visited, v.indx[a] < v.indx[e]
          PROVE  Less(w.rank, a, e)
      <4>1. s.indx[a] <= pos
        BY <3>5, <3>6
      <4>2. a = n \/ s.indx[a] < s.indx[n]
        <5>1. s.indx[a] \in Nat /\ (s.indx[a] = s.indx[n] => a = n)
          BY <1>7, Places
        <5> QED
          BY <3>2, <4>1, <5>1 DEF pos
      <4>3. t.rank[a] <= t.rank[n]
        <5>1. CASE a = n
          BY <1>5, <5>1
        <5>2. CASE s.indx[a] < s.indx[n]
          <6>1. Less(t.rank, a, n)
            BY <1>7, <5>2 DEF InOrder
          <6> QED
            BY <1>5, <6>1 DEF Less
        <5> QED
          BY <4>2, <5>1, <5>2
      <4>4. w.rank[a] = t.rank[a]
        BY <1>4, <3>6
      <4>5. w.rank[a] < w.rank[e]
        BY <1>5, <1>6, <4>3, <4>4
      <4> QED
        BY <4>5 DEF Less
    <3> QED
      BY <3>3, <3>5, <3>6
  <2>2. CASE ~ (s.indx[e] < s.indx[n])
    <3>1. v = Rise(s, e)
      BY <2>2
    <3> HIDE DEF v
    <3>2. /\ Arranged(N, s, v)
          /\ \A a, b \in N : a # e /\ b # e => (v.indx[a] < v.indx[b] <=> s.indx[a] < s.indx[b])
          /\ \A a \in N : a # e /\ v.indx[a] < v.indx[e] =>
               s.indx[a] < s.indx[e] \/ Less(s.rank, a, e)
      BY <1>7, <3>1, RiseOrder
    <3> QED
      BY <1>7, <3>2
  <2> QED
    BY <2>1, <2>2
<1> HIDE DEF v
<1>9. v \in Timelines(N) /\ Placement(v) /\ SameLinks(t, v) /\ v.rank = w.rank
  BY <1>7, <1>8 DEF Arranged, SameLinks
<1>10. OutOfOrder(N, v, w.visited)
  <2> SUFFICES ASSUME NEW a \in N, NEW b \in N, v.indx[a] < v.indx[b], a \notin w.visited
               PROVE  Less(w.rank, a, b)
    BY <1>9 DEF OutOfOrder
  <2>1. w.rank[a] = t.rank[a] /\ t.rank[b] <= w.rank[b] /\ a # e
    BY <1>4
  <2>2. CASE s.indx[a] < s.indx[b]
    <3>1. Less(t.rank, a, b)
      BY <1>7, <2>2 DEF InOrder
    <3> QED
      BY <1>5, <2>1, <3>1 DEF Less
  <2>3. CASE ~ (s.indx[a] < s.indx[b])
    <3>1. b = e
      BY <1>8, <2>1, <2>3
    <3> QED
      BY <1>8, <2>1, <2>3, <3>1
  <2> QED
    BY <2>2, <2>3
<1>11. /\ Arranged(N, v, u)
       /\ \A a, b \in N : u.indx[a] < u.indx[b] => Less(v.rank, a, b)
  <2> DEFINE vis == w.visited
  <2> HIDE DEF vis
  <2>1. OutOfOrder(N, v, vis) /\ u = RiseAll(v, vis)
    BY <1>1, <1>10 DEF vis
  <2> QED
    BY <1>9, <2>1, RiseAllSorts
<1>12. u \in Timelines(N) /\ Placement(u) /\ SameLinks(t, u) /\ u.rank = w.rank
  BY <1>9, <1>11 DEF Arranged, SameLinks
<1>13. InOrder(N, u)
  BY <1>9, <1>11, <1>12 DEF InOrder
<1> QED
  BY <1>4, <1>6, <1>12, <1>13 DEF base

-----------------------------------------------------------------------------
(* Linking what was waiting *)

Linked(N, t) == \A m, k \in N : k \in t.succ[m] <=> m \in t.known[k]

\* The rank of an operation is its depth along the links.
Deep(N, t) ==
  /\ \A m, k \in N : m \in t.known[k] => t.rank[m] < t.rank[k]
  /\ \A k \in N : t.rank[k] = 0 \/ \E c \in N : c \in t.known[k] /\ t.rank[k] = t.rank[c] + 1

Ordered(N, t) ==
  t \in Timelines(N) /\ Placement(t) /\ InOrder(N, t) /\ Linked(N, t) /\ Deep(N, t)

\* A numbering in which every operation follows its causes.
Follows(N, after, h) ==
  /\ h \in [N -> Nat]
  /\ \A m \in N : h[m] < Cardinality(N)
  /\ \A m, k \in N : m \in after[k] => h[m] < h[k]

\* Only what an operation names is linked to it.
Named(N, t) == \A k \in N : t.known[k] \in SUBSET t.after[k]

\* u is t with a link from e to n.
LinkedTo(N, t, u, e, n) ==
  /\ u.after = t.after /\ u.pending = t.pending /\ u.tips = t.tips
  /\ \A k \in N : u.known[k] = IF k = e THEN t.known[k] \cup {n} ELSE t.known[k]

LEMMA LinkStep ==
  ASSUME NEW N \in SUBSET Names, NEW t, Ordered(N, t), NEW h, Follows(N, t.after, h),
         Named(N, t), NEW e \in N, NEW n \in N, n \in t.after[e]
  PROVE  Ordered(N, Link(t, e, n)) /\ LinkedTo(N, t, Link(t, e, n), e, n)
<1> DEFINE v == AddEdgeToThePast(t, e, n)
           u == Link(t, e, n)
<1>1. t \in Timelines(N) /\ Placement(t) /\ InOrder(N, t) /\ Linked(N, t) /\ Deep(N, t)
  BY DEF Ordered
<1>2. /\ \A m \in N : t.rank[m] \in Nat /\ t.succ[m] \in SUBSET N /\ t.known[m] \in SUBSET N
      /\ t.succ \in [N -> SUBSET N] /\ t.known \in [N -> SUBSET N]
  BY <1>1, NodesOf
<1>3. \A m, k \in N : k \in t.succ[m] => t.rank[m] < t.rank[k]
  BY <1>1 DEF Linked, Deep
<1>4. Heights(N, t.succ, h) /\ h[n] < h[e]
  BY <1>1 DEF Heights, Follows, Linked, Named
<1>5. u = [v EXCEPT !.succ[n] = @ \cup {e}, !.known[e] = @ \cup {n}]
  BY DEF Link
<1>6. v = AddEdgeToThePast(t, e, n)
  OBVIOUS
<1> HIDE DEF v, u
<1>7. /\ v \in Timelines(N) /\ Placement(v) /\ SameLinks(t, v) /\ InOrder(N, v)
      /\ v.rank[n] = t.rank[n] /\ v.rank[n] < v.rank[e]
      /\ \A m \in N : t.rank[m] <= v.rank[m]
      /\ \A m, k \in N : k \in t.succ[m] => v.rank[m] < v.rank[k]
      /\ \A m \in N : Tight(N, t, e, t.rank[n], v.rank, m)
  BY <1>1, <1>3, <1>4, <1>6, EdgeSorts
<1> DEFINE succ == [t.succ EXCEPT ![n] = @ \cup {e}]
           known == [t.known EXCEPT ![e] = @ \cup {n}]
<1>8. succ \in [N -> SUBSET N] /\ known \in [N -> SUBSET N]
  BY <1>2
<1>9. u = [v EXCEPT !.succ = succ, !.known = known]
  BY <1>5, <1>7 DEF SameLinks, Timelines
<1>10. /\ \A m, k \in N : k \in succ[m] <=> k \in t.succ[m] \/ (m = n /\ k = e)
       /\ \A m, k \in N : m \in known[k] <=> m \in t.known[k] \/ (m = n /\ k = e)
       /\ \A k \in N : known[k] = IF k = e THEN t.known[k] \cup {n} ELSE t.known[k]
  BY <1>2
<1> HIDE DEF succ, known
<1>11. /\ u \in Timelines(N) /\ u.succ = succ /\ u.known = known /\ u.rank = v.rank
       /\ u.linear = v.linear /\ u.indx = v.indx
       /\ u.after = t.after /\ u.pending = t.pending /\ u.tips = t.tips
  BY <1>7, <1>8, <1>9 DEF Timelines, SameLinks
<1>12. Placement(u)
  <2>1. Nodes(u) = N /\ Nodes(v) = N
    BY <1>7, <1>11, NodesOf
  <2> QED
    BY <1>7, <1>11, <2>1 DEF Placement
<1>13. InOrder(N, u)
  BY <1>7, <1>11 DEF InOrder
<1>14. Linked(N, u)
  BY <1>1, <1>10, <1>11 DEF Linked
<1>15. \A m, k \in N : m \in u.known[k] => u.rank[m] < u.rank[k]
  <2> SUFFICES ASSUME NEW m \in N, NEW k \in N, m \in known[k] PROVE v.rank[m] < v.rank[k]
    BY <1>11
  <2>1. CASE m \in t.known[k]
    <3>1. k \in t.succ[m]
      BY <1>1, <2>1 DEF Linked
    <3> QED
      BY <1>7, <3>1
  <2>2. CASE m = n /\ k = e
    BY <1>7, <2>2
  <2> QED
    BY <1>10, <2>1, <2>2
<1>16. \A k \in N : u.rank[k] = 0 \/ \E c \in N : c \in u.known[k] /\ u.rank[k] = u.rank[c] + 1
  <2> SUFFICES ASSUME NEW k \in N
               PROVE  v.rank[k] = 0 \/ \E c \in N : c \in known[k] /\ v.rank[k] = v.rank[c] + 1
    BY <1>11
  <2>1. Tight(N, t, e, t.rank[n], v.rank, k)
    BY <1>7
  <2>2. CASE v.rank[k] = t.rank[k]
    <3>1. CASE t.rank[k] = 0
      BY <2>2, <3>1
    <3>2. CASE t.rank[k] # 0
      <4>1. PICK c \in N : c \in t.known[k] /\ t.rank[k] = t.rank[c] + 1
        BY <1>1, <3>2 DEF Deep
      <4>2. k \in t.succ[c]
        BY <1>1, <4>1 DEF Linked
      <4>3. v.rank[c] < v.rank[k] /\ t.rank[c] <= v.rank[c]
        BY <1>7, <4>2
      <4>4. v.rank[c] \in Nat
        BY <1>7, NodesOf
      <4>5. v.rank[k] = v.rank[c] + 1
        BY <1>2, <2>2, <4>1, <4>3, <4>4
      <4> QED
        BY <1>10, <4>1, <4>5
    <3> QED
      BY <3>1, <3>2
  <2>3. CASE k = e /\ v.rank[k] = t.rank[n] + 1
    BY <1>7, <1>10, <2>3
  <2>4. CASE \E c \in N : k \in t.succ[c] /\ v.rank[k] = v.rank[c] + 1
    BY <1>1, <1>10, <2>4 DEF Linked
  <2> QED
    BY <2>1, <2>2, <2>3, <2>4 DEF Tight
<1>17. Deep(N, u)
  BY <1>15, <1>16 DEF Deep
<1>18. \A k \in N : u.known[k] = IF k = e THEN t.known[k] \cup {n} ELSE t.known[k]
  BY <1>10, <1>11
<1>19. Ordered(N, u) /\ LinkedTo(N, t, u, e, n)
  BY <1>11, <1>12, <1>13, <1>14, <1>17, <1>18 DEF Ordered, LinkedTo
<1> QED
  BY <1>19 DEF u

\* The rounds of the loop over the operations that were waiting.
IsResolving(f, t, n, effects) ==
  /\ f[0] = t
  /\ \A k \in 1 .. Len(effects) : f[k] = Link(f[k - 1], effects[k], n)
  /\ Resolved(t, n, effects) = f[Len(effects)]

LEMMA ResolvedRun ==
  ASSUME NEW t, NEW n, NEW effects, Len(effects) \in Nat
  PROVE  \E f : IsResolving(f, t, n, effects)
<1> DEFINE l == Len(effects)
           loop == [kind |-> "link", effects |-> effects, n |-> n]
           Turn(x, k) == Link(x, effects[k], n)
           f == CHOOSE f : f = [k \in 0 .. l |-> IF k = 0 THEN t ELSE Turn(f[k - 1], k)]
<1>1. Resolved(t, n, effects) = f[l]
  BY DEF Resolved
<1>2. \A x, k : Round(loop, x, k) = Turn(x, k)
  BY DEF Round
<1> HIDE DEF Turn, l, loop
<1>3. l \in Nat
  BY DEF l
<1>4. PICK g : IsRun(g, loop, t, l)
  BY <1>3, RunExists
<1>5. g = [k \in 0 .. l |-> IF k = 0 THEN t ELSE Turn(g[k - 1], k)]
  BY <1>2, <1>4 DEF IsRun
<1>6. f = [k \in 0 .. l |-> IF k = 0 THEN t ELSE Turn(f[k - 1], k)]
  BY <1>5
<1> HIDE DEF f
<1>7. f[0] = t /\ \A k \in 1 .. l : f[k] = Turn(f[k - 1], k)
  BY <1>3, <1>6
<1> QED
  BY <1>1, <1>7 DEF Turn, l, IsResolving

\* After k of them.
ResolvedTo(N, t, n, effects, u, k) ==
  /\ Ordered(N, u)
  /\ u.after = t.after /\ u.pending = t.pending /\ u.tips = t.tips
  /\ \A m, c \in N : c \in u.known[m] <=>
       c \in t.known[m] \/ (c = n /\ \E i \in 1 .. k : effects[i] = m)

LEMMA ResolvedLinks ==
  ASSUME NEW N \in SUBSET Names, NEW t, Ordered(N, t), NEW h, Follows(N, t.after, h),
         Named(N, t), NEW n \in N, NEW effects \in Seq(N),
         \A i \in 1 .. Len(effects) : n \in t.after[effects[i]],
         NEW u, u = Resolved(t, n, effects)
  PROVE  ResolvedTo(N, t, n, effects, u, Len(effects))
<1> DEFINE l == Len(effects)
<1>1. l \in Nat /\ \A i \in 1 .. l : effects[i] \in N
  OBVIOUS
<1>2. PICK f : IsResolving(f, t, n, effects)
  BY <1>1, ResolvedRun
<1> DEFINE T == {k \in 0 .. l : ~ ResolvedTo(N, t, n, effects, f[k], k)}
<1>3. T = {}
  <2> SUFFICES ASSUME T # {} PROVE FALSE
    OBVIOUS
  <2>1. T \in SUBSET Nat
    BY <1>1
  <2>2. PICK k \in T : \A i \in T : k <= i
    <3> HIDE DEF T
    <3> QED
      BY <2>1, LeastNatural
  <2>3. k \in 0 .. l /\ ~ ResolvedTo(N, t, n, effects, f[k], k)
    OBVIOUS
  <2>4. CASE k = 0
    <3>1. f[0] = t
      BY <1>2 DEF IsResolving
    <3>2. ResolvedTo(N, t, n, effects, t, 0)
      BY DEF ResolvedTo
    <3> QED
      BY <2>3, <2>4, <3>1, <3>2
  <2>5. CASE k # 0
    <3> DEFINE j == k - 1
               x == f[j]
               y == f[k]
               e == effects[k]
    <3>1. j \in 0 .. l /\ j < k /\ j + 1 = k /\ k \in 1 .. l /\ j \in Nat
      BY <1>1, <2>3, <2>5
    <3>2. j \notin T
      BY <2>2, <3>1
    <3>3. ResolvedTo(N, t, n, effects, x, j)
      BY <3>1, <3>2
    <3>4. y = Link(x, e, n)
      BY <1>2, <3>1 DEF IsResolving
    <3>5. e \in N /\ n \in t.after[e]
      BY <1>1, <3>1
    <3> HIDE DEF T, j, x, y, e
    <3>6. /\ Ordered(N, x) /\ x.after = t.after /\ x.pending = t.pending /\ x.tips = t.tips
          /\ \A m, c \in N : c \in x.known[m] <=>
               c \in t.known[m] \/ (c = n /\ \E i \in 1 .. j : effects[i] = m)
      BY <3>3 DEF ResolvedTo
    <3>7. Named(N, x)
      <4> SUFFICES ASSUME NEW m \in N, NEW c \in x.known[m] PROVE c \in t.after[m]
        BY <3>6 DEF Named
      <4>1. c \in N
        BY <3>6, NodesOf DEF Ordered
      <4>2. c \in t.known[m] \/ (c = n /\ \E i \in 1 .. j : effects[i] = m)
        BY <3>6, <4>1
      <4>3. \A i \in 1 .. j : i \in 1 .. l
        BY <1>1, <3>1
      <4> QED
        BY <1>1, <4>2, <4>3 DEF Named
    <3>8. Follows(N, x.after, h) /\ n \in x.after[e]
      BY <3>5, <3>6
    <3>9. Ordered(N, y) /\ LinkedTo(N, x, y, e, n)
      <4>1. Ordered(N, x)
        BY <3>6
      <4>2. Ordered(N, Link(x, e, n)) /\ LinkedTo(N, x, Link(x, e, n), e, n)
        BY <3>5, <3>7, <3>8, <4>1, LinkStep
      <4> QED
        BY <3>4, <4>2
    <3>10. \A m, c \in N : c \in y.known[m] <=>
             c \in t.known[m] \/ (c = n /\ \E i \in 1 .. k : effects[i] = m)
      <4> SUFFICES ASSUME NEW m \in N, NEW c \in N
                   PROVE  c \in y.known[m] <=>
                            c \in t.known[m] \/ (c = n /\ \E i \in 1 .. k : effects[i] = m)
        OBVIOUS
      <4>1. (\E i \in 1 .. k : effects[i] = m) <=> (m = e \/ \E i \in 1 .. j : effects[i] = m)
        <5>1. \A i : i \in 1 .. k <=> i \in 1 .. j \/ i = k
          BY <3>1
        <5> QED
          BY <5>1 DEF e
      <4>2. c \in y.known[m] <=> c \in x.known[m] \/ (c = n /\ m = e)
        BY <3>9 DEF LinkedTo
      <4> QED
        BY <3>6, <4>1, <4>2
    <3>11. ResolvedTo(N, t, n, effects, y, k)
      BY <3>6, <3>9, <3>10 DEF ResolvedTo, LinkedTo
    <3> QED
      BY <2>3, <3>11 DEF y
  <2> QED
    BY <2>4, <2>5
<1>4. l \in 0 .. l /\ l \notin T /\ u = f[l]
  BY <1>1, <1>2, <1>3 DEF IsResolving
<1> QED
  BY <1>4

-----------------------------------------------------------------------------
(* A new node and its causes *)

\* Everything but n stands in order.
OthersInOrder(N, t, n) ==
  \A a, b \in N : a # n /\ b # n /\ t.indx[a] < t.indx[b] => Less(t.rank, a, b)

\* What is behind n is greater.
BelowRest(N, t, n) == \A a \in N : t.indx[n] < t.indx[a] => Less(t.rank, n, a)

\* u is t but for the rank and the place of n, which has passed lower ones only.
Settling(N, t, u, n) ==
  /\ u \in Timelines(N) /\ Placement(u) /\ SameLinks(t, u)
  /\ \A m \in N : m # n => u.rank[m] = t.rank[m]
  /\ \A a, b \in N : a # n /\ b # n => (u.indx[a] < u.indx[b] <=> t.indx[a] < t.indx[b])
  /\ \A a \in N : a # n /\ u.indx[a] < u.indx[n] =>
       t.indx[a] < t.indx[n] \/ Less(u.rank, a, n)

LEMMA SettlingRises ==
  ASSUME NEW N \in SUBSET Names, NEW t \in Timelines(N), NEW n \in N, OthersInOrder(N, t, n),
         NEW u, Settling(N, t, u, n)
  PROVE  /\ Settling(N, t, Rise(u, n), n) /\ BelowRest(N, Rise(u, n), n)
         /\ Rise(u, n).rank = u.rank
<1> DEFINE v == Rise(u, n)
<1>1. /\ u \in Timelines(N) /\ Placement(u) /\ SameLinks(t, u)
      /\ \A m \in N : m # n => u.rank[m] = t.rank[m]
      /\ \A a, b \in N : a # n /\ b # n => (u.indx[a] < u.indx[b] <=> t.indx[a] < t.indx[b])
      /\ \A a \in N : a # n /\ u.indx[a] < u.indx[n] =>
           t.indx[a] < t.indx[n] \/ Less(u.rank, a, n)
  BY DEF Settling
<1>2. v = Rise(u, n)
  OBVIOUS
<1> HIDE DEF v
<1>3. /\ Arranged(N, u, v)
      /\ \A a, b \in N : a # n /\ b # n => (v.indx[a] < v.indx[b] <=> u.indx[a] < u.indx[b])
      /\ \A a \in N : a # n /\ v.indx[a] < v.indx[n] =>
           u.indx[a] < u.indx[n] \/ Less(u.rank, a, n)
      /\ SortedAfter(N, u, n) =>
           \A a \in N : v.indx[n] < v.indx[a] => Less(u.rank, n, a)
  BY <1>1, <1>2, RiseOrder
<1>4. SortedAfter(N, u, n)
  <2> SUFFICES ASSUME NEW a \in N, NEW b \in N, u.indx[n] < u.indx[a], u.indx[a] < u.indx[b]
               PROVE  Less(u.rank, a, b)
    BY DEF SortedAfter
  <2>1. a # n /\ b # n
    <3>1. u.indx[n] \in Nat /\ u.indx[a] \in Nat /\ u.indx[b] \in Nat
      BY <1>1, NodesOf
    <3> QED
      BY <3>1
  <2>2. Less(t.rank, a, b)
    BY <1>1, <2>1 DEF OthersInOrder
  <2> QED
    BY <1>1, <2>1, <2>2 DEF Less
<1>5. v \in Timelines(N) /\ Placement(v) /\ SameLinks(t, v) /\ v.rank = u.rank
  BY <1>1, <1>3 DEF Arranged, SameLinks
<1>6. BelowRest(N, v, n)
  BY <1>3, <1>4, <1>5 DEF BelowRest
<1>7. Settling(N, t, v, n)
  BY <1>1, <1>3, <1>5 DEF Settling
<1> QED
  BY <1>2, <1>5, <1>6, <1>7

\* An edge from the new node to one of its causes.
LEMMA AnchorStep ==
  ASSUME NEW N \in SUBSET Names, NEW t \in Timelines(N), NEW n \in N, OthersInOrder(N, t, n),
         t.succ[n] = {}, NEW u, Settling(N, t, u, n), NEW c \in N, c # n,
         NEW v, v = AddEdgeToThePast(u, n, c)
  PROVE  /\ Settling(N, t, v, n) /\ BelowRest(N, v, n)
         /\ v.rank[n] = IF u.rank[n] < u.rank[c] + 1 THEN u.rank[c] + 1 ELSE u.rank[n]
<1> DEFINE base == u.rank[c]
           w == Wave(u, n, base)
           s == [u EXCEPT !.rank = w.rank]
           x == IF s.indx[n] < s.indx[c] THEN Jump(s, n, s.indx[c]) ELSE Rise(s, n)
<1>1. v = RiseAll(x, w.visited)
  BY DEF AddEdgeToThePast, Spread
<1>2. /\ u \in Timelines(N) /\ Placement(u) /\ SameLinks(t, u)
      /\ \A m \in N : m # n => u.rank[m] = t.rank[m]
      /\ \A a, b \in N : a # n /\ b # n => (u.indx[a] < u.indx[b] <=> t.indx[a] < t.indx[b])
      /\ \A a \in N : a # n /\ u.indx[a] < u.indx[n] =>
           t.indx[a] < t.indx[n] \/ Less(u.rank, a, n)
  BY DEF Settling
<1>3. base \in Nat /\ w = Wave(u, n, base) /\ u.succ[n] = {}
  BY <1>2, NodesOf DEF SameLinks
<1> HIDE DEF w, base
<1>4. /\ w.visited = {n} /\ w.rank \in [N -> Nat]
      /\ \A m \in N : w.rank[m] = IF m = n /\ u.rank[m] < base + 1 THEN base + 1 ELSE u.rank[m]
  BY <1>2, <1>3, WaveAlone
<1>5. \A m \in N : u.rank[m] \in Nat /\ u.rank[m] <= w.rank[m] /\ (m # n => w.rank[m] = u.rank[m])
  BY <1>2, <1>3, <1>4, NodesOf
<1>6. base < w.rank[n] /\ w.rank[c] = base
  BY <1>3, <1>4, <1>5 DEF base
<1>7. /\ s \in Timelines(N) /\ Placement(s) /\ SameLinks(u, s)
      /\ s.rank = w.rank /\ s.linear = u.linear /\ s.indx = u.indx
  <2> DEFINE r == w.rank
  <2>1. r \in [N -> Nat]
    BY <1>4
  <2> HIDE DEF r
  <2>2. s = [u EXCEPT !.rank = r]
    BY DEF r
  <2> HIDE DEF s
  <2> QED
    BY <1>2, <2>1, <2>2, WithRank DEF r
<1> HIDE DEF s
<1>8. Settling(N, t, s, n)
  <2>1. \A a \in N : a # n /\ Less(u.rank, a, n) => Less(w.rank, a, n)
    BY <1>4, <1>5 DEF Less
  <2>2. SameLinks(t, s)
    BY <1>2, <1>7 DEF SameLinks
  <2> QED
    BY <1>2, <1>5, <1>7, <2>1, <2>2 DEF Settling
<1>9. Settling(N, t, x, n) /\ x.rank = w.rank
  <2>1. CASE s.indx[n] < s.indx[c]
    <3> DEFINE pos == s.indx[c]
    <3>1. x = Jump(s, n, pos)
      BY <2>1
    <3>2. pos \in Nat /\ pos \in s.indx[n] .. Len(s.linear) /\ s.indx[n] \in Nat /\ s.indx[n] <= pos
      BY <1>7, <2>1, Places
    <3> HIDE DEF x
    <3>3. Arranged(N, s, x) /\ MovedTo(N, s, x, n, pos)
      <4> HIDE DEF pos
      <4> QED
        BY <1>7, <3>1, <3>2, JumpMoves
    <3>4. x \in Timelines(N) /\ Placement(x) /\ x.rank = w.rank /\ SameLinks(t, x)
      BY <1>7, <1>8, <3>3 DEF Arranged, SameLinks, Settling
    <3>5. /\ \A a, b \in N : a # n /\ b # n => (x.indx[a] < x.indx[b] <=> s.indx[a] < s.indx[b])
          /\ \A a \in N : a # n => (x.indx[a] < x.indx[n] <=> s.indx[a] <= pos)
      <4> HIDE DEF pos
      <4> QED
        BY <1>7, <3>2, <3>3, <3>4, MovedOrder
    <3>6. ASSUME NEW a \in N, a # n, x.indx[a] < x.indx[n]
          PROVE  Less(w.rank, a, n)
      <4>1. s.indx[a] <= pos /\ s.indx[a] \in Nat /\ (s.indx[a] = s.indx[c] => a = c)
        BY <1>7, <3>5, <3>6, Places
      <4>2. w.rank[a] <= base
        <5>1. CASE a = c
          BY <1>3, <1>6, <5>1
        <5>2. CASE s.indx[a] < s.indx[c]
          <6>1. Less(t.rank, a, c)
            BY <1>2, <1>7, <3>6, <5>2 DEF OthersInOrder
          <6>2. t.rank[a] = w.rank[a] /\ t.rank[c] = w.rank[c]
            BY <1>2, <1>5, <3>6
          <6> QED
            BY <1>3, <1>5, <1>6, <6>1, <6>2, <3>6 DEF Less
        <5> QED
          BY <3>2, <4>1, <5>1, <5>2
      <4>3. w.rank[a] \in Nat /\ w.rank[n] \in Nat
        BY <1>4
      <4> QED
        BY <1>3, <1>6, <4>2, <4>3 DEF Less
    <3>7. \A m \in N : m # n => x.rank[m] = t.rank[m]
      BY <1>7, <1>8, <3>4 DEF Settling
    <3>8. \A a, b \in N : a # n /\ b # n => (s.indx[a] < s.indx[b] <=> t.indx[a] < t.indx[b])
      BY <1>8 DEF Settling
    <3>9. \A a, b \in N : a # n /\ b # n => (x.indx[a] < x.indx[b] <=> t.indx[a] < t.indx[b])
      BY <3>5, <3>8
    <3> HIDE DEF pos
    <3> QED
      BY <3>4, <3>6, <3>7, <3>9 DEF Settling
  <2>2. CASE ~ (s.indx[n] < s.indx[c])
    <3>1. x = Rise(s, n)
      BY <2>2
    <3> QED
      BY <1>7, <1>8, <3>1, SettlingRises
  <2> QED
    BY <2>1, <2>2
<1> HIDE DEF x
<1>10. v = Rise(x, n)
  <2>1. x \in Timelines(N) /\ Placement(x)
    BY <1>9 DEF Settling
  <2> QED
    BY <1>1, <1>4, <2>1, RiseAllOne
<1>11. Settling(N, t, v, n) /\ BelowRest(N, v, n) /\ v.rank = w.rank
  BY <1>9, <1>10, SettlingRises
<1> QED
  BY <1>4, <1>11 DEF base

\* The rounds of the loop over the causes of a new node.
IsAnchoring(f, t, n, causes) ==
  /\ f[0] = t
  /\ \A k \in 1 .. Len(causes) : f[k] = AddEdgeToThePast(f[k - 1], n, causes[k])
  /\ Anchored(t, n, causes) = f[Len(causes)]

LEMMA AnchoredRun ==
  ASSUME NEW t, NEW n, NEW causes, Len(causes) \in Nat
  PROVE  \E f : IsAnchoring(f, t, n, causes)
<1> DEFINE l == Len(causes)
           loop == [kind |-> "anchor", causes |-> causes, n |-> n]
           Turn(x, k) == AddEdgeToThePast(x, n, causes[k])
           f == CHOOSE f : f = [k \in 0 .. l |-> IF k = 0 THEN t ELSE Turn(f[k - 1], k)]
<1>1. Anchored(t, n, causes) = f[l]
  BY DEF Anchored
<1>2. \A x, k : Round(loop, x, k) = Turn(x, k)
  BY DEF Round
<1> HIDE DEF Turn, l, loop
<1>3. l \in Nat
  BY DEF l
<1>4. PICK g : IsRun(g, loop, t, l)
  BY <1>3, RunExists
<1>5. g = [k \in 0 .. l |-> IF k = 0 THEN t ELSE Turn(g[k - 1], k)]
  BY <1>2, <1>4 DEF IsRun
<1>6. f = [k \in 0 .. l |-> IF k = 0 THEN t ELSE Turn(f[k - 1], k)]
  BY <1>5
<1> HIDE DEF f
<1>7. f[0] = t /\ \A k \in 1 .. l : f[k] = Turn(f[k - 1], k)
  BY <1>3, <1>6
<1> QED
  BY <1>1, <1>7 DEF Turn, l, IsAnchoring

\* A timeline in which n is registered: all but n is in order, n has no effects
\* yet, and what stands before it does not stand above its causes.
Fresh(N, t, n) ==
  /\ t \in Timelines(N) /\ Placement(t) /\ Linked(N, t) /\ OthersInOrder(N, t, n)
  /\ t.succ[n] = {} /\ t.rank[n] = 0 /\ n \notin t.known[n]
  /\ \A m, k \in N : k # n /\ m \in t.known[k] => t.rank[m] < t.rank[k]
  /\ \A k \in N : k # n /\ t.rank[k] # 0 => \E c \in N : c \in t.known[k] /\ t.rank[k] = t.rank[c] + 1
  /\ \A a \in N : t.indx[a] < t.indx[n] => \E c \in N : c \in t.known[n] /\ t.rank[a] <= t.rank[c]

\* After k causes.
AnchoredTo(N, t, n, causes, u, k) ==
  /\ Settling(N, t, u, n)
  /\ k > 0 => BelowRest(N, u, n)
  /\ \A i \in 1 .. k : t.rank[causes[i]] < u.rank[n]
  /\ k = 0 => u.rank[n] = 0
  /\ k > 0 => \E i \in 1 .. k : u.rank[n] = t.rank[causes[i]] + 1

LEMMA AnchoredRises ==
  ASSUME NEW N \in SUBSET Names, NEW t, NEW n \in N, Fresh(N, t, n), NEW causes \in Seq(N),
         \A i \in 1 .. Len(causes) : causes[i] # n
  PROVE  AnchoredTo(N, t, n, causes, Anchored(t, n, causes), Len(causes))
<1> DEFINE l == Len(causes)
           u == Anchored(t, n, causes)
<1>1. l \in Nat /\ \A i \in 1 .. l : causes[i] \in N /\ causes[i] # n
  OBVIOUS
<1>2. PICK f : IsAnchoring(f, t, n, causes)
  BY <1>1, AnchoredRun
<1>3. u = f[l]
  BY <1>2 DEF IsAnchoring
<1>4. /\ t \in Timelines(N) /\ Placement(t) /\ OthersInOrder(N, t, n)
      /\ t.succ[n] = {} /\ t.rank[n] = 0
      /\ \A m \in N : t.rank[m] \in Nat
  BY NodesOf DEF Fresh
<1> DEFINE T == {k \in 0 .. l : ~ AnchoredTo(N, t, n, causes, f[k], k)}
<1>5. T = {}
  <2> SUFFICES ASSUME T # {} PROVE FALSE
    OBVIOUS
  <2>1. T \in SUBSET Nat
    BY <1>1
  <2>2. PICK k \in T : \A i \in T : k <= i
    <3> HIDE DEF T
    <3> QED
      BY <2>1, LeastNatural
  <2>3. k \in 0 .. l /\ ~ AnchoredTo(N, t, n, causes, f[k], k)
    OBVIOUS
  <2>4. CASE k = 0
    <3>1. f[0] = t
      BY <1>2 DEF IsAnchoring
    <3>2. Settling(N, t, t, n)
      BY <1>4 DEF Settling, SameLinks
    <3>3. AnchoredTo(N, t, n, causes, t, 0)
      BY <1>4, <3>2 DEF AnchoredTo
    <3> QED
      BY <2>3, <2>4, <3>1, <3>3
  <2>5. CASE k # 0
    <3> DEFINE j == k - 1
               x == f[j]
               y == f[k]
               c == causes[k]
    <3>1. j \in 0 .. l /\ j < k /\ j + 1 = k /\ k \in 1 .. l /\ j \in Nat
      BY <1>1, <2>3, <2>5
    <3>2. j \notin T
      BY <2>2, <3>1
    <3>3. AnchoredTo(N, t, n, causes, x, j)
      BY <3>1, <3>2
    <3>4. y = AddEdgeToThePast(x, n, c)
      BY <1>2, <3>1 DEF IsAnchoring
    <3>5. c \in N /\ c # n
      BY <1>1, <3>1
    <3>6. \A i : i \in 1 .. k <=> i \in 1 .. j \/ i = k
      BY <3>1
    <3>7. c = causes[k]
      OBVIOUS
    <3> HIDE DEF T, j, x, y, c
    <3>8. /\ Settling(N, t, x, n)
          /\ \A i \in 1 .. j : t.rank[causes[i]] < x.rank[n]
          /\ j = 0 => x.rank[n] = 0
          /\ j > 0 => \E i \in 1 .. j : x.rank[n] = t.rank[causes[i]] + 1
      BY <3>3 DEF AnchoredTo
    <3>9. /\ Settling(N, t, y, n) /\ BelowRest(N, y, n)
          /\ y.rank[n] = IF x.rank[n] < x.rank[c] + 1 THEN x.rank[c] + 1 ELSE x.rank[n]
      BY <1>4, <3>4, <3>5, <3>8, AnchorStep
    <3>10. x.rank[c] = t.rank[c]
      BY <3>5, <3>8 DEF Settling
    <3>11. x.rank[n] \in Nat /\ t.rank[c] \in Nat
      <4>1. x \in Timelines(N)
        BY <3>8 DEF Settling
      <4> QED
        BY <1>4, <3>5, <4>1, NodesOf
    <3>12. x.rank[n] <= y.rank[n] /\ t.rank[c] < y.rank[n]
           /\ (y.rank[n] = x.rank[n] \/ y.rank[n] = t.rank[c] + 1)
           /\ (j = 0 => y.rank[n] = t.rank[c] + 1)
      BY <3>8, <3>9, <3>10, <3>11
    <3>13. \A i \in 1 .. k : t.rank[causes[i]] < y.rank[n]
      <4> SUFFICES ASSUME NEW i \in 1 .. k PROVE t.rank[causes[i]] < y.rank[n]
        OBVIOUS
      <4>1. CASE i \in 1 .. j
        <5>1. t.rank[causes[i]] < x.rank[n]
          BY <3>8, <4>1
        <5>2. t.rank[causes[i]] \in Nat
          <6>1. causes[i] \in N
            BY <1>1, <3>1, <4>1
          <6> QED
            BY <1>4, <6>1
        <5>3. y.rank[n] \in Nat
          BY <3>11, <3>12
        <5> QED
          BY <3>11, <3>12, <5>1, <5>2, <5>3
      <4>2. CASE i = k
        BY <3>7, <3>12, <4>2
      <4> QED
        BY <3>6, <4>1, <4>2
    <3>14. \E i \in 1 .. k : y.rank[n] = t.rank[causes[i]] + 1
      <4>1. CASE y.rank[n] = t.rank[c] + 1
        <5>1. k \in 1 .. k
          BY <3>6
        <5> QED
          BY <3>7, <4>1, <5>1
      <4>2. CASE y.rank[n] # t.rank[c] + 1
        <5>1. j > 0 /\ y.rank[n] = x.rank[n]
          BY <3>1, <3>12, <4>2
        <5>2. PICK i \in 1 .. j : x.rank[n] = t.rank[causes[i]] + 1
          BY <3>8, <5>1
        <5> QED
          BY <3>6, <5>1, <5>2
      <4> QED
        BY <4>1, <4>2
    <3>15. AnchoredTo(N, t, n, causes, y, k)
      <4>1. k > 0 /\ k # 0
        BY <3>1
      <4> QED
        BY <3>9, <3>13, <3>14, <4>1 DEF AnchoredTo
    <3> QED
      BY <2>3, <3>15 DEF y
  <2> QED
    BY <2>4, <2>5
<1>6. l \in 0 .. l /\ l \notin T
  BY <1>1, <1>5
<1>7. AnchoredTo(N, t, n, causes, f[l], l)
  BY <1>6
<1> QED
  BY <1>3, <1>7

\* A settled node whose rank is over its causes stands right.
LEMMA SettledOrder ==
  ASSUME NEW N \in SUBSET Names, NEW t, NEW n \in N, Fresh(N, t, n), NEW u,
         Settling(N, t, u, n), BelowRest(N, u, n),
         \A c \in N : c \in t.known[n] => t.rank[c] < u.rank[n],
         u.rank[n] = 0 \/ \E c \in N : c \in t.known[n] /\ u.rank[n] = t.rank[c] + 1
  PROVE  Ordered(N, u) /\ SameLinks(t, u)
<1>1. /\ u \in Timelines(N) /\ Placement(u) /\ SameLinks(t, u)
      /\ \A m \in N : m # n => u.rank[m] = t.rank[m]
      /\ \A a, b \in N : a # n /\ b # n => (u.indx[a] < u.indx[b] <=> t.indx[a] < t.indx[b])
      /\ \A a \in N : a # n /\ u.indx[a] < u.indx[n] =>
           t.indx[a] < t.indx[n] \/ Less(u.rank, a, n)
  BY DEF Settling
<1>2. /\ t \in Timelines(N) /\ Linked(N, t) /\ OthersInOrder(N, t, n)
      /\ t.succ[n] = {} /\ n \notin t.known[n]
      /\ \A m, k \in N : k # n /\ m \in t.known[k] => t.rank[m] < t.rank[k]
      /\ \A k \in N : k # n /\ t.rank[k] # 0 =>
           \E c \in N : c \in t.known[k] /\ t.rank[k] = t.rank[c] + 1
      /\ \A a \in N : t.indx[a] < t.indx[n] =>
           \E c \in N : c \in t.known[n] /\ t.rank[a] <= t.rank[c]
  BY DEF Fresh
<1>3. \A m \in N : t.rank[m] \in Nat /\ u.rank[m] \in Nat /\ u.indx[m] \in Nat /\ t.indx[m] \in Nat
  BY <1>1, <1>2, NodesOf
<1>4. \A m, k \in N : m \in t.known[k] => m # n
  <2> SUFFICES ASSUME NEW k \in N, n \in t.known[k] PROVE FALSE
    OBVIOUS
  <2>1. k \in t.succ[n]
    BY <1>2 DEF Linked
  <2> QED
    BY <1>2, <2>1
<1>5. InOrder(N, u)
  <2> SUFFICES ASSUME NEW a \in N, NEW b \in N, u.indx[a] < u.indx[b]
               PROVE  Less(u.rank, a, b)
    BY DEF InOrder
  <2>1. CASE a # n /\ b # n
    <3>1. Less(t.rank, a, b)
      BY <1>1, <1>2, <2>1 DEF OthersInOrder
    <3> QED
      BY <1>1, <2>1, <3>1 DEF Less
  <2>2. CASE a = n
    BY <2>2 DEF BelowRest
  <2>3. CASE a # n /\ b = n
    <3>1. CASE t.indx[a] < t.indx[n]
      <4>1. PICK c \in N : c \in t.known[n] /\ t.rank[a] <= t.rank[c]
        BY <1>2, <3>1
      <4>2. t.rank[c] < u.rank[n]
        BY <4>1
      <4>3. u.rank[a] = t.rank[a]
        BY <1>1, <2>3
      <4>4. u.rank[a] < u.rank[n]
        BY <1>3, <4>1, <4>2, <4>3
      <4> QED
        BY <2>3, <4>4 DEF Less
    <3>2. CASE ~ (t.indx[a] < t.indx[n])
      BY <1>1, <2>3, <3>2
    <3> QED
      BY <3>1, <3>2
  <2> QED
    BY <2>1, <2>2, <2>3
<1>6. Linked(N, u)
  BY <1>1, <1>2 DEF Linked, SameLinks
<1>7. u.known = t.known
  BY <1>1 DEF SameLinks
<1>8. \A m, k \in N : m \in u.known[k] => u.rank[m] < u.rank[k]
  <2> SUFFICES ASSUME NEW m \in N, NEW k \in N, m \in t.known[k] PROVE u.rank[m] < u.rank[k]
    BY <1>7
  <2>1. u.rank[m] = t.rank[m]
    BY <1>1, <1>4
  <2>2. CASE k = n
    BY <2>1, <2>2
  <2>3. CASE k # n
    BY <1>1, <1>2, <2>1, <2>3
  <2> QED
    BY <2>2, <2>3
<1>9. \A k \in N : u.rank[k] = 0 \/ \E c \in N : c \in u.known[k] /\ u.rank[k] = u.rank[c] + 1
  <2> SUFFICES ASSUME NEW k \in N, u.rank[k] # 0
               PROVE  \E c \in N : c \in t.known[k] /\ u.rank[k] = u.rank[c] + 1
    BY <1>7
  <2>1. PICK c \in N : c \in t.known[k] /\ u.rank[k] = t.rank[c] + 1
    <3>1. CASE k = n
      BY <3>1
    <3>2. CASE k # n
      BY <1>1, <1>2, <3>2
    <3> QED
      BY <3>1, <3>2
  <2>2. u.rank[c] = t.rank[c]
    BY <1>1, <1>4, <2>1
  <2> QED
    BY <2>1, <2>2
<1> QED
  BY <1>1, <1>5, <1>6, <1>8, <1>9 DEF Ordered, Deep

\* A set as a sequence.
LEMMA Enumeration ==
  ASSUME NEW S, IsFiniteSet(S)
  PROVE  /\ SetToSeq(S) \in Seq(S)
         /\ \A c \in S : \E i \in 1 .. Len(SetToSeq(S)) : SetToSeq(S)[i] = c
         /\ Len(SetToSeq(S)) = Cardinality(S)
<1> DEFINE l == Cardinality(S)
<1>1. l \in Nat
  BY FS_CardinalityType
<1>2. PICK b \in Bijection(1 .. l, S) : TRUE
  BY FS_CardinalityType DEF ExistsBijection
<1>3. b \in [1 .. l -> S] /\ IsInjective(b)
  BY <1>2 DEF Bijection, Injection
<1> DEFINE f == SetToSeq(S)
<1>4. f \in [1 .. l -> S] /\ IsInjective(f)
  BY <1>3 DEF SetToSeq
<1> HIDE DEF f, l
<1>5. f \in Injection(1 .. l, S)
  BY <1>4 DEF Injection
<1>6. Cardinality(1 .. l) = Cardinality(S)
  BY <1>1, FS_Interval DEF l
<1>7. \A c \in S : \E i \in 1 .. l : f[i] = c
  <2> DEFINE D == 1 .. l
  <2> HIDE DEF D
  <2>1. f \in Injection(D, S) /\ Cardinality(D) = Cardinality(S)
    BY <1>5, <1>6 DEF D
  <2>2. f \in Surjection(D, S)
    BY <2>1, FS_Injection
  <2> QED
    BY <2>2 DEF Surjection, D
<1>8. f \in Seq(S) /\ Len(f) = l
  BY <1>1, <1>4
<1> QED
  BY <1>7, <1>8 DEF f, l

LEMMA PlacedInOrder ==
  ASSUME NEW N \in SUBSET Names, NEW t, NEW n \in N, Fresh(N, t, n)
  PROVE  Ordered(N, Placed(t, n)) /\ SameLinks(t, Placed(t, n))
<1>1. /\ t \in Timelines(N) /\ Placement(t) /\ OthersInOrder(N, t, n)
      /\ t.succ[n] = {} /\ t.rank[n] = 0 /\ n \notin t.known[n]
      /\ \A a \in N : t.indx[a] < t.indx[n] => \E c \in N : c \in t.known[n] /\ t.rank[a] <= t.rank[c]
      /\ t.known[n] \in SUBSET N
  BY NodesOf DEF Fresh
<1>2. CASE t.known[n] # {}
  <2> DEFINE S == t.known[n]
             causes == SetToSeq(S)
             u == Anchored(t, n, causes)
             l == Len(causes)
  <2>1. Placed(t, n) = u
    BY <1>2 DEF Placed
  <2>2. IsFiniteSet(S)
    <3>1. IsFiniteSet(N)
      BY NodesFinite
    <3> QED
      BY <1>1, <3>1, FS_Subset
  <2>3. S \in SUBSET N /\ n \notin S /\ S # {}
    BY <1>1, <1>2
  <2> HIDE DEF S
  <2>4. causes \in Seq(S) /\ (\A c \in S : \E i \in 1 .. Len(causes) : causes[i] = c)
    BY <2>2, Enumeration
  <2> HIDE DEF causes
  <2>5. causes \in Seq(N)
    BY <2>3, <2>4
  <2>6. \A i \in 1 .. l : causes[i] \in S
    BY <2>4
  <2>7. \A i \in 1 .. l : causes[i] # n
    BY <2>3, <2>6
  <2>8. AnchoredTo(N, t, n, causes, u, l)
    BY <2>5, <2>7, AnchoredRises
  <2> HIDE DEF u
  <2>9. l > 0
    <3>1. PICK c \in S : TRUE
      BY <2>3
    <3>2. PICK i \in 1 .. l : causes[i] = c
      BY <2>4, <3>1
    <3>3. l \in Nat
      BY <2>4
    <3> QED
      BY <3>2, <3>3
  <2>10. /\ Settling(N, t, u, n) /\ BelowRest(N, u, n)
         /\ \A i \in 1 .. l : t.rank[causes[i]] < u.rank[n]
         /\ \E i \in 1 .. l : u.rank[n] = t.rank[causes[i]] + 1
    BY <2>8, <2>9 DEF AnchoredTo
  <2>11. \A c \in N : c \in t.known[n] => t.rank[c] < u.rank[n]
    BY <2>4, <2>10 DEF S
  <2>12. \E c \in N : c \in t.known[n] /\ u.rank[n] = t.rank[c] + 1
    BY <2>3, <2>6, <2>10 DEF S
  <2> QED
    BY <2>1, <2>10, <2>11, <2>12, SettledOrder
<1>3. CASE t.known[n] = {}
  <2> DEFINE u == Rise(t, n)
  <2>1. Placed(t, n) = u
    BY <1>3 DEF Placed
  <2>2. Settling(N, t, t, n)
    BY <1>1 DEF Settling, SameLinks
  <2>3. Settling(N, t, u, n) /\ BelowRest(N, u, n) /\ u.rank = t.rank
    BY <1>1, <2>2, SettlingRises
  <2> HIDE DEF u
  <2>4. u.rank[n] = 0
    BY <1>1, <2>3
  <2> QED
    BY <1>3, <2>1, <2>3, <2>4, SettledOrder
<1> QED
  BY <1>2, <1>3

-----------------------------------------------------------------------------
(* Registering a node *)

\* n has come in at pos.
InsertedAt(N, t, u, n, pos) ==
  /\ u.indx[n] = pos
  /\ \A m \in N : u.indx[m] = IF t.indx[m] >= pos THEN t.indx[m] + 1 ELSE t.indx[m]

LEMMA InsertPlaces ==
  ASSUME NEW N, NEW t \in Timelines(N), Placement(t), NEW n, n \notin N,
         NEW pos \in Nat, 1 <= pos, pos <= Len(t.linear) + 1, NEW u,
         u.linear = InsertAt(t.linear, pos, n), InsertedAt(N, t, u, n, pos), Nodes(u) = N \cup {n}
  PROVE  u.linear \in Seq(N \cup {n}) /\ Placement(u)
<1> DEFINE l == Len(t.linear)
           M == N \cup {n}
           lin == InsertAt(t.linear, pos, n)
<1>1. /\ l \in Nat
      /\ \A a \in N : t.indx[a] \in Nat /\ 1 <= t.indx[a] /\ t.indx[a] <= l
      /\ \A a \in N : t.linear[t.indx[a]] = a
      /\ \A i \in 1 .. l : t.linear[i] \in N /\ t.indx[t.linear[i]] = i
  BY Places
<1>2. /\ lin \in Seq(M) /\ Len(lin) = l + 1
      /\ \A k \in 1 .. l + 1 :
           lin[k] = IF k < pos THEN t.linear[k] ELSE IF k = pos THEN n ELSE t.linear[k - 1]
  <2> DEFINE r == t.linear
  <2>1. r \in Seq(M) /\ n \in M
    BY NodesOf
  <2> HIDE DEF r, M
  <2>2. /\ InsertAt(r, pos, n) \in Seq(M)
        /\ Len(InsertAt(r, pos, n)) = Len(r) + 1
        /\ \A k \in 1 .. Len(r) + 1 :
             InsertAt(r, pos, n)[k] = IF k < pos THEN r[k] ELSE IF k = pos THEN n ELSE r[k - 1]
    <3>1. pos <= Len(r) + 1
      BY DEF r
    <3> QED
      BY <2>1, <3>1, InsertInSeq
  <2> QED
    BY <2>2 DEF r
<1>3. u.linear = lin
  OBVIOUS
<1> HIDE DEF lin, l
<1>4. pos <= l + 1
  BY DEF l
<1>5. /\ u.indx[n] = pos
      /\ \A m \in N : u.indx[m] = IF t.indx[m] >= pos THEN t.indx[m] + 1 ELSE t.indx[m]
  BY DEF InsertedAt
<1>7. ASSUME NEW i \in 1 .. l + 1
      PROVE  u.indx[lin[i]] = i
  <2>1. CASE i < pos
    <3>1. i \in 1 .. l /\ i \in Nat
      BY <1>1, <1>4, <2>1
    <3>2. lin[i] = t.linear[i] /\ t.linear[i] \in N /\ t.indx[t.linear[i]] = i
      BY <1>1, <1>2, <2>1, <3>1
    <3>3. u.indx[t.linear[i]] = IF i >= pos THEN i + 1 ELSE i
      BY <1>5, <3>2
    <3>4. ~ (i >= pos)
      BY <2>1, <3>1
    <3> QED
      BY <3>2, <3>3, <3>4
  <2>2. CASE i = pos
    <3>1. lin[i] = n
      BY <1>2, <2>2
    <3> QED
      BY <1>5, <2>2, <3>1
  <2>3. CASE i > pos
    <3>1. i - 1 \in 1 .. l /\ i \in Nat /\ ~ (i < pos) /\ i # pos /\ i - 1 >= pos
      BY <1>1, <1>4, <2>3
    <3> DEFINE j == i - 1
               x == t.linear[j]
    <3>2. lin[i] = x
      BY <1>2, <3>1
    <3>3. x \in N /\ t.indx[x] = j
      BY <1>1, <3>1
    <3>4. j >= pos /\ j + 1 = i
      BY <3>1
    <3> HIDE DEF x, j
    <3>5. u.indx[x] = j + 1
      BY <1>5, <3>3, <3>4
    <3> QED
      BY <3>2, <3>4, <3>5
  <2> QED
    BY <1>1, <2>1, <2>2, <2>3
<1>8. ASSUME NEW m \in M
      PROVE  u.indx[m] \in 1 .. l + 1 /\ lin[u.indx[m]] = m
  <2>1. CASE m = n
    <3>1. pos \in 1 .. l + 1 /\ ~ (pos < pos)
      BY <1>1, <1>4
    <3> QED
      BY <1>2, <1>5, <2>1, <3>1
  <2>2. CASE m # n
    <3> DEFINE k == t.indx[m]
    <3>1. m \in N /\ k \in Nat /\ 1 <= k /\ k <= l /\ t.linear[k] = m
      BY <1>1, <2>2
    <3>2. u.indx[m] = IF k >= pos THEN k + 1 ELSE k
      BY <1>5, <3>1
    <3> HIDE DEF k
    <3>3. CASE k >= pos
      <4> DEFINE i == k + 1
      <4>1. i \in 1 .. l + 1 /\ ~ (i < pos) /\ i # pos /\ i - 1 = k
        BY <1>1, <3>1, <3>3
      <4>2. u.indx[m] = i
        BY <3>2, <3>3
      <4> HIDE DEF i
      <4>3. lin[i] = t.linear[i - 1]
        BY <1>2, <4>1
      <4> QED
        BY <3>1, <4>1, <4>2, <4>3
    <3>4. CASE ~ (k >= pos)
      <4>1. k \in 1 .. l + 1 /\ k < pos
        BY <1>1, <3>1, <3>4
      <4>2. lin[k] = t.linear[k]
        BY <1>2, <4>1
      <4> QED
        BY <3>1, <3>2, <3>4, <4>1, <4>2
    <3> QED
      BY <3>3, <3>4
  <2> QED
    BY <2>1, <2>2
<1>9. Placement(u)
  BY <1>2, <1>3, <1>7, <1>8 DEF Placement
<1> QED
  BY <1>2, <1>3, <1>9

\* A timeline that knows what the operations N say: every link, every tip, and
\* who waits for whom.
Complete(N, t) ==
  /\ Ordered(N, t)
  /\ \A k \in N : t.known[k] = t.after[k] \cap N
  /\ t.tips = {m \in N : \A k \in N : m \notin t.after[k]}
  /\ \A c \in Names : c \notin N => Waiting(t, c) = {m \in N : c \in t.after[m]}

\* n is registered: it is linked to its causes, and nothing yet to it.
Registered(N, t, r, n, causes) ==
  /\ r.after = [m \in N \cup {n} |-> IF m = n THEN causes ELSE t.after[m]]
  /\ \A k \in N \cup {n} : r.known[k] = r.after[k] \cap N
  /\ r.tips = t.tips \ causes
  /\ \A c \in Names : c \notin N \cup {n} => Waiting(r, c) = {m \in N \cup {n} : c \in r.after[m]}
  /\ Waiting(r, n) = {m \in N : n \in t.after[m]}

LEMMA RegisterFresh ==
  ASSUME NEW N \in SUBSET Names, NEW t, Complete(N, t), NEW n \in Names, n \notin N,
         NEW causes \in SUBSET Names, n \notin causes,
         NEW r, r = Register(t, n, causes)
  PROVE  Fresh(N \cup {n}, r, n) /\ Registered(N, t, r, n, causes)
<1> DEFINE M == N \cup {n}
           here == causes \cap N
           P == {1} \cup {t.indx[c] : c \in here}
           pos == Max(P)
           l == Len(t.linear)
<1>1. /\ t \in Timelines(N) /\ Placement(t) /\ InOrder(N, t) /\ Linked(N, t) /\ Deep(N, t)
      /\ \A k \in N : t.known[k] = t.after[k] \cap N
      /\ t.tips = {m \in N : \A k \in N : m \notin t.after[k]}
      /\ \A c \in Names : c \notin N => Waiting(t, c) = {m \in N : c \in t.after[m]}
  BY DEF Complete, Ordered
<1>2. /\ Nodes(t) = N /\ t.linear \in Seq(N) /\ t.indx \in [N -> Nat] /\ t.rank \in [N -> Nat]
      /\ t.after \in [N -> SUBSET Names] /\ t.known \in [N -> SUBSET N]
      /\ t.succ \in [N -> SUBSET N] /\ t.pending \in Pendings(N) /\ t.tips \in SUBSET N
      /\ l \in Nat
  BY <1>1, NodesOf
<1>3. \A a \in N : 1 <= t.indx[a] /\ t.indx[a] <= l /\ t.indx[a] \in Nat
  BY <1>1, Places
<1>4. /\ pos \in Nat /\ 1 <= pos /\ pos <= l + 1
      /\ pos # 1 => \E c \in here : pos = t.indx[c]
  <2>1. P \in SUBSET Nat
    BY <1>3
  <2>2. 1 \in P
    OBVIOUS
  <2>3. \A i \in P : i <= l + 1
    BY <1>2, <1>3
  <2>4. l + 1 \in Nat
    BY <1>2
  <2> HIDE DEF P, l
  <2>5. Max(P) \in P /\ \A i \in P : i <= Max(P)
    <3> DEFINE b == l + 1
    <3>1. b \in Nat /\ \A i \in P : i <= b
      BY <2>3, <2>4
    <3> HIDE DEF b
    <3> QED
      BY <2>1, <2>2, <3>1, GreatestNatural
  <2>6. pos = 1 \/ \E c \in here : pos = t.indx[c]
    BY <2>5 DEF P
  <2> QED
    BY <2>1, <2>2, <2>3, <2>5, <2>6
<1>5. r = [linear |-> InsertAt(t.linear, pos, n),
           indx |-> [m \in M |-> IF m = n THEN pos
                                 ELSE IF t.indx[m] >= pos THEN t.indx[m] + 1 ELSE t.indx[m]],
           rank |-> [m \in M |-> IF m = n THEN 0 ELSE t.rank[m]],
           after |-> [m \in M |-> IF m = n THEN causes ELSE t.after[m]],
           known |-> [m \in M |-> IF m = n THEN here ELSE t.known[m]],
           succ |-> [m \in M |-> IF m = n THEN {}
                                 ELSE IF m \in here THEN t.succ[m] \cup {n} ELSE t.succ[m]],
           pending |-> [c \in DOMAIN t.pending \cup (causes \ here) |->
                          Waiting(t, c) \cup (IF c \in causes \ here THEN {n} ELSE {})],
           tips |-> t.tips \ here]
  BY <1>2 DEF Register, Uncovered
<1> HIDE DEF pos, P
<1>6. /\ r.linear = InsertAt(t.linear, pos, n)
      /\ r.indx = [m \in M |-> IF m = n THEN pos
                               ELSE IF t.indx[m] >= pos THEN t.indx[m] + 1 ELSE t.indx[m]]
      /\ r.rank = [m \in M |-> IF m = n THEN 0 ELSE t.rank[m]]
      /\ r.after = [m \in M |-> IF m = n THEN causes ELSE t.after[m]]
      /\ r.known = [m \in M |-> IF m = n THEN here ELSE t.known[m]]
      /\ r.succ = [m \in M |-> IF m = n THEN {}
                               ELSE IF m \in here THEN t.succ[m] \cup {n} ELSE t.succ[m]]
      /\ r.pending = [c \in DOMAIN t.pending \cup (causes \ here) |->
                          Waiting(t, c) \cup (IF c \in causes \ here THEN {n} ELSE {})]
      /\ r.tips = t.tips \ here
      /\ DOMAIN r = {"linear", "indx", "rank", "after", "known", "succ", "pending", "tips"}
  BY <1>5
<1>7. Nodes(r) = M
  BY <1>6 DEF Nodes
<1>8. /\ r.linear \in Seq(M) /\ r.indx \in [M -> Nat]
      /\ Placement(r) /\ InsertedAt(N, t, r, n, pos)
  <2>1. r.indx \in [M -> Nat]
    BY <1>2, <1>4, <1>6
  <2>2. InsertedAt(N, t, r, n, pos)
    BY <1>6 DEF InsertedAt
  <2>3. r.linear = InsertAt(t.linear, pos, n)
    BY <1>6
  <2> QED
    BY <1>1, <1>4, <1>7, <2>1, <2>2, <2>3, InsertPlaces
<1>9. r.pending \in Pendings(M) /\ \A c \in DOMAIN t.pending : t.pending[c] \in SUBSET N
  <2>1. PICK D \in SUBSET Names : t.pending \in [D -> SUBSET N]
    <3> DEFINE q == t.pending
    <3>1. q \in Pendings(N)
      BY <1>2
    <3> HIDE DEF q
    <3>2. \E D \in SUBSET Names : q \in [D -> SUBSET N]
      BY <3>1 DEF Pendings
    <3> QED
      BY <3>2 DEF q
  <2>2. DOMAIN t.pending = D /\ \A c \in D : t.pending[c] \in SUBSET N
    BY <2>1
  <2>3. \A c : Waiting(t, c) \in SUBSET N
    BY <2>2 DEF Waiting
  <2> DEFINE E == D \cup (causes \ here)
             q == [c \in E |-> Waiting(t, c) \cup (IF c \in causes \ here THEN {n} ELSE {})]
  <2>4. E \in SUBSET Names /\ r.pending = q
    BY <1>6, <2>2
  <2> HIDE DEF E
  <2>5. q \in [E -> SUBSET M]
    BY <2>3
  <2> QED
    BY <2>2, <2>4, <2>5 DEF Pendings
<1>10. /\ r.rank \in [M -> Nat] /\ r.after \in [M -> SUBSET Names] /\ r.known \in [M -> SUBSET M]
       /\ r.succ \in [M -> SUBSET M] /\ r.tips \in SUBSET M
  BY <1>2, <1>6
<1>11. r \in Timelines(M)
  BY <1>5, <1>6, <1>8, <1>9, <1>10 DEF Timelines
<1>12. /\ \A m \in N : r.rank[m] = t.rank[m] /\ r.known[m] = t.known[m] /\ m # n
       /\ r.rank[n] = 0 /\ r.known[n] = here /\ r.succ[n] = {}
       /\ \A m \in N : r.succ[m] = IF m \in here THEN t.succ[m] \cup {n} ELSE t.succ[m]
  BY <1>6
<1>13. /\ r.indx[n] = pos
       /\ \A m \in N : r.indx[m] = IF t.indx[m] >= pos THEN t.indx[m] + 1 ELSE t.indx[m]
  BY <1>8 DEF InsertedAt
<1>14. OthersInOrder(M, r, n)
  <2> SUFFICES ASSUME NEW a \in M, NEW b \in M, a # n, b # n, r.indx[a] < r.indx[b]
               PROVE  Less(r.rank, a, b)
    BY DEF OthersInOrder
  <2>1. a \in N /\ b \in N
    OBVIOUS
  <2>2. t.indx[a] < t.indx[b]
    BY <1>3, <1>4, <1>13, <2>1
  <2>3. Less(t.rank, a, b)
    BY <1>1, <2>1, <2>2 DEF InOrder
  <2> QED
    BY <1>12, <2>1, <2>3 DEF Less
<1>15. Linked(M, r)
  <2> SUFFICES ASSUME NEW m \in M, NEW k \in M PROVE k \in r.succ[m] <=> m \in r.known[k]
    BY DEF Linked
  <2>1. CASE m \in N /\ k \in N
    <3>1. k \in t.succ[m] <=> m \in t.known[k]
      BY <1>1, <2>1 DEF Linked
    <3>2. k # n /\ r.known[k] = t.known[k]
      BY <1>12, <2>1
    <3>3. r.succ[m] = t.succ[m] \cup {n} \/ r.succ[m] = t.succ[m]
      BY <1>12, <2>1
    <3> QED
      BY <3>1, <3>2, <3>3
  <2>2. CASE m \in N /\ k = n
    <3>1. n \notin t.succ[m]
      BY <1>2, <2>2
    <3> QED
      BY <1>12, <2>2, <3>1
  <2>3. CASE m = n
    <3>1. n \notin r.known[k]
      <4>1. CASE k = n
        BY <1>12, <4>1
      <4>2. CASE k \in N
        BY <1>2, <1>12, <4>2
      <4> QED
        BY <4>1, <4>2
    <3> QED
      BY <1>12, <2>3, <3>1
  <2> QED
    BY <2>1, <2>2, <2>3
<1>16. \A m, k \in M : k # n /\ m \in r.known[k] => r.rank[m] < r.rank[k]
  <2> SUFFICES ASSUME NEW m \in M, NEW k \in M, k # n, m \in r.known[k]
               PROVE  r.rank[m] < r.rank[k]
    OBVIOUS
  <2>1. k \in N /\ m \in t.known[k] /\ m \in N
    BY <1>2, <1>12
  <2> QED
    BY <1>1, <1>12, <2>1 DEF Deep
<1>17. \A k \in M : k # n /\ r.rank[k] # 0 =>
          \E c \in M : c \in r.known[k] /\ r.rank[k] = r.rank[c] + 1
  <2> SUFFICES ASSUME NEW k \in N, t.rank[k] # 0
               PROVE  \E c \in M : c \in r.known[k] /\ r.rank[k] = r.rank[c] + 1
    BY <1>12
  <2>1. PICK c \in N : c \in t.known[k] /\ t.rank[k] = t.rank[c] + 1
    BY <1>1 DEF Deep
  <2> QED
    BY <1>12, <2>1
<1>18. \A a \in M : r.indx[a] < r.indx[n] => \E c \in M : c \in r.known[n] /\ r.rank[a] <= r.rank[c]
  <2> SUFFICES ASSUME NEW a \in M, r.indx[a] < pos
               PROVE  \E c \in M : c \in r.known[n] /\ r.rank[a] <= r.rank[c]
    BY <1>13
  <2>1. a \in N /\ t.indx[a] < pos
    BY <1>3, <1>4, <1>13
  <2>2. pos # 1
    BY <1>3, <2>1
  <2>3. PICK c \in here : pos = t.indx[c]
    BY <1>4, <2>2
  <2>4. c \in N /\ Less(t.rank, a, c)
    BY <1>1, <2>1, <2>3 DEF InOrder
  <2>5. t.rank[a] <= t.rank[c]
    BY <1>2, <2>1, <2>4 DEF Less
  <2> QED
    BY <1>12, <2>1, <2>3, <2>4, <2>5
<1>19. n \notin r.known[n]
  BY <1>12
<1>20. Fresh(M, r, n)
  BY <1>8, <1>11, <1>12, <1>14, <1>15, <1>16, <1>17, <1>18, <1>19 DEF Fresh
<1>21. \A k \in M : r.known[k] = r.after[k] \cap N
  <2>1. r.known[n] = r.after[n] \cap N
    BY <1>6, <1>12
  <2>2. \A k \in N : r.known[k] = r.after[k] \cap N
    BY <1>1, <1>6, <1>12
  <2> QED
    BY <2>1, <2>2
<1>22. r.tips = t.tips \ causes
  BY <1>2, <1>6
<1>23. \A c : Waiting(r, c) = Waiting(t, c) \cup (IF c \in causes \ here THEN {n} ELSE {})
  <2> SUFFICES ASSUME NEW c
               PROVE  Waiting(r, c) = Waiting(t, c) \cup (IF c \in causes \ here THEN {n} ELSE {})
    OBVIOUS
  <2>1. CASE c \in DOMAIN t.pending \cup (causes \ here)
    BY <1>6, <2>1 DEF Waiting
  <2>2. CASE c \notin DOMAIN t.pending \cup (causes \ here)
    BY <1>6, <2>2 DEF Waiting
  <2> QED
    BY <2>1, <2>2
<1>24. ASSUME NEW c \in Names, c \notin M
       PROVE  Waiting(r, c) = {m \in M : c \in r.after[m]}
  <2>1. Waiting(t, c) = {m \in N : c \in t.after[m]}
    BY <1>1, <1>24
  <2>2. c \in causes \ here <=> c \in causes
    BY <1>24
  <2>3. r.after[n] = causes /\ \A m \in N : r.after[m] = t.after[m]
    BY <1>6
  <2> QED
    BY <1>23, <2>1, <2>2, <2>3
<1>25. Waiting(r, n) = {m \in N : n \in t.after[m]}
  <2>1. Waiting(t, n) = {m \in N : n \in t.after[m]}
    BY <1>1
  <2> QED
    BY <1>23, <2>1
<1> QED
  BY <1>6, <1>20, <1>21, <1>22, <1>24, <1>25 DEF Registered

-----------------------------------------------------------------------------
(* The causes of an operation are older *)

\* A bounded numbering of all references in which causes come first.
Numbers(N, after, g, b) ==
  /\ g \in [Names -> Nat] /\ b \in Nat
  /\ \A x \in Names : g[x] < b
  /\ \A m \in N : \A c \in Names : c \in after[m] => g[c] < g[m]

Acyclic(N, after) == \E g : \E b : Numbers(N, after, g, b)

\* The numbers of N can be drawn from 0 .. Cardinality(N) - 1.
LEMMA Compressed ==
  ASSUME NEW N \in SUBSET Names, NEW after, Acyclic(N, after)
  PROVE  \E h : Follows(N, after, h)
<1>1. PICK g, b : Numbers(N, after, g, b)
  BY DEF Acyclic
<1>2. /\ \A m \in N : g[m] \in Nat
      /\ \A m, k \in N : m \in after[k] => g[m] < g[k]
  BY <1>1 DEF Numbers
<1> DEFINE Below(m) == {k \in N : g[k] < g[m]}
           h == [m \in N |-> Cardinality(Below(m))]
<1>3. IsFiniteSet(N) /\ Cardinality(N) \in Nat
  BY NodesFinite
<1>4. ASSUME NEW m \in N
      PROVE  /\ IsFiniteSet(Below(m)) /\ Cardinality(Below(m)) \in Nat
             /\ Cardinality(Below(m)) < Cardinality(N)
  <2> DEFINE B == Below(m)
  <2>1. B \in SUBSET N /\ m \notin B
    BY <1>2
  <2> HIDE DEF B
  <2>2. IsFiniteSet(B) /\ Cardinality(B) <= Cardinality(N) /\ (Cardinality(N) = Cardinality(B) => N = B)
    BY <1>3, <2>1, FS_Subset
  <2>3. Cardinality(B) \in Nat
    BY <2>2, FS_CardinalityType
  <2>4. N # B
    BY <2>1
  <2> QED
    BY <1>3, <2>2, <2>3, <2>4 DEF B
<1>5. ASSUME NEW m \in N, NEW k \in N, m \in after[k]
      PROVE  Cardinality(Below(m)) < Cardinality(Below(k))
  <2> DEFINE B == Below(m)
             C == Below(k)
  <2>1. g[m] < g[k]
    BY <1>2, <1>5
  <2>2. m \notin B /\ m \in C
    BY <1>2, <2>1
  <2>3. B \in SUBSET C
    BY <1>2, <2>1
  <2>4. IsFiniteSet(C) /\ Cardinality(B) \in Nat /\ Cardinality(C) \in Nat
    BY <1>4
  <2> HIDE DEF B, C
  <2>5. Cardinality(B) <= Cardinality(C) /\ (Cardinality(C) = Cardinality(B) => C = B)
    BY <2>3, <2>4, FS_Subset
  <2>6. Cardinality(B) < Cardinality(C)
    BY <2>2, <2>4, <2>5
  <2> QED
    BY <2>6 DEF B, C
<1> HIDE DEF Below
<1>6. Follows(N, after, h)
  BY <1>4, <1>5 DEF Follows
<1> QED
  BY <1>6

\* An operation that is none of what its causes lead to can be numbered too: what
\* they lead to stays, the rest moves up.
LEMMA AcyclicGrows ==
  ASSUME NEW N \in SUBSET Names, NEW t \in Timelines(N), Acyclic(N, t.after),
         NEW n \in Names, n \notin N, NEW causes \in SUBSET Names,
         NEW reached \in SUBSET Names, causes \subseteq reached,
         \A c \in reached \cap N : t.after[c] \subseteq reached, n \notin reached,
         NEW after, after = [m \in N \cup {n} |-> IF m = n THEN causes ELSE t.after[m]]
  PROVE  Acyclic(N \cup {n}, after)
<1>1. PICK g, b : Numbers(N, t.after, g, b)
  BY DEF Acyclic
<1>2. /\ g \in [Names -> Nat] /\ b \in Nat
      /\ \A x \in Names : g[x] \in Nat /\ g[x] < b
      /\ \A m \in N : \A c \in Names : c \in t.after[m] => g[c] < g[m]
  BY <1>1 DEF Numbers
<1> DEFINE f == [x \in Names |-> IF x \in reached THEN g[x] ELSE g[x] + b]
<1>3. f \in [Names -> Nat] /\ b + b \in Nat /\ \A x \in Names : f[x] < b + b
  BY <1>2
<1>4. \A x \in Names : f[x] = IF x \in reached THEN g[x] ELSE g[x] + b
  OBVIOUS
<1>5. after[n] = causes /\ \A m \in N : after[m] = t.after[m]
  OBVIOUS
<1> HIDE DEF f
<1>6. ASSUME NEW m \in N, NEW c \in Names, c \in t.after[m]
      PROVE  f[c] < f[m]
  <2>1. g[c] < g[m] /\ g[c] \in Nat /\ g[m] \in Nat /\ m \in Names
    BY <1>2, <1>6
  <2>2. m \in reached => c \in reached
    BY <1>6
  <2>3. f[c] = (IF c \in reached THEN g[c] ELSE g[c] + b)
        /\ f[m] = (IF m \in reached THEN g[m] ELSE g[m] + b)
    BY <1>4, <2>1
  <2> QED
    BY <1>2, <2>1, <2>2, <2>3
<1>7. ASSUME NEW c \in Names, c \in causes
      PROVE  f[c] < f[n]
  <2>1. c \in reached
    BY <1>7
  <2>2. f[c] = g[c] /\ f[n] = g[n] + b
    BY <1>4, <2>1
  <2> QED
    BY <1>2, <2>2
<1>8. Numbers(N \cup {n}, after, f, b + b)
  BY <1>3, <1>5, <1>6, <1>7 DEF Numbers
<1> QED
  BY <1>8 DEF Acyclic

-----------------------------------------------------------------------------
(* An arrival *)

\* What waited for n gets its link.
LEMMA ResolvePendingKeeps ==
  ASSUME NEW N \in SUBSET Names, NEW t, Ordered(N, t), NEW h, Follows(N, t.after, h),
         NEW n \in N,
         \A k \in N : t.known[k] = t.after[k] \cap (N \ {n}),
         Waiting(t, n) = {m \in N : n \in t.after[m]},
         NEW u, u = ResolvePending(t, n)
  PROVE  /\ Ordered(N, u) /\ u.after = t.after /\ u.tips = t.tips
         /\ \A k \in N : u.known[k] = t.after[k] \cap N
         /\ \A c : c # n => Waiting(u, c) = Waiting(t, c)
<1> DEFINE S == Waiting(t, n)
           effects == SetToSeq(S)
           q == Resolved(t, n, effects)
           pending == Restrict(q.pending, DOMAIN q.pending \ {n})
<1>1. u = [q EXCEPT !.pending = pending]
  BY DEF ResolvePending
<1>2. S \in SUBSET N /\ (\A m \in S : n \in t.after[m]) /\ (\A m \in N : n \in t.after[m] => m \in S)
  OBVIOUS
<1> HIDE DEF S
<1>3. IsFiniteSet(S)
  <2>1. IsFiniteSet(N)
    BY NodesFinite
  <2> QED
    BY <1>2, <2>1, FS_Subset
<1>4. effects \in Seq(S) /\ (\A c \in S : \E i \in 1 .. Len(effects) : effects[i] = c)
  BY <1>3, Enumeration
<1> HIDE DEF effects
<1>5. /\ effects \in Seq(N)
      /\ \A i \in 1 .. Len(effects) : effects[i] \in S /\ n \in t.after[effects[i]]
  BY <1>2, <1>4
<1>6. Named(N, t)
  BY DEF Named
<1>7. q = Resolved(t, n, effects)
  OBVIOUS
<1> HIDE DEF q
<1>8. ResolvedTo(N, t, n, effects, q, Len(effects))
  BY <1>5, <1>6, <1>7, ResolvedLinks
<1>9. /\ Ordered(N, q)
      /\ q.after = t.after /\ q.pending = t.pending /\ q.tips = t.tips
      /\ \A m, c \in N : c \in q.known[m] <=>
           c \in t.known[m] \/ (c = n /\ \E i \in 1 .. Len(effects) : effects[i] = m)
  BY <1>8 DEF ResolvedTo
<1>10. /\ q \in Timelines(N) /\ Placement(q) /\ InOrder(N, q) /\ Linked(N, q) /\ Deep(N, q)
       /\ q.known \in [N -> SUBSET N] /\ q.pending \in Pendings(N)
  BY <1>9, NodesOf DEF Ordered
<1>11. pending \in Pendings(N) /\ \A c : c # n =>
         (c \in DOMAIN pending <=> c \in DOMAIN q.pending)
         /\ (c \in DOMAIN pending => pending[c] = q.pending[c])
  <2> DEFINE p == q.pending
             D == DOMAIN p
             E == D \ {n}
  <2>1. p \in Pendings(N)
    BY <1>10
  <2>2. pending = [c \in E |-> p[c]]
    BY DEF Restrict
  <2> HIDE DEF p, pending
  <2>3. D \in SUBSET Names /\ \A c \in D : p[c] \in SUBSET N
    <3>1. PICK C \in SUBSET Names : p \in [C -> SUBSET N]
      BY <2>1 DEF Pendings
    <3> QED
      BY <3>1
  <2>4. pending \in [E -> SUBSET N] /\ E \in SUBSET Names
    BY <2>2, <2>3
  <2>5. pending \in Pendings(N)
    <3> HIDE DEF E
    <3> QED
      BY <2>4 DEF Pendings
  <2> QED
    BY <2>2, <2>5 DEF p
<1> HIDE DEF pending
<1>12. /\ u \in Timelines(N) /\ u.linear = q.linear /\ u.indx = q.indx /\ u.rank = q.rank
       /\ u.after = q.after /\ u.known = q.known /\ u.succ = q.succ /\ u.tips = q.tips
       /\ u.pending = pending
  BY <1>1, <1>10, <1>11 DEF Timelines
<1>13. Ordered(N, u)
  <2>1. Nodes(u) = N /\ Nodes(q) = N
    BY <1>10, <1>12, NodesOf
  <2>2. Placement(u)
    BY <1>10, <1>12, <2>1 DEF Placement
  <2>3. InOrder(N, u) /\ Linked(N, u) /\ Deep(N, u)
    BY <1>10, <1>12 DEF InOrder, Linked, Deep
  <2> QED
    BY <1>12, <2>2, <2>3 DEF Ordered
<1>14. ASSUME NEW k \in N
       PROVE  u.known[k] = t.after[k] \cap N
  <2>1. u.known[k] \in SUBSET N
    BY <1>10, <1>12
  <2>2. ASSUME NEW c \in N
        PROVE  c \in u.known[k] <=> c \in t.after[k]
    <3>1. c \in u.known[k] <=>
            c \in t.known[k] \/ (c = n /\ \E i \in 1 .. Len(effects) : effects[i] = k)
      BY <1>9, <1>12
    <3>2. c \in t.known[k] <=> c \in t.after[k] /\ c # n
      OBVIOUS
    <3>3. CASE c = n
      <4>1. k \in S <=> \E i \in 1 .. Len(effects) : effects[i] = k
        BY <1>4, <1>5
      <4> QED
        BY <1>2, <3>1, <3>2, <3>3, <4>1
    <3>4. CASE c # n
      BY <3>1, <3>2, <3>4
    <3> QED
      BY <3>3, <3>4
  <2> QED
    BY <2>1, <2>2
<1>15. \A c : c # n => Waiting(u, c) = Waiting(t, c)
  BY <1>9, <1>11, <1>12 DEF Waiting
<1> QED
  BY <1>9, <1>12, <1>13, <1>14, <1>15

LEMMA AddKeeps ==
  ASSUME NEW N \in SUBSET Names, NEW t, Complete(N, t), Acyclic(N, t.after),
         NEW n \in Names, n \notin N, NEW causes \in SUBSET Names, n \notin causes,
         NEW reached \in SUBSET Names, causes \subseteq reached,
         \A c \in reached \cap N : t.after[c] \subseteq reached, n \notin reached,
         NEW u, u = Add(t, n, causes)
  PROVE  /\ Complete(N \cup {n}, u) /\ Acyclic(N \cup {n}, u.after)
         /\ u.after = [m \in N \cup {n} |-> IF m = n THEN causes ELSE t.after[m]]
<1> DEFINE M == N \cup {n}
           after == [m \in M |-> IF m = n THEN causes ELSE t.after[m]]
           r == Register(t, n, causes)
           p == Placed(r, n)
           q == ResolvePending(p, n)
<1>1. u = WithTip(q, n)
  BY DEF Add
<1>2. Fresh(M, r, n) /\ Registered(N, t, r, n, causes)
  BY RegisterFresh
<1>3. p = Placed(r, n) /\ q = ResolvePending(p, n)
  OBVIOUS
<1> HIDE DEF r, p, q
<1>4. M \in SUBSET Names /\ n \in M /\ N \in SUBSET M
  OBVIOUS
<1>5. Acyclic(M, after)
  <2>1. t \in Timelines(N)
    BY DEF Complete, Ordered
  <2>2. after = [m \in N \cup {n} |-> IF m = n THEN causes ELSE t.after[m]]
    OBVIOUS
  <2> HIDE DEF after
  <2> QED
    BY <2>1, <2>2, AcyclicGrows
<1>6. PICK h : Follows(M, after, h)
  BY <1>4, <1>5, Compressed
<1>7. /\ r.after = after
      /\ \A k \in M : r.known[k] = after[k] \cap N
      /\ r.tips = t.tips \ causes
      /\ \A c \in Names : c \notin M => Waiting(r, c) = {m \in M : c \in after[m]}
      /\ Waiting(r, n) = {m \in N : n \in t.after[m]}
  <2>1. r.after = after
    BY <1>2 DEF Registered
  <2> HIDE DEF after
  <2> QED
    BY <1>2, <2>1 DEF Registered
<1>8. after[n] = causes /\ \A m \in N : after[m] = t.after[m]
  OBVIOUS
<1> HIDE DEF after
<1>9. Ordered(M, p) /\ SameLinks(r, p)
  <2> HIDE DEF M
  <2> QED
    BY <1>2, <1>3, <1>4, PlacedInOrder
<1>10. /\ p.after = after /\ p.tips = t.tips \ causes
       /\ \A k \in M : p.known[k] = after[k] \cap (M \ {n})
       /\ \A c : Waiting(p, c) = Waiting(r, c)
  <2>1. M \ {n} = N
    OBVIOUS
  <2>2. p.after = r.after /\ p.known = r.known /\ p.tips = r.tips /\ p.pending = r.pending
    BY <1>9 DEF SameLinks
  <2> QED
    BY <1>7, <2>1, <2>2 DEF Waiting
<1>11. Waiting(p, n) = {m \in M : n \in p.after[m]}
  <2>1. {m \in N : n \in t.after[m]} = {m \in M : n \in after[m]}
    BY <1>8
  <2> QED
    BY <1>7, <1>10, <2>1
<1>12. /\ Ordered(M, q) /\ q.after = after /\ q.tips = t.tips \ causes
       /\ \A k \in M : q.known[k] = after[k] \cap M
       /\ \A c : c # n => Waiting(q, c) = Waiting(p, c)
  <2> HIDE DEF M
  <2>1. Follows(M, p.after, h)
    BY <1>6, <1>10
  <2>2. \A k \in M : p.known[k] = p.after[k] \cap (M \ {n})
    BY <1>10
  <2> QED
    BY <1>3, <1>4, <1>9, <1>10, <1>11, <2>1, <2>2, ResolvePendingKeeps
<1>13. /\ q \in Timelines(M) /\ Placement(q) /\ InOrder(M, q) /\ Linked(M, q) /\ Deep(M, q)
       /\ q.succ \in [M -> SUBSET M] /\ q.tips \in SUBSET M
  <2> HIDE DEF M
  <2> QED
    BY <1>12, NodesOf DEF Ordered
<1> DEFINE tips == IF q.succ[n] = {} THEN q.tips \cup {n} ELSE q.tips
<1>14. u = [q EXCEPT !.tips = tips]
  BY <1>1 DEF WithTip
<1>15. tips \in SUBSET M
  BY <1>13
<1>16. tips = {m \in M : \A k \in M : m \notin after[k]}
  <2>1. q.succ[n] = {} <=> \A k \in M : n \notin after[k]
    <3>1. \A k \in M : k \in q.succ[n] <=> n \in q.known[k]
      BY <1>4, <1>13 DEF Linked
    <3>2. \A k \in M : n \in q.known[k] <=> n \in after[k]
      BY <1>4, <1>12
    <3>3. q.succ[n] \in SUBSET M
      BY <1>4, <1>13
    <3> QED
      BY <3>1, <3>2, <3>3
  <2>2. t.tips = {m \in N : \A k \in N : m \notin t.after[k]}
    BY DEF Complete
  <2>3. q.tips = {m \in N : \A k \in M : m \notin after[k]}
    BY <1>8, <1>12, <2>2
  <2> QED
    BY <2>1, <2>3
<1> HIDE DEF tips
<1>17. /\ u \in Timelines(M) /\ u.linear = q.linear /\ u.indx = q.indx /\ u.rank = q.rank
       /\ u.after = q.after /\ u.known = q.known /\ u.succ = q.succ /\ u.tips = tips
       /\ u.pending = q.pending
  BY <1>13, <1>14, <1>15 DEF Timelines
<1>18. Ordered(M, u)
  <2> HIDE DEF M
  <2>1. Nodes(u) = M /\ Nodes(q) = M
    BY <1>13, <1>17, NodesOf
  <2>2. Placement(u)
    BY <1>13, <1>17, <2>1 DEF Placement
  <2>3. InOrder(M, u) /\ Linked(M, u) /\ Deep(M, u)
    BY <1>13, <1>17 DEF InOrder, Linked, Deep
  <2> QED
    BY <1>17, <2>2, <2>3 DEF Ordered
<1>19. \A c \in Names : c \notin M => Waiting(u, c) = {m \in M : c \in u.after[m]}
  <2>1. \A c : Waiting(u, c) = Waiting(q, c)
    BY <1>17 DEF Waiting
  <2>2. \A c \in Names : c \notin M => Waiting(q, c) = {m \in M : c \in after[m]}
    BY <1>4, <1>7, <1>10, <1>12
  <2> QED
    BY <1>12, <1>17, <2>1, <2>2
<1>20. Complete(M, u)
  BY <1>12, <1>16, <1>17, <1>18, <1>19 DEF Complete
<1> QED
  BY <1>5, <1>12, <1>17, <1>20 DEF after

-----------------------------------------------------------------------------
(* Saved and restored *)

\* Every link leads back in the order, so that a restored timeline has them all.
LEMMA FromJSONSame ==
  ASSUME NEW N \in SUBSET Names, NEW t, Complete(N, t)
  PROVE  FromJSON(t) = t
<1> DEFINE Earlier(n) ==
             {t.linear[i] : i \in {j \in DOMAIN t.linear : n \notin Range(SubSeq(t.linear, 1, j))}}
           linked == [n \in N |-> t.after[n] \cap Earlier(n)]
           l == Len(t.linear)
<1>1. /\ t \in Timelines(N) /\ Placement(t) /\ InOrder(N, t) /\ Linked(N, t) /\ Deep(N, t)
      /\ \A k \in N : t.known[k] = t.after[k] \cap N
      /\ t.linear \in Seq(N) /\ t.rank \in [N -> Nat]
      /\ t.known \in [N -> SUBSET N] /\ t.succ \in [N -> SUBSET N] /\ Nodes(t) = N
  BY NodesOf DEF Complete, Ordered
<1>2. /\ l \in Nat
      /\ \A a \in N : t.indx[a] \in Nat /\ 1 <= t.indx[a] /\ t.indx[a] <= l
      /\ \A a \in N : t.linear[t.indx[a]] = a
      /\ \A i \in 1 .. l : t.linear[i] \in N /\ t.indx[t.linear[i]] = i
  BY <1>1, Places
<1>3. FromJSON(t) = [t EXCEPT !.known = linked,
                              !.succ = [n \in N |-> {m \in N : n \in linked[m]}]]
  BY <1>1 DEF FromJSON
<1>4. ASSUME NEW n \in N, NEW j \in 1 .. l
      PROVE  n \in Range(SubSeq(t.linear, 1, j)) <=> t.indx[n] <= j
  <2> DEFINE s == SubSeq(t.linear, 1, j)
  <2>1. Len(s) = j /\ DOMAIN s = 1 .. j /\ \A i \in 1 .. j : s[i] = t.linear[i]
    BY <1>1, <1>2
  <2> HIDE DEF s
  <2>2. n \in Range(s) <=> \E i \in 1 .. j : t.linear[i] = n
    BY <2>1 DEF Range
  <2>3. ASSUME NEW i \in 1 .. j, t.linear[i] = n PROVE t.indx[n] <= j
    <3>1. i \in 1 .. l /\ i <= j
      BY <1>2
    <3> QED
      BY <1>2, <2>3, <3>1
  <2>4. ASSUME t.indx[n] <= j PROVE \E i \in 1 .. j : t.linear[i] = n
    <3>1. t.indx[n] \in 1 .. j
      BY <1>2, <2>4
    <3> QED
      BY <1>2, <3>1
  <2> QED
    BY <2>2, <2>3, <2>4 DEF s
<1>5. ASSUME NEW n \in N, NEW c \in N
      PROVE  c \in Earlier(n) <=> t.indx[c] < t.indx[n]
  <2>1. DOMAIN t.linear = 1 .. l
    BY <1>1
  <2>2. c \in Earlier(n) <=> \E j \in 1 .. l : ~ (t.indx[n] <= j) /\ t.linear[j] = c
    BY <1>4, <2>1
  <2>3. t.indx[c] \in 1 .. l /\ t.linear[t.indx[c]] = c
    BY <1>2
  <2>4. \A j \in 1 .. l : t.linear[j] = c => t.indx[c] = j
    BY <1>2
  <2>5. t.indx[c] \in Nat /\ t.indx[n] \in Nat
    BY <1>2
  <2> HIDE DEF Earlier
  <2> QED
    BY <2>2, <2>3, <2>4, <2>5
<1>6. \A n \in N : Earlier(n) \in SUBSET N
  BY <1>1, <1>2
<1> HIDE DEF Earlier
<1>7. ASSUME NEW n \in N
      PROVE  linked[n] = t.known[n]
  <2>1. ASSUME NEW c \in t.known[n] PROVE c \in Earlier(n) /\ c \in t.after[n]
    <3>1. c \in N /\ c \in t.after[n]
      BY <1>1
    <3>2. t.rank[c] < t.rank[n]
      BY <1>1, <3>1 DEF Deep
    <3>3. ~ (t.indx[n] < t.indx[c])
      <4> SUFFICES ASSUME t.indx[n] < t.indx[c] PROVE FALSE
        OBVIOUS
      <4>1. Less(t.rank, n, c)
        BY <1>1, <3>1 DEF InOrder
      <4>2. t.rank[n] \in Nat /\ t.rank[c] \in Nat
        BY <1>1, <3>1
      <4> QED
        BY <3>2, <4>1, <4>2 DEF Less
    <3>4. t.indx[n] # t.indx[c]
      <4> SUFFICES ASSUME t.indx[n] = t.indx[c] PROVE FALSE
        OBVIOUS
      <4>1. n = c
        BY <1>2, <3>1
      <4>2. t.rank[n] \in Nat
        BY <1>1
      <4> QED
        BY <3>2, <4>1, <4>2
    <3>5. t.indx[c] < t.indx[n]
      BY <1>2, <3>1, <3>3, <3>4
    <3> QED
      BY <1>5, <3>1, <3>5
  <2>2. t.known[n] = t.after[n] \cap N
    BY <1>1
  <2>3. Earlier(n) \in SUBSET N
    BY <1>6
  <2>4. linked[n] = t.after[n] \cap Earlier(n)
    OBVIOUS
  <2> QED
    BY <2>1, <2>2, <2>3, <2>4
<1>8. linked = t.known
  BY <1>1, <1>7
<1> HIDE DEF linked
<1>9. [n \in N |-> {m \in N : n \in linked[m]}] = t.succ
  <2>1. ASSUME NEW n \in N PROVE {m \in N : n \in t.known[m]} = t.succ[n]
    <3>1. t.succ[n] \in SUBSET N
      BY <1>1
    <3>2. \A m \in N : m \in t.succ[n] <=> n \in t.known[m]
      BY <1>1 DEF Linked
    <3> QED
      BY <3>1, <3>2
  <2> DEFINE f == [n \in N |-> {m \in N : n \in linked[m]}]
  <2>2. \A n \in N : f[n] = t.succ[n]
    BY <1>8, <2>1
  <2>3. DOMAIN f = N
    OBVIOUS
  <2>4. f = [n \in N |-> f[n]]
    OBVIOUS
  <2> HIDE DEF f
  <2>5. f = t.succ
    BY <1>1, <2>2, <2>4
  <2> QED
    BY <2>5 DEF f
<1>10. FromJSON(t) = [t EXCEPT !.known = t.known, !.succ = t.succ]
  BY <1>3, <1>8, <1>9
<1> QED
  BY <1>1, <1>10 DEF Timelines

-----------------------------------------------------------------------------
(* Causes stand before their effects *)

LEMMA CausesFirst ==
  ASSUME NEW N, NEW t, Complete(N, t), NEW n \in N, NEW c \in N, c \in t.after[n]
  PROVE  t.indx[c] < t.indx[n]
<1>1. /\ t \in Timelines(N) /\ Placement(t) /\ InOrder(N, t) /\ Deep(N, t)
      /\ \A k \in N : t.known[k] = t.after[k] \cap N
  BY DEF Complete, Ordered
<1>2. /\ \A a \in N : t.indx[a] \in Nat /\ t.rank[a] \in Nat
      /\ \A a, b \in N : t.indx[a] = t.indx[b] => a = b
  BY <1>1, Places, NodesOf
<1>3. t.rank[c] < t.rank[n]
  BY <1>1 DEF Deep
<1>4. ~ (t.indx[n] < t.indx[c])
  <2> SUFFICES ASSUME t.indx[n] < t.indx[c] PROVE FALSE
    OBVIOUS
  <2>1. Less(t.rank, n, c)
    BY <1>1 DEF InOrder
  <2> QED
    BY <1>2, <1>3, <2>1 DEF Less
<1>5. n # c
  BY <1>2, <1>3
<1> QED
  BY <1>2, <1>4, <1>5

-----------------------------------------------------------------------------
(* Theorems *)

\* The inductive invariant: the timeline is complete, and no operation is its
\* own cause.
WellKept(t) ==
  Nodes(t) \in SUBSET Names /\ Complete(Nodes(t), t) /\ Acyclic(Nodes(t), t.after)

TimelineInv == WellKept(timeline)

LEMMA EmptyKept ==
  Nodes(EmptyTimeline) = {} /\ Complete({}, EmptyTimeline) /\ Acyclic({}, EmptyTimeline.after)
<1> DEFINE t == EmptyTimeline
<1>2. /\ t.linear = <<>> /\ t.indx = <<>> /\ t.rank = <<>> /\ t.after = <<>> /\ t.known = <<>>
      /\ t.succ = <<>> /\ t.pending = <<>> /\ t.tips = {}
      /\ t = [linear |-> <<>>, indx |-> <<>>, rank |-> <<>>, after |-> <<>>,
              known |-> <<>>, succ |-> <<>>, pending |-> <<>>, tips |-> {}]
  BY DEF EmptyTimeline
<1>3. Nodes(t) = {}
  BY <1>2 DEF Nodes
<1>4. \A S : <<>> \in [{} -> S]
  OBVIOUS
<1>5. t.pending \in Pendings({})
  <2>1. <<>> \in [{} -> SUBSET {}] /\ {} \in SUBSET Names
    BY <1>4
  <2> QED
    BY <1>2, <2>1 DEF Pendings
<1>6. t \in Timelines({})
  BY <1>2, <1>4, <1>5 DEF Timelines
<1> HIDE DEF t
<1>7. Ordered({}, t)
  <2>1. Len(t.linear) = 0
    BY <1>2
  <2>2. Placement(t)
    BY <1>3, <2>1 DEF Placement
  <2> QED
    BY <1>6, <2>2 DEF Ordered, InOrder, Linked, Deep
<1>8. Complete({}, t)
  BY <1>2, <1>7 DEF Complete, Waiting
<1>9. Acyclic({}, t.after)
  <2> DEFINE g == [x \in Names |-> 0]
  <2>1. g \in [Names -> Nat] /\ \A x \in Names : g[x] < 1
    OBVIOUS
  <2> HIDE DEF g
  <2>2. Numbers({}, t.after, g, 1)
    BY <2>1 DEF Numbers
  <2> QED
    BY <2>2 DEF Acyclic
<1> QED
  BY <1>3, <1>8, <1>9 DEF t

LEMMA InitComplete == TimelineInit => TimelineInv
BY EmptyKept DEF TimelineInit, TimelineInv, WellKept

LEMMA ArriveKeeps ==
  ASSUME TimelineInv, NEW n \in Names, Arrive(n)
  PROVE  /\ TimelineInv'
         /\ Nodes(timeline)' = Nodes(timeline) \cup {n}
         /\ \A m \in Nodes(timeline) : timeline'.after[m] = timeline.after[m]
<1> DEFINE N == Nodes(timeline)
           M == N \cup {n}
           t == timeline
           u == timeline'
<1>1. N \in SUBSET Names /\ Complete(N, t) /\ Acyclic(N, t.after) /\ n \notin N
  BY DEF TimelineInv, WellKept, Arrive
<1>2. PICK causes \in SUBSET (Names \ {n}) : ~ Depends(n, causes) /\ u = Add(t, n, causes)
  BY DEF Arrive
<1>3. PICK reached \in SUBSET Names :
        /\ causes \subseteq reached
        /\ \A c \in reached \cap N : t.after[c] \subseteq reached
        /\ n \notin reached
  BY <1>2 DEF Depends
<1>4. causes \in SUBSET Names /\ n \notin causes
  BY <1>2
<1> HIDE DEF N, t, u
<1>5. /\ Complete(M, u) /\ Acyclic(M, u.after)
      /\ u.after = [m \in M |-> IF m = n THEN causes ELSE t.after[m]]
  BY <1>1, <1>2, <1>3, <1>4, AddKeeps
<1>6. Nodes(u) = M /\ M \in SUBSET Names
  <2> HIDE DEF M
  <2>1. u \in Timelines(M)
    BY <1>5 DEF Complete, Ordered
  <2>2. M \in SUBSET Names
    BY <1>1 DEF M
  <2> QED
    BY <2>1, <2>2, NodesOf
<1>7. Nodes(timeline)' = Nodes(u)
  BY DEF Nodes, u
<1>8. \A m \in N : u.after[m] = t.after[m]
  BY <1>1, <1>5
<1>9. WellKept(u)
  BY <1>5, <1>6 DEF WellKept
<1>10. TimelineInv'
  BY <1>9 DEF TimelineInv, u
<1> QED
  BY <1>6, <1>7, <1>8, <1>10 DEF N, t, u

\* A restored timeline is the saved one: the restart loses nothing.
LEMMA RestartSame ==
  ASSUME TimelineInv PROVE FromJSON(timeline) = timeline
<1> DEFINE N == Nodes(timeline)
           t == timeline
<1>1. N \in SUBSET Names /\ Complete(N, t)
  BY DEF TimelineInv, WellKept
<1> HIDE DEF N, t
<1>2. FromJSON(t) = t
  BY <1>1, FromJSONSame
<1> QED
  BY <1>2 DEF t

LEMMA StutterKeeps == TimelineInv /\ timeline' = timeline => TimelineInv'
BY DEF TimelineInv

LEMMA NextKeeps == TimelineInv /\ [TimelineNext]_timeline => TimelineInv'
<1> SUFFICES ASSUME TimelineInv, [TimelineNext]_timeline PROVE TimelineInv'
  OBVIOUS
<1>1. CASE \E n \in Names : Arrive(n)
  BY <1>1, ArriveKeeps
<1>2. CASE Restart
  <2>1. timeline' = timeline
    BY <1>2, RestartSame DEF Restart
  <2> QED
    BY <2>1, StutterKeeps
<1>3. CASE UNCHANGED timeline
  BY <1>3, StutterKeeps
<1> QED
  BY <1>1, <1>2, <1>3 DEF TimelineNext

\* The timeline stays in order, whatever arrives next, and is complete: places, ranks,
\* links, tips and waiting effects are those of the operations that have arrived.
THEOREM AlwaysComplete == TimelineSpec => []TimelineInv
<1>1. TimelineInit => TimelineInv
  BY InitComplete
<1>2. TimelineInv /\ [TimelineNext]_timeline => TimelineInv'
  BY NextKeeps
<1> QED
  BY <1>1, <1>2, PTL DEF TimelineSpec

-----------------------------------------------------------------------------
(* The same operations, the same timeline *)

\* A rank is the least that the causes allow.
LEMMA RankLeast ==
  ASSUME NEW N, NEW t \in Timelines(N), Deep(N, t), NEW u \in Timelines(N), Deep(N, u),
         t.known = u.known
  PROVE  \A m \in N : t.rank[m] <= u.rank[m]
<1> SUFFICES ASSUME NEW a \in N, ~ (t.rank[a] <= u.rank[a]) PROVE FALSE
  OBVIOUS
<1> DEFINE T == {i \in Nat : \E m \in N : t.rank[m] = i /\ ~ (t.rank[m] <= u.rank[m])}
<1>1. \A m \in N : t.rank[m] \in Nat /\ u.rank[m] \in Nat
  BY NodesOf
<1>2. T \in SUBSET Nat /\ t.rank[a] \in T
  BY <1>1
<1>3. PICK i \in T : \A j \in T : i <= j
  <2> HIDE DEF T
  <2> QED
    BY <1>2, LeastNatural
<1>4. PICK m \in N : t.rank[m] = i /\ ~ (t.rank[m] <= u.rank[m])
  OBVIOUS
<1>5. t.rank[m] # 0
  BY <1>1, <1>4
<1>6. PICK c \in N : c \in t.known[m] /\ t.rank[m] = t.rank[c] + 1
  BY <1>5 DEF Deep
<1>7. u.rank[c] < u.rank[m]
  BY <1>6 DEF Deep
<1>8. ~ (t.rank[c] <= u.rank[c])
  BY <1>1, <1>4, <1>6, <1>7
<1>9. t.rank[c] \in T
  BY <1>1, <1>8
<1> QED
  BY <1>1, <1>3, <1>4, <1>6, <1>9

\* Two orders by the same ranks: the one begins like the other.
LEMMA SameStart ==
  ASSUME NEW N \in SUBSET Names, NEW t \in Timelines(N), Placement(t), InOrder(N, t),
         NEW u \in Timelines(N), Placement(u), InOrder(N, u), t.rank = u.rank
  PROVE  \A i \in 1 .. Len(u.linear) : i <= Len(t.linear) /\ t.linear[i] = u.linear[i]
<1> DEFINE l == Len(t.linear)
           k == Len(u.linear)
           T == {i \in 1 .. k : ~ (i <= l /\ t.linear[i] = u.linear[i])}
<1> SUFFICES ASSUME T # {} PROVE FALSE
  OBVIOUS
<1>1. /\ l \in Nat
      /\ \A a \in N : t.indx[a] \in Nat /\ 1 <= t.indx[a] /\ t.indx[a] <= l
      /\ \A a \in N : t.linear[t.indx[a]] = a
      /\ \A i \in 1 .. l : t.linear[i] \in N /\ t.indx[t.linear[i]] = i
  BY Places
<1>2. /\ k \in Nat
      /\ \A a \in N : u.indx[a] \in Nat /\ 1 <= u.indx[a] /\ u.indx[a] <= k
      /\ \A a \in N : u.linear[u.indx[a]] = a
      /\ \A i \in 1 .. k : u.linear[i] \in N /\ u.indx[u.linear[i]] = i
  BY Places
<1> HIDE DEF l, k
<1>3. T \in SUBSET Nat
  BY <1>2
<1>4. PICK i \in T : \A j \in T : i <= j
  <2> HIDE DEF T
  <2> QED
    BY <1>3, LeastNatural
<1>5. i \in 1 .. k /\ ~ (i <= l /\ t.linear[i] = u.linear[i])
  OBVIOUS
<1>6. \A j \in 1 .. k : j < i => j <= l /\ t.linear[j] = u.linear[j]
  BY <1>2, <1>4, <1>5
<1> HIDE DEF T
<1> DEFINE b == u.linear[i]
<1>7. b \in N /\ u.indx[b] = i
  BY <1>2, <1>5
<1> HIDE DEF b
<1>8. i <= t.indx[b]
  <2> SUFFICES ASSUME t.indx[b] < i PROVE FALSE
    BY <1>1, <1>5, <1>7
  <2> DEFINE j == t.indx[b]
  <2>1. j \in 1 .. k /\ j < i
    BY <1>1, <1>2, <1>5, <1>7
  <2>2. u.linear[j] = b
    BY <1>1, <1>6, <1>7, <2>1
  <2>3. u.indx[b] = j
    BY <1>2, <2>1, <2>2
  <2> QED
    BY <1>7, <2>1, <2>3
<1>9. i \in 1 .. l
  BY <1>1, <1>5, <1>7, <1>8
<1> DEFINE a == t.linear[i]
<1>10. a \in N /\ t.indx[a] = i
  BY <1>1, <1>9
<1>11. a # b
  BY <1>5, <1>9 DEF b
<1> HIDE DEF a
<1>12. t.indx[a] < t.indx[b]
  <2>1. t.indx[b] # i
    BY <1>1, <1>7, <1>10, <1>11
  <2> QED
    BY <1>1, <1>5, <1>7, <1>8, <1>10, <2>1
<1>13. Less(t.rank, a, b)
  BY <1>7, <1>10, <1>12 DEF InOrder
<1>14. u.indx[b] < u.indx[a]
  <2>1. u.indx[a] # i
    BY <1>2, <1>7, <1>10, <1>11
  <2>2. ~ (u.indx[a] < i)
    <3> SUFFICES ASSUME u.indx[a] < i PROVE FALSE
      OBVIOUS
    <3> DEFINE j == u.indx[a]
    <3>1. j \in 1 .. k /\ j < i
      BY <1>2, <1>10
    <3>2. j <= l /\ t.linear[j] = a
      BY <1>2, <1>6, <1>10, <3>1
    <3>3. t.indx[a] = j
      BY <1>1, <3>1, <3>2
    <3> QED
      BY <1>10, <3>1, <3>3
  <2> QED
    BY <1>2, <1>5, <1>7, <1>10, <2>1, <2>2
<1>15. Less(t.rank, b, a)
  BY <1>7, <1>10, <1>14 DEF InOrder
<1>16. t.rank \in [N -> Nat]
  BY NodesOf
<1> QED
  BY <1>7, <1>10, <1>13, <1>15, <1>16, LessOrder

LEMMA SameGraph ==
  ASSUME NEW t, WellKept(t), NEW u, WellKept(u), t.after = u.after
  PROVE  /\ t.linear = u.linear /\ t.indx = u.indx /\ t.rank = u.rank
         /\ t.known = u.known /\ t.succ = u.succ /\ t.tips = u.tips
<1> DEFINE N == Nodes(t)
<1>1. N \in SUBSET Names /\ Complete(N, t)
  BY DEF WellKept
<1>2. Nodes(u) \in SUBSET Names /\ Complete(Nodes(u), u)
  BY DEF WellKept
<1>3. Nodes(u) = N
  <2>1. t.after \in [N -> SUBSET Names]
    BY <1>1, NodesOf DEF Complete, Ordered
  <2>2. u.after \in [Nodes(u) -> SUBSET Names]
    BY <1>2, NodesOf DEF Complete, Ordered
  <2> QED
    BY <2>1, <2>2
<1>4. Complete(N, u)
  BY <1>2, <1>3
<1> HIDE DEF N
<1>5. /\ t \in Timelines(N) /\ Placement(t) /\ InOrder(N, t) /\ Linked(N, t) /\ Deep(N, t)
      /\ \A k \in N : t.known[k] = t.after[k] \cap N
      /\ t.tips = {m \in N : \A k \in N : m \notin t.after[k]}
  BY <1>1 DEF Complete, Ordered
<1>6. /\ u \in Timelines(N) /\ Placement(u) /\ InOrder(N, u) /\ Linked(N, u) /\ Deep(N, u)
      /\ \A k \in N : u.known[k] = t.after[k] \cap N
      /\ u.tips = {m \in N : \A k \in N : m \notin t.after[k]}
  BY <1>4 DEF Complete, Ordered
<1>7. /\ t.linear \in Seq(N) /\ t.indx \in [N -> Nat] /\ t.rank \in [N -> Nat]
      /\ t.known \in [N -> SUBSET N] /\ t.succ \in [N -> SUBSET N]
  BY <1>5, NodesOf
<1>8. /\ u.linear \in Seq(N) /\ u.indx \in [N -> Nat] /\ u.rank \in [N -> Nat]
      /\ u.known \in [N -> SUBSET N] /\ u.succ \in [N -> SUBSET N]
  BY <1>6, NodesOf
<1>9. t.known = u.known
  <2>1. \A k \in N : t.known[k] = u.known[k]
    BY <1>5, <1>6
  <2> QED
    BY <1>7, <1>8, <2>1
<1>10. t.succ = u.succ
  <2>1. \A m, k \in N : k \in t.succ[m] <=> k \in u.succ[m]
    BY <1>5, <1>6, <1>9 DEF Linked
  <2>2. \A m \in N : t.succ[m] = u.succ[m]
    BY <1>7, <1>8, <2>1
  <2> QED
    BY <1>7, <1>8, <2>2
<1>11. t.rank = u.rank
  <2>1. \A m \in N : t.rank[m] <= u.rank[m]
    BY <1>5, <1>6, <1>9, RankLeast
  <2>2. \A m \in N : u.rank[m] <= t.rank[m]
    BY <1>5, <1>6, <1>9, RankLeast
  <2>3. \A m \in N : t.rank[m] = u.rank[m]
    BY <1>7, <1>8, <2>1, <2>2
  <2> QED
    BY <1>7, <1>8, <2>3
<1>12. t.linear = u.linear
  <2>1. \A i \in 1 .. Len(u.linear) : i <= Len(t.linear) /\ t.linear[i] = u.linear[i]
    BY <1>1, <1>5, <1>6, <1>11, SameStart
  <2>2. \A i \in 1 .. Len(t.linear) : i <= Len(u.linear) /\ u.linear[i] = t.linear[i]
    BY <1>1, <1>5, <1>6, <1>11, SameStart
  <2>3. Len(t.linear) \in Nat /\ Len(u.linear) \in Nat
    BY <1>7, <1>8
  <2>4. Len(t.linear) = Len(u.linear)
    <3> DEFINE l == Len(t.linear)
               k == Len(u.linear)
    <3>1. k <= l
      <4>1. CASE k = 0
        BY <2>3, <4>1
      <4>2. CASE k # 0
        BY <2>1, <2>3, <4>2
      <4> QED
        BY <4>1, <4>2
    <3>2. l <= k
      <4>1. CASE l = 0
        BY <2>3, <4>1
      <4>2. CASE l # 0
        BY <2>2, <2>3, <4>2
      <4> QED
        BY <4>1, <4>2
    <3> QED
      BY <2>3, <3>1, <3>2
  <2> DEFINE a == t.linear
             b == u.linear
  <2>5. a \in [1 .. Len(a) -> N] /\ b \in [1 .. Len(b) -> N] /\ Len(a) = Len(b)
    BY <1>7, <1>8, <2>4
  <2>6. \A i \in 1 .. Len(b) : a[i] = b[i]
    BY <2>1
  <2> HIDE DEF a, b
  <2>7. a = b
    BY <2>5, <2>6
  <2> QED
    BY <2>7 DEF a, b
<1>13. t.indx = u.indx
  <2>1. ASSUME NEW m \in N PROVE t.indx[m] = u.indx[m]
    <3> DEFINE i == t.indx[m]
    <3>1. i \in 1 .. Len(t.linear) /\ t.linear[i] = m
      BY <1>5, NodesOf DEF Placement
    <3>2. u.indx[u.linear[i]] = i
      BY <1>6, <1>12, <3>1 DEF Placement
    <3> QED
      BY <1>12, <3>1, <3>2
  <2> QED
    BY <1>7, <1>8, <2>1
<1> QED
  BY <1>5, <1>6, <1>9, <1>10, <1>11, <1>12, <1>13

\* "Convergent": whatever timeline another phone has reached, in whatever order
\* the same operations came in there, it shows them in the order shown here, and
\* the next operation would name the same causes.
THEOREM SameOperationsSameOrder ==
  TimelineSpec => [](\A u : WellKept(u) /\ u.after = timeline.after =>
               u.linear = timeline.linear /\ u.rank = timeline.rank /\ u.tips = timeline.tips)
<1>1. TimelineInv => \A u : WellKept(u) /\ u.after = timeline.after =>
        u.linear = timeline.linear /\ u.rank = timeline.rank /\ u.tips = timeline.tips
  BY SameGraph DEF TimelineInv
<1> QED
  BY <1>1, AlwaysComplete, PTL

-----------------------------------------------------------------------------
(* What the runs check *)

\* What the runs check of the order: the ranks are the depths, and the order is
\* by rank and name.
LEMMA ConvergentHolds == TimelineInv => Convergent
<1> SUFFICES ASSUME TimelineInv PROVE Convergent
  OBVIOUS
<1> DEFINE N == Nodes(timeline)
           t == timeline
<1>1. N \in SUBSET Names /\ Complete(N, t)
  BY DEF TimelineInv, WellKept
<1>2. /\ t \in Timelines(N) /\ Placement(t) /\ InOrder(N, t) /\ Deep(N, t)
      /\ \A k \in N : t.known[k] = t.after[k] \cap N
  BY <1>1 DEF Complete, Ordered
<1> HIDE DEF N, t
<1>3. \A m \in N : t.rank[m] \in Nat
  BY <1>2, NodesOf
<1>4. ASSUME NEW n \in N
      PROVE  t.rank[n] = Max({0} \cup {t.rank[c] + 1 : c \in t.after[n] \cap N})
  <2> DEFINE P == {0} \cup {t.rank[c] + 1 : c \in t.after[n] \cap N}
             r == t.rank[n]
  <2>1. P \in SUBSET Nat /\ 0 \in P
    BY <1>3
  <2>2. r \in P
    <3>1. CASE r = 0
      BY <3>1
    <3>2. CASE r # 0
      <4>1. PICK c \in N : c \in t.known[n] /\ r = t.rank[c] + 1
        BY <1>2, <3>2 DEF Deep
      <4>2. c \in t.after[n] \cap N
        BY <1>2, <4>1
      <4> QED
        BY <4>1, <4>2
    <3> QED
      BY <3>1, <3>2
  <2>3. \A p \in P : p <= r
    <3> SUFFICES ASSUME NEW c \in t.after[n] \cap N PROVE t.rank[c] + 1 <= r
      BY <1>3
    <3>1. c \in N /\ c \in t.known[n]
      BY <1>2
    <3>2. t.rank[c] < r
      BY <1>2, <3>1 DEF Deep
    <3> QED
      BY <1>3, <3>1, <3>2
  <2>4. r \in Nat
    BY <1>3
  <2> HIDE DEF P, r
  <2>5. Max(P) \in P /\ \A p \in P : p <= Max(P)
    BY <2>1, <2>3, <2>4, GreatestNatural
  <2>6. r = Max(P)
    <3> DEFINE m == Max(P)
    <3>1. m \in P /\ (\A p \in P : p <= m)
      BY <2>5
    <3> HIDE DEF m
    <3>2. m \in Nat /\ m <= r /\ r <= m
      BY <2>1, <2>2, <2>3, <3>1
    <3> QED
      BY <2>4, <3>2 DEF m
  <2> QED
    BY <2>6 DEF P, r
<1>5. ASSUME NEW i \in DOMAIN t.linear, NEW j \in DOMAIN t.linear, i < j
      PROVE  LET a == t.linear[i]
                 b == t.linear[j]
             IN  t.rank[a] < t.rank[b] \/ (t.rank[a] = t.rank[b] /\ a < b)
  <2> DEFINE a == t.linear[i]
             b == t.linear[j]
  <2>1. i \in 1 .. Len(t.linear) /\ j \in 1 .. Len(t.linear)
    BY <1>2, NodesOf
  <2>2. a \in N /\ b \in N /\ t.indx[a] = i /\ t.indx[b] = j
    BY <1>2, <2>1, Places
  <2> HIDE DEF a, b
  <2>3. Less(t.rank, a, b)
    BY <1>2, <1>5, <2>2 DEF InOrder
  <2> QED
    BY <2>3 DEF Less, a, b
<1> QED
  BY <1>4, <1>5 DEF Convergent, N, t

THEOREM RanksAreDepths == TimelineSpec => []Convergent
<1> QED
  BY ConvergentHolds, AlwaysComplete, PTL

LEMMA PlacesAndTipsHold == TimelineInv => PlacesAndTips
<1> SUFFICES ASSUME TimelineInv PROVE PlacesAndTips
  OBVIOUS
<1> DEFINE N == Nodes(timeline)
           t == timeline
<1>1. N \in SUBSET Names /\ Complete(N, t)
  BY DEF TimelineInv, WellKept
<1>2. /\ t \in Timelines(N) /\ Placement(t)
      /\ t.tips = {m \in N : \A k \in N : m \notin t.after[k]}
  BY <1>1 DEF Complete, Ordered
<1> HIDE DEF N, t
<1>3. DOMAIN t.linear = 1 .. Len(t.linear) /\ DOMAIN t.indx = N
  BY <1>2, NodesOf
<1>4. \A i \in 1 .. Len(t.linear) : t.linear[i] \in N /\ t.indx[t.linear[i]] = i
  BY <1>2, Places
<1>5. \A a \in N : t.indx[a] \in 1 .. Len(t.linear) /\ t.linear[t.indx[a]] = a
  BY <1>2, NodesOf DEF Placement
<1>6. Range(t.linear) = N
  BY <1>3, <1>4, <1>5 DEF Range
<1> QED
  BY <1>2, <1>3, <1>4, <1>6 DEF PlacesAndTips, N, t

\* What the runs check of the places and the tips.
THEOREM PlacesAndTipsAreRight == TimelineSpec => []PlacesAndTips
<1> QED
  BY PlacesAndTipsHold, AlwaysComplete, PTL

\* A page that saves its timeline and reads it back has the timeline it saved:
\* fromJSON finds every link again, and makes up none.
THEOREM RestartLosesNothing == TimelineSpec => [](FromJSON(timeline) = timeline)
<1>1. TimelineInv => FromJSON(timeline) = timeline
  BY RestartSame
<1> QED
  BY <1>1, AlwaysComplete, PTL

\* No operation stands before one it names.
CausesStandFirst ==
  \A n \in Nodes(timeline) : \A c \in timeline.after[n] \cap Nodes(timeline) :
    timeline.indx[c] < timeline.indx[n]

LEMMA CausesStandFirstHolds == TimelineInv => CausesStandFirst
<1> SUFFICES ASSUME TimelineInv PROVE CausesStandFirst
  OBVIOUS
<1> DEFINE N == Nodes(timeline)
           t == timeline
<1>1. Complete(N, t)
  BY DEF TimelineInv, WellKept
<1> HIDE DEF N, t
<1>2. ASSUME NEW n \in N, NEW c \in t.after[n] \cap N
      PROVE  t.indx[c] < t.indx[n]
  BY <1>1, CausesFirst
<1> QED
  BY <1>2 DEF CausesStandFirst, N, t

THEOREM NoEffectBeforeItsCause == TimelineSpec => []CausesStandFirst
<1> QED
  BY CausesStandFirstHolds, AlwaysComplete, PTL

-----------------------------------------------------------------------------
(* The loops of Kanban.tla *)

LEMMA ApplyAllRun ==
  ASSUME NEW ev, NEW p, NEW b, Len(b.timeline.linear) \in Nat
  PROVE  \E f :
           /\ f[0] = b
           /\ \A k \in 1 .. Len(b.timeline.linear) :
                f[k] = IF Valid(b.timeline, b.timeline.linear[k])
                       THEN ApplyOperation(ev, p, b.timeline.linear[k], f[k - 1]) ELSE f[k - 1]
           /\ ApplyAll(ev, p, b) = f[Len(b.timeline.linear)]
<1> DEFINE l == Len(b.timeline.linear)
           loop == [kind |-> "apply", t |-> b.timeline, ev |-> ev, p |-> p]
           Turn(x, k) == IF Valid(b.timeline, b.timeline.linear[k])
                         THEN ApplyOperation(ev, p, b.timeline.linear[k], x) ELSE x
           f == CHOOSE f : f = [k \in 0 .. l |-> IF k = 0 THEN b ELSE Turn(f[k - 1], k)]
<1>1. ApplyAll(ev, p, b) = f[l]
  BY DEF ApplyAll
<1>2. \A x, k : Round(loop, x, k) = Turn(x, k)
  BY DEF Round
<1> HIDE DEF Turn, l, loop
<1>3. PICK g : IsRun(g, loop, b, l)
  BY RunExists DEF l
<1>4. g = [k \in 0 .. l |-> IF k = 0 THEN b ELSE Turn(g[k - 1], k)]
  BY <1>2, <1>3 DEF IsRun
<1>5. f = [k \in 0 .. l |-> IF k = 0 THEN b ELSE Turn(f[k - 1], k)]
  BY <1>4
<1> HIDE DEF f
<1>6. l \in Nat
  BY DEF l
<1>7. f[0] = b /\ \A k \in 1 .. l : f[k] = Turn(f[k - 1], k)
  BY <1>5, <1>6
<1> QED
  BY <1>1, <1>7 DEF Turn, l

LEMMA RebuiltRun ==
  ASSUME NEW ev, NEW operations, Max(Names) \in Nat
  PROVE  \E f :
           /\ f[0] = EmptyTimeline
           /\ \A k \in 1 .. Max(Names) :
                f[k] = IF k \in operations THEN Add(f[k - 1], k, ev[k].causes) ELSE f[k - 1]
           /\ Rebuilt(ev, operations) = f[Max(Names)]
<1> DEFINE l == Max(Names)
           loop == [kind |-> "rebuild", ev |-> ev, operations |-> operations]
           Turn(x, k) == IF k \in operations THEN Add(x, k, ev[k].causes) ELSE x
           f == CHOOSE f : f = [k \in 0 .. l |-> IF k = 0 THEN EmptyTimeline ELSE Turn(f[k - 1], k)]
<1>1. Rebuilt(ev, operations) = f[l]
  BY DEF Rebuilt
<1>2. \A x, k : Round(loop, x, k) = Turn(x, k)
  BY DEF Round
<1> HIDE DEF Turn, l, loop
<1>3. PICK g : IsRun(g, loop, EmptyTimeline, l)
  BY RunExists DEF l
<1>4. g = [k \in 0 .. l |-> IF k = 0 THEN EmptyTimeline ELSE Turn(g[k - 1], k)]
  BY <1>2, <1>3 DEF IsRun
<1>5. f = [k \in 0 .. l |-> IF k = 0 THEN EmptyTimeline ELSE Turn(f[k - 1], k)]
  BY <1>4
<1> HIDE DEF f
<1>6. l \in Nat
  BY DEF l
<1>7. f[0] = EmptyTimeline /\ \A k \in 1 .. l : f[k] = Turn(f[k - 1], k)
  BY <1>5, <1>6
<1> QED
  BY <1>1, <1>7 DEF Turn, l

LEMMA NewEventsRun ==
  ASSUME NEW ev, NEW p, NEW b, NEW queue, Len(queue) \in Nat
  PROVE  \E f :
           /\ f[0] = b
           /\ \A k \in 1 .. Len(queue) : f[k] = NewEvent(ev, p, queue[k], f[k - 1])
           /\ NewEvents(ev, p, b, queue) = f[Len(queue)]
<1> DEFINE l == Len(queue)
           loop == [kind |-> "events", ev |-> ev, p |-> p, queue |-> queue]
           Turn(x, k) == NewEvent(ev, p, queue[k], x)
           f == CHOOSE f : f = [k \in 0 .. l |-> IF k = 0 THEN b ELSE Turn(f[k - 1], k)]
<1>1. NewEvents(ev, p, b, queue) = f[l]
  BY DEF NewEvents
<1>2. \A x, k : Round(loop, x, k) = Turn(x, k)
  BY DEF Round
<1> HIDE DEF Turn, l, loop
<1>3. PICK g : IsRun(g, loop, b, l)
  BY RunExists DEF l
<1>4. g = [k \in 0 .. l |-> IF k = 0 THEN b ELSE Turn(g[k - 1], k)]
  BY <1>2, <1>3 DEF IsRun
<1>5. f = [k \in 0 .. l |-> IF k = 0 THEN b ELSE Turn(f[k - 1], k)]
  BY <1>4
<1> HIDE DEF f
<1>6. l \in Nat
  BY DEF l
<1>7. f[0] = b /\ \A k \in 1 .. l : f[k] = Turn(f[k - 1], k)
  BY <1>5, <1>6
<1> QED
  BY <1>1, <1>7 DEF Turn, l

-----------------------------------------------------------------------------
(* More about the order of a timeline *)

\* The causes of an operation that names all tips reach every operation.
LEMMA TipsReachAll ==
  ASSUME NEW N, NEW t, Complete(N, t), NEW S, t.tips \subseteq S,
         \A m \in S \cap N : t.after[m] \cap N \subseteq S
  PROVE  N \subseteq S
<1> SUFFICES ASSUME NEW a \in N, a \notin S PROVE FALSE
  OBVIOUS
<1>1. t \in Timelines(N) /\ Placement(t)
  BY DEF Complete, Ordered
<1>2. /\ Len(t.linear) \in Nat
      /\ \A m \in N : t.indx[m] \in Nat /\ t.indx[m] <= Len(t.linear)
  BY <1>1, Places
<1> DEFINE T == {Len(t.linear) - t.indx[m] : m \in N \ S}
<1>3. T \in SUBSET Nat /\ Len(t.linear) - t.indx[a] \in T
  BY <1>2
<1>4. PICK k \in T : \A j \in T : k <= j
  <2> HIDE DEF T
  <2> QED
    BY <1>3, LeastNatural
<1>5. PICK m \in N \ S : k = Len(t.linear) - t.indx[m]
  OBVIOUS
<1>6. \A n \in N \ S : t.indx[n] <= t.indx[m]
  <2> TAKE n \in N \ S
  <2>1. Len(t.linear) - t.indx[n] \in T
    OBVIOUS
  <2>2. k <= Len(t.linear) - t.indx[n]
    BY <1>4, <2>1
  <2> QED
    BY <1>2, <1>5, <2>2
<1>7. m \notin t.tips
  BY <1>5
<1>8. PICK n \in N : m \in t.after[n]
  BY <1>5, <1>7 DEF Complete
<1>9. t.indx[m] < t.indx[n]
  BY <1>5, <1>8, CausesFirst
<1>10. n \in S
  BY <1>2, <1>5, <1>6, <1>9
<1> QED
  BY <1>5, <1>8, <1>10

\* An operation that none of the others names does not move them against each other.
LEMMA OldOrder ==
  ASSUME NEW N \in SUBSET Names, NEW t, Complete(N, t), NEW r, r \notin N, NEW u, Complete(N \cup {r}, u),
         \A m \in N : u.after[m] = t.after[m] /\ r \notin t.after[m]
  PROVE  \A a, b \in N : t.indx[a] < t.indx[b] <=> u.indx[a] < u.indx[b]
<1> DEFINE M == N \cup {r}
<1>1. /\ t \in Timelines(N) /\ Placement(t) /\ InOrder(N, t) /\ Deep(N, t)
      /\ \A k \in N : t.known[k] = t.after[k] \cap N
  BY DEF Complete, Ordered
<1>2. /\ u \in Timelines(M) /\ Placement(u) /\ InOrder(M, u) /\ Deep(M, u)
      /\ \A k \in M : u.known[k] = u.after[k] \cap M
  BY DEF Complete, Ordered
<1>3. ASSUME NEW m \in N PROVE u.known[m] = t.known[m]
  <2>1. u.known[m] = u.after[m] \cap M /\ t.known[m] = t.after[m] \cap N
    BY <1>1, <1>2
  <2>2. u.after[m] = t.after[m] /\ r \notin t.after[m]
    OBVIOUS
  <2> QED
    BY <2>1, <2>2
<1>4. /\ \A m \in N : t.rank[m] \in Nat /\ t.indx[m] \in Nat
      /\ \A a, b \in N : t.indx[a] = t.indx[b] => a = b
  BY <1>1, Places, NodesOf
<1>5. /\ \A m \in M : u.rank[m] \in Nat /\ u.indx[m] \in Nat
      /\ \A a, b \in M : u.indx[a] = u.indx[b] => a = b
  <2> HIDE DEF M
  <2> QED
    BY <1>2, Places, NodesOf
<1>6. /\ \A m, k \in N : m \in t.known[k] => t.rank[m] < t.rank[k] /\ u.rank[m] < u.rank[k]
      /\ \A k \in N : t.rank[k] = 0 \/ \E c \in N : c \in t.known[k] /\ t.rank[k] = t.rank[c] + 1
      /\ \A k \in N : u.rank[k] = 0 \/ \E c \in N : c \in t.known[k] /\ u.rank[k] = u.rank[c] + 1
  <2>1. /\ \A m, k \in N : m \in t.known[k] => t.rank[m] < t.rank[k]
        /\ \A k \in N : t.rank[k] = 0 \/ \E c \in N : c \in t.known[k] /\ t.rank[k] = t.rank[c] + 1
    BY <1>1 DEF Deep
  <2>2. \A m, k \in N : m \in t.known[k] => u.rank[m] < u.rank[k]
    BY <1>2, <1>3 DEF Deep
  <2>3. ASSUME NEW k \in N, u.rank[k] # 0
        PROVE  \E c \in N : c \in t.known[k] /\ u.rank[k] = u.rank[c] + 1
    <3>1. PICK c \in M : c \in u.known[k] /\ u.rank[k] = u.rank[c] + 1
      BY <1>2, <2>3 DEF Deep
    <3>2. c \in N
      BY <1>1, <1>3, <3>1
    <3> QED
      BY <1>3, <3>1, <3>2
  <2> QED
    BY <2>1, <2>2, <2>3
<1>7. \A m \in N : t.rank[m] = u.rank[m]
  <2> SUFFICES ASSUME NEW a \in N, t.rank[a] # u.rank[a] PROVE FALSE
    OBVIOUS
  <2> DEFINE Low(m) == IF t.rank[m] < u.rank[m] THEN t.rank[m] ELSE u.rank[m]
             T == {Low(m) : m \in {k \in N : t.rank[k] # u.rank[k]}}
  <2>1. T \in SUBSET Nat /\ Low(a) \in T
    BY <1>4, <1>5
  <2>2. PICK i \in T : \A j \in T : i <= j
    <3> HIDE DEF T
    <3> QED
      BY <2>1, LeastNatural
  <2>3. PICK m \in N : t.rank[m] # u.rank[m] /\ i = Low(m)
    OBVIOUS
  <2>4. \A k \in N : t.rank[k] # u.rank[k] => Low(m) <= Low(k)
    BY <2>2, <2>3
  <2> HIDE DEF T
  <2>5. CASE t.rank[m] < u.rank[m]
    <3>1. u.rank[m] # 0
      BY <1>4, <1>5, <2>3, <2>5
    <3>2. PICK c \in N : c \in t.known[m] /\ u.rank[m] = u.rank[c] + 1
      BY <1>6, <2>3, <3>1
    <3>3. t.rank[c] < t.rank[m]
      BY <1>6, <2>3, <3>2
    <3>4. t.rank[c] < u.rank[c]
      BY <1>4, <1>5, <2>3, <2>5, <3>2, <3>3
    <3> QED
      BY <1>4, <1>5, <2>3, <2>4, <2>5, <3>2, <3>3, <3>4
  <2>6. CASE ~ (t.rank[m] < u.rank[m])
    <3>1. u.rank[m] < t.rank[m]
      BY <1>4, <1>5, <2>3, <2>6
    <3>2. t.rank[m] # 0
      BY <1>4, <1>5, <2>3, <3>1
    <3>3. PICK c \in N : c \in t.known[m] /\ t.rank[m] = t.rank[c] + 1
      BY <1>6, <2>3, <3>2
    <3>4. u.rank[c] < u.rank[m]
      BY <1>6, <2>3, <3>3
    <3>5. u.rank[c] < t.rank[c]
      BY <1>4, <1>5, <2>3, <3>1, <3>3, <3>4
    <3> QED
      BY <1>4, <1>5, <2>3, <2>4, <3>1, <3>3, <3>4, <3>5
  <2> QED
    BY <2>5, <2>6
<1>8. ASSUME NEW a \in N, NEW b \in N, t.indx[a] < t.indx[b] PROVE u.indx[a] < u.indx[b]
  <2>1. Less(t.rank, a, b)
    BY <1>1, <1>8 DEF InOrder
  <2>2. a # b
    BY <1>4, <1>8
  <2>3. ~ (u.indx[b] < u.indx[a])
    <3> SUFFICES ASSUME u.indx[b] < u.indx[a] PROVE FALSE
      OBVIOUS
    <3>1. Less(u.rank, b, a)
      BY <1>2 DEF InOrder
    <3>2. Less(t.rank, b, a)
      BY <1>7, <3>1 DEF Less
    <3> QED
      BY <1>1, <2>1, <3>2, LessOrder, NodesOf
  <2> QED
    BY <1>5, <2>2, <2>3
<1> QED
  BY <1>4, <1>5, <1>8

-----------------------------------------------------------------------------
(* What one operation changes *)

LEMMA ApplyCases ==
  ASSUME NEW ev, NEW p, NEW r, NEW b, NEW u, u = ApplyOperation(ev, p, r, b)
  PROVE  /\ ev[r].cmd = "board/create" => u = CreateBoard(b, p, r, ev[r])
         /\ ev[r].cmd = "board/rename" => u = [b EXCEPT !.name = r]
         /\ ev[r].cmd = "column/create" => u = CreateColumn(b, r, ev[r])
         /\ ev[r].cmd = "column/remove" => u = RemoveColumn(b, r, ev[r])
         /\ ev[r].cmd = "column/rename" => u = RenameColumn(b, r, ev[r])
         /\ ev[r].cmd = "item/create" => u = CreateItem(b, r, ev[r])
         /\ ev[r].cmd = "item/remove" => u = RemoveItem(b, r, ev[r])
         /\ ev[r].cmd = "item/moveTo" => u = MoveItem(b, r, ev[r])
         /\ ev[r].cmd \in {"item/rename", "item/setDescription", "item/color"} =>
              u = SetField(b, r, ev[r])
         /\ ev[r].cmd = "item/post" => u = PostComment(b, r, ev[r])
         /\ ev[r].cmd \in {"item/assign", "item/unassign"} => u = Assign(b, r, ev[r])
         /\ ev[r].cmd = "invite" => u = InviteUser(b, r, ev[r])
         /\ ev[r].cmd = "invite/accept" => u = AcceptInvite(b, p, ev[r])
         /\ ev[r].cmd = "invite/decline" => u = b
         /\ ev[r].cmd = "leave" => u = Leave(b, r, ev[r])
<1>1. DOMAIN Overwrites = {"item/rename", "item/setDescription", "item/color"}
  BY DEF Overwrites
<1> QED
  BY <1>1 DEF ApplyOperation, DeclineInvite

BoardFields == {"known", "operations", "subscribed", "members", "name", "columns", "items",
                "active", "pending", "timeline", "tips"}

\* u is b, but for the lists, the cards and what is about people.
SameBoard(b, u) ==
  /\ DOMAIN u = BoardFields
  /\ u.known = b.known /\ u.operations = b.operations /\ u.timeline = b.timeline /\ u.tips = b.tips
  /\ b.subscribed = TRUE => u.subscribed = TRUE

\* An operation leaves everything else alone.
LEMMA ApplyFrame ==
  ASSUME NEW ev, NEW p, NEW r, NEW b, DOMAIN b = BoardFields, ev[r].cmd \in Commands,
         NEW u, u = ApplyOperation(ev, p, r, b)
  PROVE  /\ SameBoard(b, u)
         /\ ev[r].cmd \in OnBoard => u.items = b.items
         /\ ev[r].cmd \in OnBoard \ {"column/create"} => u.columns = b.columns
         /\ ev[r].cmd \in OnColumn \cup OnItem \cup {"board/rename", "column/create", "invite/decline"} =>
              u.members = b.members /\ u.pending = b.pending
<1> DEFINE e == ev[r]
<1>1. CASE e.cmd \in {"column/create", "column/remove", "column/rename"}
  <2>1. /\ e.cmd = "column/create" => u = CreateColumn(b, r, e)
        /\ e.cmd = "column/remove" => u = RemoveColumn(b, r, e)
        /\ e.cmd = "column/rename" => u = RenameColumn(b, r, e)
    BY ApplyCases
  <2> QED
    BY <1>1, <2>1 DEF CreateColumn, RemoveColumn, RenameColumn, SameBoard, BoardFields,
                      OnBoard, OnItem, OnColumn
<1>2. CASE e.cmd \in {"item/create", "item/remove", "item/moveTo"}
  <2>1. /\ e.cmd = "item/create" => u = CreateItem(b, r, e)
        /\ e.cmd = "item/remove" => u = RemoveItem(b, r, e)
        /\ e.cmd = "item/moveTo" => u = MoveItem(b, r, e)
    BY ApplyCases
  <2> DEFINE Same == SameBoard(b, u) /\ u.members = b.members /\ u.pending = b.pending
  <2>2. ASSUME e.cmd = "item/create" PROVE Same
    <3>1. u = CreateItem(b, r, e)
      BY <2>1, <2>2
    <3> QED
      BY <3>1 DEF CreateItem, SameBoard, BoardFields
  <2>3. ASSUME e.cmd = "item/remove" PROVE Same
    <3>1. u = RemoveItem(b, r, e)
      BY <2>1, <2>3
    <3> HIDE DEF e
    <3> QED
      BY <3>1 DEF RemoveItem, SameBoard, BoardFields
  <2>4. ASSUME e.cmd = "item/moveTo" PROVE Same
    <3>1. u = MoveItem(b, r, e)
      BY <2>1, <2>4
    <3>2. u = b \/ \E x, y : u = [b EXCEPT !.columns = x, !.items = y]
      BY <3>1 DEF MoveItem
    <3> QED
      BY <3>2 DEF SameBoard, BoardFields
  <2>5. Same
    BY <1>2, <2>2, <2>3, <2>4
  <2> QED
    BY <1>2, <2>5 DEF OnBoard
<1>3. CASE e.cmd \in {"item/rename", "item/setDescription", "item/color", "item/post",
                      "item/assign", "item/unassign"}
  <2>1. /\ e.cmd \in {"item/rename", "item/setDescription", "item/color"} => u = SetField(b, r, e)
        /\ e.cmd = "item/post" => u = PostComment(b, r, e)
        /\ e.cmd \in {"item/assign", "item/unassign"} => u = Assign(b, r, e)
    BY ApplyCases
  <2>2. SameBoard(b, u) /\ u.members = b.members /\ u.pending = b.pending
    BY <1>3, <2>1 DEF SetField, PostComment, Assign, SameBoard, BoardFields
  <2> QED
    BY <1>3, <2>2 DEF OnBoard
<1>4. CASE e.cmd \in {"board/create", "board/rename", "invite", "invite/accept",
                      "invite/decline", "leave"}
  <2>1. /\ e.cmd = "board/create" => u = CreateBoard(b, p, r, e)
        /\ e.cmd = "board/rename" => u = [b EXCEPT !.name = r]
        /\ e.cmd = "invite" => u = InviteUser(b, r, e)
        /\ e.cmd = "invite/accept" => u = AcceptInvite(b, p, e)
        /\ e.cmd = "invite/decline" => u = b
        /\ e.cmd = "leave" => u = Leave(b, r, e)
    BY ApplyCases
  <2> QED
    BY <1>4, <2>1 DEF CreateBoard, InviteUser, Remember, AcceptInvite, Leave, SameBoard, BoardFields,
                      OnBoard, OnItem, OnColumn
<1> QED
  BY <1>1, <1>2, <1>3, <1>4 DEF Commands, OnBoard, OnItem, OnColumn

-----------------------------------------------------------------------------
(* The lists a board shows *)

\* The operations of S that are about o.
About(L, S, cmds, o) == {m \in S : L[m].cmd \in cmds /\ L[m].of = o}

\* m is the one of W that stands last.
Latest(t, W, m) == m \in W /\ \A w \in W : t.indx[w] <= t.indx[m]

\* Whatever the operations of S are about was made by one of them.
Grounded(L, S) ==
  \A m \in S :
    /\ L[m].cmd \in OnColumn => L[m].of \in S /\ L[L[m].of].cmd = "column/create"
    /\ L[m].cmd \in OnItem => L[m].of \in S /\ L[L[m].of].cmd = "item/create"
    /\ L[m].cmd = "item/moveTo" => L[m].to \in S /\ L[L[m].to].cmd = "column/create"

ColumnFields == {"name", "ids", "active", "removed", "position"}

\* A list is there since the operations D, and says what those of S say.
ColumnRight(L, t, c, x, D, S) ==
  /\ DOMAIN x = ColumnFields
  /\ x.removed \in BOOLEAN
  /\ x.removed <=> About(L, D, {"column/remove"}, c) # {}
  /\ ~ x.removed /\ c \in S => Latest(t, {c} \cup About(L, S, {"column/rename"}, c), x.name)

ListsRight(L, t, columns, D, S) ==
  /\ DOMAIN columns = {m \in D : L[m].cmd = "column/create"}
  /\ \A c \in DOMAIN columns : ColumnRight(L, t, c, columns[c], D, S)

\* Only counters and places differ.
LikeColumn(x, y) == DOMAIN y = ColumnFields /\ y.name = x.name /\ y.removed = x.removed

LEMMA CloseGapKeeps ==
  ASSUME NEW objects, NEW list, NEW pos, NEW u, u = CloseGap(objects, list, pos)
  PROVE  /\ DOMAIN u = DOMAIN objects
         /\ \A o \in DOMAIN objects :
              /\ DOMAIN u[o] = DOMAIN objects[o]
              /\ \A f \in DOMAIN objects[o] : f # "position" => u[o][f] = objects[o][f]
BY DEF CloseGap

LEMMA ColumnKeeps ==
  ASSUME NEW L, NEW t, NEW D, NEW S, NEW c, NEW x, ColumnRight(L, t, c, x, D, S),
         NEW y, LikeColumn(x, y), NEW r, r # c,
         L[r].of # c \/ L[r].cmd \notin {"column/remove", "column/rename"}
  PROVE  ColumnRight(L, t, c, y, D \cup {r}, S \cup {r})
<1>1. /\ About(L, D \cup {r}, {"column/remove"}, c) = About(L, D, {"column/remove"}, c)
      /\ About(L, S \cup {r}, {"column/rename"}, c) = About(L, S, {"column/rename"}, c)
  BY DEF About
<1> QED
  BY <1>1 DEF ColumnRight, LikeColumn

\* An operation that is not about lists may count their cards.
LEMMA ListsKept ==
  ASSUME NEW L, NEW t, NEW D, NEW S, NEW columns, ListsRight(L, t, columns, D, S),
         NEW r, L[r].cmd \notin {"column/create", "column/remove", "column/rename"},
         NEW u, DOMAIN u = DOMAIN columns,
         \A c \in DOMAIN columns : LikeColumn(columns[c], u[c])
  PROVE  ListsRight(L, t, u, D \cup {r}, S \cup {r})
<1>1. DOMAIN u = {m \in D \cup {r} : L[m].cmd = "column/create"}
  BY DEF ListsRight
<1>2. ASSUME NEW c \in DOMAIN u PROVE ColumnRight(L, t, c, u[c], D \cup {r}, S \cup {r})
  <2>1. c # r /\ ColumnRight(L, t, c, columns[c], D, S)
    BY <1>2 DEF ListsRight
  <2> QED
    BY <2>1, ColumnKeeps
<1> QED
  BY <1>1, <1>2 DEF ListsRight

LEMMA CreateColumnRight ==
  ASSUME NEW L, NEW t, NEW D, NEW S, S \subseteq D, Grounded(L, D), Grounded(L, S),
         NEW b, DOMAIN b = BoardFields, ListsRight(L, t, b.columns, D, S),
         NEW r, L[r].cmd = "column/create", r \notin S, t.indx[r] \in Nat,
         NEW u, u = CreateColumn(b, r, L[r])
  PROVE  ListsRight(L, t, u.columns, D \cup {r}, S \cup {r})
<1> DEFINE C == b.columns
           again == r \in DOMAIN C
           place == IF again THEN C[r].position ELSE b.active + 1
           column == [name |-> r, ids |-> <<>>, active |-> 0, removed |-> FALSE, position |-> place]
<1>1. CASE again /\ C[r].removed
  <2>1. u.columns = C
    BY <1>1 DEF CreateColumn
  <2>2. r \in D
    BY <1>1 DEF ListsRight
  <2>3. ASSUME NEW c \in DOMAIN C PROVE ColumnRight(L, t, c, C[c], D \cup {r}, S \cup {r})
    <3>1. ColumnRight(L, t, c, C[c], D, S)
      BY <2>3 DEF ListsRight
    <3>2. CASE c = r
      <4>1. About(L, D \cup {r}, {"column/remove"}, r) = About(L, D, {"column/remove"}, r)
        BY DEF About
      <4> QED
        BY <1>1, <3>1, <3>2, <4>1 DEF ColumnRight
    <3>3. CASE c # r
      <4>1. LikeColumn(C[c], C[c])
        BY <3>1 DEF LikeColumn, ColumnRight
      <4> QED
        BY <3>1, <3>3, <4>1, ColumnKeeps
    <3> QED
      BY <3>2, <3>3
  <2>4. DOMAIN C = {m \in D \cup {r} : L[m].cmd = "column/create"}
    BY <2>2 DEF ListsRight
  <2> QED
    BY <2>1, <2>3, <2>4 DEF ListsRight
<1>2. CASE ~ (again /\ C[r].removed)
  <2>1. u.columns = Put(C, r, column)
    BY <1>2 DEF CreateColumn, BoardFields
  <2> HIDE DEF column
  <2>2. /\ DOMAIN u.columns = DOMAIN C \cup {r}
        /\ u.columns[r] = column
        /\ \A c \in DOMAIN C : c # r => u.columns[c] = C[c]
    BY <2>1 DEF Put
  <2>3. DOMAIN u.columns = {m \in D \cup {r} : L[m].cmd = "column/create"}
    BY <2>2 DEF ListsRight
  <2>4. About(L, D \cup {r}, {"column/remove"}, r) = {}
    <3>1. CASE again
      <4>1. ColumnRight(L, t, r, C[r], D, S)
        BY <3>1 DEF ListsRight
      <4>2. About(L, D, {"column/remove"}, r) = {}
        BY <1>2, <3>1, <4>1 DEF ColumnRight
      <4> QED
        BY <4>2 DEF About
    <3>2. CASE ~ again
      <4>1. r \notin D
        BY <3>2 DEF ListsRight
      <4> QED
        BY <4>1 DEF About, Grounded, OnColumn
    <3> QED
      BY <3>1, <3>2
  <2>5. About(L, S \cup {r}, {"column/rename"}, r) = {}
    BY DEF About, Grounded, OnColumn
  <2>6. ColumnRight(L, t, r, column, D \cup {r}, S \cup {r})
    <3>1. DOMAIN column = ColumnFields /\ column.removed = FALSE /\ column.name = r
      BY DEF column, ColumnFields
    <3>2. Latest(t, {r} \cup {}, r)
      BY DEF Latest
    <3> QED
      BY <2>4, <2>5, <3>1, <3>2 DEF ColumnRight
  <2>7. ASSUME NEW c \in DOMAIN u.columns
        PROVE  ColumnRight(L, t, c, u.columns[c], D \cup {r}, S \cup {r})
    <3>1. CASE c = r
      BY <2>2, <2>6, <3>1
    <3>2. CASE c # r
      <4>1. ColumnRight(L, t, c, C[c], D, S) /\ u.columns[c] = C[c]
        BY <2>2, <2>7, <3>2 DEF ListsRight
      <4>2. LikeColumn(C[c], C[c])
        BY <4>1 DEF LikeColumn, ColumnRight
      <4> QED
        BY <3>2, <4>1, <4>2, ColumnKeeps
    <3> QED
      BY <3>1, <3>2
  <2> QED
    BY <2>3, <2>7 DEF ListsRight
<1> QED
  BY <1>1, <1>2

LEMMA RemoveColumnRight ==
  ASSUME NEW L, NEW t, NEW D, NEW S, S \subseteq D,
         NEW b, DOMAIN b = BoardFields, ListsRight(L, t, b.columns, D, S),
         NEW r, L[r].cmd = "column/remove", L[r].of \in D, L[L[r].of].cmd = "column/create",
         NEW u, u = RemoveColumn(b, r, L[r])
  PROVE  ListsRight(L, t, u.columns, D \cup {r}, S \cup {r})
<1> DEFINE C == b.columns
           o == L[r].of
           C2 == [C EXCEPT ![o].removed = TRUE]
           left == {c \in DOMAIN C2 : ~ C2[c].removed}
<1>1. o \in DOMAIN C
  BY DEF ListsRight
<1>2. \A c \in DOMAIN C : ColumnRight(L, t, c, C[c], D, S)
  BY DEF ListsRight
<1>3. u.columns = CloseGap(C2, left, C2[o].position)
  BY <1>1 DEF RemoveColumn, BoardFields
<1>4. DOMAIN C2 = DOMAIN C /\ \A c \in DOMAIN C : DOMAIN C2[c] = ColumnFields
  BY <1>1, <1>2 DEF ColumnRight
<1>5. \A c \in DOMAIN C : C2[c].name = C[c].name /\ (c # o => C2[c].removed = C[c].removed)
  BY <1>1, <1>2 DEF ColumnRight, ColumnFields
<1>6. C2[o].removed = TRUE
  BY <1>1, <1>2 DEF ColumnRight, ColumnFields
<1> HIDE DEF C2, left
<1>7. /\ DOMAIN u.columns = DOMAIN C
      /\ \A c \in DOMAIN C : /\ DOMAIN u.columns[c] = ColumnFields
                             /\ u.columns[c].name = C[c].name
                             /\ c # o => u.columns[c].removed = C[c].removed
      /\ u.columns[o].removed = TRUE
  <2>1. /\ DOMAIN u.columns = DOMAIN C2
        /\ \A c \in DOMAIN C2 :
             /\ DOMAIN u.columns[c] = DOMAIN C2[c]
             /\ \A f \in DOMAIN C2[c] : f # "position" => u.columns[c][f] = C2[c][f]
    BY <1>3, CloseGapKeeps
  <2> QED
    BY <1>1, <1>4, <1>5, <1>6, <2>1 DEF ColumnFields
<1>8. DOMAIN u.columns = {m \in D \cup {r} : L[m].cmd = "column/create"}
  BY <1>7 DEF ListsRight
<1>9. ASSUME NEW c \in DOMAIN u.columns
      PROVE  ColumnRight(L, t, c, u.columns[c], D \cup {r}, S \cup {r})
  <2>1. c \in DOMAIN C /\ ColumnRight(L, t, c, C[c], D, S) /\ c # r
    BY <1>2, <1>7, <1>9 DEF ListsRight
  <2>2. CASE c = o
    <3>1. r \in About(L, D \cup {r}, {"column/remove"}, o)
      BY DEF About
    <3> QED
      BY <1>7, <2>1, <2>2, <3>1 DEF ColumnRight
  <2>3. CASE c # o
    BY <1>7, <2>1, <2>3, ColumnKeeps DEF LikeColumn
  <2> QED
    BY <2>2, <2>3
<1> QED
  BY <1>8, <1>9 DEF ListsRight

LEMMA RenameColumnRight ==
  ASSUME NEW L, NEW t, NEW D, NEW S, S \subseteq D,
         NEW b, DOMAIN b = BoardFields, ListsRight(L, t, b.columns, D, S),
         NEW r, L[r].cmd = "column/rename", L[r].of \in S, L[L[r].of].cmd = "column/create",
         t.indx[r] \in Nat, \A a \in S : t.indx[a] <= t.indx[r],
         NEW u, u = RenameColumn(b, r, L[r])
  PROVE  ListsRight(L, t, u.columns, D \cup {r}, S \cup {r})
<1> DEFINE C == b.columns
           o == L[r].of
<1>1. o \in DOMAIN C
  BY DEF ListsRight
<1>2. \A c \in DOMAIN C : ColumnRight(L, t, c, C[c], D, S)
  BY DEF ListsRight
<1>3. u.columns = [C EXCEPT ![o].name = r]
  BY <1>1 DEF RenameColumn, BoardFields
<1>4. /\ DOMAIN u.columns = DOMAIN C
      /\ \A c \in DOMAIN C : /\ DOMAIN u.columns[c] = ColumnFields
                             /\ u.columns[c].removed = C[c].removed
                             /\ c # o => u.columns[c] = C[c]
      /\ u.columns[o].name = r
  BY <1>1, <1>2, <1>3 DEF ColumnRight, ColumnFields
<1>5. DOMAIN u.columns = {m \in D \cup {r} : L[m].cmd = "column/create"}
  BY <1>4 DEF ListsRight
<1>6. ASSUME NEW c \in DOMAIN u.columns
      PROVE  ColumnRight(L, t, c, u.columns[c], D \cup {r}, S \cup {r})
  <2>1. c \in DOMAIN C /\ ColumnRight(L, t, c, C[c], D, S) /\ c # r
    BY <1>2, <1>4, <1>6 DEF ListsRight
  <2>2. CASE c = o
    <3>1. About(L, D \cup {r}, {"column/remove"}, c) = About(L, D, {"column/remove"}, c)
      BY DEF About
    <3>2. Latest(t, {c} \cup About(L, S \cup {r}, {"column/rename"}, c), r)
      BY <2>2 DEF Latest, About
    <3> QED
      BY <1>4, <2>1, <2>2, <3>1, <3>2 DEF ColumnRight
  <2>3. CASE c # o
    BY <1>4, <2>1, <2>3, ColumnKeeps DEF LikeColumn
  <2> QED
    BY <2>2, <2>3
<1> QED
  BY <1>5, <1>6 DEF ListsRight

-----------------------------------------------------------------------------
(* The cards a board shows *)

ItemFields == {"name", "column", "description", "color", "assignees", "comments", "removed",
               "position"}

\* What the last of W wrote.
Written(t, W, v) == IF W = {} THEN v = NoRef ELSE Latest(t, W, v)

\* Where the card i is put by its creation or by a move m.
Place(L, i, m) == IF m = i THEN L[i].of ELSE L[m].to

Assigning(L, S, i, x) ==
  {m \in S : L[m].cmd \in {"item/assign", "item/unassign"} /\ L[m].of = i /\ L[m].to = x}

\* s is W in order.
Listed(t, W, s) ==
  /\ s \in Seq(W)
  /\ \A w \in W : \E k \in 1 .. Len(s) : s[k] = w
  /\ \A j, k \in 1 .. Len(s) : j < k => t.indx[s[j]] < t.indx[s[k]]

\* A card shows what the operations S say.
ItemShows(L, t, i, x, S) ==
  /\ Latest(t, {i} \cup About(L, S, {"item/rename"}, i), x.name)
  /\ Written(t, About(L, S, {"item/setDescription"}, i), x.description)
  /\ Written(t, About(L, S, {"item/color"}, i), x.color)
  /\ \E m : Latest(t, {i} \cup About(L, S, {"item/moveTo"}, i), m) /\ x.column = Place(L, i, m)
  /\ \A a : a \in x.assignees <=>
       \E m : Latest(t, Assigning(L, S, i, a), m) /\ L[m].cmd = "item/assign"
  /\ Listed(t, About(L, S, {"item/post"}, i), x.comments)

ItemRight(L, t, i, x, D, S) ==
  /\ DOMAIN x = ItemFields
  /\ x.removed \in BOOLEAN
  /\ x.removed <=> About(L, D, {"item/remove"}, i) # {}
  /\ ~ x.removed /\ i \in S => ItemShows(L, t, i, x, S)

CardsRight(L, t, items, D, S) ==
  /\ DOMAIN items = {m \in D : L[m].cmd = "item/create"}
  /\ \A i \in DOMAIN items : ItemRight(L, t, i, items[i], D, S)

\* Only the place differs.
LikeItem(x, y) ==
  DOMAIN y = ItemFields /\ \A f \in ItemFields \ {"position"} : y[f] = x[f]

LEMMA AboutOther ==
  ASSUME NEW L, NEW S, NEW cmds, NEW o, NEW r, L[r].cmd \notin cmds \/ L[r].of # o
  PROVE  About(L, S \cup {r}, cmds, o) = About(L, S, cmds, o)
BY DEF About

LEMMA AboutMore ==
  ASSUME NEW L, NEW S, NEW cmds, NEW o, NEW r, L[r].cmd \in cmds, L[r].of = o
  PROVE  About(L, S \cup {r}, cmds, o) = About(L, S, cmds, o) \cup {r}
BY DEF About

LEMMA AssigningOther ==
  ASSUME NEW L, NEW S, NEW o, NEW a, NEW r,
         L[r].cmd \notin {"item/assign", "item/unassign"} \/ L[r].of # o \/ L[r].to # a
  PROVE  Assigning(L, S \cup {r}, o, a) = Assigning(L, S, o, a)
BY DEF Assigning

\* An operation that says nothing about a card.
LEMMA ItemKeeps ==
  ASSUME NEW L, NEW t, NEW D, NEW S, NEW i, NEW x, ItemRight(L, t, i, x, D, S),
         NEW y, LikeItem(x, y), NEW r, r # i, L[r].of # i \/ L[r].cmd \notin OnItem
  PROVE  ItemRight(L, t, i, y, D \cup {r}, S \cup {r})
<1>1. ASSUME NEW cmds \in SUBSET OnItem, NEW W
      PROVE  About(L, W \cup {r}, cmds, i) = About(L, W, cmds, i)
  <2>1. L[r].cmd \notin cmds \/ L[r].of # i
    OBVIOUS
  <2> QED
    BY <2>1, AboutOther
<1>2. /\ About(L, D \cup {r}, {"item/remove"}, i) = About(L, D, {"item/remove"}, i)
      /\ About(L, S \cup {r}, {"item/rename"}, i) = About(L, S, {"item/rename"}, i)
      /\ About(L, S \cup {r}, {"item/setDescription"}, i) = About(L, S, {"item/setDescription"}, i)
      /\ About(L, S \cup {r}, {"item/color"}, i) = About(L, S, {"item/color"}, i)
      /\ About(L, S \cup {r}, {"item/moveTo"}, i) = About(L, S, {"item/moveTo"}, i)
      /\ About(L, S \cup {r}, {"item/post"}, i) = About(L, S, {"item/post"}, i)
  BY <1>1 DEF OnItem
<1>3. \A a : Assigning(L, S \cup {r}, i, a) = Assigning(L, S, i, a)
  BY AssigningOther DEF OnItem
<1>4. /\ DOMAIN y = ItemFields /\ y.removed = x.removed /\ y.name = x.name
      /\ y.description = x.description /\ y.color = x.color /\ y.column = x.column
      /\ y.assignees = x.assignees /\ y.comments = x.comments
  BY DEF LikeItem, ItemFields
<1>5. ItemShows(L, t, i, x, S) => ItemShows(L, t, i, y, S \cup {r})
  BY <1>2, <1>3, <1>4 DEF ItemShows
<1> QED
  BY <1>2, <1>4, <1>5 DEF ItemRight

LEMMA CardsKept ==
  ASSUME NEW L, NEW t, NEW D, NEW S, NEW items, CardsRight(L, t, items, D, S),
         NEW r, L[r].cmd \notin OnItem \cup {"item/create"}
  PROVE  CardsRight(L, t, items, D \cup {r}, S \cup {r})
<1>1. DOMAIN items = {m \in D \cup {r} : L[m].cmd = "item/create"}
  BY DEF CardsRight
<1>2. ASSUME NEW i \in DOMAIN items PROVE ItemRight(L, t, i, items[i], D \cup {r}, S \cup {r})
  <2>1. i # r /\ ItemRight(L, t, i, items[i], D, S)
    BY <1>2 DEF CardsRight
  <2>2. LikeItem(items[i], items[i])
    BY <2>1 DEF LikeItem, ItemRight
  <2> QED
    BY <2>1, <2>2, ItemKeeps
<1> QED
  BY <1>1, <1>2 DEF CardsRight

\* An operation about the card o.
LEMMA OneCard ==
  ASSUME NEW L, NEW t, NEW D, NEW S, NEW items, CardsRight(L, t, items, D, S),
         NEW r, L[r].cmd \in OnItem, L[r].of \in DOMAIN items,
         NEW u, DOMAIN u = DOMAIN items,
         \A i \in DOMAIN items : i # L[r].of => LikeItem(items[i], u[i]),
         ItemRight(L, t, L[r].of, u[L[r].of], D \cup {r}, S \cup {r})
  PROVE  CardsRight(L, t, u, D \cup {r}, S \cup {r})
<1>1. DOMAIN u = {m \in D \cup {r} : L[m].cmd = "item/create"}
  BY DEF CardsRight, OnItem
<1>2. ASSUME NEW i \in DOMAIN u PROVE ItemRight(L, t, i, u[i], D \cup {r}, S \cup {r})
  <2>1. i # r /\ ItemRight(L, t, i, items[i], D, S)
    BY <1>2 DEF CardsRight, OnItem
  <2>2. CASE i # L[r].of
    BY <2>1, <2>2, ItemKeeps
  <2> QED
    BY <2>2
<1> QED
  BY <1>1, <1>2 DEF CardsRight

\* Nothing is said yet about a card whose creation is applied.
LEMMA Unmentioned ==
  ASSUME NEW L, NEW S, Grounded(L, S), NEW r, r \notin S, L[r].cmd \notin OnItem, NEW cmds \in SUBSET OnItem
  PROVE  About(L, S \cup {r}, cmds, r) = {} /\ \A a : Assigning(L, S \cup {r}, r, a) = {}
<1>1. \A m \in S : L[m].cmd \in OnItem => L[m].of \in S
  BY DEF Grounded
<1>2. About(L, S \cup {r}, cmds, r) = {}
  BY <1>1 DEF About
<1>3. {"item/assign", "item/unassign"} \in SUBSET OnItem
  BY DEF OnItem
<1> QED
  BY <1>1, <1>2, <1>3 DEF Assigning

LEMMA CreateItemRight ==
  ASSUME NEW L, NEW t, NEW D, NEW S, S \subseteq D, Grounded(L, D), Grounded(L, S),
         NEW b, DOMAIN b = BoardFields, CardsRight(L, t, b.items, D, S),
         NEW r, L[r].cmd = "item/create", r \notin S, t.indx[r] \in Nat,
         L[r].of \in DOMAIN b.columns,
         NEW u, u = CreateItem(b, r, L[r])
  PROVE  CardsRight(L, t, u.items, D \cup {r}, S \cup {r})
<1> DEFINE I == b.items
           again == r \in DOMAIN I
           place == IF again THEN I[r].position ELSE b.columns[L[r].of].active + 1
           item == [name |-> r, column |-> L[r].of, description |-> NoRef, color |-> NoRef,
                    assignees |-> {}, comments |-> <<>>, removed |-> FALSE, position |-> place]
<1>1. r \notin S /\ L[r].cmd \notin OnItem
  BY DEF OnItem
<1>2. \A cmds \in SUBSET OnItem : About(L, S \cup {r}, cmds, r) = {}
  BY <1>1, Unmentioned
<1>3. \A a : Assigning(L, S \cup {r}, r, a) = {}
  BY <1>1, Unmentioned
<1>4. ASSUME NEW i \in DOMAIN I, i # r
      PROVE  ItemRight(L, t, i, I[i], D \cup {r}, S \cup {r})
  <2>1. ItemRight(L, t, i, I[i], D, S)
    BY DEF CardsRight
  <2>2. LikeItem(I[i], I[i])
    BY <2>1 DEF LikeItem, ItemRight
  <2> QED
    BY <1>1, <1>4, <2>1, <2>2, ItemKeeps
<1>5. CASE again /\ I[r].removed
  <2>1. u.items = I
    BY <1>5 DEF CreateItem
  <2>2. r \in D
    BY <1>5 DEF CardsRight
  <2>3. ItemRight(L, t, r, I[r], D \cup {r}, S \cup {r})
    <3>1. ItemRight(L, t, r, I[r], D, S)
      BY <1>5 DEF CardsRight
    <3>2. About(L, D \cup {r}, {"item/remove"}, r) = About(L, D, {"item/remove"}, r)
      BY DEF About
    <3> QED
      BY <1>5, <3>1, <3>2 DEF ItemRight
  <2>4. DOMAIN I = {m \in D \cup {r} : L[m].cmd = "item/create"}
    BY <2>2 DEF CardsRight
  <2> QED
    BY <1>4, <2>1, <2>3, <2>4 DEF CardsRight
<1>6. CASE ~ (again /\ I[r].removed)
  <2>1. u.items = Put(I, r, item)
    BY <1>6 DEF CreateItem, BoardFields
  <2> HIDE DEF item
  <2>2. /\ DOMAIN u.items = DOMAIN I \cup {r}
        /\ u.items[r] = item
        /\ \A i \in DOMAIN I : i # r => u.items[i] = I[i]
    BY <2>1 DEF Put
  <2>3. DOMAIN u.items = {m \in D \cup {r} : L[m].cmd = "item/create"}
    BY <2>2 DEF CardsRight
  <2>4. About(L, D \cup {r}, {"item/remove"}, r) = {}
    <3>1. CASE again
      <4>1. ItemRight(L, t, r, I[r], D, S)
        BY <3>1 DEF CardsRight
      <4>2. About(L, D, {"item/remove"}, r) = {}
        BY <1>6, <3>1, <4>1 DEF ItemRight
      <4> QED
        BY <4>2 DEF About
    <3>2. CASE ~ again
      <4>1. r \notin D
        BY <3>2 DEF CardsRight
      <4> QED
        BY <1>1, <4>1, Unmentioned DEF OnItem
    <3> QED
      BY <3>1, <3>2
  <2>5. /\ DOMAIN item = ItemFields /\ item.removed = FALSE /\ item.name = r /\ item.column = L[r].of
        /\ item.description = NoRef /\ item.color = NoRef /\ item.assignees = {}
        /\ item.comments = <<>>
    BY DEF item, ItemFields
  <2>6. ItemShows(L, t, r, item, S \cup {r})
    <3>1. /\ About(L, S \cup {r}, {"item/rename"}, r) = {}
          /\ About(L, S \cup {r}, {"item/setDescription"}, r) = {}
          /\ About(L, S \cup {r}, {"item/color"}, r) = {}
          /\ About(L, S \cup {r}, {"item/moveTo"}, r) = {}
          /\ About(L, S \cup {r}, {"item/post"}, r) = {}
      BY <1>2 DEF OnItem
    <3>2. Latest(t, {r} \cup {}, r)
      BY DEF Latest
    <3>3. Place(L, r, r) = L[r].of
      BY DEF Place
    <3>4. \A m : ~ Latest(t, {}, m)
      BY DEF Latest
    <3>5. Listed(t, {}, <<>>)
      BY DEF Listed
    <3>6. Written(t, {}, NoRef)
      BY DEF Written
    <3> QED
      BY <1>3, <2>5, <3>1, <3>2, <3>3, <3>4, <3>5, <3>6 DEF ItemShows
  <2>7. ItemRight(L, t, r, item, D \cup {r}, S \cup {r})
    BY <2>4, <2>5, <2>6 DEF ItemRight
  <2> QED
    BY <1>4, <2>2, <2>3, <2>7 DEF CardsRight
<1> QED
  BY <1>5, <1>6

\* r stands behind all of S.
Behind(t, S, r) ==
  t.indx[r] \in Nat /\ \A a \in S : t.indx[a] \in Nat /\ t.indx[a] < t.indx[r]

LEMMA LatestBehind ==
  ASSUME NEW t, NEW S, NEW r, Behind(t, S, r), NEW W \in SUBSET S
  PROVE  Latest(t, W \cup {r}, r) /\ \A m : Latest(t, W \cup {r}, m) => m = r
<1>1. \A a \in W : t.indx[a] \in Nat /\ t.indx[a] < t.indx[r]
  BY DEF Behind
<1>2. t.indx[r] \in Nat
  BY DEF Behind
<1>3. Latest(t, W \cup {r}, r)
  BY <1>1, <1>2 DEF Latest
<1>4. ASSUME NEW m, Latest(t, W \cup {r}, m) PROVE m = r
  <2>1. t.indx[r] <= t.indx[m] /\ m \in W \cup {r}
    BY <1>4 DEF Latest
  <2> QED
    BY <1>1, <1>2, <2>1
<1> QED
  BY <1>3, <1>4

LEMMA ListedMore ==
  ASSUME NEW t, NEW S, NEW r, Behind(t, S, r), NEW W \in SUBSET S, NEW s, Listed(t, W, s)
  PROVE  Listed(t, W \cup {r}, Append(s, r))
<1> DEFINE u == Append(s, r)
           l == Len(s)
<1>1. s \in Seq(W) /\ l \in Nat
  BY DEF Listed
<1>2. /\ \A w \in W : \E k \in 1 .. l : s[k] = w
      /\ \A j, k \in 1 .. l : j < k => t.indx[s[j]] < t.indx[s[k]]
      /\ \A k \in 1 .. l : s[k] \in W
  BY <1>1 DEF Listed
<1>3. /\ u \in Seq(W \cup {r}) /\ Len(u) = l + 1 /\ u[l + 1] = r
      /\ \A k \in 1 .. l : u[k] = s[k]
  BY <1>1
<1> HIDE DEF u, l
<1>4. ASSUME NEW w \in W \cup {r} PROVE \E k \in 1 .. Len(u) : u[k] = w
  <2>1. CASE w = r
    <3>1. l + 1 \in 1 .. Len(u)
      BY <1>1, <1>3
    <3> QED
      BY <1>3, <2>1, <3>1
  <2>2. CASE w # r
    <3>1. PICK k \in 1 .. l : s[k] = w
      BY <1>2, <2>2
    <3>2. k \in 1 .. Len(u)
      BY <1>1, <1>3
    <3> QED
      BY <1>3, <3>1, <3>2
  <2> QED
    BY <2>1, <2>2
<1>5. ASSUME NEW j \in 1 .. Len(u), NEW k \in 1 .. Len(u), j < k
      PROVE  t.indx[u[j]] < t.indx[u[k]]
  <2>1. j \in 1 .. l /\ u[j] = s[j] /\ s[j] \in W
    BY <1>1, <1>2, <1>3, <1>5
  <2>2. CASE k = l + 1
    BY <1>3, <2>1, <2>2 DEF Behind
  <2>3. CASE k # l + 1
    <3>1. k \in 1 .. l
      BY <1>1, <1>3, <2>3
    <3> QED
      BY <1>2, <1>3, <1>5, <2>1, <3>1
  <2> QED
    BY <2>2, <2>3
<1>6. Listed(t, W \cup {r}, u)
  BY <1>3, <1>4, <1>5 DEF Listed
<1> QED
  BY <1>6 DEF u

\* x becomes y by an operation about the card o, other than its removal.
LEMMA ItemEdited ==
  ASSUME NEW L, NEW t, NEW D, NEW S, NEW o, NEW x, ItemRight(L, t, o, x, D, S),
         NEW y, DOMAIN y = ItemFields, y.removed = x.removed,
         NEW r, L[r].of = o, L[r].cmd \in OnItem \ {"item/remove"},
         Behind(t, S, r), o \in S,
         L[r].cmd # "item/rename" => y.name = x.name,
         L[r].cmd = "item/rename" => y.name = r,
         L[r].cmd # "item/setDescription" => y.description = x.description,
         L[r].cmd = "item/setDescription" => y.description = r,
         L[r].cmd # "item/color" => y.color = x.color,
         L[r].cmd = "item/color" => y.color = r,
         L[r].cmd # "item/moveTo" => y.column = x.column,
         L[r].cmd = "item/moveTo" => y.column = L[r].to,
         L[r].cmd \notin {"item/assign", "item/unassign"} => y.assignees = x.assignees,
         L[r].cmd = "item/assign" => y.assignees = x.assignees \cup {L[r].to},
         L[r].cmd = "item/unassign" => y.assignees = x.assignees \ {L[r].to},
         L[r].cmd # "item/post" => y.comments = x.comments,
         L[r].cmd = "item/post" => y.comments = Append(x.comments, r)
  PROVE  ItemRight(L, t, o, y, D \cup {r}, S \cup {r})
<1>1. About(L, D \cup {r}, {"item/remove"}, o) = About(L, D, {"item/remove"}, o)
  BY DEF About
<1>2. r # o
  BY DEF Behind
<1>3. \A cmds : About(L, S, cmds, o) \in SUBSET S /\ {o} \cup About(L, S, cmds, o) \in SUBSET S
  BY DEF About
<1>4. \A cmds : L[r].cmd \in cmds => About(L, S \cup {r}, cmds, o) = About(L, S, cmds, o) \cup {r}
  BY DEF About
<1>5. \A cmds : L[r].cmd \notin cmds => About(L, S \cup {r}, cmds, o) = About(L, S, cmds, o)
  BY DEF About
<1>7. ASSUME NEW W, W \in SUBSET S
      PROVE  /\ Latest(t, W \cup {r}, r)
             /\ \A m : Latest(t, W \cup {r}, m) => m = r
             /\ \A s : Listed(t, W, s) => Listed(t, W \cup {r}, Append(s, r))
  BY <1>7, LatestBehind, ListedMore
<1>6. ASSUME ItemShows(L, t, o, x, S) PROVE ItemShows(L, t, o, y, S \cup {r})
  <2> DEFINE Of(cmd) == About(L, S, {cmd}, o)
             More(cmd) == About(L, S \cup {r}, {cmd}, o)
  <2>0. \A cmd : /\ Of(cmd) \in SUBSET S /\ {o} \cup Of(cmd) \in SUBSET S
                 /\ L[r].cmd = cmd => More(cmd) = Of(cmd) \cup {r}
                 /\ L[r].cmd # cmd => More(cmd) = Of(cmd)
    BY <1>3, <1>4, <1>5
  <2>1. Latest(t, {o} \cup More("item/rename"), y.name)
    <3>1. Latest(t, {o} \cup Of("item/rename"), x.name)
      BY <1>6 DEF ItemShows
    <3>2. CASE L[r].cmd = "item/rename"
      <4>0. {o} \cup Of("item/rename") \in SUBSET S
        BY <2>0
      <4>1. Latest(t, ({o} \cup Of("item/rename")) \cup {r}, r)
        BY <1>7, <4>0
      <4>2. {o} \cup More("item/rename") = ({o} \cup Of("item/rename")) \cup {r}
        BY <2>0, <3>2
      <4> HIDE DEF Of, More
      <4> QED
        BY <3>2, <4>1, <4>2
    <3>3. CASE L[r].cmd # "item/rename"
      BY <2>0, <3>1, <3>3
    <3> QED
      BY <3>2, <3>3
  <2>2. Written(t, More("item/setDescription"), y.description)
    <3>1. Written(t, Of("item/setDescription"), x.description)
      BY <1>6 DEF ItemShows
    <3>2. CASE L[r].cmd = "item/setDescription"
      <4>0. Of("item/setDescription") \in SUBSET S
        BY <2>0
      <4>1. Latest(t, Of("item/setDescription") \cup {r}, r)
        BY <1>7, <4>0
      <4>2. More("item/setDescription") = Of("item/setDescription") \cup {r}
        BY <2>0, <3>2
      <4> HIDE DEF Of, More
      <4> QED
        BY <3>2, <4>1, <4>2 DEF Written
    <3>3. CASE L[r].cmd # "item/setDescription"
      BY <2>0, <3>1, <3>3
    <3> QED
      BY <3>2, <3>3
  <2>3. Written(t, More("item/color"), y.color)
    <3>1. Written(t, Of("item/color"), x.color)
      BY <1>6 DEF ItemShows
    <3>2. CASE L[r].cmd = "item/color"
      <4>0. Of("item/color") \in SUBSET S
        BY <2>0
      <4>1. Latest(t, Of("item/color") \cup {r}, r)
        BY <1>7, <4>0
      <4>2. More("item/color") = Of("item/color") \cup {r}
        BY <2>0, <3>2
      <4> HIDE DEF Of, More
      <4> QED
        BY <3>2, <4>1, <4>2 DEF Written
    <3>3. CASE L[r].cmd # "item/color"
      BY <2>0, <3>1, <3>3
    <3> QED
      BY <3>2, <3>3
  <2>4. \E m : Latest(t, {o} \cup More("item/moveTo"), m) /\ y.column = Place(L, o, m)
    <3>1. PICK m : Latest(t, {o} \cup Of("item/moveTo"), m) /\ x.column = Place(L, o, m)
      BY <1>6 DEF ItemShows
    <3>2. CASE L[r].cmd = "item/moveTo"
      <4>0. {o} \cup Of("item/moveTo") \in SUBSET S
        BY <2>0
      <4>1. Latest(t, ({o} \cup Of("item/moveTo")) \cup {r}, r)
        BY <1>7, <4>0
      <4>2. {o} \cup More("item/moveTo") = ({o} \cup Of("item/moveTo")) \cup {r}
        BY <2>0, <3>2
      <4>3. Place(L, o, r) = L[r].to
        BY <1>2 DEF Place
      <4> HIDE DEF Of, More
      <4> QED
        BY <3>2, <4>1, <4>2, <4>3
    <3>3. CASE L[r].cmd # "item/moveTo"
      BY <2>0, <3>1, <3>3
    <3> QED
      BY <3>2, <3>3
  <2>5. ASSUME NEW a
        PROVE  a \in y.assignees <=>
                 \E m : Latest(t, Assigning(L, S \cup {r}, o, a), m) /\ L[m].cmd = "item/assign"
    <3>1. a \in x.assignees <=>
            \E m : Latest(t, Assigning(L, S, o, a), m) /\ L[m].cmd = "item/assign"
      BY <1>6 DEF ItemShows
    <3>2. CASE L[r].cmd \in {"item/assign", "item/unassign"} /\ L[r].to = a
      <4> DEFINE W == Assigning(L, S, o, a)
      <4>1. W \in SUBSET S /\ Assigning(L, S \cup {r}, o, a) = W \cup {r}
        BY <3>2 DEF Assigning
      <4>2. Latest(t, W \cup {r}, r) /\ \A m : Latest(t, W \cup {r}, m) => m = r
        BY <1>7, <4>1
      <4>3. (\E m : Latest(t, W \cup {r}, m) /\ L[m].cmd = "item/assign")
              <=> L[r].cmd = "item/assign"
        BY <4>2
      <4>4. a \in y.assignees <=> L[r].cmd = "item/assign"
        BY <3>2
      <4> QED
        BY <4>1, <4>3, <4>4
    <3>3. CASE ~ (L[r].cmd \in {"item/assign", "item/unassign"} /\ L[r].to = a)
      <4>1. Assigning(L, S \cup {r}, o, a) = Assigning(L, S, o, a)
        BY <3>3, AssigningOther
      <4>2. a \in y.assignees <=> a \in x.assignees
        BY <3>3
      <4> QED
        BY <3>1, <4>1, <4>2
    <3> QED
      BY <3>2, <3>3
  <2>6. Listed(t, More("item/post"), y.comments)
    <3>1. Listed(t, Of("item/post"), x.comments)
      BY <1>6 DEF ItemShows
    <3>2. CASE L[r].cmd = "item/post"
      <4>1. Listed(t, Of("item/post") \cup {r}, Append(x.comments, r))
        BY <1>7, <2>0, <3>1
      <4>2. More("item/post") = Of("item/post") \cup {r}
        BY <2>0, <3>2
      <4> HIDE DEF Of, More
      <4> QED
        BY <3>2, <4>1, <4>2
    <3>3. CASE L[r].cmd # "item/post"
      BY <2>0, <3>1, <3>3
    <3> QED
      BY <3>2, <3>3
  <2> QED
    BY <2>1, <2>2, <2>3, <2>4, <2>5, <2>6 DEF ItemShows
<1> QED
  BY <1>1, <1>6 DEF ItemRight

LEMMA RemoveItemRight ==
  ASSUME NEW L, NEW t, NEW D, NEW S,
         NEW b, DOMAIN b = BoardFields, CardsRight(L, t, b.items, D, S),
         NEW r, L[r].cmd = "item/remove", L[r].of \in D, L[L[r].of].cmd = "item/create",
         NEW u, u = RemoveItem(b, r, L[r])
  PROVE  CardsRight(L, t, u.items, D \cup {r}, S \cup {r})
<1> DEFINE I == b.items
           o == L[r].of
           ids == Without(b.columns[I[o].column].ids, o)
           C == CloseGap(I, Range(ids), I[o].position)
<1>1. o \in DOMAIN I /\ \A i \in DOMAIN I : ItemRight(L, t, i, I[i], D, S)
  BY DEF CardsRight
<1>2. DOMAIN I[o] = ItemFields /\ L[r].cmd \in OnItem
  BY <1>1 DEF ItemRight, OnItem
<1>3. r \in About(L, D \cup {r}, {"item/remove"}, o)
  BY DEF About
<1>4. CASE I[o].removed
  <2>1. u.items = I
    BY <1>4 DEF RemoveItem
  <2>2. ItemRight(L, t, o, I[o], D \cup {r}, S \cup {r})
    <3>1. ItemRight(L, t, o, I[o], D, S)
      BY <1>1
    <3> QED
      BY <1>3, <1>4, <3>1 DEF ItemRight
  <2>3. \A i \in DOMAIN I : LikeItem(I[i], I[i])
    BY <1>1 DEF LikeItem, ItemRight
  <2> HIDE DEF I
  <2> QED
    BY <1>1, <1>2, <2>1, <2>2, <2>3, OneCard DEF I
<1>5. CASE ~ I[o].removed
  <2>1. u.items = [C EXCEPT ![o].removed = TRUE]
    BY <1>1, <1>5 DEF RemoveItem, BoardFields
  <2>2. /\ DOMAIN C = DOMAIN I
        /\ \A i \in DOMAIN I :
             /\ DOMAIN C[i] = DOMAIN I[i]
             /\ \A f \in DOMAIN I[i] : f # "position" => C[i][f] = I[i][f]
    BY CloseGapKeeps
  <2> HIDE DEF C
  <2>3. \A i \in DOMAIN I : DOMAIN I[i] = ItemFields
    BY <1>1 DEF ItemRight
  <2>4. /\ DOMAIN u.items = DOMAIN I
        /\ \A i \in DOMAIN I : i # o => u.items[i] = C[i]
        /\ DOMAIN u.items[o] = ItemFields /\ u.items[o].removed = TRUE
    BY <1>1, <2>1, <2>2, <2>3 DEF ItemFields
  <2>5. \A i \in DOMAIN I : i # o => LikeItem(I[i], u.items[i])
    BY <2>2, <2>3, <2>4 DEF LikeItem
  <2>6. ItemRight(L, t, o, u.items[o], D \cup {r}, S \cup {r})
    BY <1>3, <2>4 DEF ItemRight
  <2> QED
    BY <1>1, <1>2, <2>4, <2>5, <2>6, OneCard
<1> QED
  BY <1>4, <1>5

\* What ItemEdited needs of an operation that edits a card.
Edits(L, t, D, S, b, r) ==
  /\ DOMAIN b = BoardFields /\ CardsRight(L, t, b.items, D, S) /\ S \subseteq D
  /\ L[r].cmd \in OnItem \ {"item/remove"}
  /\ L[r].of \in S /\ L[L[r].of].cmd = "item/create" /\ Behind(t, S, r)

LEMMA EditedCard ==
  ASSUME NEW L, NEW t, NEW D, NEW S, NEW b, NEW r, Edits(L, t, D, S, b, r)
  PROVE  /\ L[r].of \in DOMAIN b.items
         /\ \A i \in DOMAIN b.items : /\ ItemRight(L, t, i, b.items[i], D, S)
                                      /\ DOMAIN b.items[i] = ItemFields
                                      /\ LikeItem(b.items[i], b.items[i])
BY DEF Edits, CardsRight, ItemRight, LikeItem

LEMMA SetFieldRight ==
  ASSUME NEW L, NEW t, NEW D, NEW S, NEW b, NEW r, Edits(L, t, D, S, b, r),
         L[r].cmd \in {"item/rename", "item/setDescription", "item/color"},
         NEW u, u = SetField(b, r, L[r])
  PROVE  CardsRight(L, t, u.items, D \cup {r}, S \cup {r})
<1> DEFINE I == b.items
           o == L[r].of
           field == Overwrites[L[r].cmd]
<1>1. o \in DOMAIN I /\ \A i \in DOMAIN I : /\ ItemRight(L, t, i, I[i], D, S)
                                            /\ DOMAIN I[i] = ItemFields
                                            /\ LikeItem(I[i], I[i])
  BY EditedCard
<1>2. /\ L[r].cmd = "item/rename" => field = "name"
      /\ L[r].cmd = "item/setDescription" => field = "description"
      /\ L[r].cmd = "item/color" => field = "color"
  BY DEF Overwrites
<1>3. u.items = [I EXCEPT ![o][field] = r]
  BY <1>1 DEF SetField, Edits, BoardFields
<1> HIDE DEF field
<1>4. /\ DOMAIN u.items = DOMAIN I
      /\ \A i \in DOMAIN I : i # o => u.items[i] = I[i]
      /\ u.items[o] = [I[o] EXCEPT ![field] = r]
  BY <1>1, <1>3
<1>5. ItemRight(L, t, o, u.items[o], D \cup {r}, S \cup {r})
  <2> DEFINE x == I[o]
             y == u.items[o]
  <2>1. DOMAIN y = ItemFields /\ DOMAIN x = ItemFields /\ field \in ItemFields
    BY <1>1, <1>2, <1>4 DEF ItemFields
  <2>2. y[field] = r /\ \A f \in ItemFields : f # field => y[f] = x[f]
    BY <1>4, <2>1
  <2>3. /\ y.removed = x.removed /\ y.column = x.column
        /\ y.assignees = x.assignees /\ y.comments = x.comments
        /\ L[r].cmd # "item/rename" => y.name = x.name
        /\ L[r].cmd = "item/rename" => y.name = r
        /\ L[r].cmd # "item/setDescription" => y.description = x.description
        /\ L[r].cmd = "item/setDescription" => y.description = r
        /\ L[r].cmd # "item/color" => y.color = x.color
        /\ L[r].cmd = "item/color" => y.color = r
    BY <1>2, <2>2 DEF ItemFields
  <2>4. ItemRight(L, t, o, x, D, S)
    BY <1>1
  <2> HIDE DEF x, y
  <2>5. ItemRight(L, t, o, y, D \cup {r}, S \cup {r})
    BY <2>1, <2>3, <2>4, ItemEdited DEF Edits
  <2> QED
    BY <2>5 DEF y
<1>7. \A i \in DOMAIN I : i # o => LikeItem(I[i], u.items[i])
  BY <1>1, <1>4
<1>8. CardsRight(L, t, I, D, S) /\ L[r].cmd \in OnItem
  BY DEF Edits
<1> HIDE DEF I
<1> QED
  BY <1>1, <1>4, <1>5, <1>7, <1>8, OneCard

LEMMA PostCommentRight ==
  ASSUME NEW L, NEW t, NEW D, NEW S, NEW b, NEW r, Edits(L, t, D, S, b, r),
         L[r].cmd = "item/post", NEW u, u = PostComment(b, r, L[r])
  PROVE  CardsRight(L, t, u.items, D \cup {r}, S \cup {r})
<1> DEFINE I == b.items
           o == L[r].of
<1>1. o \in DOMAIN I /\ \A i \in DOMAIN I : /\ ItemRight(L, t, i, I[i], D, S)
                                            /\ DOMAIN I[i] = ItemFields
                                            /\ LikeItem(I[i], I[i])
  BY EditedCard
<1>3. u.items = [I EXCEPT ![o].comments = Append(I[o].comments, r)]
  BY <1>1 DEF PostComment, Edits, BoardFields
<1>4. /\ DOMAIN u.items = DOMAIN I
      /\ \A i \in DOMAIN I : i # o => u.items[i] = I[i]
      /\ u.items[o] = [I[o] EXCEPT !.comments = Append(I[o].comments, r)]
  BY <1>1, <1>3
<1>5. ItemRight(L, t, o, u.items[o], D \cup {r}, S \cup {r})
  <2> DEFINE x == I[o]
             y == u.items[o]
  <2>1. DOMAIN y = ItemFields /\ DOMAIN x = ItemFields
    BY <1>1, <1>4
  <2>3. /\ y.removed = x.removed /\ y.column = x.column /\ y.name = x.name
        /\ y.description = x.description /\ y.color = x.color
        /\ y.assignees = x.assignees /\ y.comments = Append(x.comments, r)
    BY <1>4, <2>1 DEF ItemFields
  <2>4. ItemRight(L, t, o, x, D, S)
    BY <1>1
  <2> HIDE DEF x, y
  <2>5. ItemRight(L, t, o, y, D \cup {r}, S \cup {r})
    BY <2>1, <2>3, <2>4, ItemEdited DEF Edits
  <2> QED
    BY <2>5 DEF y
<1>7. \A i \in DOMAIN I : i # o => LikeItem(I[i], u.items[i])
  BY <1>1, <1>4
<1>8. CardsRight(L, t, I, D, S) /\ L[r].cmd \in OnItem
  BY DEF Edits
<1> HIDE DEF I
<1> QED
  BY <1>1, <1>4, <1>5, <1>7, <1>8, OneCard

LEMMA AssignRight ==
  ASSUME NEW L, NEW t, NEW D, NEW S, NEW b, NEW r, Edits(L, t, D, S, b, r),
         L[r].cmd \in {"item/assign", "item/unassign"}, NEW u, u = Assign(b, r, L[r])
  PROVE  CardsRight(L, t, u.items, D \cup {r}, S \cup {r})
<1> DEFINE I == b.items
           o == L[r].of
           people == IF L[r].cmd = "item/assign" THEN I[o].assignees \cup {L[r].to}
                     ELSE I[o].assignees \ {L[r].to}
<1>1. o \in DOMAIN I /\ \A i \in DOMAIN I : /\ ItemRight(L, t, i, I[i], D, S)
                                            /\ DOMAIN I[i] = ItemFields
                                            /\ LikeItem(I[i], I[i])
  BY EditedCard
<1>3. u.items = [I EXCEPT ![o].assignees = people]
  BY <1>1 DEF Assign, Edits, BoardFields
<1>6. /\ L[r].cmd = "item/assign" => people = I[o].assignees \cup {L[r].to}
      /\ L[r].cmd = "item/unassign" => people = I[o].assignees \ {L[r].to}
  OBVIOUS
<1> HIDE DEF people
<1>4. /\ DOMAIN u.items = DOMAIN I
      /\ \A i \in DOMAIN I : i # o => u.items[i] = I[i]
      /\ u.items[o] = [I[o] EXCEPT !.assignees = people]
  BY <1>1, <1>3
<1>5. ItemRight(L, t, o, u.items[o], D \cup {r}, S \cup {r})
  <2> DEFINE x == I[o]
             y == u.items[o]
  <2>1. DOMAIN y = ItemFields /\ DOMAIN x = ItemFields
    BY <1>1, <1>4
  <2>3. /\ y.removed = x.removed /\ y.column = x.column /\ y.name = x.name
        /\ y.description = x.description /\ y.color = x.color
        /\ y.assignees = people /\ y.comments = x.comments
    BY <1>4, <2>1 DEF ItemFields
  <2>4. ItemRight(L, t, o, x, D, S)
    BY <1>1
  <2>6. /\ L[r].cmd = "item/assign" => y.assignees = x.assignees \cup {L[r].to}
        /\ L[r].cmd = "item/unassign" => y.assignees = x.assignees \ {L[r].to}
    BY <1>6, <2>3
  <2> HIDE DEF x, y
  <2>5. ItemRight(L, t, o, y, D \cup {r}, S \cup {r})
    BY <2>1, <2>3, <2>4, <2>6, ItemEdited DEF Edits
  <2> QED
    BY <2>5 DEF y
<1>7. \A i \in DOMAIN I : i # o => LikeItem(I[i], u.items[i])
  BY <1>1, <1>4
<1>8. CardsRight(L, t, I, D, S) /\ L[r].cmd \in OnItem
  BY DEF Edits
<1> HIDE DEF I
<1> QED
  BY <1>1, <1>4, <1>5, <1>7, <1>8, OneCard

LEMMA MoveItemRight ==
  ASSUME NEW L, NEW t, NEW D, NEW S, NEW b, NEW r, Edits(L, t, D, S, b, r),
         L[r].cmd = "item/moveTo", L[r].to \in DOMAIN b.columns,
         NEW u, u = MoveItem(b, r, L[r])
  PROVE  CardsRight(L, t, u.items, D \cup {r}, S \cup {r})
<1> DEFINE I == b.items
           o == L[r].of
<1>1. o \in DOMAIN I /\ \A i \in DOMAIN I : /\ ItemRight(L, t, i, I[i], D, S)
                                            /\ DOMAIN I[i] = ItemFields
                                            /\ LikeItem(I[i], I[i])
  BY EditedCard
<1>2. DOMAIN b = BoardFields
  BY DEF Edits
<1> DEFINE c == I[o].column
           taken == [b.columns EXCEPT ![c].ids = Without(@, o), ![c].active = @ - 1]
           columns == [taken EXCEPT ![L[r].to].active = @ + 1, ![L[r].to].ids = Append(@, o)]
           pos == columns[L[r].to].active
           list == Range(columns[c].ids)
           gap == I[o].position
<1> DEFINE J == [I EXCEPT ![o].position = pos, ![o].column = L[r].to]
<1>5. /\ DOMAIN J = DOMAIN I
      /\ \A i \in DOMAIN I : i # o => J[i] = I[i]
      /\ J[o] = [I[o] EXCEPT !.position = pos, !.column = L[r].to]
  <2> HIDE DEF pos
  <2> QED
    BY <1>1
<1>6. u.items = CloseGap(J, list, gap)
  <2>1. u = [b EXCEPT !.columns = columns, !.items = CloseGap(J, list, gap)]
    BY <1>1 DEF MoveItem
  <2> HIDE DEF J, list, gap, columns
  <2> QED
    BY <1>2, <2>1 DEF BoardFields
<1> HIDE DEF J, pos, list, gap, columns, taken, c
<1>7. /\ DOMAIN J[o] = ItemFields /\ J[o].column = L[r].to
      /\ \A f \in ItemFields \ {"position", "column"} : J[o][f] = I[o][f]
  BY <1>1, <1>5 DEF ItemFields
<1>8. /\ DOMAIN u.items = DOMAIN I
      /\ \A i \in DOMAIN I :
           /\ DOMAIN u.items[i] = ItemFields
           /\ \A f \in ItemFields : f # "position" => u.items[i][f] = J[i][f]
  <2>1. \A i \in DOMAIN I : DOMAIN J[i] = ItemFields
    BY <1>1, <1>5, <1>7
  <2> QED
    BY <1>5, <1>6, <2>1, CloseGapKeeps
<1>9. \A i \in DOMAIN I : i # o => LikeItem(I[i], u.items[i])
  BY <1>5, <1>8 DEF LikeItem
<1>10. ItemRight(L, t, o, u.items[o], D \cup {r}, S \cup {r})
  <2> DEFINE x == I[o]
             y == u.items[o]
  <2>1. DOMAIN y = ItemFields
    BY <1>1, <1>8
  <2>3. /\ y.removed = x.removed /\ y.column = L[r].to /\ y.name = x.name
        /\ y.description = x.description /\ y.color = x.color
        /\ y.assignees = x.assignees /\ y.comments = x.comments
    BY <1>1, <1>7, <1>8 DEF ItemFields
  <2>4. ItemRight(L, t, o, x, D, S)
    BY <1>1
  <2> HIDE DEF x, y
  <2>5. ItemRight(L, t, o, y, D \cup {r}, S \cup {r})
    BY <2>1, <2>3, <2>4, ItemEdited DEF Edits
  <2> QED
    BY <2>5 DEF y
<1>11. CardsRight(L, t, I, D, S) /\ L[r].cmd \in OnItem
  BY DEF Edits
<1> HIDE DEF I
<1> QED
  BY <1>1, <1>8, <1>9, <1>10, <1>11, OneCard

-----------------------------------------------------------------------------
(* One operation on the whole board *)

\* A board made from the operations D, of which those of S are applied again.
Content(L, t, b, D, S) ==
  /\ DOMAIN b = BoardFields /\ b.subscribed = TRUE
  /\ ListsRight(L, t, b.columns, D, S)
  /\ CardsRight(L, t, b.items, D, S)

\* An operation on a card changes the counters of lists.
Counted(C, u) == DOMAIN u = DOMAIN C /\ \A c \in DOMAIN C : LikeColumn(C[c], u[c])

FullColumns(C) == \A c \in DOMAIN C : DOMAIN C[c] = ColumnFields

LEMMA CountersOnly ==
  \A C, k, v, w : FullColumns(C) => Counted(C, [C EXCEPT ![k].ids = v, ![k].active = w])
BY DEF LikeColumn, ColumnFields, Counted, FullColumns

LEMMA LikeColumns ==
  ASSUME NEW L, NEW t, NEW D, NEW S, NEW columns, ListsRight(L, t, columns, D, S)
  PROVE  \A c \in DOMAIN columns : /\ DOMAIN columns[c] = ColumnFields
                                   /\ LikeColumn(columns[c], columns[c])
BY DEF ListsRight, ColumnRight, LikeColumn

LEMMA ItemColumns ==
  ASSUME NEW L, NEW t, NEW D, NEW S, NEW b, DOMAIN b = BoardFields,
         ListsRight(L, t, b.columns, D, S), NEW r,
         NEW u, \/ L[r].cmd = "item/create" /\ u = CreateItem(b, r, L[r])
                \/ L[r].cmd = "item/remove" /\ u = RemoveItem(b, r, L[r])
                \/ L[r].cmd = "item/moveTo" /\ u = MoveItem(b, r, L[r])
  PROVE  ListsRight(L, t, u.columns, D \cup {r}, S \cup {r})
<1> DEFINE C == b.columns
<1>1. \A c \in DOMAIN C : DOMAIN C[c] = ColumnFields /\ LikeColumn(C[c], C[c])
  BY LikeColumns
<1>2. L[r].cmd \notin {"column/create", "column/remove", "column/rename"}
  OBVIOUS
<1>3. ASSUME NEW v, DOMAIN v = DOMAIN C, \A c \in DOMAIN C : LikeColumn(C[c], v[c])
      PROVE  ListsRight(L, t, v, D \cup {r}, S \cup {r})
  BY <1>2, <1>3, ListsKept
<1>0. FullColumns(C)
  BY <1>1 DEF FullColumns
<1>4. CASE u.columns = C
  BY <1>1, <1>3, <1>4
<1>5. CASE L[r].cmd = "item/create" /\ u.columns # C
  <2> DEFINE again == r \in DOMAIN b.items
             k == L[r].of
             v == Append(C[k].ids, r)
             w == IF again THEN C[k].active ELSE C[k].active + 1
             item == [name |-> r, column |-> k, description |-> NoRef, color |-> NoRef,
                      assignees |-> {}, comments |-> <<>>, removed |-> FALSE,
                      position |-> IF again THEN b.items[r].position ELSE b.columns[k].active + 1]
  <2>1. u = [b EXCEPT !.items = Put(@, r, item), !.columns[k].ids = Append(@, r),
                      !.columns[k].active = IF again THEN @ ELSE @ + 1]
    BY <1>5 DEF CreateItem
  <2> HIDE DEF item, again, k
  <2>2. u.columns = [C EXCEPT ![k].ids = v, ![k].active = w]
    BY <1>1, <2>1 DEF BoardFields, ColumnFields
  <2>3. DOMAIN u.columns = DOMAIN C /\ \A c \in DOMAIN C : LikeColumn(C[c], u.columns[c])
    <3>1. Counted(C, [C EXCEPT ![k].ids = v, ![k].active = w])
      BY <1>0, CountersOnly
    <3>2. Counted(C, u.columns)
      BY <2>2, <3>1
    <3> QED
      BY <3>2 DEF Counted
  <2> QED
    BY <1>3, <2>3
<1>6. CASE L[r].cmd = "item/remove" /\ u.columns # C
  <2> DEFINE item == b.items[L[r].of]
             k == item.column
             ids == Without(b.columns[k].ids, L[r].of)
             items == [CloseGap(b.items, Range(ids), item.position) EXCEPT ![L[r].of].removed = TRUE]
  <2>1. u = [b EXCEPT !.columns[k].ids = ids, !.columns[k].active = @ - 1, !.items = items]
    BY <1>6 DEF RemoveItem
  <2> HIDE DEF ids, items, k
  <2>2. u.columns = [C EXCEPT ![k].ids = ids, ![k].active = C[k].active - 1]
    BY <1>1, <2>1 DEF BoardFields
  <2>3. DOMAIN u.columns = DOMAIN C /\ \A c \in DOMAIN C : LikeColumn(C[c], u.columns[c])
    <3>1. Counted(C, [C EXCEPT ![k].ids = ids, ![k].active = C[k].active - 1])
      BY <1>0, CountersOnly
    <3>2. Counted(C, u.columns)
      BY <2>2, <3>1
    <3> QED
      BY <3>2 DEF Counted
  <2> QED
    BY <1>3, <2>3
<1>7. CASE L[r].cmd = "item/moveTo" /\ u.columns # C
  <2> DEFINE o == L[r].of
             item == b.items[o]
             k == item.column
             v == Without(C[k].ids, o)
             w == C[k].active - 1
             taken == [C EXCEPT ![k].ids = v, ![k].active = w]
             to == L[r].to
             x == Append(taken[to].ids, o)
             y == taken[to].active + 1
             columns == [taken EXCEPT ![to].active = @ + 1, ![to].ids = Append(@, o)]
             items == CloseGap([b.items EXCEPT ![o].position = columns[to].active, ![o].column = to],
                               Range(columns[k].ids), item.position)
  <2>1. u = [b EXCEPT !.columns = columns, !.items = items]
    <3>1. [C EXCEPT ![k].ids = Without(@, o), ![k].active = @ - 1] = taken
      <4> HIDE DEF k
      <4> QED
        BY <1>1 DEF ColumnFields
    <3> QED
      BY <1>7, <3>1 DEF MoveItem
  <2>2. u.columns = columns
    <3> HIDE DEF columns, items
    <3> QED
      BY <2>1 DEF BoardFields
  <2>3. Counted(C, taken)
    BY <1>0, CountersOnly
  <2>4. FullColumns(taken)
    <3> HIDE DEF taken
    <3> QED
      BY <2>3 DEF LikeColumn, Counted, FullColumns
  <2> HIDE DEF taken
  <2>5. columns = [taken EXCEPT ![to].ids = x, ![to].active = y]
    BY <2>4 DEF ColumnFields, FullColumns
  <2>6. Counted(taken, columns)
    BY <2>4, <2>5, CountersOnly
  <2> HIDE DEF columns
  <2>7. DOMAIN u.columns = DOMAIN C /\ \A c \in DOMAIN C : LikeColumn(C[c], u.columns[c])
    BY <2>2, <2>3, <2>6 DEF LikeColumn, Counted
  <2> QED
    BY <1>3, <2>7
<1> QED
  BY <1>4, <1>5, <1>6, <1>7

\* The operation that comes last.
LEMMA ContentLast ==
  ASSUME NEW L, NEW t, NEW b, NEW D, NEW S, Content(L, t, b, D, S), S \subseteq D,
         Grounded(L, D), Grounded(L, S), NEW r, r \notin S, Grounded(L, S \cup {r}),
         L[r].cmd \in Commands, Behind(t, S, r),
         NEW ev, ev = L, NEW p, NEW u, u = ApplyOperation(ev, p, r, b)
  PROVE  Content(L, t, u, D \cup {r}, S \cup {r}) /\ SameBoard(b, u)
<1>1. DOMAIN b = BoardFields /\ b.subscribed = TRUE
      /\ ListsRight(L, t, b.columns, D, S) /\ CardsRight(L, t, b.items, D, S)
  BY DEF Content
<1>2. /\ SameBoard(b, u)
      /\ L[r].cmd \in OnBoard => u.items = b.items
      /\ L[r].cmd \in OnBoard \ {"column/create"} => u.columns = b.columns
  BY <1>1, ApplyFrame
<1>2a. DOMAIN u = BoardFields
  BY <1>2 DEF SameBoard
<1>3. /\ L[r].cmd \in OnColumn => L[r].of \in S /\ L[L[r].of].cmd = "column/create"
      /\ L[r].cmd \in OnItem => L[r].of \in S /\ L[L[r].of].cmd = "item/create"
      /\ L[r].cmd = "item/moveTo" => L[r].to \in S /\ L[L[r].to].cmd = "column/create"
  BY DEF Grounded, OnColumn, OnItem
<1>4. t.indx[r] \in Nat /\ \A a \in S : t.indx[a] <= t.indx[r]
  BY DEF Behind
<1>5. DOMAIN b.columns = {m \in D : L[m].cmd = "column/create"}
  BY <1>1 DEF ListsRight
<1>6. \A c \in DOMAIN b.columns : LikeColumn(b.columns[c], b.columns[c])
  BY <1>1, LikeColumns
<1> DEFINE Lists1 == ListsRight(L, t, u.columns, D \cup {r}, S \cup {r})
           Cards1 == CardsRight(L, t, u.items, D \cup {r}, S \cup {r})
<1>7. L[r].cmd \notin {"column/create", "column/remove", "column/rename"} =>
        ListsRight(L, t, b.columns, D \cup {r}, S \cup {r})
  BY <1>1, <1>6, ListsKept
<1>8. L[r].cmd \notin OnItem \cup {"item/create"} =>
        CardsRight(L, t, b.items, D \cup {r}, S \cup {r})
  BY <1>1, CardsKept
<1>9. ASSUME L[r].cmd \in OnBoard PROVE Lists1 /\ Cards1
  <2>1. Cards1
    BY <1>2, <1>8, <1>9 DEF OnBoard, OnItem
  <2>2. CASE L[r].cmd = "column/create"
    <3>1. u = CreateColumn(b, r, L[r])
      BY <2>2, ApplyCases
    <3> QED
      BY <1>1, <1>4, <2>1, <2>2, <3>1, CreateColumnRight
  <2>3. CASE L[r].cmd # "column/create"
    BY <1>2, <1>7, <1>9, <2>1, <2>3 DEF OnBoard
  <2> QED
    BY <2>2, <2>3
<1>10. ASSUME L[r].cmd \in OnColumn PROVE Lists1 /\ Cards1
  <2>1. CASE L[r].cmd = "column/remove"
    <3>1. u = RemoveColumn(b, r, L[r])
      BY <2>1, ApplyCases
    <3>2. Lists1
      BY <1>1, <1>3, <1>10, <2>1, <3>1, RemoveColumnRight
    <3>3. u.items = b.items
      BY <1>1, <3>1 DEF RemoveColumn, BoardFields
    <3> QED
      BY <1>8, <2>1, <3>2, <3>3 DEF OnItem
  <2>2. CASE L[r].cmd = "column/rename"
    <3>1. u = RenameColumn(b, r, L[r])
      BY <2>2, ApplyCases
    <3>2. Lists1
      BY <1>1, <1>3, <1>4, <1>10, <2>2, <3>1, RenameColumnRight
    <3>3. u.items = b.items
      BY <1>1, <3>1 DEF RenameColumn, BoardFields
    <3> QED
      BY <1>8, <2>2, <3>2, <3>3 DEF OnItem
  <2>3. CASE L[r].cmd = "item/create"
    <3>1. u = CreateItem(b, r, L[r])
      BY <2>3, ApplyCases
    <3>2. Lists1
      BY <1>1, <2>3, <3>1, ItemColumns
    <3>3. L[r].of \in DOMAIN b.columns
      BY <1>3, <1>5, <1>10
    <3>4. Cards1
      BY <1>1, <1>4, <2>3, <3>1, <3>3, CreateItemRight
    <3> QED
      BY <3>2, <3>4
  <2> QED
    BY <1>10, <2>1, <2>2, <2>3 DEF OnColumn
<1>11. ASSUME L[r].cmd \in OnItem PROVE Lists1 /\ Cards1
  <2>1. CASE L[r].cmd = "item/remove"
    <3>1. u = RemoveItem(b, r, L[r])
      BY <2>1, ApplyCases
    <3>2. Lists1
      BY <1>1, <2>1, <3>1, ItemColumns
    <3>3. L[r].of \in D /\ L[L[r].of].cmd = "item/create"
      BY <1>3, <1>11
    <3>4. Cards1
      BY <1>1, <2>1, <3>1, <3>3, RemoveItemRight
    <3> QED
      BY <3>2, <3>4
  <2>2. CASE L[r].cmd # "item/remove"
    <3>1. Edits(L, t, D, S, b, r)
      BY <1>1, <1>3, <1>11, <2>2 DEF Edits
    <3>2. CASE L[r].cmd = "item/moveTo"
      <4>1. u = MoveItem(b, r, L[r])
        BY <3>2, ApplyCases
      <4>2. Lists1
        BY <1>1, <3>2, <4>1, ItemColumns
      <4>3. L[r].to \in DOMAIN b.columns
        BY <1>3, <1>5, <3>2
      <4> QED
        BY <3>1, <3>2, <4>1, <4>2, <4>3, MoveItemRight
    <3>3. CASE L[r].cmd \in {"item/rename", "item/setDescription", "item/color"}
      <4>1. u = SetField(b, r, L[r])
        BY <3>3, ApplyCases
      <4>2. u.columns = b.columns
        BY <1>1, <4>1 DEF SetField, BoardFields
      <4> QED
        BY <1>7, <3>1, <3>3, <4>1, <4>2, SetFieldRight
    <3>4. CASE L[r].cmd = "item/post"
      <4>1. u = PostComment(b, r, L[r])
        BY <3>4, ApplyCases
      <4>2. u.columns = b.columns
        BY <1>1, <4>1 DEF PostComment, BoardFields
      <4> QED
        BY <1>7, <3>1, <3>4, <4>1, <4>2, PostCommentRight
    <3>5. CASE L[r].cmd \in {"item/assign", "item/unassign"}
      <4>1. u = Assign(b, r, L[r])
        BY <3>5, ApplyCases
      <4>2. u.columns = b.columns
        BY <1>1, <4>1 DEF Assign, BoardFields
      <4> QED
        BY <1>7, <3>1, <3>5, <4>1, <4>2, AssignRight
    <3> QED
      BY <1>11, <2>2, <3>2, <3>3, <3>4, <3>5 DEF OnItem
  <2> QED
    BY <2>1, <2>2
<1>12. u.subscribed = TRUE
  BY <1>1, <1>2 DEF SameBoard
<1> QED
  BY <1>2, <1>2a, <1>9, <1>10, <1>11, <1>12 DEF Content, Commands

\* An operation whose place in the timeline is irrelevant.
LEMMA ContentIndependent ==
  ASSUME NEW L, NEW t, NEW b, NEW S, Content(L, t, b, S, S), Grounded(L, S),
         NEW r, r \notin S, Grounded(L, S \cup {r}), L[r].cmd \in IndependentOPs,
         t.indx[r] \in Nat,
         NEW ev, ev = L, NEW p, NEW u, u = ApplyOperation(ev, p, r, b)
  PROVE  Content(L, t, u, S \cup {r}, S \cup {r}) /\ SameBoard(b, u)
<1>1. DOMAIN b = BoardFields /\ b.subscribed = TRUE
      /\ ListsRight(L, t, b.columns, S, S) /\ CardsRight(L, t, b.items, S, S)
  BY DEF Content
<1>0. L[r].cmd \in Commands
  BY DEF IndependentOPs, Commands, OnBoard, OnColumn, OnItem
<1>2. /\ SameBoard(b, u)
      /\ L[r].cmd \in OnBoard => u.items = b.items
      /\ L[r].cmd \in OnBoard \ {"column/create"} => u.columns = b.columns
  BY <1>0, <1>1, ApplyFrame
<1>2a. DOMAIN u = BoardFields /\ u.subscribed = TRUE
  BY <1>1, <1>2 DEF SameBoard
<1>3. /\ L[r].cmd \in OnColumn => L[r].of \in S /\ L[L[r].of].cmd = "column/create"
      /\ L[r].cmd \in OnItem => L[r].of \in S /\ L[L[r].of].cmd = "item/create"
  BY DEF Grounded, OnColumn, OnItem
<1>5. DOMAIN b.columns = {m \in S : L[m].cmd = "column/create"}
  BY <1>1 DEF ListsRight
<1>6. \A c \in DOMAIN b.columns : LikeColumn(b.columns[c], b.columns[c])
  BY <1>1, LikeColumns
<1>7. L[r].cmd \notin {"column/create", "column/remove", "column/rename"} =>
        ListsRight(L, t, b.columns, S \cup {r}, S \cup {r})
  BY <1>1, <1>6, ListsKept
<1>8. L[r].cmd \notin OnItem \cup {"item/create"} =>
        CardsRight(L, t, b.items, S \cup {r}, S \cup {r})
  BY <1>1, CardsKept
<1> DEFINE Lists1 == ListsRight(L, t, u.columns, S \cup {r}, S \cup {r})
           Cards1 == CardsRight(L, t, u.items, S \cup {r}, S \cup {r})
<1>9. CASE L[r].cmd = "column/create"
  <2>1. u = CreateColumn(b, r, L[r])
    BY <1>9, ApplyCases
  <2>2. Lists1
    BY <1>1, <1>9, <2>1, CreateColumnRight
  <2> QED
    BY <1>2, <1>2a, <1>8, <1>9, <2>2 DEF Content, OnBoard, OnItem
<1>10. CASE L[r].cmd = "leave"
  BY <1>2, <1>2a, <1>7, <1>8, <1>10 DEF Content, OnBoard, OnItem
<1>11. CASE L[r].cmd = "column/remove"
  <2>1. u = RemoveColumn(b, r, L[r])
    BY <1>11, ApplyCases
  <2>2. Lists1
    BY <1>1, <1>3, <1>11, <2>1, RemoveColumnRight DEF OnColumn
  <2>3. u.items = b.items
    BY <1>1, <2>1 DEF RemoveColumn, BoardFields
  <2> QED
    BY <1>2, <1>2a, <1>8, <1>11, <2>2, <2>3 DEF Content, OnItem
<1>12. CASE L[r].cmd = "item/create"
  <2>1. u = CreateItem(b, r, L[r])
    BY <1>12, ApplyCases
  <2>2. Lists1
    BY <1>1, <1>12, <2>1, ItemColumns
  <2>3. L[r].of \in DOMAIN b.columns
    BY <1>3, <1>5, <1>12 DEF OnColumn
  <2>4. Cards1
    BY <1>1, <1>12, <2>1, <2>3, CreateItemRight
  <2> QED
    BY <1>2, <1>2a, <2>2, <2>4 DEF Content
<1>13. CASE L[r].cmd = "item/remove"
  <2>1. u = RemoveItem(b, r, L[r])
    BY <1>13, ApplyCases
  <2>2. Lists1
    BY <1>1, <1>13, <2>1, ItemColumns
  <2>3. L[r].of \in S /\ L[L[r].of].cmd = "item/create"
    BY <1>3, <1>13 DEF OnItem
  <2>4. Cards1
    BY <1>1, <1>13, <2>1, <2>3, RemoveItemRight
  <2> QED
    BY <1>2, <1>2a, <2>2, <2>4 DEF Content
<1> QED
  BY <1>9, <1>10, <1>11, <1>12, <1>13 DEF IndependentOPs

\* Only the order of the operations matters.
LEMMA ContentMoved ==
  ASSUME NEW L, NEW t, NEW u, NEW b, NEW c, NEW N, Content(L, t, b, N, N),
         c.columns = b.columns, c.items = b.items, c.subscribed = b.subscribed, DOMAIN c = DOMAIN b,
         \A x, y \in N : t.indx[x] \in Nat /\ u.indx[x] \in Nat /\
                         (t.indx[x] < t.indx[y] <=> u.indx[x] < u.indx[y])
  PROVE  Content(L, u, c, N, N)
<1>0. DOMAIN c = BoardFields /\ c.subscribed = TRUE
      /\ ListsRight(L, t, b.columns, N, N) /\ CardsRight(L, t, b.items, N, N)
  BY DEF Content
<1>1. \A x, y \in N : t.indx[x] <= t.indx[y] <=> u.indx[x] <= u.indx[y]
  <2> TAKE x, y \in N
  <2>1. /\ t.indx[x] \in Nat /\ u.indx[x] \in Nat /\ t.indx[y] \in Nat /\ u.indx[y] \in Nat
        /\ t.indx[y] < t.indx[x] <=> u.indx[y] < u.indx[x]
    OBVIOUS
  <2> QED
    BY <2>1
<1>2. \A W \in SUBSET N : \A m : Latest(t, W, m) => Latest(u, W, m)
  BY <1>1 DEF Latest
<1>2a. \A W \in SUBSET N : \A m : Latest(u, W, m) => Latest(t, W, m)
  BY <1>1 DEF Latest
<1>3. \A W \in SUBSET N : \A v : Written(t, W, v) => Written(u, W, v)
  BY <1>2 DEF Written
<1>4. ASSUME NEW W \in SUBSET N, NEW s, Listed(t, W, s) PROVE Listed(u, W, s)
  <2>1. s \in Seq(W) /\ \A k \in 1 .. Len(s) : s[k] \in W
    BY <1>4 DEF Listed
  <2>2. \A j, k \in 1 .. Len(s) : j < k => u.indx[s[j]] < u.indx[s[k]]
    BY <1>4, <2>1 DEF Listed
  <2> QED
    BY <1>4, <2>1, <2>2 DEF Listed
<1>5. \A cmds, o : About(L, N, cmds, o) \in SUBSET N /\ (o \in N => {o} \cup About(L, N, cmds, o) \in SUBSET N)
  BY DEF About
<1>6. \A o, a : Assigning(L, N, o, a) \in SUBSET N
  BY DEF Assigning
<1>7. ListsRight(L, u, b.columns, N, N)
  <2>1. ASSUME NEW k \in DOMAIN b.columns PROVE ColumnRight(L, u, k, b.columns[k], N, N)
    <3>1. ColumnRight(L, t, k, b.columns[k], N, N)
      BY <1>0 DEF ListsRight
    <3> QED
      BY <1>2, <1>5, <3>1 DEF ColumnRight
  <2> QED
    BY <1>0, <2>1 DEF ListsRight
<1>8. CardsRight(L, u, b.items, N, N)
  <2>1. ASSUME NEW i \in DOMAIN b.items PROVE ItemRight(L, u, i, b.items[i], N, N)
    <3> DEFINE x == b.items[i]
    <3>1. ItemRight(L, t, i, x, N, N)
      BY <1>0 DEF CardsRight
    <3> HIDE DEF x
    <3>2. ASSUME i \in N, ItemShows(L, t, i, x, N) PROVE ItemShows(L, u, i, x, N)
      <4>1. Latest(u, {i} \cup About(L, N, {"item/rename"}, i), x.name)
        <5>1. Latest(t, {i} \cup About(L, N, {"item/rename"}, i), x.name)
          BY <3>2 DEF ItemShows
        <5> QED
          BY <1>2, <1>5, <3>2, <5>1
      <4>2. /\ Written(u, About(L, N, {"item/setDescription"}, i), x.description)
            /\ Written(u, About(L, N, {"item/color"}, i), x.color)
        <5>1. /\ Written(t, About(L, N, {"item/setDescription"}, i), x.description)
              /\ Written(t, About(L, N, {"item/color"}, i), x.color)
          BY <3>2 DEF ItemShows
        <5> QED
          BY <1>3, <1>5, <5>1
      <4>3. \E m : Latest(u, {i} \cup About(L, N, {"item/moveTo"}, i), m) /\ x.column = Place(L, i, m)
        <5>1. PICK m : Latest(t, {i} \cup About(L, N, {"item/moveTo"}, i), m) /\ x.column = Place(L, i, m)
          BY <3>2 DEF ItemShows
        <5> QED
          BY <1>2, <1>5, <3>2, <5>1
      <4>4. ASSUME NEW a
            PROVE  a \in x.assignees <=>
                     \E m : Latest(u, Assigning(L, N, i, a), m) /\ L[m].cmd = "item/assign"
        <5>1. a \in x.assignees <=>
                \E m : Latest(t, Assigning(L, N, i, a), m) /\ L[m].cmd = "item/assign"
          BY <3>2 DEF ItemShows
        <5>2. \A m : Latest(t, Assigning(L, N, i, a), m) <=> Latest(u, Assigning(L, N, i, a), m)
          BY <1>2, <1>2a, <1>6
        <5> QED
          BY <5>1, <5>2
      <4>5. Listed(u, About(L, N, {"item/post"}, i), x.comments)
        <5>1. Listed(t, About(L, N, {"item/post"}, i), x.comments)
          BY <3>2 DEF ItemShows
        <5> QED
          BY <1>4, <1>5, <5>1
      <4> QED
        BY <4>1, <4>2, <4>3, <4>4, <4>5 DEF ItemShows
    <3> QED
      BY <3>1, <3>2 DEF ItemRight, x
  <2> QED
    BY <1>0, <2>1 DEF CardsRight
<1> QED
  BY <1>0, <1>7, <1>8 DEF Content

-----------------------------------------------------------------------------
(* Members and invitations *)

\* The operations with which x became a member or left.
Answering(L, S, x) == {m \in S : L[m].by = x /\ L[m].cmd \in {"board/create", "invite/accept", "leave"}}

\* The last of them is not that x left.
Stands(L, t, S, x) == \E m : Latest(t, Answering(L, S, x), m) /\ L[m].cmd # "leave"

\* Members are as the operations S say, but for those of M about whom they say nothing.
MembersFrom(L, t, S, members, M) ==
  \A x \in members : Stands(L, t, S, x) \/ (Answering(L, S, x) = {} /\ x \in M)

\* Invitations are remembered by operations of N.
PendingRight(b, N) == b.pending \in [Person -> [from : SUBSET N, many : BOOLEAN]]

LEMMA MembersAfter ==
  ASSUME NEW L, NEW p, NEW r, NEW b, DOMAIN b = BoardFields, L[r].cmd \in Commands,
         NEW u, u = ApplyOperation(L, p, r, b)
  PROVE  /\ L[r].cmd \in {"board/create", "invite/accept"} =>
              \A x \in u.members : x = L[r].by \/ x \in b.members
         /\ L[r].cmd = "leave" => \A x \in u.members : x # L[r].by /\ x \in b.members
         /\ L[r].cmd \notin {"board/create", "invite/accept", "leave"} => u.members = b.members
<1>1. CASE L[r].cmd = "board/create"
  <2>1. u = CreateBoard(b, p, r, L[r])
    BY <1>1, ApplyCases
  <2> QED
    BY <1>1, <2>1 DEF CreateBoard, BoardFields
<1>2. CASE L[r].cmd = "invite/accept"
  <2>1. u = AcceptInvite(b, p, L[r])
    BY <1>2, ApplyCases
  <2> QED
    BY <1>2, <2>1 DEF AcceptInvite, BoardFields
<1>3. CASE L[r].cmd = "leave"
  <2>1. u = Leave(b, r, L[r])
    BY <1>3, ApplyCases
  <2> QED
    BY <1>3, <2>1 DEF Leave, BoardFields
<1>4. CASE L[r].cmd = "invite"
  <2>1. u = InviteUser(b, r, L[r])
    BY <1>4, ApplyCases
  <2> QED
    BY <1>4, <2>1 DEF InviteUser, Remember, BoardFields
<1>5. CASE L[r].cmd \in OnColumn \cup OnItem \cup {"board/rename", "column/create", "invite/decline"}
  <2>1. u.members = b.members
    BY <1>5, ApplyFrame
  <2> QED
    BY <1>5, <2>1 DEF OnColumn, OnItem
<1> QED
  BY <1>1, <1>2, <1>3, <1>4, <1>5 DEF Commands, OnBoard

LEMMA MembersLast ==
  ASSUME NEW L, NEW t, NEW S, NEW p, NEW r, NEW b, DOMAIN b = BoardFields, L[r].cmd \in Commands,
         Behind(t, S, r), NEW M, MembersFrom(L, t, S, b.members, M),
         NEW u, u = ApplyOperation(L, p, r, b)
  PROVE  MembersFrom(L, t, S \cup {r}, u.members, M)
<1> SUFFICES ASSUME NEW x \in u.members
             PROVE  \/ Stands(L, t, S \cup {r}, x)
                    \/ Answering(L, S \cup {r}, x) = {} /\ x \in M
  BY DEF MembersFrom
<1> DEFINE speaks == L[r].by = x /\ L[r].cmd \in {"board/create", "invite/accept", "leave"}
<1>1. CASE speaks
  <2>1. L[r].cmd # "leave"
    BY <1>1, MembersAfter
  <2>2. Answering(L, S, x) \in SUBSET S /\ Answering(L, S \cup {r}, x) = Answering(L, S, x) \cup {r}
    BY <1>1 DEF Answering
  <2>3. Latest(t, Answering(L, S, x) \cup {r}, r)
    <3>1. \A W \in SUBSET S : Latest(t, W \cup {r}, r)
      BY LatestBehind
    <3> QED
      BY <2>2, <3>1
  <2> QED
    BY <2>1, <2>2, <2>3 DEF Stands
<1>2. CASE ~ speaks
  <2>1. Answering(L, S \cup {r}, x) = Answering(L, S, x)
    BY <1>2 DEF Answering
  <2>2. x \in b.members
    BY <1>2, MembersAfter
  <2>3. Stands(L, t, S, x) \/ (Answering(L, S, x) = {} /\ x \in M)
    BY <2>2 DEF MembersFrom
  <2> QED
    BY <2>1, <2>3 DEF Stands
<1> QED
  BY <1>1, <1>2

LEMMA MembersIndependent ==
  ASSUME NEW L, NEW t, NEW S, NEW p, NEW r, NEW b, DOMAIN b = BoardFields,
         L[r].cmd \in IndependentOPs, NEW M, MembersFrom(L, t, S, b.members, M),
         NEW u, u = ApplyOperation(L, p, r, b)
  PROVE  MembersFrom(L, t, S \cup {r}, u.members, M)
<1>1. L[r].cmd \in Commands /\ L[r].cmd \notin {"board/create", "invite/accept"}
  BY DEF IndependentOPs, Commands, OnBoard, OnColumn, OnItem
<1>2. ASSUME NEW x \in u.members
      PROVE  x \in b.members /\ (L[r].cmd = "leave" => x # L[r].by)
  BY <1>1, MembersAfter
<1>3. ASSUME NEW x \in u.members
      PROVE  Stands(L, t, S \cup {r}, x) \/ (Answering(L, S \cup {r}, x) = {} /\ x \in M)
  <2>1. Answering(L, S \cup {r}, x) = Answering(L, S, x)
    BY <1>1, <1>2 DEF Answering
  <2>2. Stands(L, t, S, x) \/ (Answering(L, S, x) = {} /\ x \in M)
    BY <1>2 DEF MembersFrom
  <2> QED
    BY <2>1, <2>2 DEF Stands
<1> QED
  BY <1>3 DEF MembersFrom

LEMMA MembersMoved ==
  ASSUME NEW L, NEW t, NEW u, NEW N, NEW members, NEW M, MembersFrom(L, t, N, members, M),
         \A x, y \in N : t.indx[x] \in Nat /\ u.indx[x] \in Nat /\
                         (t.indx[x] < t.indx[y] <=> u.indx[x] < u.indx[y])
  PROVE  MembersFrom(L, u, N, members, M)
<1>1. \A x, y \in N : t.indx[x] <= t.indx[y] <=> u.indx[x] <= u.indx[y]
  <2> TAKE x, y \in N
  <2>1. /\ t.indx[x] \in Nat /\ u.indx[x] \in Nat /\ t.indx[y] \in Nat /\ u.indx[y] \in Nat
        /\ t.indx[y] < t.indx[x] <=> u.indx[y] < u.indx[x]
    OBVIOUS
  <2> QED
    BY <2>1
<1>2. \A W \in SUBSET N : \A m : Latest(t, W, m) => Latest(u, W, m)
  BY <1>1 DEF Latest
<1>3. \A x : Answering(L, N, x) \in SUBSET N
  BY DEF Answering
<1>4. \A x : Stands(L, t, N, x) => Stands(L, u, N, x)
  BY <1>2, <1>3 DEF Stands
<1> QED
  BY <1>4 DEF MembersFrom

LEMMA PendingKept ==
  ASSUME NEW L, NEW p, NEW r, NEW b, DOMAIN b = BoardFields, L[r].cmd \in Commands,
         NEW N, PendingRight(b, N), r \in N,
         NEW u, u = ApplyOperation(L, p, r, b)
  PROVE  PendingRight(u, N)
<1>0. /\ NoInvitation \in [from : SUBSET N, many : BOOLEAN]
      /\ b.pending \in [Person -> [from : SUBSET N, many : BOOLEAN]]
  BY DEF NoInvitation, PendingRight
<1>1. CASE L[r].cmd = "board/create"
  <2>1. u = CreateBoard(b, p, r, L[r])
    BY <1>1, ApplyCases
  <2> QED
    BY <1>0, <2>1 DEF CreateBoard, BoardFields, PendingRight
<1>2. CASE L[r].cmd = "invite/accept"
  <2>1. u = AcceptInvite(b, p, L[r])
    BY <1>2, ApplyCases
  <2>2. u.pending = b.pending \/ u.pending = [b.pending EXCEPT ![L[r].by] = NoInvitation]
    BY <2>1 DEF AcceptInvite, BoardFields
  <2> QED
    BY <1>0, <2>2 DEF PendingRight
<1>3. CASE L[r].cmd = "leave"
  <2>1. u = Leave(b, r, L[r])
    BY <1>3, ApplyCases
  <2>2. u.pending = [b.pending EXCEPT ![L[r].by] = NoInvitation]
    BY <2>1 DEF Leave, BoardFields
  <2> QED
    BY <1>0, <2>2 DEF PendingRight
<1>4. CASE L[r].cmd = "invite"
  <2>1. u = InviteUser(b, r, L[r])
    BY <1>4, ApplyCases
  <2> DEFINE x == L[r].of
             more == [from |-> b.pending[x].from \cup {r}, many |-> b.pending[x].from # {}]
  <2>2. u.pending = b.pending \/ u.pending = [b.pending EXCEPT ![x] = more]
    BY <2>1 DEF InviteUser, Remember, BoardFields
  <2>3. x \in Person => more \in [from : SUBSET N, many : BOOLEAN]
    BY <1>0
  <2> HIDE DEF more
  <2>4. u.pending \in [Person -> [from : SUBSET N, many : BOOLEAN]]
    BY <1>0, <2>2, <2>3
  <2> QED
    BY <2>4 DEF PendingRight
<1>5. CASE L[r].cmd \in OnColumn \cup OnItem \cup {"board/rename", "column/create", "invite/decline"}
  <2>1. u.pending = b.pending
    BY <1>5, ApplyFrame
  <2> QED
    BY <1>0, <2>1 DEF PendingRight
<1> QED
  BY <1>1, <1>2, <1>3, <1>4, <1>5 DEF Commands, OnBoard

-----------------------------------------------------------------------------
(* All operations again *)

\* t is the timeline of N, a set of operations with all their causes.
TimelineRight(L, t, N) ==
  /\ N \in SUBSET Names /\ Complete(N, t) /\ Acyclic(N, t.after)
  /\ \A m \in N : t.after[m] = L[m].causes /\ L[m].causes \in SUBSET N

\* Everything an operation is about stands before it.
ObjectsBefore(L, t, N) ==
  \A m \in N :
    /\ L[m].cmd \in OnColumn =>
         L[m].of \in N /\ L[L[m].of].cmd = "column/create" /\ t.indx[L[m].of] < t.indx[m]
    /\ L[m].cmd \in OnItem =>
         L[m].of \in N /\ L[L[m].of].cmd = "item/create" /\ t.indx[L[m].of] < t.indx[m]
    /\ L[m].cmd = "item/moveTo" =>
         L[m].to \in N /\ L[L[m].to].cmd = "column/create" /\ t.indx[L[m].to] < t.indx[m]

\* The first k operations.
Start(t, k) == {t.linear[i] : i \in 1 .. k}

\* After k operations.
PassGood(L, t, N, D, M, b, x, k) ==
  /\ Content(L, t, x, D \cup Start(t, k), Start(t, k))
  /\ SameBoard(b, x) /\ PendingRight(x, N)
  /\ MembersFrom(L, t, Start(t, k), x.members, M)

LEMMA StartGrounded ==
  ASSUME NEW L, NEW t, NEW N, TimelineRight(L, t, N), ObjectsBefore(L, t, N),
         NEW k \in Nat, k <= Len(t.linear)
  PROVE  Grounded(L, Start(t, k)) /\ Start(t, k) \in SUBSET N
<1>1. t \in Timelines(N) /\ Placement(t)
  BY DEF TimelineRight, Complete, Ordered
<1>2. /\ Len(t.linear) \in Nat
      /\ \A a \in N : t.indx[a] \in Nat /\ 1 <= t.indx[a] /\ t.indx[a] <= Len(t.linear)
      /\ \A a \in N : t.linear[t.indx[a]] = a
      /\ \A i \in 1 .. Len(t.linear) : t.linear[i] \in N /\ t.indx[t.linear[i]] = i
  BY <1>1, Places
<1>3. Start(t, k) \in SUBSET N
  BY <1>2 DEF Start
<1>4. ASSUME NEW m \in Start(t, k), NEW o \in N, t.indx[o] < t.indx[m] PROVE o \in Start(t, k)
  <2>1. PICK i \in 1 .. k : m = t.linear[i]
    BY DEF Start
  <2>2. i \in 1 .. Len(t.linear)
    BY <1>2
  <2>3. t.indx[m] = i
    BY <1>2, <2>1, <2>2
  <2>4. t.indx[o] \in 1 .. k /\ t.linear[t.indx[o]] = o
    BY <1>2, <1>4, <2>3
  <2> QED
    BY <2>4 DEF Start
<1>5. ASSUME NEW m \in Start(t, k)
      PROVE  /\ L[m].cmd \in OnColumn => L[m].of \in Start(t, k) /\ L[L[m].of].cmd = "column/create"
             /\ L[m].cmd \in OnItem => L[m].of \in Start(t, k) /\ L[L[m].of].cmd = "item/create"
             /\ L[m].cmd = "item/moveTo" => L[m].to \in Start(t, k) /\ L[L[m].to].cmd = "column/create"
  <2>1. m \in N
    BY <1>3, <1>5
  <2> QED
    BY <1>4, <1>5, <2>1 DEF ObjectsBefore
<1> QED
  BY <1>3, <1>5 DEF Grounded

LEMMA PassRight ==
  ASSUME NEW L, NEW t, NEW N, TimelineRight(L, t, N), ObjectsBefore(L, t, N),
         \A m \in N : L[m].cmd \in Commands,
         NEW b, b.timeline = t, NEW D, D \subseteq N, Grounded(L, D),
         Content(L, t, b, D, {}), PendingRight(b, N),
         NEW M, MembersFrom(L, t, {}, b.members, M),
         NEW p, NEW u, u = ApplyAll(L, p, b)
  PROVE  /\ Content(L, t, u, N, N) /\ SameBoard(b, u) /\ PendingRight(u, N)
         /\ MembersFrom(L, t, N, u.members, M)
<1>1. t \in Timelines(N) /\ Placement(t) /\ \A m \in N : t.known[m] = t.after[m] \cap N
  BY DEF TimelineRight, Complete, Ordered
<1> DEFINE l == Len(t.linear)
<1>2. /\ l \in Nat
      /\ \A a \in N : t.indx[a] \in Nat /\ 1 <= t.indx[a] /\ t.indx[a] <= l
      /\ \A a \in N : t.linear[t.indx[a]] = a
      /\ \A i \in 1 .. l : t.linear[i] \in N /\ t.indx[t.linear[i]] = i
  BY <1>1, Places
<1>3. PICK f :
           /\ f[0] = b
           /\ \A k \in 1 .. l :
                f[k] = IF Valid(t, t.linear[k])
                       THEN ApplyOperation(L, p, t.linear[k], f[k - 1]) ELSE f[k - 1]
           /\ u = f[l]
  BY <1>2, ApplyAllRun
<1>4. \A k \in 1 .. l : f[k] = ApplyOperation(L, p, t.linear[k], f[k - 1])
  <2> TAKE k \in 1 .. l
  <2> DEFINE m == t.linear[k]
  <2>1. m \in N
    BY <1>2
  <2>2. t.after[m] \in SUBSET N
    BY <2>1 DEF TimelineRight
  <2>3. Valid(t, m)
    BY <1>1, <2>1, <2>2 DEF Valid
  <2> QED
    BY <1>3, <2>3
<1> DEFINE Good(k) == PassGood(L, t, N, D, M, b, f[k], k)
<1>5. Good(0)
  <2>1. Start(t, 0) = {}
    BY DEF Start
  <2>2. SameBoard(b, b)
    BY DEF Content, SameBoard
  <2> QED
    BY <1>3, <2>1, <2>2 DEF PassGood
<1>6. ASSUME NEW k \in 1 .. l, Good(k - 1) PROVE Good(k)
  <2> DEFINE S == Start(t, k - 1)
             r == t.linear[k]
             x == f[k - 1]
             y == f[k]
  <2>0. k - 1 \in Nat /\ k - 1 <= l /\ k \in Nat /\ k <= l
    BY <1>2
  <2>1. Start(t, k) = S \cup {r}
    <3>1. 1 .. k = (1 .. k - 1) \cup {k}
      BY <2>0
    <3> QED
      BY <3>1 DEF Start
  <2>2. Grounded(L, S) /\ S \in SUBSET N /\ Grounded(L, S \cup {r})
    <3>1. Grounded(L, Start(t, k - 1)) /\ Start(t, k - 1) \in SUBSET N
      BY <2>0, StartGrounded
    <3>2. Grounded(L, Start(t, k))
      BY <2>0, StartGrounded
    <3> QED
      BY <2>1, <3>1, <3>2
  <2>3. r \in N /\ t.indx[r] = k
    BY <1>2
  <2>4. Behind(t, S, r) /\ r \notin S
    <3>1. ASSUME NEW a \in S PROVE t.indx[a] \in Nat /\ t.indx[a] < k
      <4>1. PICK i \in 1 .. k - 1 : a = t.linear[i]
        BY DEF Start
      <4>2. i \in 1 .. l
        BY <2>0
      <4> QED
        BY <1>2, <2>0, <4>1, <4>2
    <3> QED
      BY <2>0, <2>3, <3>1 DEF Behind
  <2>5. /\ Content(L, t, x, D \cup S, S) /\ SameBoard(b, x) /\ PendingRight(x, N)
        /\ MembersFrom(L, t, S, x.members, M)
    BY <1>6 DEF PassGood
  <2>6. y = ApplyOperation(L, p, r, x) /\ L[r].cmd \in Commands
    BY <1>4, <2>3
  <2> HIDE DEF S, r, x, y
  <2>7. Grounded(L, D \cup S)
    BY <2>2 DEF Grounded
  <2>8. DOMAIN x = BoardFields
    BY <2>5 DEF Content
  <2>9. Content(L, t, y, (D \cup S) \cup {r}, S \cup {r}) /\ SameBoard(x, y)
    <3>1. S \subseteq D \cup S
      OBVIOUS
    <3> DEFINE E == D \cup S
    <3> HIDE DEF E
    <3>2. Content(L, t, x, E, S) /\ S \subseteq E /\ Grounded(L, E)
      BY <2>5, <2>7, <3>1 DEF E
    <3>3. Content(L, t, y, E \cup {r}, S \cup {r}) /\ SameBoard(x, y)
      BY <2>2, <2>4, <2>6, <3>2, ContentLast
    <3> QED
      BY <3>3 DEF E
  <2>10. PendingRight(y, N)
    BY <2>3, <2>5, <2>6, <2>8, PendingKept
  <2>11. MembersFrom(L, t, S \cup {r}, y.members, M)
    BY <2>4, <2>5, <2>6, <2>8, MembersLast
  <2>12. SameBoard(b, y)
    BY <2>5, <2>9 DEF SameBoard
  <2>13. (D \cup S) \cup {r} = D \cup (S \cup {r})
    OBVIOUS
  <2>14. PassGood(L, t, N, D, M, b, y, k)
    BY <2>1, <2>9, <2>10, <2>11, <2>12, <2>13 DEF PassGood
  <2> QED
    BY <2>14 DEF y
<1>7. Good(l)
  <2> HIDE DEF Good, l
  <2> SUFFICES ASSUME ~ Good(l) PROVE FALSE
    OBVIOUS
  <2> DEFINE T == {k \in 0 .. l : ~ Good(k)}
  <2>1. T \in SUBSET Nat /\ l \in T
    BY <1>2
  <2>2. PICK k \in T : \A j \in T : k <= j
    <3> HIDE DEF T
    <3> QED
      BY <2>1, LeastNatural
  <2>3. k \in 1 .. l /\ ~ Good(k)
    BY <1>2, <1>5, <2>2
  <2>4. Good(k - 1)
    BY <1>2, <2>2, <2>3
  <2> QED
    BY <1>6, <2>3, <2>4
<1>8. Start(t, l) = N
  <2>1. \A a \in N : t.indx[a] \in 1 .. l /\ t.linear[t.indx[a]] = a
    BY <1>2
  <2>2. \A i \in 1 .. l : t.linear[i] \in N
    BY <1>2
  <2> QED
    BY <2>1, <2>2 DEF Start
<1>9. D \cup Start(t, l) = N
  BY <1>8
<1> HIDE DEF l
<1> QED
  BY <1>3, <1>7, <1>8, <1>9 DEF PassGood

-----------------------------------------------------------------------------
(* The events that were issued *)

LogRight(L) ==
  /\ DOMAIN L \in SUBSET (Names \ {0})
  /\ \A r \in DOMAIN L : /\ L[r].cmd \in Commands /\ L[r].causes \in SUBSET DOMAIN L
                         /\ AboutPrior(L, r)
  /\ Acyclic(DOMAIN L, [r \in DOMAIN L |-> L[r].causes])

LEMMA ClosedGrounded ==
  ASSUME NEW L, LogRight(L), NEW N \in SUBSET DOMAIN L, Closed(L, N)
  PROVE  Grounded(L, N)
BY DEF LogRight, AboutPrior, Precedes, Grounded

LEMMA ObjectsStand ==
  ASSUME NEW L, LogRight(L), NEW N \in SUBSET DOMAIN L, NEW t, TimelineRight(L, t, N)
  PROVE  ObjectsBefore(L, t, N)
<1>1. t \in Timelines(N) /\ Placement(t) /\ Complete(N, t)
      /\ \A m \in N : t.after[m] = L[m].causes /\ L[m].causes \in SUBSET N
  BY DEF TimelineRight, Complete, Ordered
<1>2. /\ \A a \in N : t.indx[a] \in Nat
      /\ \A a, b \in N : t.indx[a] = t.indx[b] => a = b
  BY <1>1, Places
<1>3. ASSUME NEW m \in N, NEW a, Precedes(L, a, m) PROVE a \in N /\ t.indx[a] < t.indx[m]
  <2> DEFINE P == {k \in N : t.indx[k] <= t.indx[m]}
  <2>1. ASSUME NEW k \in P, NEW c \in L[k].causes PROVE c \in P
    <3>1. c \in N /\ c \in t.after[k] /\ k \in N
      BY <1>1
    <3>2. t.indx[c] < t.indx[k]
      BY <1>1, <3>1, CausesFirst
    <3> QED
      BY <1>2, <3>1, <3>2
  <2>2. Closed(L, P) /\ m \in P /\ P \in SUBSET DOMAIN L
    BY <1>2, <2>1 DEF Closed
  <2>3. a \in P /\ a # m
    BY <1>3, <2>2 DEF Precedes
  <2> QED
    BY <1>2, <2>3
<1>4. \A m \in N : AboutPrior(L, m)
  BY DEF LogRight
<1> QED
  BY <1>3, <1>4 DEF AboutPrior, ObjectsBefore

\* t is the timeline of the operations N, whose causes need not all be there.
TimelineOf(L, t, N) ==
  /\ N \in SUBSET Names /\ Complete(N, t) /\ Acyclic(N, t.after)
  /\ \A m \in N : t.after[m] = L[m].causes

LEMMA AddOf ==
  ASSUME NEW L, LogRight(L), NEW N \in SUBSET DOMAIN L, NEW t, TimelineOf(L, t, N),
         NEW r \in DOMAIN L, r \notin N, NEW u, u = Add(t, r, L[r].causes)
  PROVE  TimelineOf(L, u, N \cup {r})
<1> DEFINE after == [m \in DOMAIN L |-> L[m].causes]
<1>1. PICK g, b : Numbers(DOMAIN L, after, g, b)
  BY DEF LogRight, Acyclic
<1>2. /\ \A x \in Names : g[x] \in Nat
      /\ \A m \in DOMAIN L : \A c \in Names : c \in L[m].causes => g[c] < g[m]
  BY <1>1 DEF Numbers
<1> DEFINE reached == {x \in Names : g[x] < g[r]}
<1>3. N \in SUBSET Names /\ Complete(N, t) /\ Acyclic(N, t.after)
      /\ \A m \in N : t.after[m] = L[m].causes
  BY DEF TimelineOf
<1>4. DOMAIN L \in SUBSET Names /\ \A m \in DOMAIN L : L[m].causes \in SUBSET Names
  BY DEF LogRight
<1>5. r \in Names /\ L[r].causes \in SUBSET Names
  BY <1>4
<1>6. r \notin L[r].causes /\ r \notin reached /\ L[r].causes \subseteq reached
  BY <1>2, <1>5
<1>7. \A c \in reached \cap N : t.after[c] \subseteq reached
  <2> SUFFICES ASSUME NEW c \in reached \cap N, NEW x \in t.after[c] PROVE x \in reached
    OBVIOUS
  <2>1. x \in L[c].causes /\ x \in Names /\ c \in DOMAIN L /\ c \in Names
    BY <1>3, <1>4
  <2>2. g[x] < g[c] /\ g[c] < g[r]
    BY <1>2, <2>1
  <2> QED
    BY <1>2, <1>5, <2>1, <2>2
<1>8. reached \in SUBSET Names
  OBVIOUS
<1> DEFINE causes == L[r].causes
<1>8a. causes \in SUBSET Names /\ r \notin causes /\ causes \subseteq reached /\ u = Add(t, r, causes)
  BY <1>5, <1>6
<1> HIDE DEF reached, causes
<1>9. /\ Complete(N \cup {r}, u) /\ Acyclic(N \cup {r}, u.after)
      /\ u.after = [m \in N \cup {r} |-> IF m = r THEN causes ELSE t.after[m]]
  BY <1>3, <1>5, <1>6, <1>7, <1>8, <1>8a, AddKeeps
<1>10. \A m \in N \cup {r} : u.after[m] = L[m].causes
  BY <1>3, <1>9 DEF causes
<1> QED
  BY <1>3, <1>5, <1>9, <1>10 DEF TimelineOf

LEMMA TimelineGrows ==
  ASSUME NEW L, LogRight(L), NEW N \in SUBSET DOMAIN L, NEW t, TimelineRight(L, t, N),
         NEW r \in DOMAIN L, r \notin N, L[r].causes \in SUBSET N,
         NEW u, u = Add(t, r, L[r].causes)
  PROVE  TimelineRight(L, u, N \cup {r})
<1>1. TimelineOf(L, t, N)
  BY DEF TimelineRight, TimelineOf
<1>2. TimelineOf(L, u, N \cup {r})
  BY <1>1, AddOf
<1>3. \A m \in N \cup {r} : L[m].causes \in SUBSET (N \cup {r})
  BY DEF TimelineRight
<1> QED
  BY <1>2, <1>3 DEF TimelineRight, TimelineOf

LEMMA NamesBounded ==
  ASSUME Names # {}
  PROVE  Max(Names) \in Nat /\ \A n \in Names : n <= Max(Names)
<1>1. Names \in SUBSET Nat /\ IsFiniteSet(Names)
  BY NamesAssumption
<1>2. PICK b \in Nat : \A n \in Names : n <= b
  <2>1. Cardinality(Names) \in Nat /\ ExistsBijection(1 .. Cardinality(Names), Names)
    BY <1>1, FS_CardinalityType
  <2> DEFINE l == Cardinality(Names)
  <2>2. PICK f \in [1 .. l -> Names] : \A n \in Names : \E i \in 1 .. l : f[i] = n
    BY <2>1 DEF ExistsBijection, Bijection, Injection, Surjection
  <2>3. \A i \in 1 .. l : f[i] \in Nat
    BY <1>1, <2>2
  <2> HIDE DEF l
  <2> DEFINE T == {k \in 0 .. l : ~ \E b \in Nat : \A i \in 1 .. k : f[i] <= b}
  <2>4. T = {}
    <3> SUFFICES ASSUME T # {} PROVE FALSE
      OBVIOUS
    <3>1. T \in SUBSET Nat
      OBVIOUS
    <3>2. PICK k \in T : \A j \in T : k <= j
      <4> HIDE DEF T
      <4> QED
        BY <3>1, LeastNatural
    <3>3. k \in 0 .. l /\ ~ \E b \in Nat : \A i \in 1 .. k : f[i] <= b
      BY <3>2
    <3>4. k # 0
      <4>1. 0 \in Nat /\ \A i \in 1 .. 0 : f[i] <= 0
        OBVIOUS
      <4> QED
        BY <3>3, <4>1
    <3>5. k \in 1 .. l /\ k - 1 \in 0 .. l /\ ~ (k <= k - 1)
      BY <2>1, <3>3, <3>4 DEF l
    <3>6. \E b \in Nat : \A i \in 1 .. k - 1 : f[i] <= b
      BY <3>2, <3>5
    <3>7. PICK c \in Nat : \A i \in 1 .. k - 1 : f[i] <= c
      BY <3>6
    <3> DEFINE d == c + f[k]
    <3>8. d \in Nat /\ f[k] \in Nat /\ f[k] <= d /\ c <= d /\ c \in Nat
      <4>1. f[k] \in Nat
        BY <2>3, <3>5
      <4> HIDE DEF T
      <4> QED
        BY <3>7, <4>1
    <3>9. ASSUME NEW i \in 1 .. k PROVE f[i] <= d
      <4>1. CASE i = k
        BY <3>8, <4>1
      <4>2. CASE i # k
        <5>1. i \in 1 .. k - 1 /\ i \in 1 .. l
          BY <2>1, <3>5, <4>2 DEF l
        <5>2. f[i] <= c /\ f[i] \in Nat
          BY <2>3, <3>7, <5>1
        <5> HIDE DEF d, T
        <5> QED
          BY <3>8, <5>2
      <4> QED
        BY <4>1, <4>2
    <3> HIDE DEF d
    <3> QED
      BY <3>3, <3>8, <3>9
  <2>5. l \in 0 .. l
    BY <2>1 DEF l
  <2>6. \E b \in Nat : \A i \in 1 .. l : f[i] <= b
    BY <2>4, <2>5
  <2> QED
    BY <2>2, <2>6
<1>3. Max(Names) \in Names /\ \A n \in Names : n <= Max(Names)
  BY <1>1, <1>2, GreatestNatural
<1> QED
  BY <1>1, <1>3

LEMMA RebuiltRight ==
  ASSUME NEW L, LogRight(L), NEW N \in SUBSET DOMAIN L, N # {}, Closed(L, N),
         NEW u, u = Rebuilt(L, N)
  PROVE  TimelineRight(L, u, N)
<1>1. N \in SUBSET Names /\ 0 \notin N /\ Names \in SUBSET Nat
  BY NamesAssumption DEF LogRight
<1>1a. \A n \in N : n \in Nat /\ n # 0
  BY <1>1
<1>2. Max(Names) \in Nat /\ \A n \in N : n <= Max(Names)
  BY <1>1, NamesBounded
<1> DEFINE l == Max(Names)
           Upto(k) == {m \in N : m <= k}
<1>3. PICK f :
           /\ f[0] = EmptyTimeline
           /\ \A k \in 1 .. l :
                f[k] = IF k \in N THEN Add(f[k - 1], k, L[k].causes) ELSE f[k - 1]
           /\ u = f[l]
  BY <1>2, RebuiltRun
<1> DEFINE Good(k) == TimelineOf(L, f[k], Upto(k))
<1>4. Good(0)
  <2>1. Upto(0) = {}
    BY <1>1a
  <2>2. Complete({}, EmptyTimeline) /\ Acyclic({}, EmptyTimeline.after)
    BY EmptyKept
  <2> QED
    BY <1>3, <2>1, <2>2 DEF TimelineOf
<1>5. ASSUME NEW k \in 1 .. l, Good(k - 1) PROVE Good(k)
  <2>0. k \in Nat /\ k - 1 \in Nat
    BY <1>2
  <2>1. CASE k \in N
    <3>1. Upto(k) = Upto(k - 1) \cup {k} /\ k \notin Upto(k - 1)
      BY <1>1a, <2>0, <2>1
    <3>2. Upto(k - 1) \in SUBSET DOMAIN L /\ k \in DOMAIN L
      BY <2>1
    <3>3. f[k] = Add(f[k - 1], k, L[k].causes)
      BY <1>3, <2>1
    <3> DEFINE W == Upto(k - 1)
    <3>4. TimelineOf(L, f[k - 1], W)
      BY <1>5
    <3> HIDE DEF W
    <3>5. TimelineOf(L, f[k], W \cup {k})
      BY <3>1, <3>2, <3>3, <3>4, AddOf DEF W
    <3> QED
      BY <3>1, <3>5 DEF W
  <2>2. CASE k \notin N
    <3>1. Upto(k) = Upto(k - 1)
      BY <1>1a, <2>0, <2>2
    <3>2. f[k] = f[k - 1]
      BY <1>3, <2>2
    <3> QED
      BY <1>5, <3>1, <3>2
  <2> QED
    BY <2>1, <2>2
<1>6. Good(l)
  <2> HIDE DEF Good, l
  <2> SUFFICES ASSUME ~ Good(l) PROVE FALSE
    OBVIOUS
  <2> DEFINE T == {k \in 0 .. l : ~ Good(k)}
  <2>1. T \in SUBSET Nat /\ l \in T
    BY <1>2 DEF l
  <2>2. PICK k \in T : \A j \in T : k <= j
    <3> HIDE DEF T
    <3> QED
      BY <2>1, LeastNatural
  <2>3. k \in 1 .. l /\ ~ Good(k)
    BY <1>2, <1>4, <2>2 DEF l
  <2>4. Good(k - 1)
    BY <1>2, <2>2, <2>3 DEF l
  <2> QED
    BY <1>5, <2>3, <2>4
<1>7. Upto(l) = N
  BY <1>2
<1>8. TimelineOf(L, u, N)
  BY <1>3, <1>6, <1>7
<1> QED
  BY <1>8 DEF TimelineOf, TimelineRight, Closed

-----------------------------------------------------------------------------
(* A page that follows the board *)

\* The page shows what the operations N say.
Following(L, b, N) ==
  /\ TimelineRight(L, b.timeline, N)
  /\ Content(L, b.timeline, b, N, N)
  /\ MembersFrom(L, b.timeline, N, b.members, {})
  /\ b.tips = b.timeline.tips

LEMMA NothingAgain ==
  ASSUME NEW L, NEW t, NEW u, NEW b, NEW N, Content(L, t, b, N, N)
  PROVE  Content(L, u, b, N, {})
<1>1. DOMAIN b = BoardFields /\ b.subscribed = TRUE
      /\ ListsRight(L, t, b.columns, N, N) /\ CardsRight(L, t, b.items, N, N)
  BY DEF Content
<1>2. ListsRight(L, u, b.columns, N, {})
  BY <1>1 DEF ListsRight, ColumnRight
<1>3. CardsRight(L, u, b.items, N, {})
  BY <1>1 DEF CardsRight, ItemRight
<1> QED
  BY <1>1, <1>2, <1>3 DEF Content

\* Who is on the list because of r, the creation of the board.
Founding(L, r, M) == \A x \in M : L[r].cmd = "board/create" /\ x = L[r].by

LEMMA Founded ==
  ASSUME NEW L, NEW t, NEW N, NEW r \in N, NEW members, NEW M, MembersFrom(L, t, N, members, M),
         Founding(L, r, M)
  PROVE  MembersFrom(L, t, N, members, {})
<1>1. ASSUME NEW x \in M PROVE Answering(L, N, x) # {}
  BY <1>1 DEF Founding, Answering
<1> QED
  BY <1>1 DEF MembersFrom

LEMMA SortedRight ==
  ASSUME NEW L, LogRight(L), NEW N \in SUBSET DOMAIN L,
         NEW r \in DOMAIN L, r \notin N, L[r].causes \in SUBSET N,
         NEW b, TimelineRight(L, b.timeline, N), Content(L, b.timeline, b, N, N),
         NEW M, MembersFrom(L, b.timeline, N, b.members, M), Founding(L, r, M),
         PendingRight(b, N \cup {r}),
         NEW p, NEW u, u = Sorted(L, p, r, b)
  PROVE  /\ Following(L, u, N \cup {r}) /\ PendingRight(u, N \cup {r})
         /\ u.known = b.known /\ u.operations = b.operations
<1> DEFINE t == b.timeline
           n == Add(t, r, L[r].causes)
           c == [b EXCEPT !.timeline = n]
           d == ApplyNew(L, p, r, c)
           W == N \cup {r}
<1>1. u = [d EXCEPT !.tips = d.timeline.tips]
  BY DEF Sorted, WithTips
<1>2. TimelineRight(L, n, W)
  BY TimelineGrows
<1>3. /\ DOMAIN b = BoardFields /\ DOMAIN c = BoardFields /\ c.timeline = n
      /\ c.columns = b.columns /\ c.items = b.items /\ c.subscribed = b.subscribed
      /\ c.members = b.members /\ c.pending = b.pending /\ c.known = b.known
      /\ c.operations = b.operations
  <2>1. DOMAIN b = BoardFields
    BY DEF Content
  <2> HIDE DEF n
  <2> QED
    BY <2>1 DEF BoardFields
<1>4. /\ N \in SUBSET Names /\ W \in SUBSET Names /\ Complete(N, t) /\ Complete(W, n)
      /\ \A m \in N : t.after[m] = L[m].causes /\ n.after[m] = L[m].causes /\ L[m].causes \in SUBSET N
  BY <1>2 DEF TimelineRight
<1>5. \A x, y \in N : t.indx[x] < t.indx[y] <=> n.indx[x] < n.indx[y]
  <2>1. \A m \in N : n.after[m] = t.after[m] /\ r \notin t.after[m]
    BY <1>4
  <2> HIDE DEF n, t
  <2> QED
    BY <1>4, <2>1, OldOrder DEF W
<1>6. /\ \A m \in N : t.indx[m] \in Nat
      /\ \A m \in W : n.indx[m] \in Nat /\ n.indx[m] <= Len(n.linear)
      /\ \A x, y \in W : n.indx[x] = n.indx[y] => x = y
      /\ Len(n.linear) \in Nat
  <2>1. t \in Timelines(N) /\ Placement(t) /\ n \in Timelines(W) /\ Placement(n)
    BY <1>4 DEF Complete, Ordered
  <2> HIDE DEF n, t, W
  <2> QED
    BY <2>1, Places
<1> HIDE DEF c, d, n
<1>7. /\ Content(L, n, c, N, N) /\ MembersFrom(L, n, N, c.members, M) /\ PendingRight(c, W)
  <2>1. \A x, y \in N : t.indx[x] \in Nat /\ n.indx[x] \in Nat /\
                        (t.indx[x] < t.indx[y] <=> n.indx[x] < n.indx[y])
    BY <1>5, <1>6
  <2>2. Content(L, n, c, N, N)
    BY <1>3, <2>1, ContentMoved
  <2>3. MembersFrom(L, n, N, b.members, M)
    BY <2>1, MembersMoved
  <2> QED
    BY <1>3, <2>2, <2>3 DEF PendingRight
<1>8. /\ Closed(L, N) /\ Closed(L, W) /\ W \in SUBSET DOMAIN L
      /\ Grounded(L, N) /\ Grounded(L, W)
  <2>1. Closed(L, N) /\ Closed(L, W) /\ W \in SUBSET DOMAIN L
    BY <1>4 DEF Closed
  <2> HIDE DEF W
  <2> QED
    BY <2>1, ClosedGrounded
<1>9. \A m \in W : L[m].cmd \in Commands
  BY <1>8 DEF LogRight
<1>10. /\ Content(L, n, d, W, W) /\ SameBoard(c, d) /\ PendingRight(d, W)
       /\ MembersFrom(L, n, W, d.members, {})
  <2>1. CASE L[r].cmd \in IndependentOPs
    <3>1. d = ApplyOperation(L, p, r, c)
      BY <2>1 DEF d, ApplyNew
    <3>2. Content(L, n, d, W, W) /\ SameBoard(c, d)
      BY <1>6, <1>7, <1>8, <2>1, <3>1, ContentIndependent
    <3>3. MembersFrom(L, n, W, d.members, M)
      BY <1>3, <1>7, <2>1, <3>1, MembersIndependent
    <3>4. PendingRight(d, W)
      BY <1>3, <1>7, <1>9, <3>1, PendingKept
    <3>5. MembersFrom(L, n, W, d.members, {})
      BY <3>3, Founded
    <3> QED
      BY <3>2, <3>4, <3>5
  <2>2. CASE n.indx[r] = Len(n.linear)
    <3>1. d = ApplyOperation(L, p, r, c)
      BY <1>3, <2>2 DEF d, ApplyNew
    <3>2. Behind(n, N, r)
      <4>1. ASSUME NEW a \in N PROVE n.indx[a] \in Nat /\ n.indx[a] < n.indx[r]
        <5>1. a \in W /\ r \in W /\ a # r
          OBVIOUS
        <5>2. n.indx[a] # n.indx[r] /\ n.indx[a] \in Nat /\ n.indx[a] <= Len(n.linear)
          BY <1>6, <5>1
        <5> QED
          BY <1>6, <2>2, <5>2
      <4> QED
        BY <1>6, <4>1 DEF Behind
    <3>3. Content(L, n, d, W, W) /\ SameBoard(c, d)
      BY <1>7, <1>8, <1>9, <3>1, <3>2, ContentLast
    <3>4. MembersFrom(L, n, W, d.members, M)
      BY <1>3, <1>7, <1>9, <3>1, <3>2, MembersLast
    <3>5. PendingRight(d, W)
      BY <1>3, <1>7, <1>9, <3>1, PendingKept
    <3>6. MembersFrom(L, n, W, d.members, {})
      BY <3>4, Founded
    <3> QED
      BY <3>3, <3>5, <3>6
  <2>3. CASE ~ (n.indx[r] = Len(n.linear) \/ L[r].cmd \in IndependentOPs)
    <3>1. d = ApplyAll(L, p, c)
      BY <1>3, <2>3 DEF d, ApplyNew
    <3>2. ObjectsBefore(L, n, W)
      BY <1>2, <1>8, ObjectsStand
    <3>3. Content(L, n, c, N, {})
      BY <1>7, NothingAgain
    <3>4. MembersFrom(L, n, {}, c.members, c.members)
      BY DEF MembersFrom, Answering
    <3>5. /\ Content(L, n, d, W, W) /\ SameBoard(c, d) /\ PendingRight(d, W)
          /\ MembersFrom(L, n, W, d.members, c.members)
      <4>1. N \subseteq W
        OBVIOUS
      <4> HIDE DEF W
      <4> QED
        BY <1>2, <1>3, <1>7, <1>8, <1>9, <3>1, <3>2, <3>3, <3>4, <4>1, PassRight
    <3>6. ASSUME NEW x \in d.members PROVE Stands(L, n, W, x)
      <4> SUFFICES ASSUME ~ Stands(L, n, W, x) PROVE FALSE
        OBVIOUS
      <4>1. Answering(L, W, x) = {} /\ x \in c.members
        BY <3>5 DEF MembersFrom
      <4>2. Answering(L, N, x) = {}
        BY <4>1 DEF Answering
      <4>3. ~ Stands(L, n, N, x)
        BY <4>2 DEF Stands, Latest
      <4>4. x \in M
        BY <1>7, <4>1, <4>3 DEF MembersFrom
      <4>5. r \in Answering(L, W, x)
        BY <4>4 DEF Founding, Answering
      <4> QED
        BY <4>1, <4>5
    <3> QED
      BY <3>5, <3>6 DEF MembersFrom
  <2> QED
    BY <2>1, <2>2, <2>3
<1>11. /\ DOMAIN d = BoardFields /\ d.subscribed = TRUE /\ d.timeline = n
       /\ d.known = b.known /\ d.operations = b.operations
       /\ ListsRight(L, n, d.columns, W, W) /\ CardsRight(L, n, d.items, W, W)
  BY <1>3, <1>10 DEF Content, SameBoard
<1>12. /\ DOMAIN u = BoardFields /\ u.subscribed = TRUE /\ u.timeline = n /\ u.tips = n.tips
       /\ u.known = b.known /\ u.operations = b.operations /\ u.columns = d.columns
       /\ u.items = d.items /\ u.members = d.members /\ u.pending = d.pending
  BY <1>1, <1>11 DEF BoardFields
<1>13. Content(L, n, u, W, W) /\ PendingRight(u, W)
  BY <1>10, <1>11, <1>12 DEF Content, PendingRight
<1>14. Following(L, u, W)
  BY <1>2, <1>10, <1>12, <1>13 DEF Following
<1> QED
  BY <1>12, <1>13, <1>14

LEMMA NothingYet ==
  ASSUME NEW L, NEW t, NEW b, DOMAIN b = BoardFields, b.subscribed = TRUE,
         b.columns = <<>>, b.items = <<>>
  PROVE  Content(L, t, b, {}, {})
<1>1. DOMAIN b.columns = {} /\ DOMAIN b.items = {}
  OBVIOUS
<1>2. ListsRight(L, t, b.columns, {}, {}) /\ CardsRight(L, t, b.items, {}, {})
  BY <1>1 DEF ListsRight, CardsRight
<1> QED
  BY <1>2 DEF Content

LEMMA ReloadRight ==
  ASSUME NEW L, LogRight(L), NEW b, DOMAIN b = BoardFields, b.subscribed = TRUE,
         b.operations \in SUBSET DOMAIN L, b.operations # {}, Closed(L, b.operations),
         NEW p, NEW u, u = Reload(L, p, b)
  PROVE  /\ Following(L, u, b.operations) /\ PendingRight(u, b.operations)
         /\ u.known = b.known /\ u.operations = b.operations
<1> DEFINE N == b.operations
           n == Rebuilt(L, N)
           c == [b EXCEPT !.columns = <<>>, !.items = <<>>, !.active = 0,
                          !.members = {}, !.pending = NoBoard.pending, !.timeline = n]
           d == ApplyAll(L, p, c)
<1>1. u = [d EXCEPT !.tips = d.timeline.tips]
  BY DEF Reload, WithTips
<1>2. TimelineRight(L, n, N)
  BY RebuiltRight
<1>3. /\ DOMAIN c = BoardFields /\ c.timeline = n /\ c.columns = <<>> /\ c.items = <<>>
      /\ c.subscribed = TRUE /\ c.members = {} /\ c.pending = NoBoard.pending
      /\ c.known = b.known /\ c.operations = b.operations
  <2> HIDE DEF n
  <2> QED
    BY DEF BoardFields
<1>4. PendingRight(c, N)
  BY <1>3 DEF PendingRight, NoBoard
<1> HIDE DEF c, n, d
<1>5. Content(L, n, c, {}, {})
  BY <1>3, NothingYet
<1>6. MembersFrom(L, n, {}, c.members, {})
  BY <1>3 DEF MembersFrom
<1>7. ObjectsBefore(L, n, N)
  BY <1>2, ObjectsStand
<1>8. \A m \in N : L[m].cmd \in Commands
  BY DEF LogRight
<1>9. Grounded(L, {}) /\ {} \subseteq N
  BY DEF Grounded
<1>10. /\ Content(L, n, d, N, N) /\ SameBoard(c, d) /\ PendingRight(d, N)
       /\ MembersFrom(L, n, N, d.members, {})
  <2>1. d = ApplyAll(L, p, c)
    BY DEF d
  <2> HIDE DEF N
  <2> QED
    BY <1>2, <1>3, <1>4, <1>5, <1>6, <1>7, <1>8, <1>9, <2>1, PassRight
<1>11. /\ DOMAIN d = BoardFields /\ d.subscribed = TRUE /\ d.timeline = n
       /\ d.known = b.known /\ d.operations = b.operations
       /\ ListsRight(L, n, d.columns, N, N) /\ CardsRight(L, n, d.items, N, N)
  BY <1>3, <1>10 DEF Content, SameBoard
<1>12. /\ DOMAIN u = BoardFields /\ u.subscribed = TRUE /\ u.timeline = n /\ u.tips = n.tips
       /\ u.known = b.known /\ u.operations = b.operations /\ u.columns = d.columns
       /\ u.items = d.items /\ u.members = d.members /\ u.pending = d.pending
  BY <1>1, <1>11 DEF BoardFields
<1>13. Content(L, n, u, N, N) /\ PendingRight(u, N)
  BY <1>10, <1>11, <1>12 DEF Content, PendingRight
<1>14. Following(L, u, N)
  BY <1>2, <1>10, <1>12, <1>13 DEF Following
<1> QED
  BY <1>12, <1>13, <1>14

\* What a page keeps of the board.
BoardRight(L, b) ==
  /\ DOMAIN b = BoardFields /\ b.subscribed \in BOOLEAN
  /\ b.operations \in SUBSET DOMAIN L /\ Closed(L, b.operations)
  /\ PendingRight(b, b.operations)
  /\ \/ b = NoBoard
     \/ b.known = TRUE /\ b.operations # {}
  /\ b.subscribed = TRUE => Following(L, b, b.operations)

LEMMA NoBoardRight ==
  ASSUME NEW L PROVE BoardRight(L, NoBoard)
BY DEF BoardRight, NoBoard, BoardFields, PendingRight, Closed

\* The same lists, cards and people.
LEMMA FollowingSame ==
  ASSUME NEW L, NEW b, NEW N, Following(L, b, N), NEW u, DOMAIN u = BoardFields,
         u.subscribed = TRUE, u.timeline = b.timeline, u.columns = b.columns,
         u.items = b.items, u.members = b.members, u.tips = b.tips
  PROVE  Following(L, u, N)
BY DEF Following, Content

\* The page has the causes of r, and r is not the creation of a board it dropped.
Ready(L, p, r, b) ==
  /\ L[r].causes \in SUBSET b.operations
  /\ L[r].cmd = "board/create" /\ L[r].by = p => b.operations = {} \/ b.subscribed = TRUE

Took(L, b, r, u) == BoardRight(L, u) /\ u.operations = b.operations \cup {r}

LEMMA NewEventKeeps ==
  ASSUME NEW L, LogRight(L), NEW b, BoardRight(L, b), NEW r \in DOMAIN L, NEW p \in Person,
         Ready(L, p, r, b), NEW u, u = NewEvent(L, p, r, b)
  PROVE  Took(L, b, r, u)
<1> SUFFICES ASSUME L[r].causes \in SUBSET b.operations,
                    L[r].cmd = "board/create" /\ L[r].by = p => b.operations = {} \/ b.subscribed = TRUE
             PROVE  BoardRight(L, u) /\ u.operations = b.operations \cup {r}
  BY DEF Ready, Took
<1> DEFINE e == L[r]
           N == b.operations
           W == N \cup {r}
           created == e.cmd = "board/create" /\ e.by = p
           first == IF b.known THEN b ELSE [b EXCEPT !.known = TRUE, !.members = {e.by}]
           named == IF e.cmd # "board/create" THEN first
                    ELSE [first EXCEPT !.name = r, !.subscribed = @ \/ e.by = p]
           stored == [named EXCEPT !.operations = @ \cup {r}]
           left == IF e.cmd = "leave" /\ e.by = p
                   THEN [stored EXCEPT !.pending[p] = NoInvitation, !.subscribed = FALSE] ELSE stored
<1>1. u = IF r \in N THEN named ELSE Handled(L, p, r, left)
  BY DEF NewEvent
<1>2. /\ DOMAIN b = BoardFields /\ b.subscribed \in BOOLEAN
      /\ N \in SUBSET DOMAIN L /\ Closed(L, N) /\ PendingRight(b, N)
      /\ b = NoBoard \/ (b.known = TRUE /\ N # {})
      /\ b.subscribed = TRUE => Following(L, b, N)
  BY DEF BoardRight
<1>3. NoBoard.operations = {} /\ NoBoard.known = FALSE /\ NoBoard.subscribed = FALSE
      /\ NoBoard.columns = <<>> /\ NoBoard.items = <<>> /\ NoBoard.timeline = EmptyTimeline
  BY DEF NoBoard
<1>4. /\ DOMAIN first = BoardFields /\ first.known = TRUE
      /\ first.operations = N /\ first.subscribed = b.subscribed /\ first.pending = b.pending
      /\ first.timeline = b.timeline /\ first.columns = b.columns /\ first.items = b.items
      /\ first.tips = b.tips
      /\ b.known = TRUE => first.members = b.members
      /\ b.known = FALSE => first.members = {e.by}
  BY <1>2, <1>3 DEF BoardFields
<1> HIDE DEF first
<1>5. /\ DOMAIN named = BoardFields /\ named.known = TRUE
      /\ named.operations = N /\ named.pending = b.pending
      /\ named.timeline = b.timeline /\ named.columns = b.columns /\ named.items = b.items
      /\ named.tips = b.tips /\ named.members = first.members
      /\ named.subscribed = TRUE <=> b.subscribed = TRUE \/ created
      /\ named.subscribed \in BOOLEAN
  BY <1>2, <1>4 DEF BoardFields
<1> HIDE DEF named
<1>6. CASE r \in N
  <2>1. u = named /\ b.known = TRUE /\ W = N
    BY <1>1, <1>2, <1>3, <1>6
  <2>2. u.subscribed = TRUE => b.subscribed = TRUE
    BY <1>5, <1>6, <2>1
  <2>3. u.subscribed = TRUE => Following(L, u, N)
    BY <1>2, <1>4, <1>5, <2>1, <2>2, FollowingSame
  <2>4. PendingRight(u, N)
    BY <1>2, <1>5, <2>1 DEF PendingRight
  <2> QED
    BY <1>2, <1>5, <1>6, <2>1, <2>3, <2>4 DEF BoardRight
<1>7. CASE r \notin N
  <2>0. u = Handled(L, p, r, left)
    BY <1>1, <1>7
  <2>1. Closed(L, W) /\ W \in SUBSET DOMAIN L /\ W # {}
    BY <1>2 DEF Closed
  <2>2. /\ DOMAIN stored = BoardFields /\ stored.known = TRUE
        /\ stored.operations = W /\ stored.pending = b.pending
        /\ stored.timeline = b.timeline /\ stored.columns = b.columns /\ stored.items = b.items
        /\ stored.tips = b.tips /\ stored.members = first.members
        /\ stored.subscribed = named.subscribed
    BY <1>5 DEF BoardFields
  <2> HIDE DEF stored
  <2>3. b.pending \in [Person -> [from : SUBSET W, many : BOOLEAN]]
        /\ NoInvitation \in [from : SUBSET W, many : BOOLEAN]
    BY <1>2 DEF PendingRight, NoInvitation
  <2> DEFINE leaving == e.cmd = "leave" /\ e.by = p
  <2>4. /\ DOMAIN left = BoardFields /\ left.known = TRUE /\ left.operations = W
        /\ left.timeline = b.timeline /\ left.columns = b.columns /\ left.items = b.items
        /\ left.tips = b.tips /\ left.members = first.members
        /\ leaving => left.subscribed = FALSE
        /\ ~ leaving => left.subscribed = named.subscribed
        /\ left.subscribed \in BOOLEAN
    BY <1>5, <2>2 DEF BoardFields
  <2>5. PendingRight(left, W)
    <3>1. left.pending = b.pending \/ left.pending = [b.pending EXCEPT ![p] = NoInvitation]
      BY <2>2 DEF BoardFields
    <3>2. left.pending \in [Person -> [from : SUBSET W, many : BOOLEAN]]
      <4> HIDE DEF left, W
      <4> QED
        BY <2>3, <3>1
    <3> QED
      BY <3>2 DEF PendingRight
  <2> HIDE DEF left
  <2>6. CASE left.subscribed = TRUE
    <3>1. u = Sorted(L, p, r, left)
      BY <2>0, <2>6 DEF Handled
    <3>2. named.subscribed = TRUE
      BY <2>4, <2>6
    <3> DEFINE M == IF b.known = TRUE THEN {} ELSE {e.by}
    <3>3. /\ TimelineRight(L, left.timeline, N) /\ Content(L, left.timeline, left, N, N)
          /\ MembersFrom(L, left.timeline, N, left.members, M) /\ Founding(L, r, M)
      <4>1. CASE b.known = TRUE
        <5>1. b.subscribed = TRUE
          BY <1>2, <1>3, <1>5, <3>2, <4>1
        <5>2. Following(L, left, N)
          BY <1>2, <1>4, <2>4, <2>6, <4>1, <5>1, FollowingSame
        <5> QED
          BY <4>1, <5>2 DEF Following, Founding
      <4>2. CASE b.known # TRUE
        <5>1. b = NoBoard
          BY <1>2, <4>2
        <5>2. N = {} /\ left.timeline = EmptyTimeline /\ left.columns = <<>> /\ left.items = <<>>
              /\ left.members = {e.by} /\ created
          BY <1>3, <1>4, <1>5, <2>4, <3>2, <5>1
        <5>3. TimelineRight(L, EmptyTimeline, {})
          BY EmptyKept DEF TimelineRight
        <5>4. Content(L, EmptyTimeline, left, {}, {})
          BY <2>4, <2>6, <5>2, NothingYet
        <5>5. MembersFrom(L, EmptyTimeline, {}, {e.by}, {e.by})
          BY DEF MembersFrom, Answering
        <5>6. Founding(L, r, {e.by})
          BY <5>2 DEF Founding
        <5> QED
          BY <4>2, <5>2, <5>3, <5>4, <5>5, <5>6
      <4> QED
        BY <4>1, <4>2
    <3>4. L[r].causes \in SUBSET N /\ N \in SUBSET DOMAIN L /\ r \notin N /\ r \in DOMAIN L
      BY <1>2, <1>7
    <3>4a. PendingRight(left, N \cup {r})
      BY <2>5
    <3> HIDE DEF M, e
    <3>5. /\ Following(L, u, W) /\ PendingRight(u, W)
          /\ u.known = left.known /\ u.operations = left.operations
      <4>1. /\ Following(L, u, N \cup {r}) /\ PendingRight(u, N \cup {r})
            /\ u.known = left.known /\ u.operations = left.operations
        <5> HIDE DEF N
        <5> QED
          <6> HIDE DEF W, created, leaving
          <6>1. TimelineRight(L, left.timeline, N)
            BY <3>3
          <6>2. Content(L, left.timeline, left, N, N)
            BY <3>3
          <6>3. MembersFrom(L, left.timeline, N, left.members, M)
            BY <3>3
          <6>4. Founding(L, r, M)
            BY <3>3
          <6>5. u = Sorted(L, p, r, left)
            BY <3>1
          <6>6. /\ N \in SUBSET DOMAIN L /\ r \in DOMAIN L /\ r \notin N /\ L[r].causes \in SUBSET N
            BY <3>4
          <6>7. PendingRight(left, N \cup {r})
            BY <3>4a
          <6> QED
            BY ONLY LogRight(L), <6>1, <6>2, <6>3, <6>4, <6>5, <6>6, <6>7, SortedRight
      <4> QED
        BY <4>1
    <3>6. DOMAIN u = BoardFields /\ u.subscribed = TRUE
      BY <3>5 DEF Following, Content
    <3> QED
      BY <2>1, <2>4, <3>5, <3>6 DEF BoardRight
  <2>7. CASE left.subscribed = FALSE
    <3>1. u = Kept(L, p, r, left)
      BY <2>0, <2>7 DEF Handled
    <3>2. CASE u = left
      BY <2>1, <2>4, <2>5, <2>7, <3>2 DEF BoardRight
    <3>3. CASE e.cmd = "invite" /\ e.of = p
      <4> DEFINE more == [from |-> left.pending[p].from \cup {r}, many |-> left.pending[p].from # {}]
      <4>1. u = [left EXCEPT !.pending[p] = more]
        BY <3>1, <3>3 DEF Kept, Remember
      <4>2. left.pending \in [Person -> [from : SUBSET W, many : BOOLEAN]]
        BY <2>5 DEF PendingRight
      <4>3. more \in [from : SUBSET W, many : BOOLEAN]
        BY <4>2
      <4> HIDE DEF more
      <4>4. /\ DOMAIN u = BoardFields /\ u.known = TRUE /\ u.operations = W
            /\ u.subscribed = FALSE /\ u.pending = [left.pending EXCEPT ![p] = more]
        BY <2>4, <2>7, <4>1 DEF BoardFields
      <4>5. u.pending \in [Person -> [from : SUBSET W, many : BOOLEAN]]
        <5> HIDE DEF W
        <5> QED
          BY <4>2, <4>3, <4>4
      <4>6. PendingRight(u, W)
        BY <4>5 DEF PendingRight
      <4> QED
        BY <2>1, <4>4, <4>6 DEF BoardRight
    <3>4. CASE e.cmd = "invite/decline" /\ e.by = p
      <4>1. u = [left EXCEPT !.pending[p] = NoInvitation]
        BY <3>1, <3>4 DEF Kept
      <4>2. left.pending \in [Person -> [from : SUBSET W, many : BOOLEAN]]
        BY <2>5 DEF PendingRight
      <4>4. /\ DOMAIN u = BoardFields /\ u.known = TRUE /\ u.operations = W
            /\ u.subscribed = FALSE /\ u.pending = [left.pending EXCEPT ![p] = NoInvitation]
        BY <2>4, <2>7, <4>1 DEF BoardFields
      <4>5. u.pending \in [Person -> [from : SUBSET W, many : BOOLEAN]]
        <5> HIDE DEF W
        <5> QED
          BY <2>3, <4>2, <4>4
      <4>6. PendingRight(u, W)
        BY <4>5 DEF PendingRight
      <4> QED
        BY <2>1, <4>4, <4>6 DEF BoardRight
    <3>5. CASE e.cmd = "invite/accept" /\ e.by = p
      <4> DEFINE c == [left EXCEPT !.subscribed = TRUE]
      <4>1. u = Reload(L, p, c)
        BY <3>1, <3>5 DEF Kept
      <4>2. /\ DOMAIN c = BoardFields /\ c.known = TRUE /\ c.operations = W /\ c.subscribed = TRUE
        BY <2>4 DEF BoardFields
      <4> HIDE DEF c
      <4>2a. c.operations \in SUBSET DOMAIN L /\ c.operations # {} /\ Closed(L, c.operations)
        BY <2>1, <4>2
      <4>3. /\ Following(L, u, c.operations) /\ PendingRight(u, c.operations)
            /\ u.known = c.known /\ u.operations = c.operations
        BY ONLY LogRight(L), <4>1, <4>2, <4>2a, ReloadRight
      <4>4. DOMAIN u = BoardFields /\ u.subscribed = TRUE
        BY <4>3 DEF Following, Content
      <4> QED
        BY <2>1, <4>2, <4>3, <4>4 DEF BoardRight
    <3>6. \/ e.cmd = "invite" /\ e.of = p
          \/ e.cmd = "invite/decline" /\ e.by = p
          \/ e.cmd = "invite/accept" /\ e.by = p
          \/ u = left
      BY <3>1 DEF Kept
    <3> QED
      BY <3>2, <3>3, <3>4, <3>5, <3>6
  <2> QED
    BY <2>4, <2>6, <2>7
<1> QED
  BY <1>6, <1>7

-----------------------------------------------------------------------------
(* A new event *)

\* K is L with a new event.
NewIn(L, K, r) ==
  /\ r \notin DOMAIN L /\ DOMAIN K = DOMAIN L \cup {r}
  /\ \A m \in DOMAIN L : K[m] = L[m]

LEMMA PutNew ==
  ASSUME NEW L, NEW r, r \notin DOMAIN L, NEW e, NEW K, K = Put(L, r, e)
  PROVE  NewIn(L, K, r) /\ K[r] = e
BY DEF Put, NewIn

LEMMA ClosedBefore ==
  ASSUME NEW L, LogRight(L), NEW K, NEW r, NewIn(L, K, r), NEW S \in SUBSET DOMAIN K, Closed(K, S)
  PROVE  Closed(L, S \ {r}) /\ S \ {r} \in SUBSET DOMAIN L
<1>1. \A m \in DOMAIN L : L[m].causes \in SUBSET DOMAIN L /\ K[m] = L[m]
  BY DEF LogRight, NewIn
<1>2. r \notin DOMAIN L /\ S \ {r} \in SUBSET DOMAIN L
  BY DEF NewIn
<1> QED
  BY <1>1, <1>2 DEF Closed

LEMMA PrecedesStill ==
  ASSUME NEW L, LogRight(L), NEW K, NEW r, NewIn(L, K, r), NEW m \in DOMAIN L, NEW a,
         Precedes(L, a, m)
  PROVE  Precedes(K, a, m)
<1>1. a # m
  BY DEF Precedes
<1>2. ASSUME NEW S \in SUBSET DOMAIN K, Closed(K, S), m \in S PROVE a \in S
  <2>1. Closed(L, S \ {r}) /\ S \ {r} \in SUBSET DOMAIN L
    BY <1>2, ClosedBefore
  <2>2. m \in S \ {r}
    BY <1>2 DEF NewIn
  <2> QED
    BY <2>1, <2>2 DEF Precedes
<1> QED
  BY <1>1, <1>2 DEF Precedes

LEMMA LogGrows ==
  ASSUME NEW L, LogRight(L), NEW K, NEW r, NewIn(L, K, r), r \in Names \ {0},
         K[r].cmd \in Commands, K[r].causes \in SUBSET DOMAIN L, AboutPrior(K, r)
  PROVE  LogRight(K)
<1>1. /\ DOMAIN L \in SUBSET (Names \ {0})
      /\ \A m \in DOMAIN L : L[m].cmd \in Commands /\ L[m].causes \in SUBSET DOMAIN L
                             /\ AboutPrior(L, m)
      /\ r \notin DOMAIN L /\ DOMAIN K = DOMAIN L \cup {r} /\ \A m \in DOMAIN L : K[m] = L[m]
  BY DEF LogRight, NewIn
<1>2. ASSUME NEW m \in DOMAIN K
      PROVE  K[m].cmd \in Commands /\ K[m].causes \in SUBSET DOMAIN K /\ AboutPrior(K, m)
  <2>1. CASE m = r
    BY <1>1, <2>1
  <2>2. CASE m # r
    <3>1. m \in DOMAIN L /\ K[m] = L[m]
      BY <1>1, <2>2
    <3>2. \A a : Precedes(L, a, m) => Precedes(K, a, m)
      BY <3>1, PrecedesStill
    <3>3. AboutPrior(L, m)
      BY <1>1, <3>1
    <3>4. AboutPrior(K, m)
      BY <1>1, <3>1, <3>2, <3>3 DEF AboutPrior
    <3> QED
      BY <1>1, <3>1, <3>4
  <2> QED
    BY <2>1, <2>2
<1>3. Acyclic(DOMAIN K, [m \in DOMAIN K |-> K[m].causes])
  <2> DEFINE before == [m \in DOMAIN L |-> L[m].causes]
             after == [m \in DOMAIN K |-> K[m].causes]
  <2>1. PICK g, b : Numbers(DOMAIN L, before, g, b)
    BY DEF LogRight, Acyclic
  <2>2. /\ g \in [Names -> Nat] /\ b \in Nat
        /\ \A x \in Names : g[x] < b
        /\ \A m \in DOMAIN L : \A c \in Names : c \in L[m].causes => g[c] < g[m]
    BY <2>1 DEF Numbers
  <2> DEFINE h == [g EXCEPT ![r] = b]
  <2>3. /\ h \in [Names -> Nat] /\ h[r] = b /\ \A x \in Names : x # r => h[x] = g[x]
    BY <2>2
  <2> HIDE DEF h
  <2>4. \A x \in Names : h[x] < b + 1
    <3> TAKE x \in Names
    <3>1. g[x] \in Nat /\ g[x] < b
      BY <2>2
    <3> QED
      BY <2>2, <2>3, <3>1
  <2>5. ASSUME NEW m \in DOMAIN K, NEW c \in Names, c \in K[m].causes PROVE h[c] < h[m]
    <3>1. c \in DOMAIN L /\ c # r
      BY <1>1, <2>5
    <3>2. h[c] = g[c]
      BY <2>3, <3>1
    <3>3. CASE m = r
      BY <2>2, <2>3, <3>2, <3>3
    <3>4. CASE m # r
      <4>1. m \in DOMAIN L /\ m \in Names /\ h[m] = g[m]
        BY <1>1, <2>3, <3>4
      <4> QED
        BY <1>1, <2>2, <2>5, <3>2, <4>1
    <3> QED
      BY <3>3, <3>4
  <2>6. b + 1 \in Nat
    BY <2>2
  <2>7. Numbers(DOMAIN K, after, h, b + 1)
    BY <2>3, <2>4, <2>5, <2>6 DEF Numbers
  <2> QED
    BY <2>7 DEF Acyclic
<1>4. DOMAIN K \in SUBSET (Names \ {0})
  BY <1>1
<1> QED
  BY <1>2, <1>3, <1>4 DEF LogRight

\* What is known about the board does not depend on the new event.
LEMMA FollowingStill ==
  ASSUME NEW L, LogRight(L), NEW K, NEW r, NewIn(L, K, r), NEW b, NEW N \in SUBSET DOMAIN L,
         Following(L, b, N)
  PROVE  Following(K, b, N)
<1> DEFINE t == b.timeline
<1>1. \A m \in N : K[m] = L[m]
  BY DEF NewIn
<1>2. /\ TimelineRight(L, t, N) /\ Content(L, t, b, N, N) /\ MembersFrom(L, t, N, b.members, {})
      /\ b.tips = t.tips
  BY DEF Following
<1>3. TimelineRight(K, t, N)
  BY <1>1, <1>2 DEF TimelineRight
<1>4. \A cmds, o : About(K, N, cmds, o) = About(L, N, cmds, o)
  BY <1>1 DEF About
<1>5. \A x : Answering(K, N, x) = Answering(L, N, x) /\ Answering(L, N, x) \in SUBSET N
  BY <1>1 DEF Answering
<1>6. \A o, a : Assigning(K, N, o, a) = Assigning(L, N, o, a) /\ Assigning(L, N, o, a) \in SUBSET N
  BY <1>1 DEF Assigning
<1>7. MembersFrom(K, t, N, b.members, {})
  <2>1. \A x : Stands(L, t, N, x) => Stands(K, t, N, x)
    BY <1>1, <1>5 DEF Stands, Latest
  <2> QED
    BY <1>2, <2>1 DEF MembersFrom
<1>8. /\ DOMAIN b = BoardFields /\ b.subscribed = TRUE
      /\ ListsRight(L, t, b.columns, N, N) /\ CardsRight(L, t, b.items, N, N)
  BY <1>2 DEF Content
<1>9. ListsRight(K, t, b.columns, N, N)
  <2>1. ASSUME NEW c \in DOMAIN b.columns PROVE ColumnRight(K, t, c, b.columns[c], N, N)
    <3>1. ColumnRight(L, t, c, b.columns[c], N, N)
      BY <1>8 DEF ListsRight
    <3> QED
      BY <1>4, <3>1 DEF ColumnRight
  <2>2. DOMAIN b.columns = {m \in N : K[m].cmd = "column/create"}
    BY <1>1, <1>8 DEF ListsRight
  <2> QED
    BY <2>1, <2>2 DEF ListsRight
<1>10. CardsRight(K, t, b.items, N, N)
  <2>1. ASSUME NEW i \in DOMAIN b.items PROVE ItemRight(K, t, i, b.items[i], N, N)
    <3> DEFINE x == b.items[i]
    <3>1. ItemRight(L, t, i, x, N, N)
      BY <1>8 DEF CardsRight
    <3>2. i \in N
      BY <1>8, <2>1 DEF CardsRight
    <3> HIDE DEF x
    <3>3. ASSUME ItemShows(L, t, i, x, N) PROVE ItemShows(K, t, i, x, N)
      <4>1. \E m : Latest(t, {i} \cup About(K, N, {"item/moveTo"}, i), m) /\ x.column = Place(K, i, m)
        <5>1. PICK m : Latest(t, {i} \cup About(L, N, {"item/moveTo"}, i), m) /\ x.column = Place(L, i, m)
          BY <3>3 DEF ItemShows
        <5>2. m \in N
          BY <3>2, <5>1 DEF Latest, About
        <5>3. Place(K, i, m) = Place(L, i, m)
          BY <1>1, <3>2, <5>2 DEF Place
        <5> QED
          BY <1>4, <5>1, <5>3
      <4>2. ASSUME NEW a
            PROVE  a \in x.assignees <=>
                     \E m : Latest(t, Assigning(K, N, i, a), m) /\ K[m].cmd = "item/assign"
        <5>1. a \in x.assignees <=>
                \E m : Latest(t, Assigning(L, N, i, a), m) /\ L[m].cmd = "item/assign"
          BY <3>3 DEF ItemShows
        <5>2. \A m : Latest(t, Assigning(L, N, i, a), m) => K[m] = L[m]
          BY <1>1, <1>6 DEF Latest
        <5> QED
          BY <1>6, <5>1, <5>2
      <4> QED
        BY <1>4, <3>3, <4>1, <4>2 DEF ItemShows
    <3> QED
      BY <1>4, <3>1, <3>3 DEF ItemRight, x
  <2>2. DOMAIN b.items = {m \in N : K[m].cmd = "item/create"}
    BY <1>1, <1>8 DEF CardsRight
  <2> QED
    BY <2>1, <2>2 DEF CardsRight
<1>11. Content(K, t, b, N, N)
  BY <1>8, <1>9, <1>10 DEF Content
<1> QED
  BY <1>2, <1>3, <1>7, <1>11 DEF Following

LEMMA BoardStill ==
  ASSUME NEW L, LogRight(L), NEW K, NEW r, NewIn(L, K, r), NEW b, BoardRight(L, b)
  PROVE  BoardRight(K, b)
<1>1. b.operations \in SUBSET DOMAIN L
  BY DEF BoardRight
<1>2. b.subscribed = TRUE => Following(K, b, b.operations)
  BY <1>1, FollowingStill DEF BoardRight
<1>3. Closed(K, b.operations) /\ b.operations \in SUBSET DOMAIN K
  BY <1>1 DEF BoardRight, Closed, NewIn
<1> QED
  BY <1>2, <1>3 DEF BoardRight

\* Who names the tips of a board has seen all that is on it.
LEMMA TipsPrecede ==
  ASSUME NEW L, LogRight(L), NEW K, NEW r, NewIn(L, K, r), NEW b, BoardRight(L, b),
         b.subscribed = TRUE, K[r].causes = b.tips, NEW a \in b.operations
  PROVE  Precedes(K, a, r)
<1> DEFINE N == b.operations
           t == b.timeline
<1>1. /\ Complete(N, t) /\ b.tips = t.tips /\ N \in SUBSET DOMAIN L
      /\ \A m \in N : t.after[m] = L[m].causes /\ K[m] = L[m]
  BY DEF BoardRight, Following, TimelineRight, NewIn
<1>2. a # r
  BY <1>1 DEF NewIn
<1>3. ASSUME NEW S \in SUBSET DOMAIN K, Closed(K, S), r \in S PROVE a \in S
  <2>1. t.tips \subseteq S
    BY <1>1, <1>3 DEF Closed
  <2>2. \A m \in S \cap N : t.after[m] \cap N \subseteq S
    BY <1>1, <1>3 DEF Closed
  <2>3. N \subseteq S
    <3> HIDE DEF N, t
    <3> QED
      BY <1>1, <2>1, <2>2, TipsReachAll
  <2> QED
    BY <2>3
<1> QED
  BY <1>2, <1>3 DEF Precedes

-----------------------------------------------------------------------------
(* The channels between the tabs *)

LEMMA Elements ==
  ASSUME NEW S, NEW q \in Seq(S)
  PROVE  \A x : x \in Range(q) <=> \E i \in 1 .. Len(q) : x = q[i]
<1>1. DOMAIN q = 1 .. Len(q)
  OBVIOUS
<1>2. Range(q) = {q[i] : i \in DOMAIN q}
  BY DEF Range
<1>3. ASSUME NEW x PROVE x \in Range(q) <=> \E i \in 1 .. Len(q) : x = q[i]
  BY ONLY <1>1, <1>2
<1> QED
  BY <1>3

LEMMA ChainEmpty ==
  ASSUME NEW L, NEW A
  PROVE  Deliverable(L, A, <<>>) /\ Range(<<>>) = {}
BY DEF Deliverable, Range

LEMMA ChainMore ==
  ASSUME NEW L, NEW A, NEW B, A \subseteq B, NEW q, Deliverable(L, A, q)
  PROVE  Deliverable(L, B, q)
BY DEF Deliverable

LEMMA ChainOne ==
  ASSUME NEW L, NEW A, NEW r \in DOMAIN L, L[r].causes \subseteq A
  PROVE  Deliverable(L, A, <<r>>) /\ Range(<<r>>) = {r}
<1>1. <<r>> \in Seq(DOMAIN L) /\ Len(<<r>>) = 1 /\ <<r>>[1] = r
  OBVIOUS
<1>2. Range(<<r>>) = {r}
  BY DEF Range
<1> QED
  BY <1>1, <1>2 DEF Deliverable

LEMMA ChainConcat ==
  ASSUME NEW L, NEW A, NEW q, Deliverable(L, A, q), NEW B, B \subseteq A \cup Range(q),
         NEW s, Deliverable(L, B, s)
  PROVE  Deliverable(L, A, q \o s) /\ Range(q \o s) = Range(q) \cup Range(s)
<1> DEFINE u == q \o s
<1>0. q \in Seq(DOMAIN L) /\ s \in Seq(DOMAIN L)
  BY DEF Deliverable
<1>1. /\ u \in Seq(DOMAIN L) /\ Len(u) = Len(q) + Len(s) /\ Len(q) \in Nat /\ Len(s) \in Nat
      /\ \A i \in 1 .. Len(q) : u[i] = q[i]
      /\ \A i \in 1 .. Len(s) : u[Len(q) + i] = s[i]
      /\ \A i \in 1 .. Len(u) : i \in 1 .. Len(q) \/ (i - Len(q) \in 1 .. Len(s) /\ u[i] = s[i - Len(q)])
  BY <1>0
<1> HIDE DEF u
<1>2. /\ \A i \in 1 .. Len(q) : L[q[i]].causes \subseteq A \cup Ahead(q, i)
      /\ \A i \in 1 .. Len(s) : L[s[i]].causes \subseteq B \cup Ahead(s, i)
  BY DEF Deliverable
<1>3. \A x : x \in Range(q) <=> \E i \in 1 .. Len(q) : x = q[i]
  BY ONLY <1>0, Elements
<1>4. ASSUME NEW i \in 1 .. Len(u) PROVE L[u[i]].causes \subseteq A \cup Ahead(u, i)
  <2>1. CASE i \in 1 .. Len(q)
    <3>1. \A j \in 1 .. (i - 1) : j \in 1 .. Len(q) /\ u[j] = q[j]
      BY <1>1, <2>1
    <3>2. Ahead(u, i) = Ahead(q, i)
      BY <3>1 DEF Ahead
    <3> QED
      BY <1>1, <1>2, <2>1, <3>2
  <2>2. CASE i - Len(q) \in 1 .. Len(s) /\ u[i] = s[i - Len(q)]
    <3> DEFINE k == i - Len(q)
    <3>1. L[u[i]].causes \subseteq B \cup Ahead(s, k)
      BY <1>2, <2>2
    <3>2. Range(q) \subseteq Ahead(u, i)
      <4>1. \A j \in 1 .. Len(q) : j \in 1 .. (i - 1) /\ u[j] = q[j]
        BY <1>1, <2>2
      <4> QED
        BY <1>3, <4>1 DEF Ahead
    <3>3. Ahead(s, k) \subseteq Ahead(u, i)
      <4>1. \A j \in 1 .. (k - 1) : Len(q) + j \in 1 .. (i - 1) /\ u[Len(q) + j] = s[j]
        BY <1>1, <2>2
      <4> QED
        BY <4>1 DEF Ahead
    <3> QED
      BY <3>1, <3>2, <3>3
  <2> QED
    BY <1>1, <2>1, <2>2
<1>5. Deliverable(L, A, u)
  BY <1>1, <1>4 DEF Deliverable
<1>6. Range(u) = Range(q) \cup Range(s)
  BY <1>0, RangeConcatenation DEF u
<1> QED
  BY <1>5, <1>6 DEF u

LEMMA ChainTail ==
  ASSUME NEW L, NEW A, NEW q, Deliverable(L, A, q), q # <<>>
  PROVE  /\ Head(q) \in DOMAIN L /\ L[Head(q)].causes \subseteq A
         /\ Deliverable(L, A \cup {Head(q)}, Tail(q))
         /\ Range(q) = {Head(q)} \cup Range(Tail(q))
<1> DEFINE s == Tail(q)
           h == Head(q)
<1>0. q \in Seq(DOMAIN L) /\ \A i \in 1 .. Len(q) : L[q[i]].causes \subseteq A \cup Ahead(q, i)
  BY DEF Deliverable
<1>1. /\ h = q[1] /\ h \in DOMAIN L /\ s \in Seq(DOMAIN L) /\ Len(q) \in Nat /\ 1 <= Len(q)
      /\ Len(s) = Len(q) - 1 /\ \A i \in 1 .. Len(s) : s[i] = q[i + 1]
  BY <1>0
<1> HIDE DEF s, h
<1>2. L[h].causes \subseteq A
  <2>1. Ahead(q, 1) = {}
    BY DEF Ahead
  <2> QED
    BY <1>0, <1>1, <2>1
<1>3. ASSUME NEW i \in 1 .. Len(s) PROVE L[s[i]].causes \subseteq (A \cup {h}) \cup Ahead(s, i)
  <2>1. i + 1 \in 1 .. Len(q) /\ s[i] = q[i + 1]
    BY <1>1
  <2>2. Ahead(q, i + 1) \subseteq {h} \cup Ahead(s, i)
    <3>1. \A j \in 1 .. i : q[j] = h \/ (j - 1 \in 1 .. (i - 1) /\ q[j] = s[j - 1])
      BY <1>1
    <3> QED
      BY <3>1 DEF Ahead
  <2> QED
    BY <1>0, <2>1, <2>2
<1>4. Range(q) = {h} \cup Range(s)
  <2>1. \A x : x \in Range(q) <=> \E i \in 1 .. Len(q) : x = q[i]
    BY <1>0, Elements
  <2>1a. \A x : x \in Range(s) <=> \E i \in 1 .. Len(s) : x = s[i]
    BY <1>1, Elements
  <2>2. \A j \in 1 .. Len(q) : q[j] = h \/ (j - 1 \in 1 .. Len(s) /\ q[j] = s[j - 1])
    BY <1>1
  <2>3. \A i \in 1 .. Len(s) : i + 1 \in 1 .. Len(q) /\ s[i] = q[i + 1]
    BY <1>1
  <2>4. 1 \in 1 .. Len(q) /\ q[1] = h
    BY <1>1
  <2> QED
    <3>1. ASSUME NEW x \in Range(q) PROVE x \in {h} \cup Range(s)
      BY <2>1, <2>1a, <2>2
    <3>2. h \in Range(q)
      BY <2>1, <2>4
    <3>3. ASSUME NEW x \in Range(s) PROVE x \in Range(q)
      <4>1. PICK i \in 1 .. Len(s) : x = s[i]
        BY <2>1a
      <4>2. i + 1 \in 1 .. Len(q) /\ x = q[i + 1]
        BY <2>3, <4>1
      <4> QED
        BY <2>1, <4>2
    <3> QED
      BY <3>1, <3>2, <3>3
<1> QED
  BY <1>1, <1>2, <1>3, <1>4 DEF s, h, Deliverable

LEMMA ChainLog ==
  ASSUME NEW L, NEW K, NEW r, NewIn(L, K, r), NEW A, NEW q, Deliverable(L, A, q)
  PROVE  Deliverable(K, A, q)
<1>1. q \in Seq(DOMAIN L) /\ \A i \in 1 .. Len(q) : L[q[i]].causes \subseteq A \cup Ahead(q, i)
  BY DEF Deliverable
<1>2. DOMAIN L \subseteq DOMAIN K /\ \A m \in DOMAIN L : K[m] = L[m]
  BY DEF NewIn
<1>3. q \in Seq(DOMAIN K) /\ \A i \in 1 .. Len(q) : q[i] \in DOMAIN L
  BY <1>1, <1>2
<1> QED
  BY <1>1, <1>2, <1>3 DEF Deliverable

\* A queue holds no creation of the board by p.
Foreign(L, p, q) == \A r \in Range(q) : L[r].cmd = "board/create" => L[r].by # p

LEMMA NewEventsKeeps ==
  ASSUME NEW L, LogRight(L), NEW b, BoardRight(L, b), NEW q, Deliverable(L, b.operations, q),
         NEW p \in Person, Foreign(L, p, q), NEW u, u = NewEvents(L, p, b, q)
  PROVE  BoardRight(L, u) /\ u.operations = b.operations \cup Range(q)
<1>0. q \in Seq(DOMAIN L) /\ \A i \in 1 .. Len(q) : L[q[i]].causes \subseteq b.operations \cup Ahead(q, i)
  BY DEF Deliverable
<1> DEFINE l == Len(q)
<1>1. l \in Nat /\ \A i \in 1 .. l : q[i] \in DOMAIN L
  BY <1>0
<1>2. PICK f : /\ f[0] = b
               /\ \A k \in 1 .. l : f[k] = NewEvent(L, p, q[k], f[k - 1])
               /\ NewEvents(L, p, b, q) = f[l]
  BY <1>1, NewEventsRun
<1>3. \A x : x \in Range(q) <=> \E i \in 1 .. l : x = q[i]
  BY ONLY <1>0, Elements
<1> HIDE DEF l
<1> DEFINE Good(k) == BoardRight(L, f[k]) /\ f[k].operations = b.operations \cup Ahead(q, k + 1)
<1>4. Good(0)
  <2>1. Ahead(q, 0 + 1) = {}
    BY DEF Ahead
  <2> QED
    BY <1>2, <2>1
<1>5. ASSUME NEW k \in 1 .. l, Good(k - 1) PROVE Good(k)
  <2> DEFINE r == q[k]
             x == f[k - 1]
  <2>1. BoardRight(L, x) /\ x.operations = b.operations \cup Ahead(q, k)
    <3>1. (k - 1) + 1 = k
      BY <1>1
    <3> QED
      BY <1>5, <3>1
  <2>2. r \in DOMAIN L /\ f[k] = NewEvent(L, p, r, x) /\ L[r].causes \subseteq x.operations
    BY <1>0, <1>1, <1>2, <2>1 DEF l
  <2>3. ~ (L[r].cmd = "board/create" /\ L[r].by = p)
    BY <1>3 DEF Foreign
  <2> HIDE DEF x, r
  <2>4. BoardRight(L, f[k]) /\ f[k].operations = x.operations \cup {r}
    <3>1. BoardRight(L, x)
      BY <2>1
    <3>2. Ready(L, p, r, x)
      BY <2>2, <2>3 DEF Ready
    <3>3. f[k] = NewEvent(L, p, r, x) /\ r \in DOMAIN L
      BY <2>2
    <3>4. Took(L, x, r, f[k])
      BY <3>1, <3>2, <3>3, NewEventKeeps
    <3> QED
      BY <3>4 DEF Took
  <2>5. Ahead(q, k + 1) = Ahead(q, k) \cup {r}
    <3>1. \A j \in 1 .. ((k + 1) - 1) : j = k \/ j \in 1 .. (k - 1)
      BY <1>1
    <3>2. k \in 1 .. ((k + 1) - 1) /\ \A j \in 1 .. (k - 1) : j \in 1 .. ((k + 1) - 1)
      BY <1>1
    <3> QED
      BY <3>1, <3>2 DEF Ahead, r
  <2> QED
    BY <2>1, <2>4, <2>5
<1>7. Good(l)
  <2> HIDE DEF Good
  <2> SUFFICES ASSUME ~ Good(l) PROVE FALSE
    OBVIOUS
  <2> DEFINE T == {k \in 0 .. l : ~ Good(k)}
  <2>1. T \in SUBSET Nat /\ l \in T
    BY <1>1
  <2>2. PICK k \in T : \A j \in T : k <= j
    <3> HIDE DEF T
    <3> QED
      BY <2>1, LeastNatural
  <2>3. k \in 1 .. l /\ ~ Good(k)
    BY <1>1, <1>4, <2>2
  <2>4. Good(k - 1)
    BY <1>1, <2>2, <2>3
  <2> QED
    BY <1>5, <2>3, <2>4
<1>8. Ahead(q, l + 1) = Range(q)
  <2>1. (l + 1) - 1 = l
    BY <1>1
  <2> QED
    BY <1>3, <2>1 DEF Ahead
<1> QED
  BY <1>2, <1>7, <1>8 DEF Good

-----------------------------------------------------------------------------
(* The tabs *)

NoCreation(L, q) == \A r \in Range(q) : L[r].cmd # "board/create"

\* A tab keeps board b, what came in (q) and, while it is offline, what goes out (o).
TabRight(L, p, b, q, o, off) ==
  /\ BoardRight(L, b)
  /\ Deliverable(L, b.operations, q) /\ Foreign(L, p, q)
  /\ Range(o) \subseteq b.operations /\ NoCreation(L, o)
  /\ off = FALSE => o = <<>>

\* What reached the tab of p.
Seen(bd, iq, p) == bd[p].operations \cup Range(iq[p])

\* What reached p reached q, or waits at p with its causes before it.
Reaches(L, bd, iq, ot, p, q) ==
  /\ Seen(bd, iq, p) \subseteq Seen(bd, iq, q) \cup Range(ot[p])
  /\ Deliverable(L, Seen(bd, iq, q), ot[p])

TabsRight(L, bd, iq, ot, off) ==
  /\ LogRight(L)
  /\ DOMAIN bd = Person /\ DOMAIN iq = Person /\ DOMAIN ot = Person /\ off \in [Person -> BOOLEAN]
  /\ \A p \in Person : TabRight(L, p, bd[p], iq[p], ot[p], off[p])
  /\ \A p, q \in Person : Reaches(L, bd, iq, ot, p, q)

LEMMA AnsweredRight ==
  ASSUME NEW L, NEW b, BoardRight(L, b), NEW K, NEW p \in Person, NEW r,
         NEW u, u = Answered(K, p, r, b)
  PROVE  BoardRight(L, u) /\ u.operations = b.operations /\ u.subscribed = b.subscribed
<1> DEFINE N == b.operations
<1>1. CASE u = b
  BY <1>1
<1>2. CASE u = [b EXCEPT !.pending[p] = NoInvitation]
  <2>1. /\ DOMAIN b = BoardFields /\ b.pending \in [Person -> [from : SUBSET N, many : BOOLEAN]]
        /\ b.subscribed \in BOOLEAN
    BY DEF BoardRight, PendingRight
  <2>2. /\ DOMAIN u = BoardFields /\ u.pending = [b.pending EXCEPT ![p] = NoInvitation]
        /\ \A f \in BoardFields : f # "pending" => u[f] = b[f]
    BY <1>2, <2>1 DEF BoardFields
  <2>3. NoInvitation \in [from : SUBSET N, many : BOOLEAN]
    BY DEF NoInvitation
  <2>4. u.pending \in [Person -> [from : SUBSET N, many : BOOLEAN]]
    BY <2>1, <2>2, <2>3
  <2>5. /\ u.operations = b.operations /\ u.subscribed = b.subscribed /\ u.known = b.known
        /\ u.timeline = b.timeline /\ u.columns = b.columns /\ u.items = b.items
        /\ u.members = b.members /\ u.tips = b.tips
    BY <2>2 DEF BoardFields
  <2>6. CASE b = NoBoard
    <3>1. b.pending[p] = NoInvitation
      BY <2>6 DEF NoBoard, NoInvitation
    <3>2. u = b
      <4>1. u.pending = b.pending
        BY <2>1, <2>2, <3>1
      <4>2. \A f \in BoardFields : u[f] = b[f]
        BY <2>2, <4>1
      <4>3. b = [f \in BoardFields |-> b[f]] /\ u = [f \in BoardFields |-> u[f]]
        BY <1>2, <2>1, <2>2, <2>6 DEF NoBoard
      <4> QED
        BY <4>2, <4>3
    <3> QED
      BY <3>2
  <2>7. CASE b # NoBoard
    <3>1. u.subscribed = TRUE => Following(L, u, N)
      <4>1. ASSUME u.subscribed = TRUE PROVE Following(L, b, N)
        BY <2>5, <4>1 DEF BoardRight
      <4> QED
        BY <2>2, <2>5, <4>1, FollowingSame
    <3>2. PendingRight(u, N)
      BY <2>4 DEF PendingRight
    <3>3. b.known = TRUE /\ N # {} /\ N \in SUBSET DOMAIN L /\ Closed(L, N)
      BY <2>7 DEF BoardRight
    <3> QED
      BY <2>1, <2>2, <2>5, <3>1, <3>2, <3>3 DEF BoardRight
  <2> QED
    BY <2>6, <2>7
<1>3. u = b \/ u = [b EXCEPT !.pending[p] = NoInvitation]
  BY DEF Answered
<1> QED
  BY <1>1, <1>2, <1>3

\* A tab whose page and queues are as they were, after a new event of the log.
LEMMA TabStill ==
  ASSUME NEW L, LogRight(L), NEW K, NEW r, NewIn(L, K, r), NEW p, NEW b, NEW q, NEW o, NEW off,
         TabRight(L, p, b, q, o, off)
  PROVE  TabRight(K, p, b, q, o, off)
<1>1. /\ BoardRight(L, b) /\ Deliverable(L, b.operations, q) /\ Foreign(L, p, q)
      /\ Range(o) \subseteq b.operations /\ NoCreation(L, o) /\ (off = FALSE => o = <<>>)
  BY DEF TabRight
<1>2. BoardRight(K, b) /\ Deliverable(K, b.operations, q)
  BY <1>1, BoardStill, ChainLog
<1>3. \A m \in DOMAIN L : K[m] = L[m]
  BY DEF NewIn
<1>4. b.operations \in SUBSET DOMAIN L /\ q \in Seq(DOMAIN L)
  BY <1>1 DEF BoardRight, Deliverable
<1>5. Range(q) \in SUBSET DOMAIN L
  BY <1>4, RangeOfSeq
<1> QED
  BY <1>1, <1>2, <1>3, <1>4, <1>5 DEF TabRight, Foreign, NoCreation

-----------------------------------------------------------------------------
(* Steps of the tabs *)

\* The event r that p issues in K, after L, with board b.
Issuable(L, K, p, r, b, off) ==
  /\ NewIn(L, K, r) /\ r \in Names \ {0} /\ K[r].by = p
  /\ K[r].cmd \in Commands /\ K[r].causes \in SUBSET b.operations /\ AboutPrior(K, r)
  /\ K[r].cmd = "board/create" => b.operations = {} /\ off = FALSE

LEMMA IssuedRight ==
  ASSUME NEW L, LogRight(L), NEW p \in Person, NEW b, BoardRight(L, b), NEW K, NEW r, NEW off,
         Issuable(L, K, p, r, b, off), NEW u, u = NewEvent(K, p, r, Answered(K, p, r, b))
  PROVE  LogRight(K) /\ BoardRight(K, u) /\ u.operations = b.operations \cup {r}
<1> DEFINE c == Answered(K, p, r, b)
<1>1. /\ NewIn(L, K, r) /\ r \in Names \ {0} /\ K[r].cmd \in Commands
      /\ K[r].causes \in SUBSET b.operations /\ AboutPrior(K, r)
      /\ K[r].cmd = "board/create" => b.operations = {}
  BY DEF Issuable
<1>2. b.operations \in SUBSET DOMAIN L
  BY DEF BoardRight
<1>3. LogRight(K)
  BY <1>1, <1>2, LogGrows
<1>4. BoardRight(K, b)
  BY <1>1, BoardStill
<1>5. BoardRight(K, c) /\ c.operations = b.operations
  BY <1>4, AnsweredRight
<1> HIDE DEF c
<1>6. r \in DOMAIN K /\ u = NewEvent(K, p, r, c)
  BY <1>1 DEF NewIn, c
<1>7. Ready(K, p, r, c)
  BY <1>1, <1>5 DEF Ready
<1>8. Took(K, c, r, u)
  BY <1>3, <1>5, <1>6, <1>7, NewEventKeeps
<1> QED
  BY <1>3, <1>5, <1>8 DEF Took

\* p sends s to all others.
Sent(iq, iq2, p, s) ==
  DOMAIN iq2 = Person /\ \A x \in Person : x # p => iq2[x] = iq[x] \o s

LEMMA OnlineIssue ==
  ASSUME NEW L, NEW bd, NEW iq, NEW ot, NEW off, TabsRight(L, bd, iq, ot, off),
         NEW p \in Person, off[p] = FALSE, NEW K, NEW r, Issuable(L, K, p, r, bd[p], off[p]),
         NEW u, u = NewEvent(K, p, r, Answered(K, p, r, bd[p])),
         NEW bd2, bd2 = [bd EXCEPT ![p] = u],
         NEW iq2, iq2[p] = iq[p], Sent(iq, iq2, p, <<r>>)
  PROVE  TabsRight(K, bd2, iq2, ot, off)
<1>1. /\ LogRight(L) /\ DOMAIN bd = Person /\ DOMAIN iq = Person /\ DOMAIN ot = Person
      /\ off \in [Person -> BOOLEAN]
      /\ \A x \in Person : TabRight(L, x, bd[x], iq[x], ot[x], off[x])
      /\ \A x, y \in Person : Reaches(L, bd, iq, ot, x, y)
  BY DEF TabsRight
<1>2. NewIn(L, K, r) /\ K[r].by = p /\ K[r].causes \in SUBSET bd[p].operations /\ r \in DOMAIN K
  BY DEF Issuable, NewIn
<1>3. BoardRight(L, bd[p])
  BY <1>1 DEF TabRight
<1>4. LogRight(K) /\ BoardRight(K, u) /\ u.operations = bd[p].operations \cup {r}
  BY <1>1, <1>3, IssuedRight
<1>5. /\ DOMAIN bd2 = Person /\ DOMAIN iq2 = Person /\ bd2[p] = u /\ iq2[p] = iq[p]
      /\ \A x \in Person : x # p => bd2[x] = bd[x] /\ iq2[x] = iq[x] \o <<r>>
  BY <1>1 DEF Sent
<1>6. ot[p] = <<>>
  BY <1>1 DEF TabRight
<1>7. ASSUME NEW x \in Person PROVE TabRight(K, x, bd[x], iq[x], ot[x], off[x])
  BY <1>1, <1>2, TabStill
<1>8. ASSUME NEW x \in Person PROVE Deliverable(K, Seen(bd, iq, x), <<r>>) /\ Range(<<r>>) = {r}
  <2>1. bd[p].operations \subseteq Seen(bd, iq, x)
    <3>1. Reaches(L, bd, iq, ot, p, x) /\ Range(ot[p]) = {}
      BY <1>1, <1>6, ChainEmpty
    <3> QED
      BY <3>1 DEF Reaches, Seen
  <2>2. K[r].causes \subseteq Seen(bd, iq, x)
    BY <1>2, <2>1
  <2> QED
    BY <1>2, <2>2, ChainOne
<1>9. ASSUME NEW x \in Person, x # p
      PROVE  /\ Deliverable(K, bd2[x].operations, iq2[x])
             /\ Range(iq2[x]) = Range(iq[x]) \cup {r}
  <2>1. Deliverable(K, bd[x].operations, iq[x])
    BY <1>7 DEF TabRight
  <2>2. Deliverable(K, Seen(bd, iq, x), <<r>>) /\ Range(<<r>>) = {r}
    BY <1>8
  <2>3. Seen(bd, iq, x) \subseteq bd[x].operations \cup Range(iq[x])
    BY DEF Seen
  <2>4. Deliverable(K, bd[x].operations, iq[x] \o <<r>>)
        /\ Range(iq[x] \o <<r>>) = Range(iq[x]) \cup Range(<<r>>)
    <3> DEFINE A == bd[x].operations
               B == Seen(bd, iq, x)
               q == iq[x]
               s == <<r>>
    <3>1. Deliverable(K, A, q) /\ Deliverable(K, B, s) /\ B \subseteq A \cup Range(q)
      BY <2>1, <2>2, <2>3
    <3> HIDE DEF A, B, q, s
    <3>2. Deliverable(K, A, q \o s) /\ Range(q \o s) = Range(q) \cup Range(s)
      BY <3>1, ChainConcat
    <3> QED
      BY <3>2 DEF A, q, s
  <2> QED
    BY <1>5, <1>9, <2>2, <2>4
<1>10. ASSUME NEW x \in Person PROVE TabRight(K, x, bd2[x], iq2[x], ot[x], off[x])
  <2>0. TabRight(K, x, bd[x], iq[x], ot[x], off[x])
    BY <1>7
  <2>1. CASE x = p
    <3>1. Deliverable(K, u.operations, iq[p])
      <4>1. Deliverable(K, bd[p].operations, iq[p]) /\ bd[p].operations \subseteq u.operations
        BY <1>4, <2>0, <2>1 DEF TabRight
      <4> QED
        BY <4>1, ChainMore
    <3> QED
      BY <1>4, <1>5, <2>0, <2>1, <3>1 DEF TabRight
  <2>2. CASE x # p
    <3>1. Foreign(K, x, iq2[x])
      BY <1>2, <1>9, <2>0, <2>2 DEF TabRight, Foreign
    <3> QED
      BY <1>5, <1>9, <2>0, <2>2, <3>1 DEF TabRight
  <2> QED
    BY <2>1, <2>2
<1>11. ASSUME NEW x \in Person PROVE Seen(bd2, iq2, x) = Seen(bd, iq, x) \cup {r}
  BY <1>4, <1>5, <1>9 DEF Seen
<1>12. ASSUME NEW x \in Person, NEW y \in Person PROVE Reaches(K, bd2, iq2, ot, x, y)
  <2>1. Reaches(L, bd, iq, ot, x, y)
    BY <1>1
  <2>2. Deliverable(K, Seen(bd, iq, y), ot[x])
    BY <1>2, <2>1, ChainLog DEF Reaches
  <2>3. Seen(bd, iq, y) \subseteq Seen(bd2, iq2, y)
    BY <1>11
  <2>4. Deliverable(K, Seen(bd2, iq2, y), ot[x])
    BY <2>2, <2>3, ChainMore
  <2> QED
    BY <1>11, <2>1, <2>4 DEF Reaches
<1> QED
  BY <1>1, <1>4, <1>5, <1>10, <1>12 DEF TabsRight

LEMMA OfflineIssue ==
  ASSUME NEW L, NEW bd, NEW iq, NEW ot, NEW off, TabsRight(L, bd, iq, ot, off),
         NEW p \in Person, off[p] = TRUE, NEW K, NEW r, Issuable(L, K, p, r, bd[p], off[p]),
         NEW u, u = NewEvent(K, p, r, Answered(K, p, r, bd[p])),
         NEW bd2, bd2 = [bd EXCEPT ![p] = u],
         NEW ot2, ot2 = [ot EXCEPT ![p] = Append(@, r)]
  PROVE  TabsRight(K, bd2, iq, ot2, off)
<1>1. /\ LogRight(L) /\ DOMAIN bd = Person /\ DOMAIN iq = Person /\ DOMAIN ot = Person
      /\ off \in [Person -> BOOLEAN]
      /\ \A x \in Person : TabRight(L, x, bd[x], iq[x], ot[x], off[x])
      /\ \A x, y \in Person : Reaches(L, bd, iq, ot, x, y)
  BY DEF TabsRight
<1>2. /\ NewIn(L, K, r) /\ K[r].causes \in SUBSET bd[p].operations /\ r \in DOMAIN K
      /\ K[r].cmd # "board/create"
  BY DEF Issuable, NewIn
<1>3. BoardRight(L, bd[p])
  BY <1>1 DEF TabRight
<1>4. LogRight(K) /\ BoardRight(K, u) /\ u.operations = bd[p].operations \cup {r}
  <2>1. Issuable(L, K, p, r, bd[p], off[p]) /\ LogRight(L)
    BY <1>1
  <2>2. u = NewEvent(K, p, r, Answered(K, p, r, bd[p]))
    OBVIOUS
  <2> QED
    BY ONLY <1>3, <2>1, <2>2, IssuedRight
<1>5. /\ DOMAIN bd2 = Person /\ DOMAIN ot2 = Person /\ bd2[p] = u
      /\ \A x \in Person : x # p => bd2[x] = bd[x] /\ ot2[x] = ot[x]
  BY <1>1
<1>6. ASSUME NEW x \in Person PROVE TabRight(K, x, bd[x], iq[x], ot[x], off[x])
  BY <1>1, <1>2, TabStill
<1>7. ASSUME NEW x \in Person, NEW y \in Person
      PROVE  /\ Seen(bd, iq, x) \subseteq Seen(bd, iq, y) \cup Range(ot[x])
             /\ Deliverable(K, Seen(bd, iq, y), ot[x])
  <2>1. Reaches(L, bd, iq, ot, x, y)
    BY <1>1
  <2> QED
    BY <1>2, <2>1, ChainLog DEF Reaches
<1>8. ASSUME NEW y \in Person
      PROVE  Deliverable(K, Seen(bd, iq, y), ot2[p]) /\ Range(ot2[p]) = Range(ot[p]) \cup {r}
  <2> DEFINE A == Seen(bd, iq, y) \cup Range(ot[p])
  <2>1. K[r].causes \subseteq A
    BY <1>2, <1>7 DEF Seen
  <2>2. Deliverable(K, A, <<r>>) /\ Range(<<r>>) = {r}
    BY <1>2, <2>1, ChainOne
  <2>3. Deliverable(K, Seen(bd, iq, y), ot[p])
    BY <1>7
  <2>4. ot[p] \in Seq(DOMAIN K)
    BY <2>3 DEF Deliverable
  <2>5. ot2[p] = ot[p] \o <<r>>
    <3>1. ot2[p] = Append(ot[p], r)
      BY <1>1
    <3> QED
      BY <1>2, <2>4, <3>1
  <2>6. Deliverable(K, Seen(bd, iq, y), ot[p] \o <<r>>)
        /\ Range(ot[p] \o <<r>>) = Range(ot[p]) \cup Range(<<r>>)
    BY <2>2, <2>3, ChainConcat
  <2> QED
    BY <2>2, <2>5, <2>6
<1>9. ASSUME NEW x \in Person
      PROVE  /\ x = p => Seen(bd2, iq, x) = Seen(bd, iq, x) \cup {r}
             /\ x # p => Seen(bd2, iq, x) = Seen(bd, iq, x)
  BY <1>4, <1>5 DEF Seen
<1>10. ASSUME NEW x \in Person PROVE TabRight(K, x, bd2[x], iq[x], ot2[x], off[x])
  <2>0. TabRight(K, x, bd[x], iq[x], ot[x], off[x])
    BY <1>6
  <2>1. CASE x = p
    <3>1. Deliverable(K, u.operations, iq[p])
      <4>1. Deliverable(K, bd[p].operations, iq[p]) /\ bd[p].operations \subseteq u.operations
        BY <1>4, <2>0, <2>1 DEF TabRight
      <4> QED
        BY <4>1, ChainMore
    <3>2. Range(ot2[p]) = Range(ot[p]) \cup {r}
      BY <1>8
    <3>3. NoCreation(K, ot2[p]) /\ Range(ot2[p]) \subseteq u.operations
      BY <1>2, <1>4, <2>0, <2>1, <3>2 DEF TabRight, NoCreation
    <3> QED
      BY <1>4, <1>5, <2>0, <2>1, <3>1, <3>3 DEF TabRight
  <2>2. CASE x # p
    BY <1>5, <2>0, <2>2
  <2> QED
    BY <2>1, <2>2
<1>11. ASSUME NEW x \in Person, NEW y \in Person PROVE Reaches(K, bd2, iq, ot2, x, y)
  <2>1. Seen(bd, iq, y) \subseteq Seen(bd2, iq, y)
    BY <1>9
  <2>2. Deliverable(K, Seen(bd, iq, y), ot2[x])
    BY <1>5, <1>7, <1>8
  <2>3. Deliverable(K, Seen(bd2, iq, y), ot2[x])
    BY <2>1, <2>2, ChainMore
  <2>4. Seen(bd2, iq, x) \subseteq Seen(bd2, iq, y) \cup Range(ot2[x])
    <3>1. Seen(bd, iq, x) \subseteq Seen(bd, iq, y) \cup Range(ot[x])
      BY <1>7
    <3>2. CASE x = p
      BY <1>8, <1>9, <2>1, <3>1, <3>2
    <3>3. CASE x # p
      BY <1>5, <1>9, <2>1, <3>1, <3>3
    <3> QED
      BY <3>2, <3>3
  <2> QED
    BY <2>3, <2>4 DEF Reaches
<1> QED
  BY <1>1, <1>4, <1>5, <1>10, <1>11 DEF TabsRight

LEMMA ReceiveRight ==
  ASSUME NEW L, NEW bd, NEW iq, NEW ot, NEW off, TabsRight(L, bd, iq, ot, off),
         NEW p \in Person, iq[p] # <<>>,
         NEW u, u = NewEvent(L, p, Head(iq[p]), bd[p]),
         NEW bd2, bd2 = [bd EXCEPT ![p] = u], NEW iq2, iq2 = [iq EXCEPT ![p] = Tail(@)]
  PROVE  TabsRight(L, bd2, iq2, ot, off)
<1> DEFINE r == Head(iq[p])
<1>1. /\ LogRight(L) /\ DOMAIN bd = Person /\ DOMAIN iq = Person /\ DOMAIN ot = Person
      /\ off \in [Person -> BOOLEAN]
      /\ \A x \in Person : TabRight(L, x, bd[x], iq[x], ot[x], off[x])
      /\ \A x, y \in Person : Reaches(L, bd, iq, ot, x, y)
  BY DEF TabsRight
<1>2. /\ BoardRight(L, bd[p]) /\ Deliverable(L, bd[p].operations, iq[p]) /\ Foreign(L, p, iq[p])
      /\ Range(ot[p]) \subseteq bd[p].operations /\ NoCreation(L, ot[p])
      /\ off[p] = FALSE => ot[p] = <<>>
  BY <1>1 DEF TabRight
<1>3. /\ r \in DOMAIN L /\ L[r].causes \subseteq bd[p].operations
      /\ Deliverable(L, bd[p].operations \cup {r}, Tail(iq[p]))
      /\ Range(iq[p]) = {r} \cup Range(Tail(iq[p]))
  BY <1>2, ChainTail
<1>4. u = NewEvent(L, p, r, bd[p])
  OBVIOUS
<1>5. /\ DOMAIN bd2 = Person /\ DOMAIN iq2 = Person /\ bd2[p] = u /\ iq2[p] = Tail(iq[p])
      /\ \A x \in Person : x # p => bd2[x] = bd[x] /\ iq2[x] = iq[x]
  BY <1>1
<1> HIDE DEF r
<1>6. BoardRight(L, u) /\ u.operations = bd[p].operations \cup {r}
  <2>1. Ready(L, p, r, bd[p])
    BY <1>2, <1>3 DEF Ready, Foreign
  <2>2. Took(L, bd[p], r, u)
    BY <1>1, <1>2, <1>3, <1>4, <2>1, NewEventKeeps
  <2> QED
    BY <2>2 DEF Took
<1>7. ASSUME NEW x \in Person PROVE Seen(bd2, iq2, x) = Seen(bd, iq, x)
  BY <1>3, <1>5, <1>6 DEF Seen
<1>8. ASSUME NEW x \in Person PROVE TabRight(L, x, bd2[x], iq2[x], ot[x], off[x])
  <2>1. CASE x = p
    BY <1>2, <1>3, <1>5, <1>6, <2>1 DEF TabRight, Foreign
  <2>2. CASE x # p
    BY <1>1, <1>5, <2>2
  <2> QED
    BY <2>1, <2>2
<1>9. ASSUME NEW x \in Person, NEW y \in Person PROVE Reaches(L, bd2, iq2, ot, x, y)
  BY <1>1, <1>7 DEF Reaches
<1> QED
  BY <1>1, <1>5, <1>8, <1>9 DEF TabsRight

\* Only p turned its switch.
Switched(off, off2, p) ==
  off2 \in [Person -> BOOLEAN] /\ \A x \in Person : x # p => off2[x] = off[x]

LEMMA OnlineAgain ==
  ASSUME NEW L, NEW bd, NEW iq, NEW ot, NEW off, TabsRight(L, bd, iq, ot, off),
         NEW p \in Person, NEW u, u = NewEvents(L, p, bd[p], iq[p] \o ot[p]),
         NEW bd2, bd2 = [bd EXCEPT ![p] = u],
         NEW iq2, iq2[p] = <<>>, Sent(iq, iq2, p, ot[p]),
         NEW ot2, ot2 = [ot EXCEPT ![p] = <<>>], NEW off2, Switched(off, off2, p)
  PROVE  TabsRight(L, bd2, iq2, ot2, off2)
<1>1. /\ LogRight(L) /\ DOMAIN bd = Person /\ DOMAIN iq = Person /\ DOMAIN ot = Person
      /\ \A x \in Person : TabRight(L, x, bd[x], iq[x], ot[x], off[x])
      /\ \A x, y \in Person : Reaches(L, bd, iq, ot, x, y)
  BY DEF TabsRight
<1>0. off2 \in [Person -> BOOLEAN] /\ \A x \in Person : x # p => off2[x] = off[x]
  BY DEF Switched
<1> DEFINE o == ot[p]
<1>2. /\ BoardRight(L, bd[p]) /\ Deliverable(L, bd[p].operations, iq[p]) /\ Foreign(L, p, iq[p])
      /\ Range(o) \subseteq bd[p].operations /\ NoCreation(L, o)
  BY <1>1 DEF TabRight
<1>3. ASSUME NEW x \in Person PROVE Deliverable(L, Seen(bd, iq, x), o)
  BY <1>1 DEF Reaches
<1>4. ASSUME NEW x \in Person
      PROVE  /\ Deliverable(L, bd[x].operations, iq[x] \o o)
             /\ Range(iq[x] \o o) = Range(iq[x]) \cup Range(o)
  <2> DEFINE A == bd[x].operations
             B == Seen(bd, iq, x)
             q == iq[x]
  <2>1. Deliverable(L, A, q)
    BY <1>1 DEF TabRight
  <2>2. Deliverable(L, B, o)
    BY <1>3
  <2>3. B \subseteq A \cup Range(q)
    BY DEF Seen
  <2> HIDE DEF A, B, q, o
  <2>4. Deliverable(L, A, q \o o) /\ Range(q \o o) = Range(q) \cup Range(o)
    BY <2>1, <2>2, <2>3, ChainConcat
  <2> QED
    BY <2>4 DEF A, q
<1>5. /\ DOMAIN bd2 = Person /\ DOMAIN iq2 = Person /\ DOMAIN ot2 = Person
      /\ bd2[p] = u /\ iq2[p] = <<>> /\ ot2[p] = <<>>
      /\ \A x \in Person : x # p => bd2[x] = bd[x] /\ iq2[x] = iq[x] \o o /\ ot2[x] = ot[x]
  BY <1>1 DEF Sent
<1>6. u = NewEvents(L, p, bd[p], iq[p] \o o)
  OBVIOUS
<1> HIDE DEF o
<1>7. BoardRight(L, u) /\ u.operations = bd[p].operations \cup Range(iq[p])
  <2> DEFINE q == iq[p] \o o
             b == bd[p]
  <2>1. Deliverable(L, b.operations, q) /\ Range(q) = Range(iq[p]) \cup Range(o)
    BY <1>4
  <2>2. u = NewEvents(L, p, b, q) /\ BoardRight(L, b) /\ LogRight(L)
    BY <1>1, <1>2, <1>6
  <2> HIDE DEF q, b
  <2>3. Foreign(L, p, q)
    BY <1>2, <2>1 DEF Foreign, NoCreation
  <2>4. BoardRight(L, u) /\ u.operations = b.operations \cup Range(q)
    BY <2>1, <2>2, <2>3, NewEventsKeeps
  <2> QED
    BY <1>2, <2>1, <2>4 DEF b
<1>8. Deliverable(L, u.operations, <<>>) /\ Range(<<>>) = {}
  BY ChainEmpty
<1>9. ASSUME NEW x \in Person
      PROVE  Seen(bd2, iq2, x) = Seen(bd, iq, x) \cup Range(o)
  <2>1. CASE x = p
    BY <1>2, <1>5, <1>7, <1>8, <2>1 DEF Seen
  <2>2. CASE x # p
    BY <1>4, <1>5, <2>2 DEF Seen
  <2> QED
    BY <2>1, <2>2
<1>10. ASSUME NEW x \in Person PROVE TabRight(L, x, bd2[x], iq2[x], ot2[x], off2[x])
  <2>1. CASE x = p
    <3>1. TabRight(L, p, u, <<>>, <<>>, off2[p])
      BY <1>7, <1>8 DEF TabRight, Foreign, NoCreation
    <3> QED
      BY <1>5, <2>1, <3>1
  <2>2. CASE x # p
    <3>1. TabRight(L, x, bd[x], iq[x], ot[x], off[x])
      BY <1>1
    <3>2. Foreign(L, x, iq[x] \o o)
      BY <1>2, <1>4, <3>1 DEF TabRight, Foreign, NoCreation
    <3>3. off2[x] = off[x]
      BY <1>0, <2>2
    <3> QED
      BY <1>4, <1>5, <2>2, <3>1, <3>2, <3>3 DEF TabRight
  <2> QED
    BY <2>1, <2>2
<1>11. ASSUME NEW x \in Person, NEW y \in Person PROVE Reaches(L, bd2, iq2, ot2, x, y)
  <2>1. Reaches(L, bd, iq, ot, x, y)
    BY <1>1
  <2>2. CASE x = p
    <3>1. Seen(bd, iq, p) \subseteq Seen(bd, iq, y) \cup Range(o)
      BY <2>1, <2>2 DEF Reaches, o
    <3>2. Deliverable(L, Seen(bd2, iq2, y), <<>>)
      BY ChainEmpty
    <3>3. Seen(bd2, iq2, p) \subseteq Seen(bd2, iq2, y)
      BY <1>9, <3>1
    <3> QED
      BY <1>5, <2>2, <3>2, <3>3 DEF Reaches
  <2>3. CASE x # p
    <3>1. Seen(bd, iq, x) \subseteq Seen(bd, iq, y) \cup Range(ot2[x])
      BY <1>5, <2>1, <2>3 DEF Reaches
    <3>2. Deliverable(L, Seen(bd, iq, y), ot2[x])
      BY <1>5, <2>1, <2>3 DEF Reaches
    <3>3. Seen(bd, iq, y) \subseteq Seen(bd2, iq2, y)
      BY <1>9
    <3>4. Deliverable(L, Seen(bd2, iq2, y), ot2[x])
      BY <3>2, <3>3, ChainMore
    <3>5. Seen(bd2, iq2, x) \subseteq Seen(bd2, iq2, y) \cup Range(ot2[x])
      BY <1>9, <3>1
    <3> QED
      BY <3>4, <3>5 DEF Reaches
  <2> QED
    BY <2>2, <2>3
<1> QED
  BY <1>0, <1>1, <1>5, <1>10, <1>11 DEF TabsRight

-----------------------------------------------------------------------------
(* What can be issued *)

\* What the tabs, the pages and the channel between them keep.
KanbanInv == TabsRight(log, board, inq, out, offline)

\* What a page whose board is b issues: about lists and cards it has, after its tips.
Sensible(L, b, off, cmd, of, to, causes) ==
  /\ cmd \in Commands /\ causes \in SUBSET b.operations
  /\ cmd = "board/create" => b.operations = {} /\ off = FALSE
  /\ cmd \in OnColumn \cup OnItem => b.subscribed = TRUE /\ causes = b.tips
  /\ cmd \in OnColumn => of \in b.operations /\ L[of].cmd = "column/create"
  /\ cmd \in OnItem => of \in b.operations /\ L[of].cmd = "item/create"
  /\ cmd = "item/moveTo" => to \in b.operations /\ L[to].cmd = "column/create"

LEMMA SensibleIssuable ==
  ASSUME NEW L, LogRight(L), NEW b, BoardRight(L, b), NEW p, NEW off,
         NEW cmd, NEW of, NEW to, NEW causes, Sensible(L, b, off, cmd, of, to, causes),
         NEW r \in Refs \ DOMAIN L, NEW K, K = Put(L, r, Event(p, cmd, of, to, causes))
  PROVE  Issuable(L, K, p, r, b, off)
<1>1. NewIn(L, K, r) /\ K[r] = Event(p, cmd, of, to, causes)
  BY PutNew
<1>2. K[r].by = p /\ K[r].cmd = cmd /\ K[r].of = of /\ K[r].to = to /\ K[r].causes = causes
  BY <1>1 DEF Event
<1>3. r \in Names \ {0}
  BY KanbanAssumption
<1>4. b.operations \in SUBSET DOMAIN L
  BY DEF BoardRight
<1>5. \A m \in b.operations : m \in DOMAIN K /\ K[m] = L[m]
  BY <1>1, <1>4 DEF NewIn
<1>6. ASSUME cmd \in OnColumn \cup OnItem, NEW m \in b.operations PROVE Precedes(K, m, r)
  <2>1. b.subscribed = TRUE /\ K[r].causes = b.tips
    BY <1>2, <1>6 DEF Sensible
  <2> QED
    BY <1>1, <2>1, TipsPrecede
<1>7. AboutPrior(K, r)
  <2>1. "item/moveTo" \in OnItem
    BY DEF OnItem
  <2> QED
    BY <1>2, <1>5, <1>6, <2>1 DEF AboutPrior, Sensible
<1> QED
  BY <1>1, <1>2, <1>3, <1>7 DEF Issuable, Sensible

LEMMA IssueKeeps ==
  ASSUME KanbanInv, NEW p \in Person, NEW cmd, NEW of, NEW to, NEW causes,
         Issue(p, cmd, of, to, causes),
         Sensible(log, board[p], offline[p], cmd, of, to, causes)
  PROVE  KanbanInv'
<1>1. TabsRight(log, board, inq, out, offline)
  BY DEF KanbanInv
<1>2. DOMAIN board = Person /\ DOMAIN inq = Person /\ DOMAIN out = Person /\ offline[p] \in BOOLEAN
  BY <1>1 DEF TabsRight
<1>3. PICK r \in Refs \ DOMAIN log :
        /\ log' = Put(log, r, Event(p, cmd, of, to, causes))
        /\ board' = [board EXCEPT ![p] = NewEvent(log', p, r, Answered(log', p, r, @))]
        /\ IF offline[p]
           THEN out' = [out EXCEPT ![p] = Append(@, r)] /\ inq' = inq
           ELSE inq' = Broadcast(p, <<r>>) /\ out' = out
        /\ offline' = offline
  BY DEF Issue
<1>4. Issuable(log, log', p, r, board[p], offline[p])
  <2>1. LogRight(log) /\ BoardRight(log, board[p])
    BY <1>1 DEF TabsRight, TabRight
  <2>2. log' = Put(log, r, Event(p, cmd, of, to, causes))
    BY <1>3
  <2> QED
    BY <2>1, <2>2, SensibleIssuable
<1> DEFINE u == NewEvent(log', p, r, Answered(log', p, r, board[p]))
<1>5. board' = [board EXCEPT ![p] = u]
  BY <1>2, <1>3
<1>6. CASE offline[p] = FALSE
  <2>1. out' = out /\ inq' = [x \in Person |-> IF x = p THEN inq[x] ELSE inq[x] \o <<r>>]
    BY <1>3, <1>6 DEF Broadcast
  <2>2. u = NewEvent(log', p, r, Answered(log', p, r, board[p]))
    OBVIOUS
  <2> HIDE DEF u
  <2>3. Sent(inq, inq', p, <<r>>)
    BY <2>1 DEF Sent
  <2>5. inq'[p] = inq[p]
    BY <2>1
  <2>4. TabsRight(log', board', inq', out, offline)
    BY ONLY p \in Person, <1>1, <1>4, <1>5, <1>6, <2>2, <2>3, <2>5, OnlineIssue
  <2> QED
    BY <1>3, <2>1, <2>4 DEF KanbanInv
<1>7. CASE offline[p] = TRUE
  <2>1. out' = [out EXCEPT ![p] = Append(@, r)] /\ inq' = inq
    BY <1>3, <1>7
  <2>2. u = NewEvent(log', p, r, Answered(log', p, r, board[p]))
    OBVIOUS
  <2> HIDE DEF u
  <2>3. TabsRight(log', board', inq, out', offline)
    BY ONLY p \in Person, <1>1, <1>4, <1>5, <1>7, <2>1, <2>2, OfflineIssue
  <2> QED
    BY <1>3, <2>1, <2>3 DEF KanbanInv
<1> QED
  BY <1>2, <1>6, <1>7

\* What a page shows was made by operations it has; so were its tips.
LEMMA ShownStands ==
  ASSUME NEW L, NEW b, BoardRight(L, b), b.subscribed = TRUE
  PROVE  /\ b.tips \in SUBSET b.operations
         /\ \A c \in Lists(b) : c \in b.operations /\ L[c].cmd = "column/create"
         /\ \A i \in Cards(b) : i \in b.operations /\ L[i].cmd = "item/create"
<1> DEFINE N == b.operations
           t == b.timeline
<1>1. /\ Content(L, t, b, N, N) /\ Complete(N, t) /\ b.tips = t.tips
  BY DEF BoardRight, Following, TimelineRight
<1>2. b.tips \in SUBSET N
  BY <1>1 DEF Complete, Ordered, Timelines
<1>3. /\ DOMAIN b.columns = {m \in N : L[m].cmd = "column/create"}
      /\ DOMAIN b.items = {m \in N : L[m].cmd = "item/create"}
  BY <1>1 DEF Content, ListsRight, CardsRight
<1> QED
  BY <1>2, <1>3 DEF Lists, Cards

LEMMA EditsKeep ==
  ASSUME KanbanInv, NEW p \in Person, EditList(p) \/ CreateCard(p) \/ EditCard(p)
  PROVE  KanbanInv'
<1> DEFINE b == board[p]
<1>1. b.subscribed = TRUE /\ LogRight(log) /\ BoardRight(log, b)
  <2>1. LogRight(log) /\ BoardRight(log, b) /\ b.subscribed \in BOOLEAN
    BY DEF KanbanInv, TabsRight, TabRight, BoardRight
  <2> QED
    BY <2>1 DEF EditList, CreateCard, EditCard
<1>2. /\ b.tips \in SUBSET b.operations
      /\ \A c \in Lists(b) : c \in b.operations /\ log[c].cmd = "column/create"
      /\ \A i \in Cards(b) : i \in b.operations /\ log[i].cmd = "item/create"
  BY <1>1, ShownStands
<1> HIDE DEF b
<1>3. ASSUME NEW cmd \in {"column/remove", "column/rename", "item/create"}, NEW c \in Lists(b),
             Issue(p, cmd, c, NoRef, b.tips)
      PROVE  KanbanInv'
  <2>1. Sensible(log, b, offline[p], cmd, c, NoRef, b.tips)
    BY <1>1, <1>2, <1>3 DEF Sensible, Commands, OnColumn, OnItem
  <2> QED
    BY <1>3, <2>1, IssueKeeps DEF b
<1>4. ASSUME Issue(p, "column/create", NoRef, NoRef, b.tips)
      PROVE  KanbanInv'
  <2>1. Sensible(log, b, offline[p], "column/create", NoRef, NoRef, b.tips)
    BY <1>1, <1>2 DEF Sensible, Commands, OnColumn, OnItem, OnBoard
  <2> QED
    BY <1>4, <2>1, IssueKeeps DEF b
<1>5. ASSUME NEW cmd \in OnItem \ {"item/moveTo"}, NEW i \in Cards(b), NEW to,
             Issue(p, cmd, i, to, b.tips)
      PROVE  KanbanInv'
  <2>1. Sensible(log, b, offline[p], cmd, i, to, b.tips)
    BY <1>1, <1>2, <1>5 DEF Sensible, Commands, OnColumn, OnItem
  <2> QED
    BY <1>5, <2>1, IssueKeeps DEF b
<1>6. ASSUME NEW i \in Cards(b), NEW c \in Lists(b), Issue(p, "item/moveTo", i, c, b.tips)
      PROVE  KanbanInv'
  <2>1. Sensible(log, b, offline[p], "item/moveTo", i, c, b.tips)
    BY <1>1, <1>2 DEF Sensible, Commands, OnColumn, OnItem
  <2> QED
    BY <1>6, <2>1, IssueKeeps DEF b
<1>7. CASE EditList(p)
  BY <1>3, <1>4, <1>7 DEF EditList, b
<1>8. CASE CreateCard(p)
  BY <1>3, <1>8 DEF CreateCard, b
<1>9. CASE EditCard(p)
  <2>1. Texts \cup {"item/remove", "item/post"} \subseteq OnItem \ {"item/moveTo"}
    BY KanbanAssumption DEF OnItem
  <2>2. "item/assign" \in OnItem \ {"item/moveTo"} /\ "item/unassign" \in OnItem \ {"item/moveTo"}
    BY DEF OnItem
  <2>3. PICK i \in Cards(b) :
          \/ \E cmd \in Texts \cup {"item/remove", "item/post"} : Issue(p, cmd, i, NoRef, b.tips)
          \/ \E c \in Lists(b) : Issue(p, "item/moveTo", i, c, b.tips)
          \/ \E x \in b.members \cap Assignees :
                Issue(p, IF x \in b.items[i].assignees THEN "item/unassign" ELSE "item/assign",
                      i, x, b.tips)
    BY <1>9 DEF EditCard, b
  <2>4. ASSUME NEW cmd \in Texts \cup {"item/remove", "item/post"}, Issue(p, cmd, i, NoRef, b.tips)
        PROVE  KanbanInv'
    BY <1>5, <2>1, <2>4
  <2>5. ASSUME NEW x, Issue(p, IF x \in b.items[i].assignees THEN "item/unassign" ELSE "item/assign",
                            i, x, b.tips)
        PROVE  KanbanInv'
    <3> DEFINE cmd == IF x \in b.items[i].assignees THEN "item/unassign" ELSE "item/assign"
    <3>1. cmd \in OnItem \ {"item/moveTo"}
      BY <2>2
    <3>2. Issue(p, cmd, i, x, b.tips)
      BY <2>5
    <3> HIDE DEF cmd
    <3> QED
      BY <1>5, <3>1, <3>2
  <2> QED
    BY <1>6, <2>3, <2>4, <2>5
<1> QED
  BY <1>7, <1>8, <1>9

LEMMA PeopleKeep ==
  ASSUME KanbanInv, NEW p \in Person,
         Create(p) \/ Rename(p) \/ Invite(p) \/ Answer(p) \/ LeaveBoard(p)
  PROVE  KanbanInv'
<1> DEFINE b == board[p]
<1>1. /\ LogRight(log) /\ BoardRight(log, b) /\ b.subscribed \in BOOLEAN
      /\ offline[p] \in BOOLEAN
  BY DEF KanbanInv, TabsRight, TabRight, BoardRight
<1>2. b.subscribed = TRUE => b.tips \in SUBSET b.operations
  BY <1>1, ShownStands
<1>3. b.pending \in [Person -> [from : SUBSET b.operations, many : BOOLEAN]]
      /\ b.operations \in SUBSET DOMAIN log
  BY <1>1 DEF BoardRight, PendingRight
<1> HIDE DEF b
<1>4. ASSUME NEW cmd \in {"board/rename", "invite", "leave", "invite/accept", "invite/decline"},
             NEW of, NEW causes \in SUBSET b.operations, Issue(p, cmd, of, NoRef, causes)
      PROVE  KanbanInv'
  <2>1. Sensible(log, b, offline[p], cmd, of, NoRef, causes)
    BY <1>4 DEF Sensible, Commands, OnColumn, OnItem, OnBoard
  <2> QED
    BY <1>4, <2>1, IssueKeeps DEF b
<1>5. CASE Create(p)
  <2>1. Issue(p, "board/create", NoRef, NoRef, {}) /\ log = <<>> /\ ~ offline[p]
    BY <1>5 DEF Create
  <2>2. b.operations = {}
    BY <1>3, <2>1
  <2>3. Sensible(log, b, offline[p], "board/create", NoRef, NoRef, {})
    BY <1>1, <2>1, <2>2 DEF Sensible, Commands, OnColumn, OnItem, OnBoard
  <2> QED
    BY <2>1, <2>3, IssueKeeps DEF b
<1>6. CASE Rename(p)
  <2>1. Issue(p, "board/rename", NoRef, NoRef, b.tips) /\ b.subscribed = TRUE
    BY <1>1, <1>6 DEF Rename, b
  <2> QED
    BY <1>2, <1>4, <2>1
<1>7. CASE Invite(p)
  <2>1. PICK x : Issue(p, "invite", x, NoRef, b.tips)
    BY <1>7 DEF Invite, b
  <2>2. b.subscribed = TRUE
    BY <1>1, <1>7 DEF Invite, b
  <2> QED
    BY <1>2, <1>4, <2>1, <2>2
<1>8. CASE Answer(p)
  <2>1. PICK cmd \in {"invite/accept", "invite/decline"} :
          Issue(p, cmd, NoRef, NoRef, b.pending[p].from)
    BY <1>8 DEF Answer, b
  <2>2. b.pending[p].from \in SUBSET b.operations
    BY <1>3
  <2> QED
    BY <1>4, <2>1, <2>2
<1>9. CASE LeaveBoard(p)
  <2>1. Issue(p, "leave", NoRef, NoRef, b.tips) /\ b.subscribed = TRUE
    BY <1>1, <1>9 DEF LeaveBoard, b
  <2> QED
    BY <1>2, <1>4, <2>1
<1> QED
  BY <1>5, <1>6, <1>7, <1>8, <1>9

LEMMA ReceiveKeeps ==
  ASSUME KanbanInv, NEW p \in Person, Receive(p)
  PROVE  KanbanInv'
<1>1. TabsRight(log, board, inq, out, offline)
  BY DEF KanbanInv
<1>2. DOMAIN board = Person /\ DOMAIN inq = Person
  BY <1>1 DEF TabsRight
<1> DEFINE u == NewEvent(log, p, Head(inq[p]), board[p])
<1>3. /\ inq[p] # <<>> /\ board' = [board EXCEPT ![p] = u]
      /\ inq' = [inq EXCEPT ![p] = Tail(@)]
      /\ log' = log /\ out' = out /\ offline' = offline
  BY <1>2 DEF Receive
<1>4. u = NewEvent(log, p, Head(inq[p]), board[p])
  OBVIOUS
<1> HIDE DEF u
<1>5. TabsRight(log, board', inq', out, offline)
  BY ONLY p \in Person, <1>1, <1>3, <1>4, ReceiveRight
<1> QED
  BY <1>3, <1>5 DEF KanbanInv

LEMMA ToggleKeeps ==
  ASSUME KanbanInv, NEW p \in Person, Toggle(p)
  PROVE  KanbanInv'
<1>1. TabsRight(log, board, inq, out, offline)
  BY DEF KanbanInv
<1>2. /\ DOMAIN board = Person /\ DOMAIN inq = Person /\ DOMAIN out = Person
      /\ offline \in [Person -> BOOLEAN] /\ LogRight(log)
      /\ \A x \in Person : TabRight(log, x, board[x], inq[x], out[x], offline[x])
      /\ \A x, y \in Person : Reaches(log, board, inq, out, x, y)
  BY <1>1 DEF TabsRight
<1>3. log' = log /\ offline' = [offline EXCEPT ![p] = ~ @]
  BY DEF Toggle
<1>4. offline' \in [Person -> BOOLEAN] /\ \A x \in Person : x # p => offline'[x] = offline[x]
  BY <1>2, <1>3
<1>5. CASE offline[p]
  <2> DEFINE u == NewEvents(log, p, board[p], inq[p] \o out[p])
  <2>1. /\ board' = [board EXCEPT ![p] = u]
        /\ inq' = [Broadcast(p, out[p]) EXCEPT ![p] = <<>>]
        /\ out' = [out EXCEPT ![p] = <<>>]
    BY <1>2, <1>5 DEF Toggle
  <2>2. u = NewEvents(log, p, board[p], inq[p] \o out[p])
    OBVIOUS
  <2> HIDE DEF u
  <2>3. Sent(inq, inq', p, out[p])
    BY <2>1 DEF Sent, Broadcast
  <2>4. inq'[p] = <<>>
    BY <2>1 DEF Broadcast
  <2>5. board' = [board EXCEPT ![p] = u]
    BY <2>1
  <2>6. out' = [out EXCEPT ![p] = <<>>]
    BY <2>1
  <2>7. Switched(offline, offline', p)
    BY <1>4 DEF Switched
  <2>9. TabsRight(log, board', inq', out', offline')
    BY ONLY p \in Person, <1>1, <2>2, <2>3, <2>4, <2>5, <2>6, <2>7, OnlineAgain
  <2> QED
    BY <1>3, <2>9 DEF KanbanInv
<1>6. CASE ~ offline[p]
  <2>1. board' = board /\ inq' = inq /\ out' = out
    BY <1>6 DEF Toggle
  <2>2. ASSUME NEW x \in Person PROVE TabRight(log, x, board[x], inq[x], out[x], offline'[x])
    <3>1. TabRight(log, x, board[x], inq[x], out[x], offline[x])
      BY <1>2
    <3>2. x = p => offline[x] = FALSE
      BY <1>2, <1>6
    <3> QED
      BY <1>4, <3>1, <3>2 DEF TabRight
  <2>3. TabsRight(log, board, inq, out, offline')
    BY <1>2, <1>4, <2>2 DEF TabsRight
  <2> QED
    BY <1>3, <2>1, <2>3 DEF KanbanInv
<1> QED
  BY <1>5, <1>6

LEMMA StepKeeps ==
  ASSUME KanbanInv, [Next]_vars
  PROVE  KanbanInv'
<1>1. CASE UNCHANGED vars
  BY <1>1 DEF vars, KanbanInv
<1>2. ASSUME NEW p \in Person,
             \/ Create(p) \/ Rename(p) \/ EditList(p) \/ CreateCard(p) \/ EditCard(p)
             \/ Invite(p) \/ Answer(p) \/ LeaveBoard(p)
             \/ Receive(p) \/ (p \in Offliners /\ Toggle(p))
      PROVE  KanbanInv'
  BY <1>2, EditsKeep, PeopleKeep, ReceiveKeeps, ToggleKeeps
<1>3. CASE Next
  <2>1. PICK p \in Person :
             \/ Create(p) \/ Rename(p) \/ EditList(p) \/ CreateCard(p) \/ EditCard(p)
             \/ Invite(p) \/ Answer(p) \/ LeaveBoard(p)
             \/ Receive(p) \/ (p \in Offliners /\ Toggle(p))
    BY <1>3 DEF Next
  <2> QED
    BY <1>2, <2>1
<1> QED
  BY <1>1, <1>3

-----------------------------------------------------------------------------
(* The start *)

LEMMA StartOfRun ==
  ASSUME NEW ev, NEW p, NEW queue, Len(queue) \in Nat
  PROVE  \E f :
           /\ f[0] = NoBoard
           /\ \A k \in 1 .. Len(queue) :
                f[k] = NewEvent(ev, p, queue[k], Answered(ev, p, queue[k], f[k - 1]))
           /\ StartOf(ev, p, queue) = f[Len(queue)]
<1> DEFINE l == Len(queue)
           loop == [kind |-> "start", ev |-> ev, p |-> p, queue |-> queue]
           Turn(x, k) == NewEvent(ev, p, queue[k], Answered(ev, p, queue[k], x))
           f == CHOOSE f : f = [k \in 0 .. l |-> IF k = 0 THEN NoBoard ELSE Turn(f[k - 1], k)]
<1>1. StartOf(ev, p, queue) = f[l]
  BY DEF StartOf
<1>2. \A x, k : Round(loop, x, k) = Turn(x, k)
  BY DEF Round
<1> HIDE DEF Turn, l, loop
<1>3. PICK g : IsRun(g, loop, NoBoard, l)
  BY RunExists DEF l
<1>4. g = [k \in 0 .. l |-> IF k = 0 THEN NoBoard ELSE Turn(g[k - 1], k)]
  BY <1>2, <1>3 DEF IsRun
<1>5. f = [k \in 0 .. l |-> IF k = 0 THEN NoBoard ELSE Turn(f[k - 1], k)]
  BY <1>4
<1> HIDE DEF f
<1>6. l \in Nat
  BY DEF l
<1>7. f[0] = NoBoard /\ \A k \in 1 .. l : f[k] = Turn(f[k - 1], k)
  BY <1>5, <1>6
<1> QED
  BY <1>1, <1>7 DEF Turn, l

\* What the assumption says of one start.
Sound(L, q) ==
  /\ DOMAIN L \subseteq Names \ {0}
  /\ \A r \in DOMAIN L : L[r].cmd \in Commands /\ AboutPrior(L, r)
  /\ Deliverable(L, {}, q) /\ Range(q) = DOMAIN L
  /\ \A i \in 2 .. Len(q) : L[q[i]].cmd # "board/create"

LEMMA SoundLog ==
  ASSUME NEW L, NEW q, Sound(L, q)
  PROVE  LogRight(L)
<1>1. /\ DOMAIN L \in SUBSET (Names \ {0}) /\ Range(q) = DOMAIN L /\ q \in Seq(DOMAIN L)
      /\ \A r \in DOMAIN L : L[r].cmd \in Commands /\ AboutPrior(L, r)
      /\ \A i \in 1 .. Len(q) : L[q[i]].causes \subseteq Ahead(q, i)
  BY DEF Sound, Deliverable
<1> DEFINE l == Len(q)
<1>2. l \in Nat /\ \A i \in 1 .. l : q[i] \in DOMAIN L
  BY <1>1
<1>3. \A x \in DOMAIN L : \E i \in 1 .. l : x = q[i]
  BY <1>1, Elements
<1> HIDE DEF l
<1> DEFINE Spots(x) == {i \in 1 .. l : q[i] = x}
           First(x) == CHOOSE m \in Spots(x) : \A i \in Spots(x) : m <= i
           g == [x \in Names |-> IF x \in DOMAIN L THEN First(x) ELSE 0]
           after == [r \in DOMAIN L |-> L[r].causes]
<1>4. ASSUME NEW x \in DOMAIN L
      PROVE  g[x] \in 1 .. l /\ q[g[x]] = x /\ \A i \in 1 .. l : q[i] = x => g[x] <= i
  <2>1. Spots(x) \in SUBSET Nat /\ Spots(x) # {}
    BY <1>2, <1>3
  <2>2. \E m \in Spots(x) : \A i \in Spots(x) : m <= i
    <3> HIDE DEF Spots
    <3> QED
      BY <2>1, LeastNatural
  <2>3. First(x) \in Spots(x) /\ \A i \in Spots(x) : First(x) <= i
    <3> HIDE DEF Spots
    <3> QED
      BY <2>2
  <2>4. g[x] = First(x)
    BY <1>1
  <2> HIDE DEF First, g
  <2> QED
    BY <2>3, <2>4
<1>5. \A x \in Names : g[x] \in 0 .. l
  <2>1. ASSUME NEW x \in Names, x \notin DOMAIN L PROVE g[x] = 0
    BY <2>1
  <2> HIDE DEF g
  <2> QED
    BY <1>2, <1>4, <2>1
<1>6. g \in [Names -> Nat]
  <2>1. g = [x \in Names |-> g[x]]
    OBVIOUS
  <2> HIDE DEF g
  <2> QED
    BY <1>2, <1>5, <2>1
<1> HIDE DEF g, First, Spots
<1>7. ASSUME NEW m \in DOMAIN L, NEW c \in L[m].causes PROVE c \in DOMAIN L /\ g[c] < g[m]
  <2>1. g[m] \in 1 .. l /\ q[g[m]] = m
    BY <1>4
  <2>2. c \in Ahead(q, g[m])
    BY <1>1, <2>1 DEF l
  <2>3. PICK j \in 1 .. (g[m] - 1) : c = q[j]
    BY <2>2 DEF Ahead
  <2>4. j \in 1 .. l
    BY <1>2, <2>1
  <2>5. c \in DOMAIN L
    BY <1>2, <2>3, <2>4
  <2>6. g[c] \in 1 .. l /\ g[c] <= j
    BY <1>4, <2>3, <2>4, <2>5
  <2> QED
    BY <1>2, <2>1, <2>5, <2>6
<1>8. Numbers(DOMAIN L, after, g, l + 1)
  <2>1. \A x \in Names : g[x] < l + 1
    BY <1>2, <1>5
  <2>2. \A m \in DOMAIN L : \A c \in Names : c \in after[m] => g[c] < g[m]
    BY <1>7
  <2>3. l + 1 \in Nat
    BY <1>2
  <2> HIDE DEF after
  <2> QED
    BY <1>6, <2>1, <2>2, <2>3 DEF Numbers
<1>9. Acyclic(DOMAIN L, [r \in DOMAIN L |-> L[r].causes])
  BY <1>8 DEF Acyclic
<1> QED
  BY <1>1, <1>7, <1>9 DEF LogRight

LEMMA StartRight ==
  ASSUME NEW L, NEW q, Sound(L, q), NEW p \in Person, NEW u, u = StartOf(L, p, q)
  PROVE  BoardRight(L, u) /\ u.operations = Range(q)
<1>0. LogRight(L)
  BY SoundLog
<1>1. /\ q \in Seq(DOMAIN L)
      /\ \A i \in 1 .. Len(q) : L[q[i]].causes \subseteq Ahead(q, i)
      /\ \A i \in 2 .. Len(q) : L[q[i]].cmd # "board/create"
  BY DEF Sound, Deliverable
<1> DEFINE l == Len(q)
<1>2. l \in Nat /\ \A i \in 1 .. l : q[i] \in DOMAIN L
  BY <1>1
<1>3. \A x : x \in Range(q) <=> \E i \in 1 .. l : x = q[i]
  BY ONLY <1>1, Elements
<1>4. PICK f : /\ f[0] = NoBoard
               /\ \A k \in 1 .. l : f[k] = NewEvent(L, p, q[k], Answered(L, p, q[k], f[k - 1]))
               /\ StartOf(L, p, q) = f[l]
  BY <1>2, StartOfRun
<1> HIDE DEF l
<1> DEFINE Good(k) == BoardRight(L, f[k]) /\ f[k].operations = Ahead(q, k + 1)
<1>5. Good(0)
  <2>1. Ahead(q, 0 + 1) = {}
    BY DEF Ahead
  <2>2. NoBoard.operations = {}
    BY DEF NoBoard
  <2> QED
    BY <1>4, <2>1, <2>2, NoBoardRight
<1>6. ASSUME NEW k \in 1 .. l, Good(k - 1) PROVE Good(k)
  <2> DEFINE r == q[k]
             x == f[k - 1]
             c == Answered(L, p, r, x)
  <2>1. BoardRight(L, x) /\ x.operations = Ahead(q, k)
    <3>1. (k - 1) + 1 = k
      BY <1>2
    <3> QED
      BY <1>6, <3>1
  <2>2. r \in DOMAIN L /\ f[k] = NewEvent(L, p, r, c) /\ L[r].causes \subseteq x.operations
    BY <1>1, <1>2, <1>4, <2>1 DEF l
  <2>3. L[r].cmd = "board/create" => x.operations = {}
    <3>1. ASSUME L[r].cmd = "board/create" PROVE k = 1
      BY <1>1, <1>2, <3>1 DEF l
    <3>2. Ahead(q, 1) = {}
      BY DEF Ahead
    <3> HIDE DEF x, r
    <3> QED
      BY <2>1, <3>1, <3>2
  <2>4. c = Answered(L, p, r, x)
    OBVIOUS
  <2> HIDE DEF c, x, r
  <2>5. BoardRight(L, c) /\ c.operations = x.operations
    BY <2>1, <2>4, AnsweredRight
  <2>6. Ready(L, p, r, c)
    BY <2>2, <2>3, <2>5 DEF Ready
  <2>7. Took(L, c, r, f[k])
    <3>1. f[k] = NewEvent(L, p, r, c) /\ r \in DOMAIN L
      BY <2>2
    <3>2. BoardRight(L, c)
      BY <2>5
    <3> QED
      BY <1>0, <2>6, <3>1, <3>2, NewEventKeeps
  <2>8. Ahead(q, k + 1) = Ahead(q, k) \cup {r}
    <3>1. \A j \in 1 .. ((k + 1) - 1) : j = k \/ j \in 1 .. (k - 1)
      BY <1>2
    <3>2. k \in 1 .. ((k + 1) - 1) /\ \A j \in 1 .. (k - 1) : j \in 1 .. ((k + 1) - 1)
      BY <1>2
    <3> QED
      BY <3>1, <3>2 DEF Ahead, r
  <2> QED
    BY <2>1, <2>5, <2>7, <2>8 DEF Took
<1>7. Good(l)
  <2> HIDE DEF Good
  <2> SUFFICES ASSUME ~ Good(l) PROVE FALSE
    OBVIOUS
  <2> DEFINE T == {k \in 0 .. l : ~ Good(k)}
  <2>1. T \in SUBSET Nat /\ l \in T
    BY <1>2
  <2>2. PICK k \in T : \A j \in T : k <= j
    <3> HIDE DEF T
    <3> QED
      BY <2>1, LeastNatural
  <2>3. k \in 1 .. l /\ ~ Good(k)
    BY <1>2, <1>5, <2>2
  <2>4. Good(k - 1)
    BY <1>2, <2>2, <2>3
  <2> QED
    BY <1>6, <2>3, <2>4
<1>8. Ahead(q, l + 1) = Range(q)
  <2>1. (l + 1) - 1 = l
    BY <1>2
  <2> QED
    BY <1>3, <2>1 DEF Ahead
<1> QED
  BY <1>4, <1>7, <1>8 DEF Good

LEMMA InitRight ==
  Init => KanbanInv
<1> SUFFICES ASSUME Init PROVE TabsRight(log, board, inq, out, offline)
  BY DEF KanbanInv
<1>1. PICK s \in Starts :
        /\ log = s.events
        /\ board = [p \in Person |-> StartOf(log, p, s.order)]
        /\ inq = [p \in Person |-> <<>>]
        /\ out = [p \in Person |-> <<>>]
        /\ offline = [p \in Person |-> FALSE]
  BY DEF Init
<1> DEFINE q == s.order
<1>2. Sound(log, q)
  BY <1>1, StartsAssumption DEF Sound
<1>3. board = [p \in Person |-> StartOf(log, p, q)]
  BY <1>1
<1> HIDE DEF q
<1>4. LogRight(log)
  BY <1>2, SoundLog
<1>5. ASSUME NEW p \in Person PROVE BoardRight(log, board[p]) /\ board[p].operations = Range(q)
  <2>1. board[p] = StartOf(log, p, q)
    BY <1>3
  <2> QED
    BY <1>2, <2>1, StartRight
<1>6. \A A : Deliverable(log, A, <<>>) /\ Range(<<>>) = {}
  BY ChainEmpty
<1>7. \A p \in Person : inq[p] = <<>> /\ out[p] = <<>>
  BY <1>1
<1>8. ASSUME NEW p \in Person PROVE TabRight(log, p, board[p], inq[p], out[p], offline[p])
  BY <1>5, <1>6, <1>7 DEF TabRight, Foreign, NoCreation
<1>9. ASSUME NEW x \in Person, NEW y \in Person PROVE Reaches(log, board, inq, out, x, y)
  BY <1>5, <1>6, <1>7 DEF Reaches, Seen
<1>10. DOMAIN board = Person /\ DOMAIN inq = Person /\ DOMAIN out = Person
       /\ offline \in [Person -> BOOLEAN]
  BY <1>1
<1> QED
  BY <1>4, <1>8, <1>9, <1>10 DEF TabsRight

\* The log, each page and the channels stay right: every event names causes that were
\* issued before, every page shows what its operations say, and every queue brings
\* the causes of an event before it (board.js:233-377, virtual-backend.js).
THEOREM KanbanKept == Spec => []KanbanInv
<1>1. Init => KanbanInv
  BY InitRight
<1>2. KanbanInv /\ [Next]_vars => KanbanInv'
  BY StepKeeps
<1> QED
  BY <1>1, <1>2, PTL DEF Spec

-----------------------------------------------------------------------------
(* What the operations say is one thing *)

LEMMA ListedPrefix ==
  ASSUME NEW t, NEW W, \A w \in W : t.indx[w] \in Nat,
         NEW s, Listed(t, W, s), NEW q, Listed(t, W, q)
  PROVE  \A i \in 1 .. Len(q) : i <= Len(s) /\ s[i] = q[i]
<1>1. /\ s \in Seq(W) /\ q \in Seq(W)
      /\ \A w \in W : (\E k \in 1 .. Len(s) : s[k] = w) /\ (\E k \in 1 .. Len(q) : q[k] = w)
      /\ \A j, k \in 1 .. Len(s) : j < k => t.indx[s[j]] < t.indx[s[k]]
      /\ \A j, k \in 1 .. Len(q) : j < k => t.indx[q[j]] < t.indx[q[k]]
  BY DEF Listed
<1> DEFINE l == Len(s)
           m == Len(q)
           T == {i \in 1 .. m : ~ (i <= l /\ s[i] = q[i])}
<1>2. /\ l \in Nat /\ m \in Nat
      /\ \A i \in 1 .. l : s[i] \in W
      /\ \A i \in 1 .. m : q[i] \in W
  <2>1. s \in Seq(W) /\ q \in Seq(W)
    BY <1>1
  <2>2. l \in Nat /\ \A i \in 1 .. l : s[i] \in W
    BY ONLY <2>1
  <2>3. m \in Nat /\ \A i \in 1 .. m : q[i] \in W
    BY ONLY <2>1
  <2> QED
    BY <2>2, <2>3
<1>3. /\ \A w \in W : (\E k \in 1 .. l : s[k] = w) /\ (\E k \in 1 .. m : q[k] = w)
      /\ \A j, k \in 1 .. l : j < k => t.indx[s[j]] < t.indx[s[k]]
      /\ \A j, k \in 1 .. m : j < k => t.indx[q[j]] < t.indx[q[k]]
  BY <1>1
<1> SUFFICES ASSUME T # {} PROVE FALSE
  OBVIOUS
<1> HIDE DEF l, m
<1>4. T \in SUBSET Nat
  BY <1>2
<1>5. PICK i \in T : \A j \in T : i <= j
  <2> HIDE DEF T
  <2> QED
    BY <1>4, LeastNatural
<1>6. i \in 1 .. m /\ ~ (i <= l /\ s[i] = q[i])
  OBVIOUS
<1>7. \A j \in 1 .. m : j < i => j <= l /\ s[j] = q[j]
  BY <1>2, <1>5, <1>6
<1> HIDE DEF T
<1> DEFINE a == q[i]
<1>8. a \in W /\ t.indx[a] \in Nat
  BY <1>2, <1>6
<1>9. PICK k \in 1 .. l : s[k] = a
  BY <1>3, <1>8
<1>10. ~ (k < i)
  <2> SUFFICES ASSUME k < i PROVE FALSE
    OBVIOUS
  <2>1. k \in 1 .. m
    BY <1>2, <1>6, <1>9
  <2>2. q[k] = a
    BY <1>7, <1>9, <2>1
  <2>3. t.indx[q[k]] < t.indx[a]
    BY <1>3, <1>6, <2>1
  <2> QED
    BY <1>8, <2>2, <2>3
<1>11. k # i
  BY <1>2, <1>6, <1>9
<1>12. i \in 1 .. l /\ i < k
  BY <1>2, <1>6, <1>9, <1>10, <1>11
<1> DEFINE c == s[i]
<1>13. c \in W /\ t.indx[c] \in Nat /\ t.indx[c] < t.indx[a]
  BY <1>2, <1>3, <1>9, <1>12
<1>14. PICK n \in 1 .. m : q[n] = c
  BY <1>3, <1>13
<1>15. CASE n < i
  <2>1. n <= l /\ s[n] = c
    BY <1>7, <1>14, <1>15
  <2>2. n \in 1 .. l
    BY <1>2, <1>14, <2>1
  <2>3. t.indx[s[n]] < t.indx[c]
    BY <1>3, <1>12, <1>15, <2>2
  <2> QED
    BY <1>13, <2>1, <2>3
<1>16. CASE n = i
  BY <1>8, <1>13, <1>14, <1>16
<1>17. CASE i < n
  <2>1. t.indx[a] < t.indx[q[n]]
    BY <1>3, <1>6, <1>14, <1>17
  <2> QED
    BY <1>8, <1>13, <1>14, <2>1
<1> QED
  BY <1>2, <1>6, <1>14, <1>15, <1>16, <1>17

LEMMA ListedOnce ==
  ASSUME NEW t, NEW W, \A w \in W : t.indx[w] \in Nat,
         NEW s, Listed(t, W, s), NEW q, Listed(t, W, q)
  PROVE  s = q
<1>0. \A w \in W : t.indx[w] \in Nat
  OBVIOUS
<1>5. \A i \in 1 .. Len(q) : i <= Len(s) /\ s[i] = q[i]
  <2>1. Listed(t, W, s) /\ Listed(t, W, q)
    OBVIOUS
  <2> QED
    BY ONLY <1>0, <2>1, ListedPrefix
<1>6. \A i \in 1 .. Len(s) : i <= Len(q) /\ q[i] = s[i]
  <2>1. Listed(t, W, s) /\ Listed(t, W, q)
    OBVIOUS
  <2> QED
    BY ONLY <1>0, <2>1, ListedPrefix
<1>1. /\ \A i \in 1 .. Len(q) : i <= Len(s) /\ s[i] = q[i]
      /\ \A i \in 1 .. Len(s) : i <= Len(q) /\ q[i] = s[i]
  BY <1>5, <1>6
<1>2. s \in Seq(W) /\ q \in Seq(W)
  BY DEF Listed
<1>3. Len(s) \in Nat /\ Len(q) \in Nat
  BY <1>2
<1>4. Len(s) = Len(q)
  <2>1. Len(q) <= Len(s)
    <3>1. Len(q) = 0 \/ Len(q) \in 1 .. Len(q)
      BY <1>3
    <3> QED
      BY <1>1, <1>3, <3>1
  <2>2. Len(s) <= Len(q)
    <3>1. Len(s) = 0 \/ Len(s) \in 1 .. Len(s)
      BY <1>3
    <3> QED
      BY <1>1, <1>3, <3>1
  <2> QED
    BY <1>3, <2>1, <2>2
<1> QED
  BY <1>1, <1>2, <1>4

LEMMA LatestOnce ==
  ASSUME NEW t, NEW N, \A a, b \in N : t.indx[a] \in Nat /\ (t.indx[a] = t.indx[b] => a = b),
         NEW W \in SUBSET N, NEW x, Latest(t, W, x), NEW y, Latest(t, W, y)
  PROVE  x = y
<1>1. x \in N /\ y \in N /\ t.indx[x] <= t.indx[y] /\ t.indx[y] <= t.indx[x]
  BY DEF Latest
<1> QED
  BY <1>1

LEMMA WrittenOnce ==
  ASSUME NEW t, NEW N, \A a, b \in N : t.indx[a] \in Nat /\ (t.indx[a] = t.indx[b] => a = b),
         NEW W \in SUBSET N, NEW x, Written(t, W, x), NEW y, Written(t, W, y)
  PROVE  x = y
<1>1. CASE W = {}
  BY <1>1 DEF Written
<1>2. CASE W # {}
  BY <1>2, LatestOnce DEF Written
<1> QED
  BY <1>1, <1>2

LEMMA SameCard ==
  ASSUME NEW L, NEW t, NEW N, NEW i \in N,
         \A a, b \in N : t.indx[a] \in Nat /\ (t.indx[a] = t.indx[b] => a = b),
         NEW x, ItemShows(L, t, i, x, N), NEW y, ItemShows(L, t, i, y, N)
  PROVE  \A f \in {"name", "column", "description", "color", "assignees", "comments"} : x[f] = y[f]
<1>1. \A cmds : About(L, N, cmds, i) \in SUBSET N /\ ({i} \cup About(L, N, cmds, i)) \in SUBSET N
  BY DEF About
<1>2. x.name = y.name
  <2> DEFINE W == {i} \cup About(L, N, {"item/rename"}, i)
  <2>1. W \in SUBSET N
    BY <1>1
  <2>2. Latest(t, W, x.name) /\ Latest(t, W, y.name)
    BY DEF ItemShows
  <2> HIDE DEF W
  <2> QED
    BY <2>1, <2>2, LatestOnce
<1>3. x.description = y.description
  <2> DEFINE W == About(L, N, {"item/setDescription"}, i)
  <2>1. W \in SUBSET N
    BY <1>1
  <2>2. Written(t, W, x.description) /\ Written(t, W, y.description)
    BY DEF ItemShows
  <2> HIDE DEF W
  <2> QED
    BY <2>1, <2>2, WrittenOnce
<1>4. x.color = y.color
  <2> DEFINE W == About(L, N, {"item/color"}, i)
  <2>1. W \in SUBSET N
    BY <1>1
  <2>2. Written(t, W, x.color) /\ Written(t, W, y.color)
    BY DEF ItemShows
  <2> HIDE DEF W
  <2> QED
    BY <2>1, <2>2, WrittenOnce
<1>5. x.column = y.column
  <2> DEFINE W == {i} \cup About(L, N, {"item/moveTo"}, i)
  <2>1. W \in SUBSET N
    BY <1>1
  <2>2. PICK m : Latest(t, W, m) /\ x.column = Place(L, i, m)
    BY DEF ItemShows
  <2>3. PICK n : Latest(t, W, n) /\ y.column = Place(L, i, n)
    BY DEF ItemShows
  <2> HIDE DEF W
  <2>4. m = n
    BY <2>1, <2>2, <2>3, LatestOnce
  <2> QED
    BY <2>2, <2>3, <2>4
<1>6. x.assignees = y.assignees
  <2>1. \A a : a \in x.assignees <=> a \in y.assignees
    BY DEF ItemShows
  <2> QED
    BY <2>1
<1>7. x.comments = y.comments
  <2> DEFINE W == About(L, N, {"item/post"}, i)
  <2>1. \A w \in W : t.indx[w] \in Nat
    BY <1>1
  <2>2. Listed(t, W, x.comments) /\ Listed(t, W, y.comments)
    BY DEF ItemShows
  <2> HIDE DEF W
  <2> QED
    BY <2>1, <2>2, ListedOnce
<1> QED
  BY <1>2, <1>3, <1>4, <1>5, <1>6, <1>7

LEMMA SameCards ==
  ASSUME NEW L, NEW N, NEW b, Following(L, b, N), NEW d, Following(L, d, N)
  PROVE  Shown(b) = Shown(d)
<1> DEFINE t == b.timeline
           u == d.timeline
<1>1. /\ TimelineRight(L, t, N) /\ TimelineRight(L, u, N)
      /\ Content(L, t, b, N, N) /\ Content(L, u, d, N, N)
  BY DEF Following
<1> HIDE DEF t, u
<1>2. /\ t \in Timelines(N) /\ u \in Timelines(N) /\ Placement(t) /\ N \in SUBSET Names
      /\ \A m \in N : t.after[m] = L[m].causes /\ u.after[m] = L[m].causes
      /\ Complete(N, t) /\ Complete(N, u) /\ Acyclic(N, t.after) /\ Acyclic(N, u.after)
  BY <1>1 DEF TimelineRight, Complete, Ordered
<1>3. t.after = u.after /\ Nodes(t) = N /\ Nodes(u) = N
  <2>1. t.after \in [N -> SUBSET Names] /\ u.after \in [N -> SUBSET Names]
        /\ t.rank \in [N -> Nat] /\ u.rank \in [N -> Nat]
    BY <1>2 DEF Timelines
  <2> QED
    BY <1>2, <2>1 DEF Nodes
<1>4. t.indx = u.indx
  <2>1. WellKept(t) /\ WellKept(u)
    BY <1>2, <1>3 DEF WellKept
  <2> QED
    BY <1>3, <2>1, SameGraph
<1>5. \A x, y \in N : t.indx[x] \in Nat /\ (t.indx[x] = t.indx[y] => x = y)
  BY <1>2, Places
<1>6. \A W, m : Latest(u, W, m) <=> Latest(t, W, m)
  BY <1>4 DEF Latest
<1>7. /\ ListsRight(L, t, b.columns, N, N) /\ CardsRight(L, t, b.items, N, N)
      /\ ListsRight(L, u, d.columns, N, N) /\ CardsRight(L, u, d.items, N, N)
  BY <1>1 DEF Content
<1>8. /\ DOMAIN b.columns = DOMAIN d.columns
      /\ \A c \in DOMAIN b.columns :
           /\ c \in N /\ b.columns[c].removed = d.columns[c].removed
           /\ ~ b.columns[c].removed => b.columns[c].name = d.columns[c].name
  <2>1. DOMAIN b.columns = DOMAIN d.columns /\ DOMAIN b.columns \in SUBSET N
    BY <1>7 DEF ListsRight
  <2>2. ASSUME NEW c \in DOMAIN b.columns
        PROVE  /\ c \in N /\ b.columns[c].removed = d.columns[c].removed
               /\ ~ b.columns[c].removed => b.columns[c].name = d.columns[c].name
    <3> DEFINE x == b.columns[c]
               y == d.columns[c]
               W == {c} \cup About(L, N, {"column/rename"}, c)
    <3>1. ColumnRight(L, t, c, x, N, N) /\ ColumnRight(L, u, c, y, N, N) /\ c \in N
      BY <1>7, <2>1, <2>2 DEF ListsRight
    <3> HIDE DEF x, y
    <3>2. x.removed = y.removed
      BY <3>1 DEF ColumnRight
    <3>3. ASSUME ~ x.removed PROVE x.name = y.name
      <4>1. Latest(t, W, x.name) /\ Latest(t, W, y.name)
        BY <1>6, <3>1, <3>2, <3>3 DEF ColumnRight
      <4>2. W \in SUBSET N
        BY <3>1 DEF About
      <4> HIDE DEF W
      <4> QED
        BY <1>5, <4>1, <4>2, LatestOnce
    <3> QED
      BY <3>1, <3>2, <3>3 DEF x, y
  <2> QED
    BY <2>1, <2>2
<1>9. Lists(b) = Lists(d) /\ \A c \in Lists(b) : b.columns[c].name = d.columns[c].name
  BY <1>8 DEF Lists
<1> DEFINE F == {"name", "column", "description", "color", "assignees", "comments"}
<1>10. /\ DOMAIN b.items = DOMAIN d.items
       /\ \A i \in DOMAIN b.items :
           /\ b.items[i].removed = d.items[i].removed
           /\ ~ b.items[i].removed => \A f \in F : b.items[i][f] = d.items[i][f]
  <2>1. DOMAIN b.items = DOMAIN d.items /\ DOMAIN b.items \in SUBSET N
    BY <1>7 DEF CardsRight
  <2>2. ASSUME NEW i \in DOMAIN b.items
        PROVE  /\ b.items[i].removed = d.items[i].removed
               /\ ~ b.items[i].removed => \A f \in F : b.items[i][f] = d.items[i][f]
    <3> DEFINE x == b.items[i]
               y == d.items[i]
    <3>1. ItemRight(L, t, i, x, N, N) /\ ItemRight(L, u, i, y, N, N) /\ i \in N
      BY <1>7, <2>1, <2>2 DEF CardsRight
    <3> HIDE DEF x, y
    <3>2. x.removed = y.removed
      BY <3>1 DEF ItemRight
    <3>3. ASSUME ~ x.removed PROVE \A f \in F : x[f] = y[f]
      <4>1. ItemShows(L, t, i, x, N) /\ ItemShows(L, u, i, y, N)
        BY <3>1, <3>2, <3>3 DEF ItemRight
      <4>2. ItemShows(L, t, i, y, N)
        <5>1. \A W, v : Written(u, W, v) <=> Written(t, W, v)
          BY <1>6 DEF Written
        <5>2. \A W, v : Listed(u, W, v) <=> Listed(t, W, v)
          BY <1>4 DEF Listed
        <5> QED
          BY <1>6, <4>1, <5>1, <5>2 DEF ItemShows
      <4> QED
        BY <1>5, <3>1, <4>1, <4>2, SameCard
    <3> QED
      BY <3>2, <3>3 DEF x, y
  <2> QED
    BY <2>1, <2>2
<1>11. Cards(b) = Cards(d) /\ \A i \in Cards(b) : \A f \in F : b.items[i][f] = d.items[i][f]
  <2>1. "column" \in F
    OBVIOUS
  <2> HIDE DEF F
  <2> QED
    BY <1>9, <1>10, <2>1 DEF Cards
<1>12. [c \in Lists(b) |-> b.columns[c].name] = [c \in Lists(d) |-> d.columns[c].name]
  BY <1>9
<1>13. [i \in Cards(b) |-> [f \in F |-> b.items[i][f]]] = [i \in Cards(d) |-> [f \in F |-> d.items[i][f]]]
  <2> HIDE DEF F
  <2>1. \A i \in Cards(b) : [f \in F |-> b.items[i][f]] = [f \in F |-> d.items[i][f]]
    BY <1>11
  <2> QED
    BY <1>11, <2>1
<1> QED
  BY <1>12, <1>13 DEF Shown

\* Two pages that follow the board and hold the same operations show the same lists
\* and cards, however each of them came to apply them (board.js:299-312, 386-401).
THEOREM SameOperationsShowTheSame == Spec => []SameOperationsSameCards
<1>1. ASSUME KanbanInv PROVE SameOperationsSameCards
  <2> SUFFICES ASSUME NEW p \in Person, NEW q \in Person,
                      board[p].subscribed, board[q].subscribed,
                      board[p].operations = board[q].operations
               PROVE  Shown(board[p]) = Shown(board[q])
    BY DEF SameOperationsSameCards
  <2>1. BoardRight(log, board[p]) /\ BoardRight(log, board[q])
    BY <1>1 DEF KanbanInv, TabsRight, TabRight
  <2>2. board[p].subscribed = TRUE /\ board[q].subscribed = TRUE
    BY <2>1 DEF BoardRight
  <2>3. Following(log, board[p], board[p].operations) /\ Following(log, board[q], board[p].operations)
    BY <2>1, <2>2 DEF BoardRight
  <2> QED
    BY <2>3, SameCards
<1> QED
  BY <1>1, KanbanKept, PTL

\* Who a page counts as a member created the board or accepted, and has not left
\* since (board.js:677-751).
THEOREM MembersHaveAnswered == Spec => []MembersStand
<1>1. ASSUME KanbanInv PROVE MembersStand
  <2> SUFFICES ASSUME NEW p \in Person, board[p].subscribed, NEW x \in board[p].members
               PROVE  \E r \in {m \in board[p].operations : log[m].by = x /\
                                  log[m].cmd \in {"board/create", "invite/accept", "leave"}} :
                        /\ log[r].cmd # "leave"
                        /\ \A s \in {m \in board[p].operations : log[m].by = x /\
                                  log[m].cmd \in {"board/create", "invite/accept", "leave"}} :
                              board[p].timeline.indx[s] <= board[p].timeline.indx[r]
    BY DEF MembersStand
  <2>1. BoardRight(log, board[p])
    BY <1>1 DEF KanbanInv, TabsRight, TabRight
  <2>2. Following(log, board[p], board[p].operations)
    BY <2>1 DEF BoardRight
  <2>3. Stands(log, board[p].timeline, board[p].operations, x)
    BY <2>2 DEF Following, MembersFrom
  <2> QED
    BY <2>3 DEF Stands, Latest, Answering
<1> QED
  BY <1>1, KanbanKept, PTL

-----------------------------------------------------------------------------
(* Somebody's own edit *)

\* The events that the page of somebody who follows the board sorts in.
Edited == Commands \ {"board/create", "invite/accept", "invite/decline", "leave"}

\* What the page whose board was b issues as r, in the log K after L.
OwnEdit(L, K, p, r, b, off) ==
  /\ LogRight(L) /\ BoardRight(L, b) /\ b.subscribed = TRUE /\ Issuable(L, K, p, r, b, off)
  /\ K[r].causes = b.tips /\ K[r].cmd \in Edited

LEMMA OwnSorted ==
  ASSUME NEW L, NEW K, NEW p, NEW r, NEW b, NEW off, OwnEdit(L, K, p, r, b, off),
         NEW u, u = NewEvent(K, p, r, Answered(K, p, r, b)),
         NEW c, c = [b EXCEPT !.operations = @ \cup {r}]
  PROVE  u = Sorted(K, p, r, c)
<1>0. /\ BoardRight(L, b) /\ b.subscribed = TRUE /\ NewIn(L, K, r) /\ K[r].cmd \in Edited
  BY DEF OwnEdit, Issuable
<1>1. b.operations \in SUBSET DOMAIN L /\ r \notin b.operations /\ DOMAIN b = BoardFields
  BY <1>0 DEF BoardRight, NewIn
<1>2. b.known = TRUE
  BY <1>0 DEF BoardRight, NoBoard
<1>3. /\ K[r].cmd # "board/create" /\ K[r].cmd # "invite/accept" /\ K[r].cmd # "invite/decline"
      /\ K[r].cmd # "leave"
  BY <1>0 DEF Edited
<1>4. Answered(K, p, r, b) = b
  BY <1>3 DEF Answered
<1>5. c.subscribed = TRUE
  BY <1>0, <1>1 DEF BoardFields
<1>6. u = NewEvent(K, p, r, b)
  BY <1>4
<1>7. u = Handled(K, p, r, c)
  BY <1>1, <1>2, <1>3, <1>6 DEF NewEvent
<1> QED
  BY <1>5, <1>7 DEF Handled

\* An event whose author names all tips is the last of the timeline.
LEMMA OwnLast ==
  ASSUME NEW K, LogRight(K), NEW N, NEW r, r \notin N, N \cup {r} \in SUBSET DOMAIN K,
         NEW n, TimelineRight(K, n, N \cup {r}), \A m \in N : Precedes(K, m, r)
  PROVE  /\ Behind(n, N, r) /\ n.indx[r] = Len(n.linear)
         /\ \A m \in N \cup {r} : K[m].cmd \in OnColumn \cup OnItem => K[m].of # r
<1> DEFINE W == N \cup {r}
           P == {k \in W : n.indx[k] <= n.indx[r]}
<1>1. n \in Timelines(W) /\ Placement(n) /\ Complete(W, n)
      /\ \A m \in W : n.after[m] = K[m].causes /\ K[m].causes \in SUBSET W
  BY DEF TimelineRight, Complete, Ordered
<1> HIDE DEF W
<1>2. /\ Len(n.linear) \in Nat
      /\ \A a \in W : n.indx[a] \in Nat /\ 1 <= n.indx[a] /\ n.indx[a] <= Len(n.linear)
      /\ \A i \in 1 .. Len(n.linear) : n.linear[i] \in W /\ n.indx[n.linear[i]] = i
      /\ \A a, b \in W : n.indx[a] = n.indx[b] => a = b
  BY <1>1, Places
<1>3. ASSUME NEW k \in P, NEW c \in K[k].causes PROVE c \in P
  <2>1. c \in W /\ c \in n.after[k] /\ k \in W
    BY <1>1
  <2>2. n.indx[c] < n.indx[k]
    BY <1>1, <2>1, CausesFirst
  <2>3. r \in W
    BY DEF W
  <2> QED
    BY <1>2, <2>1, <2>2, <2>3
<1>4. Closed(K, P) /\ r \in P /\ P \in SUBSET DOMAIN K
  BY <1>2, <1>3 DEF Closed, W
<1>5. ASSUME NEW m \in N PROVE m \in P /\ n.indx[m] < n.indx[r]
  <2>1. m \in P
    BY <1>4 DEF Precedes
  <2>2. m # r /\ m \in W /\ r \in W
    BY DEF W
  <2> QED
    BY <1>2, <2>1, <2>2
<1>6. Behind(n, N, r)
  BY <1>2, <1>5 DEF Behind, W
<1>7. n.indx[r] = Len(n.linear)
  <2>1. r \in W /\ n.indx[r] \in Nat /\ 1 <= n.indx[r] /\ n.indx[r] <= Len(n.linear)
    BY <1>2 DEF W
  <2>2. n.linear[Len(n.linear)] \in W /\ n.indx[n.linear[Len(n.linear)]] = Len(n.linear)
    BY <1>2, <2>1
  <2>3. n.linear[Len(n.linear)] = r \/ n.linear[Len(n.linear)] \in N
    BY <2>2 DEF W
  <2> QED
    BY <1>2, <1>5, <2>1, <2>2, <2>3
<1>8. ObjectsBefore(K, n, W)
  BY ObjectsStand DEF W
<1>9. ASSUME NEW m \in W, K[m].cmd \in OnColumn \cup OnItem PROVE K[m].of # r
  <2>1. n.indx[K[m].of] < n.indx[m]
    BY <1>8, <1>9 DEF ObjectsBefore
  <2>2. n.indx[r] \in Nat /\ n.indx[m] \in Nat /\ n.indx[m] <= n.indx[r]
    BY <1>2, <1>7, <1>9 DEF W
  <2> QED
    BY <2>1, <2>2
<1> QED
  BY <1>6, <1>7, <1>9 DEF W

\* The boards b and u before and after an own event r, the last of the timeline of u.
Succeeds(K, b, u, N, r) ==
  /\ r \notin N /\ Following(K, b, N) /\ Following(K, u, N \cup {r}) /\ Behind(u.timeline, N, r)
  /\ \A m \in N \cup {r} : K[m].cmd \in OnColumn \cup OnItem => K[m].of # r

\* The lists that nobody removes stay; the new list is there.
LEMMA ListsAfter ==
  ASSUME NEW K, NEW b, NEW u, NEW N, NEW r, Succeeds(K, b, u, N, r)
  PROVE  /\ \A c \in Lists(b) : /\ c \in N /\ K[c].cmd = "column/create"
                                /\ ~ (K[r].cmd = "column/remove" /\ K[r].of = c) => c \in Lists(u)
         /\ K[r].cmd = "column/create" => r \in Lists(u)
         /\ K[r].cmd = "column/remove" => K[r].of \notin Lists(u)
         /\ \A c \in Lists(b) : K[r].cmd = "column/rename" /\ K[r].of = c => u.columns[c].name = r
<1> DEFINE t == b.timeline
           n == u.timeline
           W == N \cup {r}
<1>1. ListsRight(K, t, b.columns, N, N) /\ ListsRight(K, n, u.columns, W, W)
  BY DEF Succeeds, Following, Content
<1>2. /\ DOMAIN b.columns = {m \in N : K[m].cmd = "column/create"}
      /\ DOMAIN u.columns = {m \in W : K[m].cmd = "column/create"}
      /\ \A c \in DOMAIN b.columns : ColumnRight(K, t, c, b.columns[c], N, N)
      /\ \A c \in DOMAIN u.columns : ColumnRight(K, n, c, u.columns[c], W, W)
  BY <1>1 DEF ListsRight
<1>3. Behind(n, N, r) /\ r \notin N
      /\ \A m \in W : K[m].cmd \in OnColumn \cup OnItem => K[m].of # r
  BY DEF Succeeds
<1> HIDE DEF t, n, W
<1>4. ASSUME NEW c \in DOMAIN u.columns
      PROVE  u.columns[c].removed \in BOOLEAN
             /\ (u.columns[c].removed <=> About(K, W, {"column/remove"}, c) # {})
  BY <1>2 DEF ColumnRight
<1>5. ASSUME NEW c \in Lists(b)
      PROVE  /\ c \in N /\ K[c].cmd = "column/create" /\ c \in DOMAIN u.columns
             /\ About(K, N, {"column/remove"}, c) = {}
  <2>1. c \in DOMAIN b.columns /\ ~ b.columns[c].removed
    BY DEF Lists
  <2> QED
    BY <1>2, <2>1 DEF ColumnRight, W
<1>6. ASSUME NEW c \in Lists(b), ~ (K[r].cmd = "column/remove" /\ K[r].of = c) PROVE c \in Lists(u)
  <2>1. About(K, W, {"column/remove"}, c) = {}
    BY <1>5, <1>6 DEF About, W
  <2> QED
    BY <1>4, <1>5, <2>1 DEF Lists
<1>7. ASSUME K[r].cmd = "column/create" PROVE r \in Lists(u)
  <2>1. r \in DOMAIN u.columns
    BY <1>2, <1>7 DEF W
  <2>2. About(K, W, {"column/remove"}, r) = {}
    BY <1>3 DEF About, OnColumn
  <2> QED
    BY <1>4, <2>1, <2>2 DEF Lists
<1>8. ASSUME K[r].cmd = "column/remove" PROVE K[r].of \notin Lists(u)
  <2>1. r \in About(K, W, {"column/remove"}, K[r].of)
    BY <1>8 DEF About, W
  <2> QED
    BY <1>4, <2>1 DEF Lists
<1>9. ASSUME NEW c \in Lists(b), K[r].cmd = "column/rename", K[r].of = c PROVE u.columns[c].name = r
  <2>1. c \in Lists(u) /\ c \in N
    BY <1>5, <1>6, <1>9
  <2>2. ColumnRight(K, n, c, u.columns[c], W, W) /\ ~ u.columns[c].removed /\ c \in W
    BY <1>2, <2>1 DEF Lists, W
  <2>3. Latest(n, {c} \cup About(K, W, {"column/rename"}, c), u.columns[c].name)
    BY <2>2 DEF ColumnRight
  <2> DEFINE V == {c} \cup About(K, N, {"column/rename"}, c)
  <2>4. {c} \cup About(K, W, {"column/rename"}, c) = V \cup {r}
    BY <1>9 DEF About, W
  <2>5. V \in SUBSET N
    BY <2>1 DEF About
  <2> HIDE DEF V
  <2>6. \A m : Latest(n, V \cup {r}, m) => m = r
    BY <1>3, <2>5, LatestBehind
  <2> QED
    BY <2>3, <2>4, <2>6
<1> QED
  BY <1>5, <1>6, <1>7, <1>8, <1>9

\* A card in a list that is there, unless somebody removes it.
LEMMA CardsAfter ==
  ASSUME NEW K, NEW b, NEW u, NEW N, NEW r, Succeeds(K, b, u, N, r)
  PROVE  /\ K[r].cmd = "item/create" /\ K[r].of \in Lists(b) => r \in Cards(u)
         /\ K[r].cmd = "item/remove" => K[r].of \notin Cards(u)
         /\ \A i \in Cards(b) : K[r].cmd \in OnItem \ {"item/remove"} =>
              ItemShows(K, u.timeline, i, u.items[i], N \cup {r}) /\ i \in N
<1> DEFINE t == b.timeline
           n == u.timeline
           W == N \cup {r}
<1>1. CardsRight(K, t, b.items, N, N) /\ CardsRight(K, n, u.items, W, W)
  BY DEF Succeeds, Following, Content
<1>2. /\ DOMAIN b.items = {m \in N : K[m].cmd = "item/create"}
      /\ DOMAIN u.items = {m \in W : K[m].cmd = "item/create"}
      /\ \A i \in DOMAIN b.items : ItemRight(K, t, i, b.items[i], N, N)
      /\ \A i \in DOMAIN u.items : ItemRight(K, n, i, u.items[i], W, W)
  BY <1>1 DEF CardsRight
<1>3. r \notin N /\ \A m \in W : K[m].cmd \in OnColumn \cup OnItem => K[m].of # r
  BY DEF Succeeds
<1>3a. W = N \cup {r}
  OBVIOUS
<1> HIDE DEF t, n, W
<1>4. ASSUME NEW i \in DOMAIN u.items
      PROVE  u.items[i].removed \in BOOLEAN
             /\ (u.items[i].removed <=> About(K, W, {"item/remove"}, i) # {})
  BY <1>2 DEF ItemRight
<1>5. ASSUME K[r].cmd = "item/create", K[r].of \in Lists(b) PROVE r \in Cards(u)
  <2>1. r \in DOMAIN u.items
    BY <1>2, <1>3a, <1>5
  <2>2. /\ About(K, W, {"item/remove"}, r) = {} /\ About(K, W, {"item/moveTo"}, r) = {}
    BY <1>3 DEF About, OnItem
  <2>3. ~ u.items[r].removed
    BY <1>4, <2>1, <2>2
  <2>4. ItemShows(K, n, r, u.items[r], W)
    BY <1>2, <1>3a, <2>1, <2>3 DEF ItemRight
  <2>5. PICK m : Latest(n, {r} \cup About(K, W, {"item/moveTo"}, r), m)
                 /\ u.items[r].column = Place(K, r, m)
    BY <2>4 DEF ItemShows
  <2>6. m = r
    BY <2>2, <2>5 DEF Latest
  <2>7. u.items[r].column = K[r].of
    BY <2>5, <2>6 DEF Place
  <2>8. K[r].of \in Lists(u)
    BY <1>5, ListsAfter
  <2> QED
    BY <2>1, <2>3, <2>7, <2>8 DEF Cards
<1>6. ASSUME K[r].cmd = "item/remove" PROVE K[r].of \notin Cards(u)
  <2>1. r \in About(K, W, {"item/remove"}, K[r].of)
    BY <1>3a, <1>6 DEF About
  <2> QED
    BY <1>4, <2>1 DEF Cards
<1>7. ASSUME NEW i \in Cards(b), K[r].cmd \in OnItem \ {"item/remove"}
      PROVE  ItemShows(K, n, i, u.items[i], W) /\ i \in N
  <2>1. i \in DOMAIN b.items /\ ~ b.items[i].removed
    BY DEF Cards
  <2>2. i \in N /\ i \in DOMAIN u.items /\ i \in W
    BY <1>2, <1>3a, <2>1
  <2>3. About(K, N, {"item/remove"}, i) = {}
    BY <1>2, <2>1 DEF ItemRight
  <2>4. About(K, W, {"item/remove"}, i) = {}
    BY <1>3a, <1>7, <2>3 DEF About
  <2>5. ~ u.items[i].removed
    BY <1>4, <2>2, <2>4
  <2> QED
    BY <1>2, <2>2, <2>5 DEF ItemRight
<1> QED
  BY <1>3a, <1>5, <1>6, <1>7 DEF n

\* What the last operation says of a card is what the card shows.
LEMMA CardAfter ==
  ASSUME NEW K, NEW n, NEW N, NEW r, Behind(n, N, r), NEW i \in N, r \notin N,
         NEW x, ItemShows(K, n, i, x, N \cup {r}), K[r].of = i
  PROVE  /\ K[r].cmd = "item/moveTo" => x.column = K[r].to
         /\ K[r].cmd = "item/rename" => x.name = r
         /\ K[r].cmd = "item/setDescription" => x.description = r
         /\ K[r].cmd = "item/color" => x.color = r
         /\ K[r].cmd = "item/assign" => K[r].to \in x.assignees
         /\ K[r].cmd = "item/unassign" => K[r].to \notin x.assignees
         /\ K[r].cmd = "item/post" => r \in Range(x.comments)
<1> DEFINE W == N \cup {r}
<1>1. \A V \in SUBSET N : Latest(n, V \cup {r}, r) /\ \A m : Latest(n, V \cup {r}, m) => m = r
  BY LatestBehind
<1>2. ASSUME NEW cmds, K[r].cmd \in cmds
      PROVE  About(K, W, cmds, i) = About(K, N, cmds, i) \cup {r} /\ About(K, N, cmds, i) \in SUBSET N
  BY <1>2 DEF About
<1>3. ASSUME NEW cmds, K[r].cmd \in cmds
      PROVE  {i} \cup About(K, W, cmds, i) = ({i} \cup About(K, N, cmds, i)) \cup {r}
             /\ ({i} \cup About(K, N, cmds, i)) \in SUBSET N
  BY <1>2, <1>3
<1> HIDE DEF W
<1>4. ASSUME NEW cmds, K[r].cmd \in cmds, NEW m, Latest(n, {i} \cup About(K, W, cmds, i), m)
      PROVE  m = r
  BY <1>1, <1>3, <1>4
<1>5. ASSUME NEW cmds, K[r].cmd \in cmds, NEW m, Written(n, About(K, W, cmds, i), m)
      PROVE  m = r
  <2> DEFINE V == About(K, N, cmds, i)
  <2>1. About(K, W, cmds, i) = V \cup {r} /\ V \in SUBSET N
    BY <1>2, <1>5
  <2> HIDE DEF V
  <2>2. Latest(n, V \cup {r}, m)
    BY <1>5, <2>1 DEF Written
  <2> QED
    BY <1>1, <2>1, <2>2
<1>6. ASSUME K[r].cmd = "item/moveTo" PROVE x.column = K[r].to
  <2>1. PICK m : Latest(n, {i} \cup About(K, W, {"item/moveTo"}, i), m) /\ x.column = Place(K, i, m)
    BY DEF ItemShows, W
  <2>2. m = r
    BY <1>4, <1>6, <2>1
  <2> QED
    BY <2>1, <2>2 DEF Place
<1>7. ASSUME K[r].cmd = "item/rename" PROVE x.name = r
  <2>1. Latest(n, {i} \cup About(K, W, {"item/rename"}, i), x.name)
    BY DEF ItemShows, W
  <2> QED
    BY <1>4, <1>7, <2>1
<1>8. ASSUME K[r].cmd = "item/setDescription" PROVE x.description = r
  <2>1. Written(n, About(K, W, {"item/setDescription"}, i), x.description)
    BY DEF ItemShows, W
  <2> QED
    BY <1>5, <1>8, <2>1
<1>9. ASSUME K[r].cmd = "item/color" PROVE x.color = r
  <2>1. Written(n, About(K, W, {"item/color"}, i), x.color)
    BY DEF ItemShows, W
  <2> QED
    BY <1>5, <1>9, <2>1
<1>10. ASSUME K[r].cmd \in {"item/assign", "item/unassign"}
       PROVE  K[r].to \in x.assignees <=> K[r].cmd = "item/assign"
  <2> DEFINE a == K[r].to
             V == Assigning(K, N, i, a)
  <2>1. a \in x.assignees <=> \E m : Latest(n, Assigning(K, W, i, a), m) /\ K[m].cmd = "item/assign"
    BY DEF ItemShows, W
  <2>2. Assigning(K, W, i, a) = V \cup {r} /\ V \in SUBSET N
    BY <1>10 DEF Assigning, W
  <2> HIDE DEF V
  <2>3. Latest(n, V \cup {r}, r) /\ \A m : Latest(n, V \cup {r}, m) => m = r
    BY <1>1, <2>2
  <2> QED
    BY <2>1, <2>2, <2>3
<1>11. ASSUME K[r].cmd = "item/post" PROVE r \in Range(x.comments)
  <2>1. Listed(n, About(K, W, {"item/post"}, i), x.comments)
    BY DEF ItemShows, W
  <2>2. r \in About(K, W, {"item/post"}, i)
    BY <1>11 DEF About, W
  <2>3. \E k \in 1 .. Len(x.comments) : x.comments[k] = r
    BY <2>1, <2>2 DEF Listed
  <2>4. x.comments \in Seq(About(K, W, {"item/post"}, i))
    BY <2>1 DEF Listed
  <2>5. DOMAIN x.comments = 1 .. Len(x.comments)
    BY ONLY <2>4
  <2> QED
    BY <2>3, <2>5 DEF Range
<1> QED
  BY <1>6, <1>7, <1>8, <1>9, <1>10, <1>11

LEMMA OwnFollows ==
  ASSUME NEW L, NEW p \in Person, NEW b, NEW K, NEW r, NEW off, OwnEdit(L, K, p, r, b, off),
         NEW u, u = NewEvent(K, p, r, Answered(K, p, r, b))
  PROVE  /\ Succeeds(K, b, u, b.operations, r)
         /\ K[r].cmd = "board/rename" => u.name = r
         /\ K[r].cmd = "invite" /\ K[r].of \in Person /\ ~ Member(b, K[r].of) => Invited(u, K[r].of)
<1> DEFINE N == b.operations
           W == N \cup {r}
           c == [b EXCEPT !.operations = @ \cup {r}]
           n == Add(b.timeline, r, K[r].causes)
           d == [c EXCEPT !.timeline = n]
           a == ApplyOperation(K, p, r, d)
<1>1. /\ LogRight(L) /\ BoardRight(L, b) /\ b.subscribed = TRUE /\ Issuable(L, K, p, r, b, off)
      /\ K[r].causes = b.tips /\ K[r].cmd \in Edited
      /\ NewIn(L, K, r) /\ K[r].cmd \in Commands /\ K[r].causes \in SUBSET N
  BY DEF OwnEdit, Issuable
<1>2. /\ Following(L, b, N) /\ N \in SUBSET DOMAIN L /\ DOMAIN b = BoardFields /\ Closed(L, N)
      /\ r \notin N /\ r \in DOMAIN K /\ W \in SUBSET DOMAIN K /\ PendingRight(b, N)
  BY <1>1 DEF BoardRight, NewIn
<1>3. u = Sorted(K, p, r, c)
  <2>1. u = NewEvent(K, p, r, Answered(K, p, r, b))
    OBVIOUS
  <2>3. c = [b EXCEPT !.operations = @ \cup {r}]
    OBVIOUS
  <2> HIDE DEF c
  <2> QED
    BY ONLY OwnEdit(L, K, p, r, b, off), <2>1, <2>3, OwnSorted
<1>4. LogRight(K) /\ BoardRight(K, b)
  BY <1>1, IssuedRight, BoardStill
<1>5. Following(K, b, N) /\ PendingRight(b, N)
  BY <1>1, <1>4 DEF BoardRight
<1>6. /\ DOMAIN c = BoardFields /\ c.subscribed = TRUE /\ c.timeline = b.timeline
      /\ c.columns = b.columns /\ c.items = b.items /\ c.members = b.members /\ c.pending = b.pending
  BY <1>1, <1>2 DEF BoardFields
<1>7. /\ TimelineRight(K, c.timeline, N) /\ Content(K, c.timeline, c, N, N)
      /\ MembersFrom(K, c.timeline, N, c.members, {}) /\ PendingRight(c, W)
      /\ Founding(K, r, {})
  BY <1>5, <1>6 DEF Following, Content, PendingRight, Founding
<1> HIDE DEF N, c
<1>8. Following(K, u, W)
  <2>1. N \in SUBSET DOMAIN K
    BY <1>2
  <2> HIDE DEF n, d, a
  <2>2. PendingRight(c, N \cup {r})
    BY <1>7
  <2>3. Following(K, u, N \cup {r})
    <3> HIDE DEF W
    <3> QED
      BY <1>1, <1>2, <1>3, <1>4, <1>7, <2>1, <2>2, SortedRight
  <2> QED
    BY <2>3
<1>9. \A m \in N : Precedes(K, m, r)
  BY <1>1, TipsPrecede DEF N
<1>10. TimelineRight(K, n, W)
  <2>1. TimelineRight(K, b.timeline, N) /\ N \in SUBSET DOMAIN K
    BY <1>2, <1>6, <1>7
  <2> QED
    BY <1>1, <1>2, <1>4, <2>1, TimelineGrows
<1> HIDE DEF n
<1>11. /\ Behind(n, N, r) /\ n.indx[r] = Len(n.linear)
       /\ \A m \in W : K[m].cmd \in OnColumn \cup OnItem => K[m].of # r
  BY <1>2, <1>4, <1>9, <1>10, OwnLast
<1>12. /\ DOMAIN d = BoardFields /\ d.timeline = n /\ d.members = b.members /\ d.pending = b.pending
  BY <1>6 DEF BoardFields
<1> HIDE DEF d
<1>13. u = [a EXCEPT !.tips = a.timeline.tips]
  <2>1. ApplyNew(K, p, r, d) = a
    BY <1>11, <1>12 DEF ApplyNew
  <2>2. d = [c EXCEPT !.timeline = Add(c.timeline, r, K[r].causes)]
    BY <1>6 DEF d, n
  <2>3. u = WithTips(ApplyNew(K, p, r, d))
    BY <1>3, <2>2 DEF Sorted
  <2> HIDE DEF a
  <2> QED
    BY <2>1, <2>3 DEF WithTips
<1>14. /\ SameBoard(d, a)
       /\ K[r].cmd = "board/rename" => a = [d EXCEPT !.name = r]
       /\ K[r].cmd = "invite" => a = InviteUser(d, r, K[r])
  BY <1>1, <1>12, ApplyFrame, ApplyCases
<1> HIDE DEF a
<1>15. /\ DOMAIN a = BoardFields /\ u.timeline = n /\ u.name = a.name /\ u.pending = a.pending
  BY <1>12, <1>13, <1>14 DEF SameBoard, BoardFields
<1>16. Succeeds(K, b, u, N, r)
  BY <1>2, <1>5, <1>8, <1>11, <1>15 DEF Succeeds, N
<1>17. ASSUME K[r].cmd = "board/rename" PROVE u.name = r
  BY <1>12, <1>14, <1>15, <1>17 DEF BoardFields
<1>18. ASSUME K[r].cmd = "invite", K[r].of \in Person, ~ Member(b, K[r].of)
       PROVE  Invited(u, K[r].of)
  <2> DEFINE x == K[r].of
             v == [from |-> d.pending[x].from \cup {r}, many |-> d.pending[x].from # {}]
  <2>1. ~ Member(d, x)
    BY <1>12, <1>18 DEF Member
  <2>2. a = [d EXCEPT !.pending[x] = v]
    BY <1>14, <1>18, <2>1 DEF InviteUser, Remember
  <2>3. DOMAIN d.pending = Person
    BY <1>5, <1>12 DEF PendingRight
  <2>4. a.pending[x] = v
    BY <1>12, <1>18, <2>2, <2>3 DEF BoardFields
  <2>5. u.pending[x] = v
    BY <1>15, <2>4
  <2>6. r \in v.from
    OBVIOUS
  <2> QED
    BY <2>5, <2>6 DEF Invited
<1> QED
  BY <1>16, <1>17, <1>18 DEF N

\* What is shown when a page whose board is b issues cmd about it.
Offered(b, cmd, of) ==
  /\ cmd \in {"column/rename", "item/create"} => of \in Lists(b)
  /\ cmd \in OnItem => of \in Cards(b)
  /\ cmd = "invite" => of \in Person /\ ~ Member(b, of)

LEMMA OwnShows ==
  ASSUME NEW L, NEW p \in Person, NEW b, NEW K, NEW r, NEW off, OwnEdit(L, K, p, r, b, off),
         NEW u, u = NewEvent(K, p, r, Answered(K, p, r, b)), Offered(b, K[r].cmd, K[r].of)
  PROVE  Shows(u, r, K[r])
<1> DEFINE N == b.operations
           e == K[r]
           x == u.items[e.of]
<1>1. /\ Succeeds(K, b, u, N, r)
      /\ e.cmd = "board/rename" => u.name = r
      /\ e.cmd = "invite" /\ e.of \in Person /\ ~ Member(b, e.of) => Invited(u, e.of)
  BY OwnFollows
<1>2. /\ e.cmd \in {"column/rename", "item/create"} => e.of \in Lists(b)
      /\ e.cmd \in OnItem => e.of \in Cards(b)
      /\ e.cmd = "invite" => e.of \in Person /\ ~ Member(b, e.of)
  BY DEF Offered
<1>3. r \notin N /\ Behind(u.timeline, N, r)
  BY <1>1 DEF Succeeds
<1> HIDE DEF N
<1>4. /\ e.cmd = "column/create" => r \in Lists(u)
      /\ e.cmd = "column/remove" => e.of \notin Lists(u)
      /\ e.cmd = "column/rename" => u.columns[e.of].name = r
  BY <1>1, <1>2, ListsAfter
<1>5. /\ e.cmd = "item/create" => r \in Cards(u)
      /\ e.cmd = "item/remove" => e.of \notin Cards(u)
      /\ e.cmd \in OnItem \ {"item/remove"} =>
           ItemShows(K, u.timeline, e.of, x, N \cup {r}) /\ e.of \in N
  <2>1. Succeeds(K, b, u, N, r)
    BY <1>1
  <2>2. /\ K[r].cmd = "item/create" /\ K[r].of \in Lists(b) => r \in Cards(u)
        /\ K[r].cmd = "item/remove" => K[r].of \notin Cards(u)
        /\ \A i \in Cards(b) : K[r].cmd \in OnItem \ {"item/remove"} =>
             ItemShows(K, u.timeline, i, u.items[i], N \cup {r}) /\ i \in N
    BY ONLY <2>1, CardsAfter
  <2> QED
    BY <1>2, <2>2
<1>6. ASSUME e.cmd \in OnItem \ {"item/remove"}
      PROVE  /\ e.cmd = "item/moveTo" => x.column = e.to
             /\ e.cmd = "item/rename" => x.name = r
             /\ e.cmd = "item/setDescription" => x.description = r
             /\ e.cmd = "item/color" => x.color = r
             /\ e.cmd = "item/assign" => e.to \in x.assignees
             /\ e.cmd = "item/unassign" => e.to \notin x.assignees
             /\ e.cmd = "item/post" => r \in Range(x.comments)
  <2>1. ItemShows(K, u.timeline, e.of, x, N \cup {r}) /\ e.of \in N
    BY <1>5, <1>6
  <2> DEFINE i == e.of
  <2>2. i \in N /\ K[r].of = i /\ ItemShows(K, u.timeline, i, x, N \cup {r})
    BY <2>1
  <2> HIDE DEF i, x
  <2> QED
    BY <1>3, <2>2, CardAfter
<1>7. /\ e.cmd = "item/rename" => Overwrites[e.cmd] = "name"
      /\ e.cmd = "item/setDescription" => Overwrites[e.cmd] = "description"
      /\ e.cmd = "item/color" => Overwrites[e.cmd] = "color"
  BY DEF Overwrites
<1>8. e.cmd \in Texts => e.cmd \in {"item/rename", "item/setDescription", "item/color"}
  BY KanbanAssumption
<1>9. e.cmd \in Texts => x[Overwrites[e.cmd]] = r
  BY <1>6, <1>7, <1>8 DEF OnItem
<1>10. /\ e.cmd = "item/moveTo" => x.column = e.to
       /\ e.cmd = "item/assign" => e.to \in x.assignees
       /\ e.cmd = "item/unassign" => e.to \notin x.assignees
       /\ e.cmd = "item/post" => r \in Range(x.comments)
  BY <1>6 DEF OnItem
<1> QED
  BY <1>1, <1>2, <1>4, <1>5, <1>9, <1>10 DEF Shows

\* What a step issues shows on the page of its author.
AuthorsSee == \A r \in DOMAIN log' \ DOMAIN log : Shows(board'[log'[r].by], r, log'[r])

LEMMA IssueShows ==
  ASSUME KanbanInv, NEW p \in Person, NEW cmd \in Edited, NEW of, NEW to,
         board[p].subscribed = TRUE, Issue(p, cmd, of, to, board[p].tips),
         Sensible(log, board[p], offline[p], cmd, of, to, board[p].tips),
         Offered(board[p], cmd, of)
  PROVE  AuthorsSee
<1> DEFINE b == board[p]
<1>1. LogRight(log) /\ BoardRight(log, b) /\ DOMAIN board = Person
  BY DEF KanbanInv, TabsRight, TabRight
<1>2. PICK r \in Refs \ DOMAIN log :
        /\ log' = Put(log, r, Event(p, cmd, of, to, b.tips))
        /\ board' = [board EXCEPT ![p] = NewEvent(log', p, r, Answered(log', p, r, @))]
  BY DEF Issue
<1> DEFINE K == log'
           u == NewEvent(K, p, r, Answered(K, p, r, b))
<1>3. board'[p] = u
  BY <1>1, <1>2
<1>4. NewIn(log, K, r) /\ K[r] = Event(p, cmd, of, to, b.tips)
  BY <1>2, PutNew
<1>5. K[r].by = p /\ K[r].cmd = cmd /\ K[r].of = of /\ K[r].causes = b.tips
  BY <1>4 DEF Event
<1>6. Issuable(log, K, p, r, b, offline[p])
  <2>1. Sensible(log, b, offline[p], cmd, of, to, b.tips)
    OBVIOUS
  <2>2. K = Put(log, r, Event(p, cmd, of, to, b.tips))
    BY <1>2
  <2> HIDE DEF K, b
  <2> QED
    BY <1>1, <2>1, <2>2, SensibleIssuable
<1>7. OwnEdit(log, K, p, r, b, offline[p])
  BY <1>1, <1>5, <1>6 DEF OwnEdit
<1>8. Offered(b, K[r].cmd, K[r].of)
  BY <1>5
<1>9. Shows(u, r, K[r])
  <2>1. u = NewEvent(K, p, r, Answered(K, p, r, b))
    OBVIOUS
  <2> HIDE DEF u, K, b
  <2> QED
    BY ONLY p \in Person, <1>7, <1>8, <2>1, OwnShows
<1>10. DOMAIN K \ DOMAIN log = {r}
  BY <1>4 DEF NewIn
<1> QED
  BY <1>3, <1>5, <1>9, <1>10 DEF AuthorsSee

\* Answers, departures and the creation show elsewhere.
LEMMA OthersShow ==
  ASSUME NEW p, NEW cmd \in {"board/create", "invite/accept", "invite/decline", "leave"},
         NEW of, NEW to, NEW causes, Issue(p, cmd, of, to, causes)
  PROVE  AuthorsSee
<1>1. PICK r \in Refs \ DOMAIN log : log' = Put(log, r, Event(p, cmd, of, to, causes))
  BY DEF Issue
<1>2. NewIn(log, log', r) /\ log'[r] = Event(p, cmd, of, to, causes)
  BY <1>1, PutNew
<1>3. log'[r].cmd = cmd /\ DOMAIN log' \ DOMAIN log = {r}
  BY <1>2 DEF Event, NewIn
<1>4. cmd \notin Texts
  BY KanbanAssumption
<1>5. \A b : Shows(b, r, log'[r])
  BY <1>3, <1>4 DEF Shows
<1> QED
  BY <1>3, <1>5 DEF AuthorsSee

LEMMA EditsShow ==
  ASSUME KanbanInv, NEW p \in Person, EditList(p) \/ CreateCard(p) \/ EditCard(p)
  PROVE  AuthorsSee
<1> DEFINE b == board[p]
<1>1. b.subscribed = TRUE /\ LogRight(log) /\ BoardRight(log, b)
  <2>1. LogRight(log) /\ BoardRight(log, b) /\ b.subscribed \in BOOLEAN
    BY DEF KanbanInv, TabsRight, TabRight, BoardRight
  <2> QED
    BY <2>1 DEF EditList, CreateCard, EditCard
<1>2. /\ b.tips \in SUBSET b.operations
      /\ \A c \in Lists(b) : c \in b.operations /\ log[c].cmd = "column/create"
      /\ \A i \in Cards(b) : i \in b.operations /\ log[i].cmd = "item/create"
  BY <1>1, ShownStands
<1> HIDE DEF b
<1>3. ASSUME NEW cmd \in {"column/remove", "column/rename", "item/create"}, NEW c \in Lists(b),
             Issue(p, cmd, c, NoRef, b.tips)
      PROVE  AuthorsSee
  <2>1. Sensible(log, b, offline[p], cmd, c, NoRef, b.tips)
    BY <1>1, <1>2, <1>3 DEF Sensible, Commands, OnColumn, OnItem
  <2>2. cmd \in Edited /\ Offered(b, cmd, c)
    BY <1>3 DEF Edited, Offered, Commands, OnColumn, OnItem
  <2> QED
    BY <1>1, <1>3, <2>1, <2>2, IssueShows DEF b
<1>4. ASSUME Issue(p, "column/create", NoRef, NoRef, b.tips)
      PROVE  AuthorsSee
  <2>1. Sensible(log, b, offline[p], "column/create", NoRef, NoRef, b.tips)
    BY <1>1, <1>2 DEF Sensible, Commands, OnColumn, OnItem, OnBoard
  <2>2. "column/create" \in Edited /\ Offered(b, "column/create", NoRef)
    BY DEF Edited, Offered, Commands, OnBoard, OnItem
  <2> QED
    BY <1>1, <1>4, <2>1, <2>2, IssueShows DEF b
<1>5. ASSUME NEW cmd \in OnItem \ {"item/moveTo"}, NEW i \in Cards(b), NEW to,
             Issue(p, cmd, i, to, b.tips)
      PROVE  AuthorsSee
  <2>1. Sensible(log, b, offline[p], cmd, i, to, b.tips)
    BY <1>1, <1>2, <1>5 DEF Sensible, Commands, OnColumn, OnItem
  <2>2. cmd \in Edited /\ Offered(b, cmd, i)
    BY <1>5 DEF Edited, Offered, Commands, OnItem
  <2> QED
    BY <1>1, <1>5, <2>1, <2>2, IssueShows DEF b
<1>6. ASSUME NEW i \in Cards(b), NEW c \in Lists(b), Issue(p, "item/moveTo", i, c, b.tips)
      PROVE  AuthorsSee
  <2>1. Sensible(log, b, offline[p], "item/moveTo", i, c, b.tips)
    BY <1>1, <1>2 DEF Sensible, Commands, OnColumn, OnItem
  <2>2. "item/moveTo" \in Edited /\ Offered(b, "item/moveTo", i)
    BY DEF Edited, Offered, Commands, OnItem
  <2> QED
    BY <1>1, <1>6, <2>1, <2>2, IssueShows DEF b
<1>7. CASE EditList(p)
  BY <1>3, <1>4, <1>7 DEF EditList, b
<1>8. CASE CreateCard(p)
  BY <1>3, <1>8 DEF CreateCard, b
<1>9. CASE EditCard(p)
  <2>1. Texts \cup {"item/remove", "item/post"} \subseteq OnItem \ {"item/moveTo"}
    BY KanbanAssumption DEF OnItem
  <2>2. "item/assign" \in OnItem \ {"item/moveTo"} /\ "item/unassign" \in OnItem \ {"item/moveTo"}
    BY DEF OnItem
  <2>3. PICK i \in Cards(b) :
          \/ \E cmd \in Texts \cup {"item/remove", "item/post"} : Issue(p, cmd, i, NoRef, b.tips)
          \/ \E c \in Lists(b) : Issue(p, "item/moveTo", i, c, b.tips)
          \/ \E x \in b.members \cap Assignees :
                Issue(p, IF x \in b.items[i].assignees THEN "item/unassign" ELSE "item/assign",
                      i, x, b.tips)
    BY <1>9 DEF EditCard, b
  <2>4. ASSUME NEW cmd \in Texts \cup {"item/remove", "item/post"}, Issue(p, cmd, i, NoRef, b.tips)
        PROVE  AuthorsSee
    BY <1>5, <2>1, <2>4
  <2>5. ASSUME NEW x, Issue(p, IF x \in b.items[i].assignees THEN "item/unassign" ELSE "item/assign",
                            i, x, b.tips)
        PROVE  AuthorsSee
    <3> DEFINE cmd == IF x \in b.items[i].assignees THEN "item/unassign" ELSE "item/assign"
    <3>1. cmd \in OnItem \ {"item/moveTo"}
      BY <2>2
    <3>2. Issue(p, cmd, i, x, b.tips)
      BY <2>5
    <3> HIDE DEF cmd
    <3> QED
      BY <1>5, <3>1, <3>2
  <2> QED
    BY <1>6, <2>3, <2>4, <2>5
<1> QED
  BY <1>7, <1>8, <1>9

LEMMA PeopleShow ==
  ASSUME KanbanInv, NEW p \in Person, Rename(p) \/ Invite(p)
  PROVE  AuthorsSee
<1> DEFINE b == board[p]
<1>1. b.subscribed = TRUE /\ LogRight(log) /\ BoardRight(log, b)
  <2>1. LogRight(log) /\ BoardRight(log, b) /\ b.subscribed \in BOOLEAN
    BY DEF KanbanInv, TabsRight, TabRight, BoardRight
  <2> QED
    BY <2>1 DEF Rename, Invite
<1>2. b.tips \in SUBSET b.operations
  BY <1>1, ShownStands
<1> HIDE DEF b
<1>3. ASSUME NEW cmd \in {"board/rename", "invite"}, NEW of, Issue(p, cmd, of, NoRef, b.tips),
             Offered(b, cmd, of)
      PROVE  AuthorsSee
  <2>1. Sensible(log, b, offline[p], cmd, of, NoRef, b.tips)
    BY <1>1, <1>2, <1>3 DEF Sensible, Commands, OnColumn, OnItem, OnBoard
  <2>2. cmd \in Edited
    BY <1>3 DEF Edited, Commands, OnBoard
  <2> QED
    BY <1>1, <1>3, <2>1, <2>2, IssueShows DEF b
<1>4. CASE Rename(p)
  <2>1. Issue(p, "board/rename", NoRef, NoRef, b.tips)
    BY <1>4 DEF Rename, b
  <2>2. Offered(b, "board/rename", NoRef)
    BY DEF Offered, OnItem
  <2> QED
    BY <1>3, <2>1, <2>2
<1>5. CASE Invite(p)
  <2>1. PICK x \in Person : ~ Member(b, x) /\ Issue(p, "invite", x, NoRef, b.tips)
    BY <1>5 DEF Invite, b
  <2>2. Offered(b, "invite", x)
    BY <2>1 DEF Offered, OnItem
  <2> QED
    BY <1>3, <2>1, <2>2
<1> QED
  BY <1>4, <1>5

LEMMA StepShows ==
  ASSUME KanbanInv, [Next]_vars
  PROVE  AuthorsSee
<1>1. ASSUME log' = log PROVE AuthorsSee
  BY <1>1 DEF AuthorsSee
<1>2. CASE UNCHANGED vars
  BY <1>1, <1>2 DEF vars
<1>3. ASSUME NEW p \in Person, Receive(p) \/ Toggle(p) PROVE AuthorsSee
  <2>1. log' = log
    BY <1>3 DEF Receive, Toggle
  <2> QED
    BY <1>1, <2>1
<1>4. ASSUME NEW p \in Person, Create(p) \/ Answer(p) \/ LeaveBoard(p) PROVE AuthorsSee
  <2>1. CASE Create(p)
    BY <2>1, OthersShow DEF Create
  <2>2. CASE Answer(p)
    <3>1. PICK cmd \in {"invite/accept", "invite/decline"} :
            Issue(p, cmd, NoRef, NoRef, board[p].pending[p].from)
      BY <2>2 DEF Answer
    <3> QED
      BY <3>1, OthersShow
  <2>3. CASE LeaveBoard(p)
    BY <2>3, OthersShow DEF LeaveBoard
  <2> QED
    BY <1>4, <2>1, <2>2, <2>3
<1>5. CASE Next
  <2>1. PICK p \in Person :
             \/ Create(p) \/ Rename(p) \/ EditList(p) \/ CreateCard(p) \/ EditCard(p)
             \/ Invite(p) \/ Answer(p) \/ LeaveBoard(p)
             \/ Receive(p) \/ (p \in Offliners /\ Toggle(p))
    BY <1>5 DEF Next
  <2> QED
    BY <1>3, <1>4, <2>1, EditsShow, PeopleShow
<1> QED
  BY <1>2, <1>5

\* What somebody does shows on their own page at once: it names all tips, so it is
\* sorted in as the last and applied alone (board.js:304-315, scuttlesort.js:158).
THEOREM AuthorsSeeTheirEdits == Spec => OwnEditShows
<1>1. KanbanInv /\ [Next]_vars =>
        [\A r \in DOMAIN log' \ DOMAIN log : Shows(board'[log'[r].by], r, log'[r])]_vars
  BY StepShows DEF AuthorsSee
<1>2. Spec => [][Next]_vars
  BY DEF Spec
<1> QED
  BY <1>1, <1>2, KanbanKept, PTL DEF OwnEditShows

=============================================================================
