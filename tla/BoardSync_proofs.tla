-------------------------- MODULE BoardSync_proofs --------------------------
(***************************************************************************)
(* Theorems about BoardSync.tla for every number of phones and every value *)
(* of the bounds.  The inductive invariant IInv has six parts: LogInv on   *)
(* the tables alone, LinkInv on the routes, PendingInv, OutInv and WorkInv *)
(* on what deliveries, queues and the worker's tasks owe to the table of   *)
(* their phone, and AckInv on what the users were told.                    *)
(***************************************************************************)
EXTENDS BoardSync, FiniteSetTheorems, WellFoundedInduction, TLAPS

-----------------------------------------------------------------------------
(* Frontiers *)

\* A nonempty set of naturals has a least element.
LEMMA LeastElement ==
  ASSUME NEW T \in SUBSET Nat, T # {}
  PROVE  \E m \in T : \A n \in T : m <= n
<1>1. PICK m \in T : \A n \in T : ~ (<<n, m>> \in OpToRel(<, Nat))
  BY NatLessThanWellFounded, WFMin
<1>2. \A n \in T : ~ (n < m)
  BY <1>1 DEF OpToRel
<1> QED
  BY <1>2

\* The sequences of an author are finitely many numbers of 1 .. MaxOps.
LEMMA SeqsFinite ==
  ASSUME NEW S \in SUBSET Op, NEW a
  PROVE  /\ SeqsOf(S, a) \subseteq 1 .. MaxOps
         /\ IsFiniteSet(SeqsOf(S, a))
<1>1. SeqsOf(S, a) \subseteq 1 .. MaxOps
  BY DEF SeqsOf, Op
<1>2. SeqsOf(S, a) \in SUBSET Nat /\ \A n \in SeqsOf(S, a) : n <= MaxOps
  BY <1>1, BoundAssumption
<1> QED
  BY <1>1, <1>2, FS_BoundedSetOfNaturals, BoundAssumption

\* Contiguous is the length of the gapless prefix (its CHOOSE has a witness).
LEMMA ContiguousPrefix ==
  ASSUME NEW S \in SUBSET Op, NEW a
  PROVE  /\ Contiguous(S, a) \in Nat
         /\ 1 .. Contiguous(S, a) \subseteq SeqsOf(S, a)
         /\ Contiguous(S, a) + 1 \notin SeqsOf(S, a)
<1> DEFINE X == SeqsOf(S, a)
           c == Cardinality(X)
           T == {n \in Nat : n + 1 \notin X}
<1>1. IsFiniteSet(X) /\ X \subseteq 1 .. MaxOps /\ c \in Nat
  BY SeqsFinite, FS_CardinalityType
<1>2. MaxOps \in T
  BY <1>1, BoundAssumption
<1>3. PICK n \in T : \A k \in T : n <= k
  BY <1>2, LeastElement
<1>4. 1 .. n \subseteq X
  <2> SUFFICES ASSUME NEW k \in 1 .. n PROVE k \in X
    OBVIOUS
  <2>1. k - 1 \in Nat /\ ~ (n <= k - 1) /\ (k - 1) + 1 = k
    BY <1>3
  <2> QED
    BY <2>1, <1>3
<1>5. Cardinality(1 .. n) = n
  BY FS_Interval, <1>3
<1>6. n <= c
  BY <1>1, <1>4, <1>5, FS_Subset
<1>7. n \in 0 .. c /\ 1 .. n \subseteq X /\ n + 1 \notin X
  BY <1>1, <1>3, <1>4, <1>6
<1> QED
  BY <1>1, <1>7 DEF Contiguous

LEMMA FrontierType ==
  ASSUME NEW S \in SUBSET Op
  PROVE  Frontier(S) \in [Phone -> Nat]
BY ContiguousPrefix DEF Frontier

-----------------------------------------------------------------------------
(* The inductive invariant *)

\* What a message, queued by a phone whose table is S, may say.
GoodIn(S, m) ==
  /\ m \in Msg
  /\ m.t = "bo" => m.w \in S
  /\ m.t = "ba" => \E x \in S : OpId(x) = m.i
  /\ m.t = "bf" => \A a \in Phone : 1 .. m.feeds[a] \subseteq SeqsOf(S, a)

\* An author's own operations are numbered without a gap and never forgotten;
\* nobody holds an operation that its author does not hold.
LogInv ==
  /\ store \in [Phone -> SUBSET Op]
  /\ made \in [Phone -> 0 .. MaxOps]
  /\ \A p \in Phone : \A o \in store[p] : o.author = p => o.seq = o.nr /\ o.nr <= made[p]
  /\ \A p \in Phone : \A n \in 1 .. made[p] : [author |-> p, seq |-> n, nr |-> n] \in store[p]
  /\ \A p \in Phone : \A o \in store[p] : o \in store[o.author]

\* No phone is its own peer.
LinkInv ==
  /\ open \in [Phone -> BOOLEAN]
  /\ routes \in [Phone -> SUBSET Phone]
  /\ auth \in [Phone -> SUBSET Phone]
  /\ \A p \in Phone : p \notin routes[p]
  /\ upsets \in Nat

\* What is pending, queued or posted is backed by the phone's own table.
PendingInv ==
  /\ DOMAIN pending = Phone
  /\ \A p, q \in Phone :
       /\ DOMAIN pending[p] = Phone
       /\ DOMAIN pending[p][q] \subseteq store[p]
       /\ \A o \in DOMAIN pending[p][q] : pending[p][q][o] \in 0 .. MaxAttempts

OutInv ==
  /\ out \in [Phone -> [Phone -> SUBSET Msg]]
  /\ \A p, q \in Phone : \A m \in out[p][q] : GoodIn(store[p], m)
  /\ \A p \in Phone : out[p][p] = {}

WorkInv ==
  /\ work \in [Phone -> Seq(Msg)]
  /\ \A p \in Phone : \A i \in 1 .. Len(work[p]) : GoodIn(store[p], work[p][i])

AckInv ==
  /\ unconfirmed \in [Phone -> SUBSET (1 .. MaxOps)]
  /\ ConfirmedIsStored

IInv == LogInv /\ LinkInv /\ PendingInv /\ OutInv /\ WorkInv /\ AckInv

-----------------------------------------------------------------------------
(* Messages *)

LEMMA GoodMono ==
  ASSUME NEW S, NEW T, S \subseteq T, NEW m, GoodIn(S, m)
  PROVE  GoodIn(T, m)
BY DEF GoodIn, SeqsOf

LEMMA HelloGood ==
  ASSUME NEW S, NEW reply \in BOOLEAN
  PROVE  GoodIn(S, Hello(reply))
BY DEF GoodIn, Hello, Msg

LEMMA FrontierGood ==
  ASSUME NEW S \in SUBSET Op
  PROVE  GoodIn(S, FrontierMsg(Frontier(S)))
<1>1. FrontierMsg(Frontier(S)) \in Msg
  BY FrontierType DEF FrontierMsg, Msg
<1>2. \A a \in Phone : 1 .. Frontier(S)[a] \subseteq SeqsOf(S, a)
  BY ContiguousPrefix DEF Frontier
<1> QED
  BY <1>1, <1>2 DEF GoodIn, FrontierMsg

LEMMA WantGood ==
  ASSUME NEW S, NEW local \in [Phone -> Nat], NEW remote \in [Phone -> Nat]
  PROVE  GoodIn(S, WantMsg(FirstRanges(MissingRanges(local, remote))))
<1>1. MissingRanges(local, remote) \subseteq Want
  BY BoundAssumption DEF MissingRanges, Want, Least
<1>2. FirstRanges(MissingRanges(local, remote)) \subseteq Want
  BY <1>1 DEF FirstRanges
<1> QED
  BY <1>2 DEF GoodIn, WantMsg, Msg

LEMMA OpGood ==
  ASSUME NEW S \in SUBSET Op, NEW o \in S
  PROVE  GoodIn(S, OpMsg(o))
BY DEF GoodIn, OpMsg, Msg

LEMMA AckGood ==
  ASSUME NEW S \in SUBSET Op, NEW o \in S
  PROVE  GoodIn(S, AckMsg(OpId(o)))
<1>1. OpId(o) \in Id
  BY DEF OpId, Id, Op
<1>2. AckMsg(OpId(o)) \in Msg
  BY <1>1 DEF AckMsg, Msg
<1>3. AckMsg(OpId(o)).t = "ba" /\ AckMsg(OpId(o)).i = OpId(o)
  BY DEF AckMsg
<1>4. \E x \in S : OpId(x) = AckMsg(OpId(o)).i
  BY <1>3
<1>5. AckMsg(OpId(o)).t # "bo" /\ AckMsg(OpId(o)).t # "bf"
  BY <1>3
<1> HIDE DEF AckMsg
<1> QED
  BY <1>2, <1>4, <1>5 DEF GoodIn

-----------------------------------------------------------------------------
(* Queues and deliveries *)

\* Offering one message adds at most that message, and nothing without a route.
LEMMA OfferSub ==
  ASSUME NEW p, NEW q, NEW box, NEW m
  PROVE  /\ Offer(p, q, box, m) \subseteq box \cup {m}
         /\ q \notin routes[p] => Offer(p, q, box, m) = box
BY DEF Offer, Enqueue

\* A queue that only holds good messages still does after a good one was offered.
LEMMA OfferGood ==
  ASSUME NEW S, NEW p, NEW q, NEW box, \A x \in box : GoodIn(S, x),
         NEW m, GoodIn(S, m)
  PROVE  \A x \in Offer(p, q, box, m) : GoodIn(S, x)
BY OfferSub

LEMMA TakenSub ==
  ASSUME NEW p, NEW q, NEW box, NEW S
  PROVE  /\ TakenFor(p, q, box, S) \subseteq S
         /\ q \notin routes[p] => TakenFor(p, q, box, S) = {}
BY DEF TakenFor, Taken

LEMMA OfferOpsSub ==
  ASSUME NEW p, NEW q, NEW box, NEW S
  PROVE  /\ OfferOps(p, q, box, S) \subseteq box \cup {OpMsg(o) : o \in S}
         /\ q \notin routes[p] => OfferOps(p, q, box, S) = box
BY TakenSub DEF OfferOps

LEMMA OfferOpsGood ==
  ASSUME NEW S \in SUBSET Op, NEW T \in SUBSET S, NEW p, NEW q,
         NEW box, \A x \in box : GoodIn(S, x)
  PROVE  \A x \in OfferOps(p, q, box, T) : GoodIn(S, x)
BY OfferOpsSub, OpGood

\* The deliveries to q after T was offered: those before and those of T.
LEMMA DeliveringType ==
  ASSUME NEW p, NEW q, NEW box, NEW T,
         \A o \in DOMAIN pending[p][q] : pending[p][q][o] \in 0 .. MaxAttempts
  PROVE  /\ DOMAIN Delivering(p, q, box, T) = DOMAIN pending[p][q] \cup T
         /\ \A o \in DOMAIN Delivering(p, q, box, T) :
              Delivering(p, q, box, T)[o] \in 0 .. MaxAttempts
BY BoundAssumption DEF Delivering, Least

LEMMA FirstOpsSub ==
  ASSUME NEW S, NEW n
  PROVE  FirstOps(S, n) \subseteq S
BY DEF FirstOps

-----------------------------------------------------------------------------
(* The invariant holds initially *)

LEMMA InitInv == Init => IInv
<1> SUFFICES ASSUME Init PROVE IInv
  OBVIOUS
<1>1. LogInv
  BY BoundAssumption DEF Init, LogInv
<1>2. LinkInv
  BY DEF Init, LinkInv
<1>3. PendingInv
  BY DEF Init, PendingInv, NoDeliveries
<1>4. OutInv
  BY DEF Init, OutInv
<1>5. WorkInv
  BY DEF Init, WorkInv
<1>6. AckInv
  BY DEF Init, AckInv, ConfirmedIsStored
<1> QED
  BY <1>1, <1>2, <1>3, <1>4, <1>5, <1>6 DEF IInv

-----------------------------------------------------------------------------
(* Each action preserves the invariant *)

\* Most actions touch neither a table nor what a user was told.
LEMMA SameLog ==
  ASSUME LogInv, AckInv, UNCHANGED <<store, made, unconfirmed>>
  PROVE  LogInv' /\ AckInv'
BY DEF LogInv, AckInv, ConfirmedIsStored

\* A good task may be posted to the worker.
LEMMA PostedGood ==
  ASSUME WorkInv, NEW p \in Phone, NEW m, GoodIn(store'[p], m),
         \A r \in Phone : store[r] \subseteq store'[r],
         work' = [work EXCEPT ![p] = Append(@, m)]
  PROVE  WorkInv'
<1>1. m \in Msg /\ work[p] \in Seq(Msg)
  BY DEF GoodIn, WorkInv
<1>2. work' \in [Phone -> Seq(Msg)]
  BY <1>1 DEF WorkInv
<1>3. ASSUME NEW r \in Phone, NEW i \in 1 .. Len(work'[r])
      PROVE  GoodIn(store'[r], work'[r][i])
  <2>1. CASE r # p
    BY <1>3, <2>1, GoodMono DEF WorkInv
  <2>2. CASE r = p
    <3>1. work'[p] = Append(work[p], m)
      BY DEF WorkInv
    <3>2. /\ Len(work'[p]) = Len(work[p]) + 1
          /\ \A k \in 1 .. Len(work[p]) : work'[p][k] = work[p][k]
          /\ work'[p][Len(work[p]) + 1] = m
      BY <3>1, <1>1
    <3>3. Len(work[p]) \in Nat
      BY <1>1
    <3> QED
      BY <1>3, <2>2, <3>2, <3>3, GoodMono DEF WorkInv
  <2> QED
    BY <2>1, <2>2
<1> QED
  BY <1>2, <1>3 DEF WorkInv

LEMMA OpenInv ==
  ASSUME IInv, NEW p \in Phone, OpenBoard(p)
  PROVE  IInv'
<1>1. LogInv' /\ AckInv'
  BY SameLog DEF IInv, OpenBoard
<1>2. LinkInv'
  BY DEF IInv, LinkInv, OpenBoard
<1>3. PendingInv'
  BY DEF IInv, PendingInv, OpenBoard, NoDeliveries
<1>4. OutInv'
  BY DEF IInv, OutInv, OpenBoard
<1>5. WorkInv'
  BY PostedGood, HelloGood DEF IInv, OpenBoard
<1> QED
  BY <1>1, <1>2, <1>3, <1>4, <1>5 DEF IInv

LEMMA CloseInv ==
  ASSUME IInv, NEW p \in Phone, CloseBoard(p)
  PROVE  IInv'
<1>1. LogInv' /\ AckInv'
  BY SameLog DEF IInv, CloseBoard
<1>2. LinkInv'
  BY DEF IInv, LinkInv, CloseBoard
<1>3. PendingInv'
  BY DEF IInv, PendingInv, CloseBoard, NoDeliveries
<1>4. OutInv' /\ WorkInv'
  BY DEF IInv, OutInv, WorkInv, CloseBoard
<1> QED
  BY <1>1, <1>2, <1>3, <1>4 DEF IInv

LEMMA RestartInv ==
  ASSUME IInv, NEW p \in Phone, Restart(p)
  PROVE  IInv'
<1>1. LogInv' /\ AckInv'
  BY SameLog DEF IInv, Restart
<1>2. LinkInv'
  BY DEF IInv, LinkInv, Restart
<1>3. PendingInv'
  BY DEF IInv, PendingInv, Restart, NoDeliveries
<1>4. OutInv'
  BY DEF IInv, OutInv, Restart
<1>5. WorkInv'
  BY DEF IInv, WorkInv, Restart
<1> QED
  BY <1>1, <1>2, <1>3, <1>4, <1>5 DEF IInv

LEMMA LinkActionsInv ==
  ASSUME IInv, NEW p \in Phone, NEW q \in Phone, Link(p, q)
  PROVE  IInv'
<1>1. LogInv' /\ AckInv'
  BY SameLog DEF IInv, Link, RouteUp, RouteDown, Lose
<1>2. LinkInv'
  <2>1. CASE RouteUp(p, q)
    BY <2>1 DEF IInv, LinkInv, RouteUp
  <2>2. CASE RouteDown(p, q)
    BY <2>2 DEF IInv, LinkInv, RouteDown
  <2>3. CASE Lose(p, q)
    BY <2>3 DEF IInv, LinkInv, Lose
  <2> QED
    BY <2>1, <2>2, <2>3 DEF Link
<1>3. PendingInv' /\ WorkInv'
  BY DEF IInv, PendingInv, WorkInv, Link, RouteUp, RouteDown, Lose
<1>4. OutInv'
  <2>1. CASE RouteUp(p, q)
    <3>1. GoodIn(store[p], Hello(TRUE)) /\ Hello(TRUE) \in Msg
      BY HelloGood DEF GoodIn
    <3> QED
      BY <2>1, <3>1 DEF IInv, OutInv, RouteUp
  <2>2. CASE RouteDown(p, q)
    BY <2>2 DEF IInv, OutInv, RouteDown
  <2>3. CASE Lose(p, q)
    BY <2>3 DEF IInv, OutInv, Lose
  <2> QED
    BY <2>1, <2>2, <2>3 DEF Link
<1> QED
  BY <1>1, <1>2, <1>3, <1>4 DEF IInv

-----------------------------------------------------------------------------
(* The worker *)

\* What the queues of p, whose table is S, may become: good messages for others.
GoodRow(S, p, row) ==
  /\ row \in [Phone -> SUBSET Msg]
  /\ \A q \in Phone : \A m \in row[q] : GoodIn(S, m)
  /\ row[p] = {}

LEMMA OutRowGood ==
  ASSUME OutInv, NEW p \in Phone
  PROVE  GoodRow(store[p], p, out[p])
BY DEF OutInv, GoodRow

LEMMA RowInv ==
  ASSUME OutInv, NEW p \in Phone, NEW row, GoodRow(store[p], p, row), store' = store,
         out' = [out EXCEPT ![p] = row]
  PROVE  OutInv'
BY DEF OutInv, GoodRow

LEMMA GreetedGood ==
  ASSUME OutInv, LinkInv, NEW p \in Phone, NEW peers
  PROVE  GoodRow(store[p], p, Greeted(p, peers))
<1>1. \A q \in Phone : \A m \in Greeted(p, peers)[q] : GoodIn(store[p], m)
  BY HelloGood, OfferGood DEF OutInv, Greeted
<1>2. Greeted(p, peers) \in [Phone -> SUBSET Msg]
  BY <1>1 DEF Greeted, GoodIn
<1>3. Greeted(p, peers)[p] = {}
  BY OfferSub DEF Greeted, OutInv, LinkInv
<1> QED
  BY <1>1, <1>2, <1>3 DEF GoodRow

LEMMA AnnouncedGood ==
  ASSUME LogInv, LinkInv, NEW p \in Phone, NEW box, GoodRow(store[p], p, box)
  PROVE  GoodRow(store[p], p, Announced(p, box))
<1>1. GoodIn(store[p], MyFrontier(p))
  BY FrontierGood DEF MyFrontier, LogInv
<1>2. \A q \in Phone : \A m \in Announced(p, box)[q] : GoodIn(store[p], m)
  BY <1>1, OfferGood DEF Announced, GoodRow
<1>3. Announced(p, box) \in [Phone -> SUBSET Msg]
  BY <1>2 DEF Announced, GoodIn
<1>4. Announced(p, box)[p] = {}
  BY OfferSub DEF Announced, GoodRow, LinkInv
<1> QED
  BY <1>2, <1>3, <1>4 DEF GoodRow

\* The deliveries in due to q are pending ones.
LEMMA ToSub ==
  ASSUME PendingInv, NEW p \in Phone, NEW due \in SUBSET Retryable(p), NEW q \in Phone
  PROVE  To(q, due) \subseteq DOMAIN pending[p][q] /\ To(q, due) \subseteq store[p]
<1>1. \A d \in due : d[2] \in Live(p, d[1])
  BY DEF Retryable
<1>2. To(q, due) \subseteq Live(p, q)
  BY <1>1 DEF To
<1> QED
  BY <1>2 DEF Live, PendingInv

LEMMA RetriedGood ==
  ASSUME LogInv, LinkInv, PendingInv, NEW p \in Phone, NEW box, GoodRow(store[p], p, box),
         NEW due \in SUBSET Retryable(p)
  PROVE  GoodRow(store[p], p, Retried(p, box, due))
<1>1. \A q \in Phone : \A m \in Retried(p, box, due)[q] : GoodIn(store[p], m)
  BY ToSub, OfferOpsGood DEF Retried, GoodRow, LogInv
<1>2. Retried(p, box, due) \in [Phone -> SUBSET Msg]
  BY <1>1 DEF Retried, GoodIn
<1>3. Retried(p, box, due)[p] = {}
  BY OfferOpsSub DEF Retried, GoodRow, LinkInv
<1> QED
  BY <1>1, <1>2, <1>3 DEF GoodRow

LEMMA RetriedPendingInv ==
  ASSUME PendingInv, NEW p \in Phone, NEW box, NEW due \in SUBSET Retryable(p),
         store' = store,
         pending' = [pending EXCEPT ![p] = RetriedDeliveries(p, box, due)]
  PROVE  PendingInv'
<1> DEFINE D(q) == Delivering(p, q, box[q], To(q, due))
<1>1. ASSUME NEW q \in Phone
      PROVE  /\ DOMAIN D(q) = DOMAIN pending[p][q]
             /\ \A o \in DOMAIN D(q) : D(q)[o] \in 0 .. MaxAttempts
  <2>1. \A o \in DOMAIN pending[p][q] : pending[p][q][o] \in 0 .. MaxAttempts
    BY DEF PendingInv
  <2>2. /\ DOMAIN D(q) = DOMAIN pending[p][q] \cup To(q, due)
        /\ \A o \in DOMAIN D(q) : D(q)[o] \in 0 .. MaxAttempts
    BY <2>1, DeliveringType
  <2>3. To(q, due) \subseteq DOMAIN pending[p][q]
    BY ToSub
  <2> QED
    BY <2>2, <2>3
<1>2. \A q \in Phone : RetriedDeliveries(p, box, due)[q] = [o \in Live(p, q) |-> D(q)[o]]
  BY DEF RetriedDeliveries
<1>3. DOMAIN RetriedDeliveries(p, box, due) = Phone
  BY DEF RetriedDeliveries
<1>4. \A q \in Phone : Live(p, q) \subseteq DOMAIN pending[p][q]
  BY DEF Live
<1>5. pending'[p] = RetriedDeliveries(p, box, due) /\ DOMAIN pending' = Phone
  BY DEF PendingInv
<1>6. \A r \in Phone : r # p => pending'[r] = pending[r]
  BY DEF PendingInv
<1> HIDE DEF D
<1>7. \A q \in Phone : /\ DOMAIN pending'[p][q] = Live(p, q)
                       /\ \A o \in Live(p, q) : pending'[p][q][o] = D(q)[o]
  <2> SUFFICES ASSUME NEW q \in Phone
               PROVE  /\ DOMAIN pending'[p][q] = Live(p, q)
                      /\ \A o \in Live(p, q) : pending'[p][q][o] = D(q)[o]
    OBVIOUS
  <2>1. pending'[p][q] = [o \in Live(p, q) |-> D(q)[o]]
    BY <1>2, <1>5
  <2> QED
    BY <2>1
<1>8. ASSUME NEW r \in Phone, NEW q \in Phone
      PROVE  /\ DOMAIN pending'[r] = Phone
             /\ DOMAIN pending'[r][q] \subseteq store'[r]
             /\ \A o \in DOMAIN pending'[r][q] : pending'[r][q][o] \in 0 .. MaxAttempts
  <2>1. CASE r = p
    BY <2>1, <1>1, <1>3, <1>4, <1>5, <1>7 DEF PendingInv
  <2>2. CASE r # p
    BY <2>2, <1>6 DEF PendingInv
  <2> QED
    BY <2>1, <2>2
<1> QED
  BY <1>5, <1>8 DEF PendingInv

\* The deliveries of p, whose table is S, may become row.
GoodDeliveries(S, row) ==
  /\ DOMAIN row = Phone
  /\ \A q \in Phone : /\ DOMAIN row[q] \subseteq S
                      /\ \A o \in DOMAIN row[q] : row[q][o] \in 0 .. MaxAttempts

LEMMA RowPendingInv ==
  ASSUME PendingInv, NEW p \in Phone, NEW row,
         \A r \in Phone : store[r] \subseteq store'[r],
         GoodDeliveries(store'[p], row),
         pending' = [pending EXCEPT ![p] = row]
  PROVE  PendingInv'
<1>1. pending'[p] = row /\ DOMAIN pending' = Phone
  BY DEF PendingInv
<1>2. \A r \in Phone : r # p => pending'[r] = pending[r]
  BY DEF PendingInv
<1>3. ASSUME NEW r \in Phone, NEW q \in Phone
      PROVE  /\ DOMAIN pending'[r] = Phone
             /\ DOMAIN pending'[r][q] \subseteq store'[r]
             /\ \A o \in DOMAIN pending'[r][q] : pending'[r][q][o] \in 0 .. MaxAttempts
  <2>1. CASE r = p
    BY <2>1, <1>1 DEF GoodDeliveries
  <2>2. CASE r # p
    BY <2>2, <1>2 DEF PendingInv
  <2> QED
    BY <2>1, <2>2
<1> QED
  BY <1>1, <1>3 DEF PendingInv

LEMMA DeliveringGood ==
  ASSUME PendingInv, NEW p \in Phone, NEW q \in Phone, NEW box, NEW S, NEW T \in SUBSET S,
         store[p] \subseteq S
  PROVE  /\ DOMAIN Delivering(p, q, box, T) \subseteq S
         /\ \A o \in DOMAIN Delivering(p, q, box, T) :
              Delivering(p, q, box, T)[o] \in 0 .. MaxAttempts
<1>1. /\ DOMAIN pending[p][q] \subseteq store[p]
      /\ \A o \in DOMAIN pending[p][q] : pending[p][q][o] \in 0 .. MaxAttempts
  BY DEF PendingInv
<1>2. /\ DOMAIN Delivering(p, q, box, T) = DOMAIN pending[p][q] \cup T
      /\ \A o \in DOMAIN Delivering(p, q, box, T) :
           Delivering(p, q, box, T)[o] \in 0 .. MaxAttempts
  BY <1>1, DeliveringType
<1> QED
  BY <1>1, <1>2

\* The worker takes its first task.
LEMMA TakenInv ==
  ASSUME WorkInv, NEW p \in Phone, work[p] # << >>,
         store' = store, work' = [work EXCEPT ![p] = Tail(@)]
  PROVE  WorkInv'
<1>1. work[p] \in Seq(Msg)
  BY DEF WorkInv
<1>2. /\ Tail(work[p]) \in Seq(Msg)
      /\ Len(Tail(work[p])) = Len(work[p]) - 1
      /\ \A i \in 1 .. Len(Tail(work[p])) : Tail(work[p])[i] = work[p][i + 1]
      /\ Len(work[p]) \in Nat \ {0}
  BY <1>1
<1>3. work' \in [Phone -> Seq(Msg)] /\ work'[p] = Tail(work[p])
  BY <1>2 DEF WorkInv
<1>4. ASSUME NEW r \in Phone, NEW i \in 1 .. Len(work'[r])
      PROVE  GoodIn(store'[r], work'[r][i])
  <2>1. CASE r # p
    BY <1>4, <2>1 DEF WorkInv
  <2>2. CASE r = p
    <3>1. i + 1 \in 1 .. Len(work[p]) /\ work'[p][i] = work[p][i + 1]
      BY <1>2, <1>3, <2>2
    <3> QED
      BY <2>2, <3>1 DEF WorkInv
  <2> QED
    BY <2>1, <2>2
<1> QED
  BY <1>3, <1>4 DEF WorkInv

LEMMA GreetAllInv ==
  ASSUME IInv, NEW p \in Phone, GreetAll(p)
  PROVE  IInv'
<1>1. LogInv' /\ AckInv'
  BY SameLog DEF IInv, GreetAll
<1>2. LinkInv' /\ PendingInv'
  BY DEF IInv, LinkInv, PendingInv, GreetAll
<1>3. OutInv'
  <2> DEFINE row == [q \in Phone |->
        IF open[p] THEN Offer(p, q, out[p][q], Hello(TRUE)) ELSE out[p][q]]
  <2>1. \A q \in Phone : \A m \in row[q] : GoodIn(store[p], m)
    BY HelloGood, OfferGood DEF IInv, OutInv
  <2>2. row \in [Phone -> SUBSET Msg]
    BY <2>1 DEF GoodIn
  <2>3. row[p] = {}
    BY OfferSub DEF IInv, OutInv, LinkInv
  <2>4. GoodRow(store[p], p, row)
    BY <2>1, <2>2, <2>3 DEF GoodRow
  <2> QED
    BY <2>4, RowInv DEF IInv, GreetAll
<1>4. WorkInv'
  BY TakenInv DEF IInv, GreetAll, Posted
<1> QED
  BY <1>1, <1>2, <1>3, <1>4 DEF IInv

LEMMA QueueForAllInv ==
  ASSUME IInv, NEW p \in Phone, NEW o \in store[p], QueueForAll(p, o)
  PROVE  IInv'
<1>1. LogInv' /\ AckInv'
  BY SameLog DEF IInv, QueueForAll
<1>2. LinkInv'
  BY DEF IInv, LinkInv, QueueForAll
<1>3. OutInv'
  <2> DEFINE row == [q \in Phone |->
        IF open[p] /\ q \in auth[p] THEN OfferOps(p, q, out[p][q], {o}) ELSE out[p][q]]
  <2>1. \A q \in Phone : \A m \in row[q] : GoodIn(store[p], m)
    <3>1. store[p] \in SUBSET Op /\ {o} \in SUBSET store[p]
      BY DEF IInv, LogInv
    <3> QED
      BY <3>1, OfferOpsGood DEF IInv, OutInv
  <2>2. row \in [Phone -> SUBSET Msg]
    BY <2>1 DEF GoodIn
  <2>3. row[p] = {}
    BY OfferOpsSub DEF IInv, OutInv, LinkInv
  <2>4. GoodRow(store[p], p, row)
    BY <2>1, <2>2, <2>3 DEF GoodRow
  <2> QED
    BY <2>4, RowInv DEF IInv, QueueForAll
<1>4. PendingInv'
  <2> DEFINE row == [q \in Phone |->
        IF open[p] /\ q \in auth[p] THEN Delivering(p, q, out[p][q], {o}) ELSE pending[p][q]]
  <2>1. {o} \in SUBSET store[p]
    OBVIOUS
  <2>2. GoodDeliveries(store[p], row)
    BY <2>1, DeliveringGood DEF GoodDeliveries, IInv, PendingInv
  <2> QED
    BY <2>2, RowPendingInv DEF IInv, QueueForAll
<1>5. WorkInv'
  BY TakenInv DEF IInv, QueueForAll, Posted
<1> QED
  BY <1>1, <1>2, <1>3, <1>4, <1>5 DEF IInv

LEMMA SyncTaskInv ==
  ASSUME IInv, NEW p \in Phone, NEW announce \in BOOLEAN, SyncTask(p, announce)
  PROVE  IInv'
<1> DEFINE greeted == Greeted(p, routes[p] \ auth[p])
<1>1. LogInv' /\ AckInv'
  BY SameLog DEF IInv, SyncTask
<1>2. LinkInv' /\ WorkInv'
  BY DEF IInv, LinkInv, WorkInv, SyncTask
<1>3. PICK due \in SUBSET Retryable(p) :
        /\ out' = [out EXCEPT ![p] = IF announce THEN Announced(p, Retried(p, greeted, due))
                                    ELSE Retried(p, greeted, due)]
        /\ pending' = [pending EXCEPT ![p] = RetriedDeliveries(p, greeted, due)]
  BY DEF SyncTask
<1>4. store' = store
  BY DEF SyncTask
<1>5. GoodRow(store[p], p, greeted)
  BY GreetedGood DEF IInv
<1> HIDE DEF greeted
<1>6. GoodRow(store[p], p, Retried(p, greeted, due))
  BY <1>5, RetriedGood DEF IInv
<1>7. GoodRow(store[p], p, Announced(p, Retried(p, greeted, due)))
  BY <1>6, AnnouncedGood DEF IInv
<1>8. OutInv'
  BY <1>3, <1>4, <1>6, <1>7, RowInv DEF IInv
<1>9. PendingInv'
  BY <1>3, <1>4, RetriedPendingInv DEF IInv
<1> QED
  BY <1>1, <1>2, <1>8, <1>9 DEF IInv

LEMMA KickInv ==
  ASSUME IInv, NEW p \in Phone, Kick(p)
  PROVE  IInv'
<1> DEFINE announced == Announced(p, Greeted(p, routes[p]))
           due == Retryable(p)
<1>1. LogInv' /\ AckInv'
  BY SameLog DEF IInv, Kick
<1>2. LinkInv' /\ WorkInv'
  BY DEF IInv, LinkInv, WorkInv, Kick
<1>3. /\ store' = store
      /\ out' = [out EXCEPT ![p] = Retried(p, announced, due)]
      /\ pending' = [pending EXCEPT ![p] = RetriedDeliveries(p, announced, due)]
      /\ due \in SUBSET Retryable(p)
  BY DEF Kick
<1>4. GoodRow(store[p], p, announced)
  BY GreetedGood, AnnouncedGood DEF IInv
<1> HIDE DEF announced, due
<1>5. GoodRow(store[p], p, Retried(p, announced, due))
  BY <1>3, <1>4, RetriedGood DEF IInv
<1>6. OutInv'
  BY <1>3, <1>5, RowInv DEF IInv
<1>7. PendingInv'
  BY <1>3, RetriedPendingInv DEF IInv
<1> QED
  BY <1>1, <1>2, <1>6, <1>7 DEF IInv

-----------------------------------------------------------------------------
(* Received messages *)

\* Two phones hold the same operation under a number: its author's.
LEMMA NoFork == LogInv => NoForkedSequence
<1> SUFFICES ASSUME LogInv, NEW p \in Phone, NEW q \in Phone,
                    NEW x \in store[p], NEW y \in store[q],
                    x.author = y.author, x.seq = y.seq
             PROVE  x = y
  BY DEF NoForkedSequence
<1>1. x \in Op /\ y \in Op
  BY DEF LogInv
<1>2. x \in store[x.author] /\ y \in store[x.author] /\ x.author \in Phone
  BY <1>1 DEF LogInv, Op
<1>3. x.seq = x.nr /\ y.seq = y.nr
  BY <1>2 DEF LogInv
<1>4. /\ x = [author |-> x.author, seq |-> x.seq, nr |-> x.nr]
      /\ y = [author |-> y.author, seq |-> y.seq, nr |-> y.nr]
  BY <1>1 DEF Op
<1> QED
  BY <1>3, <1>4

\* p takes a message from q; its own queues become row, good for its new table.
LEMMA ConsumeInv ==
  ASSUME OutInv, NEW p \in Phone, NEW q \in Phone, NEW m, NEW row,
         \A r \in Phone : store[r] \subseteq store'[r],
         GoodRow(store'[p], p, row), Consume(p, q, m, row)
  PROVE  OutInv'
<1>1. out' \in [Phone -> [Phone -> SUBSET Msg]]
  BY DEF OutInv, GoodRow, Consume
<1>2. \A s \in Phone : out'[p][s] \subseteq row[s]
  BY DEF OutInv, GoodRow, Consume
<1>3. \A r, s \in Phone : r # p => out'[r][s] \subseteq out[r][s]
  BY DEF OutInv, GoodRow, Consume
<1>4. \A r, s \in Phone : \A n \in out'[r][s] : GoodIn(store'[r], n)
  BY <1>2, <1>3, GoodMono DEF OutInv, GoodRow
<1>5. \A r \in Phone : out'[r][r] = {}
  BY <1>2, <1>3 DEF OutInv, GoodRow
<1> QED
  BY <1>1, <1>4, <1>5 DEF OutInv

\* One queue of p is replaced.
LEMMA OneQueueGood ==
  ASSUME OutInv, NEW p \in Phone, NEW q \in Phone, q # p, NEW box,
         \A m \in box : GoodIn(store[p], m)
  PROVE  GoodRow(store[p], p, [out[p] EXCEPT ![q] = box])
<1>1. box \in SUBSET Msg
  BY DEF GoodIn
<1> QED
  BY <1>1 DEF OutInv, GoodRow

\* The deliveries to one peer are replaced.
LEMMA OnePendingInv ==
  ASSUME PendingInv, NEW p \in Phone, NEW q \in Phone, NEW f, store' = store,
         DOMAIN f \subseteq store[p], \A o \in DOMAIN f : f[o] \in 0 .. MaxAttempts,
         pending' = [pending EXCEPT ![p][q] = f]
  PROVE  PendingInv'
<1> DEFINE row == [pending[p] EXCEPT ![q] = f]
<1>1. pending' = [pending EXCEPT ![p] = row]
  OBVIOUS
<1>2. DOMAIN row = Phone
  BY DEF PendingInv
<1>3. ASSUME NEW r \in Phone
      PROVE  DOMAIN row[r] \subseteq store[p] /\ \A o \in DOMAIN row[r] : row[r][o] \in 0 .. MaxAttempts
  <2>1. CASE r = q
    <3>1. row[r] = f
      BY <2>1 DEF PendingInv
    <3> QED
      BY <3>1
  <2>2. CASE r # q
    <3>1. row[r] = pending[p][r]
      BY <2>2 DEF PendingInv
    <3> QED
      BY <3>1 DEF PendingInv
  <2> QED
    BY <2>1, <2>2
<1> HIDE DEF row
<1>4. GoodDeliveries(store'[p], row)
  BY <1>2, <1>3 DEF GoodDeliveries
<1> QED
  BY <1>1, <1>4, RowPendingInv

\* A phone receives from others only.
LEMMA FromOther ==
  ASSUME OutInv, NEW p \in Phone, NEW q \in Phone, NEW m \in out[q][p]
  PROVE  q # p /\ GoodIn(store[q], m) /\ m \in Msg
BY DEF OutInv

LEMMA IgnoredInv ==
  ASSUME IInv, NEW p \in Phone, NEW q \in Phone, Ignored(p, q)
  PROVE  IInv'
<1>1. LogInv' /\ AckInv'
  BY SameLog DEF IInv, Ignored
<1>2. LinkInv' /\ PendingInv' /\ WorkInv'
  BY DEF IInv, LinkInv, PendingInv, WorkInv, Ignored
<1>3. OutInv'
  BY OutRowGood, ConsumeInv DEF IInv, Ignored
<1> QED
  BY <1>1, <1>2, <1>3 DEF IInv

LEMMA HelloInv ==
  ASSUME IInv, NEW p \in Phone, NEW q \in Phone, HandleBoardHello(p, q)
  PROVE  IInv'
<1>1. LogInv' /\ AckInv'
  BY SameLog DEF IInv, HandleBoardHello
<1>2. LinkInv' /\ PendingInv' /\ WorkInv'
  BY DEF IInv, LinkInv, PendingInv, WorkInv, HandleBoardHello
<1>3. OutInv'
  <2>1. PICK reply \in BOOLEAN :
          /\ Hello(reply) \in out[q][p]
          /\ Consume(p, q, Hello(reply), [out[p] EXCEPT ![q] =
               Offer(p, q, IF reply THEN Offer(p, q, out[p][q], Hello(FALSE)) ELSE out[p][q],
                     MyFrontier(p))])
    BY DEF HandleBoardHello
  <2> DEFINE replied == IF reply THEN Offer(p, q, out[p][q], Hello(FALSE)) ELSE out[p][q]
             told == Offer(p, q, replied, MyFrontier(p))
  <2>2. q # p
    BY <2>1, FromOther DEF IInv
  <2>3. \A m \in replied : GoodIn(store[p], m)
    BY HelloGood, OfferGood DEF IInv, OutInv
  <2>4. GoodIn(store[p], MyFrontier(p))
    BY FrontierGood DEF MyFrontier, IInv, LogInv
  <2> HIDE DEF replied
  <2>5. \A m \in told : GoodIn(store[p], m)
    BY <2>3, <2>4, OfferGood
  <2>6. GoodRow(store[p], p, [out[p] EXCEPT ![q] = told])
    BY <2>2, <2>5, OneQueueGood DEF IInv
  <2>7. store' = store
    BY DEF HandleBoardHello
  <2>8. Consume(p, q, Hello(reply), [out[p] EXCEPT ![q] = told])
    BY <2>1 DEF replied
  <2> QED
    BY <2>6, <2>7, <2>8, ConsumeInv DEF IInv
<1> QED
  BY <1>1, <1>2, <1>3 DEF IInv

LEMMA WantInv ==
  ASSUME IInv, NEW p \in Phone, NEW q \in Phone, HandleBoardWant(p, q)
  PROVE  IInv'
<1>1. LogInv' /\ AckInv'
  BY SameLog DEF IInv, HandleBoardWant
<1>2. LinkInv' /\ WorkInv'
  BY DEF IInv, LinkInv, WorkInv, HandleBoardWant
<1>3. PICK m \in out[q][p] :
        /\ Consume(p, q, m, [out[p] EXCEPT ![q] = OfferOps(p, q, @, Asked(store[p], m.w))])
        /\ pending' = [pending EXCEPT ![p][q] =
                         Delivering(p, q, out[p][q], Asked(store[p], m.w))]
        /\ store' = store
  BY DEF HandleBoardWant
<1> DEFINE asked == Asked(store[p], m.w)
<1>4. asked \in SUBSET store[p] /\ store[p] \in SUBSET Op
  BY FirstOpsSub DEF Asked, IInv, LogInv
<1>5. q # p
  BY <1>3, FromOther DEF IInv
<1> HIDE DEF asked
<1>6. OutInv'
  <2>1. \A x \in OfferOps(p, q, out[p][q], asked) : GoodIn(store[p], x)
    BY <1>4, OfferOpsGood DEF IInv, OutInv
  <2>2. GoodRow(store[p], p, [out[p] EXCEPT ![q] = OfferOps(p, q, out[p][q], asked)])
    BY <1>5, <2>1, OneQueueGood DEF IInv
  <2>3. Consume(p, q, m, [out[p] EXCEPT ![q] = OfferOps(p, q, out[p][q], asked)])
    BY <1>3 DEF asked
  <2> QED
    BY <1>3, <2>2, <2>3, ConsumeInv DEF IInv
<1>7. PendingInv'
  <2>1. /\ DOMAIN Delivering(p, q, out[p][q], asked) \subseteq store[p]
        /\ \A o \in DOMAIN Delivering(p, q, out[p][q], asked) :
             Delivering(p, q, out[p][q], asked)[o] \in 0 .. MaxAttempts
    BY <1>4, DeliveringGood DEF IInv
  <2>2. pending' = [pending EXCEPT ![p][q] = Delivering(p, q, out[p][q], asked)]
    BY <1>3 DEF asked
  <2> QED
    BY <1>3, <2>1, <2>2, OnePendingInv DEF IInv
<1> QED
  BY <1>1, <1>2, <1>6, <1>7 DEF IInv

LEMMA FrontierInv ==
  ASSUME IInv, NEW p \in Phone, NEW q \in Phone, HandleBoardFrontier(p, q)
  PROVE  IInv'
<1>1. LogInv' /\ AckInv'
  BY SameLog DEF IInv, HandleBoardFrontier
<1>2. LinkInv' /\ WorkInv'
  BY DEF IInv, LinkInv, WorkInv, HandleBoardFrontier
<1> DEFINE missing(m) == MissingRanges(Frontier(store[p]), m.feeds)
           asked(m) == IF missing(m) = {} THEN out[p][q]
                       ELSE Offer(p, q, out[p][q], WantMsg(FirstRanges(missing(m))))
           ahead(m) == AheadOf(store[p], m.feeds)
<1>3. PICK m \in out[q][p] :
        /\ m.t = "bf"
        /\ Consume(p, q, m, [out[p] EXCEPT ![q] = OfferOps(p, q, asked(m), ahead(m))])
        /\ pending' = [pending EXCEPT ![p][q] = Delivering(p, q, asked(m), ahead(m))]
        /\ store' = store
  BY DEF HandleBoardFrontier
<1>4. ahead(m) \in SUBSET store[p] /\ store[p] \in SUBSET Op
  BY FirstOpsSub DEF AheadOf, IInv, LogInv
<1>5. q # p /\ m \in Msg
  BY <1>3, FromOther DEF IInv
<1>6. m.feeds \in [Phone -> Nat]
  BY <1>3, <1>5 DEF Msg
<1>7. GoodIn(store[p], WantMsg(FirstRanges(missing(m))))
  BY <1>4, <1>6, FrontierType, WantGood
<1>8. \A x \in asked(m) : GoodIn(store[p], x)
  BY <1>7, OfferGood DEF IInv, OutInv
<1> HIDE DEF asked, ahead
<1>9. OutInv'
  <2>1. \A x \in OfferOps(p, q, asked(m), ahead(m)) : GoodIn(store[p], x)
    BY <1>4, <1>8, OfferOpsGood
  <2>2. GoodRow(store[p], p, [out[p] EXCEPT ![q] = OfferOps(p, q, asked(m), ahead(m))])
    BY <1>5, <2>1, OneQueueGood DEF IInv
  <2> QED
    BY <1>3, <2>2, ConsumeInv DEF IInv
<1>10. PendingInv'
  <2>1. /\ DOMAIN Delivering(p, q, asked(m), ahead(m)) \subseteq store[p]
        /\ \A o \in DOMAIN Delivering(p, q, asked(m), ahead(m)) :
             Delivering(p, q, asked(m), ahead(m))[o] \in 0 .. MaxAttempts
    BY <1>4, DeliveringGood DEF IInv
  <2> QED
    BY <1>3, <2>1, OnePendingInv DEF IInv
<1> QED
  BY <1>1, <1>2, <1>9, <1>10 DEF IInv

LEMMA OperationInv ==
  ASSUME IInv, NEW p \in Phone, NEW q \in Phone, NEW o, HandleBoardOperation(p, q, o)
  PROVE  IInv'
<1>1. OpMsg(o) \in out[q][p] /\ q # p
  BY FromOther DEF IInv, HandleBoardOperation
<1>2. o \in store[q]
  BY <1>1, FromOther DEF IInv, GoodIn, OpMsg
<1>3. o \in Op /\ o \in store[o.author] /\ o.author \in Phone
  BY <1>2 DEF IInv, LogInv, Op
<1>4. /\ store' = [store EXCEPT ![p] = @ \cup {o}]
      /\ UNCHANGED <<made, unconfirmed, open, routes, auth, work, upsets>>
      /\ ~ Refused(store[p], o)
  BY DEF HandleBoardOperation
<1>5. /\ store' \in [Phone -> SUBSET Op]
      /\ store'[p] = store[p] \cup {o}
      /\ \A r \in Phone : store[r] \subseteq store'[r]
      /\ \A r \in Phone \ {p} : store'[r] = store[r]
  BY <1>3, <1>4 DEF IInv, LogInv
<1>6. LogInv'
  <2>1. o.author # p
    BY <1>3, <1>4 DEF Refused
  <2> QED
    BY <1>3, <1>4, <1>5, <2>1 DEF IInv, LogInv
<1>7. LinkInv'
  BY <1>4 DEF IInv, LinkInv
<1>8. AckInv'
  BY <1>4, <1>5 DEF IInv, AckInv, ConfirmedIsStored
<1>9. WorkInv'
  BY <1>4, <1>5, GoodMono DEF IInv, WorkInv
<1>10. OutInv'
  <2> DEFINE acked == Offer(p, q, out[p][q], AckMsg(OpId(o)))
             reached == Frontier(store'[p])
             told == IF o.seq > reached[o.author] + 1
                     THEN Offer(p, q, acked, FrontierMsg(reached)) ELSE acked
             row == [r \in Phone |-> IF r = q THEN told
                                    ELSE IF r \in auth[p] THEN OfferOps(p, r, out[p][r], {o})
                                    ELSE out[p][r]]
  <2>1. Consume(p, q, OpMsg(o), row)
    BY DEF HandleBoardOperation
  <2>2. store'[p] \in SUBSET Op /\ o \in store'[p] /\ {o} \in SUBSET store'[p]
    BY <1>5
  <2>3. \A r \in Phone : \A m \in out[p][r] : GoodIn(store'[p], m)
    BY <1>5, GoodMono DEF IInv, OutInv
  <2>4. \A m \in acked : GoodIn(store'[p], m)
    BY <2>2, <2>3, AckGood, OfferGood
  <2>5. \A m \in told : GoodIn(store'[p], m)
    <3>1. GoodIn(store'[p], FrontierMsg(reached))
      BY <2>2, FrontierGood
    <3> HIDE DEF acked, reached
    <3> QED
      BY <2>4, <3>1, OfferGood
  <2> HIDE DEF told
  <2>6. \A r \in Phone : \A m \in OfferOps(p, r, out[p][r], {o}) : GoodIn(store'[p], m)
    BY <2>2, <2>3, OfferOpsGood
  <2>7. \A r \in Phone : \A m \in row[r] : GoodIn(store'[p], m)
    BY <2>3, <2>5, <2>6
  <2>8. row \in [Phone -> SUBSET Msg]
    BY <2>7 DEF GoodIn
  <2>9. row[p] = {}
    BY <1>1, OfferOpsSub DEF IInv, OutInv, LinkInv
  <2>10. GoodRow(store'[p], p, row)
    BY <2>7, <2>8, <2>9 DEF GoodRow
  <2> QED
    BY <1>5, <2>1, <2>10, ConsumeInv DEF IInv
<1>11. PendingInv'
  <2> DEFINE row == [r \in Phone |-> IF r \in auth[p] \ {q}
                                    THEN Delivering(p, r, out[p][r], {o}) ELSE pending[p][r]]
  <2>1. store[p] \subseteq store'[p] /\ {o} \in SUBSET store'[p]
    BY <1>5
  <2>2. \A r \in Phone : /\ DOMAIN Delivering(p, r, out[p][r], {o}) \subseteq store'[p]
                         /\ \A x \in DOMAIN Delivering(p, r, out[p][r], {o}) :
                              Delivering(p, r, out[p][r], {o})[x] \in 0 .. MaxAttempts
    BY <2>1, DeliveringGood DEF IInv
  <2>3. \A r \in Phone : /\ DOMAIN pending[p][r] \subseteq store'[p]
                         /\ \A x \in DOMAIN pending[p][r] : pending[p][r][x] \in 0 .. MaxAttempts
    BY <2>1 DEF IInv, PendingInv
  <2>4. GoodDeliveries(store'[p], row)
    BY <2>2, <2>3 DEF GoodDeliveries
  <2>5. pending' = [pending EXCEPT ![p] = row]
    BY DEF HandleBoardOperation
  <2> QED
    BY <1>5, <2>4, <2>5, RowPendingInv DEF IInv
<1> QED
  BY <1>6, <1>7, <1>8, <1>9, <1>10, <1>11 DEF IInv

LEMMA KnownInv ==
  ASSUME IInv, NEW p \in Phone, NEW q \in Phone, NEW o, HandleKnownOperation(p, q, o)
  PROVE  IInv'
<1>1. LogInv' /\ AckInv'
  BY SameLog DEF IInv, HandleKnownOperation
<1>2. LinkInv' /\ PendingInv' /\ WorkInv'
  BY DEF IInv, LinkInv, PendingInv, WorkInv, HandleKnownOperation
<1>3. OpMsg(o) \in out[q][p] /\ q # p /\ store' = store
  BY FromOther DEF IInv, HandleKnownOperation
<1>4. o \in store[q]
  BY <1>3, FromOther DEF IInv, GoodIn, OpMsg
<1>5. PICK x \in store[p] : OpId(x) = OpId(o)
  <2>1. PICK x \in store[p] : OpId(x) = OpId(o) \/ (x.author = o.author /\ x.seq = o.seq)
    BY DEF HandleKnownOperation, Refused
  <2>2. NoForkedSequence
    BY NoFork DEF IInv
  <2> QED
    BY <1>4, <2>1, <2>2 DEF NoForkedSequence
<1>6. GoodIn(store[p], AckMsg(OpId(o)))
  <2>1. store[p] \in SUBSET Op
    BY DEF IInv, LogInv
  <2>2. GoodIn(store[p], AckMsg(OpId(x)))
    BY <2>1, AckGood
  <2> QED
    BY <1>5, <2>2
<1>7. GoodRow(store[p], p, [out[p] EXCEPT ![q] = Offer(p, q, out[p][q], AckMsg(OpId(o)))])
  <2>1. \A m \in Offer(p, q, out[p][q], AckMsg(OpId(o))) : GoodIn(store[p], m)
    BY <1>6, OfferGood DEF IInv, OutInv
  <2> QED
    BY <1>3, <2>1, OneQueueGood DEF IInv
<1>8. Consume(p, q, OpMsg(o), [out[p] EXCEPT ![q] = Offer(p, q, out[p][q], AckMsg(OpId(o)))])
  BY DEF HandleKnownOperation
<1>9. OutInv'
  BY <1>3, <1>7, <1>8, ConsumeInv DEF IInv
<1> QED
  BY <1>1, <1>2, <1>9 DEF IInv

LEMMA AcknowledgedInv ==
  ASSUME IInv, NEW p \in Phone, NEW q \in Phone, HandleBoardAck(p, q)
  PROVE  IInv'
<1> DEFINE done(i) == {o \in DOMAIN pending[p][q] : OpId(o) = i}
           rest(i) == [o \in DOMAIN pending[p][q] \ done(i) |-> pending[p][q][o]]
<1>1. PICK i \in {m.i : m \in {x \in out[q][p] : x.t = "ba"}} :
        /\ Consume(p, q, AckMsg(i), out[p])
        /\ pending' = [pending EXCEPT ![p][q] = rest(i)]
        /\ unconfirmed' = [unconfirmed EXCEPT ![p] =
                             @ \ {o.nr : o \in {x \in done(i) : x.author = p}}]
        /\ UNCHANGED <<store, made, open, routes, auth, work, upsets>>
  BY DEF HandleBoardAck
<1>2. PICK m \in out[q][p] : m.t = "ba" /\ m.i = i
  OBVIOUS
<1>3. q # p /\ \E x \in store[q] : OpId(x) = i
  BY <1>2, FromOther DEF IInv, GoodIn
<1>4. LogInv' /\ LinkInv' /\ WorkInv'
  BY <1>1 DEF IInv, LogInv, LinkInv, WorkInv
<1>5. OutInv'
  BY <1>1, OutRowGood, ConsumeInv DEF IInv
<1>6. PendingInv'
  <2>1. /\ DOMAIN rest(i) \subseteq store[p]
        /\ \A o \in DOMAIN rest(i) : rest(i)[o] \in 0 .. MaxAttempts
    BY DEF IInv, PendingInv
  <2> HIDE DEF rest
  <2> QED
    BY <1>1, <2>1, OnePendingInv DEF IInv
<1>7. AckInv'
  <2>1. unconfirmed' \in [Phone -> SUBSET (1 .. MaxOps)]
    BY <1>1 DEF IInv, AckInv
  <2>2. ASSUME NEW r \in Phone, NEW n \in 1 .. made[r], n \notin unconfirmed'[r]
        PROVE  \E s \in Phone \ {r} : \E y \in store[s] : OpId(y) = <<r, n>>
    <3>1. CASE n \notin unconfirmed[r]
      BY <3>1 DEF IInv, AckInv, ConfirmedIsStored
    <3>2. CASE n \in unconfirmed[r]
      <4>1. r = p /\ \E o \in done(i) : o.author = p /\ o.nr = n
        BY <1>1, <2>2, <3>2 DEF IInv, AckInv
      <4>2. i = <<p, n>>
        BY <4>1 DEF OpId
      <4> QED
        BY <1>3, <4>1, <4>2
    <3> QED
      BY <3>1, <3>2
  <2> QED
    BY <1>1, <2>1, <2>2 DEF AckInv, ConfirmedIsStored
<1> QED
  BY <1>4, <1>5, <1>6, <1>7 DEF IInv

-----------------------------------------------------------------------------
(* Writing *)

\* An author holds exactly the numbers it has given out.
LEMMA OwnSeqs ==
  ASSUME LogInv, NEW p \in Phone
  PROVE  SeqsOf(store[p], p) = 1 .. made[p]
<1>1. \A o \in store[p] : o.author = p => o.seq \in 1 .. made[p]
  BY DEF LogInv, Op
<1>2. \A n \in 1 .. made[p] : \E o \in store[p] : o.author = p /\ o.seq = n
  BY DEF LogInv
<1> QED
  BY <1>1, <1>2 DEF SeqsOf

\* getMaxSequence + 1 is the number of the author's next event.
LEMMA NextIsMade ==
  ASSUME LogInv, NEW p \in Phone
  PROVE  NextSequence(store[p], p) = made[p] + 1
<1>1. SeqsOf(store[p], p) = 1 .. made[p]
  BY OwnSeqs
<1>2. made[p] \in Nat
  BY BoundAssumption DEF LogInv
<1>3. CASE made[p] = 0
  BY <1>1, <1>3 DEF NextSequence
<1>4. CASE made[p] # 0
  <2>1. made[p] \in 1 .. made[p] /\ \A m \in 1 .. made[p] : m <= made[p]
    BY <1>2, <1>4
  <2>2. \A n \in 1 .. made[p] : (\A m \in 1 .. made[p] : m <= n) => n = made[p]
    BY <1>2, <2>1
  <2>3. (CHOOSE n \in 1 .. made[p] : \A m \in 1 .. made[p] : m <= n) = made[p]
    BY <2>1, <2>2
  <2>4. SeqsOf(store[p], p) # {}
    BY <1>1, <2>1
  <2> QED
    BY <1>1, <1>2, <2>3, <2>4 DEF NextSequence
<1> QED
  BY <1>3, <1>4

LEMMA WriteInv ==
  ASSUME IInv, NEW p \in Phone, WriteBoardEvent(p)
  PROVE  IInv'
<1> DEFINE n == made[p] + 1
           o == [author |-> p, seq |-> n, nr |-> n]
<1>1. /\ made[p] < MaxOps /\ made' = [made EXCEPT ![p] = @ + 1]
      /\ store' = [store EXCEPT ![p] = @ \cup {o}]
      /\ work' = [work EXCEPT ![p] = Append(@, OpMsg(o))]
      /\ unconfirmed' = [unconfirmed EXCEPT ![p] = @ \cup {n}]
      /\ UNCHANGED <<open, routes, auth, pending, out, upsets>>
  BY NextIsMade DEF WriteBoardEvent, IInv
<1>2. made[p] \in Nat /\ n \in 1 .. MaxOps /\ o \in Op
  BY <1>1, BoundAssumption DEF IInv, LogInv, Op
<1>3. /\ store' \in [Phone -> SUBSET Op]
      /\ store'[p] = store[p] \cup {o}
      /\ \A r \in Phone : store[r] \subseteq store'[r]
      /\ \A r \in Phone \ {p} : store'[r] = store[r]
  BY <1>1, <1>2 DEF IInv, LogInv
<1>4. /\ made' \in [Phone -> 0 .. MaxOps]
      /\ made'[p] = n
      /\ \A r \in Phone \ {p} : made'[r] = made[r]
  BY <1>1, <1>2, BoundAssumption DEF IInv, LogInv
<1>5. LogInv'
  <2>1. ASSUME NEW r \in Phone, NEW x \in store'[r]
        PROVE  /\ x.author = r => x.seq = x.nr /\ x.nr <= made'[r]
               /\ x \in store'[x.author]
    <3>1. CASE x \in store[r]
      <4>1. x \in Op /\ x.author \in Phone /\ x \in store[x.author]
        BY <3>1 DEF IInv, LogInv, Op
      <4>2. x.author = r => x.seq = x.nr /\ x.nr <= made[r]
        BY <3>1 DEF IInv, LogInv
      <4>3. made[r] <= made'[r] /\ x.nr \in Nat /\ made[r] \in Nat /\ made'[r] \in Nat
        BY <1>2, <1>4, <4>1, BoundAssumption DEF IInv, LogInv, Op
      <4> QED
        BY <1>3, <4>1, <4>2, <4>3
    <3>2. CASE x \notin store[r]
      <4>1. r = p /\ x = o
        BY <1>3, <2>1, <3>2
      <4> QED
        BY <1>2, <1>3, <1>4, <4>1
    <3> QED
      BY <3>1, <3>2
  <2>2. ASSUME NEW r \in Phone, NEW k \in 1 .. made'[r]
        PROVE  [author |-> r, seq |-> k, nr |-> k] \in store'[r]
    <3>1. CASE k \in 1 .. made[r]
      BY <1>3, <3>1 DEF IInv, LogInv
    <3>2. CASE k \notin 1 .. made[r]
      <4>1. r = p /\ k = n
        BY <1>2, <1>4, <2>2, <3>2
      <4> QED
        BY <1>3, <4>1
    <3> QED
      BY <3>1, <3>2
  <2> QED
    BY <1>3, <1>4, <2>1, <2>2 DEF LogInv
<1>6. LinkInv'
  BY <1>1 DEF IInv, LinkInv
<1>7. PendingInv'
  BY <1>1, <1>3 DEF IInv, PendingInv
<1>8. OutInv'
  BY <1>1, <1>3, GoodMono DEF IInv, OutInv
<1>9. WorkInv'
  <2>1. GoodIn(store'[p], OpMsg(o))
    BY <1>3, OpGood
  <2> QED
    BY <1>1, <1>3, <2>1, PostedGood DEF IInv
<1>10. AckInv'
  <2>1. unconfirmed' \in [Phone -> SUBSET (1 .. MaxOps)]
    BY <1>1, <1>2 DEF IInv, AckInv
  <2>2. ASSUME NEW r \in Phone, NEW k \in 1 .. made'[r], k \notin unconfirmed'[r]
        PROVE  \E s \in Phone \ {r} : \E y \in store'[s] : OpId(y) = <<r, k>>
    <3>1. k \in 1 .. made[r] /\ k \notin unconfirmed[r]
      BY <1>1, <1>2, <1>4, <2>2 DEF IInv, AckInv
    <3> QED
      BY <1>3, <3>1 DEF IInv, AckInv, ConfirmedIsStored
  <2> QED
    BY <2>1, <2>2 DEF AckInv, ConfirmedIsStored
<1> QED
  BY <1>5, <1>6, <1>7, <1>8, <1>9, <1>10 DEF IInv

LEMMA LogEntryInv ==
  ASSUME IInv, NEW p \in Phone, NEW q \in Phone, NEW o \in store[q], ConsumeLogEntry(p, q, o)
  PROVE  IInv'
<1>1. /\ store' = IF Refused(store[p], o) THEN store ELSE [store EXCEPT ![p] = @ \cup {o}]
      /\ work' = [work EXCEPT ![p] = Append(@, OpMsg(o))]
      /\ UNCHANGED <<made, unconfirmed, open, routes, auth, pending, out>>
      /\ upsets' = upsets + 1 /\ o.author = q /\ q # p
  BY DEF ConsumeLogEntry
<1>2. o \in Op /\ o \in store[o.author]
  BY <1>1 DEF IInv, LogInv
<1>3. o \in store'[p]
  <2>1. CASE ~ Refused(store[p], o)
    BY <1>1, <2>1 DEF IInv, LogInv
  <2>2. CASE Refused(store[p], o)
    <3>1. PICK x \in store[p] : OpId(x) = OpId(o) \/ (x.author = o.author /\ x.seq = o.seq)
      BY <2>2 DEF Refused
    <3>2. x.author = o.author /\ x \in store[q]
      BY <1>1, <3>1 DEF OpId, IInv, LogInv
    <3>3. x.seq = o.seq
      BY <1>1, <3>1, <3>2 DEF OpId, IInv, LogInv
    <3> QED
      BY <1>1, <2>2, <3>2, <3>3, NoFork DEF NoForkedSequence, IInv
  <2> QED
    BY <2>1, <2>2
<1>4. /\ store' \in [Phone -> SUBSET Op]
      /\ store'[p] = store[p] \cup {o}
      /\ \A r \in Phone : store[r] \subseteq store'[r]
      /\ \A r \in Phone \ {p} : store'[r] = store[r]
  BY <1>1, <1>2, <1>3 DEF IInv, LogInv
<1>5. LogInv'
  BY <1>1, <1>2, <1>4 DEF IInv, LogInv
<1>6. LinkInv' /\ PendingInv'
  BY <1>1, <1>4 DEF IInv, LinkInv, PendingInv
<1>7. OutInv'
  BY <1>1, <1>4, GoodMono DEF IInv, OutInv
<1>8. WorkInv'
  BY <1>1, <1>3, <1>4, OpGood, PostedGood DEF IInv
<1>9. AckInv'
  BY <1>1, <1>4 DEF IInv, AckInv, ConfirmedIsStored
<1> QED
  BY <1>5, <1>6, <1>7, <1>8, <1>9 DEF IInv

-----------------------------------------------------------------------------
(* Theorems *)

\* Every step of the specification preserves the invariant.
LEMMA StepInv == IInv /\ [Next]_vars => IInv'
<1> SUFFICES ASSUME IInv, [Next]_vars PROVE IInv'
  OBVIOUS
<1>1. ASSUME NEW p \in Phone, User(p) PROVE IInv'
  BY <1>1, OpenInv, WriteInv, CloseInv DEF User
<1>2. ASSUME NEW p \in Phone, Worker(p) PROVE IInv'
  BY <1>2, GreetAllInv, QueueForAllInv, SyncTaskInv, KickInv DEF Worker
<1>3. ASSUME NEW p \in Phone, Restart(p) PROVE IInv'
  BY <1>3, RestartInv
<1>4. ASSUME NEW p \in Phone, NEW q \in Phone, Link(p, q) PROVE IInv'
  BY <1>4, LinkActionsInv
<1>5. ASSUME NEW p \in Phone, NEW q \in Phone, Receive(p, q) PROVE IInv'
  BY <1>5, IgnoredInv, HelloInv, FrontierInv, WantInv, OperationInv, KnownInv, AcknowledgedInv,
     LogEntryInv DEF Receive
<1>6. CASE UNCHANGED vars
  BY <1>6 DEF vars, IInv, LogInv, LinkInv, PendingInv, OutInv, WorkInv, AckInv, ConfirmedIsStored
<1> QED
  BY <1>1, <1>2, <1>3, <1>4, <1>5, <1>6 DEF Next

\* The inductive invariant holds in every reachable state: every phone's table,
\* queue, delivery and worker task is backed by what its author recorded.
THEOREM Inductive == Spec => []IInv
BY InitInv, StepInv, PTL DEF Spec

\* TypeOK: no handler, retry or link event leaves the shapes the code assumes;
\* in particular every WANT range, frontier and attempt count stays in range.
THEOREM TypeCorrect == Spec => []TypeOK
<1>1. IInv => TypeOK
  <2> SUFFICES ASSUME IInv PROVE TypeOK
    OBVIOUS
  <2>1. \A p, q \in Phone : DOMAIN pending[p][q] \subseteq Op
    BY DEF IInv, PendingInv, LogInv
  <2> QED
    BY <2>1 DEF IInv, LogInv, LinkInv, PendingInv, OutInv, WorkInv, AckInv, TypeOK
<1> QED
  BY <1>1, Inductive, PTL

\* NoForkedSequence: an author's sequence number stands for one operation on all
\* phones together, for any number of phones and any pattern of loss and restart.
THEOREM NeverForked == Spec => []NoForkedSequence
<1>1. IInv => NoForkedSequence
  BY NoFork DEF IInv
<1> QED
  BY <1>1, Inductive, PTL

\* ConfirmedIsStored: an event the page no longer shows as pending is in another
\* phone's table: handleBoardAck only ever clears what its sender had stored.
THEOREM AckMeansStored == Spec => []ConfirmedIsStored
<1>1. IInv => ConfirmedIsStored
  BY DEF IInv, AckInv
<1> QED
  BY <1>1, Inductive, PTL

\* NothingClaimedUnstored: frontiers and deliveries under way are covered by the
\* table of the phone that sent them.
THEOREM ClaimsAreBacked == Spec => []NothingClaimedUnstored
<1>1. IInv => NothingClaimedUnstored
  BY DEF IInv, PendingInv, OutInv, GoodIn, NothingClaimedUnstored
<1> QED
  BY <1>1, Inductive, PTL

\* A table changes only when its phone records an event or stores a received one.
LEMMA StoreSteps ==
  ASSUME IInv, [Next]_vars
  PROVE  \/ store' = store
         \/ \E p \in Phone : WriteBoardEvent(p)
         \/ \E p, q \in Phone : \E o \in OpsIn(out[q][p]) : HandleBoardOperation(p, q, o)
         \/ \E p, q \in Phone : \E o \in store[q] : ConsumeLogEntry(p, q, o)
<1>1. ASSUME NEW p \in Phone, User(p), ~ WriteBoardEvent(p) PROVE store' = store
  BY <1>1 DEF User, OpenBoard, CloseBoard
<1>2. ASSUME NEW p \in Phone, Worker(p) PROVE store' = store
  BY <1>2 DEF Worker, GreetAll, QueueForAll, SyncTask, Kick
<1>3. ASSUME NEW p \in Phone, Restart(p) PROVE store' = store
  BY <1>3 DEF Restart
<1>4. ASSUME NEW p \in Phone, NEW q \in Phone, Link(p, q) PROVE store' = store
  BY <1>4 DEF Link, RouteUp, RouteDown, Lose
<1>5. ASSUME NEW p \in Phone, NEW q \in Phone, Receive(p, q),
             ~ \E o \in OpsIn(out[q][p]) : HandleBoardOperation(p, q, o),
             ~ \E o \in store[q] : ConsumeLogEntry(p, q, o)
      PROVE  store' = store
  BY <1>5 DEF Receive, Ignored, HandleBoardHello, HandleBoardFrontier, HandleBoardWant,
              HandleKnownOperation, HandleBoardAck
<1>6. CASE UNCHANGED vars
  BY <1>6 DEF vars
<1> QED
  BY <1>1, <1>2, <1>3, <1>4, <1>5, <1>6 DEF Next

\* NeverForgets: no step of any phone removes or replaces a recorded operation.
THEOREM Durable == Spec => NeverForgets
<1>1. IInv /\ [Next]_vars => [\A p \in Phone : store[p] \subseteq store'[p]]_vars
  <2> SUFFICES ASSUME IInv, [Next]_vars, NEW p \in Phone PROVE store[p] \subseteq store'[p]
    OBVIOUS
  <2>1. CASE store' = store
    BY <2>1
  <2>2. ASSUME NEW r \in Phone, WriteBoardEvent(r) PROVE store[p] \subseteq store'[p]
    BY <2>2 DEF WriteBoardEvent, IInv, LogInv
  <2>3. ASSUME NEW r \in Phone, NEW q \in Phone, NEW o, HandleBoardOperation(r, q, o)
        PROVE  store[p] \subseteq store'[p]
    BY <2>3 DEF HandleBoardOperation, IInv, LogInv
  <2>4. ASSUME NEW r \in Phone, NEW q \in Phone, NEW o, ConsumeLogEntry(r, q, o)
        PROVE  store[p] \subseteq store'[p]
    BY <2>4 DEF ConsumeLogEntry, IInv, LogInv
  <2> QED
    BY <2>1, <2>2, <2>3, <2>4, StoreSteps
<1> QED
  BY <1>1, Inductive, PTL DEF Spec, NeverForgets

\* ImplementsLog: seen through the tables alone, the BLE protocol is the
\* replicated log of BoardOpLog.tla, where an author numbers its operations 1, 2,
\* 3, ... and others only obtain what the author still holds.
THEOREM Refinement == Spec => ImplementsLog
<1>1. Init => Log!Init
  BY DEF Init, Log!Init
<1>2. IInv /\ [Next]_vars => [Log!Next]_store
  <2> SUFFICES ASSUME IInv, [Next]_vars, store' # store PROVE Log!Next
    OBVIOUS
  <2>1. ASSUME NEW p \in Phone, WriteBoardEvent(p) PROVE Log!Next
    <3> DEFINE n == made[p] + 1
               o == [author |-> p, seq |-> n, nr |-> n]
    <3>1. made[p] < MaxOps /\ store' = [store EXCEPT ![p] = @ \cup {o}]
      BY <2>1, NextIsMade DEF WriteBoardEvent, IInv
    <3>2. made[p] \in Nat /\ o \in Op
      BY <3>1, BoundAssumption DEF IInv, LogInv, Op
    <3>3. {x.seq : x \in Log!Own(p)} = 1 .. (o.seq - 1)
      <4>1. {x.seq : x \in Log!Own(p)} = SeqsOf(store[p], p)
        BY DEF Log!Own, SeqsOf
      <4>2. SeqsOf(store[p], p) = 1 .. made[p]
        BY OwnSeqs DEF IInv
      <4>3. o.seq - 1 = made[p]
        BY <3>2
      <4> HIDE DEF o
      <4> QED
        BY <4>1, <4>2, <4>3
    <3>4. o.nr \notin {x.nr : x \in Log!Own(p)}
      BY <3>2 DEF Log!Own, IInv, LogInv
    <3>5. Log!Create(p, o)
      BY <3>1, <3>3, <3>4 DEF Log!Create
    <3> QED
      BY <3>2, <3>5 DEF Log!Next, Log!Op, Op
  <2>2. ASSUME NEW p \in Phone, NEW q \in Phone, NEW o, HandleBoardOperation(p, q, o)
        PROVE  Log!Next
    <3>1. OpMsg(o) \in out[q][p] /\ store' = [store EXCEPT ![p] = @ \cup {o}]
      BY <2>2 DEF HandleBoardOperation
    <3>2. o \in store[q]
      BY <3>1, FromOther DEF IInv, GoodIn, OpMsg
    <3>3. o \in Op /\ o \in store[o.author]
      BY <3>2 DEF IInv, LogInv
    <3>4. Log!Obtain(p, o)
      BY <3>1, <3>3 DEF Log!Obtain
    <3> QED
      BY <3>3, <3>4 DEF Log!Next, Log!Op, Op
  <2>3. ASSUME NEW p \in Phone, NEW q \in Phone, NEW o \in store[q], ConsumeLogEntry(p, q, o)
        PROVE  Log!Next
    <3>1. store' = [store EXCEPT ![p] = @ \cup {o}]
      BY <2>3 DEF ConsumeLogEntry
    <3>2. o \in Op /\ o \in store[o.author]
      BY DEF IInv, LogInv
    <3>3. Log!Obtain(p, o)
      BY <3>1, <3>2 DEF Log!Obtain
    <3> QED
      BY <3>2, <3>3 DEF Log!Next, Log!Op, Op
  <2> QED
    BY <2>1, <2>2, <2>3, StoreSteps
<1> QED
  BY <1>1, <1>2, Inductive, PTL DEF Spec, ImplementsLog, Log!Spec
=============================================================================
