----------------------------- MODULE BoardSync ------------------------------
(***************************************************************************)
(* Replication of one board between phones over BLE: the operation store,  *)
(* the board hello, the direct delivery of operations with acknowledgement *)
(* and retry, and the anti-entropy of frontiers and WANT requests          *)
(* (BleSync.kt, BoardProtocol.kt, BoardOperationDAO.kt).                    *)
(*                                                                         *)
(* Abstractions.  A phone is the rank of its feed id in the order the code *)
(* sorts feed ids by.  Each phone has one route to each peer and a route's *)
(* outbound queue is a set of whole messages: control messages overtake    *)
(* operations (BleOutboundQueue), so any queued message may be the next to *)
(* arrive; frames are the subject of another module.  Encryption and       *)
(* signatures are taken to hold, so only genuine operations are decoded.   *)
(* The board is opened by code (directAccess), at most MAX_BOARD_MEMBERS   *)
(* phones take part, and every verified hello is therefore accepted.       *)
(***************************************************************************)
EXTENDS Naturals, FiniteSets, Sequences

CONSTANTS
  Phone,         \* ranks of the members' feed ids
  Neighbour,     \* pairs of phones in radio range of each other
  Wifi,          \* pairs of phones whose hosts replicate feeds over Wi-Fi
  Author,        \* bound: the phones whose users draw
  MaxOps,        \* bound: operations each of them ever creates
  MaxQueue,      \* messages a route queues (MAX_QUEUED_FRAMES_PER_LINK)
  Reserve,       \* slots of those kept for control messages
  MaxAttempts,   \* MAX_BOARD_DELIVERY_ATTEMPTS
  MaxPulse,      \* MAX_BOARD_OPERATIONS_PER_PULSE
  MaxRange,      \* MAX_BOARD_RANGE
  MaxWantRanges, \* MAX_BOARD_WANT_RANGES
  MaxUpsets      \* bound: lost messages and routes, restarts, closes, manual syncs,
                 \* feed entries

ASSUME PhoneAssumption == Phone \subseteq Nat /\ IsFiniteSet(Phone)
ASSUME RangeAssumption ==
  /\ Neighbour \subseteq SUBSET Phone
  /\ Wifi \subseteq SUBSET Phone
  /\ Author \subseteq Phone
ASSUME BoundAssumption ==
  /\ MaxOps \in Nat
  /\ MaxQueue \in Nat \ {0}
  /\ Reserve \in 0 .. (MaxQueue - 1)
  /\ MaxAttempts \in Nat \ {0}
  /\ MaxPulse \in Nat \ {0}
  /\ MaxRange \in Nat \ {0}
  /\ MaxWantRanges \in Nat \ {0}
  /\ MaxUpsets \in Nat

VARIABLES
  store,        \* store[p]: the BoardOperation table of p (persistent)
  made,         \* made[p]: how many events p's user has ever recorded
  unconfirmed,  \* unconfirmed[p]: tremola.collabboardPending of p
  open,         \* open[p]: boardConfig is set on p
  routes,       \* routes[p]: peers p has a ready client or subscribed server link to
  auth,         \* auth[p]: authenticatedBoardPeers of p
  pending,      \* pending[p][q]: pendingBoardDeliveries of p for q, with attempts
  out,          \* out[p][q]: messages queued or in flight on p's route to q
  work,         \* work[p]: broadcasts posted to p's single worker thread, in order
  upsets        \* how many of what MaxUpsets bounds have happened

vars == <<store, made, unconfirmed, open, routes, auth, pending, out, work, upsets>>

-----------------------------------------------------------------------------
(* Operations and messages *)

Op == [author : Phone, seq : 1 .. MaxOps, nr : 1 .. MaxOps]

\* The operation id is the event's id: unique per author and event.
OpId(o) == <<o.author, o.nr>>
Id == Phone \X (1 .. MaxOps)

Want == [f : Phone, a : Nat, b : Nat]

Hello(reply) == [t |-> "bh", reply |-> reply]
FrontierMsg(feeds) == [t |-> "bf", feeds |-> feeds]
WantMsg(ranges) == [t |-> "bw", w |-> ranges]
OpMsg(o) == [t |-> "bo", w |-> o]
AckMsg(i) == [t |-> "ba", i |-> i]

Msg == [t : {"bh"}, reply : BOOLEAN]
  \cup [t : {"bf"}, feeds : [Phone -> Nat]]
  \cup [t : {"bw"}, w : SUBSET Want]
  \cup [t : {"bo"}, w : Op]
  \cup [t : {"ba"}, i : Id]

\* Hellos share one key and so do frontiers: a queued one hides a newer one.
SameKey(m, n) ==
  /\ m.t = n.t
  /\ m.t \in {"bh", "bf"} \/ m = n

\* Bulk traffic leaves the reserve to control messages.
Limit(m) == IF m.t = "bo" THEN MaxQueue - Reserve ELSE MaxQueue

Queued(box, m) == \E x \in box : SameKey(x, m)

\* What a route's queue is after m was offered to it.
Enqueue(box, m) ==
  IF Queued(box, m) \/ Cardinality(box) >= Limit(m) THEN box ELSE box \cup {m}

-----------------------------------------------------------------------------
(* Frontiers and ranges *)

Least(a, b) == IF a <= b THEN a ELSE b

Before(x, y) == x.author < y.author \/ (x.author = y.author /\ x.seq < y.seq)

\* The first n operations of S by author and sequence.
FirstOps(S, n) == {o \in S : Cardinality({x \in S : Before(x, o)}) < n}

SeqsOf(S, a) == {o.seq : o \in {x \in S : x.author = a}}

\* Mutant: gaps are not looked for.
ContiguousCount(S, a) == Cardinality(SeqsOf(S, a))

\* Highest sequence of author a below which S has no gap.
Contiguous(S, a) ==
  CHOOSE n \in 0 .. Cardinality(SeqsOf(S, a)) :
    1 .. n \subseteq SeqsOf(S, a) /\ n + 1 \notin SeqsOf(S, a)

Frontier(S) == [a \in Phone |-> Contiguous(S, a)]

\* What a phone with frontier `local` asks of one that announces `remote`.
MissingRanges(local, remote) ==
  {[f |-> a, a |-> local[a] + 1, b |-> Least(remote[a], local[a] + MaxRange)] :
     a \in {x \in Phone : remote[x] > local[x]}}

FirstRanges(R) == {r \in R : Cardinality({x \in R : x.f < r.f}) < MaxWantRanges}

\* What a frontier that lags behind our own makes us send.
AheadOf(S, remote) ==
  FirstOps({o \in S : remote[o.author] < o.seq /\ o.seq <= Frontier(S)[o.author]},
           MaxPulse)

\* What a WANT makes us send.
Asked(S, ranges) ==
  FirstOps({o \in S : \E r \in ranges :
              /\ o.author = r.f
              /\ r.a <= o.seq
              /\ o.seq <= Least(r.b, r.a + MaxRange - 1)},
           MaxPulse)

\* Mutants: numbering starts at zero; the table's rows are counted, not the author's.
NextSequenceFromZero(S, a) == Cardinality(SeqsOf(S, a))
NextSequenceOfRoom(S, a) == Cardinality(S) + 1

\* getMaxSequence + 1
NextSequence(S, a) ==
  IF SeqsOf(S, a) = {} THEN 1
  ELSE 1 + CHOOSE n \in SeqsOf(S, a) : \A m \in SeqsOf(S, a) : m <= n

\* Mutant: the author is missing in the unique index.
RefusedBySequence(S, o) == \E x \in S : OpId(x) = OpId(o) \/ x.seq = o.seq

\* The primary key and the unique index (room, author, sequence).
Refused(S, o) ==
  \E x \in S : OpId(x) = OpId(o) \/ (x.author = o.author /\ x.seq = o.seq)

-----------------------------------------------------------------------------
(* Direct delivery *)

\* Of the operations S offered to the queue, those it takes.
Taken(box, S) ==
  LET new == {o \in S : ~ Queued(box, OpMsg(o))}
  IN {o \in new :
        Cardinality({x \in new : Before(x, o)}) + Cardinality(box) < Limit(OpMsg(o))}

\* What p's queue to q is after a message, or a set of operations, was offered
\* to it; without a route nothing is queued.
Offer(p, q, box, m) == IF q \in routes[p] THEN Enqueue(box, m) ELSE box

TakenFor(p, q, box, S) == IF q \in routes[p] THEN Taken(box, S) ELSE {}

OfferOps(p, q, box, S) == box \cup {OpMsg(o) : o \in TakenFor(p, q, box, S)}

\* p's deliveries to q after the operations S were offered: each is pending,
\* and an attempt counts when the queue took it.
Delivering(p, q, box, S) ==
  LET old == pending[p][q]
      tries(o) == IF o \in DOMAIN old THEN old[o] ELSE 0
      taken == TakenFor(p, q, box, S)
  IN [o \in DOMAIN old \cup S |->
        IF o \in taken THEN Least(MaxAttempts, tries(o) + 1) ELSE tries(o)]

NoDeliveries == [q \in Phone |-> [o \in {} |-> 0]]

MyFrontier(p) == FrontierMsg(Frontier(store[p]))

-----------------------------------------------------------------------------
(* The user of a phone *)

Init ==
  /\ store = [p \in Phone |-> {}]
  /\ made = [p \in Phone |-> 0]
  /\ unconfirmed = [p \in Phone |-> {}]
  /\ open = [p \in Phone |-> FALSE]
  /\ routes = [p \in Phone |-> {}]
  /\ auth = [p \in Phone |-> {}]
  /\ pending = [p \in Phone |-> NoDeliveries]
  /\ out = [p \in Phone |-> [q \in Phone |-> {}]]
  /\ work = [p \in Phone |-> << >>]
  /\ upsets = 0

\* activateBoard: the room changes, and the worker is to greet everyone.
OpenBoard(p) ==
  /\ ~ open[p]
  /\ open' = [open EXCEPT ![p] = TRUE]
  /\ auth' = [auth EXCEPT ![p] = {}]
  /\ pending' = [pending EXCEPT ![p] = NoDeliveries]
  /\ work' = [work EXCEPT ![p] = Append(@, Hello(TRUE))]
  /\ UNCHANGED <<store, made, unconfirmed, routes, out, upsets>>

\* writeBoardEvent: the operation is recorded before anything is sent.
WriteBoardEvent(p) ==
  /\ open[p]
  /\ p \in Author /\ made[p] < MaxOps
  /\ LET o == [author |-> p, seq |-> NextSequence(store[p], p), nr |-> made[p] + 1]
     IN /\ ~ Refused(store[p], o)
        /\ store' = [store EXCEPT ![p] = @ \cup {o}]
        /\ work' = [work EXCEPT ![p] = Append(@, OpMsg(o))]
        /\ unconfirmed' = [unconfirmed EXCEPT ![p] = @ \cup {o.nr}]
  /\ made' = [made EXCEPT ![p] = @ + 1]
  /\ UNCHANGED <<open, routes, auth, pending, out, upsets>>

CloseBoard(p) ==
  /\ open[p]
  /\ upsets < MaxUpsets
  /\ upsets' = upsets + 1
  /\ open' = [open EXCEPT ![p] = FALSE]
  /\ auth' = [auth EXCEPT ![p] = {}]
  /\ pending' = [pending EXCEPT ![p] = NoDeliveries]
  /\ UNCHANGED <<store, made, unconfirmed, routes, out, work>>

-----------------------------------------------------------------------------
(* The worker thread of a phone *)

\* task is the next that the worker of p runs.
Posted(p, task) == work[p] # << >> /\ Head(work[p]) = task

\* What OpenBoard and WriteBoardEvent posted is run.  (The broadcast that
\* onLocalLogEntry posts for the same event is the same as a retry.)
GreetAll(p) ==
  /\ Posted(p, Hello(TRUE))
  /\ work' = [work EXCEPT ![p] = Tail(@)]
  /\ out' = [out EXCEPT ![p] = [q \in Phone |->
               IF open[p] THEN Offer(p, q, out[p][q], Hello(TRUE)) ELSE out[p][q]]]
  /\ UNCHANGED <<store, made, unconfirmed, open, routes, auth, pending, upsets>>

QueueForAll(p, o) ==
  /\ Posted(p, OpMsg(o))
  /\ work' = [work EXCEPT ![p] = Tail(@)]
  /\ out' = [out EXCEPT ![p] = [q \in Phone |->
               IF open[p] /\ q \in auth[p] THEN OfferOps(p, q, out[p][q], {o}) ELSE out[p][q]]]
  /\ pending' = [pending EXCEPT ![p] = [q \in Phone |->
               IF open[p] /\ q \in auth[p] THEN Delivering(p, q, out[p][q], {o})
               ELSE pending[p][q]]]
  /\ UNCHANGED <<store, made, unconfirmed, open, routes, auth, upsets>>

\* Deliveries of p to q that have attempts left; retryBoardDeliveries drops the rest.
Live(p, q) == {o \in DOMAIN pending[p][q] : pending[p][q][o] < MaxAttempts}

Retryable(p) == UNION {{q} \X Live(p, q) : q \in auth[p]}

\* p's queues, and its deliveries, after the deliveries in due were retried.
To(q, due) == {d[2] : d \in {x \in due : x[1] = q}}
Retried(p, box, due) == [q \in Phone |-> OfferOps(p, q, box[q], To(q, due))]
RetriedDeliveries(p, box, due) ==
  [q \in Phone |-> [o \in Live(p, q) |-> Delivering(p, q, box[q], To(q, due))[o]]]

Greeted(p, peers) ==
  [q \in Phone |-> IF q \in peers THEN Offer(p, q, out[p][q], Hello(TRUE)) ELSE out[p][q]]

\* Mutant: frontiers are exchanged on hello only.
NotAnnounced(p, box) == box

Announced(p, box) ==
  [q \in Phone |-> IF q \in auth[p] THEN Offer(p, q, box[q], MyFrontier(p)) ELSE box[q]]

\* The two-second task: greet whoever is not authenticated, retry, and announce
\* the frontier every BOARD_FRONTIER_INTERVAL_MS.  lastSentAt decides which
\* deliveries are due; any of them may be.
SyncTask(p, announce) ==
  /\ open[p]
  /\ \E due \in SUBSET Retryable(p) :
       LET greeted == Greeted(p, routes[p] \ auth[p])
           retried == Retried(p, greeted, due)
       IN /\ out' = [out EXCEPT ![p] = IF announce THEN Announced(p, retried) ELSE retried]
          /\ pending' = [pending EXCEPT ![p] = RetriedDeliveries(p, greeted, due)]
  /\ UNCHANGED <<store, made, unconfirmed, open, routes, auth, work, upsets>>

\* The user asks for a sync: everyone is greeted and everything is retried.
Kick(p) ==
  /\ open[p]
  /\ upsets < MaxUpsets
  /\ upsets' = upsets + 1
  /\ LET announced == Announced(p, Greeted(p, routes[p]))
     IN /\ out' = [out EXCEPT ![p] = Retried(p, announced, Retryable(p))]
        /\ pending' = [pending EXCEPT ![p] = RetriedDeliveries(p, announced, Retryable(p))]
  /\ UNCHANGED <<store, made, unconfirmed, open, routes, auth, work>>

-----------------------------------------------------------------------------
(* Links *)

\* markClientReady, or the server side of the subscription.
RouteUp(p, q) ==
  /\ p # q /\ {p, q} \in Neighbour
  /\ q \notin routes[p]
  /\ routes' = [routes EXCEPT ![p] = @ \cup {q}]
  /\ out' = [out EXCEPT ![p][q] = IF open[p] THEN {Hello(TRUE)} ELSE {}]
  /\ UNCHANGED <<store, made, unconfirmed, open, auth, pending, work, upsets>>

\* dropClientLink, dropServerLink: what was queued is gone.
RouteDown(p, q) ==
  /\ q \in routes[p]
  /\ upsets < MaxUpsets
  /\ upsets' = upsets + 1
  /\ routes' = [routes EXCEPT ![p] = @ \ {q}]
  /\ auth' = [auth EXCEPT ![p] = @ \ {q}]
  /\ out' = [out EXCEPT ![p][q] = {}]
  /\ UNCHANGED <<store, made, unconfirmed, open, pending, work>>

\* Mutant: the table is not persistent.
RestartUnsaved(p) ==
  /\ upsets < MaxUpsets
  /\ upsets' = upsets + 1
  /\ store' = [store EXCEPT ![p] = {}]
  /\ routes' = [routes EXCEPT ![p] = {}]
  /\ auth' = [auth EXCEPT ![p] = {}]
  /\ pending' = [pending EXCEPT ![p] = NoDeliveries]
  /\ out' = [out EXCEPT ![p] = [q \in Phone |-> {}]]
  /\ work' = [work EXCEPT ![p] = << >>]
  /\ UNCHANGED <<made, unconfirmed, open>>

\* BleSync.stop followed by start, or a new process: the table, the pending
\* catalog and the board configuration are persistent, everything else is not.
Restart(p) ==
  /\ upsets < MaxUpsets
  /\ upsets' = upsets + 1
  /\ routes' = [routes EXCEPT ![p] = {}]
  /\ auth' = [auth EXCEPT ![p] = {}]
  /\ pending' = [pending EXCEPT ![p] = NoDeliveries]
  /\ out' = [out EXCEPT ![p] = [q \in Phone |-> {}]]
  /\ work' = [work EXCEPT ![p] = << >>]
  /\ UNCHANGED <<store, made, unconfirmed, open>>

\* A notification is not acknowledged by the stack, and a message with a frame
\* missing is never assembled.
Lose(p, q) ==
  /\ upsets < MaxUpsets
  /\ upsets' = upsets + 1
  /\ \E m \in out[p][q] : out' = [out EXCEPT ![p][q] = @ \ {m}]
  /\ UNCHANGED <<store, made, unconfirmed, open, routes, auth, pending, work>>

-----------------------------------------------------------------------------
(* Received messages: p handles m, which came over q's route to p *)

\* m is used up and p's own queues become `row`.
Consume(p, q, m, row) ==
  out' = [[out EXCEPT ![p] = row] EXCEPT ![q][p] = @ \ {m}]

\* The early returns of the handlers: no board is open, or the sender has not
\* authenticated itself.
Ignored(p, q) ==
  \E m \in out[q][p] :
    /\ ~ open[p] \/ (m.t # "bh" /\ q \notin auth[p])
    /\ Consume(p, q, m, out[p])
    /\ UNCHANGED <<store, made, unconfirmed, open, routes, auth, pending, work, upsets>>

HandleBoardHello(p, q) ==
  \E reply \in BOOLEAN :
    /\ Hello(reply) \in out[q][p]
    /\ open[p]
    /\ auth' = [auth EXCEPT ![p] = @ \cup {q}]
    /\ LET replied == IF reply THEN Offer(p, q, out[p][q], Hello(FALSE)) ELSE out[p][q]
       IN Consume(p, q, Hello(reply),
                  [out[p] EXCEPT ![q] = Offer(p, q, replied, MyFrontier(p))])
    /\ UNCHANGED <<store, made, unconfirmed, open, routes, pending, work, upsets>>

\* Ask for what the peer has and we lack; send what we have and the peer lacks.
HandleBoardFrontier(p, q) ==
  \E m \in {x \in out[q][p] : x.t = "bf"} :
    /\ open[p] /\ q \in auth[p]
    /\ LET missing == MissingRanges(Frontier(store[p]), m.feeds)
           asked == IF missing = {} THEN out[p][q]
                    ELSE Offer(p, q, out[p][q], WantMsg(FirstRanges(missing)))
           ahead == AheadOf(store[p], m.feeds)
       IN /\ Consume(p, q, m, [out[p] EXCEPT ![q] = OfferOps(p, q, asked, ahead)])
          /\ pending' = [pending EXCEPT ![p][q] = Delivering(p, q, asked, ahead)]
    /\ UNCHANGED <<store, made, unconfirmed, open, routes, auth, work, upsets>>

HandleBoardWant(p, q) ==
  \E m \in {x \in out[q][p] : x.t = "bw"} :
    /\ open[p] /\ q \in auth[p]
    /\ LET asked == Asked(store[p], m.w)
       IN /\ Consume(p, q, m, [out[p] EXCEPT ![q] = OfferOps(p, q, @, asked)])
          /\ pending' = [pending EXCEPT ![p][q] = Delivering(p, q, out[p][q], asked)]
    /\ UNCHANGED <<store, made, unconfirmed, open, routes, auth, work, upsets>>

\* A new operation is stored, acknowledged and relayed; a gap before it is
\* announced at once.
HandleBoardOperation(p, q, o) ==
  /\ OpMsg(o) \in out[q][p]
  /\ open[p] /\ q \in auth[p]
  /\ ~ Refused(store[p], o)
  /\ store' = [store EXCEPT ![p] = @ \cup {o}]
  /\ LET acked == Offer(p, q, out[p][q], AckMsg(OpId(o)))
         reached == Frontier(store'[p])
         told == IF o.seq > reached[o.author] + 1
                 THEN Offer(p, q, acked, FrontierMsg(reached)) ELSE acked
     IN Consume(p, q, OpMsg(o),
                [r \in Phone |-> IF r = q THEN told
                                 ELSE IF r \in auth[p] THEN OfferOps(p, r, out[p][r], {o})
                                 ELSE out[p][r]])
  /\ pending' = [pending EXCEPT ![p] = [r \in Phone |->
                   IF r \in auth[p] \ {q} THEN Delivering(p, r, out[p][r], {o})
                   ELSE pending[p][r]]]
  /\ UNCHANGED <<made, unconfirmed, open, routes, auth, work, upsets>>

\* One that the table refuses is acknowledged all the same.
HandleKnownOperation(p, q, o) ==
  /\ OpMsg(o) \in out[q][p]
  /\ open[p] /\ q \in auth[p]
  /\ Refused(store[p], o)
  /\ Consume(p, q, OpMsg(o), [out[p] EXCEPT ![q] = Offer(p, q, @, AckMsg(OpId(o)))])
  /\ UNCHANGED <<store, made, unconfirmed, open, routes, auth, pending, work, upsets>>

\* The delivery is done; an own event is reported to the page as acknowledged
\* (cb_board_event_acked), if it was still pending here.
HandleBoardAck(p, q) ==
  \E i \in {m.i : m \in {x \in out[q][p] : x.t = "ba"}} :
    LET done == {o \in DOMAIN pending[p][q] : OpId(o) = i}
    IN /\ open[p] /\ q \in auth[p]
       /\ Consume(p, q, AckMsg(i), out[p])
       /\ pending' = [pending EXCEPT ![p][q] =
                        [o \in DOMAIN pending[p][q] \ done |-> pending[p][q][o]]]
       /\ unconfirmed' = [unconfirmed EXCEPT ![p] =
                            @ \ {o.nr : o \in {x \in done : x.author = p}}]
       /\ UNCHANGED <<store, made, open, routes, auth, work, upsets>>

\* An entry of q's signed feed reaches p through the host's Wi-Fi peering
\* (rx_event): its operation is recorded and broadcast, but not acknowledged.
ConsumeLogEntry(p, q, o) ==
  /\ open[p]
  /\ p # q /\ {p, q} \in Wifi
  /\ o.author = q
  /\ upsets < MaxUpsets
  /\ upsets' = upsets + 1
  /\ store' = IF Refused(store[p], o) THEN store ELSE [store EXCEPT ![p] = @ \cup {o}]
  /\ work' = [work EXCEPT ![p] = Append(@, OpMsg(o))]
  /\ UNCHANGED <<made, unconfirmed, open, routes, auth, pending, out>>

-----------------------------------------------------------------------------

OpsIn(msgs) == {m.w : m \in {x \in msgs : x.t = "bo"}}

User(p) == OpenBoard(p) \/ WriteBoardEvent(p) \/ CloseBoard(p)

Worker(p) ==
  \/ GreetAll(p)
  \/ \E o \in store[p] : QueueForAll(p, o)
  \/ \E announce \in BOOLEAN : SyncTask(p, announce)
  \/ Kick(p)

Link(p, q) == RouteUp(p, q) \/ RouteDown(p, q) \/ Lose(p, q)

Receive(p, q) ==
  \/ Ignored(p, q)
  \/ HandleBoardHello(p, q)
  \/ HandleBoardFrontier(p, q)
  \/ HandleBoardWant(p, q)
  \/ \E o \in OpsIn(out[q][p]) : HandleBoardOperation(p, q, o) \/ HandleKnownOperation(p, q, o)
  \/ HandleBoardAck(p, q)
  \/ \E o \in store[q] : ConsumeLogEntry(p, q, o)

Next ==
  \/ \E p \in Phone : User(p) \/ Worker(p) \/ Restart(p)
  \/ \E p, q \in Phone : Link(p, q) \/ Receive(p, q)

Spec == Init /\ [][Next]_vars

\* The worker keeps running its periodic task, the radio finds peers in range
\* again, and a route delivers what it queued unless it fails: hellos, frontiers
\* and the rest do not hold each other back for ever.  Nothing is owed by a
\* phone's user, nor by the broadcasts that only make things faster.
Fairness ==
  /\ \A p \in Phone : WF_vars(SyncTask(p, TRUE))
  /\ \A p \in Phone : \A q \in Phone \ {p} :
       /\ WF_vars(RouteUp(p, q))
       /\ WF_vars(HandleBoardHello(p, q))
       /\ WF_vars(HandleBoardFrontier(p, q))
       /\ WF_vars(Ignored(p, q) \/ HandleBoardWant(p, q) \/ HandleBoardAck(p, q)
                   \/ \E o \in OpsIn(out[q][p]) : HandleBoardOperation(p, q, o)
                                               \/ HandleKnownOperation(p, q, o))

FairSpec == Spec /\ Fairness

-----------------------------------------------------------------------------
(* Properties *)

\* The state has the shape the code gives it.
TypeOK ==
  /\ store \in [Phone -> SUBSET Op]
  /\ made \in [Phone -> 0 .. MaxOps]
  /\ unconfirmed \in [Phone -> SUBSET (1 .. MaxOps)]
  /\ open \in [Phone -> BOOLEAN]
  /\ routes \in [Phone -> SUBSET Phone]
  /\ auth \in [Phone -> SUBSET Phone]
  /\ DOMAIN pending = Phone
  /\ \A p, q \in Phone :
       /\ DOMAIN pending[p] = Phone
       /\ DOMAIN pending[p][q] \subseteq Op
       /\ \A o \in DOMAIN pending[p][q] : pending[p][q][o] \in 0 .. MaxAttempts
  /\ out \in [Phone -> [Phone -> SUBSET Msg]]
  /\ work \in [Phone -> Seq(Msg)]
  /\ upsets \in Nat

\* One author sequence number stands for one operation on all phones together,
\* through restarts, closings and relays (the unique index only guards one
\* table; two phones that disagreed would never repair it, because frontiers
\* compare numbers and not contents).
NoForkedSequence ==
  \A p, q \in Phone : \A x \in store[p], y \in store[q] :
    x.author = y.author /\ x.seq = y.seq => x = y

\* When the page stops showing an own event as pending, another phone has
\* stored the operation (handleBoardAck, cb_board_event_acked).
ConfirmedIsStored ==
  \A p \in Phone : \A n \in 1 .. made[p] :
    n \notin unconfirmed[p] =>
      \E q \in Phone \ {p} : \E x \in store[q] : OpId(x) = <<p, n>>

\* A phone never announces, retries or relays what it could not serve: a
\* frontier under way claims no more than its sender's table holds, and each
\* delivery in progress is of a recorded operation.
NothingClaimedUnstored ==
  \A p, q \in Phone :
    /\ DOMAIN pending[p][q] \subseteq store[p]
    /\ \A m \in out[p][q] : m.t = "bf" =>
         \A a \in Phone : 1 .. m.feeds[a] \subseteq SeqsOf(store[p], a)

\* A recorded operation is never lost or replaced, whatever fails.
NeverForgets == [][\A p \in Phone : store[p] \subseteq store'[p]]_vars

\* The protocol implements the replicated log.
Log == INSTANCE BoardOpLog
ImplementsLog == Log!Spec

\* Every author's gapless prefix is the same on all phones that have the board
\* open, for ever from some time on: with messages, routes and acknowledgements
\* lost, deliveries given up after MAX_BOARD_DELIVERY_ATTEMPTS and phones
\* restarted, retry and the exchange of frontiers still repair the difference.
PrefixesAgree ==
  \A p, q \in Phone : open[p] /\ open[q] => Frontier(store[p]) = Frontier(store[q])
Convergence == <>[]PrefixesAgree
=============================================================================
