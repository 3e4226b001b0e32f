--------------------------- MODULE FrameTransport ---------------------------
(***************************************************************************)
(* How one phone hands its messages to its peers: a message is cut into    *)
(* frames (makeFrames), each link queues them (BleOutboundQueue), one      *)
(* frame at a time is given to Android and waits for its callback          *)
(* (drainClient, drainServer, onCharacteristicWrite, onNotificationSent),  *)
(* and the peer puts the messages together again (receiveFrame).           *)
(*                                                                         *)
(* Abstractions.  A message is its number, a frame's payload the message   *)
(* it was cut from.  All messages have the same encoding kind.  A step is  *)
(* what a thread does under the locks of a link; the drain that follows it *)
(* is remembered in due or next and done in a step of its own, so any      *)
(* other thread may come between.  A retry delay is not measured.  Peers   *)
(* never switch notifications off (they write no DISABLE value).           *)
(***************************************************************************)
EXTENDS Naturals, SequencesExt, Subsequences

CONSTANTS
  Client,      \* links on which this phone writes to the peer
  Server,      \* links on which this phone notifies the peer
  Key,         \* messageQueueKey of the messages
  Greeting,    \* the key of the message a new link starts with
  Urgency,     \* Urgency[k]: whether messages with key k have priority (isPriorityMessage)
  Frames,      \* Frames[k]: frames of a message with key k
  MaxFrames,   \* MAX_QUEUED_FRAMES_PER_LINK
  Reserve,     \* MAX_PRIORITY_FRAME_RESERVE
  MaxFailures, \* MAX_FRAME_OPERATION_FAILURES
  MaxInbound,  \* MAX_INBOUND_MESSAGES
  IdSpace,     \* message ids are numbers modulo IdSpace: 2^16
  MaxMessages, \* bound: messages in all
  MaxUpsets    \* bound: failures, disconnections, stops and frames lost

Link == Client \cup Server

ASSUME LinkAssumption == Client \cap Server = {} /\ Greeting \in Key
ASSUME MessageAssumption ==
  /\ Urgency \in [Key -> (SUBSET BOOLEAN) \ {{}}]
  /\ Frames \in [Key -> Nat \ {0}]
ASSUME LimitAssumption ==
  /\ MaxFrames \in Nat \ {0} /\ Reserve \in 0 .. (MaxFrames - 1)
  /\ MaxFailures \in Nat \ {0} /\ MaxInbound \in Nat
  /\ MaxMessages \in Nat /\ IdSpace \in Nat /\ MaxMessages < IdSpace
  /\ MaxUpsets \in Nat

VARIABLES
  state,   \* state[l]: "none", "open" (connected) or "ready" (ready, subscribed)
  queue,   \* queue[l]: the frames waiting, and the keys of unfinished messages
  busy,    \* busy[l]: the frame in flight, if any
  active,  \* the server link that sends (activeServerLink), if any
  failures,\* failures[l]: operations that failed in a row
  due,     \* links that drainClient or drainServer is about to be called for
  next,    \* calls of drainNextServer about to be made
  air,     \* air[l]: frames that Android has and the peer has not
  inbound, \* inbound[l]: messages the peer has received in part, by id
  handled, \* handled[l]: payloads that the peer put together and processed
  nextId,  \* nextMessageId
  process, \* which process of the app is running
  upsets   \* how many of what MaxUpsets bounds have happened

vars == <<state, queue, busy, active, failures, due, next, air, inbound, handled,
          nextId, process, upsets>>

-----------------------------------------------------------------------------
(* Messages, frames and the queue of a link *)

\* Mutant: messages are not numbered.
FrameUnnumbered(n, k, urgent, seq) ==
  [msg |-> <<process, n>>, id |-> 0, key |-> k, urgent |-> urgent,
   seq |-> seq, total |-> Frames[k]]

\* A message is identified by the process and the number it got there.
Frame(n, k, urgent, seq) ==
  [msg |-> <<process, n>>, id |-> n % IdSpace, key |-> k, urgent |-> urgent,
   seq |-> seq, total |-> Frames[k]]

IsLast(f) == f.seq = f.total

EmptyQueue == [urgent |-> << >>, normal |-> << >>, keys |-> {}]

IsIdle(q) == q.urgent = << >> /\ q.normal = << >>

Waiting(q) == ToSet(q.urgent) \cup ToSet(q.normal)

Pending(l) == Len(queue[l].urgent) + Len(queue[l].normal) + Len(busy[l])

\* Mutant: the frame in flight does not count.
FitsInQueue(l, k, urgent) ==
  Len(queue[l].urgent) + Len(queue[l].normal) + Frames[k] <=
    IF urgent THEN MaxFrames ELSE MaxFrames - Reserve

Fits(l, k, urgent) ==
  Pending(l) + Frames[k] <= IF urgent THEN MaxFrames ELSE MaxFrames - Reserve

\* An urgent message that waits among the normal ones moves up.
Promoted(q, k) ==
  LET same == {i \in DOMAIN q.normal : q.normal[i].key = k}
      moved == Pick(q.normal, same)
  IN [q EXCEPT !.normal = Pick(@, DOMAIN q.normal \ same),
               !.urgent = @ \o [i \in 1 .. Len(moved) |-> [moved[i] EXCEPT !.urgent = TRUE]]]

Added(q, k, urgent) ==
  LET frames == [i \in 1 .. Frames[k] |-> Frame(nextId, k, urgent, i)]
  IN IF urgent THEN [q EXCEPT !.urgent = @ \o frames, !.keys = @ \cup {k}]
     ELSE [q EXCEPT !.normal = @ \o frames, !.keys = @ \cup {k}]

First(q) == IF q.urgent # << >> THEN Head(q.urgent) ELSE Head(q.normal)

WithoutFirst(q) ==
  IF q.urgent # << >> THEN [q EXCEPT !.urgent = Tail(@)] ELSE [q EXCEPT !.normal = Tail(@)]

PutBack(q, f) ==
  IF f.urgent THEN [q EXCEPT !.urgent = <<f>> \o @] ELSE [q EXCEPT !.normal = <<f>> \o @]

\* Mutant: frames that move up lose completesMessage.
CompletedNormal(q, f) ==
  IF IsLast(f) /\ ~ f.urgent THEN [q EXCEPT !.keys = @ \ {f.key}] ELSE q

Completed(q, f) == IF IsLast(f) THEN [q EXCEPT !.keys = @ \ {f.key}] ELSE q

-----------------------------------------------------------------------------
(* Offering a message to a link *)

Init ==
  /\ state = [l \in Link |-> "none"]
  /\ queue = [l \in Link |-> EmptyQueue]
  /\ busy = [l \in Link |-> << >>]
  /\ active = {}
  /\ failures = [l \in Link |-> 0]
  /\ due = {}
  /\ next = {}
  /\ air = [l \in Link |-> << >>]
  /\ inbound = [l \in Link |-> << >>]
  /\ handled = [l \in Link |-> {}]
  /\ nextId = 1
  /\ process = 1
  /\ upsets = 0

\* enqueue and the call of drainClient or drainServer when it returned true, or
\* that follows in any case.
Offer(l, k, urgent, anyway) ==
  /\ nextId <= MaxMessages
  /\ nextId' = nextId + 1
  /\ LET known == k \in queue[l].keys
         taken == ~ known /\ Fits(l, k, urgent)
     IN /\ queue' = [queue EXCEPT ![l] =
                       IF taken THEN Added(@, k, urgent)
                       ELSE IF known /\ urgent THEN Promoted(@, k) ELSE @]
        /\ due' = IF known \/ taken \/ anyway THEN due \cup {l} ELSE due

\* sendJsonToPeer chose this link: a client link may still be setting up.
Enqueue(l, k, urgent) ==
  /\ state[l] = "ready" \/ (l \in Client /\ state[l] = "open")
  /\ Offer(l, k, urgent, FALSE)
  /\ UNCHANGED <<state, busy, active, failures, next, air, inbound, handled, process, upsets>>

\* connectTo, or a peer that connects to our server.
Connect(l) ==
  /\ state[l] = "none"
  /\ state' = [state EXCEPT ![l] = "open"]
  /\ UNCHANGED <<queue, busy, active, failures, due, next, air, inbound, handled, nextId,
                 process, upsets>>

\* markClientReady, or the peer subscribes: the greeting is sent, and a client
\* link starts with what was queued during its setup.
Ready(l) ==
  /\ state[l] = "open"
  /\ state' = [state EXCEPT ![l] = "ready"]
  /\ \E urgent \in Urgency[Greeting] : Offer(l, Greeting, urgent, l \in Client)
  /\ UNCHANGED <<busy, active, failures, next, air, inbound, handled, process, upsets>>

-----------------------------------------------------------------------------
(* Sending *)

\* Mutant: activeServerLink is not looked at.
CanStartBeside(l) == state[l] = "ready" /\ busy[l] = << >> /\ ~ IsIdle(queue[l])

\* What drainClient and drainServer check under their locks.
CanStart(l) ==
  /\ state[l] = "ready" /\ busy[l] = << >> /\ ~ IsIdle(queue[l])
  /\ l \in Server => active = {}

DrainNothing(l) ==
  /\ l \in due /\ ~ CanStart(l)
  /\ due' = due \ {l}
  /\ UNCHANGED <<state, queue, busy, active, failures, next, air, inbound, handled, nextId,
                 process, upsets>>

Drain(l) ==
  /\ l \in due /\ CanStart(l)
  /\ due' = due \ {l}
  /\ busy' = [busy EXCEPT ![l] = <<First(queue[l])>>]
  /\ queue' = [queue EXCEPT ![l] = WithoutFirst(@)]
  /\ active' = IF l \in Server THEN {l} ELSE active
  /\ air' = [air EXCEPT ![l] = Append(@, First(queue[l]))]
  /\ UNCHANGED <<state, failures, next, inbound, handled, nextId, process, upsets>>

\* A call of drainNextServer that avoids the links in `previous` if it can, and
\* those in `exclude` altogether.
Call(previous, exclude) == [previous |-> previous, exclude |-> exclude]

\* The callback reports success.  A write is answered by the peer; a
\* notification is merely sent.
Sent(l) ==
  /\ busy[l] # << >>
  /\ l \in Client => air[l] = << >>
  /\ queue' = [queue EXCEPT ![l] = Completed(@, busy[l][1])]
  /\ busy' = [busy EXCEPT ![l] = << >>]
  /\ failures' = [failures EXCEPT ![l] = 0]
  /\ IF l \in Server
     THEN active' = {} /\ next' = next \cup {Call({l}, {})} /\ UNCHANGED due
     ELSE due' = due \cup {l} /\ UNCHANGED <<active, next>>
  /\ UNCHANGED <<state, air, inbound, handled, nextId, process, upsets>>

\* Mutant: the other server links are not served after a link is gone.
GoneUnnoticed(l) == {}

\* Calls of drainNextServer that the end of link l makes.
Gone(l) == IF l \in Server THEN {Call({}, {})} ELSE {}

\* dropClientLink, dropServerLink.  What the peer has received in part stays.
Dropped(l) ==
  /\ state' = [state EXCEPT ![l] = "none"]
  /\ queue' = [queue EXCEPT ![l] = EmptyQueue]
  /\ busy' = [busy EXCEPT ![l] = << >>]
  /\ active' = active \ {l}
  /\ failures' = [failures EXCEPT ![l] = 0]
  /\ due' = due \ {l}
  /\ next' = next \cup Gone(l)
  /\ air' = [air EXCEPT ![l] = << >>]

\* The start or the callback failed and the frame waits again: handleClientWriteFailure
\* and handleServerSendFailure try again later or give the link up.
Failed(l, waiting) ==
  \/ /\ failures[l] + 1 >= MaxFailures
     /\ Dropped(l)
  \/ /\ failures[l] + 1 < MaxFailures
     /\ failures' = [failures EXCEPT ![l] = @ + 1]
     /\ due' = due \cup {l}
     /\ next' = IF l \in Server THEN next \cup {Call({l}, {l})} ELSE next
     /\ active' = active \ {l}
     /\ queue' = [queue EXCEPT ![l] = waiting]
     /\ busy' = [busy EXCEPT ![l] = << >>]
     /\ UNCHANGED <<state, air>>

\* Android is busy and takes no frame.
StartFailed(l) ==
  /\ l \in due /\ CanStart(l)
  /\ upsets < MaxUpsets /\ upsets' = upsets + 1
  /\ Failed(l, queue[l])
  /\ UNCHANGED <<inbound, handled, nextId, process>>

\* The callback reports a failure.  The peer may get the frame all the same.
SendFailed(l) ==
  /\ busy[l] # << >>
  /\ upsets < MaxUpsets /\ upsets' = upsets + 1
  /\ Failed(l, PutBack(queue[l], busy[l][1]))
  /\ UNCHANGED <<inbound, handled, nextId, process>>

\* The link breaks, its setup takes too long, or no callback comes in time
\* (FRAME_OPERATION_TIMEOUT_MS).
Drop(l) ==
  /\ state[l] # "none"
  /\ upsets < MaxUpsets /\ upsets' = upsets + 1
  /\ Dropped(l)
  /\ UNCHANGED <<inbound, handled, nextId, process>>

\* drainNextServer
NextServer(call) ==
  /\ next' = next \ {call}
  /\ LET able == {l \in Server \ call.exclude : CanStart(l)}
     IN IF able = {} THEN UNCHANGED due
        ELSE \E l \in IF able \subseteq call.previous THEN able ELSE able \ call.previous :
               due' = due \cup {l}
  /\ UNCHANGED <<state, queue, busy, active, failures, air, inbound, handled, nextId,
                 process, upsets>>

-----------------------------------------------------------------------------
(* Receiving *)

LoseFrame(l) ==
  /\ air[l] # << >>
  /\ upsets < MaxUpsets /\ upsets' = upsets + 1
  /\ air' = [air EXCEPT ![l] = Tail(@)]
  /\ UNCHANGED <<state, queue, busy, active, failures, due, next, inbound, handled, nextId,
                 process>>

\* The payloads of message f.id received so far, with that of f.
Collected(parts, f) ==
  LET old == IF f.id \in DOMAIN parts THEN parts[f.id].chunks ELSE << >>
  IN [s \in DOMAIN old \cup {f.seq} |-> IF s = f.seq THEN f.msg ELSE old[s]]

With(parts, f) ==
  [i \in DOMAIN parts \cup {f.id} |->
     IF i = f.id THEN [total |-> f.total, chunks |-> Collected(parts, f)] ELSE parts[i]]

Without(parts, i) == [j \in DOMAIN parts \ {i} |-> parts[j]]

\* receiveFrame: ignored without room; a mismatch discards the message; the
\* last missing frame completes it.
ReceiveFrame(l) ==
  /\ air[l] # << >>
  /\ air' = [air EXCEPT ![l] = Tail(@)]
  /\ LET f == Head(air[l])
         parts == inbound[l]
         known == f.id \in DOMAIN parts
         full == ~ known /\ Cardinality(DOMAIN parts) >= MaxInbound
         differs == known /\ parts[f.id].total # f.total
         chunks == Collected(parts, f)
         done == ~ full /\ ~ differs /\ Cardinality(DOMAIN chunks) = f.total
     IN /\ inbound' = [inbound EXCEPT ![l] =
                         IF full THEN parts
                         ELSE IF differs \/ done THEN Without(parts, f.id) ELSE With(parts, f)]
        /\ handled' = IF done THEN [handled EXCEPT ![l] = @ \cup {chunks}] ELSE handled
  /\ UNCHANGED <<state, queue, busy, active, failures, due, next, nextId, process, upsets>>

\* pruneInbound, or the peer's BleSync.stop: what made no progress is forgotten.
Prune(l, i) ==
  /\ i \in DOMAIN inbound[l]
  /\ inbound' = [inbound EXCEPT ![l] = Without(@, i)]
  /\ UNCHANGED <<state, queue, busy, active, failures, due, next, air, handled, nextId,
                 process, upsets>>

-----------------------------------------------------------------------------
(* The end of BleSync *)

NoLinks ==
  /\ upsets < MaxUpsets /\ upsets' = upsets + 1
  /\ state' = [l \in Link |-> "none"]
  /\ queue' = [l \in Link |-> EmptyQueue]
  /\ busy' = [l \in Link |-> << >>]
  /\ active' = {}
  /\ failures' = [l \in Link |-> 0]
  /\ due' = {}
  /\ next' = {}
  /\ air' = [l \in Link |-> << >>]

\* stop: message numbers go on from where they were.
Stop == NoLinks /\ UNCHANGED <<inbound, handled, nextId, process>>

\* The app is killed and started again: they start from 1 again.
KillApp ==
  /\ NoLinks
  /\ nextId' = 1
  /\ process' = process + 1
  /\ UNCHANGED <<inbound, handled>>

Next ==
  \/ \E l \in Link, k \in Key : \E urgent \in Urgency[k] : Enqueue(l, k, urgent)
  \/ \E l \in Link : Connect(l) \/ Ready(l) \/ Drop(l)
  \/ \E l \in Link : DrainNothing(l) \/ Drain(l) \/ StartFailed(l) \/ Sent(l) \/ SendFailed(l)
  \/ \E call \in next : NextServer(call)
  \/ \E l \in Link : LoseFrame(l) \/ ReceiveFrame(l) \/ \E i \in DOMAIN inbound[l] : Prune(l, i)
  \/ Stop \/ KillApp

Spec == Init /\ [][Next]_vars
-----------------------------------------------------------------------------
(* Properties *)

IsFrame(f) ==
  /\ f.key \in Key /\ f.urgent \in BOOLEAN /\ f.total = Frames[f.key] /\ f.seq \in 1 .. f.total
  /\ f.msg[1] \in 1 .. process /\ f.id = f.msg[2] % IdSpace

\* The state has the shape the code gives it, and the queue keeps its bounds,
\* retries included: bulk traffic never takes the reserve of control messages
\* (enqueue, addFirst).
TypeOK ==
  /\ state \in [Link -> {"none", "open", "ready"}]
  /\ active \subseteq Server /\ due \subseteq Link
  /\ failures \in [Link -> 0 .. (MaxFailures - 1)]
  /\ \A c \in next : c.previous \subseteq Server /\ c.exclude \subseteq Server
  /\ \A l \in Link :
       /\ queue[l].keys \subseteq Key
       /\ Len(busy[l]) <= 1
       /\ \A f \in Waiting(queue[l]) \cup ToSet(busy[l]) \cup ToSet(air[l]) : IsFrame(f)
       /\ \A f \in ToSet(queue[l].urgent) : f.urgent
       /\ \A f \in ToSet(queue[l].normal) : ~ f.urgent
       /\ Pending(l) <= MaxFrames /\ Len(queue[l].normal) <= MaxFrames - Reserve
       /\ Cardinality(DOMAIN inbound[l]) <= MaxInbound

\* What a peer processes is one message, whole: never parts of two, whatever
\* frames were repeated, lost, overtaken or left over from a broken link
\* (receiveFrame, makeFrames).  "The receiver collects frames by message ID. It
\* processes the message only after every numbered frame is present"
\* (docs/SYNC_AND_MERGE.md, section 6).  Only an app that is killed within a
\* message may see its frames taken for parts of one it sends after its restart,
\* since numbering starts again while the peer keeps the old ones.
HandledWhole ==
  \A l \in Link : \A chunks \in handled[l] :
    \A i, j \in DOMAIN chunks : chunks[i] # chunks[j] => chunks[i][1] # chunks[j][1]

\* One server link sends at a time, and activeServerLink is that link: neither
\* a failure nor a link that is gone keeps the others from sending
\* (onNotificationSent, dropServerLink).
OneSender == \A l \in Server : busy[l] # << >> <=> active = {l}

\* A key that hides newer messages belongs to a message that is still to be
\* finished; one that stayed would silence its kind of message on this link
\* (BleOutboundQueue.complete, clear).
KeysHeld ==
  \A l \in Link : \A k \in queue[l].keys :
    \E f \in Waiting(queue[l]) \cup ToSet(busy[l]) : f.key = k /\ IsLast(f)

\* Frames that wait on a usable link are never forgotten: the link is sending,
\* or somebody is about to drain it, or to choose a server link to drain
\* (the drain that follows each callback, failure, timeout and drop).
NoStall ==
  \A l \in Link : state[l] = "ready" /\ ~ IsIdle(queue[l]) /\ busy[l] = << >> =>
    \/ l \in due
    \/ /\ l \in Server
       /\ \/ active # {}
          \/ \E s \in due \cap Server : CanStart(s)
          \/ \E c \in next : l \notin c.exclude
=============================================================================
