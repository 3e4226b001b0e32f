-------------------------- MODULE MCFrameTransport --------------------------
EXTENDS FrameTransport

\* A control message, an operation of two frames, and an entry of the signed
\* feed, whose priority depends on how it was asked for.
UrgencyOf == [k \in Key |-> CASE k = "hello" -> {TRUE} [] k = "operation" -> {FALSE}
                              [] k = "event" -> BOOLEAN]
FramesOf == [k \in Key |-> IF k = "hello" THEN 1 ELSE 2]

Untouched(l) == state[l] = "none" /\ inbound[l] = << >> /\ handled[l] = {}

\* One client link, with all messages and a process that is killed early; or the
\* server links, which share the notification slot, with nothing of the feed and
\* one frame of each on its way.
Focus ==
  /\ nextId < MaxMessages
  /\ \/ /\ \A l \in Server : Untouched(l)
        /\ process = 1 \/ (process = 2 /\ nextId <= 3)
     \/ /\ \A l \in Client : Untouched(l)
        /\ process = 1
        /\ \A l \in Server : Len(air[l]) <= 1 /\ "event" \notin queue[l].keys
=============================================================================
