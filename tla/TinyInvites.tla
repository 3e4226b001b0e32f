---------------------------- MODULE TinyInvites ----------------------------
(***************************************************************************)
(* Invitations and editors of one board in the tinySSB build               *)
(* (tinyssb/whiteboard/adapter.js).  Nobody decides who may edit: every    *)
(* phone computes it from the signed events it happens to have, in the     *)
(* order of their stamps, and shows the drawings of those it finds.        *)
(*                                                                         *)
(* Abstractions.  A stamp stands for an event's wall clock and its id,     *)
(* which breaks ties: no two are equal.  A phone's clock only moves        *)
(* forward; clocks of different phones are unrelated.  The host hands over *)
(* events of other feeds in any order.  What a board shows is the set of   *)
(* board events applied to it (BoardReducer says what comes of them).      *)
(* Names, contacts to verify, and boards from before there were            *)
(* invitations are left out.                                               *)
(***************************************************************************)
EXTENDS Integers, FiniteSets

CONSTANTS
  Person,
  Creator,
  None,
  MaxMembers,  \* CB_MAX_MEMBERS, 4
  MaxInvites,  \* WB_MAX_INVITES, 8
  Cooldown,    \* WB_INVITE_COOLDOWN_MS
  MaxStamp,    \* bound: stamps of invitations and answers
  Artists      \* bound: who draws, once each

ASSUME CreatorAssumption == Creator \in Person /\ None \notin Person
ASSUME BoundAssumption ==
  /\ IsFiniteSet(Person)
  /\ MaxMembers \in Nat \ {0} /\ MaxInvites \in Nat
  /\ Cooldown \in Nat /\ MaxStamp \in Nat

VARIABLES
  cache,   \* wb_room_events: what a phone has of the board
  open,    \* tremola.collabboardRoom: whether the phone is on the board
  listed,  \* whether the board is in the phone's catalog
  board    \* tremola.collabboard, and the catalog's state of a closed board

vars == <<cache, open, listed, board>>

Stamp == 1 .. MaxStamp

Event == [k : {"wc", "s"}, by : Person, at : {0}, of : {None}]
         \cup [k : {"wi"}, by : Person, at : Stamp, of : Person]
         \cup [k : {"wa", "wd"}, by : Person, at : Stamp, of : Stamp]

-----------------------------------------------------------------------------
(* wb_meta_state: what follows from the events of the board *)

Of(c, kinds) == {e \in c : e.k \in kinds}

Managed(c) == Of(c, {"wc"}) # {}

OwnerOf(c) == (CHOOSE e \in Of(c, {"wc"}) : TRUE).by

Latest(S) == {e \in S : \A f \in S : f.at <= e.at}
First(S) == {e \in S : \A f \in S : e.at <= f.at}

\* The last of the invitations S that is for q, if there is one.
LatestFor(S, q) == Latest({i \in S : i.of = q})

\* After the invitations S, the invitation e counts if its invitee is not one
\* too many, or if the last one for the same invitee is long enough ago.
Counts(S, e) ==
  LET latest == LatestFor(S, e.of)
  IN /\ latest = {} => Cardinality({i.of : i \in S}) < MaxInvites
     /\ \A i \in latest : e.at - i.at >= Cooldown

\* Mutant: a new invitation takes the place of the previous one.
LatestInvitations(c) ==
  LET sent == {e \in Of(c, {"wi"}) : e.by = OwnerOf(c)}
      upTo[t \in 0 .. MaxStamp] ==
        IF t = 0 THEN {}
        ELSE LET new == {e \in sent : e.at = t /\ Counts(upTo[t - 1], e)}
             IN {i \in upTo[t - 1] : \A e \in new : e.of # i.of} \cup new
  IN upTo[MaxStamp]

\* The owner's invitations that count, in the order of their stamps.
Invitations(c) ==
  LET sent == {e \in Of(c, {"wi"}) : e.by = OwnerOf(c)}
      upTo[t \in 0 .. MaxStamp] ==
        IF t = 0 THEN {}
        ELSE upTo[t - 1] \cup {e \in sent : e.at = t /\ Counts(upTo[t - 1], e)}
  IN upTo[MaxStamp]

\* The first answer its invitee gave to an invitation, if there is one.
Response(c, i) == First({e \in Of(c, {"wa", "wd"}) : e.of = i.at /\ e.by = i.of})

Acceptances(c) == Of(UNION {Response(c, i) : i \in Invitations(c)}, {"wa"})

HasAcceptance(c, p) == \E e \in Acceptances(c) : e.by = p

\* The creator and the first who accepted.
Members(c) ==
  LET accepted == Acceptances(c)
  IN {OwnerOf(c)} \cup
     {e.by : e \in {a \in accepted :
        Cardinality({b.by : b \in {b \in accepted : b.at < a.at}}) < MaxMembers - 1}}

\* Mutant: edits of any feed are applied.
AnyoneCanEdit(c, p) == TRUE

CanEdit(c, p) == ~Managed(c) \/ p \in Members(c)

\* What rebuilding or replaying the board applies.
Drawn(c) == {e \in Of(c, {"s"}) : CanEdit(c, e.by)}

\* Mutant: only the first invitation can be answered.
PendingFirst(p) ==
  IF ~Managed(cache[p]) THEN {}
  ELSE {i \in First({i \in Invitations(cache[p]) : i.of = p}) :
          ~HasAcceptance(cache[p], p) /\ Response(cache[p], i) = {}}

\* wb_pending_invitations: the invitation p may answer, if any.  Of a declined
\* one the answer is there as well, so the mark of wb_declined adds nothing.
Pending(p) ==
  IF ~Managed(cache[p]) THEN {}
  ELSE {i \in LatestFor(Invitations(cache[p]), p) :
          ~HasAcceptance(cache[p], p) /\ Response(cache[p], i) = {}}

\* wb_invitation_status
Status(c, i) ==
  CASE i.of \in Members(c) /\ Of(Response(c, i), {"wd"}) = {} -> "Accepted"
    [] Of(Response(c, i), {"wd"}) # {} -> "Declined"
    [] i.of \notin Members(c) /\ Of(Response(c, i), {"wa"}) # {} -> "Board full"
    [] OTHER -> "Waiting"

\* wb_outgoing_invitations: whom the owner p of the board invited, and what the
\* list says of it.
Sent(p) ==
  LET c == cache[p]
  IN IF ~Managed(c) \/ OwnerOf(c) # p THEN {}
     ELSE {[to |-> i.of, status |-> Status(c, i)] :
             i \in UNION {LatestFor(Invitations(c), q) : q \in Person}}

\* whiteboard_invite_contacts: who has a button, on the board's own phone.
Offered(p) ==
  LET c == cache[p]
      invitees == {i.of : i \in Invitations(c)}
  IN IF ~open[p] \/ ~Managed(c) \/ OwnerOf(c) # p THEN {}
     ELSE {q \in Person \ Members(c) : q \in invitees \/ Cardinality(invitees) < MaxInvites}

\* whiteboard_show_invitations: the invitations with a button to accept.  The
\* list may be an older one, but whiteboard_accept_invite looks again.
Received(p) == {i \in Pending(p) : Cardinality(Members(cache[p])) < MaxMembers}

-----------------------------------------------------------------------------
(* Steps of a phone p *)

Store(p, e) == cache' = [cache EXCEPT ![p] = @ \cup {e}]

\* The stamps p's clock may give: new ones, and later than its own before.
Clock(p) ==
  {at \in Stamp : \A e \in UNION {cache[q] : q \in Person} :
     e.at # at /\ (e.by = p => e.at < at)}

\* Mutant: an acceptance does not rebuild the board.
AfterChangeNotRebuilt(p, e) ==
  LET c == cache[p] \cup {e}
      displaced == open[p] /\ HasAcceptance(c, p) /\ p \notin Members(c)
  IN /\ open' = [open EXCEPT ![p] = @ /\ ~displaced]
     /\ listed' = [listed EXCEPT ![p] = @ /\ ~displaced]
     /\ board' = [board EXCEPT ![p] = IF displaced THEN {} ELSE @]

AfterChange(p, e) ==
  LET c == cache[p] \cup {e}
      displaced == open[p] /\ HasAcceptance(c, p) /\ p \notin Members(c)
  IN /\ open' = [open EXCEPT ![p] = @ /\ ~displaced]
     /\ listed' = [listed EXCEPT ![p] = @ /\ ~displaced]
     /\ board' = [board EXCEPT ![p] = CASE displaced -> {}
                                        [] open[p] /\ e.k = "wa" -> Drawn(c)
                                        [] OTHER -> @]

\* cb_activate_room with the events e just published: a fresh board, replayed.
Activate(p, e) ==
  /\ open' = [open EXCEPT ![p] = TRUE]
  /\ listed' = [listed EXCEPT ![p] = TRUE]
  /\ board' = [board EXCEPT ![p] = Drawn(cache[p] \cup {e})]

\* cb_create_board
Create ==
  LET e == [k |-> "wc", by |-> Creator, at |-> 0, of |-> None]
  IN /\ \A q \in Person : cache[q] = {}
     /\ Store(Creator, e)
     /\ Activate(Creator, e)

\* whiteboard_invite_contact
Invite(p, q, at) ==
  LET c == cache[p]
      e == [k |-> "wi", by |-> p, at |-> at, of |-> q]
  IN /\ q \in Offered(p)
     /\ Counts(Invitations(c), e)
     /\ Store(p, e)
     /\ AfterChange(p, e)

\* wb_accept_pending_invitation
Accept(p, i, at) ==
  LET e == [k |-> "wa", by |-> p, at |-> at, of |-> i.at]
  IN /\ Cardinality(Members(cache[p])) < MaxMembers
     /\ Store(p, e)
     /\ Activate(p, e)

\* whiteboard_accept_invite
AcceptInvite(p, at) == \E i \in Received(p) : Accept(p, i, at)

\* cb_join_board, by the board's code, which fits one board only.
JoinBoard(p, at) == \E i \in Pending(p) : Accept(p, i, at)

\* whiteboard_decline_invite
Decline(p, i, at) ==
  LET e == [k |-> "wd", by |-> p, at |-> at, of |-> i.at]
  IN Store(p, e) /\ AfterChange(p, e)

\* cb_write_board_event
Draw(p) ==
  LET e == [k |-> "s", by |-> p, at |-> 0, of |-> None]
  IN /\ p \in Artists /\ e \notin cache[p]
     /\ open[p] /\ CanEdit(cache[p], p)
     /\ Store(p, e)
     /\ board' = [board EXCEPT ![p] = @ \cup {e}]
     /\ UNCHANGED <<open, listed>>

\* whiteboard_new_event: an event of another feed.
NewEvent(p, e) ==
  /\ e \notin cache[p]
  /\ Store(p, e)
  /\ IF e.k # "s" THEN AfterChange(p, e)
     ELSE /\ board' = IF open[p] /\ CanEdit(cache[p], e.by)
                      THEN [board EXCEPT ![p] = @ \cup {e}] ELSE board
          /\ UNCHANGED <<open, listed>>

\* cb_open_saved_board: the catalog's state, and the cache replayed onto it.
OpenSaved(p) ==
  /\ listed[p] /\ ~open[p]
  /\ open' = [open EXCEPT ![p] = TRUE]
  /\ board' = [board EXCEPT ![p] = @ \cup Drawn(cache[p])]
  /\ UNCHANGED <<cache, listed>>

\* whiteboard_back; a restart also ends with the board closed (whiteboard_open).
Leave(p) ==
  /\ open[p]
  /\ open' = [open EXCEPT ![p] = FALSE]
  /\ UNCHANGED <<cache, listed, board>>

Init ==
  /\ cache = [p \in Person |-> {}]
  /\ open = [p \in Person |-> FALSE]
  /\ listed = [p \in Person |-> FALSE]
  /\ board = [p \in Person |-> {}]

Step(p) ==
  \/ \E at \in Clock(p) :
       \/ \E q \in Person : Invite(p, q, at)
       \/ AcceptInvite(p, at) \/ JoinBoard(p, at)
       \/ \E i \in Pending(p) : Decline(p, i, at)
  \/ Draw(p)
  \/ \E e \in UNION {cache[q] : q \in Person} : NewEvent(p, e)
  \/ OpenSaved(p)
  \/ Leave(p)

Next == Create \/ \E p \in Person : Step(p)

Spec == Init /\ [][Next]_vars

-----------------------------------------------------------------------------
(* Properties *)

\* Whatever arrives, and however late, an editor only loses the place to those
\* who accepted before, and only on a board that is full: no invitation,
\* repeated or not, and no other answer costs anybody a place.
PlacesKept ==
  [][\A p \in Person : cache[p] # cache'[p] /\ Managed(cache[p]) =>
       LET old == Members(cache[p])
           new == Members(cache'[p])
           AcceptedAt(q) == {e.at : e \in {e \in Acceptances(cache'[p]) : e.by = q}}
       IN \A q \in old \ new :
            /\ Cardinality(new) = MaxMembers
            /\ \A r \in new \ {Creator} :
                 \E t \in AcceptedAt(r) : \A u \in AcceptedAt(q) : t < u]_vars

\* The board shows the drawings of its editors, of all of them.
Right(p) == board[p] = Drawn(cache[p])

\* A board that shows what its editors drew keeps doing so while it is open,
\* whoever joins, loses a place or draws, unless an invitation arrives after
\* its answer did: only acceptances rebuild the board.
StaysRight ==
  [][\A p \in Person :
       cache[p] # cache'[p] /\ open[p] /\ open'[p] /\ Right(p) /\ ~Right(p)' =>
         \E e \in cache'[p] \ cache[p] :
            e.k = "wi" /\ \E answer \in Of(cache[p], {"wa"}) : answer.of = e.at]_vars

\* Whoever the owner's list says is waited for can still answer, once both have
\* the same events: an invitation repeated after it was declined is another one.
\* (On a full board who lost the place is invited in vain.)
WaitedForCanAnswer ==
  \A p, q \in Person :
     /\ p # q /\ cache[p] = cache[q] /\ [to |-> q, status |-> "Waiting"] \in Sent(p)
     /\ Cardinality(Members(cache[p])) < MaxMembers
     => Received(q) # {}

\* Nothing is shown of a person from whom the phone has no acceptance.
OnlyInvited ==
  \A p \in Person : \A e \in board[p] :
     e.by = OwnerOf(cache[p]) \/ \E answer \in Of(cache[p], {"wa"}) : answer.by = e.by

=============================================================================
