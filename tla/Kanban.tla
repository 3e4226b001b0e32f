------------------------------ MODULE Kanban ------------------------------
(***************************************************************************)
(* The Kanban board of the browser preview (src/src/board.js) on the       *)
(* sorted timeline of scuttlesort.js, with the preview's channel between   *)
(* the tabs (virtual-backend.js).                                          *)
(*                                                                         *)
(* Each person has one tab: a backend that numbers and broadcasts events,  *)
(* and a page that keeps every operation of the board (board.operations),  *)
(* sorts them once it subscribes, and applies them: the new one alone when *)
(* it is the last of the timeline or of a kind the code calls independent, *)
(* otherwise all of them again, on top of the board that is there.         *)
(*                                                                         *)
(* Left out: the layout, the history list and unread counts, personal      *)
(* boards, the local reordering of lists and cards, and the invitations    *)
(* sent with a creation (an Invite action of their own).  An own operation *)
(* goes to the backend and comes back in one step.                         *)
(***************************************************************************)
EXTENDS ScuttleSort, TLC

CONSTANTS Person,
          Creator,    \* who creates the board
          Refs,       \* the references a new event may get (random in the code)
          MaxCards,   \* bound: cards created
          Assignees,  \* bound: who is assigned to cards
          Offliners,  \* bound: who uses the offline switch
          Texts,      \* the commands used to overwrite a card's name, description or colour
          Starts      \* where to start: events handled by all, their order, how many more

ASSUME KanbanAssumption ==
    /\ Creator \in Person
    /\ Refs \subseteq Names \ {0}
    /\ MaxCards \in Nat
    /\ Texts \subseteq {"item/rename", "item/setDescription", "item/color"}

VARIABLES log,      \* reference |-> the event issued under it
          board,    \* [Person -> the board kept by the page (tremola.board[bid])]
          inq,      \* [Person -> events broadcast to the tab, not handled yet]
          out,      \* [Person -> own events made while offline]
          offline,  \* [Person -> BOOLEAN]
          budget    \* bound: operations still to be issued

vars == <<log, board, inq, out, offline, budget>>

NoRef == 0

\* f with the value v for k.
Put(f, k, v) == [x \in DOMAIN f \cup {k} |-> IF x = k THEN v ELSE f[x]]

\* An event: who issued what, about which object, with which destination and causes.
Event(by, cmd, of, to, causes) ==
    [by |-> by, cmd |-> cmd, of |-> of, to |-> to, causes |-> causes]

\* Mutant of IndependentOPs: renaming a card is taken to be independent too.
RenameIndependent == {"column/create", "item/create", "column/remove", "item/remove", "leave", "item/rename"}

\* The commands whose place in the timeline the code takes to be irrelevant.
IndependentOPs == {"column/create", "item/create", "column/remove", "item/remove", "leave"}

\* The card fields that a command overwrites.
Overwrites == [c \in {"item/rename", "item/setDescription", "item/color"} |->
                 CASE c = "item/rename" -> "name"
                   [] c = "item/setDescription" -> "description"
                   [] c = "item/color" -> "color"]

NoBoard ==
    [known |-> FALSE, operations |-> {}, subscribed |-> FALSE, members |-> {}, name |-> NoRef,
     columns |-> <<>>, items |-> <<>>, active |-> 0,
     pending |-> [x \in Person |-> [from |-> {}, many |-> FALSE]],
     timeline |-> EmptyTimeline, tips |-> {}]

Member(b, p) == p \in b.members
Invited(b, p) == b.pending[p].from # {}

-----------------------------------------------------------------------------
(* Applying one operation (apply_operation). *)

\* Array splice at indexOf: an element that is not there costs the last one.
Without(ids, x) ==
    IF x \in Range(ids) THEN RemoveFirst(ids, x)
    ELSE IF ids = <<>> THEN ids ELSE Front(ids)

\* Everything of a list that stands behind pos moves up.
CloseGap(objects, list, pos) ==
    [o \in DOMAIN objects |->
       IF o \in list /\ objects[o].position > pos THEN [objects[o] EXCEPT !.position = @ - 1]
       ELSE objects[o]]

CreateColumn(b, r, e) ==
    LET again == r \in DOMAIN b.columns
        column == [name |-> r, ids |-> <<>>, active |-> 0, removed |-> FALSE,
                   position |-> IF again THEN b.columns[r].position ELSE b.active + 1]
    IN  IF again /\ b.columns[r].removed THEN b
        ELSE [b EXCEPT !.columns = Put(@, r, column), !.active = IF again THEN @ ELSE @ + 1]

RemoveColumn(b, r, e) ==
    IF e.of \notin DOMAIN b.columns THEN b
    ELSE LET columns == [b.columns EXCEPT ![e.of].removed = TRUE]
             left == {c \in DOMAIN columns : ~columns[c].removed}
         IN  [b EXCEPT !.columns = CloseGap(columns, left, columns[e.of].position),
                       !.active = @ - 1]

RenameColumn(b, r, e) ==
    IF e.of \notin DOMAIN b.columns THEN b ELSE [b EXCEPT !.columns[e.of].name = r]

CreateItem(b, r, e) ==
    LET again == r \in DOMAIN b.items
        item == [name |-> r, column |-> e.of, description |-> NoRef, color |-> NoRef,
                 assignees |-> {}, comments |-> <<>>, removed |-> FALSE,
                 position |-> IF again THEN b.items[r].position ELSE b.columns[e.of].active + 1]
    IN  IF e.of \notin DOMAIN b.columns \/ (again /\ b.items[r].removed) THEN b
        ELSE [b EXCEPT !.items = Put(@, r, item),
                       !.columns[e.of].ids = Append(@, r),
                       !.columns[e.of].active = IF again THEN @ ELSE @ + 1]

RemoveItem(b, r, e) ==
    IF e.of \notin DOMAIN b.items \/ b.items[e.of].removed THEN b
    ELSE LET item == b.items[e.of]
             ids == Without(b.columns[item.column].ids, e.of)
         IN  [b EXCEPT !.columns[item.column].ids = ids,
                       !.columns[item.column].active = @ - 1,
                       !.items = [CloseGap(@, Range(ids), item.position) EXCEPT ![e.of].removed = TRUE]]

MoveItem(b, r, e) ==
    IF e.of \notin DOMAIN b.items \/ e.to \notin DOMAIN b.columns THEN b
    ELSE LET item == b.items[e.of]
             taken == [b.columns EXCEPT ![item.column].ids = Without(@, e.of),
                                        ![item.column].active = @ - 1]
             columns == [taken EXCEPT ![e.to].active = @ + 1, ![e.to].ids = Append(@, e.of)]
             items == [b.items EXCEPT ![e.of].position = columns[e.to].active, ![e.of].column = e.to]
         IN  [b EXCEPT !.columns = columns,
                       !.items = CloseGap(items, Range(columns[item.column].ids), item.position)]

SetField(b, r, e) ==
    IF e.of \notin DOMAIN b.items THEN b ELSE [b EXCEPT !.items[e.of][Overwrites[e.cmd]] = r]

PostComment(b, r, e) ==
    IF e.of \notin DOMAIN b.items THEN b ELSE [b EXCEPT !.items[e.of].comments = Append(@, r)]

Assign(b, r, e) ==
    IF e.of \notin DOMAIN b.items THEN b
    ELSE [b EXCEPT !.items[e.of].assignees =
                     IF e.cmd = "item/assign" THEN @ \cup {e.to} ELSE @ \ {e.to}]

NoInvitation == [from |-> {}, many |-> FALSE]

\* An invitation is remembered until it is answered; applied again, once more.
Remember(b, x, r) ==
    [b EXCEPT !.pending[x] = [from |-> @.from \cup {r}, many |-> @.from # {}]]

InviteUser(b, r, e) == IF Member(b, e.of) THEN b ELSE Remember(b, e.of, r)

\* An acceptance counts when exactly one invitation is remembered: the code looks
\* up the whole list of them as if it were one reference.
AcceptInvite(b, p, e) ==
    IF ~Invited(b, e.by) \/ b.pending[e.by].many THEN b
    ELSE [b EXCEPT !.pending[e.by] = NoInvitation, !.members = @ \cup {e.by},
                   !.subscribed = @ \/ e.by = p]

\* A decline looks for a remembered invitation among its causes, which are text
\* where the invitations are numbers: it finds none.
DeclineInvite(b, r, e) == b

\* Mutant of Leave: who leaves stays on the list.
LeaveListed(b, r, e) == [b EXCEPT !.pending[e.by] = NoInvitation]

Leave(b, r, e) == [b EXCEPT !.members = @ \ {e.by}, !.pending[e.by] = NoInvitation]

CreateBoard(b, p, r, e) ==
    [b EXCEPT !.name = r, !.members = @ \cup {e.by}, !.subscribed = @ \/ e.by = p]

ApplyOperation(ev, p, r, b) ==
    LET e == ev[r] IN
    CASE e.cmd = "board/create" -> CreateBoard(b, p, r, e)
      [] e.cmd = "board/rename" -> [b EXCEPT !.name = r]
      [] e.cmd = "column/create" -> CreateColumn(b, r, e)
      [] e.cmd = "column/remove" -> RemoveColumn(b, r, e)
      [] e.cmd = "column/rename" -> RenameColumn(b, r, e)
      [] e.cmd = "item/create" -> CreateItem(b, r, e)
      [] e.cmd = "item/remove" -> RemoveItem(b, r, e)
      [] e.cmd = "item/moveTo" -> MoveItem(b, r, e)
      [] e.cmd \in DOMAIN Overwrites -> SetField(b, r, e)
      [] e.cmd = "item/post" -> PostComment(b, r, e)
      [] e.cmd \in {"item/assign", "item/unassign"} -> Assign(b, r, e)
      [] e.cmd = "invite" -> InviteUser(b, r, e)
      [] e.cmd = "invite/accept" -> AcceptInvite(b, p, e)
      [] e.cmd = "invite/decline" -> DeclineInvite(b, r, e)
      [] e.cmd = "leave" -> Leave(b, r, e)

-----------------------------------------------------------------------------
(* A page receives an event (kanban_new_event). *)

\* Operations without causes, or with one that has arrived.
Valid(t, n) == t.known[n] # {} \/ t.after[n] = {}

\* The valid operations are applied in timeline order.
ApplyAll(ev, p, b) ==
    LET linear == b.timeline.linear
        at[k \in 0..Len(linear)] ==
            IF k = 0 THEN b
            ELSE IF Valid(b.timeline, linear[k]) THEN ApplyOperation(ev, p, linear[k], at[k - 1])
                 ELSE at[k - 1]
    IN  at[Len(linear)]

\* The tips that the next operation will name as its causes.
WithTips(b) == [b EXCEPT !.tips = b.timeline.tips]

\* The timeline of some operations, which are added in the order of their
\* references (the numeric keys of board.operations).
Rebuilt(ev, operations) ==
    LET at[r \in 0..Max(Names)] ==
            IF r = 0 THEN EmptyTimeline
            ELSE IF r \in operations THEN Add(at[r - 1], r, ev[r].causes)
                 ELSE at[r - 1]
    IN  at[Max(Names)]

\* The board is emptied and built from its operations.
Reload(ev, p, b) ==
    WithTips(ApplyAll(ev, p,
      [b EXCEPT !.columns = <<>>, !.items = <<>>, !.active = 0,
                !.members = {}, !.pending = NoBoard.pending,
                !.timeline = Rebuilt(ev, b.operations)]))

\* The new operation alone, or all of them again.
ApplyNew(ev, p, r, b) ==
    IF b.timeline.indx[r] = Len(b.timeline.linear) \/ ev[r].cmd \in IndependentOPs
    THEN ApplyOperation(ev, p, r, b) ELSE ApplyAll(ev, p, b)

\* Mutant of Sorted: the tips are those the page had before.
SortedStaleTips(ev, p, r, b) ==
    [ApplyNew(ev, p, r, [b EXCEPT !.timeline = Add(@, r, ev[r].causes)])
       EXCEPT !.tips = b.timeline.tips]

\* A subscribed page sorts the event in and applies it, or everything.
Sorted(ev, p, r, b) ==
    WithTips(ApplyNew(ev, p, r, [b EXCEPT !.timeline = Add(@, r, ev[r].causes)]))

Kept(ev, p, r, b) ==
    LET e == ev[r] IN
    CASE e.cmd = "invite" /\ e.of = p -> Remember(b, p, r)
      [] e.cmd = "invite/accept" /\ e.by = p -> Reload(ev, p, [b EXCEPT !.subscribed = TRUE])
      [] e.cmd = "invite/decline" /\ e.by = p -> [b EXCEPT !.pending[p] = NoInvitation]
      [] OTHER -> b

Handled(ev, p, r, b) == IF b.subscribed THEN Sorted(ev, p, r, b) ELSE Kept(ev, p, r, b)

NewEvent(ev, p, r, b) ==
    LET e == ev[r]
        first == IF b.known THEN b ELSE [b EXCEPT !.known = TRUE, !.members = {e.by}]
        named == IF e.cmd # "board/create" THEN first
                 ELSE [first EXCEPT !.name = r, !.subscribed = @ \/ e.by = p]
        stored == [named EXCEPT !.operations = @ \cup {r}]
        left == IF e.cmd = "leave" /\ e.by = p
                THEN [stored EXCEPT !.pending[p] = NoInvitation, !.subscribed = FALSE] ELSE stored
    IN  IF r \in b.operations THEN named
        ELSE Handled(ev, p, r, left)

NewEvents(ev, p, b, queue) ==
    LET at[k \in 0..Len(queue)] == IF k = 0 THEN b ELSE NewEvent(ev, p, queue[k], at[k - 1])
    IN  at[Len(queue)]

\* An own answer takes the invitation off the page before its event comes back.
Answered(ev, p, r, b) ==
    IF ev[r].by = p /\ ev[r].cmd \in {"invite/accept", "invite/decline"}
    THEN [b EXCEPT !.pending[p] = NoInvitation] ELSE b

-----------------------------------------------------------------------------
(* A start: the events everybody has handled, and how many more are issued. *)

\* The commands about a list, about a card, and the others.
OnColumn == {"column/remove", "column/rename", "item/create"}
OnItem == {"item/remove", "item/moveTo", "item/rename", "item/setDescription", "item/color",
           "item/post", "item/assign", "item/unassign"}
OnBoard == {"board/create", "board/rename", "column/create", "invite", "invite/accept",
            "invite/decline", "leave"}
Commands == OnColumn \cup OnItem \cup OnBoard

\* A set of events with all their causes.
Closed(L, S) == \A m \in S : L[m].causes \subseteq S

\* a is among the causes of r, or their causes, and so on.
Precedes(L, a, r) == a # r /\ \A S \in SUBSET DOMAIN L : Closed(L, S) /\ r \in S => a \in S

\* An event is about something that its author saw.
AboutPrior(L, r) ==
  /\ L[r].cmd \in OnColumn =>
       L[r].of \in DOMAIN L /\ L[L[r].of].cmd = "column/create" /\ Precedes(L, L[r].of, r)
  /\ L[r].cmd \in OnItem =>
       L[r].of \in DOMAIN L /\ L[L[r].of].cmd = "item/create" /\ Precedes(L, L[r].of, r)
  /\ L[r].cmd = "item/moveTo" =>
       L[r].to \in DOMAIN L /\ L[L[r].to].cmd = "column/create" /\ Precedes(L, L[r].to, r)

\* What stands in a queue before place i.
Ahead(q, i) == {q[j] : j \in 1 .. (i - 1)}

\* Whoever has A and takes the queue in order has all causes of each event first.
Deliverable(L, A, q) ==
  /\ q \in Seq(DOMAIN L)
  /\ \A i \in 1 .. Len(q) : L[q[i]].causes \subseteq A \cup Ahead(q, i)

\* In a start events come after their causes and are about what their authors saw;
\* the board is created first, and once.
ASSUME StartsAssumption ==
    \A s \in Starts :
       /\ DOMAIN s.events \subseteq Names \ {0}
       /\ \A r \in DOMAIN s.events : s.events[r].cmd \in Commands /\ AboutPrior(s.events, r)
       /\ Deliverable(s.events, {}, s.order) /\ Range(s.order) = DOMAIN s.events
       /\ \A i \in 2..Len(s.order) : s.events[s.order[i]].cmd # "board/create"

\* What p's page keeps of the events of a start.
StartOf(ev, p, order) ==
    LET at[k \in 0..Len(order)] ==
            IF k = 0 THEN NoBoard
            ELSE NewEvent(ev, p, order[k], Answered(ev, p, order[k], at[k - 1]))
    IN  at[Len(order)]

Init ==
    \E s \in Starts :
       /\ log = s.events
       /\ board = [p \in Person |-> StartOf(log, p, s.order)]
       /\ budget = s.more
       /\ inq = [p \in Person |-> <<>>]
       /\ out = [p \in Person |-> <<>>]
       /\ offline = [p \in Person |-> FALSE]

Broadcast(p, queue) == [x \in Person |-> IF x = p THEN inq[x] ELSE inq[x] \o queue]

\* An event of p: its page handles it, the tab broadcasts it or queues it.  The
\* copy an online tab sends to itself follows at once and changes nothing.
Issue(p, cmd, of, to, causes) ==
    /\ budget > 0
    /\ budget' = budget - 1
    /\ \E r \in Refs \ DOMAIN log :
          /\ log' = Put(log, r, Event(p, cmd, of, to, causes))
          /\ board' = [board EXCEPT ![p] = NewEvent(log', p, r, Answered(log', p, r, @))]
          /\ IF offline[p]
             THEN out' = [out EXCEPT ![p] = Append(@, r)] /\ UNCHANGED inq
             ELSE inq' = Broadcast(p, <<r>>) /\ UNCHANGED out
    /\ UNCHANGED offline

\* The lists and cards on the screen.
Lists(b) == {c \in DOMAIN b.columns : ~b.columns[c].removed}
Cards(b) == {i \in DOMAIN b.items : ~b.items[i].removed /\ b.items[i].column \in Lists(b)}

\* Assumed online: made offline, the board takes its first name and the
\* subscription back when the tab hands the creation over again (README).
Create(p) ==
    p = Creator /\ log = <<>> /\ ~offline[p] /\ Issue(p, "board/create", NoRef, NoRef, {})

Rename(p) ==
    /\ board[p].subscribed
    /\ Issue(p, "board/rename", NoRef, NoRef, board[p].tips)

EditList(p) ==
    /\ board[p].subscribed
    /\ \/ Issue(p, "column/create", NoRef, NoRef, board[p].tips)
       \/ \E c \in Lists(board[p]), cmd \in {"column/remove", "column/rename"} :
             Issue(p, cmd, c, NoRef, board[p].tips)

CreateCard(p) ==
    /\ board[p].subscribed
    /\ Cardinality({r \in DOMAIN log : log[r].cmd = "item/create"}) < MaxCards
    /\ \E c \in Lists(board[p]) : Issue(p, "item/create", c, NoRef, board[p].tips)

\* The menu of a card offers the other lists; dragging also reaches its own.
EditCard(p) ==
    /\ board[p].subscribed
    /\ \E i \in Cards(board[p]) :
          \/ \E cmd \in Texts \cup {"item/remove", "item/post"} :
                Issue(p, cmd, i, NoRef, board[p].tips)
          \/ \E c \in Lists(board[p]) : Issue(p, "item/moveTo", i, c, board[p].tips)
          \/ \E x \in board[p].members \cap Assignees :
                Issue(p, IF x \in board[p].items[i].assignees THEN "item/unassign" ELSE "item/assign",
                      i, x, board[p].tips)

Invite(p) ==
    /\ board[p].subscribed
    /\ \E x \in Person \ {p} :
          /\ ~Member(board[p], x) /\ ~Invited(board[p], x)
          /\ Issue(p, "invite", x, NoRef, board[p].tips)

\* The answer names the invitations the page knows as its causes.
Answer(p) ==
    /\ ~board[p].subscribed /\ Invited(board[p], p)
    /\ \E cmd \in {"invite/accept", "invite/decline"} :
          Issue(p, cmd, NoRef, NoRef, board[p].pending[p].from)

LeaveBoard(p) == board[p].subscribed /\ Issue(p, "leave", NoRef, NoRef, board[p].tips)

Receive(p) ==
    /\ ~offline[p] /\ inq[p] # <<>>
    /\ board' = [board EXCEPT ![p] = NewEvent(log, p, Head(inq[p]), @)]
    /\ inq' = [inq EXCEPT ![p] = Tail(@)]
    /\ UNCHANGED <<log, out, offline, budget>>

\* The offline switch; back online, the tab hands over what it received, then
\* broadcasts what it made, to itself as well.  Bound: nobody goes offline when
\* nothing more is issued.
Toggle(p) ==
    /\ budget > 0 \/ offline[p]
    /\ offline' = [offline EXCEPT ![p] = ~@]
    /\ IF offline[p]
       THEN /\ board' = [board EXCEPT ![p] = NewEvents(log, p, @, inq[p] \o out[p])]
            /\ inq' = [Broadcast(p, out[p]) EXCEPT ![p] = <<>>]
            /\ out' = [out EXCEPT ![p] = <<>>]
       ELSE UNCHANGED <<board, inq, out>>
    /\ UNCHANGED <<log, budget>>

Next ==
    \E p \in Person :
       \/ Create(p) \/ Rename(p) \/ EditList(p) \/ CreateCard(p) \/ EditCard(p)
       \/ Invite(p) \/ Answer(p) \/ LeaveBoard(p)
       \/ Receive(p) \/ (p \in Offliners /\ Toggle(p))

Spec == Init /\ [][Next]_vars

-----------------------------------------------------------------------------
(* Properties. *)

\* What a person sees of the lists and cards, apart from where they stand.
Shown(b) ==
    [lists |-> [c \in Lists(b) |-> b.columns[c].name],
     cards |-> [i \in Cards(b) |->
                  [f \in {"name", "column", "description", "color", "assignees", "comments"} |->
                     b.items[i][f]]]]

\* Two pages that follow the board and hold the same operations show the same lists
\* and cards: names, texts, colours, people and places are those of the last
\* operation in the timeline, although one page applied each operation as it came,
\* another all of them again and again on the board it had, and a third built the
\* board from nothing (board.js:299-312 and 386-401).
SameOperationsSameCards ==
    \A p, q \in Person :
       /\ board[p].subscribed /\ board[q].subscribed
       /\ board[p].operations = board[q].operations
       => Shown(board[p]) = Shown(board[q])

\* The event e, issued as r, shows on the board b.
Shows(b, r, e) ==
    CASE e.cmd = "board/rename" -> b.name = r
      [] e.cmd = "column/create" -> r \in Lists(b)
      [] e.cmd = "column/remove" -> e.of \notin Lists(b)
      [] e.cmd = "column/rename" -> b.columns[e.of].name = r
      [] e.cmd = "item/create" -> r \in Cards(b)
      [] e.cmd = "item/remove" -> e.of \notin Cards(b)
      [] e.cmd = "item/moveTo" -> b.items[e.of].column = e.to
      [] e.cmd \in Texts -> b.items[e.of][Overwrites[e.cmd]] = r
      [] e.cmd = "item/assign" -> e.to \in b.items[e.of].assignees
      [] e.cmd = "item/unassign" -> e.to \notin b.items[e.of].assignees
      [] e.cmd = "item/post" -> r \in Range(b.items[e.of].comments)
      [] e.cmd = "invite" -> Invited(b, e.of)
      [] OTHER -> TRUE

\* What somebody does on the board shows on their own page at once, whatever other
\* people's operations it has sorted in before: the tips they were shown are its
\* causes, so it comes last in the timeline (board.js:315, scuttlesort.js:158).
OwnEditShows ==
    [][\A r \in DOMAIN log' \ DOMAIN log : Shows(board'[log'[r].by], r, log'[r])]_vars

\* Whoever a page that follows the board counts as a member created it or accepted an
\* invitation, and has not left since, although invitations, acceptances and
\* departures are applied again on a member list nobody resets (board.js:677-751).
MembersStand ==
    \A p \in Person :
       LET b == board[p]
           Answers(x) == {r \in b.operations : log[r].by = x /\
                            log[r].cmd \in {"board/create", "invite/accept", "leave"}}
       IN  b.subscribed =>
              \A x \in b.members :
                 \E r \in Answers(x) :
                    /\ log[r].cmd # "leave"
                    /\ \A s \in Answers(x) : b.timeline.indx[s] <= b.timeline.indx[r]

=============================================================================
