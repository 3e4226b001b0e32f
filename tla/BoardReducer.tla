---------------------------- MODULE BoardReducer ----------------------------
(***************************************************************************)
(* The page's reducer (collabboard.js): how the operations that a phone    *)
(* stored become the board it shows.  Every phone applies each operation   *)
(* when it arrives and keeps, per category, a sorted list of the newest    *)
(* ones; the visible board is computed from these lists.  Opening a board  *)
(* replays the stored operations in the order in which they were stored,   *)
(* from an empty state (cb_activate_room, cb_board_joined) or, within      *)
(* CB_QUICK_RESUME_MS of leaving the app, onto the saved state (cb_open).  *)
(*                                                                         *)
(* Abstractions.  An event is valid and for this board (cb_is_valid_event, *)
(* cb_normalize_event); coordinates, colours and texts are the event that  *)
(* carries them.  Order is the Lamport number l; wall clocks only make ids *)
(* and are left out.  Editing is blocked from the request of a replay to   *)
(* its end (cb_native_config_pending, board.css), so a replay is one step. *)
(***************************************************************************)
EXTENDS Naturals, FiniteSets, SequencesExt

CONSTANTS
  Phone,     \* ranks of the prefixes that event ids start with
  Kinds,     \* bound: the kinds of event users make
  Cap,       \* CB_MAX_OBJECTS, CB_MAX_MODS, ... by category
  MaxSeen,   \* CB_MAX_SEEN
  MaxEvents, \* bound: events in all
  MaxInbox   \* bound: events on their way to one page

VARIABLES
  db,     \* db[p]: the events p stored, in the order of the table
  inbox,  \* inbox[p]: stored events on their way to the page (wai.eval)
  page    \* page[p]: the reducer's state on p, tremola.collabboard

vars == <<db, inbox, page>>

-----------------------------------------------------------------------------
(* Events *)

Id == Phone \X Nat
NoTarget == << >>

\* Who made it, which one, the Lamport number, the kind and the event it is about.
Event == [by : Phone, nr : Nat, l : Nat, k : Kinds, t : Id \cup {NoTarget}]

EventId(e) == <<e.by, e.nr>>

\* cb_compare_events: the Lamport number, then the id.
Before(x, y) ==
  \/ x.l < y.l
  \/ x.l = y.l /\ x.by < y.by
  \/ x.l = y.l /\ x.by = y.by /\ x.nr < y.nr

CategoryOf == [s |-> "objects", m |-> "mods", k |-> "mods",
               d |-> "deletes", c |-> "clears", n |-> "names", x |-> "cancels"]
Category == {"objects", "mods", "deletes", "clears", "names", "cancels"}

ASSUME PhoneAssumption == Phone \subseteq Nat
ASSUME KindAssumption == Kinds \subseteq DOMAIN CategoryOf
ASSUME CapAssumption == Cap \in [Category -> Nat \ {0}]

\* The page remembers all events.  (With more of them than CB_MAX_SEEN a quick
\* resume may apply old ones again.)
ASSUME SeenAssumption == MaxSeen \in Nat /\ MaxEvents \in Nat /\ MaxEvents <= MaxSeen

EmptyPage == [lists |-> [c \in Category |-> << >>], seen |-> << >>, order |-> 0]

-----------------------------------------------------------------------------
(* Applying an event *)

Larger(a, b) == IF a < b THEN b ELSE a

\* Mutant: the list may be one too long.
NewestAndOne(n, s) == IF Len(s) <= n + 1 THEN s ELSE SubSeq(s, Len(s) - n, Len(s))

\* The last n elements of s: slice(-n).
Newest(n, s) == IF Len(s) <= n THEN s ELSE SubSeq(s, Len(s) - n + 1, Len(s))

\* Mutant: lists are in the order of arrival.
ArrivalOrder(s, e) == Append(s, e)

\* s.push(e) and sort(cb_compare_events), for a sorted s.
Sorted(s, e) ==
  InsertAt(s, 1 + Cardinality({i \in DOMAIN s : ~ Before(e, s[i])}), e)

Known(st, e) == Contains(st.seen, EventId(e))

\* Mutant: only own events advance the Lamport number.
OrderKept(st, e) == st.order

OrderAfter(st, e) == Larger(st.order, e.l)

\* cb_apply with cb_prune_state.
Apply(st, e) ==
  LET c == CategoryOf[e.k]
      listed == c = "objects" /\ \E x \in ToSet(st.lists[c]) : EventId(x) = EventId(e)
  IN IF Known(st, e) THEN [st EXCEPT !.order = OrderAfter(st, e)]
     ELSE [lists |-> IF listed THEN st.lists
                     ELSE [st.lists EXCEPT ![c] = Newest(Cap[c], Sorted(@, e))],
           seen |-> Newest(MaxSeen, Append(st.seen, EventId(e))),
           order |-> OrderAfter(st, e)]

\* The events of a log, one after the other.
Replay(st, log) ==
  LET after[n \in 0 .. Len(log)] ==
        IF n = 0 THEN st ELSE Apply(after[n - 1], log[n])
  IN after[Len(log)]

-----------------------------------------------------------------------------
(* The board that is shown, for the sets L[c] of events *)

Live(L, S) == {e \in S : \A x \in L["cancels"] : x.t # EventId(e)}

\* The newest of S, as a set of at most one event.
Latest(S) == {x \in S : \A y \in S : ~ Before(x, y)}

\* cb_visible_objects
VisibleIn(L) ==
  {o \in Live(L, L["objects"]) :
     /\ \A c \in Latest(Live(L, L["clears"])) : Before(c, o)
     /\ \A d \in Live(L, L["deletes"]) : d.t = EventId(o) => Before(d, o)}

\* cb_latest_mod
LatestMod(L, o, kind) ==
  Latest({m \in Live(L, L["mods"]) : m.t = EventId(o) /\ m.k = kind})

\* What cb_redraw draws, and the name cb_apply_synced_board_name shows.
BoardOf(L) ==
  [objects |-> [o \in VisibleIn(L) |-> <<LatestMod(L, o, "m"), LatestMod(L, o, "k")>>],
   name |-> Latest(Live(L, L["names"]))]

Listed(p) == [c \in Category |-> ToSet(page[p].lists[c])]
Board(p) == BoardOf(Listed(p))
Visible(p) == VisibleIn(Listed(p))

-----------------------------------------------------------------------------
(* Steps *)

Events == UNION {ToSet(db[p]) : p \in Phone}

Init ==
  /\ db = [p \in Phone |-> << >>]
  /\ inbox = [p \in Phone |-> << >>]
  /\ page = [p \in Phone |-> EmptyPage]

\* cb_write_board_event: a finished action of the user.  Moving, recolouring
\* and deleting need a visible object; a cancel comes from an old version.
Edit(p, k, t) ==
  /\ Cardinality(Events) < MaxEvents
  /\ CASE k \in {"m", "k", "d"} -> t \in {EventId(o) : o \in Visible(p)}
       [] k = "x" -> t \in {EventId(e) : e \in Events}
       [] OTHER -> t = NoTarget
  /\ LET e == [by |-> p, nr |-> 1 + Cardinality({x \in Events : x.by = p}),
               l |-> page[p].order + 1, k |-> k, t |-> t]
     IN /\ db' = [db EXCEPT ![p] = Append(@, e)]
        /\ page' = [page EXCEPT ![p] = Apply(@, e)]
  /\ UNCHANGED inbox

\* deliverBoardOperation: an operation that was not stored before is posted to
\* the page.
Receive(p, e) ==
  /\ e \in Events \ ToSet(db[p])
  /\ Len(inbox[p]) < MaxInbox
  /\ db' = [db EXCEPT ![p] = Append(@, e)]
  /\ inbox' = [inbox EXCEPT ![p] = Append(@, e)]
  /\ UNCHANGED page

\* cb_receive_board_operation
Deliver(p) ==
  /\ inbox[p] # << >>
  /\ page' = [page EXCEPT ![p] = Apply(@, Head(inbox[p]))]
  /\ inbox' = [inbox EXCEPT ![p] = Tail(@)]
  /\ UNCHANGED db

\* The page gets what was under way and then all that is stored, replayed onto
\* the state `from`.
ReplayOnto(p, from) ==
  /\ page' = [page EXCEPT ![p] = Replay(from, inbox[p] \o db[p])]
  /\ inbox' = [inbox EXCEPT ![p] = << >>]
  /\ UNCHANGED db

\* Close the board and open it again.
Reopen(p) == ReplayOnto(p, EmptyPage)

\* Come back to the app within the quick-resume time.
Resume(p) == ReplayOnto(p, page[p])

Next ==
  \/ \E p \in Phone, k \in Kinds :
       \E t \in {EventId(e) : e \in Events} \cup {NoTarget} : Edit(p, k, t)
  \/ \E p \in Phone : \E e \in Events : Receive(p, e)
  \/ \E p \in Phone : Deliver(p) \/ Reopen(p) \/ Resume(p)

Spec == Init /\ [][Next]_vars

-----------------------------------------------------------------------------
(* Properties *)

\* The lists hold stored events of their category within the caps, sorted.
TypeOK ==
  /\ db \in [Phone -> Seq(Event)]
  /\ inbox \in [Phone -> Seq(Event)]
  /\ \A p \in Phone :
       /\ page[p].order \in Nat
       /\ Len(page[p].seen) <= MaxSeen
       /\ \A c \in Category :
            LET s == page[p].lists[c]
            IN /\ Len(s) <= Cap[c]
               /\ \A i \in 1 .. Len(s) : /\ s[i] \in ToSet(db[p]) /\ CategoryOf[s[i].k] = c
                                        /\ i > 1 => ~ Before(s[i], s[i - 1])

\* The newest n of a set of events.
NewestOf(n, S) == {x \in S : Cardinality({y \in S : Before(x, y)}) < n}

OfCategory(c, S) == {e \in S : CategoryOf[e.k] = c}

\* The events the page of p was given.
Given(p) == ToSet(db[p]) \ ToSet(inbox[p])

\* The board is a function of the set of events given to the page: of each
\* category the newest, whatever the order and the number of their deliveries,
\* through closing, opening and resuming.  So phones with the same events show
\* the same board (cb_apply, cb_prune_state, cb_visible_objects).
BoardIsMerge ==
  \A p \in Phone :
    Board(p) = BoardOf([c \in Category |-> NewestOf(Cap[c], OfCategory(c, Given(p)))])

\* What the user does takes effect on the user's own phone, over everything
\* seen before, even what came from phones that are ahead in time: a clear
\* leaves nothing, a deleted object is gone, a moved or recoloured one has the
\* new place or colour (cb_next_order).
LocalEditWins ==
  [][\A p \in Phone : Len(db'[p]) > Len(db[p]) /\ Last(db'[p]).by = p =>
       LET e == Last(db'[p])
           shown == Board(p)'.objects
       IN /\ e.k = "c" => DOMAIN shown = {}
          /\ e.k = "d" => \A o \in DOMAIN shown : EventId(o) # e.t
          /\ e.k \in {"m", "k"} => \A o \in DOMAIN shown :
               EventId(o) = e.t => e \in shown[o][1] \cup shown[o][2]]_vars

=============================================================================
