----------------------------- MODULE BoardPage -----------------------------
(***************************************************************************)
(* Opening, replaying, closing and deleting boards on one phone: the page  *)
(* (collabboard.js) and the native part it talks to (BleSync.kt,           *)
(* WebAppInterface.kt).  A call of the page runs in the native part before *)
(* it returns; everything the native part has to say is posted (wai.eval)  *)
(* and reaches the page later, in order.  Replays and deletions are tasks  *)
(* of the worker, which posts between the page's steps.                    *)
(*                                                                         *)
(* Abstractions.  An operation is a number within its board, larger ones   *)
(* are newer (BoardReducer has the Lamport order), and carries a board     *)
(* name or a drawing.  Codes are the boards they open.  A user is patient  *)
(* (Hurried = FALSE) when he waits for the end of what he asked for before *)
(* he taps again.                                                          *)
(***************************************************************************)
EXTENDS Naturals, FiniteSets, SequencesExt, Subsequences

CONSTANTS
  Room,         \* boards, by their codes
  NoRoom,
  Name,         \* the names users give to boards
  DefaultName,  \* the name of a board that was given none
  Colors,       \* CB_BOARD_COLORS.length
  Unadmitted,   \* boards of older versions whose owner has not admitted this phone
  Outdated,     \* saved boards that parseConfig does not accept any more
  Hurried,      \* whether the user taps while an answer is due
  MaxOps,       \* bound: operations at a time
  MaxCalls,     \* bound: posts on their way to the page
  MaxStops      \* bound: how often Bluetooth is switched off

ASSUME BoardAssumption ==
  /\ IsFiniteSet(Room) /\ NoRoom \notin Room
  /\ Unadmitted \subseteq Room /\ Outdated \subseteq Room
  /\ Unadmitted \cap Outdated = {}
ASSUME BoundAssumption ==
  /\ Colors \in Nat /\ Hurried \in BOOLEAN
  /\ MaxOps \in Nat /\ MaxCalls \in Nat /\ MaxStops \in Nat

VARIABLES
  page,     \* the page's own variables
  catalog,  \* tremola.collabboardBoards, see BoardCatalog
  calls,    \* posts on their way to the page
  native,   \* BleSync: the open board, stored profiles, the worker
  db,       \* db[r]: the stored operations of board r
  stops     \* how often Bluetooth was switched off

vars == <<page, catalog, calls, native, db, stops>>

Catalog == INSTANCE BoardCatalog

-----------------------------------------------------------------------------
(* Operations, posts, tasks *)

Operation == [r : Room, n : 1 .. MaxOps, own : BOOLEAN, name : Name \union {DefaultName}]

\* A drawing carries no name of its own.
Drawing == DefaultName

Latest(S) == {o \in S : \A p \in S : p.n <= o.n}

\* cb_latest_board_name_event
NameEvent(S) == Latest({o \in S : o.name # Drawing})

Call(t, r, n, ok) == [t |-> t, r |-> r, n |-> n, ok |-> ok]

OpCall(o) == [t |-> "op", r |-> o.r, op |-> o]

\* The operations that were posted and have not reached the page.
Posted == {calls[i].op : i \in {j \in DOMAIN calls : calls[j].t = "op"}}

Task(t, r) == [t |-> t, r |-> r, started |-> FALSE, left |-> {}]

-----------------------------------------------------------------------------
(* The page's variables *)

Idle == [room |-> NoRoom, name |-> DefaultName, board |-> {},
         configuring |-> FALSE, setup |-> TRUE, front |-> FALSE,
         kind |-> "", force |-> FALSE, resume |-> NoRoom,
         loading |-> FALSE, done |-> FALSE, waiting |-> FALSE,
         remote |-> FALSE, timer |-> FALSE,
         deleting |-> NoRoom, busy |-> FALSE]

\* cb_begin_board_replay
BeginReplay(p, kind) ==
  [p EXCEPT !.loading = TRUE, !.done = FALSE, !.waiting = (kind = "join"),
            !.remote = kind \in {"join", "catchup"}, !.timer = FALSE]

\* cb_stop_board_replay
StopReplay(p) ==
  [p EXCEPT !.loading = FALSE, !.done = FALSE, !.waiting = FALSE,
            !.remote = FALSE, !.timer = FALSE]

\* tremola.collabboardRoom and tremola.collabboard are deleted.
WithoutRoom(p) == [p EXCEPT !.room = NoRoom, !.name = DefaultName, !.board = {}]

KindOr(p, default) == IF p.kind = "" THEN default ELSE p.kind

\* cb_apply_synced_board_name: the name of the newest name event is shown.
SyncedName(p) ==
  IF NameEvent(p.board) = {} THEN p.name
  ELSE (CHOOSE o \in NameEvent(p.board) : TRUE).name

WithSyncedName(p) == [p EXCEPT !.name = SyncedName(p)]

\* The catalog after cb_apply_synced_board_name.
NamedCatalog(p, cat) ==
  IF SyncedName(p) = p.name THEN cat
  ELSE Catalog!Remember(cat, p.room, SyncedName(p), FALSE)

Shown ==
  IF page.front /\ ~ page.setup /\ ~ page.loading THEN page.room ELSE NoRoom

\* Nothing the user asked for is still to come.
Settled ==
  /\ ~ page.loading /\ ~ page.busy
  /\ \A i \in DOMAIN calls : calls[i].t \notin {"configured", "code", "complete"}
  /\ native.worker = << >>

\* The user may tap.
Free == page.front /\ (Hurried \/ Settled) /\ Len(calls) < MaxCalls

-----------------------------------------------------------------------------
(* The native part *)

\* configureBoard with activateBoard
Activated(r, nm) ==
  IF r \in Outdated THEN native
  ELSE [native EXCEPT !.config = r, !.profile[r] = nm]

\* The boards that codes open.
Direct == Room \ (Unadmitted \union Outdated)

\* closeBoard
Closed == [native EXCEPT !.config = NoRoom]

\* replayBoardOperations, when executeWorker accepts the task.
ReplayAsked ==
  IF native.config # NoRoom /\ native.running
  THEN [native EXCEPT !.worker = Append(@, Task("replay", native.config))]
  ELSE native

\* Mutant: numbers start at zero.
NextNumberFromZero(r) ==
  Cardinality(db[r] \union {o \in page.board \union Posted : o.r = r})

NextNumber(r) ==
  1 + Cardinality(db[r] \union {o \in page.board \union Posted : o.r = r})

\* Mutant: operations of any board are applied.
ForAnyBoard(p, o) == TRUE

\* cb_normalize_event: an operation of another board is dropped.
ForBoard(p, o) == p.room = o.r

News(p, o) == ForBoard(p, o) /\ o \notin p.board

\* cb_apply: while the board loads, a new operation only puts off its end.
Applied(p, o) ==
  LET q == [p EXCEPT !.board = @ \union {o}]
  IN IF ~ News(p, o) THEN p
     ELSE IF p.loading THEN [q EXCEPT !.timer = @ \/ p.done]
     ELSE WithSyncedName(q)

CatalogAfter(p, o, cat) ==
  LET q == [p EXCEPT !.board = @ \union {o}]
  IN IF News(p, o) /\ ~ p.loading
     THEN Catalog!Remember(NamedCatalog(q, cat), p.room, SyncedName(q), TRUE)
     ELSE cat

\* cb_write_board_event with writeBoardEvent and the echo that appendLocalEvent
\* posts; q are the posts before it, p the page, nm a name or Drawing.  The
\* operation is stored for the board that is open in the native part.
Write(p, q, nm) ==
  LET o == [r |-> native.config, n |-> NextNumber(native.config),
            own |-> TRUE, name |-> nm]
      here == [o EXCEPT !.r = p.room]
  IN /\ db' = [db EXCEPT ![o.r] = @ \union {o}]
     /\ calls' = Append(q, OpCall(o))
     /\ page' = Applied(p, here)
     /\ catalog' = CatalogAfter(p, here, catalog)

AllOps == (UNION {db[r] : r \in Room}) \union page.board \union Posted

HasSpace == native.config # NoRoom /\ Cardinality(AllOps) < MaxOps

\* isAuthorizedBoardMember
CanWrite == HasSpace /\ native.config \notin Unadmitted

-----------------------------------------------------------------------------
(* Steps of the user *)

\* The setup form, without an open board.
InSetup == Free /\ page.setup

\* cb_new_pairing_code and cb_random_pairing_code: a code no saved board has.
NewCode(r) == ~ Catalog!Listed(catalog, r)

\* cb_create_board: a new code and a name; native openBoardByCode.
Create(r, nm) ==
  /\ InSetup
  /\ NewCode(r)
  /\ Catalog!NameAvailable(catalog, nm)
  /\ page' = [page EXCEPT !.kind = "create", !.force = TRUE, !.configuring = TRUE]
  /\ native' = Activated(r, nm)
  /\ calls' = Append(calls, Call("code", r, nm, TRUE))
  /\ UNCHANGED <<catalog, db, stops>>

\* cb_join_board: the name is the one the profile knows, if any.
Join(r) ==
  /\ InSetup
  /\ page' = [page EXCEPT !.kind = "join", !.force = FALSE, !.configuring = TRUE]
  /\ LET nm == IF native.profile[r] = NoRoom THEN DefaultName ELSE native.profile[r]
     IN /\ native' = Activated(r, nm)
        /\ calls' = Append(calls, Call("code", r, nm, TRUE))
  /\ UNCHANGED <<catalog, db, stops>>

\* cb_open_saved_board and cb_activate_room
OpenSaved(r) ==
  /\ InSetup
  /\ Catalog!Listed(catalog, r)
  /\ LET nm == Catalog!EntryOf(catalog, r).name IN
     /\ page' = [page EXCEPT !.kind = "saved", !.force = FALSE, !.room = r,
                             !.name = nm, !.board = {}, !.configuring = TRUE]
     /\ catalog' = Catalog!Remember(catalog, r, nm, TRUE)
     /\ native' = Activated(r, nm)
  /\ calls' = Append(calls, Call("configured", r, DefaultName, r \notin Outdated))
  /\ UNCHANGED <<db, stops>>

\* cb_close_board: the button above the board.
Close ==
  /\ Free
  /\ ~ page.setup
  /\ catalog' = IF page.room = NoRoom THEN catalog
                ELSE Catalog!Remember(catalog, page.room, page.name, TRUE)
  /\ native' = Closed
  /\ page' = [WithoutRoom(StopReplay(page))
                EXCEPT !.kind = "", !.force = FALSE, !.resume = NoRoom, !.setup = TRUE]
  /\ UNCHANGED <<calls, db, stops>>

\* onBackPressed: the app leaves the page and may resume within 30 seconds.
Leave ==
  /\ Free
  /\ page' = [page EXCEPT !.front = FALSE,
                          !.resume = IF page.room # NoRoom THEN page.room ELSE @]
  /\ UNCHANGED <<catalog, calls, native, db, stops>>

\* CB_QUICK_RESUME_MS
ResumeExpires ==
  /\ page.resume # NoRoom
  /\ page' = [page EXCEPT !.resume = NoRoom]
  /\ UNCHANGED <<catalog, calls, native, db, stops>>

\* cb_open without a board
OpenSetup ==
  /\ ~ page.front /\ page.room = NoRoom
  /\ page' = [page EXCEPT !.front = TRUE, !.setup = TRUE]
  /\ UNCHANGED <<catalog, calls, native, db, stops>>

\* cb_open with a board that is not resumed
OpenExpired ==
  /\ ~ page.front /\ page.room # NoRoom /\ page.resume # page.room
  /\ catalog' = Catalog!Remember(catalog, page.room, page.name, FALSE)
  /\ native' = Closed
  /\ page' = [WithoutRoom(StopReplay(page)) EXCEPT !.front = TRUE, !.setup = TRUE]
  /\ UNCHANGED <<calls, db, stops>>

\* cb_open within the time of a quick resume: the saved state is shown.
Resume ==
  /\ ~ page.front /\ page.room # NoRoom /\ page.resume = page.room
  /\ Len(calls) < MaxCalls
  /\ page' = [page EXCEPT !.front = TRUE, !.resume = NoRoom, !.kind = "resume",
                          !.force = FALSE, !.setup = FALSE, !.configuring = TRUE]
  /\ catalog' = Catalog!Remember(catalog, page.room, page.name, FALSE)
  /\ native' = Activated(page.room, page.name)
  /\ calls' = Append(calls, Call("configured", page.room, DefaultName,
                                 page.room \notin Outdated))
  /\ UNCHANGED <<db, stops>>

\* cb_write_board_event for a drawing
Draw ==
  /\ page.front /\ ~ page.setup /\ ~ page.loading
  /\ page.room # NoRoom /\ ~ page.configuring
  /\ Len(calls) < MaxCalls
  /\ CanWrite
  /\ Write(page, calls, Drawing)
  /\ UNCHANGED <<native, stops>>

-----------------------------------------------------------------------------
(* Deleting *)

\* cb_request_delete_board
RequestDelete(r) ==
  /\ InSetup /\ Catalog!Listed(catalog, r)
  /\ page' = [page EXCEPT !.deleting = r, !.busy = FALSE]
  /\ UNCHANGED <<catalog, calls, native, db, stops>>

\* cb_cancel_delete_board
CancelDelete ==
  /\ InSetup /\ page.deleting # NoRoom
  /\ page' = [page EXCEPT !.deleting = NoRoom, !.busy = FALSE]
  /\ UNCHANGED <<catalog, calls, native, db, stops>>

\* deleteBoard: not the open board, a stored profile, the right code.
MayDelete(r, right) ==
  native.config # r /\ native.profile[r] # NoRoom /\ right

\* cb_confirm_delete_board: the profile goes at once, the rows on the worker.
ConfirmDelete(right) ==
  /\ InSetup /\ page.deleting # NoRoom /\ ~ page.busy
  /\ LET r == page.deleting
         accepted == MayDelete(r, right)
     IN IF ~ Catalog!Listed(catalog, r)
        THEN /\ page' = [page EXCEPT !.deleting = NoRoom]
             /\ UNCHANGED <<calls, native>>
        ELSE /\ page' = [page EXCEPT !.busy = TRUE]
             /\ native' = IF ~ accepted THEN native
                          ELSE [native EXCEPT !.profile[r] = NoRoom,
                                  !.worker = IF native.running
                                             THEN Append(@, Task("delete", r)) ELSE @]
             /\ calls' = Append(calls, Call("started", r, DefaultName, accepted))
  /\ UNCHANGED <<catalog, db, stops>>

-----------------------------------------------------------------------------
(* The page handles a post *)

Post == Head(calls)
Rest == Tail(calls)
Handles(t) == calls # << >> /\ Post.t = t

\* cb_prepare_board_replay and cb_continue_board_load: the loading overlay is
\* up and the stored operations are asked for.
Load(p, kind) ==
  /\ page' = BeginReplay(p, kind)
  /\ native' = ReplayAsked
  /\ calls' = Rest

\* cb_board_configured
Configured ==
  /\ Handles("configured")
  /\ IF Post.ok
     THEN Load([page EXCEPT !.configuring = FALSE, !.setup = FALSE], KindOr(page, "saved"))
     ELSE /\ page' = [StopReplay(page) EXCEPT !.configuring = FALSE, !.setup = TRUE]
          /\ calls' = Rest
          /\ UNCHANGED native
  /\ UNCHANGED <<catalog, db, stops>>

\* cb_board_code_opened and cb_board_joined
CodeOpened ==
  /\ Handles("code")
  /\ LET nm == Catalog!StableName(catalog, Post.r, Post.n) IN
     /\ Load([page EXCEPT !.room = Post.r, !.name = nm, !.board = {},
                          !.configuring = FALSE, !.setup = FALSE],
             KindOr(page, "join"))
     /\ catalog' = Catalog!Remember(catalog, Post.r, nm, TRUE)
  /\ UNCHANGED <<db, stops>>

\* cb_receive_board_operation.  The first operation of somebody else after a
\* join puts the overlay up again until the peer has sent what it has.
Receive ==
  /\ Handles("op")
  /\ calls' = Rest
  /\ LET catchup == page.waiting /\ ~ Post.op.own
         p == IF catchup THEN [BeginReplay(page, "catchup") EXCEPT !.done = TRUE] ELSE page
     IN IF page.room = NoRoom THEN UNCHANGED <<page, catalog>>
        ELSE /\ page' = Applied(p, Post.op)
             /\ catalog' = CatalogAfter(p, Post.op, catalog)
  /\ UNCHANGED <<native, db, stops>>

\* Mutant: only operations put an end to the loading.
CompletedUntimed(p) == [p EXCEPT !.done = TRUE, !.force = FALSE]

Completed(p) == [p EXCEPT !.done = TRUE, !.force = FALSE, !.timer = p.loading]

\* cb_board_replay_complete with cb_ensure_board_name_event: a board without a
\* name event gets one, if its name was given by a user.
ReplayComplete ==
  /\ Handles("complete")
  /\ LET p == Completed(page)
         named == NameEvent(page.board) # {}
         publish == /\ ~ named
                    /\ page.force \/ page.name # DefaultName
                    /\ page.name # DefaultName
                    /\ ~ page.configuring /\ CanWrite
     IN \/ /\ page.room = NoRoom
           /\ calls' = Rest
           /\ UNCHANGED <<page, catalog, db>>
        \/ /\ page.room # NoRoom /\ publish
           /\ Write(p, Rest, page.name)
        \/ /\ page.room # NoRoom /\ ~ publish
           /\ calls' = Rest
           /\ page' = IF named THEN WithSyncedName(p) ELSE p
           /\ catalog' = IF named THEN NamedCatalog(page, catalog) ELSE catalog
           /\ UNCHANGED db
  /\ UNCHANGED <<native, stops>>

\* cb_board_delete_started
DeleteStarted ==
  /\ Handles("started")
  /\ page' = IF Post.ok THEN page ELSE [page EXCEPT !.busy = FALSE]
  /\ calls' = Rest
  /\ UNCHANGED <<catalog, native, db, stops>>

AfterDelete(p, ok) ==
  [p EXCEPT !.deleting = IF ok THEN NoRoom ELSE @, !.busy = FALSE]

\* cb_board_deleted
Deleted ==
  /\ Handles("deleted")
  /\ calls' = Rest
  /\ page' = AfterDelete(page, Post.ok)
  /\ catalog' = IF Post.ok THEN Catalog!Forget(catalog, Post.r) ELSE catalog
  /\ UNCHANGED <<native, db, stops>>

\* cb_board_access_rejected
AccessRejected ==
  /\ Handles("rejected")
  /\ calls' = Rest
  /\ page' = [WithoutRoom(StopReplay(page)) EXCEPT !.configuring = FALSE, !.setup = TRUE]
  /\ catalog' = IF page.room = NoRoom THEN catalog ELSE Catalog!Forget(catalog, page.room)
  /\ UNCHANGED <<native, db, stops>>

\* cb_finish_board_replay, on its timer.  CB_REPLAY_REMOTE_QUIET_MS is longer
\* than a replay waits for the worker and pauses between two operations.
ReplayTimer ==
  /\ page.timer
  /\ page.remote => /\ Posted = {}
                    /\ \A i \in DOMAIN native.worker : native.worker[i].t # "replay"
  /\ LET p == [page EXCEPT !.loading = FALSE, !.done = FALSE, !.remote = FALSE,
                           !.timer = FALSE, !.kind = ""]
     IN IF page.room = NoRoom
        THEN page' = p /\ UNCHANGED catalog
        ELSE /\ page' = WithSyncedName(p)
             /\ catalog' = Catalog!Remember(NamedCatalog(p, catalog), p.room,
                                            SyncedName(p), TRUE)
  /\ UNCHANGED <<calls, native, db, stops>>

-----------------------------------------------------------------------------
(* The worker, the other phones, Bluetooth, the app *)

Busy(t) == native.worker # << >> /\ Head(native.worker).t = t
Work == Head(native.worker)
HasRoom == Len(calls) < MaxCalls

\* The query of a replay: getRoomOperations.
ReplayStart ==
  /\ Busy("replay") /\ ~ Work.started
  /\ native' = [native EXCEPT !.worker[1] =
                  [Work EXCEPT !.started = TRUE, !.left = db[Work.r]]]
  /\ UNCHANGED <<page, catalog, calls, db, stops>>

\* deliverBoardOperation for the next row
ReplayRow ==
  /\ Busy("replay") /\ Work.started /\ Work.left # {} /\ HasRoom
  /\ LET o == CHOOSE x \in Work.left : \A y \in Work.left : x.n <= y.n IN
     /\ calls' = Append(calls, OpCall(o))
     /\ native' = [native EXCEPT !.worker[1].left = @ \ {o}]
  /\ UNCHANGED <<page, catalog, db, stops>>

\* Mutant: the end is announced while rows are left.
EndedEarly(w) == w.started

Ended(w) == w.started /\ w.left = {}

\* The end of a replay is announced without the board's name.
ReplayEnd ==
  /\ Busy("replay") /\ Ended(Work) /\ HasRoom
  /\ calls' = Append(calls, Call("complete", NoRoom, DefaultName, TRUE))
  /\ native' = [native EXCEPT !.worker = Tail(@)]
  /\ UNCHANGED <<page, catalog, db, stops>>

\* deleteRoom on the worker; the database may fail.
DeleteRows(ok) ==
  /\ Busy("delete") /\ HasRoom
  /\ db' = IF ok THEN [db EXCEPT ![Work.r] = {}] ELSE db
  /\ calls' = Append(calls, Call("deleted", Work.r, DefaultName, ok))
  /\ native' = [native EXCEPT !.worker = Tail(@)]
  /\ UNCHANGED <<page, catalog, stops>>

\* handleBoardOperation: another phone's operation is stored and posted.
Nearby(nm) ==
  /\ native.running /\ native.config # NoRoom /\ HasRoom
  /\ HasSpace
  /\ LET o == [r |-> native.config, n |-> NextNumber(native.config),
               own |-> FALSE, name |-> nm]
     IN /\ db' = [db EXCEPT ![o.r] = @ \union {o}]
        /\ calls' = Append(calls, OpCall(o))
  /\ UNCHANGED <<page, catalog, native, stops>>

\* handleBoardReject: the board of an older version is full.
Rejected ==
  /\ native.running /\ native.config \in Unadmitted /\ HasRoom
  /\ native' = Closed
  /\ calls' = Append(calls, Call("rejected", native.config, DefaultName, TRUE))
  /\ UNCHANGED <<page, catalog, db, stops>>

\* stop: the tasks that wait are dropped, one that runs goes on.
BluetoothOff ==
  /\ native.running /\ stops < MaxStops
  /\ native' = [native EXCEPT !.running = FALSE,
                              !.worker = Pick(@, {i \in DOMAIN @ : @[i].started})]
  /\ stops' = stops + 1
  /\ UNCHANGED <<page, catalog, calls, db>>

\* start
BluetoothOn ==
  /\ ~ native.running
  /\ native' = [native EXCEPT !.running = TRUE]
  /\ UNCHANGED <<page, catalog, calls, db, stops>>

\* The app is killed and started again: the open board is remembered on both
\* sides, and of what the page shows some part was saved.
Restart ==
  /\ \E saved \in {{}, page.board} :
       page' = [Idle EXCEPT !.room = page.room, !.name = page.name, !.board = saved]
  /\ calls' = << >>
  /\ native' = [native EXCEPT !.worker = << >>]
  /\ UNCHANGED <<catalog, db, stops>>

-----------------------------------------------------------------------------
(* The specification *)

Init ==
  /\ page = Idle
  /\ \E old \in SetToSeqs(Room \ Direct) :
       catalog = Catalog!Reconciled(
         [i \in DOMAIN old |-> [room |-> old[i], name |-> DefaultName,
                                color |-> Catalog!NoColor]])
  /\ calls = << >>
  /\ native = [config |-> NoRoom, profile |-> [r \in Room |-> IF r \in Unadmitted THEN DefaultName
                                          ELSE NoRoom],
               running |-> TRUE, worker |-> << >>]
  /\ db = [r \in Room |-> {}]
  /\ stops = 0

Tap ==
  \/ \E r \in Direct, nm \in Name : Create(r, nm)
  \/ \E r \in Direct : Join(r)
  \/ \E r \in Room : OpenSaved(r) \/ RequestDelete(r)
  \/ \E right \in BOOLEAN : ConfirmDelete(right)
  \/ Resume \/ Close \/ Leave \/ OpenSetup \/ OpenExpired \/ Draw \/ CancelDelete

HandlePost ==
  \/ Configured \/ CodeOpened \/ Receive \/ ReplayComplete
  \/ DeleteStarted \/ Deleted \/ AccessRejected

WorkerStep == ReplayStart \/ ReplayRow \/ ReplayEnd \/ DeleteRows(TRUE) \/ DeleteRows(FALSE)

Next ==
  \/ Tap
  \/ HandlePost
  \/ WorkerStep
  \/ ReplayTimer
  \/ ResumeExpires
  \/ \E nm \in Name \union {Drawing} : Nearby(nm)
  \/ Rejected
  \/ BluetoothOff
  \/ BluetoothOn
  \/ Restart

\* The page's thread, its timer and the worker go on.
Fairness ==
  /\ WF_calls(HandlePost)
  /\ WF_native(WorkerStep)
  /\ WF_page(ReplayTimer)

Spec == Init /\ [][Next]_vars /\ Fairness

-----------------------------------------------------------------------------
(* Properties *)

TypeOK ==
  /\ DOMAIN page = DOMAIN Idle
  /\ page.room \in Room \union {NoRoom} /\ page.board \subseteq Operation
  /\ page.name \in Name \union {DefaultName}
  /\ Catalog!Rooms(catalog) \subseteq Room
  /\ Cardinality(Catalog!Rooms(catalog)) = Len(catalog)
  /\ Len(calls) <= MaxCalls
  /\ native.config \in Room \union {NoRoom}
  /\ native.profile \in [Room -> Name \union {DefaultName, NoRoom}]
  /\ db \in [Room -> SUBSET Operation]
  /\ stops \in 0 .. MaxStops

\* A board that is shown is complete, as long as Bluetooth stays on: what is
\* stored for it is on the page or posted, whatever is opened, left, resumed,
\* closed, deleted, killed before.
ShowsStored ==
  Shown # NoRoom /\ stops = 0 => page.board \union {o \in Posted : o.r = Shown} = db[Shown]

\* Saved boards of one name have different colours, and one goes without only
\* when all are in use: through creating, joining, renaming, deleting.
CatalogColors == Catalog!UniqueColors(catalog) /\ Catalog!ColorsUsed(catalog)

\* What the user of the page is promised, see BoardSession.
Session == INSTANCE BoardSession
             WITH stored <- db, shown <- Shown,
                  content <- IF Shown = NoRoom THEN {} ELSE page.board

SessionPromise == Session!Spec

\* The user does not wait for ever, unless Bluetooth goes off: loading a board
\* ends, and a deletion that was confirmed is answered, after which the board is
\* gone or may be deleted again.  (A rejection that comes late takes the board
\* away and leaves the overlay.)
Awaiting == (page.loading /\ page.room # NoRoom) \/ page.busy
WaitingEnds == Awaiting ~> (~ Awaiting \/ stops # 0)

=============================================================================
