# Verification of the Collaboration Board

TLA+ models, model-checking runs and machine-checked proofs for the
Collaboration Board: a shared drawing board on Android phones that synchronise
over Bluetooth LE, without a server and without a master phone. Paths are
relative to the repository; `BleSync.kt`, `BoardProtocol.kt` and
`BoardOperationDAO.kt` are under `app/src/main/java/nz/scuttlebutt/tremola/ssb/`
(`peering/ble`, `db/daos`), `collabboard.js` under `miniApps/collabboard/src/`.

## 1. The system

| Component | State | Operations | Talks to |
| --- | --- | --- | --- |
| Replication (`BleSync.kt`, `BoardProtocol.kt`, `BoardOperationDAO.kt`) | the table `BoardOperation` (persistent), `boardConfig`, `authenticatedBoardPeers`, `pendingBoardDeliveries`, a queue per route, tasks of the single worker thread | open, close, write; handlers of hello `bh`, frontier `bf`, WANT `bw`, operation `bo`, acknowledgement `ba`; the two-second task; manual sync; entries of the signed feed | peers by messages; the page by `wai.eval` |
| Local deletion (`BleSync.deleteBoard`) | the board profile in the preferences, the table | delete, join again by code | the page, replication |
| Frame transport (`BleSync.kt`) | `BleOutboundQueue` (priority and normal frames), frame in flight, `inbound` partial messages | enqueue, drain, retry, give up, reassemble, prune | GATT callbacks |
| Page: reducer (`collabboard.js`) | `tremola.collabboard`: sorted lists of objects, mods, deletes, clears, names, cancels; ids seen; Lamport number | write, apply, prune, replay, redraw | the table through `collabboard:write`, `collabboard:read` and callbacks |
| Page: rooms (`collabboard.js`, `WebAppInterface.kt`) | current room, catalog of saved boards and their colours, replay progress, deletion in progress | create, join, open, resume, close, delete, name | native requests, answers posted by the native part, the worker |
| Page: canvas (`collabboard.js`) | tool, draft, drag, selection, captured pointer, fingers, edit view, full-screen view | pointer events, buttons, turning the phone, export | the reducer, the rooms |
| tinySSB variant (`tinyssb/whiteboard/adapter.js`) | cache of events, meta events (creation, invitation, acceptance, decline, profile) | invite, accept, decline, draw, rebuild | the feeds of tinySSB, the page |
| Membership and pairing (`BleSync.kt`, `BoardProtocol.kt`) | rosters, admissions, challenges, reservations, failure counts | probe, challenge, request, offer, reject, admit | peers by messages |
| Signed feeds over BLE (`BleSync.kt`, `TremolaState.kt`) | the log, `pendingEvents` | frontier, missing entries, ingest, drain | idle while a board is open |
| GATT links (`BleSync.kt`, `MainActivity.kt`) | client and server links, scan, advertising | connect, subscribe, time out, drop | Android's Bluetooth stack |
| Host page on the phone (`app/src/main/assets/web`) | contacts, conversations, screen and overlay, the mini app | read and write posts, look up people, scan codes, launch the board, back | the native part by requests and posted calls |
| Kanban board of the browser preview (`src/board.js`, `scuttlesort.js`, `virtual-backend.js`) | operations of a board, a sorted timeline of them, lists, cards, members; per tab a queue while offline | edit, invite, answer, leave, reload, go offline | the other tabs over a broadcast channel |
| Host application (Wi-Fi peering, handshake, discovery), chat and games of the preview | | | not part of the board |

### What makes it hard

- Nothing orders the phones. Operations are recorded locally, overtake each
  other over several routes, are relayed, repeated, lost and given up after
  twelve attempts; anti-entropy by frontiers repairs the rest.
- State is split between a persistent table, volatile queues and deliveries, a
  single worker thread and a page that is fed both live and by replay.
- Routes come and go, a phone restarts, and one side may believe that it is
  authenticated while the other has forgotten.
- Everything is bounded: queues with a reserve for control messages, twelve
  attempts, 24 operations per pulse, 16 ranges of 64, and the page's lists.
- A board can be deleted on one phone only, and joined again.
- A page and its native part are two threads: requests run at once, answers are
  posted and arrive behind other posts, when the user may have gone on.
- Browsers report fingers in many orders: lifted, cancelled, capture lost,
  leaving, with late reports of a finger that is gone.
- Two components let nobody decide. Editors of a tinySSB board and the order of a
  Kanban board are computed by each phone from what it happens to have.

### What makes each component correct

- Replication: numbers of an author are never reused, nothing recorded is lost,
  an acknowledgement means stored, frontiers never claim what is missing, and
  phones that stay in touch end with the same gapless history.
- Deletion: it does not harm what the other phones hold or will hold.
- Reducer: the board is a function of the set of events; a user's edit takes
  effect; replays show nothing new.
- Rooms: what is shown is the stored board; what the user waits for ends; boards
  of one name can be told apart.
- Canvas: no work is lost, no gesture is left over, nothing leaves the board or
  the screen.
- Transport: a message arrives whole or not at all, in spite of retries,
  process restarts, and links that are dropped half-way; a frame that waits is sent.
- Membership: no more than four, the same ones everywhere, no pairing that
  locks a board out for good.
- tinySSB: all phones derive the same editors from the same feeds, and show
  exactly what these drew.
- Host page: a private post that is logged can be read, an answer is about the
  person it was asked for, and back leads out.
- Kanban: the same operations give the same board, in whatever order they come.

`PROJECT.json` lists the components and the hazards, each hazard at its line
with the property that would notice it, or the reason why none does yet.

## 2. Modules

| Module | Models |
| --- | --- |
| `BoardOpLog` | abstract specification: a replicated log of numbered operations, no messages |
| `BoardSync` | the replication protocol; implements `BoardOpLog` |
| `BoardDelete` | `BoardSync` with `deleteBoard` and joining again |
| `BoardReducer` | the page's reducer, with the table as its input and replay on open and resume |
| `FrameTransport` | a phone's links: frames, outbound queues, callbacks, retries, reassembly at the peer |
| `BoardSession` | abstract specification: what the user of one phone is promised, no calls, tasks or timers |
| `BoardCatalog` | the saved boards and their colours (operators) |
| `BoardPage` | the page's rooms and the native part behind them, with `BoardCatalog`; implements `BoardSession` |
| `BoardCanvas` | fingers, tools, objects and the two views |
| `TinyInvites` | invitations, editors and drawings of the tinySSB variant |
| `ScuttleSort` | the incremental sort of `scuttlesort.js` (operators) |
| `Timeline` | one timeline while operations arrive in any order |
| `Kanban` | the Kanban boards of several tabs on `ScuttleSort` |
| `HostPage` | the page around the board, and what the native part posts to it |
| `Subsequences` | the part of a list that `filter`, `removeAll` or `removeIf` leaves (operators) |
| `..._proofs` | theorems about `BoardSync`, `BoardReducer`, `FrameTransport`, `BoardPage` with `BoardCatalog`, `BoardCanvas`, `TinyInvites`, `HostPage`, and `Timeline` and `Kanban` with `ScuttleSort` (section 5) |
| `MC...` | instances for TLC |

### BoardSync and the code

A phone is the rank of its feed id. `store` is the table; `open` says that
`boardConfig` is set (it is persistent); `routes[p]` are the peers with a ready
client link or a subscribed server link; `auth` is `authenticatedBoardPeers`;
`pending[p][q]` maps operations to the number of attempts
(`pendingBoardDeliveries`); `out[p][q]` is what p's queue to q holds or has on
the air; `work[p]` are the broadcasts that `executeWorker` posted, in order;
`unconfirmed` is the page's catalog of pending ids; `made` counts events, and
gives each its identity.

| Action | Code |
| --- | --- |
| `OpenBoard`, `CloseBoard` | `activateBoard`, `closeBoard` |
| `WriteBoardEvent` | `writeBoardEvent`: number, insert, post the broadcast |
| `GreetAll`, `QueueForAll` | the worker runs `sendBoardHelloToAll`, `queueBoardOperationForAll` |
| `SyncTask`, `Kick` | the two-second task in `start`, `kick` |
| `RouteUp`, `RouteDown`, `Restart`, `Lose` | `markClientReady` and the subscription callback, `dropClientLink` and `dropServerLink`, `stop` then `start` (or a new process), a notification or frame that never arrives |
| `HandleBoardHello`, `-Frontier`, `-Want`, `-Operation`, `-KnownOperation`, `-Ack` | the handlers of `handleJsonMessage`; a handler is one step because all run on the worker |
| `Ignored` | their early returns |
| `ConsumeLogEntry` | `consumeBoardLogEntryForFrontend` and `onLocalLogEntry` for an entry that the host received over Wi-Fi |

Left out of `BoardSync`: contents of an event, encryption and signatures (taken
to hold: only genuine operations are decoded), frames (a queue holds whole
messages and any of them may arrive next, since control messages overtake bulk
ones and a phone may have two links to a peer), the `hello` of the host
protocol (its effect on the board is that of a greeting), admissions and
rosters (at most four phones take part and `directAccess` is set). `stop`
followed by `start` is one step. The second broadcast that `onLocalLogEntry`
posts for an own event is not repeated, it equals a retry.

### BoardDelete and the code

`DeleteBoard` is refused while the board is open or without a profile, removes
the profile and posts `DeleteRoom` to the worker; `DeleteRows` is that task.
`JoinByCode` writes the profile again. `held` is history: what a table ever held.

### BoardReducer and the code

`db[p]` is the table in the order in which `getRoomOperations` returns it,
`inbox[p]` what `deliverBoardOperation` handed to the web view and the page has
not run yet, `page[p]` the reducer's state. `Apply` is `cb_apply` with
`cb_prune_state` (`Sorted` puts an event where sorting the list would); `VisibleIn`, `LatestMod` and `BoardOf` are what
`cb_visible_objects`, `cb_latest_mod` and `cb_redraw` compute. `Reopen` replays
the table onto an empty state, `Resume` onto the state the page kept
(`cb_open` within 30 seconds). The user cannot edit while a replay runs, so a
replay is one step. Event kinds keep their letters: `s` stands for any object
(stroke, text), `m` move or resize, `k` recolour, `d` delete, `c` clear, `n`
name, `x` cancel (made by earlier versions). Coordinates and texts are the
event that carries them; wall clocks only build ids and are left out.

### FrameTransport and the code

One phone sends over several links, on some as GATT client (`Client`: writes)
and on others as server (`Server`: notifications, which share the one slot
`active`, that is `activeServerLink`). `queue[l]` is `BleOutboundQueue`: urgent
frames, normal frames and the keys of unfinished messages. `busy[l]` is
`inFlightFrame`, `air[l]` what Android has and the peer has not, `inbound[l]`
the peer's partial messages of this channel, `handled[l]` what it put together
(by position, the message each payload came from).

A step is what one thread does under the locks of a link. The code then calls
`drainClient`, `drainServer` or `drainNextServer` without the lock, or schedules
the call; `due` and `next` remember such calls, so that any other thread comes
between. Both are sets: a second call with nothing in between has no effect.

| Action | Code |
| --- | --- |
| `Connect`, `Ready` | `connectTo` or a peer's connection; `markClientReady` or the peer's subscription, with the greeting |
| `Enqueue` | `sendJsonToPeer`, `makeFrames`, `enqueue` with coalescing and promotion |
| `Drain`, `DrainNothing`, `StartFailed` | `drainClient`, `drainServer`: a frame is started, there is nothing to do, Android is busy |
| `Sent`, `SendFailed` | `onCharacteristicWrite`, `onNotificationSent` |
| `Drop` | `dropClientLink`, `dropServerLink`: disconnect, timeout, failed setup |
| `NextServer` | `drainNextServer` |
| `ReceiveFrame`, `Prune` | the peer's `receiveFrame` and `pruneInbound` |
| `Stop`, `KillApp` | `stop`; the end of the process and a new one |

Left out: compression and MTU (a message with a given key has a fixed number of
frames), and a peer that switches notifications off, which no peer of this app
does. The code's limit of 64 partial messages is shared by all channels of the
receiver; here each has its own. Message ids would wrap only after 65535
messages within the two minutes that a partial message is kept, which BLE cannot
carry; the assumption `MaxMessages < IdSpace` says so.

### BoardPage, BoardCatalog, BoardSession and the code

`page` are the variables of `collabboard.js` that matter for rooms (`room` and
`board` are `tremola.collabboardRoom` and `tremola.collabboard`, `setup` the form,
`front` whether the mini app is on the screen, `kind` to `timer` the
`cb_replay_...` variables, `deleting` and `busy` the dialog), `calls` what
`wai.eval` has posted, `native` the open board, the profiles, whether Bluetooth
runs and the worker's tasks, `db` the table. Codes stand for the boards they open.

| Action | Code |
| --- | --- |
| `Create`, `Join`, `OpenSaved` | `cb_create_board`, `cb_join_board`, `cb_open_saved_board` with `openBoardByCode` and `configureBoard` |
| `Close`, `Leave`, `OpenSetup`, `OpenExpired`, `Resume`, `ResumeExpires` | `cb_close_board`; the back button; `cb_open` without a board, after and within 30 seconds |
| `Draw` | `cb_write_board_event` with `writeBoardEvent` and its echo |
| `RequestDelete`, `CancelDelete`, `ConfirmDelete` | the functions of these names, with `deleteBoard` |
| `Configured`, `CodeOpened`, `Receive`, `ReplayComplete`, `DeleteStarted`, `Deleted`, `AccessRejected` | the page runs a post |
| `ReplayTimer` | `cb_finish_board_replay` |
| `ReplayStart`, `ReplayRow`, `ReplayEnd`, `DeleteRows` | tasks of the worker |
| `Nearby`, `Rejected`, `BluetoothOff`, `BluetoothOn`, `Restart` | an operation or a rejection from another phone, `stop`, `start`, a killed app |

`BoardSession` has the table, the board on the screen and its content: a board is
shown only with all that is stored for it and not on its way, what is shown only
grows by operations of that board, and a board that is open is never erased.

Left out: pairing of older versions and copying the invitation, `cb_room_status`,
the branch for the browser preview. The list of pending ids is written and pruned
but read nowhere.

### BoardCanvas and the code

Both axes are treated alike by the code; the model has one. `ui` holds `cb_tool`,
`cb_draft`, `cb_drag`, `cb_sel`, `cb_pointer_id`, `cb_pending_text_point` and the
`cb_edit_...` variables, `view` and `editView` the two views, `hand` the fingers
and the reports still to come about those that are gone, `board` the visible
objects and whether the board is open, loading, left or resuming.

| Action | Code |
| --- | --- |
| `TouchDown`, `TouchMove`, `TouchUp`, `TouchCancel`, `CaptureLost`, `Leaves`, `Late` | `cb_down`, `cb_move`, `cb_up`, `cb_cancel`, `cb_lost_capture`, `cb_leave`, and such a report after the finger is gone |
| `ViewMove`, `ViewWheel`, `EnterView`, `ExitView`, `ResetAgain` | the full-screen view, and its delayed resets |
| `ToggleTool`, `DeleteSelected`, `ClearBoard` | the buttons |
| `OpenBoard`, `Load`, `FinishReplay`, `CloseBoard`, `BackPressed`, `Resume` | what rooms do to the canvas |
| `Remote`, `Turn` | an operation of another phone, turning the phone |

`ResetAgain` may happen at any time in the view; the code's timers run 80 and 260
milliseconds after entering it. Left out: colours and recolouring, dark mode,
export, the widths of texts, which of several objects is on top, and the points
within a stroke.

### TinyInvites and the code

`cache[p]` is `wb_room_events`, from which `Members`, `Invitations`, `Pending` and
`Sent` compute what `wb_meta_state`, `wb_pending_invitations` and
`wb_outgoing_invitations` do. `Create`, `Invite`, `AcceptInvite` (from the list),
`JoinBoard` (by typing the code), `Decline`, `Draw`, `OpenSaved`, `Leave` are the
buttons, `NewEvent` is `whiteboard_new_event`: the host hands over events of other
feeds in any order. A stamp stands for a wall clock and the id that breaks ties;
clocks only move forward on a phone and are unrelated between phones.

Left out: profiles and aliases, verification of contacts, boards of older
protocols, the limit of the cache (`WB_CACHE_LIMIT`), export.

### ScuttleSort, Timeline, Kanban and the code

`ScuttleSort` has the operations of class `Timeline` on a record: `Jump` and `Rise`
are `_jump` and `_rise`, and they are made in the code's order. `Wave` is `_visit`,
level by level where the code goes depth first: the ranks it ends with and the
nodes it has met are the same. Loops are recursive functions of the round.
`Timeline` adds one operation after the other (`Arrive`) and saves and restores
(`Restart`); `Depends` says what `_visit` throws an error for, without its search:
an operation would be among its own causes. Its specification is `TimelineSpec`.
Left out: the `notify` commands, which have no user, and the cycle check itself, since causes exist before their effects.

In `Kanban`, `board[p]` is `tremola.board[bid]` of p's tab, `inq` what the channel
has for a tab, `out` what an offline tab keeps. `ApplyOperation` is the function of
that name without its part about the screen. The user's actions (`Rename`,
`EditList`, `CreateCard`, `EditCard`, `Invite`, `Answer`, `LeaveBoard`) all go
through `Issue`; the copy that a tab sends to itself is handled in the same step.
`Receive` is `incoming`, `Toggle` the offline switch, which hands the queue to the
backend again. `ApplyAll`, `Rebuilt` and `NewEvents`, the loops over the timeline and
over the events handed over at once, are recursive functions too. A behaviour starts
from one of `Starts`: nothing, or events that all tabs have handled already, as the
code would have handled them. `StartsAssumption`, which TLC evaluates, says that these
are events the pages could have issued: each after its causes, about what its author
saw, and the creation first and once. Left out: layout, history, unread counts,
personal boards, local reordering, invitations sent with the creation.

### HostPage and the code

`page` holds `tremola` (contacts, conversations), the screen, the overlay and whom
it is about, `stored` is the local storage, `log` the private posts in the native
part, `queue` the calls posted to the page, `outside` the camera, a lookup in the
network and how often the page ended. The actions are the buttons and menu entries
(`OpenChat`, `Post`, `NewConversation`, `Forget`, `ShowDetails`, `LookUp`, `Launch`,
`BackPressed`, `Reset`, `Restream`, ...), the calls that run (`Run`), and what comes
from outside (`Receive`, `LookupFound`, `CameraCloses`, `PageLoaded`,
`FetchManifest`, `ScriptLoaded`, `EndPage`). Left out: unread counts, texts of
aliases, times, wiping, the other settings.

## 3. Runs

| Run | Instance | Shows |
| --- | --- | --- |
| `sync_safety` | two phones, one draws twice, two messages in flight, one failure of any kind; and three phones in a row, of which one end and the relay in the middle draw once, undisturbed, one message at a time | `TypeOK`, `NoForkedSequence`, `ConfirmedIsStored`, `NothingClaimedUnstored`, `NeverForgets`, `ImplementsLog` |
| `sync_liveness` | two phones, one failure, no bound on traffic | `Convergence` under `Fairness` |
| `sync_rejoin` | delete and join again | the finding of section 4 |
| `reducer_merge` | two phones, four events of any kinds (three when they include clears, recolours, names or cancels) | `TypeOK`, `BoardIsMerge`, `LocalEditWins` |
| `transport` | one client link with messages of three kinds, failures, drops and a killed app; and two server links that share the notification slot | `TypeOK`, `HandledWhole`, `KeysHeld`, `OneSender`, `NoStall` |
| `page_open` | two boards, one of them of an older version; two operations; Bluetooth off once | `TypeOK`, `ShowsStored`, `CatalogColors`, `SessionPromise` |
| `page_loading` | two boards, one with a configuration that is no longer accepted; Bluetooth off once | `WaitingEnds` under `Fairness` |
| `canvas` | two fingers, one object, two widths of the frame | `TypeOK`, `OnBoard`, `InSight`, `HandsOff`, `WorkKept` |
| `tiny` | an owner and two guests for one place, four stamps | `OnlyInvited`, `PlacesKept`, `StaysRight`, `WaitedForCanAnswer` |
| `timeline` | every acyclic graph of five operations with at most two causes each, in every order of arrival | `Convergent`, `PlacesAndTips` |
| `kanban` | two people, a fresh and a shared board, three operations more | `SameOperationsSameCards`, `MembersStand`, `OwnEditShows` |
| `host` | one other person, two posts, one end of the page | `TypeOK`, `Complete`, `Openable`, `AboutWhomItSays`, `BackLeadsOut` |

### Bounds

`sync_...`. `MaxOps` and `Author` bound what users draw; `MaxUpsets` how often
something fails (loss, disconnect, restart, close, manual sync, feed entry);
`MaxTraffic` the messages in flight together, by the constraint `Focus` of
`MCBoardSync`. `Focus` takes two settings in one run: phones in `Third` join and
authors in `Second` draw only in the second, where nothing is upset. Limits of the
code are scaled so that they bite: one attempt, one operation per pulse, one
range of one, queues of two or three with one slot reserved. With two messages in
flight a message can overtake, repeat or outlive another one, and with one failure
each handler meets a peer that has forgotten it. `Wifi` is empty in `sync_liveness`
and `sync_rejoin`: without entries of the signed feed the board protocol has to do
all the work. The proofs below are free of these bounds.

`reducer_merge` keeps `MaxSeen` above the number of events, as `SeenAssumption`
demands (section 4 says what happens otherwise). Its caps of
one or two make pruning happen. `ShortKinds` are left out of the longest histories.

`transport`. Queues hold four frames with one reserved, two failures in a row end a
link, and operations have two frames, so that queues fill up, frames overtake each
other and messages are left half-way. `Focus` separates the client link from the
server links, which share nothing in the code, and lets a kill come early, with
few messages before it: what matters is that numbers start again.

`page_...`. A code stands for its board. `MaxOps` bounds the operations that exist
at a time, `MaxCalls` the posts on their way: with two, an echo, the end of a
replay and an answer can be queued behind each other. `MaxStops` is one.
`Unadmitted` boards are those of older versions whose owner may reject the phone,
`Outdated` ones are refused by `parseConfig`. `Hurried` is FALSE: the user waits for the
end of a load or a deletion before tapping again (section 4).

`canvas`. A board of width two has two edges and a middle; scales of one and two
make an object as large as the board. Of the two views and the objects, one varies
while the others are at rest (`Focus`), since their places are independent.
`TwoHands` is FALSE: no button is tapped with a finger on the canvas (section 4).

`tiny`. With two members at most, two guests compete for one place; two
invitations and a cooldown of two allow one to be repeated after it was declined or
crossed by its answer. Stamps are unique, and four of them put invitations and
answers of unrelated clocks in every order. `Artists` draw; one is
enough for a drawing of an editor who loses the place.

`timeline`, `kanban`. References are numbers as in the code, `Refs` those still
free; a new operation may get any of them, so it is sorted in anywhere. `Offliners` is
one person, which makes the two diverge. `Texts` is one of the three commands that
overwrite a field in the same way, `Assignees` the people assigned to cards. The shared start
has a list, a card and two members, which three operations can change concurrently.

`host`. Two calls may wait when the user or the network acts. The mini app, and
overlays in which nothing is entered, are looked at before there are
conversations (`Focus`): they do not touch them. `Hurried` is FALSE (section 4).

Deadlock is not checked where the system may come to rest: a bounded run of user
actions on one phone, all messages delivered (`transport`, `page_...`, `canvas`,
`tiny`, `kanban`, `host`). The replication never rests, its task runs every two seconds.

### Fairness

`sync_liveness`. The two-second task runs again and again
(`scheduleWithFixedDelay`), the radio finds a peer in range again (scanning is
restarted periodically), and a route delivers what it queued unless something
fails. Hellos, frontiers and the other messages are each served fairly, since
the queue is first-in first-out among control messages and drains operations
when those are out. Nothing is assumed of users, nor of the broadcasts after a
write or an opening. Queues hold at least three messages here: with one or two
slots, a queue that is always full of hellos starves everything, which cannot
happen with 2048 frames.

`page_loading`. The page's thread takes the next post (`HandlePost`), the worker
goes on with its tasks (`WorkerStep`), the page's timer fires (`ReplayTimer`). All
are weak: each is one thread with one queue. Nothing is assumed of users,
neighbours, Bluetooth or restarts. The other runs need no fairness.

## 4. Findings

`sync_rejoin`. `handleBoardOperation` acknowledges whether or not the table
took the operation. After one phone deletes a board and joins it again before
its own old operations came back, it numbers from 1 again; a peer that still
holds the old number 1 refuses the new operation and acknowledges it. The
author's page shows it as delivered, nobody else ever stores it, and
frontiers compare numbers, so nothing repairs it. `docs/SYNC_AND_MERGE.md`
(section 6) says that the acknowledgement exists to prevent this mistake.

### Limits of the properties

While modelling, the following came up. They are why a property above has an
exception or a run an assumption; none is a run of its own.

Page and native part.
- More than 4000 events: a quick resume replays the whole table onto the kept
  state while only the last 4000 ids are remembered; moves applied a second time
  push newer ones out of the capped list (`collabboard.js:2730`;
  `docs/SYNC_AND_MERGE.md:177` has duplicates without effect). Deletes are pruned
  independently of the objects they hide (`collabboard.js:2719`).
- The end of a replay carries no room (`BleSync.kt:552`, `collabboard.js:864`). A
  user who leaves a board while it loads and opens another one may see the second
  before it is complete; who opens another board before the answer to a creation
  came draws on one board and stores in the other (`BleSync.kt:508`); and who opens
  a board while its deletion is still on the worker loses the rows of an open board
  (`BleSync.kt:489`). Hence `Hurried = FALSE`.
- With Bluetooth off, a board that is opened loads for ever (`BleSync.kt:1254`;
  `docs/BUILDS.md:111` expects Bluetooth), and deleting a board removes its profile
  but not its rows and is never answered. Hence `stops` in `WaitingEnds` and
  `ShowsStored`.
- A rejection that arrives after the next board was opened takes that one away;
  its own answer then puts the overlay up for ever (`collabboard.js:987`).
- A stroke that ends between a quick resume and the native confirmation is dropped
  without a word (`collabboard.js:2226`).
- Entering the full-screen view does not clear a place chosen for text
  (`collabboard.js:1165`); with a second hand it is left over after the last finger
  is lifted. Hence `TwoHands = FALSE`.
- A killed app starts message numbers at 1 while a peer keeps partial messages for
  two minutes (`BleSync.kt:2743`): a new message may be completed by old frames. It
  does not parse and is sent again later. Hence the exception in `HandledWhole`.

tinySSB.
- An invitation that arrives after its acceptance and after drawings of the new
  editor leaves those hidden until the next acceptance or opening
  (`adapter.js:515`): the exception of `StaysRight`. Drawings of an editor who was
  displaced stay visible as long.
- A guest invited again on a full board is listed as waiting but is not
  shown the invitation: the exception of `WaitedForCanAnswer`.

Kanban.
- A board created offline gets its first name back when the tab goes online, and
  re-subscribes a creator who left (`board.js:264`). `Create` is assumed online.
- References are compared as numbers by some pages and as text by others that
  rebuilt the board (`scuttlesort.js:283`, `board.js:397`); the model compares numbers.
- Two remembered invitations, or one remembered twice by applying all operations
  again, make every acceptance invalid (`board.js:702`); a decline is never found
  (`board.js:724`).
- The comment at `board.js:302` does not hold for positions and counters, which
  `SameOperationsSameCards` therefore leaves out: removing a list twice counts
  twice, and moving a removed card takes another one out of a list (`board.js:603`).

Host page.
- Adding a contact overwrites an existing conversation with an empty one until
  posts are streamed again (`tremola.js:650`); posts of a forgotten conversation are
  not saved (`tremola.js:487`); contacts added by `b2f_new_event_back` are not saved,
  so that after a restart a conversation cannot be opened (`tremola.js:727`). These
  are the exceptions of `Complete` and `Openable`.
- An answer with details that comes late changes whom an open dialog is about
  (`tremola.js:360`). Hence `Hurried = FALSE`.

## 5. Proofs

All theorems hold for every value of the constants, under the named assumptions
of the modules, which TLC evaluates in the runs. Each module of theorems has an
inductive invariant, one lemma per action that preserves it, and corollaries for
the properties of the runs.

| Module | Theorem | Statement |
| --- | --- | --- |
| `BoardSync_proofs` | `Inductive`, `TypeCorrect` | `Spec => []IInv`, `[]TypeOK` |
| | `NeverForked` | `Spec => []NoForkedSequence` |
| | `AckMeansStored` | `Spec => []ConfirmedIsStored` |
| | `ClaimsAreBacked` | `Spec => []NothingClaimedUnstored` |
| | `Durable` | `Spec => NeverForgets` |
| | `Refinement` | `Spec => ImplementsLog` |
| `BoardReducer_proofs` | `Inductive`, `TypeCorrect` | `Spec => []IInv`, `[]TypeOK` |
| | `ShowsMerge` | `Spec => []BoardIsMerge` |
| | `SameEventsSameBoard` | same stored events, all given to the page: same board |
| | `EditsWin` | `Spec => LocalEditWins` |
| `FrameTransport_proofs` | `Inductive`, `TypeCorrect` | `Spec => []IInv`, `[]TypeOK` |
| | `NeverMixed` | `Spec => []HandledWhole` |
| | `NothingSilenced` | `Spec => []KeysHeld` |
| | `SlotIsTheSenders` | `Spec => []OneSender` |
| | `NobodyForgotten` | `Spec => []NoStall` |
| `BoardPage_proofs` | `Typed`, `TypeCorrect` | `Spec => []TypeInv`, `[]TypeOK` |
| | `ColorsTellBoardsApart` | `Spec => []CatalogColors` |
| | `Patience` | `Hurried = FALSE`: `Spec => []IInv` |
| | `ShownWhole` | `Hurried = FALSE`: `Spec => []ShowsStored` |
| | `KeepsPromise` | `Hurried = FALSE`: `Spec => SessionPromise` (refinement) |
| `BoardCanvas_proofs` | `Inductive`, `TypeCorrect` | `Spec => []IInv`, `[]TypeOK` |
| | `StaysOnBoard` | `Spec => []OnBoard` |
| | `StaysInSight` | `Spec => []InSight` |
| | `OneGesture` | `TwoHands = FALSE`: `Spec => []HandInv` |
| | `NothingLeftOver` | `TwoHands = FALSE`: `Spec => []HandsOff` |
| | `WorkIsKept` | `TwoHands = FALSE`: `Spec => WorkKept` |
| `TinyInvites_proofs` | `Inductive` | `Spec => []IInv` |
| | `NobodyUninvited` | `Spec => []OnlyInvited` |
| | `WaitingIsTrue` | `Spec => []WaitedForCanAnswer` |
| | `PlacesAreKept` | `Spec => PlacesKept` |
| | `RightStays` | `Spec => StaysRight` |
| `HostPage_proofs` | `Inductive`, `TypeCorrect` | `Spec => []IInv`, `[]TypeOK` |
| | `NothingLost` | `Spec => []Complete` |
| | `EveryChatOpens` | `Spec => []Openable` |
| | `WayBack` | `Spec => []BackLeadsOut` |
| | `AboutWhom` | `Hurried = FALSE`: `Spec => []AboutWhomItSays` |
| `Kanban_proofs` | `AlwaysComplete` | `TimelineSpec => []TimelineInv` |
| | `RanksAreDepths` | `TimelineSpec => []Convergent` |
| | `SameOperationsSameOrder` | two timelines of the same operations: same order, ranks and tips |
| | `PlacesAndTipsAreRight` | `TimelineSpec => []PlacesAndTips` |
| | `NoEffectBeforeItsCause` | `TimelineSpec => []CausesStandFirst` |
| | `RestartLosesNothing` | a timeline saved and restored is the same |
| | `KanbanKept` | `Spec => []KanbanInv` |
| | `SameOperationsShowTheSame` | `Spec => []SameOperationsSameCards` |
| | `MembersHaveAnswered` | `Spec => []MembersStand` |
| | `AuthorsSeeTheirEdits` | `Spec => OwnEditShows` |

`BoardPage_proofs`, `FrameTransport_proofs` and `TinyInvites_proofs` begin with what
the picked part of a list contains and in which order (`Subsequences`).
`BoardPage_proofs` goes on with the list of saved boards: each change keeps it
without duplicates and its colours apart.

### BoardSync

Phones are a finite set of naturals, the limits are natural numbers, positive
where the code's are. None of the properties is inductive. `NoForkedSequence`
needs to know that an author's own table is exactly its events 1 to `made`, in
order (`LogInv`), so that `getMaxSequence + 1` is the next event, and that
whatever another phone holds is still in the author's table; that in turn needs
every operation on the air to be in its sender's table (`OutInv`), hence every
delivery in progress (`PendingInv`) and every task of the worker (`WorkInv`).
`ConfirmedIsStored` needs that an acknowledgement on the air names an operation
in its sender's table, which for an operation the table refused only holds
because numbers do not fork: the very fact that deleting a board destroys
(section 4). The gapless prefix (`ContiguousPrefix`) is proved to exist from the
well-foundedness of the naturals.

### BoardReducer

Phones are any naturals, the kinds of events any of the code's, the caps positive.
The one real assumption is `SeenAssumption`: no more events than the page remembers
(`CB_MAX_SEEN`, 4000); with more, a quick resume may apply forgotten events again. All
rests on one predicate, `Represents(st, S)`: the lists of a reducer's state are, in
order, the newest of each category of the events S, and its ids are theirs. An
event makes a state of S one of S with that event, whether it is new or not
(`ApplyRepresents`). The core is `PruningIsSound`: of the newest n of S and one more
event, the newest n are those of S with that event, so what was pruned is never
missed. It holds because an event that was pruned has n later ones, the last
pruned of them n later ones that are listed (`LastOfSome`, from the well-foundedness
of the naturals). A list kept by position is such a set (`SortedType`, `NewestOfList`).
A replay applies a log from its first event to its last; that the function doing
so exists (`RunExists`) and that its result represents all events (`ReplayRepresents`)
are inductions over the length of the log, written as the absence of a least
counterexample, as the provers cannot instantiate a rule of induction.

The invariant of the system (`IInv`) has, beside `Represents` for each page, that ids
are given once (an author numbers its events and has them all, `EventInv`) and that
what is on its way to a page comes once (`InboxInv`). `ShowsMerge` follows at once. For
`EditsWin` the event of an edit is later than all that the page was given and no event
is about it yet (`NewEventType`), so it is neither pruned nor cancelled.

### FrameTransport

Any client and server links, any messages and limits, but fewer than `IdSpace`
messages in one process (section 2). `LinkInv` counts a frame in flight as one
that may come back: a queue with room for it keeps its limits when a write fails,
and a key that suppresses newer messages stays tied to a last frame that waits or
is in flight (`KeysHeld`). `SlotInv` says that the notification slot is empty or
names one server link, and that a link that is not ready has nothing in flight;
only with this is the slot's owner the sender. `NoStall` is inductive together
with these two: whenever a frame is left waiting, the step that leaves it also
leaves a call that will look. For `HandledWhole` the argument is about numbers
alone (`PartsInv`): what is collected under an id was cut from messages with that
number, and one process gives a number once.

### BoardPage

Any boards, names, colours, operations and bounds. `TypeInv` and the catalog hold
whatever the user does. The other theorems are about a user who waits for an
answer before the next tap on a board (`Hurried = FALSE`, as in the runs that
check them; section 4 says what a faster user meets). Then at most
one answer is on its way and never beside a task of the worker (`QueueInv`). That
decides what the page may believe about the native part's open board
(`ConfigInv`), and that a board being erased is open nowhere while the page waits
for the end (`DeleteInv`). With these, each operation of the shown board is on the
page, posted, or left to a replay that the page waits for (`StoredInv`, `ShowInv`:
the board is `Whole`, `Coming` or `Lost`, the last when a loading never ends), and
the board of `BoardSession` is what the page shows. `KeepsPromise` maps every
action to a step of `BoardSession` or a stutter.

### BoardCanvas

Any finite set of fingers, any tools, and any positive sizes, scales and widths of
the frame; all objects, without a bound but `MaxObjects`. `OnBoard` is about the
objects only, and a drag's transformation becomes an object's when it ends, so
`BoardInv` asks that the dragged object fits with it at every moment (`GoodDrag`):
`cb_clamp_drag_transform` is given any transformation and returns one that fits
(`DragClamped`), because a scale up to `LargestScale` leaves the object narrower
than the board (`FittingIsNarrow`). A drag may also outlive its object, which
another phone deletes, and then it writes nothing. `SightInv` says that the edit
view may be unfitted (`cb_reset_edit_view`) while a board is closed or loading, or
behind the full-screen view, but not while it is seen, and that the full-screen
view is only entered from an edit view that has a width.

The other invariant, `HandInv`, is for a user whose fingers have left the canvas
when a button is tapped (`TwoHands = FALSE`, as in the run): a drawing, a drag or
a place for a text has a pointer, navigation has none, that pointer is on the
canvas and came first, and at most one of the three is under way. Only with this
does lifting the last finger end everything (`HandsOff`), and only with this can
none of the handlers for a lost capture or a late report take a gesture for
another's (`WorkKept`).

### TinyInvites

People are any finite set, the bounds any naturals. The reducer sums up whatever part of
the log a phone has, in an order it sorts itself, so nothing about its sums is
inductive. `IInv` is about all events of a board together: they are `Sound`
(one creation, invitations by the creator that all count, stamps that differ, one
answer each), since a phone that publishes has all its own events and checks
against them. `Sound` passes to subsets (`PartSound`), and on a sound set the
sums of `wb_meta_state` have closed forms: every invitation counts (`AllCount`),
an invitation has one answer (`OneAnswer`), and the members are the creator and
those whose acceptance came while there was a place. These are monotone in the
events but for the places, which is `PlacesKept`.

### HostPage

People are any finite set (the preview of a chat lists them), the bounds are any.
A call that initializes the page replaces what is not saved, so a post is on its
way to the page only when no such call waits behind it (`Later`), and displayed
posts count only when none waits at all (`PostsShown`). What is saved lacks at
most posts of conversations that were hidden meanwhile (`PostsSaved`,
`HiddenInv`), which `Complete` allows. Contacts take the same way as the posts
that need them (`AuthorsShown`, `AuthorsSaved`), until the page first ends.
`AboutWhom` has an invariant of its own (`AboutInv`): a user who waits has at most
one answer on its way, and it is about the person the page is about.

### Timeline

Names are any finite set of naturals, with any number of causes each. The invariant
`TimelineInv` says of a timeline that it is `Complete` - places and order are inverse, links
are exactly the named causes that have arrived, whoever names a missing one waits for
it, a rank is one more than the highest of the causes here, tips are the operations
nobody names, and the order is by rank, then by name - and that its causes are
acyclic, which is stated by a numbering. `Convergent` alone is not inductive: it does
not mention the links, on which the next ranks depend, nor who waits.

An arrival breaks all of this and restores it, loop by loop:
- The wave. After d levels (`WaveInv`) a rank is too low only in the front, and no
  rank exceeds what the causes give. The numbering bounds the levels by the number
  of operations, so the last front is empty.
- Rising. The wave raised some ranks, so what it visited is out of order, and only
  towards the future (`OutOfOrder`). A rise puts one node over exactly those that
  now belong before it (`RiseOrder`); done for the visited nodes from the last to the
  first it is an insertion sort (`RiseAllSorts`).
- One edge is a wave and a sort (`EdgeSorts`), the effects that waited for the new
  operation are one edge after another (`LinkStep`, `ResolvedLinks`), and so are the
  causes of the new operation, which starts with rank 0 at a place that is too
  early for it alone (`Fresh`, `Settling`, `AnchorStep`, `SettledOrder`).
- The new operation does not depend on itself (`~Depends`), so the numbering can be
  compressed and extended to it (`Compressed`, `AcyclicGrows`).

What a loop preserves is shown by taking the first round that would break it, the
least of a set of naturals, and a recursive function is known to exist by the same
argument (`RunExists`): neither needs induction over data. `SameOperationsSameOrder`
does not speak of behaviours: any two timelines that are `WellKept`, with the same
operations and causes, agree on ranks, since the least operation by rank on which they
differ has causes on which they do not (`SameGraph`), then on the order, place by place.

### Kanban

People, references and starts are any that satisfy `KanbanAssumption` and
`StartsAssumption`. `SameOperationsSameCards` is not inductive: two pages that agree
now may disagree after the next operation, if a field of one is older than the
timeline says. `KanbanInv` (`TabsRight`) says instead of each page by itself which
operation wrote what it shows:

- Events (`LogRight`): causes were issued, they are acyclic, and an event is about a
  list or card whose creation is among its direct or indirect causes.
- A page (`BoardRight`): its operations are closed under causes. Once it follows the
  board (`Following`), its timeline is `WellKept` and has exactly these operations, its
  tips are the timeline's, and each list and card has the fields of the last operation
  about it (`Content`, with `ColumnRight` and `ItemRight`): the `Latest` renaming or
  move, the `Latest` answer about each assignee, the comments in order (`Listed`),
  removed if any operation removed it. Members are those whose last answer stands
  (`MembersFrom`).
- The channel (`Deliverable`, `Reaches`): what waits for a tab has its causes there or
  ahead of it in the queue. With `Foreign`, `NoCreation` and the queue of an offline
  tab, this is what keeps the first point of every page closed.

`Content(L, t, b, D, S)` has two sets of operations since the three ways of applying
them differ in just this: a board made from the operations D, of which those of S have
been applied in the current pass.
- Alone, because the operation is last in the timeline: D and S grow by it
  (`ContentLast`).
- Alone, because its command is one of `IndependentOPs`: it stands anywhere, but there is
  only one creation per object and removing cannot be undone (`ContentIndependent`).
- All again, on the board that is there: D is everything, S starts empty
  (`NothingAgain`) and grows along the timeline (`PassRight`). A creation that is
  applied again resets the object, and it comes before all that is about it, so what the
  fields were before is forgotten. The same pass on an empty board is the reload.

When S is everything again, the fields are determined by the operations and the order
of the timeline, and `SameGraph` says that the order is determined by the operations.
`MembersStand` needs `MembersFrom` only, in which the pass starts with the members that
are there: nobody resets them, but whoever has answered is set right by the last answer.

`OwnEditShows` is an action property. An operation that names all tips has every other
one below it, so it is last (`OwnLast`) and is applied alone. What it says then shows
because its object is there (`Sensible`: the page offers only lists and cards it has).

### Only model-checked

- `Convergence`, `WaitingEnds` and the other liveness properties: fairness and
  ENABLED are out of the prover's reach.
- `BoardDelete`, whose run shows a violation.

## 6. Not modelled, and what could follow

- Membership and pairing of boards made by older versions (rosters, admissions,
  challenges, lockout), and the buffer of out-of-order feed entries, which is idle
  while a board is open. Both are message protocols like `BoardSync` and could be
  modules beside it. `BoardPage` has what a page sees of them.
- Recovery from any member while an author stays away (three phones under
  fairness): more than TLC finishes.
- The parts named under "Left out" above: wording, colours, geometry in two
  dimensions, export, profiles, unread counts.
- Android's Bluetooth stack, cryptography, Wi-Fi peering, discovery and the
  handshake: calls into libraries, or unused by the board.
- Chat, tic-tac-toe and sketches of the browser preview: the chat is an older form
  of the host page, and the others have nothing to do with the board.

Worth proving next: what `SameOperationsSameCards` leaves out, the positions and
counters of lists and cards. They differ between pages (section 4), so this would be a
bound on how far.
