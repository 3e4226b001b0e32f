------------------------------ MODULE HostPage ------------------------------
(***************************************************************************)
(* The page around the board on a phone (assets/web: tremola.js,           *)
(* tremola_ui.js, mini_apps.js): screens, overlays, private conversations, *)
(* contacts, the start of the mini app, and the native part it talks to.   *)
(* The native part answers by evaluating JavaScript: such calls queue up   *)
(* and run one after the other, between the handlers of the user's taps.   *)
(*                                                                         *)
(* Abstractions.  A conversation is the set of its members, which is also  *)
(* its name.  Aliases, times, unread counts and layout are left out; so is *)
(* the fact that other calls than the ones here save the page as well.     *)
(***************************************************************************)
EXTENDS Integers, FiniteSets, Sequences, SequencesExt

CONSTANTS
  Person, Me,
  Hide,       \* the setting hide_forgotten_conv
  Hurried,    \* whether the user taps on before the native part answered
  MaxPosts,   \* bound: private posts in the log
  MaxQueue,   \* bound: calls that wait when the user or the network acts
  MaxKills    \* bound: times the page ends

Nobody == "nobody"

ASSUME PeopleAssumption == Me \in Person /\ Nobody \notin Person /\ IsFiniteSet(Person)

VARIABLES
  page,     \* the page's variables and what it displays
  stored,   \* localStorage.tremola, once there is one
  log,      \* the native log of private posts
  queue,    \* calls the native part has posted to the page
  outside,  \* the camera, a lookup in the network, how often the page ended
  complete  \* history: every post was handed over since the last loss

vars == <<page, stored, log, queue, outside, complete>>

Others == Person \ {Me}
Conversation == {c \in SUBSET Person : Me \in c}
\* resetTremola
Fresh == [contacts |-> {Me}, chats |-> [c \in {{Me}} |-> [posts |-> {}, forgotten |-> FALSE]]]

Chats == page.tremola.chats
Contacts == page.tremola.contacts

-----------------------------------------------------------------------------
(* Screens and overlays: functions of the page *)

Main == {"chats", "miniapps", "contacts", "connex"}
Scenario == Main \union {"posts", "members", "settings", "customApp"}
Overlay == {"none", "edit", "details", "new_contact", "qr", "about"}

\* scenarioMenu: the entries that change anything.
Menu(s) ==
  CASE s = "chats" -> {"conversation", "settings", "about"}
    [] s = "contacts" -> {"contact", "settings", "about"}
    [] s = "posts" -> {"rename", "forget", "settings", "about"}
    [] s \in {"connex", "members"} -> {"settings", "about"}
    [] OTHER -> {}

\* closeOverlay
Closed(p) ==
  [p EXCEPT !.menu = "none", !.overlay = "none", !.target = "", !.asked = Nobody]

\* Mutant: the screen left is remembered, whichever it is.
ShowAndRemember(p, s) ==
  [p EXCEPT !.scenario = s, !.prev = p.scenario, !.board = FALSE]

\* setScenario
Show(p, s) ==
  [p EXCEPT !.scenario = s, !.prev = IF s \in Main THEN s ELSE @, !.board = FALSE]

Over(p, overlay) == [p EXCEPT !.overlay = overlay]

\* menu_edit
Edit(p, target) == [Over(Closed(p), "edit") EXCEPT !.target = target]

\* menu_edit for the alias of a person, who is named in the question.
EditContact(p, who) == [Edit(p, "contact") EXCEPT !.subject = who, !.asked = who]

-----------------------------------------------------------------------------
(* Conversations: functions of the page *)

With(chats, c, chat) ==
  [x \in DOMAIN chats \union {c} |-> IF x = c THEN chat ELSE chats[x]]

Empty == [posts |-> {}, forgotten |-> FALSE]

\* load_chat_list: whether a conversation has a button and a badge.
Listed(t, c) == c = {Me} \/ ~ (Hide /\ t.chats[c].forgotten)

\* load_post_item fails for a post whose author is no contact.
Readable(t, c) == \A i \in t.chats[c].posts : log[i].from \in t.contacts \union {Me}

\* Mutant: the conversation becomes the current one later.
LoadChatLater(p, c) == IF Readable(p.tremola, c) THEN Show(p, "posts") ELSE p

\* load_chat: it shows the posts before anything else.
LoadChat(p, c) ==
  IF Readable(p.tremola, c) THEN [Show(p, "posts") EXCEPT !.cur = c]
  ELSE [p EXCEPT !.cur = c]

\* A person becomes a contact with an empty conversation, as in
\* edit_confirmed_back and b2f_new_contact_lookup.
WithContact(p, who) ==
  [p EXCEPT !.tremola.contacts = @ \union {who},
            !.tremola.chats = With(@, {Me, who}, Empty)]

\* b2f_new_event: the conversation and the post of event i
WithPost(p, i) ==
  LET c == log[i].to
      old == IF c \in DOMAIN p.tremola.chats THEN p.tremola.chats[c] ELSE Empty
  IN [p EXCEPT !.tremola.chats = With(@, c, [old EXCEPT !.posts = @ \union {i}])]

\* Mutant: the first of them is left out.
StrangersButOne(p, c) ==
  LET strangers == c \ p.tremola.contacts
  IN IF strangers = {} THEN {} ELSE strangers \ {CHOOSE x \in strangers : TRUE}

\* The members whose short names b2f_new_event asks for
Strangers(p, c) == c \ p.tremola.contacts

-----------------------------------------------------------------------------
(* What handlers do: to the page, to the storage, to the queue *)

Alive == page.boot # "off"
Ready == page.boot = "ready"

Call(k, who) == [k |-> k, who |-> who]

\* b2f_new_event of a private post
PostCall(i) == [k |-> "post", post |-> i]

Becomes(p) == page' = p

\* persist
Saves(p) == page' = p /\ stored' = {p.tremola}

\* id2b32: the native part answers at once, the answer is queued.
Answers(k, people) == SetToSeq({Call(k, x) : x \in people})

\* No post is lost when the conversation with a new contact starts anew.
NothingThere(who) == {Me, who} \in DOMAIN Chats => Chats[{Me, who}].posts = {}

\* add:contact, and the event of its follow message
Followed == <<Call("public", Nobody)>>

-----------------------------------------------------------------------------
(* The calls of the native part *)

IsOpen(c) == page.scenario = "posts" /\ page.cur = c

\* Mutant: only the posts of a new conversation are saved.
SavesNewChat(p, i) ==
  LET c == log[i].to
  IN IF c \in DOMAIN Chats THEN page' = p /\ UNCHANGED stored ELSE Saves(p)

\* The end of b2f_new_event: the post of a conversation that is open is shown,
\* which may fail; a conversation without a badge ends the handler.
SavesPost(p, i) ==
  LET c == log[i].to
      seen == c \in DOMAIN Chats /\ i \in Chats[c].posts
  IN CASE seen -> Saves(p)
       [] ~ seen /\ IsOpen(c) /\ Readable(p.tremola, c) -> Saves(LoadChat(p, c))
       [] ~ seen /\ ~ IsOpen(c) /\ Listed(p.tremola, c) -> Saves(p)
       [] OTHER -> page' = p /\ UNCHANGED stored

\* b2f_new_event, when a post arrives
NewEvent(i, rest) ==
  /\ queue' = rest \o Answers("known", Strangers(page, log[i].to))
  /\ SavesPost(WithPost(page, i), i)
  /\ complete' = (complete /\ (IsOpen(log[i].to) => Readable(WithPost(page, i).tremola, log[i].to)))

\* b2f_new_event of a public entry only saves.
PublicEvent(rest) ==
  /\ queue' = rest
  /\ Saves(page)
  /\ UNCHANGED complete

\* b2f_new_event_back
Known(who, rest) ==
  /\ queue' = rest
  /\ Becomes([page EXCEPT !.tremola.contacts = @ \union {who}])
  /\ UNCHANGED <<stored, complete>>

\* edit_confirmed_back: it takes the contact from the variable of the page, and
\* a conversation with that contact starts anew.
Added(who, rest) ==
  /\ queue' = rest \o Followed
  /\ Saves(Closed(WithContact(page, page.subject)))
  /\ complete' = (complete /\ NothingThere(page.subject))

\* Mutant: the person found becomes the one the page is about.
FoundSubject(who, rest) ==
  /\ queue' = rest
  /\ Saves([Closed(WithContact(page, who)) EXCEPT !.subject = who, !.overlay = page.overlay])
  /\ complete' = (complete /\ NothingThere(who))

\* b2f_new_contact_lookup
Found(who, rest) ==
  /\ queue' = rest
  /\ Saves(Closed(WithContact(page, who)))
  /\ complete' = (complete /\ NothingThere(who))

\* show_contact_details_back
Details(who, rest) ==
  /\ queue' = rest
  /\ Becomes(IF who \in Contacts
             THEN [Over(page, "details") EXCEPT !.subject = who, !.asked = who]
             ELSE [page EXCEPT !.subject = who])
  /\ UNCHANGED <<stored, complete>>

\* save_content_alias_back: the alias is left out.
Aliased(rest) ==
  /\ queue' = rest
  /\ Saves(Closed(page))
  /\ UNCHANGED complete

\* qr_scan_success
Scanned(p, who) ==
  IF who \in p.tremola.contacts THEN Closed(p) ELSE EditContact(p, who)

ScanResult(who, rest) ==
  /\ queue' = rest
  /\ Becomes(IF who = Nobody THEN page ELSE Scanned(page, who))
  /\ UNCHANGED <<stored, complete>>

\* b2f_showSecret
ShowSecret(rest) ==
  /\ queue' = rest
  /\ Becomes(Over(Show(page, page.prev), "qr"))
  /\ UNCHANGED <<stored, complete>>

\* b2f_initialize
Initialize(rest) ==
  /\ queue' = rest
  /\ \E t \in IF stored = {} THEN {Fresh} ELSE stored :
       Saves([Show(Closed(page), "chats") EXCEPT !.tremola = t, !.boot = "ready"])
  /\ UNCHANGED complete

\* The page runs the first call.  Before it is initialised every other one
\* fails.
Run ==
  /\ Alive /\ queue # << >>
  /\ LET call == Head(queue)
         rest == Tail(queue)
     IN CASE call.k = "init" -> Initialize(rest)
          [] call.k # "init" /\ ~ Ready ->
               /\ queue' = rest
               /\ complete' = (complete /\ call.k # "post")
               /\ UNCHANGED <<page, stored>>
          [] call.k = "post" /\ Ready -> NewEvent(call.post, rest)
          [] call.k = "public" /\ Ready -> PublicEvent(rest)
          [] call.k = "known" /\ Ready -> Known(call.who, rest)
          [] call.k = "added" /\ Ready -> Added(call.who, rest)
          [] call.k = "found" /\ Ready -> Found(call.who, rest)
          [] call.k = "details" /\ Ready -> Details(call.who, rest)
          [] call.k = "aliased" /\ Ready -> Aliased(rest)
          [] call.k = "scanned" /\ Ready -> ScanResult(call.who, rest)
          [] call.k = "secret" /\ Ready -> ShowSecret(rest)
  /\ UNCHANGED <<log, outside>>

-----------------------------------------------------------------------------
(* Taps of the user *)

Waiting == {"details", "added", "aliased", "secret", "init", "scanned"}

\* The user looks at the page, and at the answer to what was tapped before.
Attentive ==
  /\ Ready /\ ~ outside.camera /\ Len(queue) < MaxQueue
  /\ Hurried \/ \A i \in DOMAIN queue : queue[i].k \notin Waiting

\* Nothing covers the screen.
Free == Attentive /\ page.overlay = "none" /\ page.menu = "none"

At(s) == Free /\ page.scenario = s

\* A tap that changes only what the page displays.
Displays(p) == Becomes(p) /\ UNCHANGED <<stored, log, queue, outside, complete>>

\* A tap that saves the page.
Keeps(p) == Saves(p) /\ UNCHANGED <<log, queue, outside, complete>>

\* A tap that asks the native part.
Asks(p, calls) ==
  Becomes(p) /\ queue' = queue \o calls /\ UNCHANGED <<stored, log, outside, complete>>

\* The list of mini apps also stays when an app could not be started.
Lists == page.scenario \in Main \/ (page.scenario = "customApp" /\ ~ page.board)

\* btnBridge: the buttons in the footer
Footer(s) == Free /\ Lists /\ s \in Main /\ Displays(Show(page, s))

\* btnBridge: the menu is built for the screen it is opened on.
OpenMenu ==
  /\ Free /\ Menu(page.scenario) # {}
  /\ Displays([page EXCEPT !.menu = page.scenario])

TapBeside ==
  /\ Attentive /\ ~ Free
  /\ Displays(Closed(page))

ShowQR == Free /\ page.scenario \in Main /\ Displays(Over(page, "qr"))

OpenChat(c) ==
  /\ At("chats") /\ c \in DOMAIN Chats /\ Listed(page.tremola, c)
  /\ LET p == LoadChat(page, c)
     IN IF Readable(page.tremola, c) THEN Keeps(p) ELSE Displays(p)

\* new_post, priv:post
Post ==
  /\ At("posts") /\ Len(log) < MaxPosts
  /\ log' = Append(log, [from |-> Me, to |-> page.cur])
  /\ queue' = Append(queue, PostCall(Len(log) + 1))
  /\ UNCHANGED <<page, stored, outside, complete>>

\* menu_new_conversation
Members(p) == [Show(p, "members") EXCEPT !.prev = "chats"]

\* plus_button
Plus ==
  \/ At("chats") /\ Displays(Members(page))
  \/ At("contacts") /\ Displays(Over(page, "new_contact"))
  \/ At("connex") /\ Displays(Edit(page, "pub"))

\* new_conversation
NewConversation(c) ==
  /\ At("members") /\ c \subseteq Contacts /\ Cardinality(c) <= 7
  /\ \/ /\ c \in DOMAIN Chats /\ Chats[c].forgotten
        /\ Displays([page EXCEPT !.tremola.chats[c].forgotten = FALSE])
     \/ /\ c \notin DOMAIN Chats
        /\ LET p == [page EXCEPT !.tremola.chats = With(@, c, Empty)]
           IN /\ page' = [Edit(Show(p, "chats"), "conversation") EXCEPT !.cur = c]
              /\ stored' = {p.tremola}
              /\ UNCHANGED <<log, queue, outside, complete>>

\* menu_forget_conv
Forget ==
  LET c == page.cur
      p == Closed([page EXCEPT !.tremola.chats[c].forgotten = ~ @])
  IN IF c = {Me} THEN UNCHANGED vars
     ELSE /\ stored' = {p.tremola}
          /\ page' = IF page.scenario = "posts" /\ p.tremola.chats[c].forgotten
                     THEN Show(p, "chats") ELSE LoadChat(p, c)
          /\ UNCHANGED <<log, queue, outside, complete>>

\* The entries of the menu; two of them leave it open.
MenuEntry(e) ==
  /\ Attentive /\ page.overlay = "none" /\ page.menu # "none" /\ e \in Menu(page.menu)
  /\ CASE e = "conversation" -> Displays(Members(page))
       [] e = "contact" -> Displays(Over(page, "new_contact"))
       [] e = "rename" -> Displays(Edit(page, "conversation"))
       [] e = "forget" -> Forget
       [] e = "settings" -> Displays(Show(Closed(page), "settings"))
       [] e = "about" -> Displays(Over(Closed(page), "about"))

\* edit_confirmed: an alias left empty is asked for.
EditConfirmed(empty) ==
  /\ Attentive /\ page.overlay = "edit"
  /\ CASE page.target = "conversation" -> Keeps(Closed(page))
       [] page.target = "pub" -> Displays(Closed(page))
       [] page.target = "contact" /\ empty ->
            Asks(Closed(page), Answers("added", {page.subject}))
       [] page.target = "contact" /\ ~ empty ->
            /\ Saves(Closed(WithContact(page, page.subject)))
            /\ queue' = queue \o Followed
            /\ complete' = (complete /\ NothingThere(page.subject))
            /\ UNCHANGED <<log, outside>>

\* show_contact_details
ShowDetails(x) == At("contacts") /\ x \in Contacts /\ Asks(page, Answers("details", {x}))

\* save_content_alias and toggle_forget_contact
ChangeContact(empty) ==
  /\ Attentive /\ page.overlay = "details" /\ page.subject \in Contacts
  /\ IF empty THEN Asks(page, Answers("aliased", {page.subject}))
     ELSE Keeps(Closed(page))

\* look_up and qr_scan_start
LookUp ==
  /\ Attentive /\ page.overlay = "new_contact"
  /\ Becomes(Closed(page))
  /\ \/ outside' = [outside EXCEPT !.lookup = TRUE]
     \/ outside' = [outside EXCEPT !.camera = TRUE]
  /\ UNCHANGED <<stored, log, queue, complete>>

TypeIdentity(x) ==
  Attentive /\ page.overlay = "new_contact" /\ Displays(Scanned(page, x))

\* show_peer_details, of any peer in the local network
PeerDetails(x) == At("connex") /\ Displays(EditContact(page, x))

\* menu_reset
Reset ==
  /\ At("settings")
  /\ Saves([Show(page, "chats") EXCEPT !.tremola = Fresh])
  /\ queue' = Append(queue, Call("init", Nobody))
  /\ complete' = FALSE
  /\ UNCHANGED <<log, outside>>

\* menu_stream_all_posts, restream
Restream ==
  /\ At("settings")
  /\ Becomes(Show(page, "chats"))
  /\ queue' = queue \o [i \in DOMAIN log |-> PostCall(i)]
  /\ complete' = TRUE
  /\ UNCHANGED <<stored, log, outside>>

ExportSecret == At("settings") /\ Asks(page, <<Call("secret", Nobody)>>)

\* The button of the mini app: it fails while the script of the app loads.
Launch ==
  /\ Free /\ page.app \in {"listed", "loaded"}
  /\ page.scenario = "miniapps" \/ (page.scenario = "customApp" /\ ~ page.board)
  /\ Displays([page EXCEPT !.prev = "miniapps", !.scenario = "customApp",
                           !.board = page.app = "loaded"])

\* cb_enter_view
EnterView ==
  At("customApp") /\ page.board /\ ~ page.view /\ Displays([page EXCEPT !.view = TRUE])

\* onBackPressed: what it makes of the page.
Back(p) ==
  CASE p.overlay # "none" -> Closed(p)
    [] p.overlay = "none" /\ p.scenario = "customApp" ->
         IF p.app = "loaded" /\ p.view THEN [p EXCEPT !.view = FALSE]
         ELSE Show(p, "miniapps")
    [] p.overlay = "none" /\ p.scenario = "chats" -> p
    [] p.overlay = "none" /\ p.scenario \in Main \ {"chats"} -> Show(p, "chats")
    [] OTHER -> Show(p, p.prev)

\* By the button or the key of the phone.  From the list of conversations it
\* leaves the app, which the system may end then.
BackPressed == Ready /\ Displays(Back(page))

-----------------------------------------------------------------------------
(* The network, the camera, the life of the page *)

\* A private post arrives; its author is among the recipients.
Receive(c, from) ==
  /\ Len(log) < MaxPosts /\ Len(queue) < MaxQueue
  /\ log' = Append(log, [from |-> from, to |-> c])
  /\ IF Alive THEN queue' = Append(queue, PostCall(Len(log) + 1)) /\ UNCHANGED complete
     ELSE complete' = FALSE /\ UNCHANGED queue
  /\ UNCHANGED <<page, stored, outside>>

\* addNewContact in Lookup
LookupFound(who) ==
  /\ Alive /\ outside.lookup /\ Len(queue) < MaxQueue
  /\ queue' = queue \o Followed \o <<Call("found", who)>>
  /\ outside' = [outside EXCEPT !.lookup = FALSE]
  /\ UNCHANGED <<page, stored, log, complete>>

\* onActivityResult
CameraCloses(who) ==
  /\ outside.camera
  /\ queue' = Append(queue, Call("scanned", who))
  /\ outside' = [outside EXCEPT !.camera = FALSE]
  /\ UNCHANGED <<page, stored, log, complete>>

Blank(boot) ==
  [boot |-> boot, tremola |-> Fresh, cur |-> {}, scenario |-> "chats", prev |-> "chats",
   menu |-> "none", overlay |-> "none", target |-> "", subject |-> Nobody,
   asked |-> Nobody, app |-> "absent", board |-> FALSE, view |-> FALSE]

StartPage ==
  /\ ~ Alive
  /\ Displays(Blank("loading"))

\* onload: ready
PageLoaded ==
  /\ page.boot = "loading"
  /\ Asks([page EXCEPT !.boot = "loaded"], <<Call("init", Nobody)>>)

\* initializeMiniApps and loadMiniAppManifests; a fetch that fails is not tried
\* again.
FetchManifest ==
  Alive /\ page.app = "absent" /\ Displays([page EXCEPT !.app = "fetched"])

\* handleManifestContent, from a timer: the button, and the script's element.
InstallApp ==
  Alive /\ page.app = "fetched" /\ Displays([page EXCEPT !.app = "listed"])

ScriptLoaded ==
  Alive /\ page.app = "listed" /\ Displays([page EXCEPT !.app = "loaded"])

\* The activity or the process ends.  Posts on their way to the page are lost,
\* and posts of hidden conversations may not have been saved, even if they are
\* no longer hidden.
EndPage ==
  /\ Alive /\ outside.ends < MaxKills
  /\ page' = Blank("off")
  /\ queue' = << >>
  /\ outside' = [camera |-> FALSE, lookup |-> FALSE, ends |-> outside.ends + 1]
  /\ complete' = (/\ complete
                  /\ \A i \in DOMAIN queue : queue[i].k # "post"
                  /\ \A t \in stored : \A c \in DOMAIN t.chats : Listed(t, c))
  /\ UNCHANGED <<stored, log>>

-----------------------------------------------------------------------------
(* The specification *)

Init ==
  /\ page = Blank("off")
  /\ stored = {}
  /\ log = << >>
  /\ queue = << >>
  /\ outside = [camera |-> FALSE, lookup |-> FALSE, ends |-> 0]
  /\ complete = TRUE

Tap ==
  \/ \E s \in Main : Footer(s)
  \/ OpenMenu \/ TapBeside \/ ShowQR
  \/ \E c \in Conversation : OpenChat(c) \/ NewConversation(c)
  \/ Post \/ Plus
  \/ \E e \in UNION {Menu(s) : s \in Scenario} : MenuEntry(e)
  \/ \E empty \in BOOLEAN : EditConfirmed(empty) \/ ChangeContact(empty)
  \/ \E x \in Person : ShowDetails(x) \/ TypeIdentity(x)
  \/ \E x \in Others : PeerDetails(x)
  \/ LookUp \/ Reset \/ Restream \/ ExportSecret
  \/ Launch \/ EnterView

Next ==
  \/ Tap
  \/ BackPressed
  \/ Run
  \/ \E c \in Conversation : \E from \in c \ {Me} : Receive(c, from)
  \/ \E who \in Others : LookupFound(who)
  \/ \E who \in Person \union {Nobody} : CameraCloses(who)
  \/ StartPage \/ PageLoaded \/ FetchManifest \/ InstallApp \/ ScriptLoaded \/ EndPage

Spec == Init /\ [][Next]_vars

-----------------------------------------------------------------------------
(* Properties *)

\* The variables keep their types, the own notes are always there, and the
\* conversation that is displayed, or that the menu or the question for a new
\* name is about, exists: otherwise the handlers fail.
TypeOK ==
  /\ page.scenario \in Scenario /\ page.prev \in Main
  /\ page.menu \in Scenario \union {"none"} /\ page.overlay \in Overlay
  /\ DOMAIN Chats \subseteq Conversation /\ Contacts \subseteq Person
  /\ Me \in Contacts /\ {Me} \in DOMAIN Chats
  /\ \/ page.scenario = "posts" \/ page.menu = "posts"
     \/ page.overlay = "edit" /\ page.target = "conversation"
     => page.cur \in DOMAIN Chats

Shown == UNION {Chats[c].posts : c \in DOMAIN Chats}

\* Every private post of the log is displayed, or on its way, since the last
\* time posts were streamed, unless a reset or a new contact threw them away or
\* the page ended with posts on their way: nothing is lost between the native
\* part, the page and its storage, restarts included.
Complete ==
  complete /\ Ready =>
    \A i \in DOMAIN log : i \in Shown \/ PostCall(i) \in ToSet(queue)

\* A conversation that is displayed can be opened once the native part has
\* answered: the authors of its posts are contacts.  (Not after a restart: the
\* contacts that b2f_new_event_back adds are not saved.)
Openable ==
  Ready /\ outside.ends = 0 =>
    \A i \in Shown :
      log[i].from \in Contacts \/ Call("known", log[i].from) \in ToSet(queue)

\* What the user confirms is about the person the page shows, whatever the
\* network does in between, and an alias that is asked for goes to the person it
\* was asked for.
AboutWhomItSays ==
  /\ \/ page.overlay = "details"
     \/ page.overlay = "edit" /\ page.target = "contact"
     => page.asked = page.subject
  /\ \A i \in DOMAIN queue : queue[i].k = "added" => queue[i].who = page.subject

Distance(p) ==
  (IF p.overlay = "none" THEN 0 ELSE 1) +
  CASE p.scenario = "chats" -> 0
    [] p.scenario \in Main \ {"chats"} -> 1
    [] p.scenario = "customApp" -> IF p.view THEN 3 ELSE 2
    [] OTHER -> 2

\* Pressing back leads out of every screen, overlay and mini app: each time the
\* way to the list of conversations gets shorter.
BackLeadsOut ==
  Ready /\ Distance(page) > 0 => Distance(Back(page)) < Distance(page)
=============================================================================
