--------------------------- MODULE HostPage_proofs ---------------------------
(***************************************************************************)
(* Theorems about HostPage.tla, for any people, posts and bounds.          *)
(* The invariant IInv follows a private post from the log through the      *)
(* queue of calls to the page and to the storage.  A call that initializes *)
(* the page throws away what is not saved, so a post counts as on its way  *)
(* only behind the last of them (Later), and as displayed only when there  *)
(* is none (PostsShown); what is saved lacks at most the posts of hidden   *)
(* conversations (PostsSaved, HiddenInv); the contacts that belong to the  *)
(* posts take the same way (AuthorsShown, AuthorsSaved).  What the page is *)
(* about (AboutInv) is a second invariant, for a user who waits for the    *)
(* answers (Hurried = FALSE): then at most one answer is on its way.       *)
(***************************************************************************)
EXTENDS HostPage, FiniteSetTheorems, TLAPS

-----------------------------------------------------------------------------
(* The inductive invariant *)

\* A conversation: its posts, by their places in the log, and whether it is hidden.
Chat == [posts : SUBSET Nat, forgotten : BOOLEAN]

\* What the page keeps and saves.
Tremola ==
  {t \in [contacts : SUBSET Person, chats : UNION {[D -> Chat] : D \in SUBSET Conversation}] :
     Me \in t.contacts /\ {Me} \in DOMAIN t.chats}

\* The page: what it keeps and what it displays.
Page ==
  [boot : {"off", "loading", "loaded", "ready"}, tremola : Tremola, cur : SUBSET Person,
   scenario : Scenario, prev : Main, menu : Scenario \union {"none"}, overlay : Overlay,
   target : {"", "conversation", "pub", "contact"}, subject : Person \union {Nobody},
   asked : Person \union {Nobody}, app : {"absent", "fetched", "listed", "loaded"},
   board : BOOLEAN, view : BOOLEAN]

\* A private post: its author is among the recipients.
Entry == {e \in [from : Person, to : Conversation] : e.from \in e.to}

\* The calls that may wait, when the log has n posts.
Calls(n) ==
  [k : {"known", "added", "found", "details"}, who : Person]
  \union [k : {"public", "aliased", "secret", "init", "scanned"}, who : Person \union {Nobody}]
  \union [k : {"post"}, post : 1 .. n]

\* The types of everything but the page.
TypeInv ==
  /\ stored \in {{}} \union {{t} : t \in Tremola}
  /\ log \in Seq(Entry)
  /\ queue \in Seq(Calls(Len(log)))
  /\ outside \in [camera : BOOLEAN, lookup : BOOLEAN, ends : Nat]
  /\ complete \in BOOLEAN

\* The conversation that something is about.
AboutChat(p) ==
  \/ p.scenario = "posts" \/ p.menu = "posts"
  \/ p.overlay = "edit" /\ p.target = "conversation"

\* A page where what something is about is there.
Proper(p) ==
  /\ p \in Page
  /\ AboutChat(p) => p.cur \in DOMAIN p.tremola.chats
  /\ p.target = "contact" => p.subject # Nobody
  /\ p.overlay = "edit" => p.target # ""

\* What is displayed is there; a contact to be added is somebody.
ScreenInv ==
  /\ Proper(page)
  /\ \A call \in ToSet(queue) : call.k = "added" => page.subject # Nobody

\* Calls to initialize the page that wait, and what comes after the last one.
Inits(q) == {i \in DOMAIN q : q[i].k = "init"}
Later(q) == {q[i] : i \in {i \in DOMAIN q : \A j \in Inits(q) : j < i}}

\* The posts that t displays, and those in the storage.
ShownIn(t) == UNION {t.chats[c].posts : c \in DOMAIN t.chats}
Saved == UNION {ShownIn(t) : t \in stored}

\* The page is initialized once, unless it is reset.
StartInv ==
  /\ page.boot \in {"off", "loading"} => Inits(queue) = {}
  /\ page.boot = "off" => queue = << >> /\ ~ outside.camera /\ ~ outside.lookup
  /\ ~ Ready => \A i, j \in Inits(queue) : i = j
  /\ Ready => stored # {}
  /\ outside.ends = 0 /\ ~ Ready => stored = {}

\* A conversation the page hides is hidden in the storage.
HiddenInv ==
  Ready => \A t \in stored, c \in DOMAIN Chats :
             ~ Listed(page.tremola, c) => c \in DOMAIN t.chats /\ ~ Listed(t, c)

\* A post of the log is shown, or comes after the page is initialized again.
PostsShown ==
  complete /\ Ready =>
    \A i \in DOMAIN log :
      PostCall(i) \in Later(queue) \/ (Inits(queue) = {} /\ i \in ShownIn(page.tremola))

\* A post of the log is saved or on its way, but for hidden conversations.
PostsSaved ==
  complete =>
    \A i \in DOMAIN log :
      \/ PostCall(i) \in ToSet(queue)
      \/ i \in Saved
      \/ Ready /\ \E t \in stored : log[i].to \in DOMAIN t.chats /\ ~ Listed(t, log[i].to)

\* The author of a post is a contact of t, or soon will be.
Authored(t) ==
  \A i \in ShownIn(t) :
    i \in DOMAIN log
    /\ (log[i].from \in t.contacts \/ Call("known", log[i].from) \in Later(queue))

\* Until the first restart, the authors of the displayed posts are contacts.
AuthorsShown == outside.ends = 0 /\ Ready => Authored(page.tremola)

\* So are those of the stored posts while the page waits to be initialized again.
AuthorsSaved ==
  outside.ends = 0 /\ Ready /\ Inits(queue) # {} => \A t \in stored : Authored(t)

\* What holds of posts, conversations and contacts.
DataInv == StartInv /\ HiddenInv /\ PostsShown /\ PostsSaved /\ AuthorsShown /\ AuthorsSaved

\* The inductive invariant.
IInv == TypeInv /\ ScreenInv /\ DataInv

-----------------------------------------------------------------------------
(* Queues *)

\* Without a call to initialize the page, every call comes after the last one.
LEMMA NoInits ==
  ASSUME NEW q, Inits(q) = {}
  PROVE  Later(q) = ToSet(q)
BY DEF Later, ToSet

\* The calls after the last initialization are calls that wait.
LEMMA LaterWaits ==
  ASSUME NEW q
  PROVE  Later(q) \subseteq ToSet(q)
BY DEF Later, ToSet

\* A sequence over a set is one over a larger set.
LEMMA WiderSeq ==
  ASSUME NEW A, NEW B, A \subseteq B, NEW q \in Seq(A)
  PROVE  q \in Seq(B)
OBVIOUS

\* What is added at the end of a queue.
LEMMA Appended ==
  ASSUME NEW C, NEW q \in Seq(C), NEW s \in Seq(C)
  PROVE  /\ q \o s \in Seq(C)
         /\ ToSet(q \o s) = ToSet(q) \union ToSet(s)
         /\ Inits(q) \subseteq Inits(q \o s)
         /\ Inits(s) = {} => /\ Inits(q \o s) = Inits(q)
                             /\ Later(q \o s) = Later(q) \union ToSet(s)
<1> DEFINE r == q \o s
<1>1. /\ r \in Seq(C) /\ Len(r) = Len(q) + Len(s) /\ Len(q) \in Nat /\ Len(s) \in Nat
      /\ DOMAIN r = 1 .. Len(r) /\ DOMAIN q = 1 .. Len(q) /\ DOMAIN s = 1 .. Len(s)
      /\ \A i \in DOMAIN q : r[i] = q[i]
      /\ \A i \in DOMAIN s : r[Len(q) + i] = s[i]
  OBVIOUS
<1> HIDE DEF r
<1>2. \A i \in DOMAIN r : i \in DOMAIN q \/ (i - Len(q) \in DOMAIN s /\ i = Len(q) + (i - Len(q)))
  BY <1>1
<1>3. \A i \in DOMAIN r : (i \in DOMAIN q /\ r[i] = q[i])
                          \/ (i - Len(q) \in DOMAIN s /\ r[i] = s[i - Len(q)])
  BY <1>1, <1>2
<1>4. /\ \A i \in DOMAIN q : i \in DOMAIN r
      /\ \A i \in DOMAIN s : Len(q) + i \in DOMAIN r
  BY <1>1
<1>5. ToSet(r) = ToSet(q) \union ToSet(s)
  <2>1. ToSet(r) \subseteq ToSet(q) \union ToSet(s)
    BY <1>3 DEF ToSet
  <2>2. ToSet(q) \subseteq ToSet(r)
    BY <1>1, <1>4 DEF ToSet
  <2>3. ToSet(s) \subseteq ToSet(r)
    BY <1>1, <1>4 DEF ToSet
  <2> QED
    BY <2>1, <2>2, <2>3
<1>6. Inits(q) \subseteq Inits(r)
  BY <1>1, <1>4 DEF Inits
<1>7. ASSUME Inits(s) = {} PROVE Inits(r) = Inits(q)
  BY <1>3, <1>6, <1>7 DEF Inits
<1>8. ASSUME Inits(s) = {} PROVE Later(r) = Later(q) \union ToSet(s)
  <2>1. Inits(r) = Inits(q)
    BY <1>7, <1>8
  <2>2. Inits(q) \subseteq DOMAIN q
    BY DEF Inits
  <2>3. \A i \in DOMAIN s : \A j \in Inits(r) : j < Len(q) + i
    BY <1>1, <2>1, <2>2
  <2>4. ToSet(s) \subseteq Later(r)
    BY <1>1, <1>4, <2>3 DEF Later, ToSet
  <2>5. Later(q) \subseteq Later(r)
    BY <1>1, <1>4, <2>1 DEF Later
  <2>6. Later(r) \subseteq Later(q) \union ToSet(s)
    BY <1>3, <2>1 DEF Later, ToSet
  <2> QED
    BY <2>4, <2>5, <2>6
<1> QED
  BY <1>1, <1>5, <1>6, <1>7, <1>8 DEF r

\* A queue without its first call.
LEMMA Popped ==
  ASSUME NEW C, NEW q \in Seq(C), q # << >>
  PROVE  /\ Tail(q) \in Seq(C) /\ Head(q) \in C
         /\ ToSet(q) = {Head(q)} \union ToSet(Tail(q))
         /\ Inits(q) = {} => Inits(Tail(q)) = {}
         /\ Inits(q) = {} => Head(q).k # "init"
         /\ Inits(q) # {} => Later(Tail(q)) = Later(q)
         /\ (\A i, j \in Inits(q) : i = j) =>
               /\ \A i, j \in Inits(Tail(q)) : i = j
               /\ Head(q).k = "init" => Inits(Tail(q)) = {}
<1> DEFINE r == Tail(q)
<1>1. /\ r \in Seq(C) /\ Head(q) = q[1] /\ Len(q) \in Nat /\ Len(q) >= 1
      /\ DOMAIN q = 1 .. Len(q) /\ DOMAIN r = 1 .. Len(q) - 1
      /\ \A i \in DOMAIN r : r[i] = q[i + 1]
  OBVIOUS
<1> HIDE DEF r
<1>2. /\ 1 \in DOMAIN q /\ DOMAIN q \in SUBSET Int /\ DOMAIN r \in SUBSET Int
      /\ \A i \in DOMAIN r : i + 1 \in DOMAIN q /\ i + 1 # 1
      /\ \A i \in DOMAIN q : i = 1 \/ (i - 1 \in DOMAIN r /\ r[i - 1] = q[i])
  BY <1>1
<1>3. ToSet(q) = {q[1]} \union ToSet(r)
  <2>1. ToSet(r) \subseteq ToSet(q)
    BY <1>1, <1>2 DEF ToSet
  <2>2. ToSet(q) \subseteq {q[1]} \union ToSet(r)
    BY <1>2 DEF ToSet
  <2> QED
    BY <1>2, <2>1, <2>2 DEF ToSet
<1>4. /\ \A i \in Inits(r) : i + 1 \in Inits(q) /\ i \in Int
      /\ \A i \in Inits(q) : i = 1 \/ i - 1 \in Inits(r)
      /\ Inits(q) \in SUBSET Int /\ Inits(r) \in SUBSET Int
  BY <1>1, <1>2 DEF Inits
<1>5. q[1].k = "init" => 1 \in Inits(q)
  BY <1>2 DEF Inits
<1>6. ASSUME Inits(q) # {} PROVE Later(r) = Later(q)
  <2>1. Later(r) \subseteq Later(q)
    <3> SUFFICES ASSUME NEW i \in DOMAIN r, \A j \in Inits(r) : j < i
                 PROVE  r[i] \in Later(q)
      BY DEF Later
    <3>1. \A j \in Inits(q) : j < i + 1
      BY <1>1, <1>4
    <3> QED
      BY <1>1, <1>2, <3>1 DEF Later
  <2>2. Later(q) \subseteq Later(r)
    <3> SUFFICES ASSUME NEW i \in DOMAIN q, \A j \in Inits(q) : j < i
                 PROVE  q[i] \in Later(r)
      BY DEF Later
    <3>1. i # 1
      BY <1>1, <1>6 DEF Inits
    <3>2. i - 1 \in DOMAIN r /\ r[i - 1] = q[i]
      BY <1>2, <3>1
    <3>3. \A j \in Inits(r) : j < i - 1
      BY <1>2, <1>4
    <3> QED
      BY <3>2, <3>3 DEF Later
  <2> QED
    BY <2>1, <2>2
<1>7. ASSUME \A i, j \in Inits(q) : i = j
      PROVE  /\ \A i, j \in Inits(r) : i = j
             /\ q[1].k = "init" => Inits(r) = {}
  <2>1. ASSUME NEW i \in Inits(r), NEW j \in Inits(r) PROVE i = j
    BY <1>4, <1>7
  <2>2. ASSUME q[1].k = "init", NEW i \in Inits(r) PROVE FALSE
    <3>1. i + 1 = 1
      BY <1>4, <1>5, <1>7, <2>2
    <3> QED
      BY <1>1, <3>1 DEF Inits
  <2> QED
    BY <2>1, <2>2
<1> QED
  BY <1>1, <1>2, <1>3, <1>4, <1>5, <1>6, <1>7 DEF r

\* The answers of the native part are queued, in some order.
LEMMA AnswersQueued ==
  ASSUME NEW k, NEW people \in SUBSET Person
  PROVE  /\ Answers(k, people) \in Seq([k : {k}, who : people])
         /\ ToSet(Answers(k, people)) = {Call(k, x) : x \in people}
         /\ Len(Answers(k, people)) = Cardinality({Call(k, x) : x \in people})
<1> DEFINE S == {Call(k, x) : x \in people}
<1>1. IsFiniteSet(S)
  <2>1. IsFiniteSet(people)
    BY PeopleAssumption, FS_Subset
  <2>2. [x \in people |-> Call(k, x)] \in Surjection(people, S)
    BY DEF Surjection
  <2> QED
    BY <2>1, <2>2, FS_Surjection
<1>2. Cardinality(S) \in Nat
  BY <1>1, FS_CardinalityType
<1>3. PICK f : f \in Bijection(1 .. Cardinality(S), S)
  BY <1>1, FS_CardinalityType DEF ExistsBijection
<1>4. f \in [1 .. Cardinality(S) -> S] /\ IsInjective(f)
  BY <1>3 DEF Bijection, Injection
<1> DEFINE g == SetToSeq(S)
<1>5. g \in [1 .. Cardinality(S) -> S] /\ IsInjective(g)
  BY <1>4 DEF SetToSeq
<1> HIDE DEF S, g
<1>6. g \in Seq(S) /\ DOMAIN g = 1 .. Cardinality(S) /\ Len(g) = Cardinality(S)
  BY <1>2, <1>5
<1>7. ToSet(g) = S
  <2>1. {g[i] : i \in 1 .. Cardinality(S)} = S
    <3> DEFINE R == {g[i] : i \in 1 .. Cardinality(S)}
    <3>1. R \subseteq S
      BY <1>5
    <3>2. g \in Bijection(1 .. Cardinality(S), R)
      BY <1>5 DEF Bijection, Injection, Surjection
    <3>3. Cardinality(R) = Cardinality(1 .. Cardinality(S))
      BY <1>2, <3>2, FS_Interval, FS_Bijection DEF ExistsBijection
    <3>4. Cardinality(1 .. Cardinality(S)) = Cardinality(S)
      BY <1>2, FS_Interval
    <3> QED
      BY <1>1, <3>1, <3>3, <3>4, FS_Subset
  <2> QED
    BY <1>6, <2>1 DEF ToSet
<1>8. S \subseteq [k : {k}, who : people]
  BY DEF S, Call
<1>9. g \in Seq([k : {k}, who : people])
  BY <1>6, <1>8, WiderSeq
<1> QED
  BY <1>6, <1>7, <1>9 DEF g, S, Answers

-----------------------------------------------------------------------------
(* Taps that change only what the page displays *)

\* Page q differs from p only in what it displays.
Redisplays(q, p) ==
  /\ Proper(q)
  /\ q.tremola = p.tremola /\ q.boot = p.boot
  /\ q.subject = p.subject \/ q.subject # Nobody

\* Displaying something else twice is displaying something else.
LEMMA RedisplaysAgain ==
  ASSUME NEW p, NEW q, NEW r, Redisplays(q, p), Redisplays(r, q)
  PROVE  Redisplays(r, p)
BY DEF Redisplays

\* closeOverlay: nothing covers the screen.
LEMMA ClosedPage ==
  ASSUME NEW p, Proper(p)
  PROVE  Redisplays(Closed(p), p) /\ Closed(p).overlay = "none" /\ Closed(p).menu = "none"
         /\ Closed(p).scenario = p.scenario /\ Closed(p).cur = p.cur
BY DEF Proper, Redisplays, Closed, Page, Overlay, AboutChat

\* setScenario: what it sets, and what it leaves alone.
LEMMA ShowFields ==
  ASSUME NEW p \in Page, NEW s \in Scenario
  PROVE  /\ Show(p, s) \in Page
         /\ Show(p, s).scenario = s /\ Show(p, s).menu = p.menu
         /\ Show(p, s).overlay = p.overlay /\ Show(p, s).target = p.target
         /\ Show(p, s).cur = p.cur /\ Show(p, s).tremola = p.tremola
         /\ Show(p, s).boot = p.boot /\ Show(p, s).subject = p.subject
<1> DEFINE back == IF s \in Main THEN s ELSE p.prev
<1>1. Show(p, s) = [p EXCEPT !.scenario = s, !.prev = back, !.board = FALSE]
  BY DEF Show
<1>2. back \in Main
  BY DEF Page
<1> HIDE DEF back
<1> QED
  BY <1>1, <1>2 DEF Page

\* setScenario, of another screen than the posts of a conversation.
LEMMA ShownPage ==
  ASSUME NEW p, Proper(p), NEW s \in Scenario, s # "posts"
  PROVE  Redisplays(Show(p, s), p)
<1> DEFINE q == Show(p, s)
<1>1. p \in Page
  BY DEF Proper
<1>2. /\ q \in Page /\ q.scenario = s /\ q.menu = p.menu /\ q.overlay = p.overlay
      /\ q.target = p.target /\ q.cur = p.cur /\ q.tremola = p.tremola
      /\ q.boot = p.boot /\ q.subject = p.subject
  BY <1>1, ShowFields
<1> HIDE DEF q
<1> QED
  BY <1>2 DEF Proper, Redisplays, AboutChat, q

\* The parts of what the page keeps.
LEMMA TremolaFields ==
  ASSUME NEW t \in Tremola
  PROVE  /\ t.contacts \in SUBSET Person /\ Me \in t.contacts
         /\ DOMAIN t.chats \in SUBSET Conversation /\ {Me} \in DOMAIN t.chats
         /\ t.chats \in [DOMAIN t.chats -> Chat]
         /\ t = [contacts |-> t.contacts, chats |-> t.chats]
<1>1. /\ t \in [contacts : SUBSET Person, chats : UNION {[D -> Chat] : D \in SUBSET Conversation}]
      /\ Me \in t.contacts /\ {Me} \in DOMAIN t.chats
  BY DEF Tremola
<1>2. PICK D \in SUBSET Conversation : t.chats \in [D -> Chat]
  BY <1>1
<1> QED
  BY <1>1, <1>2

\* An overlay that nothing is entered in covers the screen.
LEMMA CoveredPage ==
  ASSUME NEW p, Proper(p), NEW o \in Overlay, o # "edit"
  PROVE  Redisplays(Over(p, o), p)
BY DEF Proper, Redisplays, Over, Page, AboutChat

\* menu_edit, and qr_scan_success, which may call it.
LEMMA EditedPage ==
  ASSUME NEW p, Proper(p)
  PROVE  /\ Redisplays(Edit(p, "pub"), p)
         /\ p.cur \in DOMAIN p.tremola.chats => Redisplays(Edit(p, "conversation"), p)
         /\ \A who \in Person : /\ Redisplays(EditContact(p, who), p)
                                /\ Redisplays(Scanned(p, who), p)
<1>1. Redisplays(Edit(p, "pub"), p)
  BY DEF Proper, Redisplays, Edit, Over, Closed, Page, Overlay, AboutChat
<1>2. p.cur \in DOMAIN p.tremola.chats => Redisplays(Edit(p, "conversation"), p)
  BY DEF Proper, Redisplays, Edit, Over, Closed, Page, Overlay, AboutChat
<1>3. ASSUME NEW who \in Person PROVE Redisplays(EditContact(p, who), p)
  BY PeopleAssumption
  DEF Proper, Redisplays, EditContact, Edit, Over, Closed, Page, Overlay, AboutChat
<1> QED
  BY <1>1, <1>2, <1>3, ClosedPage DEF Scanned

\* load_chat of a conversation that is there.
LEMMA ChatPage ==
  ASSUME NEW p, Proper(p), NEW c \in DOMAIN p.tremola.chats
  PROVE  Redisplays(LoadChat(p, c), p)
<1>1. p \in Page /\ p.tremola \in Tremola /\ "posts" \in Scenario
  BY DEF Proper, Page, Scenario
<1>2. c \in SUBSET Person
  BY <1>1, TremolaFields DEF Conversation
<1> DEFINE q == Show(p, "posts")
<1>3. /\ q \in Page /\ q.tremola = p.tremola /\ q.target = p.target /\ q.overlay = p.overlay
      /\ q.boot = p.boot /\ q.subject = p.subject
  BY <1>1, ShowFields
<1>4. LoadChat(p, c) \in {[q EXCEPT !.cur = c], [p EXCEPT !.cur = c]}
  BY DEF LoadChat
<1> HIDE DEF q
<1>5. Redisplays([q EXCEPT !.cur = c], p)
  <2> DEFINE r == [q EXCEPT !.cur = c]
  <2>1. /\ r \in Page /\ r.cur = c /\ r.tremola = q.tremola /\ r.target = q.target
        /\ r.overlay = q.overlay /\ r.boot = q.boot /\ r.subject = q.subject
    BY <1>2, <1>3 DEF Page
  <2> HIDE DEF r
  <2>2. Redisplays(r, p)
    BY <1>3, <2>1 DEF Proper, Redisplays
  <2> QED
    BY <2>2 DEF r
<1>6. Redisplays([p EXCEPT !.cur = c], p)
  BY <1>2 DEF Proper, Redisplays, Page
<1> QED
  BY <1>4, <1>5, <1>6

\* The pages that the key for back leads to.
LEMMA BackCases ==
  ASSUME NEW p
  PROVE  Back(p) \in {Closed(p), Show(p, "miniapps"), Show(p, "chats"), Show(p, p.prev),
                      [p EXCEPT !.view = FALSE], p}
<1> DEFINE a == Closed(p)
           b == Show(p, "miniapps")
           d == Show(p, "chats")
           f == Show(p, p.prev)
           v == [p EXCEPT !.view = FALSE]
<1>1. Back(p) \in {a, b, d, f, v, p}
  <2>1. Back(p) = CASE p.overlay # "none" -> a
                    [] p.overlay = "none" /\ p.scenario = "customApp" ->
                         (IF p.app = "loaded" /\ p.view THEN v ELSE b)
                    [] p.overlay = "none" /\ p.scenario = "chats" -> p
                    [] p.overlay = "none" /\ p.scenario \in Main \ {"chats"} -> d
                    [] OTHER -> f
    BY DEF Back
  <2> HIDE DEF a, b, d, f, v
  <2> QED
    BY <2>1 DEF Main
<1> QED
  BY <1>1

\* Going back displays something else.
LEMMA BackPage ==
  ASSUME NEW p, Proper(p)
  PROVE  Redisplays(Back(p), p)
<1>1. p.prev \in Scenario /\ p.prev # "posts"
  BY DEF Proper, Page, Main, Scenario
<1>2. Redisplays(p, p)
  BY DEF Proper, Redisplays
<1>3. Redisplays([p EXCEPT !.view = FALSE], p)
  BY DEF Proper, Redisplays, Page, AboutChat
<1>4. "miniapps" \in Scenario /\ "chats" \in Scenario
  BY DEF Scenario, Main
<1>5. /\ Redisplays(Show(p, p.prev), p) /\ Redisplays(Show(p, "miniapps"), p)
      /\ Redisplays(Show(p, "chats"), p)
  BY <1>1, <1>4, ShownPage
<1>6. p.overlay # "none" \/ p.scenario = "customApp" \/ p.scenario = "chats"
      \/ p.scenario \in Main \ {"chats"} \/ Back(p) = Show(p, p.prev)
  BY DEF Back
<1>7. Redisplays(Closed(p), p)
  BY ClosedPage
<1> DEFINE a == Closed(p)
           b == Show(p, "miniapps")
           d == Show(p, "chats")
           f == Show(p, p.prev)
           v == [p EXCEPT !.view = FALSE]
<1>8. Back(p) \in {a, b, d, f, v, p}
  BY BackCases
<1> HIDE DEF a, b, d, f, v
<1>9. Redisplays(a, p) /\ Redisplays(b, p) /\ Redisplays(d, p) /\ Redisplays(f, p) /\ Redisplays(v, p)
  BY <1>3, <1>5, <1>7 DEF a, b, d, f, v
<1> QED
  BY <1>2, <1>8, <1>9

\* menu_new_conversation displays the members to choose from.
LEMMA MembersPage ==
  ASSUME NEW p, Proper(p)
  PROVE  Redisplays(Members(p), p)
<1> DEFINE q == Show(p, "members")
<1>1. "members" \in Scenario /\ "chats" \in Main
  BY DEF Scenario, Main
<1>2. Redisplays(q, p)
  BY <1>1, ShownPage
<1>3. Members(p) = [q EXCEPT !.prev = "chats"]
  BY DEF Members
<1> HIDE DEF q
<1> DEFINE r == [q EXCEPT !.prev = "chats"]
<1>4. /\ r \in Page /\ r.tremola = q.tremola /\ r.boot = q.boot /\ r.subject = q.subject
      /\ r.target = q.target /\ r.overlay = q.overlay /\ r.cur = q.cur
      /\ (AboutChat(r) <=> AboutChat(q))
  BY <1>1, <1>2 DEF Redisplays, Proper, Page, AboutChat
<1> HIDE DEF r
<1>5. Redisplays(r, p)
  BY <1>2, <1>4 DEF Redisplays, Proper
<1> QED
  BY <1>3, <1>5 DEF r

\* A handler that saves the page leaves nothing to hide.
LEMMA SavingKeeps ==
  ASSUME Ready', stored' = {page'.tremola}, PostsShown', AuthorsShown'
  PROVE  HiddenInv' /\ PostsSaved' /\ AuthorsSaved'
<1>1. Saved' = ShownIn(page'.tremola)
  BY DEF Saved
<1>2. \A i : i \in Later(queue') => i \in ToSet(queue')
  BY LaterWaits
<1>3. HiddenInv'
  BY DEF HiddenInv, Chats
<1>4. PostsSaved'
  BY <1>1, <1>2 DEF PostsShown, PostsSaved
<1>5. AuthorsSaved'
  BY DEF AuthorsShown, AuthorsSaved
<1> QED
  BY <1>3, <1>4, <1>5

\* A handler that displays something else, saves, or adds calls to the queue other
\* than the one to initialize the page.
LEMMA TapKeeps ==
  ASSUME IInv, NEW p, Redisplays(p, page), page' = p,
         stored' = stored \/ (Ready /\ stored' = {page.tremola}),
         NEW s \in Seq(Calls(Len(log))), Inits(s) = {},
         \A call \in ToSet(s) : call.k = "added" => p.subject # Nobody,
         queue' = queue \o s, log' = log, complete' = complete,
         outside' \in [camera : BOOLEAN, lookup : BOOLEAN, ends : Nat],
         outside'.ends = outside.ends,
         page.boot = "off" => s = << >> /\ outside' = outside
  PROVE  IInv'
<1>1. /\ queue' \in Seq(Calls(Len(log))) /\ ToSet(queue') = ToSet(queue) \union ToSet(s)
      /\ Inits(queue') = Inits(queue) /\ Later(queue') = Later(queue) \union ToSet(s)
  BY Appended DEF IInv, TypeInv
<1>2. Proper(p) /\ p.tremola = page.tremola /\ p.boot = page.boot
      /\ (p.subject = page.subject \/ p.subject # Nobody)
  BY DEF Redisplays
<1>3. p.tremola \in Tremola
  BY <1>2 DEF Proper, Page
<1>4. TypeInv'
  BY <1>1, <1>2, <1>3 DEF IInv, TypeInv
<1>5. ScreenInv'
  BY <1>1, <1>2 DEF IInv, ScreenInv
<1>6. StartInv'
  <2>1. page.boot = "off" => queue' = << >>
    <3>1. page.boot = "off" => queue = << >>
      BY DEF IInv, DataInv, StartInv
    <3> QED
      BY <3>1
  <2>2. StartInv
    BY DEF IInv, DataInv
  <2> QED
    BY <1>1, <1>2, <2>1, <2>2 DEF StartInv, Ready
<1>7. PostsShown'
  <2>1. PostsShown
    BY DEF IInv, DataInv
  <2> QED
    BY <1>1, <1>2, <2>1 DEF PostsShown, Ready
<1>8. AuthorsShown'
  <2>1. AuthorsShown
    BY DEF IInv, DataInv
  <2> QED
    BY <1>1, <1>2, <2>1 DEF AuthorsShown, Ready, Authored
<1>9. CASE stored' = stored
  <2>1. HiddenInv /\ PostsSaved /\ AuthorsSaved
    BY DEF IInv, DataInv
  <2>2. HiddenInv'
    BY <1>2, <1>9, <2>1 DEF HiddenInv, Ready, Chats
  <2>3. PostsSaved'
    <3>1. Saved' = Saved
      BY <1>9 DEF Saved
    <3> QED
      BY <1>1, <1>2, <1>9, <2>1, <3>1 DEF PostsSaved, Ready
  <2>4. AuthorsSaved'
    BY <1>1, <1>2, <1>9, <2>1 DEF AuthorsSaved, Ready, Authored
  <2> QED
    BY <1>4, <1>5, <1>6, <1>7, <1>8, <2>2, <2>3, <2>4 DEF IInv, DataInv
<1>10. CASE Ready /\ stored' = {page.tremola}
  <2>1. Ready' /\ stored' = {page'.tremola}
    BY <1>2, <1>10 DEF Ready
  <2> QED
    BY <1>4, <1>5, <1>6, <1>7, <1>8, <2>1, SavingKeeps DEF IInv, DataInv
<1> QED
  BY <1>9, <1>10

\* A tap that only displays, or saves, or asks.
LEMMA DisplaysKeeps ==
  ASSUME IInv, NEW p, Redisplays(p, page), Displays(p) \/ (Ready /\ Keeps(p))
  PROVE  IInv'
<1> DEFINE s == << >>
<1>1. s \in Seq(Calls(Len(log))) /\ Inits(s) = {} /\ ToSet(s) = {}
  BY DEF Inits, ToSet
<1>2. queue = queue \o s
  BY DEF IInv, TypeInv
<1>3. outside \in [camera : BOOLEAN, lookup : BOOLEAN, ends : Nat]
  BY DEF IInv, TypeInv
<1>4. p.tremola = page.tremola
  BY DEF Redisplays
<1>5. /\ page' = p /\ (stored' = stored \/ (Ready /\ stored' = {page.tremola}))
      /\ queue' = queue /\ log' = log /\ complete' = complete /\ outside' = outside
  BY <1>4 DEF Displays, Keeps, Becomes, Saves
<1> HIDE DEF s
<1>6. queue' = queue \o s
  BY <1>2, <1>5
<1>7. page.boot = "off" => s = << >>
  BY DEF s
<1> QED
  BY <1>1, <1>3, <1>5, <1>6, <1>7, TapKeeps

\* A tap that asks the native part.
LEMMA AsksKeeps ==
  ASSUME IInv, Ready, NEW p, Redisplays(p, page), NEW s \in Seq(Calls(Len(log))),
         Inits(s) = {}, \A call \in ToSet(s) : call.k = "added" => p.subject # Nobody,
         Asks(p, s)
  PROVE  IInv'
<1>1. outside \in [camera : BOOLEAN, lookup : BOOLEAN, ends : Nat]
  BY DEF IInv, TypeInv
<1>2. /\ page' = p /\ stored' = stored /\ queue' = queue \o s /\ log' = log
      /\ complete' = complete /\ outside' = outside
  BY DEF Asks, Becomes
<1>3. page.boot # "off"
  BY DEF Ready
<1> QED
  BY <1>1, <1>2, <1>3, TapKeeps

-----------------------------------------------------------------------------
(* Handlers that change what the page keeps *)

\* What becomes of the conversations when one is set.
LEMMA WithFields ==
  ASSUME NEW t \in Tremola, NEW c \in Conversation, NEW chat \in Chat
  PROVE  /\ DOMAIN With(t.chats, c, chat) = DOMAIN t.chats \union {c}
         /\ With(t.chats, c, chat)[c] = chat
         /\ \A x \in DOMAIN t.chats : x # c => With(t.chats, c, chat)[x] = t.chats[x]
         /\ [t EXCEPT !.chats = With(t.chats, c, chat)] \in Tremola
<1> DEFINE w == With(t.chats, c, chat)
<1>1. /\ DOMAIN t.chats \in SUBSET Conversation /\ {Me} \in DOMAIN t.chats
      /\ t.chats \in [DOMAIN t.chats -> Chat]
      /\ t.contacts \in SUBSET Person /\ Me \in t.contacts
      /\ t = [contacts |-> t.contacts, chats |-> t.chats]
  BY TremolaFields
<1>2. DOMAIN w = DOMAIN t.chats \union {c} /\ w[c] = chat
  BY DEF With
<1>3. \A x \in DOMAIN t.chats : x # c => w[x] = t.chats[x]
  BY DEF With
<1>4. w \in [DOMAIN t.chats \union {c} -> Chat]
  BY <1>1 DEF With
<1>5. DOMAIN t.chats \union {c} \in SUBSET Conversation
  BY <1>1
<1> HIDE DEF w
<1>6. w \in UNION {[D -> Chat] : D \in SUBSET Conversation}
  BY <1>4, <1>5
<1>7. [t EXCEPT !.chats = w] = [contacts |-> t.contacts, chats |-> w]
  BY <1>1
<1>8. [t EXCEPT !.chats = w] \in Tremola
  BY <1>1, <1>2, <1>6, <1>7 DEF Tremola
<1> QED
  BY <1>2, <1>3, <1>8 DEF w

\* What becomes of the posts when a conversation is set.
LEMMA WithPosts ==
  ASSUME NEW t \in Tremola, NEW u \in Tremola, NEW c \in Conversation, NEW chat \in Chat,
         u.chats = With(t.chats, c, chat)
  PROVE  /\ ShownIn(u) \subseteq ShownIn(t) \union chat.posts
         /\ chat.posts \subseteq ShownIn(u)
         /\ (c \in DOMAIN t.chats => t.chats[c].posts \subseteq chat.posts)
               => ShownIn(t) \subseteq ShownIn(u)
<1>1. /\ DOMAIN u.chats = DOMAIN t.chats \union {c} /\ u.chats[c] = chat
      /\ \A x \in DOMAIN t.chats : x # c => u.chats[x] = t.chats[x]
  <2> DEFINE w == With(t.chats, c, chat)
  <2>1. /\ DOMAIN w = DOMAIN t.chats \union {c} /\ w[c] = chat
        /\ \A x \in DOMAIN t.chats : x # c => w[x] = t.chats[x]
    BY WithFields
  <2>2. u.chats = w
    OBVIOUS
  <2> HIDE DEF w
  <2> QED
    BY <2>1, <2>2
<1> QED
  BY <1>1 DEF ShownIn

\* resetTremola: the own notes are there, and nothing else.
LEMMA FreshThere ==
  Fresh \in Tremola /\ ShownIn(Fresh) = {} /\ \A c \in DOMAIN Fresh.chats : c = {Me}
<1>1. Fresh.chats \in [{{Me}} -> Chat] /\ Fresh.contacts = {Me}
      /\ DOMAIN Fresh.chats = {{Me}} /\ Fresh.chats[{Me}].posts = {}
  BY DEF Fresh, Chat
<1>2. {{Me}} \in SUBSET Conversation
  BY PeopleAssumption DEF Conversation
<1>3. Fresh \in [contacts : SUBSET Person, chats : UNION {[D -> Chat] : D \in SUBSET Conversation}]
  BY <1>1, <1>2, PeopleAssumption DEF Fresh
<1>4. Me \in Fresh.contacts /\ {Me} \in DOMAIN Fresh.chats
  BY <1>1
<1>5. Fresh \in Tremola
  BY <1>3, <1>4 DEF Tremola
<1>6. ShownIn(Fresh) = {}
  BY <1>1 DEF ShownIn
<1> QED
  BY <1>1, <1>5, <1>6

\* A new contact, with an empty conversation.
LEMMA ContactPage ==
  ASSUME NEW p, Proper(p), NEW who \in Person
  PROVE  LET q == WithContact(p, who) IN
         /\ Proper(q) /\ q.boot = p.boot /\ q.subject = p.subject
         /\ q.tremola.contacts = p.tremola.contacts \union {who}
         /\ ShownIn(q.tremola) \subseteq ShownIn(p.tremola)
         /\ ({Me, who} \in DOMAIN p.tremola.chats => p.tremola.chats[{Me, who}].posts = {})
               => ShownIn(p.tremola) \subseteq ShownIn(q.tremola)
<1> DEFINE t == p.tremola
           c == {Me, who}
           u == [[t EXCEPT !.contacts = @ \union {who}] EXCEPT !.chats = With(t.chats, c, Empty)]
           q == [p EXCEPT !.tremola = u]
<1>1. /\ p \in Page /\ t \in Tremola /\ c \in Conversation /\ Empty \in Chat
  BY PeopleAssumption DEF Proper, Page, Conversation, Empty, Chat
<1>2. [t EXCEPT !.contacts = @ \union {who}] \in Tremola
  <2>1. t \in [contacts : SUBSET Person, chats : UNION {[D -> Chat] : D \in SUBSET Conversation}]
    BY <1>1 DEF Tremola
  <2> QED
    BY <1>1, <2>1 DEF Tremola
<1>3. u \in Tremola /\ u.contacts = t.contacts \union {who} /\ u.chats = With(t.chats, c, Empty)
  <2> DEFINE v == [t EXCEPT !.contacts = @ \union {who}]
  <2>1. v \in Tremola /\ v.chats = t.chats /\ v.contacts = t.contacts \union {who}
    BY <1>1, <1>2, TremolaFields
  <2>2. [v EXCEPT !.chats = With(v.chats, c, Empty)] \in Tremola
    <3> HIDE DEF v, c
    <3> QED
      BY <1>1, <2>1, WithFields
  <2>3. u = [v EXCEPT !.chats = With(v.chats, c, Empty)]
    BY <2>1
  <2>4. [v EXCEPT !.chats = With(v.chats, c, Empty)].contacts = v.contacts
        /\ [v EXCEPT !.chats = With(v.chats, c, Empty)].chats = With(v.chats, c, Empty)
    <3>1. v = [contacts |-> v.contacts, chats |-> v.chats]
      BY <2>1, TremolaFields
    <3> HIDE DEF v, c
    <3> QED
      BY <3>1
  <2> HIDE DEF u, v, c, t
  <2> QED
    BY <2>1, <2>2, <2>3, <2>4
<1>4. WithContact(p, who) = q
  BY <1>1 DEF WithContact, Page
<1>5. /\ ShownIn(u) \subseteq ShownIn(t) \union Empty.posts
      /\ (c \in DOMAIN t.chats => t.chats[c].posts \subseteq Empty.posts)
            => ShownIn(t) \subseteq ShownIn(u)
      /\ DOMAIN t.chats \subseteq DOMAIN u.chats
  <2> HIDE DEF u, c, t
  <2>1. /\ ShownIn(u) \subseteq ShownIn(t) \union Empty.posts
        /\ (c \in DOMAIN t.chats => t.chats[c].posts \subseteq Empty.posts)
              => ShownIn(t) \subseteq ShownIn(u)
    BY <1>1, <1>3, WithPosts
  <2>2. DOMAIN With(t.chats, c, Empty) = DOMAIN t.chats \union {c}
    BY <1>1, WithFields
  <2> QED
    BY <1>3, <2>1, <2>2
<1>6. Empty.posts = {}
  BY DEF Empty
<1> HIDE DEF u, c
<1>7. /\ q \in Page /\ q.tremola = u /\ q.boot = p.boot /\ q.subject = p.subject
      /\ q.overlay = p.overlay /\ q.cur = p.cur /\ q.target = p.target /\ (AboutChat(q) <=> AboutChat(p))
  BY <1>1, <1>3 DEF Page, AboutChat
<1>8. Proper(q)
  BY <1>5, <1>7 DEF Proper
<1> HIDE DEF q
<1> QED
  BY <1>3, <1>4, <1>5, <1>6, <1>7, <1>8 DEF c

\* What a handler of a page that is there leaves of the queue.
QueueKept ==
  /\ queue' \in Seq(Calls(Len(log)))
  /\ \A call \in Later(queue) : call.k \in {"post", "known"} => call \in Later(queue')
  /\ \A call \in ToSet(queue) : call.k = "post" => call \in ToSet(queue')
  /\ Inits(queue) = {} => Inits(queue') = {}
  /\ \A call \in ToSet(queue') : call.k = "added" => page'.subject # Nobody

\* A call is of its kind.
LEMMA CallKinds ==
  /\ \A i : PostCall(i).k = "post"
  /\ \A k, who : Call(k, who).k = k
BY DEF PostCall, Call

\* A handler that saves other conversations or contacts.
LEMMA ChangeKeeps ==
  ASSUME IInv, Ready, QueueKept, Proper(page'), page'.boot = "ready", stored' = {page'.tremola},
         log' = log, outside' = outside, complete' \in BOOLEAN,
         complete' => complete /\ ShownIn(page.tremola) \subseteq ShownIn(page'.tremola),
         ShownIn(page'.tremola) \subseteq ShownIn(page.tremola),
         page.tremola.contacts \subseteq page'.tremola.contacts
  PROVE  IInv'
<1>1. Ready' /\ page'.tremola \in Tremola
  BY DEF Ready, Proper, Page
<1>2. TypeInv'
  BY <1>1 DEF IInv, TypeInv, QueueKept
<1>3. ScreenInv'
  BY DEF ScreenInv, QueueKept
<1>4. StartInv'
  BY <1>1 DEF StartInv, Ready
<1>5. PostsShown'
  <2>1. PostsShown
    BY DEF IInv, DataInv
  <2> QED
    BY <2>1, CallKinds DEF PostsShown, QueueKept
<1>6. AuthorsShown'
  <2>1. AuthorsShown
    BY DEF IInv, DataInv
  <2> QED
    BY <2>1, CallKinds DEF AuthorsShown, QueueKept, Authored
<1> QED
  BY <1>1, <1>2, <1>3, <1>4, <1>5, <1>6, SavingKeeps DEF IInv, DataInv

\* A handler that changes only what the page displays, and perhaps saves it.
LEMMA ScreenKeeps ==
  ASSUME IInv, Ready, QueueKept, Redisplays(page', page),
         stored' = stored \/ stored' = {page'.tremola},
         log' = log, outside' = outside, complete' = complete
  PROVE  IInv'
<1>1. /\ Ready' /\ page'.tremola \in Tremola /\ page'.tremola = page.tremola
      /\ Proper(page') /\ page'.boot = "ready"
  BY DEF Ready, Redisplays, Proper, Page
<1>2. CASE stored' = {page'.tremola}
  BY <1>1, <1>2, ChangeKeeps DEF IInv, TypeInv
<1>3. CASE stored' = stored
  <2>1. TypeInv'
    BY <1>1, <1>3 DEF IInv, TypeInv, QueueKept
  <2>2. ScreenInv'
    BY <1>1 DEF ScreenInv, QueueKept
  <2>3. StartInv'
    BY <1>1, <1>3 DEF StartInv, Ready, IInv, DataInv
  <2>4. PostsShown'
    <3>1. PostsShown
      BY DEF IInv, DataInv
    <3> QED
      BY <1>1, <3>1, CallKinds DEF PostsShown, QueueKept
  <2>5. AuthorsShown'
    <3>1. AuthorsShown
      BY DEF IInv, DataInv
    <3> QED
      BY <1>1, <3>1, CallKinds DEF AuthorsShown, QueueKept, Authored
  <2>6. HiddenInv'
    <3>1. HiddenInv
      BY DEF IInv, DataInv
    <3> QED
      BY <1>1, <1>3, <3>1 DEF HiddenInv, Chats
  <2>7. PostsSaved'
    <3>1. PostsSaved /\ Saved' = Saved
      BY <1>3 DEF IInv, DataInv, Saved
    <3> QED
      BY <1>1, <1>3, <3>1, CallKinds DEF PostsSaved, QueueKept
  <2>8. AuthorsSaved'
    <3>1. AuthorsSaved
      BY DEF IInv, DataInv
    <3> QED
      BY <1>1, <1>3, <3>1, CallKinds DEF AuthorsSaved, QueueKept, Authored
  <2> QED
    BY <2>1, <2>2, <2>3, <2>4, <2>5, <2>6, <2>7, <2>8 DEF IInv, DataInv
<1> QED
  BY <1>2, <1>3

\* The queue after the first call has been handled and calls s were added.
LEMMA QueueMoves ==
  ASSUME IInv, queue # << >>, Head(queue).k # "init",
         NEW s \in Seq(Calls(Len(log))), Inits(s) = {}, queue' = Tail(queue) \o s
  PROVE  /\ queue' \in Seq(Calls(Len(log)))
         /\ Later(queue) \subseteq Later(queue') \union {Head(queue)}
         /\ Inits(queue) # {} => Later(queue) \subseteq Later(queue')
         /\ ToSet(queue) \subseteq ToSet(queue') \union {Head(queue)}
         /\ ToSet(queue') \subseteq ToSet(queue) \union ToSet(s)
         /\ ToSet(s) \subseteq Later(queue')
         /\ Inits(queue) = {} => Inits(queue') = {}
<1> DEFINE C == Calls(Len(log))
           r == Tail(queue)
<1>1. queue \in Seq(C)
  BY DEF IInv, TypeInv
<1>2. /\ r \in Seq(C)
      /\ ToSet(queue) = {Head(queue)} \union ToSet(r)
      /\ Inits(queue) = {} => Inits(r) = {}
      /\ Inits(queue) # {} => Later(r) = Later(queue)
  BY <1>1, Popped
<1>3. /\ queue' \in Seq(C) /\ ToSet(queue') = ToSet(r) \union ToSet(s)
      /\ Inits(queue') = Inits(r) /\ Later(queue') = Later(r) \union ToSet(s)
  <2>1. queue' = r \o s /\ s \in Seq(C) /\ r \in Seq(C)
    BY <1>2
  <2> HIDE DEF r, C
  <2>2. /\ r \o s \in Seq(C) /\ ToSet(r \o s) = ToSet(r) \union ToSet(s)
        /\ Inits(r \o s) = Inits(r) /\ Later(r \o s) = Later(r) \union ToSet(s)
    BY <2>1, Appended
  <2> QED
    BY <2>1, <2>2
<1>4. Inits(queue) = {} => Later(queue) = ToSet(queue) /\ Later(r) = ToSet(r)
  BY <1>2, NoInits
<1> HIDE DEF r, C
<1> QED
  BY <1>2, <1>3, <1>4 DEF C

\* Most calls are not waited for by anything else.
LEMMA MovesKept ==
  ASSUME IInv, queue # << >>, Head(queue).k \notin {"init", "post", "known"},
         NEW s \in Seq(Calls(Len(log))), Inits(s) = {}, \A call \in ToSet(s) : call.k # "added",
         queue' = Tail(queue) \o s,
         page'.subject = page.subject \/ page'.subject # Nobody
  PROVE  QueueKept
<1>1. \A call \in ToSet(queue) : call.k = "added" => page.subject # Nobody
  BY DEF IInv, ScreenInv
<1> QED
  BY <1>1, QueueMoves DEF QueueKept

\* The queue that nothing is in.
LEMMA NothingAdded ==
  << >> \in Seq(Calls(Len(log))) /\ Inits(<< >>) = {} /\ ToSet(<< >>) = {}
BY DEF Inits, ToSet

\* The event that add:contact causes.
LEMMA FollowAdded ==
  /\ Followed \in Seq(Calls(Len(log))) /\ Inits(Followed) = {}
  /\ ToSet(Followed) = {Call("public", Nobody)}
<1>1. Followed = <<Call("public", Nobody)>> /\ Call("public", Nobody) \in Calls(Len(log))
  BY DEF Followed, Call, Calls
<1> DEFINE f == Call("public", Nobody)
<1>2. f.k = "public"
  BY CallKinds
<1> HIDE DEF f
<1>3. <<f>> \in Seq(Calls(Len(log))) /\ Inits(<<f>>) = {} /\ ToSet(<<f>>) = {f}
  BY <1>1, <1>2 DEF Inits, ToSet, f
<1> QED
  BY <1>1, <1>3 DEF f

-----------------------------------------------------------------------------
(* The page runs a call *)

\* The first call of the queue, and what it is about.
LEMMA FirstCall ==
  ASSUME IInv, queue # << >>
  PROVE  /\ Head(queue) \in Calls(Len(log)) /\ Head(queue) \in ToSet(queue)
         /\ Head(queue).k \in {"known", "added", "found", "details"} => Head(queue).who \in Person
         /\ Head(queue).k = "post" =>
              /\ Head(queue).post \in DOMAIN log
              /\ Head(queue) = PostCall(Head(queue).post)
         /\ Head(queue).k \in {"known", "added", "found", "details", "public", "aliased", "secret",
                               "init", "scanned"} =>
              /\ Head(queue).who \in Person \union {Nobody}
              /\ Head(queue) = Call(Head(queue).k, Head(queue).who)
<1> DEFINE call == Head(queue)
<1>1. queue \in Seq(Calls(Len(log))) /\ log \in Seq(Entry)
  BY DEF IInv, TypeInv
<1>2. call \in Calls(Len(log)) /\ call \in ToSet(queue) /\ DOMAIN log = 1 .. Len(log)
  BY <1>1, Popped
<1> HIDE DEF call
<1> QED
  BY <1>2 DEF Calls, Call, PostCall, call

\* A call that changes only what the page displays.
LEMMA QuietCall ==
  ASSUME IInv, Ready, queue # << >>, Head(queue).k \notin {"init", "post", "known"},
         queue' = Tail(queue), Redisplays(page', page),
         stored' = stored \/ stored' = {page'.tremola},
         log' = log, outside' = outside, complete' = complete
  PROVE  IInv'
<1>1. queue' = Tail(queue) \o << >>
  BY DEF IInv, TypeInv
<1>2. page'.subject = page.subject \/ page'.subject # Nobody
  BY DEF Redisplays
<1>3. QueueKept
  BY <1>1, <1>2, NothingAdded, MovesKept
<1> QED
  BY <1>3, ScreenKeeps

\* What the invariant says of the page.
LEMMA ProperPage ==
  ASSUME IInv
  PROVE  Proper(page) /\ Redisplays(page, page) /\ page \in Page /\ page.tremola \in Tremola
<1>1. Proper(page)
  BY DEF IInv, ScreenInv
<1> QED
  BY <1>1 DEF Redisplays, Proper, Page

\* Calls that change only what the page displays.
LEMMA QuietCalls ==
  ASSUME IInv, Ready, queue # << >>, UNCHANGED <<log, outside>>,
         \/ Head(queue).k = "public" /\ PublicEvent(Tail(queue))
         \/ Head(queue).k = "details" /\ Details(Head(queue).who, Tail(queue))
         \/ Head(queue).k = "aliased" /\ Aliased(Tail(queue))
         \/ Head(queue).k = "scanned" /\ ScanResult(Head(queue).who, Tail(queue))
         \/ Head(queue).k = "secret" /\ ShowSecret(Tail(queue))
  PROVE  IInv'
<1> DEFINE who == Head(queue).who
<1>1. Proper(page) /\ Redisplays(page, page) /\ page \in Page
  BY ProperPage
<1>2. Redisplays(Closed(page), page)
  BY <1>1, ClosedPage
<1>3. CASE Head(queue).k = "public" /\ PublicEvent(Tail(queue))
  BY <1>1, <1>3, QuietCall DEF PublicEvent, Saves
<1>4. CASE Head(queue).k = "details" /\ Details(Head(queue).who, Tail(queue))
  <2>1. who \in Person
    BY <1>4, FirstCall
  <2> DEFINE a == [Over(page, "details") EXCEPT !.subject = who, !.asked = who]
             b == [page EXCEPT !.subject = who]
  <2>2. page' \in {a, b} /\ queue' = Tail(queue) /\ UNCHANGED <<stored, complete>>
    BY <1>4 DEF Details, Becomes
  <2> HIDE DEF who
  <2>3. Redisplays(a, page)
    BY <1>1, <2>1, PeopleAssumption DEF Over, Proper, Redisplays, Page, Overlay, AboutChat
  <2>4. Redisplays(b, page)
    BY <1>1, <2>1, PeopleAssumption DEF Proper, Redisplays, Page, AboutChat
  <2> HIDE DEF a, b
  <2>5. Redisplays(page', page)
    BY <2>2, <2>3, <2>4
  <2> QED
    BY <1>4, <2>2, <2>5, QuietCall
<1>5. CASE Head(queue).k = "aliased" /\ Aliased(Tail(queue))
  BY <1>2, <1>5, QuietCall DEF Aliased, Saves
<1>6. CASE Head(queue).k = "scanned" /\ ScanResult(Head(queue).who, Tail(queue))
  <2>1. who \in Person \union {Nobody}
    BY <1>6, FirstCall
  <2>2. /\ page' = (IF who = Nobody THEN page ELSE Scanned(page, who))
        /\ queue' = Tail(queue) /\ UNCHANGED <<stored, complete>>
    BY <1>6 DEF ScanResult, Becomes
  <2>3. who # Nobody => Redisplays(Scanned(page, who), page)
    BY <1>1, <2>1, EditedPage
  <2>4. Redisplays(page', page)
    BY <1>1, <2>2, <2>3
  <2> QED
    BY <1>6, <2>2, <2>4, QuietCall
<1>7. CASE Head(queue).k = "secret" /\ ShowSecret(Tail(queue))
  <2>1. page.prev \in Scenario /\ page.prev # "posts" /\ "qr" \in Overlay /\ "qr" # "edit"
    BY <1>1 DEF Page, Main, Scenario, Overlay
  <2>2. Redisplays(Show(page, page.prev), page)
    BY <1>1, <2>1, ShownPage
  <2>3. Redisplays(Over(Show(page, page.prev), "qr"), Show(page, page.prev))
    BY <2>1, <2>2, CoveredPage DEF Redisplays
  <2>4. Redisplays(Over(Show(page, page.prev), "qr"), page)
    BY <2>2, <2>3, RedisplaysAgain
  <2> QED
    BY <1>7, <2>4, QuietCall DEF ShowSecret, Becomes
<1> QED
  BY <1>3, <1>4, <1>5, <1>6, <1>7

\* A contact is added with a new conversation: edit_confirmed_back,
\* b2f_new_contact_lookup, and edit_confirmed, which runs at once.
LEMMA ContactKeeps ==
  ASSUME IInv, Ready, NEW who \in Person, QueueKept,
         page' = Closed(WithContact(page, who)), stored' = {page'.tremola},
         log' = log, outside' = outside, complete' = (complete /\ NothingThere(who))
  PROVE  IInv'
<1> DEFINE p == WithContact(page, who)
<1>1. /\ Proper(p) /\ p.boot = page.boot
      /\ p.tremola.contacts = page.tremola.contacts \union {who}
      /\ ShownIn(p.tremola) \subseteq ShownIn(page.tremola)
      /\ ({Me, who} \in DOMAIN page.tremola.chats => page.tremola.chats[{Me, who}].posts = {})
            => ShownIn(page.tremola) \subseteq ShownIn(p.tremola)
  BY ProperPage, ContactPage
<1> HIDE DEF p
<1>2. Redisplays(Closed(p), p)
  BY <1>1, ClosedPage
<1>3. page' = Closed(p)
  BY DEF p
<1>4. Proper(page') /\ page'.boot = "ready" /\ page'.tremola = p.tremola
  BY <1>1, <1>2, <1>3 DEF Redisplays, Ready
<1>5. complete' \in BOOLEAN
      /\ (complete' => complete /\ ShownIn(page.tremola) \subseteq ShownIn(page'.tremola))
  BY <1>1, <1>4 DEF NothingThere, Chats
<1> QED
  BY <1>1, <1>4, <1>5, ChangeKeeps

\* edit_confirmed_back and b2f_new_contact_lookup
LEMMA ContactCalls ==
  ASSUME IInv, Ready, queue # << >>, UNCHANGED <<log, outside>>,
         \/ Head(queue).k = "added" /\ Added(Head(queue).who, Tail(queue))
         \/ Head(queue).k = "found" /\ Found(Head(queue).who, Tail(queue))
  PROVE  IInv'
<1> DEFINE who == IF Head(queue).k = "added" THEN page.subject ELSE Head(queue).who
<1>1. page.subject \in Person \union {Nobody} /\ Proper(page)
  BY ProperPage DEF Page
<1>2. who \in Person
  <2>1. Head(queue).k = "added" => page.subject # Nobody
    BY FirstCall DEF IInv, ScreenInv
  <2>2. Head(queue).k # "added" => Head(queue).who \in Person
    BY FirstCall
  <2> QED
    BY <1>1, <2>1, <2>2
<1>3. /\ (queue' = Tail(queue) \o Followed \/ queue' = Tail(queue))
      /\ page' = Closed(WithContact(page, who))
      /\ stored' = {page'.tremola} /\ complete' = (complete /\ NothingThere(who))
  BY DEF Added, Found, Saves
<1> HIDE DEF who
<1>4. page'.subject = page.subject
  <2>1. Proper(WithContact(page, who)) /\ WithContact(page, who).subject = page.subject
    BY <1>1, <1>2, ContactPage
  <2>2. Closed(WithContact(page, who)).subject = WithContact(page, who).subject
    BY <2>1 DEF Closed, Proper, Page
  <2> QED
    BY <1>3, <2>1, <2>2
<1>5. QueueKept
  <2>1. CASE queue' = Tail(queue) \o Followed
    BY <1>4, <2>1, FollowAdded, CallKinds, MovesKept
  <2>2. CASE queue' = Tail(queue)
    <3>1. queue' = Tail(queue) \o << >>
      BY <2>2 DEF IInv, TypeInv
    <3> QED
      BY <1>4, <3>1, NothingAdded, MovesKept
  <2> QED
    BY <1>3, <2>1, <2>2
<1> QED
  BY <1>2, <1>3, <1>5, ContactKeeps

\* b2f_new_event_back: the contact is not saved.
LEMMA KnownKeeps ==
  ASSUME IInv, Ready, queue # << >>, UNCHANGED <<log, outside>>,
         Head(queue).k = "known", Known(Head(queue).who, Tail(queue))
  PROVE  IInv'
<1> DEFINE who == Head(queue).who
           t == page.tremola
           u == [t EXCEPT !.contacts = @ \union {who}]
<1>1. /\ Proper(page) /\ page \in Page /\ t \in Tremola /\ who \in Person
      /\ Head(queue) = Call("known", who) /\ page.boot = "ready"
  BY ProperPage, FirstCall DEF Ready
<1>2. u \in Tremola /\ u.contacts = t.contacts \union {who} /\ u.chats = t.chats
  <2>1. t \in [contacts : SUBSET Person, chats : UNION {[D -> Chat] : D \in SUBSET Conversation}]
    BY <1>1 DEF Tremola
  <2> HIDE DEF t, who
  <2> QED
    BY <1>1, <2>1 DEF Tremola
<1>3. page' = [page EXCEPT !.tremola = u] /\ queue' = Tail(queue) /\ UNCHANGED <<stored, complete>>
  BY <1>1 DEF Known, Becomes, Page
<1> HIDE DEF t, u, who
<1>4. /\ page' \in Page /\ page'.tremola = u /\ page'.boot = "ready" /\ page'.cur = page.cur
      /\ page'.target = page.target /\ page'.overlay = page.overlay /\ page'.subject = page.subject
      /\ (AboutChat(page') <=> AboutChat(page))
  BY <1>1, <1>2, <1>3 DEF Page, AboutChat
<1>5. Proper(page') /\ Ready'
  BY <1>1, <1>2, <1>4 DEF Proper, Ready, t
<1>6. ShownIn(u) = ShownIn(t)
  BY <1>2 DEF ShownIn
<1>7. /\ queue' \in Seq(Calls(Len(log)))
      /\ Later(queue) \subseteq Later(queue') \union {Head(queue)}
      /\ Inits(queue) # {} => Later(queue) \subseteq Later(queue')
      /\ ToSet(queue) \subseteq ToSet(queue') \union {Head(queue)}
      /\ ToSet(queue') \subseteq ToSet(queue)
      /\ Inits(queue) = {} => Inits(queue') = {}
  <2>1. queue' = Tail(queue) \o << >>
    BY <1>3 DEF IInv, TypeInv
  <2> QED
    BY <2>1, NothingAdded, QueueMoves
<1>8. TypeInv'
  BY <1>3, <1>7 DEF IInv, TypeInv
<1>9. ScreenInv'
  BY <1>4, <1>5, <1>7 DEF IInv, ScreenInv
<1>10. StartInv'
  BY <1>3, <1>4, <1>5 DEF StartInv, Ready, IInv, DataInv
<1>11. PostsShown'
  <2>1. PostsShown
    BY DEF IInv, DataInv
  <2> QED
    BY <1>1, <1>3, <1>4, <1>6, <1>7, <2>1, CallKinds DEF PostsShown, t
<1>12. AuthorsShown'
  <2>1. AuthorsShown
    BY DEF IInv, DataInv
  <2> SUFFICES ASSUME outside.ends = 0, NEW i \in ShownIn(u)
               PROVE  i \in DOMAIN log
                      /\ (log[i].from \in u.contacts \/ Call("known", log[i].from) \in Later(queue'))
    BY <1>4 DEF AuthorsShown, Authored
  <2>2. /\ i \in DOMAIN log
        /\ log[i].from \in t.contacts \/ Call("known", log[i].from) \in Later(queue)
    BY <1>6, <2>1 DEF AuthorsShown, Authored, t
  <2>3. Call("known", log[i].from) = Head(queue) => log[i].from = who
    BY <1>1 DEF Call
  <2> QED
    BY <1>2, <1>7, <2>2, <2>3
<1>13. HiddenInv'
  <2>1. HiddenInv
    BY DEF IInv, DataInv
  <2>2. \A c : Listed(u, c) <=> Listed(t, c)
    BY <1>2 DEF Listed
  <2> QED
    BY <1>2, <1>3, <1>4, <2>1, <2>2 DEF HiddenInv, Chats, t
<1>14. PostsSaved'
  <2>1. PostsSaved /\ Saved' = Saved
    BY <1>3 DEF IInv, DataInv, Saved
  <2> QED
    BY <1>1, <1>3, <1>5, <1>7, <2>1, CallKinds DEF PostsSaved
<1>15. AuthorsSaved'
  <2>1. AuthorsSaved
    BY DEF IInv, DataInv
  <2> QED
    BY <1>3, <1>5, <1>7, <2>1 DEF AuthorsSaved, Authored
<1> QED
  BY <1>8, <1>9, <1>10, <1>11, <1>12, <1>13, <1>14, <1>15 DEF IInv, DataInv

\* A post in its conversation, which may be a new one.
LEMMA PostPage ==
  ASSUME IInv, NEW i \in DOMAIN log
  PROVE  LET q == WithPost(page, i)
             c == log[i].to
         IN /\ Proper(q) /\ q.boot = page.boot /\ q.subject = page.subject
            /\ q.tremola.contacts = page.tremola.contacts
            /\ ShownIn(q.tremola) = ShownIn(page.tremola) \union {i}
            /\ c \in DOMAIN q.tremola.chats
            /\ \A x \in DOMAIN q.tremola.chats :
                 ~ Listed(q.tremola, x) => x \in DOMAIN Chats /\ ~ Listed(page.tremola, x)
<1> DEFINE t == page.tremola
           c == log[i].to
           old == IF c \in DOMAIN t.chats THEN t.chats[c] ELSE Empty
           chat == [old EXCEPT !.posts = @ \union {i}]
           u == [t EXCEPT !.chats = With(t.chats, c, chat)]
           q == [page EXCEPT !.tremola = u]
<1>1. /\ Proper(page) /\ page \in Page /\ t \in Tremola /\ c \in Conversation /\ i \in Nat
      /\ c \in SUBSET Person
  <2>1. log \in Seq(Entry)
    BY DEF IInv, TypeInv
  <2>2. log[i] \in Entry /\ i \in Nat
    BY <2>1
  <2> QED
    BY <2>2, ProperPage DEF Entry, Conversation
<1>2. WithPost(page, i) = q
  BY <1>1 DEF WithPost, Page
<1>3. old \in Chat
  <2>1. Empty \in Chat
    BY DEF Empty, Chat
  <2> HIDE DEF t, c
  <2> QED
    BY <1>1, <2>1, TremolaFields
<1> HIDE DEF old
<1>4. chat \in Chat /\ chat.posts = old.posts \union {i} /\ chat.forgotten = old.forgotten
  BY <1>1, <1>3 DEF Chat
<1> HIDE DEF chat, t, c
<1>5. u \in Tremola /\ u.contacts = t.contacts /\ u.chats = With(t.chats, c, chat)
  <2>1. u \in Tremola
    BY <1>1, <1>4, WithFields
  <2>2. t = [contacts |-> t.contacts, chats |-> t.chats]
    BY <1>1, TremolaFields
  <2> QED
    BY <2>1, <2>2
<1>6. /\ DOMAIN u.chats = DOMAIN t.chats \union {c} /\ u.chats[c] = chat
      /\ \A x \in DOMAIN t.chats : x # c => u.chats[x] = t.chats[x]
  <2> DEFINE w == With(t.chats, c, chat)
  <2> HIDE DEF u, q
  <2>0. t \in Tremola /\ c \in Conversation /\ chat \in Chat
    BY <1>1, <1>4
  <2>1. /\ DOMAIN w = DOMAIN t.chats \union {c} /\ w[c] = chat
        /\ \A x \in DOMAIN t.chats : x # c => w[x] = t.chats[x]
    BY <2>0, WithFields
  <2> HIDE DEF w
  <2>2. u.chats = w
    BY <1>5 DEF w
  <2> QED
    BY <2>1, <2>2
<1> HIDE DEF u
<1>7. ShownIn(u) = ShownIn(t) \union {i}
  <2>1. ShownIn(u) \subseteq ShownIn(t) \union chat.posts /\ chat.posts \subseteq ShownIn(u)
        /\ ((c \in DOMAIN t.chats => t.chats[c].posts \subseteq chat.posts)
               => ShownIn(t) \subseteq ShownIn(u))
    BY <1>1, <1>4, <1>5, WithPosts
  <2>2. CASE c \in DOMAIN t.chats
    <3>1. old = t.chats[c]
      BY <2>2 DEF old
    <3>2. old.posts \subseteq ShownIn(t)
      BY <2>2, <3>1 DEF ShownIn
    <3> QED
      BY <1>4, <2>1, <3>1, <3>2
  <2>3. CASE c \notin DOMAIN t.chats
    <3>1. old.posts = {}
      BY <2>3 DEF old, Empty
    <3> QED
      BY <1>4, <2>1, <2>3, <3>1
  <2> QED
    BY <2>2, <2>3
<1>8. ASSUME NEW x \in DOMAIN u.chats, ~ Listed(u, x)
      PROVE  x \in DOMAIN t.chats /\ ~ Listed(t, x)
  <2>1. CASE x # c
    BY <1>6, <1>8, <2>1 DEF Listed
  <2>2. CASE x = c
    <3>1. Hide /\ chat.forgotten /\ x # {Me}
      BY <1>6, <1>8, <2>2 DEF Listed
    <3>2. c \in DOMAIN t.chats /\ old = t.chats[c]
      BY <1>4, <3>1 DEF old, Empty
    <3> QED
      BY <1>4, <2>2, <3>1, <3>2 DEF Listed
  <2> QED
    BY <2>1, <2>2
<1>9. /\ q \in Page /\ q.tremola = u /\ q.boot = page.boot /\ q.subject = page.subject
      /\ q.overlay = page.overlay /\ q.cur = page.cur /\ q.target = page.target
      /\ (AboutChat(q) <=> AboutChat(page))
  BY <1>1, <1>5 DEF Page, AboutChat
<1> HIDE DEF q
<1>10. Proper(q)
  BY <1>1, <1>6, <1>9 DEF Proper, t
<1>11. \A x \in DOMAIN u.chats : ~ Listed(u, x) => x \in DOMAIN Chats /\ ~ Listed(t, x)
  BY <1>8 DEF Chats, t
<1> QED
  BY <1>2, <1>5, <1>6, <1>7, <1>9, <1>10, <1>11 DEF c, t

\* b2f_new_event of a private post
LEMMA PostKeeps ==
  ASSUME IInv, Ready, queue # << >>, UNCHANGED <<log, outside>>,
         Head(queue).k = "post", NewEvent(Head(queue).post, Tail(queue))
  PROVE  IInv'
<1> DEFINE i == Head(queue).post
           c == log[i].to
           w == WithPost(page, i)
           u == w.tremola
           s == Answers("known", Strangers(page, c))
<1>1. /\ i \in DOMAIN log /\ Head(queue) = PostCall(i) /\ page.boot = "ready"
      /\ page.tremola \in Tremola
  BY FirstCall, ProperPage DEF Ready
<1>2. log[i] \in Entry /\ c \in SUBSET Person /\ log[i].from \in c
  <2>1. log \in Seq(Entry)
    BY DEF IInv, TypeInv
  <2>2. log[i] \in Entry
    BY <1>1, <2>1
  <2> QED
    BY <2>2 DEF Entry, Conversation
<1>3. /\ Proper(w) /\ w.boot = "ready" /\ w.subject = page.subject
      /\ u.contacts = page.tremola.contacts /\ ShownIn(u) = ShownIn(page.tremola) \union {i}
      /\ c \in DOMAIN u.chats
      /\ \A x \in DOMAIN u.chats : ~ Listed(u, x) => x \in DOMAIN Chats /\ ~ Listed(page.tremola, x)
  BY <1>1, PostPage
<1>4. /\ s \in Seq(Calls(Len(log))) /\ Inits(s) = {} /\ \A call \in ToSet(s) : call.k = "known"
      /\ ToSet(s) = {Call("known", x) : x \in c \ page.tremola.contacts}
  <2> DEFINE people == Strangers(page, c)
  <2>1. people \in SUBSET Person /\ people = c \ page.tremola.contacts
    BY <1>2 DEF Strangers
  <2> HIDE DEF people
  <2>2. s \in Seq([k : {"known"}, who : people]) /\ ToSet(s) = {Call("known", x) : x \in people}
    BY <2>1, AnswersQueued DEF people
  <2>3. [k : {"known"}, who : people] \subseteq Calls(Len(log))
    BY <2>1 DEF Calls
  <2> HIDE DEF s
  <2>4. s \in Seq(Calls(Len(log)))
    BY <2>2, <2>3, WiderSeq
  <2>5. \A call \in ToSet(s) : call.k = "known"
    BY <2>2, CallKinds
  <2>6. Inits(s) = {}
    BY <2>5 DEF Inits, ToSet
  <2> QED
    BY <2>1, <2>2, <2>4, <2>5, <2>6
<1>5. /\ queue' = Tail(queue) \o s /\ SavesPost(w, i)
      /\ complete' = (complete /\ (IsOpen(c) => Readable(u, c)))
  BY DEF NewEvent
<1> HIDE DEF s
<1>6. /\ queue' \in Seq(Calls(Len(log)))
      /\ Later(queue) \subseteq Later(queue') \union {Head(queue)}
      /\ Inits(queue) # {} => Later(queue) \subseteq Later(queue')
      /\ ToSet(queue) \subseteq ToSet(queue') \union {Head(queue)}
      /\ ToSet(queue') \subseteq ToSet(queue) \union ToSet(s)
      /\ ToSet(s) \subseteq Later(queue')
      /\ Inits(queue) = {} => Inits(queue') = {}
  <2>1. Head(queue).k # "init"
    OBVIOUS
  <2> QED
    BY <1>4, <1>5, <2>1, QueueMoves
<1>7. complete \in BOOLEAN /\ complete' \in BOOLEAN
  BY <1>5 DEF IInv, TypeInv
<1> DEFINE seen == c \in DOMAIN Chats /\ i \in Chats[c].posts
<1>8. /\ page' \in {w, LoadChat(w, c)}
      /\ \/ stored' = {page'.tremola}
         \/ stored' = stored /\ page' = w /\ (complete' => ~ Listed(u, c))
  <2>1. CASE seen
    BY <1>5, <2>1 DEF SavesPost, Saves
  <2>2. CASE ~ seen /\ IsOpen(c) /\ Readable(u, c)
    BY <1>5, <2>2 DEF SavesPost, Saves
  <2>3. CASE ~ seen /\ ~ IsOpen(c) /\ Listed(u, c)
    BY <1>5, <2>3 DEF SavesPost, Saves
  <2>4. CASE ~ seen /\ (IsOpen(c) => ~ Readable(u, c)) /\ (~ IsOpen(c) => ~ Listed(u, c))
    <3>1. page' = w /\ UNCHANGED stored
      BY <1>5, <2>4 DEF SavesPost
    <3>2. complete' => ~ Listed(u, c)
      BY <1>5, <2>4
    <3> QED
      BY <3>1, <3>2
  <2> QED
    BY <2>1, <2>2, <2>3, <2>4
<1>9. Redisplays(page', w)
  <2>1. Redisplays(LoadChat(w, c), w)
    BY <1>3, ChatPage
  <2>2. Redisplays(w, w)
    BY <1>3 DEF Redisplays
  <2> QED
    BY <1>8, <2>1, <2>2
<1>10. /\ Proper(page') /\ page'.boot = "ready" /\ page'.tremola = u /\ Ready'
       /\ (page'.subject = page.subject \/ page'.subject # Nobody) /\ u \in Tremola
  BY <1>3, <1>9 DEF Redisplays, Ready, Proper, Page
<1> HIDE DEF w, u, c, i, seen
<1>11. TypeInv'
  <2>1. stored' \in {{}} \union {{t} : t \in Tremola}
    BY <1>8, <1>10 DEF IInv, TypeInv
  <2> QED
    BY <1>6, <1>7, <2>1 DEF IInv, TypeInv
<1>12. ScreenInv'
  BY <1>4, <1>6, <1>10 DEF IInv, ScreenInv
<1>13. StartInv'
  <2>1. stored' # {}
    BY <1>8 DEF StartInv, IInv, DataInv
  <2> QED
    BY <1>10, <2>1 DEF StartInv, Ready
<1>14. PostsShown'
  <2>1. PostsShown /\ (complete' => complete)
    BY <1>5, <1>7 DEF IInv, DataInv
  <2> SUFFICES ASSUME complete', NEW j \in DOMAIN log
               PROVE  PostCall(j) \in Later(queue') \/ (Inits(queue') = {} /\ j \in ShownIn(u))
    BY <1>10 DEF PostsShown
  <2>2. PostCall(j) \in Later(queue) \/ (Inits(queue) = {} /\ j \in ShownIn(page.tremola))
    BY <2>1 DEF PostsShown
  <2>3. PostCall(j) = PostCall(i) => j = i
    BY DEF PostCall
  <2> QED
    BY <1>1, <1>3, <1>6, <2>2, <2>3
<1>15. AuthorsShown'
  <2>1. AuthorsShown
    BY DEF IInv, DataInv
  <2> SUFFICES ASSUME outside.ends = 0, NEW j \in ShownIn(u)
               PROVE  j \in DOMAIN log
                      /\ (log[j].from \in u.contacts \/ Call("known", log[j].from) \in Later(queue'))
    BY <1>10 DEF AuthorsShown, Authored
  <2>2. CASE j = i
    BY <1>1, <1>2, <1>3, <1>4, <1>6, <2>2 DEF c
  <2>3. CASE j \in ShownIn(page.tremola)
    <3>1. /\ j \in DOMAIN log
          /\ log[j].from \in page.tremola.contacts \/ Call("known", log[j].from) \in Later(queue)
      BY <2>1, <2>3 DEF AuthorsShown, Authored
    <3>2. Call("known", log[j].from) # Head(queue)
      BY <1>1, CallKinds
    <3> QED
      BY <1>3, <1>6, <3>1, <3>2
  <2> QED
    BY <1>3, <2>2, <2>3
<1>16. CASE stored' = {page'.tremola}
  BY <1>10, <1>11, <1>12, <1>13, <1>14, <1>15, <1>16, SavingKeeps DEF IInv, DataInv
<1>17. CASE stored' = stored /\ (complete' => ~ Listed(u, c))
  <2>1. HiddenInv /\ PostsSaved /\ AuthorsSaved
    BY DEF IInv, DataInv
  <2>2. HiddenInv'
    BY <1>3, <1>10, <1>17, <2>1 DEF HiddenInv, Chats
  <2>3. PostsSaved'
    <3>1. Saved' = Saved /\ stored # {}
      BY <1>17 DEF Saved, IInv, DataInv, StartInv
    <3>2. complete' => complete
      BY <1>5, <1>7
    <3> SUFFICES ASSUME complete', NEW j \in DOMAIN log
                 PROVE  \/ PostCall(j) \in ToSet(queue')
                        \/ j \in Saved
                        \/ \E t \in stored : log[j].to \in DOMAIN t.chats /\ ~ Listed(t, log[j].to)
      BY <1>10, <1>17, <3>1 DEF PostsSaved
    <3>3. CASE j = i
      <4>1. c \in DOMAIN Chats /\ ~ Listed(page.tremola, c)
        BY <1>3, <1>17
      <4>2. \A t \in stored : c \in DOMAIN t.chats /\ ~ Listed(t, c)
        BY <2>1, <4>1 DEF HiddenInv
      <4> QED
        BY <3>1, <3>3, <4>2 DEF c
    <3>4. CASE j # i
      <4>1. PostCall(j) # Head(queue)
        BY <1>1, <3>4 DEF PostCall
      <4>2. \/ PostCall(j) \in ToSet(queue)
            \/ j \in Saved
            \/ \E t \in stored : log[j].to \in DOMAIN t.chats /\ ~ Listed(t, log[j].to)
        BY <2>1, <3>2 DEF PostsSaved
      <4> QED
        BY <1>6, <4>1, <4>2
    <3> QED
      BY <3>3, <3>4
  <2>4. AuthorsSaved'
    BY <1>6, <1>10, <1>17, <2>1 DEF AuthorsSaved, Authored
  <2> QED
    BY <1>11, <1>12, <1>13, <1>14, <1>15, <2>2, <2>3, <2>4 DEF IInv, DataInv
<1> QED
  BY <1>8, <1>16, <1>17

\* b2f_initialize, at the start and after a reset
LEMMA InitializeKeeps ==
  ASSUME IInv, queue # << >>, UNCHANGED <<log, outside>>,
         Head(queue).k = "init", Initialize(Tail(queue))
  PROVE  IInv'
<1> DEFINE q == Show(Closed(page), "chats")
<1>1. PICK t \in IF stored = {} THEN {Fresh} ELSE stored :
         page' = [q EXCEPT !.tremola = t, !.boot = "ready"] /\ stored' = {page'.tremola}
  BY DEF Initialize, Saves
<1>2. t \in Tremola /\ stored \in {{}} \union {{x} : x \in Tremola}
  BY FreshThere DEF IInv, TypeInv
<1>3. /\ q \in Page /\ q.scenario = "chats" /\ q.menu = "none" /\ q.overlay = "none"
      /\ q.target = "" /\ q.subject = page.subject
  <2>1. Proper(page) /\ page \in Page /\ "chats" \in Scenario
    BY ProperPage DEF Scenario, Main
  <2>2. /\ Closed(page) \in Page /\ Closed(page).overlay = "none" /\ Closed(page).menu = "none"
        /\ Closed(page).target = "" /\ Closed(page).subject = page.subject
    BY <2>1 DEF Closed, Page, Overlay
  <2> QED
    BY <2>1, <2>2, ShowFields
<1> HIDE DEF q
<1>4. /\ page' \in Page /\ page'.tremola = t /\ page'.boot = "ready" /\ page'.subject = page.subject
      /\ page'.scenario = "chats" /\ page'.menu = "none" /\ page'.overlay = "none"
      /\ page'.target = ""
  BY <1>1, <1>2, <1>3 DEF Page
<1>5. Proper(page') /\ Ready'
  BY <1>4 DEF Proper, AboutChat, Ready
<1>6. /\ queue' \in Seq(Calls(Len(log)))
      /\ ToSet(queue) = {Head(queue)} \union ToSet(queue')
      /\ Inits(queue) # {} /\ Later(queue') = Later(queue)
      /\ (\A i, j \in Inits(queue) : i = j) => Inits(queue') = {}
  <2>1. queue \in Seq(Calls(Len(log))) /\ queue' = Tail(queue)
    BY DEF IInv, TypeInv, Initialize
  <2> QED
    BY <2>1, Popped
<1>7. complete' = complete
  BY DEF Initialize
<1>8. TypeInv'
  BY <1>1, <1>2, <1>4, <1>6, <1>7 DEF IInv, TypeInv
<1>9. ScreenInv'
  BY <1>4, <1>5, <1>6 DEF IInv, ScreenInv
<1>10. StartInv'
  BY <1>1, <1>4, <1>5 DEF StartInv
<1>11. Saved \subseteq ShownIn(t)
  BY <1>1, <1>2 DEF Saved
<1>12. PostsShown'
  <2> SUFFICES ASSUME complete, NEW i \in DOMAIN log
               PROVE  PostCall(i) \in Later(queue') \/ (Inits(queue') = {} /\ i \in ShownIn(t))
    BY <1>4, <1>7 DEF PostsShown
  <2>1. CASE Ready
    <3>1. PostsShown
      BY DEF IInv, DataInv
    <3> QED
      BY <1>6, <2>1, <3>1 DEF PostsShown
  <2>2. CASE ~ Ready
    <3>1. Inits(queue') = {}
      BY <1>6, <2>2 DEF IInv, DataInv, StartInv
    <3>2. PostCall(i) \in ToSet(queue) \/ i \in Saved
      BY <2>2 DEF IInv, DataInv, PostsSaved
    <3>3. PostCall(i) # Head(queue)
      BY CallKinds
    <3>4. Later(queue') = ToSet(queue')
      BY <3>1, NoInits
    <3> QED
      BY <1>6, <1>11, <3>1, <3>2, <3>3, <3>4
  <2> QED
    BY <2>1, <2>2
<1>13. AuthorsShown'
  <2> SUFFICES ASSUME outside.ends = 0, NEW i \in ShownIn(t)
               PROVE  i \in DOMAIN log
                      /\ (log[i].from \in t.contacts \/ Call("known", log[i].from) \in Later(queue'))
    BY <1>4 DEF AuthorsShown, Authored
  <2>1. CASE Ready
    <3>1. stored # {} /\ AuthorsSaved
      BY <2>1 DEF IInv, DataInv, StartInv
    <3>2. Authored(t)
      BY <1>1, <1>6, <2>1, <3>1 DEF AuthorsSaved
    <3> QED
      BY <1>6, <3>2 DEF Authored
  <2>2. CASE ~ Ready
    <3>1. stored = {}
      BY <2>2 DEF IInv, DataInv, StartInv
    <3>2. t = Fresh
      BY <1>1, <3>1
    <3> QED
      BY <3>2, FreshThere
  <2> QED
    BY <2>1, <2>2
<1> QED
  BY <1>1, <1>5, <1>8, <1>9, <1>10, <1>12, <1>13, SavingKeeps DEF IInv, DataInv

\* A call before the page is initialized fails.
LEMMA FailureKeeps ==
  ASSUME IInv, ~ Ready, queue # << >>, UNCHANGED <<log, outside, page, stored>>,
         Head(queue).k # "init", queue' = Tail(queue),
         complete' = (complete /\ Head(queue).k # "post")
  PROVE  IInv'
<1>1. /\ queue' \in Seq(Calls(Len(log)))
      /\ ToSet(queue) = {Head(queue)} \union ToSet(queue')
      /\ Inits(queue) = {} => Inits(queue') = {}
      /\ (\A i, j \in Inits(queue) : i = j) => \A i, j \in Inits(queue') : i = j
  <2>1. queue \in Seq(Calls(Len(log)))
    BY DEF IInv, TypeInv
  <2> QED
    BY <2>1, Popped
<1>2. ~ Ready'
  BY DEF Ready
<1>3. complete' \in BOOLEAN
  OBVIOUS
<1>4. TypeInv'
  BY <1>1, <1>3 DEF IInv, TypeInv
<1>5. ScreenInv'
  BY <1>1 DEF IInv, ScreenInv
<1>6. StartInv'
  <2>1. StartInv
    BY DEF IInv, DataInv
  <2> QED
    BY <1>1, <2>1 DEF StartInv, Ready
<1>7. PostsSaved'
  <2>1. PostsSaved /\ Saved' = Saved
    BY DEF IInv, DataInv, Saved
  <2> QED
    BY <1>1, <1>2, <2>1, CallKinds DEF PostsSaved
<1> QED
  BY <1>2, <1>4, <1>5, <1>6, <1>7
  DEF IInv, DataInv, HiddenInv, PostsShown, AuthorsShown, AuthorsSaved

\* Whichever call comes first.
LEMMA RunKeeps == ASSUME IInv, Run PROVE IInv'
<1> DEFINE call == Head(queue)
           rest == Tail(queue)
<1>1. Alive /\ queue # << >> /\ UNCHANGED <<log, outside>>
  BY DEF Run
<1>2. call.k \in {"known", "added", "found", "details", "public", "aliased", "secret", "init",
                  "scanned", "post"}
  BY <1>1, FirstCall DEF Calls
<1>3. CASE call.k = "init"
  <2>1. Initialize(rest)
    BY <1>3 DEF Run
  <2> QED
    BY <1>1, <1>3, <2>1, InitializeKeeps
<1>4. CASE call.k # "init" /\ ~ Ready
  <2>1. queue' = rest /\ complete' = (complete /\ call.k # "post") /\ UNCHANGED <<page, stored>>
    BY <1>4 DEF Run
  <2> QED
    BY <1>1, <1>4, <2>1, FailureKeeps
<1>5. CASE call.k \in {"public", "details", "aliased", "scanned", "secret"} /\ Ready
  <2>1. \/ call.k = "public" /\ PublicEvent(rest)
        \/ call.k = "details" /\ Details(call.who, rest)
        \/ call.k = "aliased" /\ Aliased(rest)
        \/ call.k = "scanned" /\ ScanResult(call.who, rest)
        \/ call.k = "secret" /\ ShowSecret(rest)
    BY <1>5 DEF Run
  <2> HIDE DEF call, rest
  <2> QED
    BY <1>1, <1>5, <2>1, QuietCalls DEF call, rest
<1>6. CASE call.k \in {"added", "found"} /\ Ready
  <2>1. (call.k = "added" /\ Added(call.who, rest)) \/ (call.k = "found" /\ Found(call.who, rest))
    BY <1>6 DEF Run
  <2> QED
    BY <1>1, <1>6, <2>1, ContactCalls
<1>7. CASE call.k = "known" /\ Ready
  <2>1. Known(call.who, rest)
    BY <1>7 DEF Run
  <2> QED
    BY <1>1, <1>7, <2>1, KnownKeeps
<1>8. CASE call.k = "post" /\ Ready
  <2>1. NewEvent(call.post, rest)
    BY <1>8 DEF Run
  <2> QED
    BY <1>1, <1>8, <2>1, PostKeeps
<1> QED
  BY <1>2, <1>3, <1>4, <1>5, <1>6, <1>7, <1>8

-----------------------------------------------------------------------------
(* The log grows *)

\* One more call at the end of the queue.
LEMMA OneMore ==
  ASSUME NEW n \in Nat, NEW q \in Seq(Calls(n)), NEW call \in Calls(n)
  PROVE  /\ Append(q, call) \in Seq(Calls(n))
         /\ ToSet(Append(q, call)) = ToSet(q) \union {call}
         /\ call.k # "init" => /\ Inits(Append(q, call)) = Inits(q)
                               /\ Later(Append(q, call)) = Later(q) \union {call}
         /\ Inits(q) = {} => \A i, j \in Inits(Append(q, call)) : i = j
         /\ Inits(q) = {} /\ call.k # "init" => Inits(Append(q, call)) = {}
<1> DEFINE s == <<call>>
<1>1. Append(q, call) = q \o s /\ s \in Seq(Calls(n))
  OBVIOUS
<1>2. DOMAIN s = {1} /\ s[1] = call /\ Len(s) = 1
  OBVIOUS
<1> HIDE DEF s
<1>3. ToSet(s) = {call} /\ (call.k # "init" => Inits(s) = {})
  BY <1>2 DEF ToSet, Inits
<1>4. /\ q \o s \in Seq(Calls(n)) /\ ToSet(q \o s) = ToSet(q) \union ToSet(s)
      /\ Inits(s) = {} => /\ Inits(q \o s) = Inits(q)
                          /\ Later(q \o s) = Later(q) \union ToSet(s)
  BY <1>1, Appended
<1>5. Inits(q) = {} => \A i, j \in Inits(q \o s) : i = j
  <2>1. /\ DOMAIN (q \o s) = 1 .. Len(q) + 1 /\ Len(q) \in Nat /\ DOMAIN q = 1 .. Len(q)
        /\ \A i \in DOMAIN q : (q \o s)[i] = q[i]
    BY <1>1, <1>2
  <2>2. \A i \in DOMAIN (q \o s) : i \in DOMAIN q \/ i = Len(q) + 1
    BY <2>1
  <2> QED
    BY <2>1, <2>2 DEF Inits
<1> QED
  BY <1>1, <1>3, <1>4, <1>5

\* A private post enters the log of a page that is there.
LEMMA LogKeeps ==
  ASSUME IInv, Alive, NEW e \in Entry, log' = Append(log, e),
         queue' = Append(queue, PostCall(Len(log) + 1)),
         UNCHANGED <<page, stored, outside, complete>>
  PROVE  IInv'
<1> DEFINE n == Len(log)
           call == PostCall(n + 1)
<1>1. log \in Seq(Entry) /\ n \in Nat /\ queue \in Seq(Calls(n))
  BY DEF IInv, TypeInv
<1>2. /\ log' \in Seq(Entry) /\ Len(log') = n + 1 /\ DOMAIN log' = 1 .. n + 1 /\ DOMAIN log = 1 .. n
      /\ \A i \in DOMAIN log : log'[i] = log[i] /\ i \in DOMAIN log'
      /\ \A i \in DOMAIN log' : i \in DOMAIN log \/ i = n + 1
  BY <1>1
<1>3. call \in Calls(n + 1) /\ call.k = "post"
  BY <1>1 DEF Calls, PostCall
<1>4. Calls(n) \subseteq Calls(n + 1)
  BY <1>1 DEF Calls
<1>5. queue \in Seq(Calls(n + 1)) /\ n + 1 \in Nat
  BY <1>1, <1>4, WiderSeq
<1> HIDE DEF n, call
<1>6. /\ queue' \in Seq(Calls(n + 1)) /\ ToSet(queue') = ToSet(queue) \union {call}
      /\ Inits(queue') = Inits(queue) /\ Later(queue') = Later(queue) \union {call}
  <2>1. queue' = Append(queue, call)
    BY DEF n, call
  <2> QED
    BY <1>3, <1>5, <2>1, OneMore
<1>7. TypeInv'
  BY <1>2, <1>6 DEF IInv, TypeInv
<1>8. ScreenInv'
  BY <1>3, <1>6 DEF IInv, ScreenInv
<1>9. page.boot # "off"
  BY DEF Alive
<1>10. StartInv'
  BY <1>6, <1>9 DEF IInv, DataInv, StartInv, Ready
<1>11. HiddenInv'
  BY DEF IInv, DataInv, HiddenInv, Ready, Chats
<1>12. PostsShown'
  <2>1. PostsShown
    BY DEF IInv, DataInv
  <2> QED
    BY <1>2, <1>6, <2>1 DEF PostsShown, Ready, call, n
<1>13. PostsSaved'
  <2>1. PostsSaved /\ Saved' = Saved
    BY DEF IInv, DataInv, Saved
  <2> QED
    BY <1>2, <1>6, <2>1 DEF PostsSaved, Ready, call, n
<1>14. \A t : Authored(t) => Authored(t)'
  BY <1>2, <1>6 DEF Authored
<1>15. AuthorsShown' /\ AuthorsSaved'
  <2>1. AuthorsShown /\ AuthorsSaved
    BY DEF IInv, DataInv
  <2>2. AuthorsShown'
    BY <1>2, <1>6, <2>1 DEF AuthorsShown, Ready, Authored
  <2>3. AuthorsSaved'
    BY <1>2, <1>6, <2>1 DEF AuthorsSaved, Ready, Authored
  <2> QED
    BY <2>2, <2>3
<1> QED
  BY <1>7, <1>8, <1>10, <1>11, <1>12, <1>13, <1>15 DEF IInv, DataInv

\* A private post arrives, whether the page is there or not.
LEMMA ReceiveKeeps ==
  ASSUME IInv, NEW c \in Conversation, NEW from \in c \ {Me}, Receive(c, from)
  PROVE  IInv'
<1> DEFINE e == [from |-> from, to |-> c]
<1>1. e \in Entry
  BY DEF Entry, Conversation
<1>2. log' = Append(log, e) /\ UNCHANGED <<page, stored, outside>>
  BY DEF Receive
<1> HIDE DEF e
<1>3. CASE Alive
  BY <1>1, <1>2, <1>3, LogKeeps DEF Receive
<1>4. CASE ~ Alive
  <2>1. UNCHANGED <<queue, page, stored, outside>> /\ complete' = FALSE
    BY <1>4 DEF Receive
  <2>2. queue = << >> /\ page.boot = "off" /\ ~ Ready
    BY <1>4 DEF Alive, Ready, IInv, DataInv, StartInv
  <2>3. log \in Seq(Entry) /\ log' \in Seq(Entry)
    BY <1>1, <1>2 DEF IInv, TypeInv
  <2>4. TypeInv'
    <3>1. queue' \in Seq(Calls(Len(log')))
      <4> DEFINE C == Calls(Len(log'))
      <4>1. queue' = << >>
        BY <2>1, <2>2
      <4> HIDE DEF C
      <4>2. queue' \in Seq(C)
        BY <4>1
      <4> QED
        BY <4>2 DEF C
    <3> QED
      BY <2>1, <2>3, <3>1 DEF IInv, TypeInv
  <2> QED
    BY <2>1, <2>2, <2>4
    DEF IInv, ScreenInv, DataInv, StartInv, Ready, HiddenInv, PostsShown, PostsSaved,
        AuthorsShown, AuthorsSaved
<1> QED
  BY <1>3, <1>4

\* The buttons of a screen are there when nothing covers it.
LEMMA FreePage ==
  ASSUME IInv, NEW sc, At(sc)
  PROVE  /\ Ready /\ page.overlay = "none" /\ page.menu = "none" /\ page.scenario = sc
         /\ sc = "posts" => page.cur \in DOMAIN Chats
BY ProperPage DEF At, Free, Attentive, Proper, AboutChat, Chats

\* new_post: the own post comes back as an event.
LEMMA PostTapKeeps == ASSUME IInv, Post PROVE IInv'
<1>1. Ready /\ page.cur \in DOMAIN Chats
  BY FreePage DEF Post
<1>2. page.cur \in Conversation
  BY <1>1, ProperPage, TremolaFields DEF Chats
<1>3. [from |-> Me, to |-> page.cur] \in Entry
  BY <1>2, PeopleAssumption DEF Entry, Conversation
<1>4. Alive
  BY <1>1 DEF Alive, Ready
<1> QED
  BY <1>3, <1>4, LogKeeps DEF Post

-----------------------------------------------------------------------------
(* Taps that change more *)

\* A handler that leaves the queue alone.
LEMMA QueueStays ==
  ASSUME IInv, queue' = queue, page'.subject = page.subject \/ page'.subject # Nobody
  PROVE  QueueKept
BY DEF QueueKept, IInv, TypeInv, ScreenInv

\* A handler that only adds calls to the queue.
LEMMA QueueGrows ==
  ASSUME IInv, NEW s \in Seq(Calls(Len(log))), Inits(s) = {}, \A call \in ToSet(s) : call.k # "added",
         queue' = queue \o s, page'.subject = page.subject \/ page'.subject # Nobody
  PROVE  QueueKept
<1>1. /\ queue' \in Seq(Calls(Len(log))) /\ ToSet(queue') = ToSet(queue) \union ToSet(s)
      /\ Inits(queue') = Inits(queue) /\ Later(queue') = Later(queue) \union ToSet(s)
  BY Appended DEF IInv, TypeInv
<1> QED
  BY <1>1 DEF QueueKept, IInv, ScreenInv

\* menu_reset
LEMMA ResetKeeps == ASSUME IInv, Reset PROVE IInv'
<1> DEFINE q == Show(page, "chats")
<1>1. /\ Ready /\ page.overlay = "none" /\ page.menu = "none" /\ Proper(page) /\ page \in Page
      /\ "chats" \in Scenario
  BY FreePage, ProperPage DEF Reset, Scenario, Main
<1>2. /\ q \in Page /\ q.scenario = "chats" /\ q.menu = "none" /\ q.overlay = "none"
      /\ q.target = page.target /\ q.boot = "ready" /\ q.subject = page.subject
  BY <1>1, ShowFields DEF Ready
<1>3. page' = [q EXCEPT !.tremola = Fresh] /\ stored' = {page'.tremola} /\ complete' = FALSE
      /\ queue' = Append(queue, Call("init", Nobody)) /\ UNCHANGED <<log, outside>>
  BY DEF Reset, Saves
<1> HIDE DEF q
<1>4. /\ page' \in Page /\ page'.tremola = Fresh /\ page'.boot = "ready" /\ Fresh \in Tremola
      /\ page'.scenario = "chats" /\ page'.menu = "none" /\ page'.overlay = "none"
      /\ page'.target = page.target /\ page'.subject = page.subject
  BY <1>2, <1>3, FreshThere DEF Page
<1>5. Proper(page') /\ Ready'
  BY <1>1, <1>4 DEF Proper, AboutChat, Ready
<1>6. queue' \in Seq(Calls(Len(log))) /\ ToSet(queue') = ToSet(queue) \union {Call("init", Nobody)}
  <2>1. queue \in Seq(Calls(Len(log))) /\ Len(log) \in Nat
    BY DEF IInv, TypeInv
  <2>2. Call("init", Nobody) \in Calls(Len(log))
    BY DEF Calls, Call
  <2> QED
    BY <1>3, <2>1, <2>2, OneMore
<1>7. TypeInv'
  BY <1>3, <1>4, <1>6 DEF IInv, TypeInv
<1>8. ScreenInv'
  BY <1>4, <1>5, <1>6, CallKinds DEF IInv, ScreenInv
<1>9. StartInv'
  BY <1>3, <1>4, <1>5 DEF StartInv
<1>10. PostsShown' /\ AuthorsShown'
  BY <1>3, <1>4, FreshThere DEF PostsShown, AuthorsShown, Authored
<1> QED
  BY <1>3, <1>5, <1>7, <1>8, <1>9, <1>10, SavingKeeps DEF IInv, DataInv

\* menu_stream_all_posts
LEMMA RestreamKeeps == ASSUME IInv, Restream PROVE IInv'
<1> DEFINE s == [i \in DOMAIN log |-> PostCall(i)]
<1>1. /\ Ready /\ Proper(page) /\ "chats" \in Scenario
  BY FreePage, ProperPage DEF Restream, Scenario, Main
<1>2. Redisplays(page', page)
  BY <1>1, ShownPage DEF Restream, Becomes
<1>3. queue' = queue \o s /\ complete' = TRUE /\ UNCHANGED <<stored, log, outside>>
  BY DEF Restream
<1>4. s \in Seq(Calls(Len(log))) /\ ToSet(s) = {PostCall(i) : i \in DOMAIN log} /\ Inits(s) = {}
  <2>1. DOMAIN log = 1 .. Len(log) /\ Len(log) \in Nat
    BY DEF IInv, TypeInv
  <2>2. \A i \in DOMAIN log : PostCall(i) \in Calls(Len(log))
    BY <2>1 DEF PostCall, Calls
  <2>3. s \in [1 .. Len(log) -> Calls(Len(log))]
    BY <2>1, <2>2
  <2>4. s \in Seq(Calls(Len(log)))
    BY <2>1, <2>3
  <2> QED
    BY <2>4, CallKinds DEF ToSet, Inits
<1> HIDE DEF s
<1>5. /\ queue' \in Seq(Calls(Len(log))) /\ ToSet(queue') = ToSet(queue) \union ToSet(s)
      /\ Inits(queue') = Inits(queue) /\ Later(queue') = Later(queue) \union ToSet(s)
  BY <1>3, <1>4, Appended DEF IInv, TypeInv
<1>6. /\ page'.tremola = page.tremola /\ page'.boot = "ready" /\ Ready' /\ Proper(page')
      /\ (page'.subject = page.subject \/ page'.subject # Nobody)
  BY <1>1, <1>2 DEF Redisplays, Ready
<1>7. TypeInv'
  BY <1>3, <1>5 DEF IInv, TypeInv
<1>8. ScreenInv'
  BY <1>4, <1>5, <1>6, CallKinds DEF IInv, ScreenInv
<1>9. StartInv'
  BY <1>1, <1>3, <1>6 DEF IInv, DataInv, StartInv, Ready
<1>10. PostsShown' /\ PostsSaved'
  BY <1>3, <1>4, <1>5 DEF PostsShown, PostsSaved
<1>11. HiddenInv'
  BY <1>1, <1>3, <1>6 DEF IInv, DataInv, HiddenInv, Chats
<1>12. AuthorsShown'
  BY <1>1, <1>3, <1>5, <1>6 DEF IInv, DataInv, AuthorsShown, Authored
<1>13. AuthorsSaved'
  BY <1>1, <1>3, <1>5, <1>6 DEF IInv, DataInv, AuthorsSaved, Authored
<1> QED
  BY <1>7, <1>8, <1>9, <1>10, <1>11, <1>12, <1>13 DEF IInv, DataInv

\* A conversation is hidden or shown again.
Flipped(p, c, b) == [p EXCEPT !.tremola.chats[c].forgotten = b]

\* Nothing else changes then.
LEMMA FlipPage ==
  ASSUME NEW p, Proper(p), NEW c \in DOMAIN p.tremola.chats, NEW b \in BOOLEAN
  PROVE  LET q == Flipped(p, c, b)
             u == q.tremola
         IN /\ Proper(q) /\ q.boot = p.boot /\ q.subject = p.subject
            /\ u.contacts = p.tremola.contacts
            /\ DOMAIN u.chats = DOMAIN p.tremola.chats
            /\ ShownIn(u) = ShownIn(p.tremola)
            /\ u.chats[c].forgotten = b
            /\ \A x \in DOMAIN u.chats : x # c => u.chats[x] = p.tremola.chats[x]
<1> DEFINE t == p.tremola
           chat == [t.chats[c] EXCEPT !.forgotten = b]
           w == [t.chats EXCEPT ![c] = chat]
           u == [t EXCEPT !.chats = w]
           q == [p EXCEPT !.tremola = u]
<1>1. /\ p \in Page /\ t \in Tremola
  BY DEF Proper, Page
<1>2. /\ t.contacts \in SUBSET Person /\ Me \in t.contacts
      /\ DOMAIN t.chats \in SUBSET Conversation /\ {Me} \in DOMAIN t.chats
      /\ t.chats \in [DOMAIN t.chats -> Chat]
      /\ t = [contacts |-> t.contacts, chats |-> t.chats]
  BY <1>1, TremolaFields
<1>3. Flipped(p, c, b) = q
  BY <1>1, <1>2 DEF Page, Flipped
<1> HIDE DEF t
<1>4. chat \in Chat /\ chat.forgotten = b /\ chat.posts = t.chats[c].posts
  <2>1. t.chats[c] \in Chat
    BY <1>2 DEF t
  <2> QED
    BY <2>1 DEF Chat
<1> HIDE DEF chat
<1>5. /\ w \in [DOMAIN t.chats -> Chat] /\ w[c] = chat /\ DOMAIN w = DOMAIN t.chats
      /\ \A x \in DOMAIN w : x # c => w[x] = t.chats[x]
      /\ \A x \in DOMAIN w : w[x].posts = t.chats[x].posts
  BY <1>2, <1>4 DEF t
<1> HIDE DEF w
<1>6. u = [contacts |-> t.contacts, chats |-> w]
  BY <1>2
<1> HIDE DEF u
<1>7. u \in Tremola /\ u.contacts = t.contacts /\ u.chats = w
  <2>1. w \in UNION {[D -> Chat] : D \in SUBSET Conversation}
    BY <1>2, <1>5
  <2> QED
    BY <1>2, <1>5, <1>6, <2>1 DEF Tremola
<1>8. ShownIn(u) = ShownIn(t)
  BY <1>5, <1>7 DEF ShownIn
<1>9. /\ q \in Page /\ q.tremola = u /\ q.boot = p.boot /\ q.subject = p.subject
      /\ q.overlay = p.overlay /\ q.cur = p.cur /\ q.target = p.target /\ (AboutChat(q) <=> AboutChat(p))
  BY <1>1, <1>7 DEF Page, AboutChat
<1> HIDE DEF q
<1>10. Proper(q)
  BY <1>5, <1>7, <1>9 DEF Proper, t
<1> QED
  BY <1>3, <1>4, <1>5, <1>7, <1>8, <1>9, <1>10 DEF t

\* menu_forget_conv
LEMMA ForgetKeeps ==
  ASSUME IInv, Ready, page.cur \in DOMAIN Chats, Forget
  PROVE  IInv'
<1> DEFINE c == page.cur
           b == ~ page.tremola.chats[c].forgotten
           f == Flipped(page, c, b)
           p == Closed(f)
<1>1. CASE UNCHANGED vars
  BY <1>1 DEF vars, IInv, TypeInv, ScreenInv, DataInv, StartInv, HiddenInv, PostsShown, PostsSaved,
     AuthorsShown, AuthorsSaved, Ready, Chats, Saved, Authored
<1>2. CASE ~ UNCHANGED vars
  <2>1. Proper(page) /\ page \in Page /\ c \in DOMAIN page.tremola.chats /\ b \in BOOLEAN
    BY ProperPage DEF Chats
  <2>2. f = [page EXCEPT !.tremola.chats[c].forgotten = ~ @]
    BY <2>1 DEF Page, Flipped
  <2>3. /\ stored' = {p.tremola} /\ UNCHANGED <<log, queue, outside, complete>>
        /\ page' \in {Show(p, "chats"), LoadChat(p, c)}
    BY <1>2, <2>2 DEF Forget
  <2> HIDE DEF b
  <2>4. /\ Proper(f) /\ f.boot = page.boot /\ f.subject = page.subject
        /\ f.tremola.contacts = page.tremola.contacts
        /\ DOMAIN f.tremola.chats = DOMAIN page.tremola.chats
        /\ ShownIn(f.tremola) = ShownIn(page.tremola)
    BY <2>1, FlipPage
  <2> HIDE DEF f
  <2>5. Redisplays(p, f)
    BY <2>4, ClosedPage
  <2> HIDE DEF p, c
  <2>6. Redisplays(Show(p, "chats"), p)
    BY <2>5, ShownPage DEF Redisplays, Scenario, Main
  <2>7. Redisplays(LoadChat(p, c), p)
    BY <2>1, <2>4, <2>5, ChatPage DEF Redisplays
  <2>8. Redisplays(page', f)
    BY <2>3, <2>5, <2>6, <2>7, RedisplaysAgain
  <2>9. /\ Proper(page') /\ page'.boot = "ready" /\ page'.tremola = f.tremola
        /\ (page'.subject = page.subject \/ page'.subject # Nobody) /\ p.tremola = f.tremola
    BY <2>4, <2>5, <2>8 DEF Redisplays, Ready
  <2>10. QueueKept
    BY <2>3, <2>9, QueueStays
  <2>11. complete' \in BOOLEAN
    BY <2>3 DEF IInv, TypeInv
  <2> QED
    BY <2>3, <2>4, <2>9, <2>10, <2>11, ChangeKeeps
<1> QED
  BY <1>1, <1>2

\* new_conversation
LEMMA NewConversationKeeps ==
  ASSUME IInv, NEW c \in Conversation, NewConversation(c)
  PROVE  IInv'
<1>1. /\ Ready /\ page.overlay = "none" /\ page.menu = "none" /\ page.scenario = "members"
      /\ Proper(page) /\ page \in Page /\ page.tremola \in Tremola
  BY FreePage, ProperPage DEF NewConversation
<1>2. CASE /\ c \in DOMAIN Chats
           /\ Displays([page EXCEPT !.tremola.chats[c].forgotten = FALSE])
  <2> DEFINE hidden == FALSE
             q == Flipped(page, c, hidden)
             u == q.tremola
  <2>0. page' = q /\ UNCHANGED <<stored, log, queue, outside, complete>>
    BY <1>2 DEF Displays, Becomes, Flipped
  <2>x. c \in DOMAIN page.tremola.chats /\ hidden \in BOOLEAN
    BY <1>2 DEF Chats
  <2> HIDE DEF hidden
  <2>1. /\ Proper(q) /\ q.boot = page.boot /\ q.subject = page.subject
        /\ u.contacts = page.tremola.contacts
        /\ DOMAIN u.chats = DOMAIN page.tremola.chats
        /\ ShownIn(u) = ShownIn(page.tremola)
        /\ u.chats[c].forgotten = hidden
        /\ \A x \in DOMAIN u.chats : x # c => u.chats[x] = page.tremola.chats[x]
    BY <1>1, <2>x, FlipPage
  <2>2. page' = q /\ UNCHANGED <<stored, log, queue, outside, complete>>
    BY <2>0
  <2> HIDE DEF q
  <2>3. page'.tremola = u /\ Ready' /\ Proper(page')
    BY <1>1, <2>1, <2>2 DEF Ready
  <2>4. ScreenInv'
    BY <2>1, <2>2 DEF IInv, ScreenInv
  <2>5. TypeInv'
    BY <2>2 DEF IInv, TypeInv
  <2>6. StartInv'
    BY <1>1, <2>2, <2>3 DEF IInv, DataInv, StartInv, Ready
  <2>7. HiddenInv'
    <3>1. \A x \in DOMAIN u.chats : ~ Listed(u, x) => ~ Listed(page.tremola, x)
      BY <2>1 DEF Listed, hidden
    <3>2. HiddenInv
      BY DEF IInv, DataInv
    <3> QED
      BY <1>1, <2>1, <2>2, <2>3, <3>1, <3>2 DEF HiddenInv, Chats
  <2>8. PostsShown'
    BY <1>1, <2>1, <2>2, <2>3 DEF IInv, DataInv, PostsShown
  <2>9. PostsSaved'
    BY <1>1, <2>2, <2>3 DEF IInv, DataInv, PostsSaved, Saved
  <2>10. AuthorsShown'
    BY <1>1, <2>1, <2>2, <2>3 DEF IInv, DataInv, AuthorsShown, Authored
  <2>11. AuthorsSaved'
    BY <1>1, <2>2, <2>3 DEF IInv, DataInv, AuthorsSaved, Authored
  <2> QED
    BY <2>4, <2>5, <2>6, <2>7, <2>8, <2>9, <2>10, <2>11 DEF IInv, DataInv
<1>3. CASE /\ c \notin DOMAIN Chats
           /\ LET p == [page EXCEPT !.tremola.chats = With(@, c, Empty)]
              IN /\ page' = [Edit(Show(p, "chats"), "conversation") EXCEPT !.cur = c]
                 /\ stored' = {p.tremola}
                 /\ UNCHANGED <<log, queue, outside, complete>>
  <2> DEFINE t == page.tremola
             u == [t EXCEPT !.chats = With(t.chats, c, Empty)]
             p == [page EXCEPT !.tremola = u]
             q == Show(p, "chats")
  <2>1. p = [page EXCEPT !.tremola.chats = With(@, c, Empty)]
    BY <1>1 DEF Page
  <2>2. /\ page' = [Edit(q, "conversation") EXCEPT !.cur = c] /\ stored' = {p.tremola}
        /\ UNCHANGED <<log, queue, outside, complete>>
    BY <1>3, <2>1
  <2>3. Empty \in Chat /\ Empty.posts = {}
    BY DEF Empty, Chat
  <2> HIDE DEF t
  <2>4. u \in Tremola /\ u.contacts = t.contacts /\ u.chats = With(t.chats, c, Empty)
    <3>1. t \in Tremola
      BY <1>1 DEF t
    <3>2. u \in Tremola
      BY <2>3, <3>1, WithFields
    <3>3. t = [contacts |-> t.contacts, chats |-> t.chats]
      BY <3>1, TremolaFields
    <3> QED
      BY <3>2, <3>3
  <2> HIDE DEF u
  <2>5. ShownIn(u) = ShownIn(t) /\ c \in DOMAIN u.chats
    <3>1. t \in Tremola /\ c \notin DOMAIN t.chats
      BY <1>1, <1>3 DEF t, Chats
    <3>2. /\ ShownIn(u) \subseteq ShownIn(t) \union Empty.posts
          /\ (c \in DOMAIN t.chats => t.chats[c].posts \subseteq Empty.posts)
                => ShownIn(t) \subseteq ShownIn(u)
      BY <2>3, <2>4, <3>1, WithPosts
    <3>3. DOMAIN With(t.chats, c, Empty) = DOMAIN t.chats \union {c}
      BY <2>3, <3>1, WithFields
    <3> QED
      BY <2>3, <2>4, <3>1, <3>2, <3>3
  <2>6. p \in Page /\ p.tremola = u /\ p.boot = "ready" /\ p.subject = page.subject /\ "chats" \in Scenario
    BY <1>1, <2>4 DEF Page, Ready, Scenario, Main
  <2> HIDE DEF p
  <2>7. q \in Page /\ q.tremola = u /\ q.boot = "ready" /\ q.subject = page.subject
    BY <2>6, ShowFields
  <2> HIDE DEF q
  <2>8. c \in SUBSET Person
    BY DEF Conversation
  <2>9. /\ page' \in Page /\ page'.tremola = u /\ page'.boot = "ready" /\ page'.cur = c
        /\ page'.subject = page.subject /\ page'.target = "conversation"
    BY <2>2, <2>7, <2>8 DEF Edit, Over, Closed, Page, Overlay
  <2>10. Proper(page')
    BY <2>5, <2>9 DEF Proper
  <2>11. QueueKept
    BY <2>2, <2>9, QueueStays
  <2>12. complete' \in BOOLEAN
    BY <2>2 DEF IInv, TypeInv
  <2> QED
    BY <1>1, <2>2, <2>4, <2>5, <2>6, <2>9, <2>10, <2>11, <2>12, ChangeKeeps DEF t
<1> QED
  BY <1>2, <1>3 DEF NewConversation

\* One answer of the native part
LEMMA AskedOne ==
  ASSUME NEW who \in Person, NEW k \in {"known", "added", "details", "aliased"}
  PROVE  /\ Answers(k, {who}) \in Seq(Calls(Len(log)))
         /\ ToSet(Answers(k, {who})) = {Call(k, who)}
         /\ Inits(Answers(k, {who})) = {} /\ Len(Answers(k, {who})) = 1
<1> DEFINE s == Answers(k, {who})
           A == [k : {k}, who : {who}]
<1>1. s \in Seq(A) /\ ToSet(s) = {Call(k, who)} /\ Len(s) = 1
  <2> DEFINE people == {who}
  <2>1. people \in SUBSET Person
    OBVIOUS
  <2> HIDE DEF people
  <2>2. /\ Answers(k, people) \in Seq([k : {k}, who : people])
        /\ ToSet(Answers(k, people)) = {Call(k, x) : x \in people}
        /\ Len(Answers(k, people)) = Cardinality({Call(k, x) : x \in people})
    BY <2>1, AnswersQueued
  <2>3. {Call(k, x) : x \in people} = {Call(k, who)}
    BY DEF people
  <2> QED
    BY <2>2, <2>3, FS_Singleton DEF people
<1>2. A \subseteq Calls(Len(log))
  BY DEF Calls
<1> HIDE DEF s, A
<1>4. s \in Seq(Calls(Len(log)))
  BY <1>1, <1>2, WiderSeq
<1>5. Inits(s) = {}
  BY <1>1, CallKinds DEF Inits, ToSet
<1> QED
  BY <1>1, <1>4, <1>5 DEF s

\* edit_confirmed
LEMMA EditConfirmedKeeps ==
  ASSUME IInv, NEW empty \in BOOLEAN, EditConfirmed(empty)
  PROVE  IInv'
<1>1. /\ Ready /\ page.overlay = "edit" /\ Proper(page) /\ page \in Page
  BY ProperPage DEF EditConfirmed, Attentive
<1>2. page.target \in {"conversation", "pub", "contact"}
  BY <1>1 DEF Proper, Page
<1>3. Redisplays(Closed(page), page) /\ Closed(page).subject = page.subject
  BY <1>1, ClosedPage DEF Closed, Page
<1>4. CASE page.target = "conversation"
  <2>1. Keeps(Closed(page))
    BY <1>4 DEF EditConfirmed
  <2> QED
    BY <1>1, <1>3, <2>1, DisplaysKeeps
<1>5. CASE page.target = "pub"
  <2>1. Displays(Closed(page))
    BY <1>5 DEF EditConfirmed
  <2> QED
    BY <1>1, <1>3, <2>1, DisplaysKeeps
<1>6. CASE page.target = "contact"
  <2>1. page.subject \in Person
    BY <1>1, <1>6 DEF Proper, Page
  <2>2. CASE empty
    <3> DEFINE s == Answers("added", {page.subject})
    <3>1. Asks(Closed(page), s)
      BY <1>6, <2>2 DEF EditConfirmed
    <3>2. /\ s \in Seq(Calls(Len(log))) /\ ToSet(s) = {Call("added", page.subject)}
          /\ Inits(s) = {}
      BY <2>1, AskedOne
    <3> HIDE DEF s
    <3>3. \A call \in ToSet(s) : call.k = "added" => Closed(page).subject # Nobody
      BY <1>3, <2>1, PeopleAssumption
    <3> QED
      BY <1>1, <1>3, <3>1, <3>2, <3>3, AsksKeeps
  <2>3. CASE ~ empty
    <3> DEFINE who == page.subject
               p == WithContact(page, who)
    <3>1. /\ page' = Closed(p) /\ stored' = {page'.tremola} /\ queue' = queue \o Followed
          /\ complete' = (complete /\ NothingThere(who)) /\ log' = log /\ outside' = outside
      BY <1>6, <2>3 DEF EditConfirmed, Saves
    <3>2. Proper(p) /\ p.subject = page.subject
      BY <1>1, <2>1, ContactPage
    <3> HIDE DEF p
    <3>3. page'.subject = page.subject
      BY <3>1, <3>2 DEF Closed, Proper, Page
    <3>4. QueueKept
      BY <3>1, <3>3, FollowAdded, CallKinds, QueueGrows
    <3> QED
      BY <1>1, <2>1, <3>1, <3>4, ContactKeeps DEF p
  <2> QED
    BY <2>2, <2>3
<1> QED
  BY <1>2, <1>4, <1>5, <1>6

-----------------------------------------------------------------------------
(* The other taps *)

\* Taps that open a screen or a menu, or put something over the screen.
LEMMA ScreenTapsKeep ==
  ASSUME IInv,
         \/ \E s \in Main : Footer(s)
         \/ OpenMenu \/ TapBeside \/ ShowQR \/ Plus
         \/ Launch \/ EnterView \/ BackPressed
  PROVE  IInv'
<1>1. Proper(page) /\ page \in Page
  BY ProperPage
<1>2. ASSUME NEW s \in Main, Footer(s) PROVE IInv'
  <2>1. Displays(Show(page, s)) /\ s \in Scenario /\ s # "posts"
    BY <1>2 DEF Footer, Main, Scenario
  <2>2. Redisplays(Show(page, s), page)
    BY <1>1, <2>1, ShownPage
  <2> QED
    BY <2>1, <2>2, DisplaysKeeps
<1>3. CASE OpenMenu
  <2> DEFINE p == [page EXCEPT !.menu = page.scenario]
  <2>1. Displays(p)
    BY <1>3 DEF OpenMenu
  <2>2. Redisplays(p, page)
    BY <1>1 DEF Redisplays, Proper, Page, AboutChat
  <2> QED
    BY <2>1, <2>2, DisplaysKeeps
<1>4. CASE TapBeside
  <2>1. Displays(Closed(page)) /\ Redisplays(Closed(page), page)
    BY <1>1, <1>4, ClosedPage DEF TapBeside
  <2> QED
    BY <2>1, DisplaysKeeps
<1>5. CASE ShowQR
  <2>1. Displays(Over(page, "qr")) /\ Redisplays(Over(page, "qr"), page)
    BY <1>1, <1>5, CoveredPage DEF ShowQR, Overlay
  <2> QED
    BY <2>1, DisplaysKeeps
<1>6. CASE Plus
  <2>1. Redisplays(Members(page), page)
    BY <1>1, MembersPage
  <2>2. Redisplays(Over(page, "new_contact"), page)
    BY <1>1, CoveredPage DEF Overlay
  <2>3. Redisplays(Edit(page, "pub"), page)
    BY <1>1, EditedPage
  <2>4. \/ Displays(Members(page)) \/ Displays(Over(page, "new_contact"))
        \/ Displays(Edit(page, "pub"))
    BY <1>6 DEF Plus
  <2> QED
    BY <2>1, <2>2, <2>3, <2>4, DisplaysKeeps
<1>7. CASE Launch
  <2> DEFINE p == [page EXCEPT !.prev = "miniapps", !.scenario = "customApp",
                               !.board = page.app = "loaded"]
  <2>1. Displays(p) /\ page.menu = "none" /\ page.overlay = "none"
    BY <1>7 DEF Launch, Free
  <2>2. /\ p \in Page /\ p.scenario = "customApp" /\ p.menu = page.menu
        /\ p.overlay = page.overlay /\ p.target = page.target /\ p.subject = page.subject
        /\ p.tremola = page.tremola /\ p.boot = page.boot
    <3> DEFINE b == (page.app = "loaded")
    <3>1. b \in BOOLEAN /\ "miniapps" \in Main /\ "customApp" \in Scenario
      BY DEF Main, Scenario
    <3> HIDE DEF b
    <3>2. p = [page EXCEPT !.prev = "miniapps", !.scenario = "customApp", !.board = b]
      BY DEF b
    <3> HIDE DEF p
    <3> QED
      BY <1>1, <3>1, <3>2 DEF Page
  <2> HIDE DEF p
  <2>3. Redisplays(p, page)
    BY <1>1, <2>1, <2>2 DEF Redisplays, Proper, AboutChat
  <2> QED
    BY <2>1, <2>3, DisplaysKeeps
<1>8. CASE EnterView
  <2> DEFINE p == [page EXCEPT !.view = TRUE]
  <2>1. Displays(p)
    BY <1>8 DEF EnterView
  <2>2. Redisplays(p, page)
    BY <1>1 DEF Redisplays, Proper, Page, AboutChat
  <2> QED
    BY <2>1, <2>2, DisplaysKeeps
<1>9. CASE BackPressed
  <2>1. Displays(Back(page)) /\ Redisplays(Back(page), page)
    BY <1>1, <1>9, BackPage DEF BackPressed
  <2> QED
    BY <2>1, DisplaysKeeps
<1> QED
  BY <1>2, <1>3, <1>4, <1>5, <1>6, <1>7, <1>8, <1>9

\* load_chat by the button of a conversation
LEMMA OpenChatKeeps ==
  ASSUME IInv, NEW c \in Conversation, OpenChat(c)
  PROVE  IInv'
<1> DEFINE p == LoadChat(page, c)
<1>1. Ready /\ c \in DOMAIN page.tremola.chats /\ (Keeps(p) \/ Displays(p))
  BY FreePage DEF OpenChat, Chats
<1>2. Redisplays(p, page)
  BY <1>1, ProperPage, ChatPage
<1> HIDE DEF p
<1> QED
  BY <1>1, <1>2, DisplaysKeeps

\* The entries of the menu.
LEMMA MenuEntryKeeps ==
  ASSUME IInv, NEW e, MenuEntry(e)
  PROVE  IInv'
<1>1. /\ Ready /\ page.overlay = "none" /\ page.menu # "none" /\ e \in Menu(page.menu)
      /\ Proper(page) /\ page \in Page
  BY ProperPage DEF MenuEntry, Attentive
<1>2. e \in {"conversation", "contact", "rename", "forget", "settings", "about"}
  BY <1>1 DEF Menu
<1>3. e \in {"rename", "forget"} => page.cur \in DOMAIN page.tremola.chats
  BY <1>1 DEF Menu, Proper, AboutChat
<1>4. Redisplays(Closed(page), page) /\ Proper(Closed(page))
  BY <1>1, ClosedPage DEF Redisplays
<1>5. CASE e = "forget"
  <2>1. Forget
    BY <1>5 DEF MenuEntry
  <2> QED
    BY <1>1, <1>3, <1>5, <2>1, ForgetKeeps DEF Chats
<1>6. CASE e = "conversation"
  <2>1. Displays(Members(page)) /\ Redisplays(Members(page), page)
    BY <1>1, <1>6, MembersPage DEF MenuEntry
  <2> QED
    BY <2>1, DisplaysKeeps
<1>7. CASE e = "contact"
  <2>1. Displays(Over(page, "new_contact")) /\ Redisplays(Over(page, "new_contact"), page)
    BY <1>1, <1>7, CoveredPage DEF MenuEntry, Overlay
  <2> QED
    BY <2>1, DisplaysKeeps
<1>8. CASE e = "rename"
  <2>1. Displays(Edit(page, "conversation")) /\ Redisplays(Edit(page, "conversation"), page)
    BY <1>1, <1>3, <1>8, EditedPage DEF MenuEntry
  <2> QED
    BY <2>1, DisplaysKeeps
<1>9. CASE e = "settings"
  <2> DEFINE p == Show(Closed(page), "settings")
  <2>1. Displays(p)
    BY <1>9 DEF MenuEntry
  <2>2. Redisplays(p, Closed(page))
    BY <1>4, ShownPage DEF Scenario
  <2>3. Redisplays(p, page)
    BY <1>4, <2>2, RedisplaysAgain
  <2> HIDE DEF p
  <2> QED
    BY <2>1, <2>3, DisplaysKeeps
<1>10. CASE e = "about"
  <2> DEFINE p == Over(Closed(page), "about")
  <2>1. Displays(p)
    BY <1>10 DEF MenuEntry
  <2>2. Redisplays(p, Closed(page))
    BY <1>4, CoveredPage DEF Overlay
  <2>3. Redisplays(p, page)
    BY <1>4, <2>2, RedisplaysAgain
  <2> HIDE DEF p
  <2> QED
    BY <2>1, <2>3, DisplaysKeeps
<1> QED
  BY <1>2, <1>5, <1>6, <1>7, <1>8, <1>9, <1>10

\* Taps about a person, and what is asked of the native part.
LEMMA PersonTapsKeep ==
  ASSUME IInv,
         \/ \E x \in Person : ShowDetails(x) \/ TypeIdentity(x)
         \/ \E x \in Others : PeerDetails(x)
         \/ \E empty \in BOOLEAN : ChangeContact(empty)
         \/ LookUp \/ ExportSecret
  PROVE  IInv'
<1>1. Proper(page) /\ page \in Page /\ Redisplays(page, page) /\ Redisplays(Closed(page), page)
  BY ProperPage, ClosedPage
<1>2. ASSUME NEW x \in Person, ShowDetails(x) PROVE IInv'
  <2> DEFINE s == Answers("details", {x})
  <2>1. Ready /\ Asks(page, s)
    BY <1>2, FreePage DEF ShowDetails
  <2>2. /\ s \in Seq(Calls(Len(log))) /\ ToSet(s) = {Call("details", x)} /\ Inits(s) = {}
    BY AskedOne
  <2> HIDE DEF s
  <2>3. \A call \in ToSet(s) : call.k # "added"
    BY <2>2, CallKinds
  <2> QED
    BY <1>1, <2>1, <2>2, <2>3, AsksKeeps
<1>3. ASSUME NEW x \in Person, TypeIdentity(x) PROVE IInv'
  <2>1. Displays(Scanned(page, x)) /\ Redisplays(Scanned(page, x), page)
    BY <1>1, <1>3, EditedPage DEF TypeIdentity
  <2> QED
    BY <2>1, DisplaysKeeps
<1>4. ASSUME NEW x \in Others, PeerDetails(x) PROVE IInv'
  <2>1. Displays(EditContact(page, x)) /\ Redisplays(EditContact(page, x), page)
    BY <1>1, <1>4, EditedPage DEF PeerDetails, Others
  <2> QED
    BY <2>1, DisplaysKeeps
<1>5. ASSUME NEW empty \in BOOLEAN, ChangeContact(empty) PROVE IInv'
  <2>1. Ready /\ page.subject \in Person
    BY <1>1, <1>5, TremolaFields DEF ChangeContact, Attentive, Contacts, Page
  <2>2. CASE empty
    <3> DEFINE s == Answers("aliased", {page.subject})
    <3>1. Asks(page, s)
      BY <1>5, <2>2 DEF ChangeContact
    <3>2. /\ s \in Seq(Calls(Len(log))) /\ ToSet(s) = {Call("aliased", page.subject)}
          /\ Inits(s) = {}
      BY <2>1, AskedOne
    <3> HIDE DEF s
    <3>3. \A call \in ToSet(s) : call.k # "added"
      BY <3>2, CallKinds
    <3> QED
      BY <1>1, <2>1, <3>1, <3>2, <3>3, AsksKeeps
  <2>3. CASE ~ empty
    <3>1. Keeps(Closed(page))
      BY <1>5, <2>3 DEF ChangeContact
    <3> QED
      BY <1>1, <2>1, <3>1, DisplaysKeeps
  <2> QED
    BY <2>2, <2>3
<1>6. CASE LookUp
  <2> DEFINE p == Closed(page)
             s == << >>
  <2>1. Ready /\ page' = p /\ UNCHANGED <<stored, log, queue, complete>>
    BY <1>6 DEF LookUp, Attentive, Becomes
  <2>2. /\ outside' \in [camera : BOOLEAN, lookup : BOOLEAN, ends : Nat]
        /\ outside'.ends = outside.ends
    BY <1>6 DEF LookUp, IInv, TypeInv
  <2>3. queue' = queue \o s
    BY <2>1 DEF IInv, TypeInv
  <2>4. s \in Seq(Calls(Len(log))) /\ Inits(s) = {} /\ ToSet(s) = {} /\ page.boot # "off"
    BY <2>1, NothingAdded DEF Ready
  <2> HIDE DEF p, s
  <2>5. Redisplays(p, page)
    BY <1>1 DEF p
  <2> QED
    BY <2>1, <2>2, <2>3, <2>4, <2>5, TapKeeps
<1>7. CASE ExportSecret
  <2> DEFINE s == <<Call("secret", Nobody)>>
  <2>1. Ready /\ Asks(page, s)
    BY <1>7, FreePage DEF ExportSecret
  <2>2. Call("secret", Nobody) \in Calls(Len(log)) /\ Call("secret", Nobody).k = "secret"
    BY DEF Call, Calls
  <2>3. s \in Seq(Calls(Len(log))) /\ Inits(s) = {} /\ \A call \in ToSet(s) : call.k = "secret"
    BY <2>2 DEF Inits, ToSet
  <2> HIDE DEF s
  <2> QED
    BY <1>1, <2>1, <2>3, AsksKeeps
<1> QED
  BY <1>2, <1>3, <1>4, <1>5, <1>6, <1>7

\* Whatever the user taps.
LEMMA TapsKeep == ASSUME IInv, Tap PROVE IInv'
<1>1. CASE \E c \in Conversation : OpenChat(c) \/ NewConversation(c)
  BY <1>1, OpenChatKeeps, NewConversationKeeps
<1>2. CASE Post \/ Reset \/ Restream
  BY <1>2, PostTapKeeps, ResetKeeps, RestreamKeeps
<1>3. CASE \E e \in UNION {Menu(s) : s \in Scenario} : MenuEntry(e)
  BY <1>3, MenuEntryKeeps
<1>4. CASE \E empty \in BOOLEAN : EditConfirmed(empty)
  BY <1>4, EditConfirmedKeeps
<1> QED
  BY <1>1, <1>2, <1>3, <1>4, ScreenTapsKeep, PersonTapsKeep DEF Tap

-----------------------------------------------------------------------------
(* The network, the camera, the life of the page *)

\* A page that has just been created.
LEMMA BlankPage ==
  ASSUME NEW boot \in {"off", "loading"}
  PROVE  /\ Proper(Blank(boot)) /\ Blank(boot).boot = boot
         /\ Blank(boot).subject = Nobody /\ Blank(boot).overlay = "none"
<1> DEFINE p == Blank(boot)
<1>1. p \in Page
  BY FreshThere DEF Blank, Page, Scenario, Main, Overlay
<1>2. /\ p.boot = boot /\ p.scenario = "chats" /\ p.menu = "none" /\ p.overlay = "none"
      /\ p.target = "" /\ p.subject = Nobody
  BY DEF Blank
<1> HIDE DEF p
<1> QED
  BY <1>1, <1>2 DEF Proper, AboutChat, p

\* addNewContact and onActivityResult post their calls.
LEMMA AnswersKeep ==
  ASSUME IInv,
         \/ \E who \in Others : LookupFound(who)
         \/ \E who \in Person \union {Nobody} : CameraCloses(who)
  PROVE  IInv'
<1>1. Redisplays(page, page) /\ queue \in Seq(Calls(Len(log)))
  BY ProperPage DEF IInv, TypeInv
<1>2. ASSUME NEW who \in Others, LookupFound(who) PROVE IInv'
  <2> DEFINE call == Call("found", who)
             s == Followed \o <<call>>
             C == Calls(Len(log))
  <2>1. /\ page' = page /\ queue' = queue \o Followed \o <<call>> /\ page.boot # "off"
        /\ outside' = [outside EXCEPT !.lookup = FALSE] /\ UNCHANGED <<stored, log, complete>>
    BY <1>2 DEF LookupFound, Alive
  <2>2. call \in C /\ call.k = "found"
    BY DEF Call, Calls, Others
  <2>3. Followed \in Seq(C) /\ Inits(Followed) = {} /\ ToSet(Followed) = {Call("public", Nobody)}
    BY FollowAdded
  <2> HIDE DEF call, C
  <2>4. <<call>> \in Seq(C) /\ Inits(<<call>>) = {} /\ ToSet(<<call>>) = {call}
    BY <2>2 DEF Inits, ToSet
  <2>5. s \in Seq(C) /\ Inits(s) = {} /\ ToSet(s) = {Call("public", Nobody), call}
    <3> DEFINE g == <<call>>
    <3> HIDE DEF g, s
    <3>1. /\ Followed \o g \in Seq(C) /\ ToSet(Followed \o g) = ToSet(Followed) \union ToSet(g)
          /\ Inits(Followed \o g) = Inits(Followed)
      BY <2>3, <2>4, Appended DEF g
    <3> QED
      BY <2>3, <2>4, <3>1 DEF s, g
  <2>6. queue' = queue \o s
    BY <1>1, <2>1, <2>3, <2>4 DEF C
  <2>7. \A x \in ToSet(s) : x.k # "added"
    BY <2>2, <2>5, CallKinds
  <2>8. /\ outside' \in [camera : BOOLEAN, lookup : BOOLEAN, ends : Nat]
        /\ outside'.ends = outside.ends
    BY <2>1 DEF IInv, TypeInv
  <2> HIDE DEF s
  <2> QED
    BY <1>1, <2>1, <2>5, <2>6, <2>7, <2>8, TapKeeps DEF C
<1>3. ASSUME NEW who \in Person \union {Nobody}, CameraCloses(who) PROVE IInv'
  <2> DEFINE call == Call("scanned", who)
             s == <<call>>
  <2>1. /\ page' = page /\ queue' = Append(queue, call)
        /\ outside' = [outside EXCEPT !.camera = FALSE] /\ UNCHANGED <<stored, log, complete>>
    BY <1>3 DEF CameraCloses
  <2>2. page.boot # "off"
    BY <1>3 DEF CameraCloses, IInv, DataInv, StartInv
  <2>3. call \in Calls(Len(log)) /\ call.k = "scanned"
    BY DEF Call, Calls
  <2> HIDE DEF call
  <2>4. s \in Seq(Calls(Len(log))) /\ Inits(s) = {} /\ ToSet(s) = {call}
    BY <2>3 DEF Inits, ToSet
  <2>5. queue' = queue \o s
    BY <1>1, <2>1
  <2>6. /\ outside' \in [camera : BOOLEAN, lookup : BOOLEAN, ends : Nat]
        /\ outside'.ends = outside.ends
    BY <2>1 DEF IInv, TypeInv
  <2>7. \A x \in ToSet(s) : x.k # "added"
    BY <2>3, <2>4
  <2> HIDE DEF s
  <2> QED
    BY <1>1, <2>1, <2>2, <2>4, <2>5, <2>6, <2>7, TapKeeps
<1> QED
  BY <1>2, <1>3

\* The list of mini apps and the script of the app arrive.
LEMMA AppKeeps ==
  ASSUME IInv, FetchManifest \/ InstallApp \/ ScriptLoaded
  PROVE  IInv'
<1>1. PICK app \in {"fetched", "listed", "loaded"} : Displays([page EXCEPT !.app = app])
  BY DEF FetchManifest, InstallApp, ScriptLoaded
<1> DEFINE p == [page EXCEPT !.app = app]
<1>2. Proper(page)
  BY ProperPage
<1>3. /\ p \in Page /\ p.tremola = page.tremola /\ p.boot = page.boot
      /\ p.subject = page.subject /\ p.target = page.target /\ p.overlay = page.overlay
      /\ p.cur = page.cur /\ (AboutChat(p) <=> AboutChat(page))
  BY <1>2 DEF Proper, Page, AboutChat
<1> HIDE DEF p
<1>4. Redisplays(p, page)
  BY <1>2, <1>3 DEF Redisplays, Proper
<1> QED
  BY <1>1, <1>4, DisplaysKeeps DEF p

\* The page starts anew, and asks to be initialized when it is loaded.
LEMMA StartPageKeeps == ASSUME IInv, StartPage PROVE IInv'
<1>1. /\ page.boot = "off" /\ queue = << >> /\ page' = Blank("loading")
      /\ UNCHANGED <<stored, log, queue, outside, complete>>
  BY DEF StartPage, Alive, Displays, Becomes, IInv, DataInv, StartInv
<1>2. Proper(page') /\ page'.boot = "loading" /\ ~ Ready /\ ~ Ready'
  BY <1>1, BlankPage DEF Ready
<1>3. Inits(queue') = {} /\ ToSet(queue') = {}
  BY <1>1 DEF Inits, ToSet
<1>4. TypeInv'
  BY <1>1 DEF IInv, TypeInv
<1>5. StartInv'
  BY <1>1, <1>2, <1>3 DEF IInv, DataInv, StartInv
<1>6. PostsSaved'
  <2>1. PostsSaved /\ Saved' = Saved
    BY <1>1 DEF IInv, DataInv, Saved
  <2> QED
    BY <1>1, <1>2, <2>1 DEF PostsSaved
<1> QED
  BY <1>2, <1>3, <1>4, <1>5, <1>6
  DEF IInv, ScreenInv, DataInv, HiddenInv, PostsShown, AuthorsShown, AuthorsSaved

\* onload: the page asks to be initialized, for the first time.
LEMMA PageLoadedKeeps == ASSUME IInv, PageLoaded PROVE IInv'
<1> DEFINE call == Call("init", Nobody)
<1>1. /\ page.boot = "loading" /\ page' = [page EXCEPT !.boot = "loaded"]
      /\ queue' = queue \o <<call>> /\ UNCHANGED <<stored, log, outside, complete>>
  BY DEF PageLoaded, Asks, Becomes
<1>2. queue \in Seq(Calls(Len(log))) /\ Len(log) \in Nat
  BY DEF IInv, TypeInv
<1>3. call \in Calls(Len(log)) /\ call.k = "init"
  BY DEF Call, Calls
<1> HIDE DEF call
<1>4. queue' = Append(queue, call)
  BY <1>1, <1>2
<1>5. /\ queue' \in Seq(Calls(Len(log))) /\ ToSet(queue') = ToSet(queue) \union {call}
      /\ Inits(queue) = {} => \A i, j \in Inits(queue') : i = j
  BY <1>2, <1>3, <1>4, OneMore
<1>6. /\ Proper(page') /\ page'.boot = "loaded" /\ page'.subject = page.subject
      /\ ~ Ready /\ ~ Ready'
  BY <1>1, ProperPage DEF Proper, Page, AboutChat, Ready
<1>7. TypeInv'
  BY <1>1, <1>5 DEF IInv, TypeInv
<1>8. ScreenInv'
  BY <1>3, <1>5, <1>6 DEF IInv, ScreenInv
<1>9. StartInv'
  BY <1>1, <1>5, <1>6 DEF IInv, DataInv, StartInv
<1>10. PostsSaved'
  <2>1. PostsSaved /\ Saved' = Saved
    BY <1>1 DEF IInv, DataInv, Saved
  <2> QED
    BY <1>1, <1>5, <1>6, <2>1 DEF PostsSaved
<1> QED
  BY <1>6, <1>7, <1>8, <1>9, <1>10
  DEF IInv, DataInv, HiddenInv, PostsShown, AuthorsShown, AuthorsSaved

\* What the page had not saved is lost with it.
LEMMA EndPageKeeps == ASSUME IInv, EndPage PROVE IInv'
<1>1. /\ page' = Blank("off") /\ queue' = << >> /\ UNCHANGED <<stored, log>>
      /\ outside' = [camera |-> FALSE, lookup |-> FALSE, ends |-> outside.ends + 1]
      /\ complete' = (/\ complete
                      /\ \A i \in DOMAIN queue : queue[i].k # "post"
                      /\ \A t \in stored : \A c \in DOMAIN t.chats : Listed(t, c))
  BY DEF EndPage
<1>2. Proper(page') /\ page'.boot = "off" /\ ~ Ready'
  BY <1>1, BlankPage DEF Ready
<1>3. Inits(queue') = {} /\ ToSet(queue') = {}
  BY <1>1 DEF Inits, ToSet
<1>4. outside.ends \in Nat /\ complete' \in BOOLEAN /\ outside'.ends = outside.ends + 1
      /\ ~ outside'.camera /\ ~ outside'.lookup
  BY <1>1 DEF IInv, TypeInv
<1>5. TypeInv'
  <2> DEFINE C == Calls(Len(log'))
  <2>1. << >> \in Seq(C)
    OBVIOUS
  <2>2. outside' \in [camera : BOOLEAN, lookup : BOOLEAN, ends : Nat]
    BY <1>1, <1>4
  <2> HIDE DEF C
  <2>3. queue' \in Seq(C)
    BY <1>1, <2>1
  <2> QED
    BY <1>1, <1>4, <2>2, <2>3 DEF IInv, TypeInv, C
<1>6. StartInv'
  BY <1>1, <1>2, <1>3, <1>4 DEF StartInv
<1>7. PostsSaved'
  <2> SUFFICES ASSUME complete', NEW i \in DOMAIN log PROVE i \in Saved
    BY <1>1 DEF PostsSaved, Saved
  <2>1. complete /\ PostsSaved
    BY <1>1 DEF IInv, DataInv
  <2>2. PostCall(i) \notin ToSet(queue)
    BY <1>1, CallKinds DEF ToSet
  <2>3. \A t \in stored : \A c \in DOMAIN t.chats : Listed(t, c)
    BY <1>1
  <2> QED
    BY <2>1, <2>2, <2>3 DEF PostsSaved
<1> QED
  BY <1>2, <1>3, <1>5, <1>6, <1>7
  DEF IInv, ScreenInv, DataInv, HiddenInv, PostsShown, AuthorsShown, AuthorsSaved

-----------------------------------------------------------------------------
(* The specification keeps the invariant *)

\* The invariant holds before the app is started.
LEMMA InitInv == Init => IInv
<1> SUFFICES ASSUME Init PROVE IInv
  OBVIOUS
<1>1. /\ page = Blank("off") /\ stored = {} /\ log = << >> /\ queue = << >>
      /\ outside = [camera |-> FALSE, lookup |-> FALSE, ends |-> 0] /\ complete = TRUE
  BY DEF Init
<1>2. Proper(page) /\ page.boot = "off" /\ ~ Ready
  BY <1>1, BlankPage DEF Ready
<1>3. Inits(queue) = {} /\ ToSet(queue) = {} /\ DOMAIN log = {}
  BY <1>1 DEF Inits, ToSet
<1>4. TypeInv
  <2> DEFINE C == Calls(Len(log))
  <2>1. << >> \in Seq(C) /\ log \in Seq(Entry)
    BY <1>1
  <2> HIDE DEF C
  <2>2. queue \in Seq(C)
    BY <1>1, <2>1
  <2> QED
    BY <1>1, <2>1, <2>2 DEF TypeInv, C
<1> QED
  BY <1>1, <1>2, <1>3, <1>4
  DEF IInv, ScreenInv, DataInv, StartInv, HiddenInv, PostsShown, PostsSaved, AuthorsShown, AuthorsSaved

\* Every step keeps the invariant.
LEMMA NextKeeps == IInv /\ [Next]_vars => IInv'
<1> SUFFICES ASSUME IInv, [Next]_vars PROVE IInv'
  OBVIOUS
<1>1. CASE UNCHANGED vars
  BY <1>1 DEF vars, IInv, TypeInv, ScreenInv, DataInv, StartInv, HiddenInv, PostsShown, PostsSaved,
     AuthorsShown, AuthorsSaved, Ready, Chats, Saved, Authored
<1>2. CASE Tap
  BY <1>2, TapsKeep
<1>3. CASE BackPressed
  BY <1>3, ScreenTapsKeep
<1>4. CASE Run
  BY <1>4, RunKeeps
<1>5. CASE \E c \in Conversation : \E from \in c \ {Me} : Receive(c, from)
  BY <1>5, ReceiveKeeps
<1>6. CASE \/ \E who \in Others : LookupFound(who)
           \/ \E who \in Person \union {Nobody} : CameraCloses(who)
  BY <1>6, AnswersKeep
<1>7. CASE FetchManifest \/ InstallApp \/ ScriptLoaded
  BY <1>7, AppKeeps
<1>8. CASE StartPage \/ PageLoaded \/ EndPage
  BY <1>8, StartPageKeeps, PageLoadedKeeps, EndPageKeeps
<1> QED
  BY <1>1, <1>2, <1>3, <1>4, <1>5, <1>6, <1>7, <1>8 DEF Next

-----------------------------------------------------------------------------
(* What is asked and confirmed is about the person the page shows *)

\* What is displayed, and typed in, is about the person it was opened for.
Right(p) ==
  p.overlay = "details" \/ (p.overlay = "edit" /\ p.target = "contact") => p.asked = p.subject

\* Answers to taps that are on their way.
Waits(q) == {i \in DOMAIN q : q[i].k \in Waiting}

\* A user who waits for the answers has tapped only once.
AboutInv ==
  /\ Right(page)
  /\ \A i, j \in Waits(queue) : i = j
  /\ outside.camera => Ready /\ Waits(queue) = {}
  /\ page.boot \in {"off", "loading"} => Waits(queue) = {}
  /\ \A call \in ToSet(queue) : /\ call.k = "added" => call.who = page.subject
                                /\ call.k = "details" => page.overlay = "none"

\* Calls that come after those in q.
LEMMA WaitsAppended ==
  ASSUME NEW C, NEW q \in Seq(C), NEW s \in Seq(C)
  PROVE  /\ Waits(s) = {} => Waits(q \o s) = Waits(q)
         /\ Waits(q) = {} /\ Len(s) = 1 => \A i, j \in Waits(q \o s) : i = j
<1> DEFINE r == q \o s
<1>1. /\ Len(q) \in Nat /\ Len(s) \in Nat
      /\ DOMAIN r = 1 .. Len(q) + Len(s) /\ DOMAIN q = 1 .. Len(q) /\ DOMAIN s = 1 .. Len(s)
      /\ \A i \in DOMAIN q : r[i] = q[i]
      /\ \A i \in DOMAIN s : r[Len(q) + i] = s[i]
  OBVIOUS
<1> HIDE DEF r
<1>2. \A i \in DOMAIN r : i \in DOMAIN q \/ (i - Len(q) \in DOMAIN s /\ i = Len(q) + (i - Len(q)))
  BY <1>1
<1>3. \A i \in DOMAIN r : (i \in DOMAIN q /\ r[i] = q[i])
                          \/ (i - Len(q) \in DOMAIN s /\ r[i] = s[i - Len(q)])
  BY <1>1, <1>2
<1>4. \A i \in DOMAIN q : i \in DOMAIN r
  BY <1>1
<1>5. Waits(s) = {} => Waits(r) = Waits(q)
  BY <1>1, <1>3, <1>4 DEF Waits
<1>6. Waits(q) = {} /\ Len(s) = 1 => \A i \in Waits(r) : i = Len(q) + 1
  BY <1>1, <1>3 DEF Waits
<1> QED
  BY <1>5, <1>6 DEF r

\* When the first call is gone, the answer may be.
LEMMA WaitsPopped ==
  ASSUME NEW C, NEW q \in Seq(C), q # << >>
  PROVE  /\ Waits(q) = {} => Waits(Tail(q)) = {}
         /\ (\A i, j \in Waits(q) : i = j) =>
               /\ \A i, j \in Waits(Tail(q)) : i = j
               /\ Head(q).k \in Waiting => Waits(Tail(q)) = {}
<1> DEFINE r == Tail(q)
<1>1. /\ r \in Seq(C) /\ Head(q) = q[1] /\ Len(q) \in Nat /\ Len(q) >= 1
      /\ DOMAIN q = 1 .. Len(q) /\ DOMAIN r = 1 .. Len(q) - 1
      /\ \A i \in DOMAIN r : r[i] = q[i + 1]
  OBVIOUS
<1> HIDE DEF r
<1>2. /\ 1 \in DOMAIN q
      /\ \A i \in DOMAIN r : i \in Int /\ i + 1 \in DOMAIN q /\ i + 1 # 1
  BY <1>1
<1>3. \A i \in Waits(r) : i + 1 \in Waits(q) /\ i \in Int /\ i + 1 # 1
  BY <1>1, <1>2 DEF Waits
<1>4. q[1].k \in Waiting => 1 \in Waits(q)
  BY <1>2 DEF Waits
<1>5. ASSUME \A i, j \in Waits(q) : i = j
      PROVE  /\ \A i, j \in Waits(r) : i = j
             /\ q[1].k \in Waiting => Waits(r) = {}
  <2>1. ASSUME NEW i \in Waits(r), NEW j \in Waits(r) PROVE i = j
    BY <1>3, <1>5
  <2>2. ASSUME q[1].k \in Waiting, NEW i \in Waits(r) PROVE FALSE
    BY <1>3, <1>4, <1>5, <2>2
  <2> QED
    BY <2>1, <2>2
<1> QED
  BY <1>1, <1>3, <1>5 DEF r

\* When nobody waits for an answer, none is in the queue.
LEMMA NoneWaits ==
  ASSUME NEW q, Waits(q) = {}
  PROVE  \A call \in ToSet(q) : call.k \notin Waiting
BY DEF Waits, ToSet

\* What is about a person stays so when calls s come after those in r: a tap is
\* answered by one call, and everything else leaves the page as it is for the
\* answer.
LEMMA AboutMoves ==
  ASSUME AboutInv, Right(page'),
         NEW C, NEW r \in Seq(C), NEW s \in Seq(C), queue' = r \o s,
         ToSet(r) \subseteq ToSet(queue), \A i, j \in Waits(r) : i = j,
         \/ Waits(r) = {}
         \/ page'.subject = page.subject /\ (page.overlay = "none" => page'.overlay = "none"),
         Waits(s) = {} \/ (Waits(r) = {} /\ Len(s) = 1),
         \A call \in ToSet(s) : /\ call.k = "added" => call.who = page'.subject
                                /\ call.k = "details" => page'.overlay = "none",
         outside'.camera => Ready' /\ Waits(queue') = {},
         page'.boot \in {"off", "loading"} => Waits(queue') = {}
  PROVE  AboutInv'
<1>1. ToSet(queue') = ToSet(r) \union ToSet(s)
  BY Appended
<1>2. \A i, j \in Waits(queue') : i = j
  BY WaitsAppended
<1>3. \A call \in ToSet(r) : /\ call.k = "added" => call.who = page'.subject
                             /\ call.k = "details" => page'.overlay = "none"
  <2>1. CASE Waits(r) = {}
    BY <2>1, NoneWaits DEF Waiting
  <2>2. CASE page'.subject = page.subject /\ (page.overlay = "none" => page'.overlay = "none")
    BY <2>2 DEF AboutInv
  <2> QED
    BY <2>1, <2>2
<1> QED
  BY <1>1, <1>2, <1>3 DEF AboutInv

\* Page q is about the same as p.
Steady(q, p) ==
  /\ q.subject = p.subject /\ q.asked = p.asked
  /\ q.overlay = p.overlay /\ q.target = p.target /\ q.boot = p.boot

\* Page q may be about somebody else, but is right about that.
RightAfter(q, p) == Right(q) /\ q.boot = p.boot

\* What the functions of the page make of what it is about.
LEMMA RightPages ==
  ASSUME NEW p \in Page
  PROVE  /\ \A s \in Scenario : Steady(Show(p, s), p)
         /\ Steady(Members(p), p)
         /\ \A c \in SUBSET Person : Steady(LoadChat(p, c), p)
         /\ RightAfter(Closed(p), p) /\ Closed(p).overlay = "none" /\ Closed(p).subject = p.subject
         /\ \A o \in Overlay \ {"edit", "details"} : RightAfter(Over(p, o), p)
         /\ RightAfter(Edit(p, "pub"), p) /\ RightAfter(Edit(p, "conversation"), p)
         /\ \A who \in Person : RightAfter(EditContact(p, who), p) /\ RightAfter(Scanned(p, who), p)
<1>1. ASSUME NEW s \in Scenario PROVE Steady(Show(p, s), p)
  BY DEF Show, Steady, Page
<1>2. Steady(Members(p), p)
  BY DEF Members, Show, Steady, Page
<1>3. ASSUME NEW c \in SUBSET Person PROVE Steady(LoadChat(p, c), p)
  BY DEF LoadChat, Show, Steady, Page
<1>4. RightAfter(Closed(p), p) /\ Closed(p).overlay = "none" /\ Closed(p).subject = p.subject
  BY DEF Closed, Right, RightAfter, Page
<1>5. ASSUME NEW o \in Overlay \ {"edit", "details"} PROVE RightAfter(Over(p, o), p)
  BY DEF Over, Right, RightAfter, Page
<1>6. RightAfter(Edit(p, "pub"), p) /\ RightAfter(Edit(p, "conversation"), p)
  BY DEF Edit, Over, Closed, Right, RightAfter, Page
<1>7. ASSUME NEW who \in Person PROVE RightAfter(EditContact(p, who), p)
  BY DEF EditContact, Edit, Over, Closed, Right, RightAfter, Page
<1> QED
  BY <1>1, <1>2, <1>3, <1>4, <1>5, <1>6, <1>7 DEF Scanned

\* A page that stays about the same stays right.
LEMMA SteadyRight ==
  ASSUME NEW p, NEW q, Right(p), Steady(q, p)
  PROVE  RightAfter(q, p)
BY DEF Right, RightAfter, Steady

\* Going back closes the overlay or leaves it.
LEMMA BackAbout ==
  ASSUME NEW p \in Page
  PROVE  Steady(Back(p), p) \/ Back(p) = Closed(p)
<1>1. p.prev \in Scenario /\ "miniapps" \in Scenario /\ "chats" \in Scenario
  BY DEF Page, Main, Scenario
<1>2. /\ Steady(Show(p, p.prev), p) /\ Steady(Show(p, "miniapps"), p) /\ Steady(Show(p, "chats"), p)
      /\ Steady(p, p)
  BY <1>1, RightPages DEF Steady
<1>3. Steady([p EXCEPT !.view = FALSE], p)
  BY DEF Steady, Page
<1> QED
  BY <1>2, <1>3, BackCases

\* A tap of a user who waits for the answers.
LEMMA TapAbout ==
  ASSUME IInv, AboutInv, Hurried = FALSE, Attentive, RightAfter(page', page),
         NEW C, queue \in Seq(C), NEW s \in Seq(C), queue' = queue \o s,
         Waits(s) = {} \/ Len(s) = 1,
         \A call \in ToSet(s) : /\ call.k = "added" => call.who = page'.subject
                                /\ call.k = "details" => page'.overlay = "none",
         outside'.camera => outside.camera \/ Waits(s) = {}
  PROVE  AboutInv'
<1>1. Ready /\ ~ outside.camera /\ Waits(queue) = {}
  BY DEF Attentive, Waits
<1>2. Ready' /\ page'.boot = "ready" /\ Right(page')
  BY <1>1 DEF Ready, RightAfter
<1>3. outside'.camera => Waits(queue') = {}
  BY <1>1, WaitsAppended
<1> QED
  BY <1>1, <1>2, <1>3, AboutMoves

\* A tap that asks nothing.
LEMMA DisplaysAbout ==
  ASSUME IInv, AboutInv, Hurried = FALSE, Attentive, RightAfter(page', page),
         UNCHANGED <<queue, outside>>
  PROVE  AboutInv'
<1> DEFINE C == Calls(Len(log))
           s == << >>
<1>1. queue \in Seq(C) /\ s \in Seq(C) /\ queue' = queue \o s /\ ToSet(s) = {} /\ Waits(s) = {}
  BY DEF IInv, TypeInv, ToSet, Waits
<1> HIDE DEF C, s
<1> QED
  BY <1>1, TapAbout

\* What happens without a tap leaves what the page is about.
LEMMA QuietAbout ==
  ASSUME IInv, AboutInv, RightAfter(page', page),
         page'.subject = page.subject, page.overlay = "none" => page'.overlay = "none",
         NEW C, NEW r \in Seq(C), r = queue \/ (queue # << >> /\ r = Tail(queue)),
         queue \in Seq(C), NEW s \in Seq(C), queue' = r \o s, Waits(s) = {},
         \A call \in ToSet(s) : call.k \notin {"added", "details"},
         outside'.camera => outside.camera
  PROVE  AboutInv'
<1>1. /\ ToSet(r) \subseteq ToSet(queue)
      /\ \A i, j \in Waits(r) : i = j
      /\ Waits(queue) = {} => Waits(r) = {}
  <2>1. CASE r = queue
    BY <2>1 DEF AboutInv
  <2>2. CASE queue # << >> /\ r = Tail(queue)
    <3>1. ToSet(Tail(queue)) \subseteq ToSet(queue)
      BY <2>2, Popped
    <3>2. /\ Waits(queue) = {} => Waits(Tail(queue)) = {}
          /\ \A i, j \in Waits(Tail(queue)) : i = j
      BY <2>2, WaitsPopped DEF AboutInv
    <3> QED
      BY <2>2, <3>1, <3>2
  <2> QED
    BY <2>1, <2>2
<1>2. Waits(queue') = Waits(r)
  BY WaitsAppended
<1>3. Right(page') /\ page'.boot = page.boot
  BY DEF RightAfter
<1>4. /\ outside'.camera => Ready' /\ Waits(queue') = {}
      /\ page'.boot \in {"off", "loading"} => Waits(queue') = {}
  BY <1>1, <1>2, <1>3 DEF AboutInv, Ready
<1> QED
  BY <1>1, <1>3, <1>4, AboutMoves

\* The answer to a tap changes what the page is about.
LEMMA AnswerAbout ==
  ASSUME IInv, AboutInv, Right(page'), page'.boot = "ready", queue # << >>,
         Head(queue).k \in Waiting,
         NEW s \in Seq(Calls(Len(log))), queue' = Tail(queue) \o s, ToSet(s) \subseteq {Call("public", Nobody)},
         outside' = outside
  PROVE  AboutInv'
<1> DEFINE C == Calls(Len(log))
           r == Tail(queue)
<1>1. queue \in Seq(C)
  BY DEF IInv, TypeInv
<1>2. r \in Seq(C) /\ ToSet(r) \subseteq ToSet(queue)
  BY <1>1, Popped
<1>3. Waits(r) = {} /\ Waits(queue) # {}
  <2>1. Waits(r) = {}
    BY <1>1, WaitsPopped DEF AboutInv
  <2>2. 1 \in DOMAIN queue /\ Head(queue) = queue[1]
    BY <1>1
  <2> QED
    BY <2>1, <2>2 DEF Waits
<1>4. \A call \in ToSet(s) : call.k = "public"
  BY CallKinds
<1>5. Waits(s) = {}
  BY <1>4 DEF Waits, ToSet, Waiting
<1>6. ~ outside'.camera
  BY <1>3 DEF AboutInv
<1> HIDE DEF C, r
<1> QED
  BY <1>2, <1>3, <1>4, <1>5, <1>6, AboutMoves DEF r, C

\* Nobody waits for the event of a follow message.
LEMMA FollowedQuiet ==
  /\ Followed \in Seq(Calls(Len(log))) /\ Waits(Followed) = {}
  /\ \A call \in ToSet(Followed) : call.k = "public"
<1>1. Followed \in Seq(Calls(Len(log))) /\ ToSet(Followed) = {Call("public", Nobody)}
  BY FollowAdded
<1>2. \A call \in ToSet(Followed) : call.k = "public"
  BY <1>1, CallKinds
<1> QED
  BY <1>1, <1>2 DEF Waits, Waiting, ToSet

\* menu_forget_conv closes the menu, or does nothing.
LEMMA ForgetAbout ==
  ASSUME Forget, page \in Page, page.tremola \in Tremola, Right(page)
  PROVE  UNCHANGED <<queue, outside>> /\ RightAfter(page', page)
<1> DEFINE c == page.cur
           f == [page EXCEPT !.tremola.chats[c].forgotten = ~ @]
           p == Closed(f)
<1>1. CASE UNCHANGED vars
  BY <1>1 DEF vars, RightAfter, Right
<1>2. CASE ~ UNCHANGED vars
  <2>1. UNCHANGED <<queue, outside>> /\ page' \in {Show(p, "chats"), LoadChat(p, c)}
    BY <1>2 DEF Forget
  <2>2. p.overlay = "none" /\ p.boot = page.boot /\ "overlay" \in DOMAIN p /\ "boot" \in DOMAIN p
    BY DEF Closed, Page
  <2> HIDE DEF p
  <2> QED
    BY <2>1, <2>2 DEF Show, LoadChat, RightAfter, Right
<1> QED
  BY <1>1, <1>2

\* Taps that change what the page displays.
LEMMA ScreenTapsAbout ==
  ASSUME IInv, AboutInv, Hurried = FALSE,
         \/ \E s \in Main : Footer(s)
         \/ OpenMenu \/ TapBeside \/ ShowQR \/ Plus \/ Launch \/ EnterView
         \/ \E c \in Conversation : OpenChat(c) \/ NewConversation(c)
         \/ \E e \in UNION {Menu(s) : s \in Scenario} : MenuEntry(e)
         \/ \E x \in Person : TypeIdentity(x)
         \/ \E x \in Others : PeerDetails(x)
  PROVE  AboutInv'
<1>1. /\ page \in Page /\ page.tremola \in Tremola /\ Right(page)
      /\ Steady(page, page) /\ RightAfter(page, page)
  BY ProperPage DEF AboutInv, Steady, RightAfter
<1>2. /\ RightAfter(Closed(page), page) /\ Closed(page) \in Page
      /\ "settings" \in Scenario /\ "chats" \in Scenario
  BY <1>1, RightPages, ProperPage, ClosedPage DEF Redisplays, Proper, Scenario, Main
<1>3. Attentive /\ UNCHANGED <<queue, outside>> /\ RightAfter(page', page)
  <2>1. ASSUME NEW s \in Main, Footer(s) PROVE Attentive /\ page' = Show(page, s) /\ UNCHANGED <<queue, outside>>
    BY <2>1 DEF Footer, Free, Displays, Becomes
  <2>2. ASSUME NEW s \in Main, Footer(s)
        PROVE  Attentive /\ UNCHANGED <<queue, outside>> /\ RightAfter(page', page)
    BY <1>1, <2>1, <2>2, RightPages, SteadyRight DEF Scenario
  <2>3. CASE OpenMenu \/ Launch \/ EnterView
    <3>1. Attentive /\ UNCHANGED <<queue, outside>>
      BY <2>3 DEF OpenMenu, Launch, EnterView, At, Free, Displays
    <3>2. Steady(page', page)
      BY <1>1, <2>3 DEF OpenMenu, Launch, EnterView, Displays, Becomes, Steady, Page
    <3> QED
      BY <1>1, <3>1, <3>2, SteadyRight
  <2>4. CASE TapBeside
    BY <1>2, <2>4 DEF TapBeside, Displays, Becomes
  <2>5. CASE ShowQR
    <3>1. Attentive /\ UNCHANGED <<queue, outside>> /\ page' = Over(page, "qr")
      BY <2>5 DEF ShowQR, Free, Displays, Becomes
    <3> QED
      BY <1>1, <3>1, RightPages DEF Overlay
  <2>6. CASE Plus
    <3>1. /\ Attentive /\ UNCHANGED <<queue, outside>>
          /\ page' \in {Members(page), Over(page, "new_contact"), Edit(page, "pub")}
      BY <2>6 DEF Plus, At, Free, Displays, Becomes
    <3>2. RightAfter(Members(page), page)
      BY <1>1, RightPages, SteadyRight
    <3>3. RightAfter(Over(page, "new_contact"), page) /\ RightAfter(Edit(page, "pub"), page)
      BY <1>1, RightPages DEF Overlay
    <3> QED
      BY <3>1, <3>2, <3>3
  <2>7. ASSUME NEW c \in Conversation, OpenChat(c)
        PROVE  Attentive /\ UNCHANGED <<queue, outside>> /\ RightAfter(page', page)
    <3>1. Attentive /\ UNCHANGED <<queue, outside>> /\ page' = LoadChat(page, c)
      BY <2>7 DEF OpenChat, At, Free, Displays, Keeps, Saves, Becomes
    <3>2. Steady(LoadChat(page, c), page)
      BY <1>1, RightPages DEF Conversation
    <3> QED
      BY <1>1, <3>1, <3>2, SteadyRight
  <2>8. ASSUME NEW c \in Conversation, NewConversation(c)
        PROVE  Attentive /\ UNCHANGED <<queue, outside>> /\ RightAfter(page', page)
    <3>1. Attentive /\ UNCHANGED <<queue, outside>>
      BY <2>8 DEF NewConversation, At, Free, Displays
    <3>2. \/ page' = [page EXCEPT !.tremola.chats[c].forgotten = FALSE]
          \/ page' = [Edit(Show([page EXCEPT !.tremola.chats = With(@, c, Empty)], "chats"),
                           "conversation") EXCEPT !.cur = c]
      BY <2>8 DEF NewConversation, Displays, Becomes
    <3>3. CASE page' = [page EXCEPT !.tremola.chats[c].forgotten = FALSE]
      <4>1. Steady(page', page)
        BY <1>1, <3>3 DEF Steady, Page
      <4> QED
        BY <1>1, <3>1, <4>1, SteadyRight
    <3>4. CASE page' = [Edit(Show([page EXCEPT !.tremola.chats = With(@, c, Empty)], "chats"),
                             "conversation") EXCEPT !.cur = c]
      <4>1. page'.overlay = "edit" /\ page'.target = "conversation" /\ page'.boot = page.boot
        BY <1>1, <3>4 DEF Edit, Over, Closed, Show, Page
      <4> QED
        BY <3>1, <4>1 DEF RightAfter, Right
    <3> QED
      BY <3>2, <3>3, <3>4
  <2>9. ASSUME NEW e, MenuEntry(e)
        PROVE  Attentive /\ UNCHANGED <<queue, outside>> /\ RightAfter(page', page)
    <3>1. Attentive /\ e \in {"conversation", "contact", "rename", "forget", "settings", "about"}
      BY <2>9 DEF MenuEntry, Menu
    <3>2. CASE e = "forget"
      BY <1>1, <2>9, <3>1, <3>2, ForgetAbout DEF MenuEntry
    <3>3. CASE e # "forget"
      <4>1. /\ UNCHANGED <<queue, outside>>
            /\ page' \in {Members(page), Over(page, "new_contact"), Edit(page, "conversation"),
                          Show(Closed(page), "settings"), Over(Closed(page), "about")}
        BY <2>9, <3>1, <3>3 DEF MenuEntry, Displays, Becomes
      <4>2. RightAfter(Members(page), page)
        BY <1>1, RightPages, SteadyRight
      <4>3. RightAfter(Over(page, "new_contact"), page) /\ RightAfter(Edit(page, "conversation"), page)
        BY <1>1, RightPages DEF Overlay
      <4>4. RightAfter(Over(Closed(page), "about"), page)
        BY <1>2, RightPages DEF Overlay, RightAfter
      <4>5. RightAfter(Show(Closed(page), "settings"), page)
        <5>1. Steady(Show(Closed(page), "settings"), Closed(page)) /\ Right(Closed(page))
          BY <1>2, RightPages DEF RightAfter
        <5> QED
          BY <1>2, <5>1, SteadyRight DEF RightAfter
      <4> QED
        BY <3>1, <4>1, <4>2, <4>3, <4>4, <4>5
    <3> QED
      BY <3>2, <3>3
  <2>10. ASSUME NEW x \in Person, TypeIdentity(x)
         PROVE  Attentive /\ UNCHANGED <<queue, outside>> /\ RightAfter(page', page)
    BY <1>1, <2>10, RightPages DEF TypeIdentity, Displays, Becomes
  <2>11. ASSUME NEW x \in Others, PeerDetails(x)
         PROVE  Attentive /\ UNCHANGED <<queue, outside>> /\ RightAfter(page', page)
    BY <1>1, <2>11, RightPages DEF PeerDetails, Others, At, Free, Displays, Becomes
  <2> QED
    BY <2>2, <2>3, <2>4, <2>5, <2>6, <2>7, <2>8, <2>9, <2>10, <2>11
<1> QED
  BY <1>3, DisplaysAbout

\* Taps that ask the native part, or post to the page.
LEMMA AskingTapsAbout ==
  ASSUME IInv, AboutInv, Hurried = FALSE,
         \/ \E empty \in BOOLEAN : EditConfirmed(empty) \/ ChangeContact(empty)
         \/ \E x \in Person : ShowDetails(x)
         \/ Post \/ LookUp \/ Reset \/ Restream \/ ExportSecret
  PROVE  AboutInv'
<1> DEFINE C == Calls(Len(log))
<1>1. /\ page \in Page /\ Proper(page) /\ Right(page)
      /\ RightAfter(page, page) /\ RightAfter(Closed(page), page)
      /\ Closed(page).subject = page.subject /\ Closed(page).overlay = "none"
  BY ProperPage, RightPages DEF AboutInv, RightAfter
<1>2. queue \in Seq(C) /\ log \in Seq(Entry)
  BY DEF IInv, TypeInv
<1>3. "chats" \in Scenario /\ RightAfter(Show(page, "chats"), page)
  BY <1>1, RightPages, SteadyRight DEF Scenario, Main
<1> HIDE DEF C
<1>4. ASSUME NEW empty \in BOOLEAN, EditConfirmed(empty) PROVE AboutInv'
  <2>1. Attentive /\ page.target \in {"conversation", "pub", "contact"}
    BY <1>1, <1>4 DEF EditConfirmed, Proper, Page
  <2>2. CASE page.target \in {"conversation", "pub"}
    <3>1. page' = Closed(page) /\ UNCHANGED <<queue, outside>>
      BY <1>4, <2>2 DEF EditConfirmed, Keeps, Displays, Saves, Becomes
    <3> QED
      BY <1>1, <2>1, <3>1, DisplaysAbout
  <2>3. CASE page.target = "contact" /\ empty
    <3> DEFINE who == page.subject
               s == Answers("added", {who})
    <3>1. page' = Closed(page) /\ queue' = queue \o s /\ outside' = outside
      BY <1>4, <2>3 DEF EditConfirmed, Asks, Becomes
    <3>2. who \in Person
      BY <1>1, <2>3 DEF Proper, Page
    <3> HIDE DEF who
    <3>3. s \in Seq(C) /\ ToSet(s) = {Call("added", who)} /\ Len(s) = 1
      BY <3>2, AskedOne DEF C
    <3> HIDE DEF s
    <3>4. \A call \in ToSet(s) : call.k = "added" /\ call.who = page'.subject
      BY <1>1, <3>1, <3>3 DEF Call, who
    <3> QED
      BY <1>1, <1>2, <2>1, <3>1, <3>3, <3>4, TapAbout
  <2>4. CASE page.target = "contact" /\ ~ empty
    <3> DEFINE who == page.subject
               p == WithContact(page, who)
    <3>1. page' = Closed(p) /\ queue' = queue \o Followed /\ outside' = outside
      BY <1>4, <2>4 DEF EditConfirmed, Saves
    <3>2. who \in Person
      BY <1>1, <2>4 DEF Proper, Page
    <3>3. p \in Page /\ p.boot = page.boot
      BY <1>1, <3>2, ContactPage DEF Proper
    <3> HIDE DEF p
    <3>4. RightAfter(page', page)
      BY <3>1, <3>3, RightPages DEF RightAfter
    <3> QED
      BY <1>2, <2>1, <3>1, <3>4, FollowedQuiet, TapAbout DEF C
  <2> QED
    BY <2>1, <2>2, <2>3, <2>4
<1>5. ASSUME NEW empty \in BOOLEAN, ChangeContact(empty) PROVE AboutInv'
  <2>1. Attentive /\ page.subject \in Person
    BY <1>1, <1>5, TremolaFields DEF ChangeContact, Contacts, Page
  <2>2. CASE empty
    <3> DEFINE who == page.subject
               s == Answers("aliased", {who})
    <3>1. page' = page /\ queue' = queue \o s /\ outside' = outside
      BY <1>5, <2>2 DEF ChangeContact, Asks, Becomes
    <3>2. who \in Person
      BY <2>1
    <3> HIDE DEF who
    <3>3. s \in Seq(C) /\ ToSet(s) = {Call("aliased", who)} /\ Len(s) = 1
      BY <3>2, AskedOne DEF C
    <3> HIDE DEF s
    <3>4. \A call \in ToSet(s) : call.k = "aliased"
      BY <3>3, CallKinds
    <3> QED
      BY <1>1, <1>2, <2>1, <3>1, <3>3, <3>4, TapAbout
  <2>3. CASE ~ empty
    <3>1. page' = Closed(page) /\ UNCHANGED <<queue, outside>>
      BY <1>5, <2>3 DEF ChangeContact, Keeps, Saves
    <3> QED
      BY <1>1, <2>1, <3>1, DisplaysAbout
  <2> QED
    BY <2>2, <2>3
<1>6. ASSUME NEW x \in Person, ShowDetails(x) PROVE AboutInv'
  <2> DEFINE s == Answers("details", {x})
  <2>1. /\ Attentive /\ page.overlay = "none"
        /\ page' = page /\ queue' = queue \o s /\ outside' = outside
    BY <1>6 DEF ShowDetails, At, Free, Asks, Becomes
  <2>2. s \in Seq(C) /\ ToSet(s) = {Call("details", x)} /\ Len(s) = 1
    BY AskedOne DEF C
  <2> HIDE DEF s
  <2>3. \A call \in ToSet(s) : call.k = "details"
    BY <2>2, CallKinds
  <2> QED
    BY <1>1, <1>2, <2>1, <2>2, <2>3, TapAbout
<1>7. CASE Post
  <2> DEFINE call == PostCall(Len(log) + 1)
             D == Calls(Len(log) + 1)
             s == <<call>>
  <2>1. Attentive /\ queue' = Append(queue, call) /\ UNCHANGED <<page, outside>>
    BY <1>7 DEF Post, At, Free
  <2>2. call \in D /\ call.k = "post"
    BY <1>2 DEF PostCall, Calls
  <2>3. queue \in Seq(D)
    <3>1. C \subseteq D
      BY <1>2 DEF Calls, C
    <3> HIDE DEF D
    <3> QED
      BY <1>2, <3>1, WiderSeq
  <2> HIDE DEF call, D
  <2>4. s \in Seq(D) /\ queue' = queue \o s /\ Len(s) = 1 /\ ToSet(s) = {call} /\ Waits(s) = {}
    BY <2>1, <2>2, <2>3 DEF ToSet, Waits, Waiting
  <2> HIDE DEF s
  <2> QED
    BY <1>1, <2>1, <2>2, <2>3, <2>4, TapAbout
<1>8. CASE LookUp
  <2> DEFINE s == << >>
  <2>1. /\ Attentive /\ page' = Closed(page) /\ queue' = queue
    BY <1>8 DEF LookUp, Becomes
  <2>2. s \in Seq(C) /\ queue' = queue \o s /\ ToSet(s) = {} /\ Waits(s) = {}
    BY <1>2, <2>1 DEF ToSet, Waits
  <2> HIDE DEF s
  <2> QED
    BY <1>1, <1>2, <2>1, <2>2, TapAbout
<1>9. CASE Reset
  <2> DEFINE q == Show(page, "chats")
             call == Call("init", Nobody)
             s == <<call>>
  <2>1. /\ Attentive /\ page' = [q EXCEPT !.tremola = Fresh]
        /\ queue' = Append(queue, call) /\ outside' = outside
    BY <1>9 DEF Reset, At, Free, Saves
  <2>2. call \in C /\ call.k = "init"
    BY DEF Call, Calls, C
  <2>3. q \in Page
    BY <1>1, <1>3, ShowFields
  <2> HIDE DEF q, call
  <2>4. RightAfter(page', page)
    <3>1. Steady(page', q)
      BY <2>1, <2>3 DEF Steady, Page
    <3> QED
      BY <1>3, <3>1 DEF RightAfter, Right, Steady, q
  <2>5. s \in Seq(C) /\ queue' = queue \o s /\ Len(s) = 1 /\ ToSet(s) = {call}
    BY <1>2, <2>1, <2>2 DEF ToSet
  <2> HIDE DEF s
  <2> QED
    BY <1>2, <2>1, <2>2, <2>4, <2>5, TapAbout
<1>10. CASE Restream
  <2> DEFINE s == [i \in DOMAIN log |-> PostCall(i)]
  <2>1. /\ Attentive /\ page' = Show(page, "chats") /\ queue' = queue \o s /\ outside' = outside
    BY <1>10 DEF Restream, At, Free, Becomes
  <2>2. s \in Seq(C) /\ (\A call \in ToSet(s) : call.k = "post") /\ Waits(s) = {}
    <3>1. DOMAIN log = 1 .. Len(log) /\ Len(log) \in Nat
      BY <1>2
    <3>2. \A i \in DOMAIN log : PostCall(i) \in C
      BY <3>1 DEF PostCall, Calls, C
    <3>3. s \in [1 .. Len(log) -> C]
      BY <3>1, <3>2
    <3>4. s \in Seq(C)
      BY <3>1, <3>3
    <3> QED
      BY <3>4, CallKinds DEF ToSet, Waits, Waiting
  <2> HIDE DEF s
  <2> QED
    BY <1>2, <1>3, <2>1, <2>2, TapAbout
<1>11. CASE ExportSecret
  <2> DEFINE call == Call("secret", Nobody)
             s == <<call>>
  <2>1. Attentive /\ page' = page /\ queue' = queue \o s /\ outside' = outside
    BY <1>11 DEF ExportSecret, At, Free, Asks, Becomes
  <2>2. call \in C /\ call.k = "secret"
    BY DEF Call, Calls, C
  <2> HIDE DEF call
  <2>3. s \in Seq(C) /\ Len(s) = 1 /\ ToSet(s) = {call}
    BY <2>2 DEF ToSet
  <2> HIDE DEF s
  <2> QED
    BY <1>1, <1>2, <2>1, <2>2, <2>3, TapAbout
<1> QED
  BY <1>4, <1>5, <1>6, <1>7, <1>8, <1>9, <1>10, <1>11

\* Calls that say something about a person, or close what is open.
LEMMA RunAbout == ASSUME IInv, AboutInv, Run PROVE AboutInv'
<1> DEFINE call == Head(queue)
           rest == Tail(queue)
           C == Calls(Len(log))
           none == << >>
<1>1. Alive /\ queue # << >> /\ UNCHANGED <<log, outside>>
  BY DEF Run
<1>2. call.k \in {"known", "added", "found", "details", "public", "aliased", "secret", "init",
                  "scanned", "post"}
  BY <1>1, FirstCall DEF Calls
<1>3. queue \in Seq(C) /\ rest \in Seq(C)
  BY <1>1 DEF IInv, TypeInv
<1>4. /\ none \in Seq(C) /\ Waits(none) = {} /\ ToSet(none) = {}
      /\ queue' = rest => queue' = rest \o none
  BY <1>3 DEF Waits, ToSet
<1>5. /\ page \in Page /\ Proper(page) /\ page.tremola \in Tremola /\ Right(page)
      /\ Steady(page, page) /\ RightAfter(page, page) /\ RightAfter(Closed(page), page)
  BY ProperPage, RightPages DEF AboutInv, Steady, RightAfter
<1> HIDE DEF none
<1>6. ASSUME queue' = rest, RightAfter(page', page), page'.subject = page.subject,
             page.overlay = "none" => page'.overlay = "none"
      PROVE  AboutInv'
  <2> HIDE DEF C
  <2> QED
    BY <1>1, <1>3, <1>4, <1>6, QuietAbout
<1>7. ASSUME queue' = rest, Right(page'), page'.boot = "ready", call.k \in Waiting
      PROVE  AboutInv'
  BY <1>1, <1>4, <1>7, AnswerAbout
<1>8. CASE call.k = "init"
  <2> DEFINE q == Closed(page)
             p == Show(q, "chats")
  <2>1. Initialize(rest)
    BY <1>8 DEF Run
  <2>2. queue' = rest /\ \E t : page' = [p EXCEPT !.tremola = t, !.boot = "ready"]
    BY <2>1 DEF Initialize, Saves
  <2>3. q \in Page /\ q.overlay = "none" /\ "chats" \in Scenario
    BY <1>5, ClosedPage DEF Redisplays, Proper, Scenario, Main
  <2> HIDE DEF q
  <2>4. p \in Page /\ p.overlay = "none"
    BY <2>3, ShowFields
  <2> HIDE DEF p
  <2>5. page'.overlay = "none" /\ page'.boot = "ready"
    BY <2>2, <2>4 DEF Page
  <2> QED
    BY <1>7, <1>8, <2>2, <2>5 DEF Right, Waiting
<1>9. CASE call.k # "init" /\ ~ Ready
  <2>1. queue' = rest /\ page' = page
    BY <1>9 DEF Run
  <2> QED
    BY <1>5, <1>6, <2>1
<1>10. CASE call.k = "post" /\ Ready
  <2> DEFINE i == call.post
             p == WithPost(page, i)
             c == log[i].to
             s == Answers("known", Strangers(page, c))
  <2>1. NewEvent(i, rest)
    BY <1>10 DEF Run
  <2>2. queue' = rest \o s /\ (page' = p \/ page' = LoadChat(p, c))
    BY <2>1 DEF NewEvent, SavesPost, Saves
  <2>3. i \in DOMAIN log /\ log[i] \in Entry
    BY <1>1, <1>10, FirstCall DEF IInv, TypeInv
  <2>4. c \in SUBSET Person
    BY <2>3 DEF Entry, Conversation
  <2> HIDE DEF i, c
  <2>5. p \in Page /\ Steady(p, page)
    <3>1. p \in Page
      BY <2>3, PostPage DEF Proper
    <3>2. Steady(p, page)
      BY <1>5 DEF WithPost, Steady, Page
    <3> QED
      BY <3>1, <3>2
  <2> HIDE DEF p
  <2>6. Steady(page', page)
    BY <2>2, <2>4, <2>5, RightPages DEF Steady
  <2>7. s \in Seq(C) /\ (\A x \in ToSet(s) : x.k = "known") /\ Waits(s) = {}
    <3> DEFINE people == Strangers(page, c)
               A == [k : {"known"}, who : people]
    <3>1. people \in SUBSET Person
      BY <2>4 DEF Strangers
    <3> HIDE DEF people
    <3>2. s \in Seq(A) /\ ToSet(s) = {Call("known", x) : x \in people}
      BY <3>1, AnswersQueued DEF people
    <3>3. A \subseteq C
      BY <3>1 DEF Calls
    <3> HIDE DEF A, C, s
    <3>4. s \in Seq(C)
      BY <3>2, <3>3, WiderSeq
    <3>5. \A x \in ToSet(s) : x.k = "known"
      BY <3>2, CallKinds
    <3> QED
      BY <3>4, <3>5 DEF Waits, ToSet, Waiting
  <2> HIDE DEF s, C
  <2> QED
    BY <1>1, <1>3, <1>5, <2>2, <2>6, <2>7, SteadyRight, QuietAbout DEF Steady
<1>11. CASE call.k = "public" /\ Ready
  <2>1. queue' = rest /\ page' = page
    BY <1>11 DEF Run, PublicEvent, Saves
  <2> QED
    BY <1>5, <1>6, <2>1
<1>12. CASE call.k = "known" /\ Ready
  <2>1. queue' = rest /\ page' = [page EXCEPT !.tremola.contacts = @ \union {call.who}]
    BY <1>12 DEF Run, Known, Becomes
  <2>2. Steady(page', page)
    BY <1>5, <2>1 DEF Steady, Page
  <2> QED
    BY <1>5, <1>6, <2>1, <2>2, SteadyRight DEF Steady
<1>13. CASE call.k \in {"added", "found"} /\ Ready
  <2> DEFINE who == IF call.k = "added" THEN page.subject ELSE call.who
             p == WithContact(page, who)
  <2>1. \/ queue' = rest \o Followed /\ call.k = "added"
        \/ queue' = rest /\ call.k = "found"
    BY <1>13 DEF Run, Added, Found
  <2>2. page' = Closed(p)
    BY <1>13 DEF Run, Added, Found, Saves
  <2>3. who \in Person
    <3>1. call.k = "added" => page.subject # Nobody /\ page.subject \in Person \union {Nobody}
      BY <1>1, <1>5, FirstCall DEF IInv, ScreenInv, Page
    <3>2. call.k # "added" => call.who \in Person
      BY <1>1, <1>13, FirstCall
    <3> QED
      BY <3>1, <3>2
  <2> HIDE DEF who
  <2>4. p \in Page /\ p.boot = page.boot /\ p.subject = page.subject
    BY <1>5, <2>3, ContactPage DEF Proper
  <2> HIDE DEF p
  <2>5. RightAfter(page', page) /\ page'.subject = page.subject /\ page'.overlay = "none"
    BY <2>2, <2>4, RightPages DEF RightAfter
  <2>6. CASE queue' = rest /\ call.k = "found"
    BY <1>6, <2>5, <2>6
  <2>7. CASE queue' = rest \o Followed /\ call.k = "added"
    <3>1. Right(page') /\ page'.boot = "ready" /\ call.k \in Waiting
      BY <1>13, <2>5, <2>7 DEF RightAfter, Ready, Waiting
    <3> QED
      BY <1>1, <2>7, <3>1, FollowAdded, AnswerAbout
  <2> QED
    BY <2>1, <2>6, <2>7
<1>14. CASE call.k = "details" /\ Ready
  <2>1. Details(call.who, rest)
    BY <1>14 DEF Run
  <2>2. page.overlay = "none"
    BY <1>1, <1>14, FirstCall DEF AboutInv
  <2> DEFINE who == call.who
             a == [Over(page, "details") EXCEPT !.subject = who, !.asked = who]
             b == [page EXCEPT !.subject = who]
  <2>3. queue' = rest /\ page' \in {a, b}
    BY <2>1 DEF Details, Becomes
  <2> HIDE DEF who
  <2>4. Right(a) /\ a.boot = page.boot
    BY <1>5 DEF Right, Over, Page
  <2>5. Right(b) /\ b.boot = page.boot
    BY <1>5, <2>2 DEF Right, Page
  <2> HIDE DEF a, b
  <2> QED
    BY <1>7, <1>14, <2>3, <2>4, <2>5 DEF Ready, Waiting
<1>15. CASE call.k \in {"aliased", "scanned", "secret"} /\ Ready
  <2>1. queue' = rest
    BY <1>15 DEF Run, Aliased, ScanResult, ShowSecret
  <2>2. RightAfter(page', page)
    <3>1. CASE call.k = "aliased"
      BY <1>5, <1>15, <3>1 DEF Run, Aliased, Saves
    <3>2. CASE call.k = "scanned"
      <4>1. page' = IF call.who = Nobody THEN page ELSE Scanned(page, call.who)
        BY <1>15, <3>2 DEF Run, ScanResult, Becomes
      <4>2. call.who \in Person \union {Nobody}
        BY <1>1, <3>2, FirstCall
      <4>3. call.who # Nobody => RightAfter(Scanned(page, call.who), page)
        BY <1>5, <4>2, RightPages
      <4> QED
        BY <1>5, <4>1, <4>3
    <3>3. CASE call.k = "secret"
      <4> DEFINE p == Show(page, page.prev)
      <4>1. page' = Over(p, "qr")
        BY <1>15, <3>3 DEF Run, ShowSecret, Becomes
      <4>2. page.prev \in Scenario /\ "qr" \in Overlay \ {"edit", "details"}
        BY <1>5 DEF Page, Main, Scenario, Overlay
      <4>3. p \in Page /\ p.boot = page.boot
        BY <1>5, <4>2, ShowFields
      <4> HIDE DEF p
      <4> QED
        BY <4>1, <4>2, <4>3, RightPages DEF RightAfter
    <3> QED
      BY <1>15, <3>1, <3>2, <3>3
  <2> QED
    BY <1>7, <1>15, <2>1, <2>2 DEF RightAfter, Ready, Waiting
<1> QED
  BY <1>2, <1>8, <1>9, <1>10, <1>11, <1>12, <1>13, <1>14, <1>15

\* The network, the camera, the life of the page.
LEMMA RestAbout ==
  ASSUME IInv, AboutInv,
         \/ BackPressed
         \/ \E c \in Conversation : \E from \in c \ {Me} : Receive(c, from)
         \/ \E who \in Others : LookupFound(who)
         \/ \E who \in Person \union {Nobody} : CameraCloses(who)
         \/ StartPage \/ PageLoaded \/ FetchManifest \/ InstallApp \/ ScriptLoaded \/ EndPage
  PROVE  AboutInv'
<1> DEFINE C == Calls(Len(log))
           none == << >>
<1>1. /\ page \in Page /\ Right(page) /\ Steady(page, page) /\ RightAfter(page, page)
      /\ RightAfter(Closed(page), page)
      /\ Closed(page).subject = page.subject /\ Closed(page).overlay = "none"
  BY ProperPage, RightPages DEF AboutInv, Steady, RightAfter
<1>2. queue \in Seq(C) /\ log \in Seq(Entry)
  BY DEF IInv, TypeInv
<1>3. none \in Seq(C) /\ Waits(none) = {} /\ ToSet(none) = {} /\ queue = queue \o none
  BY <1>2 DEF Waits, ToSet
<1> HIDE DEF none, C
<1>4. ASSUME UNCHANGED <<queue, outside>>, RightAfter(page', page), page'.subject = page.subject,
             page.overlay = "none" => page'.overlay = "none"
      PROVE  AboutInv'
  BY <1>2, <1>3, <1>4, QuietAbout
<1>5. CASE BackPressed
  <2>1. page' = Back(page) /\ UNCHANGED <<queue, outside>>
    BY <1>5 DEF BackPressed, Displays, Becomes
  <2>2. Steady(page', page) \/ page' = Closed(page)
    BY <1>1, <2>1, BackAbout
  <2>3. CASE Steady(page', page)
    BY <1>1, <1>4, <2>1, <2>3, SteadyRight DEF Steady
  <2>4. CASE page' = Closed(page)
    BY <1>1, <1>4, <2>1, <2>4
  <2> QED
    BY <2>2, <2>3, <2>4
<1>6. ASSUME NEW c \in Conversation, NEW from \in c \ {Me}, Receive(c, from) PROVE AboutInv'
  <2> DEFINE call == PostCall(Len(log) + 1)
             D == Calls(Len(log) + 1)
             s == <<call>>
  <2>1. /\ UNCHANGED <<page, outside>>
        /\ queue' = queue \/ queue' = Append(queue, call)
    BY <1>6 DEF Receive
  <2>2. call \in D /\ call.k = "post"
    BY <1>2 DEF PostCall, Calls
  <2>3. queue \in Seq(D)
    <3>1. C \subseteq D
      BY <1>2 DEF Calls, C
    <3> HIDE DEF D
    <3> QED
      BY <1>2, <3>1, WiderSeq
  <2> HIDE DEF call, D
  <2>4. CASE queue' = queue
    BY <1>1, <1>4, <2>1, <2>4
  <2>5. CASE queue' = Append(queue, call)
    <3>1. s \in Seq(D) /\ queue' = queue \o s /\ ToSet(s) = {call} /\ Waits(s) = {}
      BY <2>2, <2>3, <2>5 DEF ToSet, Waits, Waiting
    <3> HIDE DEF s
    <3> QED
      BY <1>1, <2>1, <2>2, <2>3, <3>1, QuietAbout
  <2> QED
    BY <2>1, <2>4, <2>5
<1>7. ASSUME NEW who \in Others, LookupFound(who) PROVE AboutInv'
  <2> DEFINE call == Call("found", who)
             f == Followed
             g == <<call>>
             s == f \o g
  <2>1. /\ page' = page /\ queue' = queue \o f \o g /\ outside' = [outside EXCEPT !.lookup = FALSE]
    BY <1>7 DEF LookupFound
  <2>2. f \in Seq(C) /\ Waits(f) = {} /\ \A x \in ToSet(f) : x.k = "public"
    BY FollowedQuiet DEF C
  <2>3. call \in C /\ call.k = "found"
    BY DEF Call, Calls, Others, C
  <2> HIDE DEF call, f
  <2>4. g \in Seq(C) /\ Waits(g) = {} /\ ToSet(g) = {call}
    BY <2>3 DEF ToSet, Waits, Waiting
  <2>5. outside'.camera = outside.camera
    BY <2>1 DEF IInv, TypeInv
  <2> HIDE DEF g
  <2>6. s \in Seq(C) /\ ToSet(s) = ToSet(f) \union ToSet(g) /\ Waits(s) = {}
    BY <2>2, <2>4, Appended, WaitsAppended
  <2>7. queue' = queue \o s
    BY <1>2, <2>1, <2>2, <2>4
  <2>8. \A x \in ToSet(s) : x.k \notin {"added", "details"}
    BY <2>2, <2>3, <2>4, <2>6
  <2> HIDE DEF s
  <2> QED
    BY <1>1, <1>2, <2>1, <2>5, <2>6, <2>7, <2>8, QuietAbout
<1>8. ASSUME NEW who \in Person \union {Nobody}, CameraCloses(who) PROVE AboutInv'
  <2> DEFINE call == Call("scanned", who)
             s == <<call>>
  <2>1. /\ page' = page /\ queue' = Append(queue, call) /\ ~ outside'.camera /\ outside.camera
    BY <1>8 DEF CameraCloses, IInv, TypeInv
  <2>2. Ready /\ Waits(queue) = {}
    BY <2>1 DEF AboutInv
  <2>3. call \in C /\ call.k = "scanned"
    BY DEF Call, Calls, C
  <2> HIDE DEF call
  <2>4. s \in Seq(C) /\ queue' = queue \o s /\ Len(s) = 1 /\ ToSet(s) = {call}
    BY <1>2, <2>1, <2>3 DEF ToSet
  <2>5. page'.boot = "ready" /\ Right(page')
    BY <1>1, <2>1, <2>2 DEF Ready
  <2> HIDE DEF s
  <2> QED
    BY <1>2, <2>1, <2>2, <2>3, <2>4, <2>5, AboutMoves
<1>9. CASE FetchManifest \/ InstallApp \/ ScriptLoaded
  <2>1. UNCHANGED <<queue, outside>> /\ Steady(page', page)
    BY <1>1, <1>9 DEF FetchManifest, InstallApp, ScriptLoaded, Displays, Becomes, Steady, Page
  <2> QED
    BY <1>1, <1>4, <2>1, SteadyRight DEF Steady
<1>10. CASE StartPage
  <2>1. /\ page' = Blank("loading") /\ queue' = << >> /\ ~ outside'.camera
    BY <1>10 DEF StartPage, Alive, Displays, Becomes, IInv, DataInv, StartInv
  <2>2. page'.overlay = "none" /\ Waits(queue') = {} /\ ToSet(queue') = {}
    BY <2>1, BlankPage DEF Waits, ToSet
  <2> QED
    BY <2>1, <2>2 DEF AboutInv, Right
<1>11. CASE PageLoaded
  <2> DEFINE call == Call("init", Nobody)
             s == <<call>>
  <2>1. /\ page.boot = "loading" /\ page' = [page EXCEPT !.boot = "loaded"]
        /\ queue' = queue \o s /\ outside' = outside
    BY <1>11 DEF PageLoaded, Asks, Becomes
  <2>2. ~ Ready /\ Waits(queue) = {} /\ ~ outside'.camera
    BY <2>1 DEF AboutInv, Ready
  <2>3. call \in C /\ call.k = "init"
    BY DEF Call, Calls, C
  <2>4. page'.boot = "loaded" /\ Right(page')
    BY <1>1, <2>1 DEF Right, Page
  <2> HIDE DEF call
  <2>5. s \in Seq(C) /\ Len(s) = 1 /\ ToSet(s) = {call}
    BY <2>3 DEF ToSet
  <2> HIDE DEF s
  <2> QED
    BY <1>2, <2>1, <2>2, <2>3, <2>4, <2>5, AboutMoves
<1>12. CASE EndPage
  <2>1. /\ page' = Blank("off") /\ queue' = << >> /\ ~ outside'.camera
    BY <1>12 DEF EndPage
  <2>2. page'.overlay = "none" /\ Waits(queue') = {} /\ ToSet(queue') = {}
    BY <2>1, BlankPage DEF Waits, ToSet
  <2> QED
    BY <2>1, <2>2 DEF AboutInv, Right
<1> QED
  BY <1>5, <1>6, <1>7, <1>8, <1>9, <1>10, <1>11, <1>12

\* Before the app is started, nothing is about anybody.
LEMMA InitAbout == Init => AboutInv
<1> SUFFICES ASSUME Init PROVE AboutInv
  OBVIOUS
<1>1. page = Blank("off") /\ queue = << >> /\ ~ outside.camera
  BY DEF Init
<1>2. page.overlay = "none" /\ Waits(queue) = {} /\ ToSet(queue) = {}
  BY <1>1, BlankPage DEF Waits, ToSet
<1> QED
  BY <1>1, <1>2 DEF AboutInv, Right

\* Every step of a user who waits keeps what is displayed right.
LEMMA NextAbout ==
  ASSUME Hurried = FALSE
  PROVE  IInv /\ AboutInv /\ [Next]_vars => AboutInv'
<1> SUFFICES ASSUME IInv, AboutInv, [Next]_vars PROVE AboutInv'
  OBVIOUS
<1>1. CASE UNCHANGED vars
  BY <1>1 DEF vars, AboutInv, Ready
<1>2. CASE Tap
  BY <1>2, ScreenTapsAbout, AskingTapsAbout DEF Tap
<1>3. CASE Run
  BY <1>3, RunAbout
<1> QED
  BY <1>1, <1>2, <1>3, RestAbout DEF Next

\* The key for back, on every screen, with and without overlay.
LEMMA ShorterBack ==
  ASSUME NEW p \in Page, Distance(p) > 0
  PROVE  Distance(Back(p)) < Distance(p)
<1> DEFINE Depth(q) == CASE q.scenario = "chats" -> 0
                         [] q.scenario \in Main \ {"chats"} -> 1
                         [] q.scenario = "customApp" -> IF q.view THEN 3 ELSE 2
                         [] OTHER -> 2
<1>1. \A q : Distance(q) = (IF q.overlay = "none" THEN 0 ELSE 1) + Depth(q)
  BY DEF Distance
<1>2. \A q : Depth(q) \in {0, 1, 2, 3}
  BY DEF Main
<1>3. \A q : q.scenario \in Main => Depth(q) \in {0, 1} /\ (q.scenario = "chats" => Depth(q) = 0)
  BY DEF Main
<1>4. \A q : q.scenario = "customApp" => Depth(q) = IF q.view THEN 3 ELSE 2
  BY DEF Main
<1>5. \A q : q.scenario \notin Main \union {"customApp"} => Depth(q) = 2
  BY DEF Main
<1>6. \A q : q.scenario \in Main \ {"chats"} => Depth(q) = 1
  BY DEF Main
<1>7. \A q, r : q.scenario = r.scenario /\ q.view = r.view => Depth(q) = Depth(r)
  OBVIOUS
<1>8. ASSUME NEW s \in Main PROVE Show(p, s).overlay = p.overlay /\ Show(p, s).scenario = s
  BY ShowFields DEF Scenario
<1> HIDE DEF Depth
<1>9. CASE p.overlay # "none"
  <2>1. Back(p) = Closed(p)
    BY <1>9 DEF Back
  <2>2. Closed(p).overlay = "none" /\ Closed(p).scenario = p.scenario /\ Closed(p).view = p.view
    BY DEF Closed, Page
  <2>3. Depth(Closed(p)) = Depth(p)
    BY <1>7, <2>2
  <2> QED
    BY <1>1, <1>2, <1>9, <2>1, <2>2, <2>3
<1>10. CASE p.overlay = "none" /\ p.scenario = "customApp"
  <2>1. CASE p.app = "loaded" /\ p.view
    <3> DEFINE q == [p EXCEPT !.view = FALSE]
    <3>1. Back(p) = CASE p.overlay # "none" -> Closed(p)
                      [] p.overlay = "none" /\ p.scenario = "customApp" ->
                           (IF p.app = "loaded" /\ p.view THEN q ELSE Show(p, "miniapps"))
                      [] p.overlay = "none" /\ p.scenario = "chats" -> p
                      [] p.overlay = "none" /\ p.scenario \in Main \ {"chats"} -> Show(p, "chats")
                      [] OTHER -> Show(p, p.prev)
      BY DEF Back
    <3>2. q.overlay = "none" /\ q.scenario = "customApp" /\ q.view = FALSE
      BY <1>10 DEF Page
    <3> HIDE DEF q
    <3>3. Back(p) = q
      BY <1>10, <2>1, <3>1 DEF Main
    <3> QED
      BY <1>1, <1>4, <1>10, <2>1, <3>2, <3>3
  <2>2. CASE ~ (p.app = "loaded" /\ p.view)
    <3>1. Back(p) = Show(p, "miniapps") /\ "miniapps" \in Main
      BY <1>10, <2>2 DEF Back, Main
    <3> QED
      BY <1>1, <1>3, <1>4, <1>8, <1>10, <3>1
  <2> QED
    BY <2>1, <2>2
<1>11. CASE p.overlay = "none" /\ p.scenario = "chats"
  BY <1>1, <1>3, <1>11 DEF Main
<1>12. CASE p.overlay = "none" /\ p.scenario \in Main \ {"chats"}
  <2>1. Back(p) = Show(p, "chats") /\ "chats" \in Main
    BY <1>12 DEF Back, Main
  <2> QED
    BY <1>1, <1>3, <1>6, <1>8, <1>12, <2>1
<1>13. CASE p.overlay = "none" /\ p.scenario \notin Main \union {"customApp"}
  <2>1. Back(p) = Show(p, p.prev) /\ p.prev \in Main
    BY <1>13 DEF Back, Main, Page
  <2> QED
    BY <1>1, <1>3, <1>5, <1>8, <1>13, <2>1
<1> QED
  BY <1>9, <1>10, <1>11, <1>12, <1>13

-----------------------------------------------------------------------------
(* The theorems *)

\* What the page shows and keeps, what it saved, and what is on its way.
THEOREM Inductive == Spec => []IInv
BY InitInv, NextKeeps, PTL DEF Spec

\* The page keeps its types, the own notes stay, and the conversation that is
\* displayed, or that the menu or a question is about, exists (TypeOK).
THEOREM TypeCorrect == Spec => []TypeOK
<1>1. IInv => TypeOK
  <2> SUFFICES ASSUME IInv PROVE TypeOK
    OBVIOUS
  <2>1. Proper(page) /\ page \in Page /\ page.tremola \in Tremola
    BY ProperPage
  <2>2. /\ Contacts \in SUBSET Person /\ Me \in Contacts
        /\ DOMAIN Chats \in SUBSET Conversation /\ {Me} \in DOMAIN Chats
    BY <2>1, TremolaFields DEF Contacts, Chats
  <2> QED
    BY <2>1, <2>2 DEF TypeOK, Page, Proper, AboutChat, Chats
<1> QED
  BY <1>1, Inductive, PTL

\* No private post of the log gets lost between the native part (b2f_new_event), the
\* page and its storage (persist, b2f_initialize), through restarts, resets and
\* streaming the log again: it is displayed or on its way (Complete).
THEOREM NothingLost == Spec => []Complete
<1>1. IInv => Complete
  <2> SUFFICES ASSUME IInv, complete, Ready, NEW i \in DOMAIN log
               PROVE  i \in Shown \/ PostCall(i) \in ToSet(queue)
    BY DEF Complete
  <2>1. PostsShown
    BY DEF IInv, DataInv
  <2> QED
    BY <2>1, LaterWaits DEF PostsShown, Shown, ShownIn, Chats
<1> QED
  BY <1>1, Inductive, PTL

\* Until the page first ends, the author of every displayed post is a contact, or
\* b2f_new_event_back is on its way for them: load_post_item does not fail for good
\* (Openable).
THEOREM EveryChatOpens == Spec => []Openable
<1>1. IInv => Openable
  <2> SUFFICES ASSUME IInv, Ready, outside.ends = 0, NEW i \in Shown
               PROVE  log[i].from \in Contacts \/ Call("known", log[i].from) \in ToSet(queue)
    BY DEF Openable
  <2>1. AuthorsShown
    BY DEF IInv, DataInv
  <2> QED
    BY <2>1, LaterWaits DEF AuthorsShown, Authored, Shown, ShownIn, Chats, Contacts
<1> QED
  BY <1>1, Inductive, PTL

\* onBackPressed leads out of every screen, overlay and mini app (BackLeadsOut).
THEOREM WayBack == Spec => []BackLeadsOut
<1>1. IInv => BackLeadsOut
  <2> SUFFICES ASSUME IInv, Distance(page) > 0 PROVE Distance(Back(page)) < Distance(page)
    BY DEF BackLeadsOut
  <2>1. page \in Page
    BY ProperPage
  <2> QED
    BY <2>1, ShorterBack
<1> QED
  BY <1>1, Inductive, PTL

\* When the user waits for the answers of the native part, what is confirmed is about
\* the person the page shows, whatever the network does in between
\* (AboutWhomItSays); edit_confirmed_back adds the one who was asked about.
THEOREM AboutWhom ==
  ASSUME Hurried = FALSE
  PROVE  Spec => []AboutWhomItSays
<1>1. Init => AboutInv
  BY InitAbout
<1>2. IInv /\ AboutInv /\ [Next]_vars => AboutInv'
  BY NextAbout
<1>3. IInv /\ AboutInv => AboutWhomItSays
  BY DEF AboutInv, AboutWhomItSays, Right, ToSet
<1> QED
  BY <1>1, <1>2, <1>3, Inductive, PTL DEF Spec
=============================================================================
