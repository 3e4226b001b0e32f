------------------------- MODULE BoardCanvas_proofs -------------------------
(***************************************************************************)
(* Theorems about BoardCanvas.tla for any fingers, sizes, scales, widths   *)
(* of the frame and tools.  TypeInv, BoardInv and SightInv hold whatever   *)
(* the user does: what is dragged is always clamped, so that it fits       *)
(* whenever the drag ends; the edit view is fitted before it is seen.      *)
(* HandInv is a second invariant, for a user who lifts the fingers from    *)
(* the canvas to tap a button (TwoHands = FALSE): what is drawn or dragged *)
(* belongs to the finger that came first.                                  *)
(***************************************************************************)
EXTENDS BoardCanvas, FiniteSetTheorems, TLAPS

-----------------------------------------------------------------------------
(* The inductive invariants *)

\* A stretch has its ends in order.  A text may reach over the end of the board.
Draft == {d \in Drafts : d.lo <= d.hi}

Object ==
  {o \in [k : {"s", "t"}, lo : Position, hi : Int, xf : Transformation] :
     o.lo <= o.hi /\ (o.k = "s" => o.hi \in Position)}

UI ==
  [tool : Tools \cup {"select"}, draft : Draft \cup {None}, drag : Drags \cup {None},
   sel : Nat \cup {None}, pointer : Finger \cup {None}, text : Position \cup {None},
   edit : SUBSET Finger, nav : BOOLEAN, count : 0 .. Cardinality(Finger)]

ObjectMap == UNION {[D -> Object] : D \in SUBSET Nat}

ViewType ==
  {v \in [on : BOOLEAN, pointers : SUBSET Finger, gesture : {"none", "pan", "pinch"},
          scale : Nat, x : Int] : v.gesture = Gesture(v.pointers)}

EditView == [scale : Nat, x : Int, width : Nat]

Hand == [touch : SUBSET Finger, primary : Finger \cup {None}, late : SUBSET Finger]

Board ==
  [stage : {"closed", "loading", "open", "resuming", "away"}, objects : ObjectMap, made : Nat]

TypeInv ==
  /\ ui \in UI
  /\ view \in ViewType
  /\ editView \in EditView
  /\ hand \in Hand
  /\ board \in Board
  /\ frame \in Frames

\* An object with transformation xf is on the board, unless it is a text.
Fits(o, xf) == o.k = "s" => 0 <= Box(o, xf).lo /\ Box(o, xf).hi <= Width

\* The objects are on the board, and so is the one that is dragged.
GoodObjects(objects, made) ==
  /\ DOMAIN objects \subseteq 1 .. made
  /\ \A id \in DOMAIN objects : Fits(objects[id], objects[id].xf)

GoodDrag(u, objects, made) ==
  u.drag # None =>
    /\ u.drag.target <= made
    /\ u.drag.target \in DOMAIN objects => Fits(objects[u.drag.target], u.drag.xf)

BoardInv == GoodObjects(board.objects, board.made) /\ GoodDrag(ui, board.objects, board.made)

\* The board, at this scale, fills a frame of this width or is in its middle.
Placed(x, width, scale) == x = ClampAxis(x, width, Width * scale)

Fitted == editView.width = frame /\ Placed(editView.x, frame, editView.scale)

SightInv ==
  /\ view.on => editView.width # 0 /\ Placed(view.x, frame, view.scale)
  /\ board.stage \in {"open", "resuming", "away"} => view.on \/ Fitted
  /\ board.stage \in {"closed", "away"} => ~ view.on

IInv == TypeInv /\ BoardInv /\ SightInv

\* One gesture at a time: a drawing, a drag or a place for text has a finger,
\* and navigation takes it away.
Neat(u) ==
  /\ u.nav => u.edit # {} /\ u.pointer = None
  /\ u.pointer = None => u.draft = None /\ u.drag = None /\ u.text = None
  /\ u.text # None => u.draft = None /\ u.drag = None
  /\ u.drag # None => u.draft = None

\* The fingers of gestures are on the canvas, and the drawing one came first.
HandInv ==
  /\ Neat(ui)
  /\ ui.edit \subseteq hand.touch /\ view.pointers \subseteq hand.touch
  /\ ui.pointer # None => ui.pointer \in hand.touch /\ hand.primary = ui.pointer
  /\ board.stage \in {"closed", "away"} => hand.touch = {}

-----------------------------------------------------------------------------
(* Numbers *)

LEMMA MinOfTwo ==
  ASSUME NEW a \in Int, NEW b \in Int
  PROVE  Min({a, b}) = IF a <= b THEN a ELSE b
<1> DEFINE m == IF a <= b THEN a ELSE b
<1>1. m \in {a, b} /\ \A y \in {a, b} : m =< y
  OBVIOUS
<1>2. \A x \in {a, b} : (\A y \in {a, b} : x =< y) => x = m
  OBVIOUS
<1> QED
  BY <1>1, <1>2 DEF Min

LEMMA MaxOfTwo ==
  ASSUME NEW a \in Int, NEW b \in Int
  PROVE  Max({a, b}) = IF a >= b THEN a ELSE b
<1> DEFINE m == IF a >= b THEN a ELSE b
<1>1. m \in {a, b} /\ \A y \in {a, b} : m >= y
  OBVIOUS
<1>2. \A x \in {a, b} : (\A y \in {a, b} : x >= y) => x = m
  OBVIOUS
<1> QED
  BY <1>1, <1>2 DEF Max

\* What is clamped is an integer, and stays where it is when clamped again.
LEMMA ClampedOnce ==
  ASSUME NEW x \in Int, NEW v \in Nat, NEW c \in Nat
  PROVE  /\ ClampAxis(x, v, c) \in Int
         /\ ClampAxis(ClampAxis(x, v, c), v, c) = ClampAxis(x, v, c)
<1>1. CASE c <= v
  <2>1. v - c \in Nat /\ (v - c) \div 2 \in Int
    BY <1>1
  <2> QED
    BY <1>1, <2>1 DEF ClampAxis
<1>2. CASE ~ (c <= v)
  <2> DEFINE y == IF x <= 0 THEN x ELSE 0
             z == IF v - c >= y THEN v - c ELSE y
  <2>1. y \in Int /\ z \in Int /\ v - c \in Int /\ z <= 0
    BY <1>2
  <2>2. Min({0, x}) = y /\ Max({v - c, y}) = z
    BY <2>1, MinOfTwo, MaxOfTwo
  <2>3. ClampAxis(x, v, c) = z
    BY <1>2, <2>2 DEF ClampAxis
  <2>4. Min({0, z}) = z /\ Max({v - c, z}) = z
    BY <2>1, MinOfTwo, MaxOfTwo
  <2>5. ClampAxis(z, v, c) = z
    BY <1>2, <2>4 DEF ClampAxis
  <2> QED
    BY <2>1, <2>3, <2>5
<1> QED
  BY <1>1, <1>2

\* A stretch enlarged as far as its length goes into the width is not wider.
LEMMA Enlarged ==
  ASSUME NEW w \in Nat \ {0}, NEW sc \in Nat, sc <= Width \div w
  PROVE  w * sc <= Width
<1>1. Width \in Nat /\ Width \div w \in Nat /\ w * (Width \div w) <= Width
  BY SizeAssumption
<1>2. \A a, b \in Nat : a <= b => w * a <= w * b
  OBVIOUS
<1>3. w * sc <= w * (Width \div w)
  BY <1>1, <1>2
<1>4. w * sc \in Nat /\ w * (Width \div w) \in Nat
  BY <1>1
<1> QED
  BY <1>1, <1>3, <1>4

\* A stretch from lo with length p that is shifted to the right until it starts on
\* the board and then to the left until it ends there.
LEMMA Shifted ==
  ASSUME NEW lo \in Int, NEW p \in Int, NEW dx \in Int, 0 <= p, p <= Width,
         NEW right, right = dx - Min({0, lo + dx}),
         NEW new, new = right - Max({0, lo + p + right - Width})
  PROVE  0 <= lo + new /\ lo + p + new <= Width
<1>1. Width \in Nat /\ lo + dx \in Int
  BY SizeAssumption
<1>2. right = IF 0 <= lo + dx THEN dx ELSE dx - (lo + dx)
  BY <1>1, MinOfTwo
<1>3. right \in Int /\ lo + right >= 0
  BY <1>2
<1>4. lo + p + right - Width \in Int
  BY <1>1, <1>3
<1>5. new = IF 0 >= lo + p + right - Width THEN right ELSE right - (lo + p + right - Width)
  BY <1>3, <1>4, MaxOfTwo
<1> QED
  BY <1>1, <1>3, <1>5

LEMMA ShiftedType ==
  ASSUME NEW a \in Int, NEW b \in Int, NEW c \in Int
  PROVE  a - Min({0, b}) \in Int /\ a - Max({0, c}) \in Int
BY MinOfTwo, MaxOfTwo

\* The largest scale is one, and what has it goes into the width of the board.
LEMMA LargestScaleType ==
  ASSUME NEW o \in Object
  PROVE  /\ LargestScale(o) \in Nat
         /\ \A sc \in Nat : o.k = "s" /\ sc <= LargestScale(o) => (o.hi - o.lo) * sc <= Width
<1> DEFINE w == o.hi - o.lo
           big == Width \div w
<1>1. w \in Nat /\ MaxScale \in Nat /\ Width \in Nat /\ (o.hi = o.lo <=> w = 0)
  BY SizeAssumption DEF Object, Position
<1>2. CASE w = 0
  <2>1. LargestScale(o) = MaxScale
    BY <1>1, <1>2 DEF LargestScale
  <2>2. \A sc \in Nat : w * sc = 0
    BY <1>2
  <2> QED
    BY <1>1, <2>1, <2>2
<1>3. CASE w # 0
  <2>1. big \in Nat
    BY <1>1, <1>3
  <2> HIDE DEF big
  <2>2. LargestScale(o) = IF MaxScale <= big THEN MaxScale ELSE big
    BY <1>1, <1>3, <2>1, MinOfTwo DEF LargestScale, big
  <2>3. LargestScale(o) \in Nat /\ LargestScale(o) <= big
    BY <1>1, <2>1, <2>2
  <2>4. ASSUME NEW sc \in Nat, sc <= LargestScale(o)
        PROVE  sc <= big
    BY <2>1, <2>3, <2>4
  <2>5. \A sc \in Nat : sc <= LargestScale(o) => w * sc <= Width
    BY <1>1, <1>3, <2>4, Enlarged DEF big
  <2> QED
    BY <2>3, <2>5
<1> QED
  BY <1>2, <1>3

\* A stretch that is on the board is not wider.
LEMMA FittingIsNarrow ==
  ASSUME NEW o \in Object, NEW xf \in Transformation, Fits(o, xf), o.k = "s"
  PROVE  (o.hi - o.lo) * xf.sc <= Width
<1> DEFINE p == (o.hi - o.lo) * xf.sc
<1>1. p \in Int /\ o.lo \in Int /\ xf.dx \in Int /\ Width \in Int
  BY SizeAssumption DEF Object, Transformation, Position
<1>2. 0 <= o.lo + xf.dx /\ o.lo + p + xf.dx <= Width
  BY DEF Fits, Box
<1> HIDE DEF p
<1>3. p <= Width
  BY <1>1, <1>2
<1> QED
  BY <1>3 DEF p

LEMMA BoxType ==
  ASSUME NEW o \in Object, NEW xf \in Transformation
  PROVE  Box(o, xf).lo \in Int /\ Box(o, xf).hi \in Int
BY DEF Object, Transformation, Position, Box

\* cb_clamp_drag_transform leaves the object on the board, if it is not wider, and
\* changes nothing else.
LEMMA DragClamped ==
  ASSUME board.objects \in ObjectMap, NEW d \in Drags,
         d.mode = "move" /\ d.target \in DOMAIN Objects /\ Objects[d.target].k = "s" =>
           (Objects[d.target].hi - Objects[d.target].lo) * d.xf.sc <= Width
  PROVE  /\ ClampDrag(d) \in Drags
         /\ ClampDrag(d).target = d.target
         /\ d.target \in DOMAIN Objects => Fits(Objects[d.target], ClampDrag(d).xf)
<1>1. CASE d.target \notin DOMAIN Objects
  BY <1>1 DEF ClampDrag
<1>2. CASE d.target \in DOMAIN Objects
  <2> DEFINE o == Objects[d.target]
             sc == IF d.mode = "resize" THEN Min({d.xf.sc, LargestScale(o)}) ELSE d.xf.sc
             xf == [d.xf EXCEPT !.sc = sc]
             right == xf.dx - Min({0, Box(o, xf).lo})
             xr == [xf EXCEPT !.dx = right]
             over == Box(o, xr).hi - Width
             new == right - Max({0, over})
             p == (o.hi - o.lo) * sc
  <2>1. o \in Object
    BY <1>2 DEF Objects, ObjectMap
  <2>2. ClampDrag(d) = [d EXCEPT !.xf = [dx |-> new, sc |-> sc]]
    BY <1>2 DEF ClampDrag
  <2> HIDE DEF o
  <2>3. d.xf \in Transformation /\ d.xf.sc \in Nat /\ d.xf.dx \in Int
    BY DEF Drags, Transformation
  <2>4. LargestScale(o) \in Nat
    BY <2>1, LargestScaleType
  <2>7. sc \in Nat /\ (o.k = "s" => p <= Width)
    <3>1. CASE d.mode = "resize"
      <4>1. sc = IF d.xf.sc <= LargestScale(o) THEN d.xf.sc ELSE LargestScale(o)
        BY <2>3, <2>4, <3>1, MinOfTwo
      <4> HIDE DEF sc
      <4>2. sc \in Nat /\ sc <= LargestScale(o)
        BY <2>3, <2>4, <4>1
      <4> QED
        BY <2>1, <4>2, LargestScaleType DEF p
    <3>2. CASE d.mode # "resize"
      <4>1. sc = d.xf.sc /\ d.mode = "move"
        BY <3>2 DEF Drags
      <4> QED
        BY <1>2, <2>3, <4>1 DEF o
    <3> QED
      BY <3>1, <3>2
  <2> HIDE DEF sc
  <2>8. xf = [dx |-> d.xf.dx, sc |-> sc]
    BY <2>3 DEF Transformation
  <2>9. o.lo \in Nat /\ o.lo <= Width /\ o.hi \in Int /\ o.lo <= o.hi /\ Width \in Nat
    BY <2>1, SizeAssumption DEF Object, Position
  <2>10. p \in Nat
    <3>1. o.hi - o.lo \in Nat
      BY <2>9
    <3> QED
      BY <2>7, <3>1
  <2>11. Box(o, xf).lo = o.lo + d.xf.dx /\ xf.dx = d.xf.dx
    BY <2>8 DEF Box
  <2>12. right = d.xf.dx - Min({0, o.lo + d.xf.dx})
    BY <2>11
  <2> HIDE DEF right, xf
  <2>13. xr = [dx |-> right, sc |-> sc]
    BY <2>8
  <2> HIDE DEF xr
  <2>14. right \in Int
    <3>1. o.lo + d.xf.dx \in Int
      BY <2>3, <2>9
    <3> QED
      BY <2>3, <2>12, <3>1, ShiftedType
  <2>15. over = o.lo + p + right - Width /\ over \in Int
    <3>1. xr.sc = sc /\ xr.dx = right
      BY <2>13
    <3>2. Box(o, xr).hi = o.lo + (o.hi - o.lo) * xr.sc + xr.dx
      BY DEF Box
    <3>3. Box(o, xr).hi = o.lo + p + right
      BY <3>1, <3>2
    <3> HIDE DEF p
    <3> QED
      BY <2>9, <2>10, <2>14, <3>3
  <2> HIDE DEF over, p
  <2>16. new \in Int
    BY <2>14, <2>15, ShiftedType
  <2>17. o.k = "s" => 0 <= o.lo + new /\ o.lo + p + new <= Width
    <3>1. new = right - Max({0, o.lo + p + right - Width})
      BY <2>15
    <3> HIDE DEF new
    <3>2. o.lo \in Int /\ p \in Int /\ d.xf.dx \in Int /\ 0 <= p
      BY <2>3, <2>9, <2>10
    <3>3. p <= Width => 0 <= o.lo + new /\ o.lo + p + new <= Width
      BY <2>12, <3>1, <3>2, Shifted
    <3> QED
      BY <2>7, <3>3
  <2> HIDE DEF new
  <2>18. Fits(o, [dx |-> new, sc |-> sc])
    BY <2>17 DEF Fits, Box, p
  <2>19. [dx |-> new, sc |-> sc] \in Transformation
    BY <2>7, <2>16 DEF Transformation
  <2>20. ClampDrag(d) \in Drags /\ ClampDrag(d).target = d.target /\ ClampDrag(d).xf = [dx |-> new, sc |-> sc]
    BY <2>2, <2>19 DEF Drags
  <2> QED
    BY <2>18, <2>20 DEF o
<1> QED
  BY <1>1, <1>2

-----------------------------------------------------------------------------
(* The two views *)

LEMMA ViewClamped ==
  ASSUME NEW v \in EditView
  PROVE  /\ ClampView(v) \in EditView
         /\ ClampView(v).width = v.width
         /\ Placed(ClampView(v).x, v.width, ClampView(v).scale)
<1>1. v.scale \in Nat /\ v.x \in Int /\ v.width \in Nat /\ Width * v.scale \in Nat
  BY SizeAssumption DEF EditView
<1> DEFINE x == ClampAxis(v.x, v.width, Width * v.scale)
<1>2. x \in Int /\ x = ClampAxis(x, v.width, Width * v.scale)
  BY <1>1, ClampedOnce
<1>3. ClampView(v) = [v EXCEPT !.x = x]
  BY DEF ClampView
<1> HIDE DEF x
<1>4. /\ ClampView(v) \in EditView
      /\ ClampView(v).width = v.width /\ ClampView(v).scale = v.scale /\ ClampView(v).x = x
  BY <1>2, <1>3 DEF EditView
<1> QED
  BY <1>2, <1>4 DEF Placed

LEMMA ViewFitted ==
  ASSUME NEW v \in EditView, NEW w \in Nat
  PROVE  /\ Fit(v, w) \in EditView
         /\ Fit(v, w).width = w
         /\ Placed(Fit(v, w).x, w, Fit(v, w).scale)
<1>1. CASE v.width = w
  BY <1>1, ViewClamped DEF Fit
<1>2. CASE v.width # w
  <2> DEFINE new == [scale |-> 1, x |-> 0, width |-> w]
  <2>1. new \in EditView /\ new.width = w
    BY DEF EditView
  <2>2. Fit(v, w) = ClampView(new)
    BY <1>2 DEF Fit
  <2> HIDE DEF new
  <2> QED
    BY <2>1, <2>2, ViewClamped
<1> QED
  BY <1>1, <1>2

LEMMA GestureType ==
  ASSUME NEW P
  PROVE  Gesture(P) \in {"none", "pan", "pinch"}
<1>1. CASE P = {}
  BY <1>1 DEF Gesture
<1>2. CASE P # {} /\ Cardinality(P) = 1
  BY <1>2 DEF Gesture
<1>3. CASE P # {} /\ Cardinality(P) # 1
  BY <1>3 DEF Gesture
<1> QED
  BY <1>1, <1>2, <1>3

\* cb_clamp_view puts the board in its place, and changes nothing else.
LEMMA ViewPlacedType ==
  ASSUME NEW v \in ViewType, frame \in Nat
  PROVE  /\ ViewPlaced(v) \in ViewType
         /\ ViewPlaced(v).on = v.on /\ ViewPlaced(v).pointers = v.pointers
         /\ Placed(ViewPlaced(v).x, frame, ViewPlaced(v).scale)
<1>1. v.scale \in Nat /\ v.x \in Int /\ Width * v.scale \in Nat
  BY SizeAssumption DEF ViewType
<1> DEFINE x == ClampAxis(v.x, frame, Width * v.scale)
<1>2. x \in Int /\ x = ClampAxis(x, frame, Width * v.scale)
  BY <1>1, ClampedOnce
<1>3. ViewPlaced(v) = [v EXCEPT !.x = x]
  BY DEF ViewPlaced, ViewType
<1> HIDE DEF x
<1>4. /\ ViewPlaced(v) \in ViewType
      /\ ViewPlaced(v).on = v.on /\ ViewPlaced(v).pointers = v.pointers
      /\ ViewPlaced(v).scale = v.scale /\ ViewPlaced(v).x = x
  BY <1>2, <1>3 DEF ViewType
<1> QED
  BY <1>2, <1>4 DEF Placed

LEMMA ViewResetType ==
  ASSUME NEW v \in ViewType, frame \in Nat
  PROVE  /\ ViewReset(v) \in ViewType
         /\ ViewReset(v).on = v.on /\ ViewReset(v).pointers = v.pointers
         /\ Placed(ViewReset(v).x, frame, ViewReset(v).scale)
<1> DEFINE w == [v EXCEPT !.scale = 1, !.x = 0]
<1>1. w \in ViewType /\ w.on = v.on /\ w.pointers = v.pointers
  <2>1. \A scale \in Nat, x \in Int : LET y == [v EXCEPT !.scale = scale, !.x = x]
                                      IN y \in ViewType /\ y.on = v.on /\ y.pointers = v.pointers
    BY DEF ViewType
  <2> DEFINE one == 1
             zero == 0
  <2>2. one \in Nat /\ zero \in Int /\ w = [v EXCEPT !.scale = one, !.x = zero]
    OBVIOUS
  <2> HIDE DEF w, one, zero
  <2> QED
    BY <2>1, <2>2
<1>2. ViewReset(v) = ViewPlaced(w)
  BY DEF ViewReset
<1> HIDE DEF w
<1> QED
  BY <1>1, <1>2, ViewPlacedType

\* A finger joins or goes.
LEMMA ViewWithType ==
  ASSUME view \in ViewType, NEW P \in SUBSET Finger
  PROVE  /\ ViewWith(P) \in ViewType
         /\ ViewWith(P).on = view.on /\ ViewWith(P).pointers = P
         /\ ViewWith(P).x = view.x /\ ViewWith(P).scale = view.scale
BY GestureType DEF ViewWith, ViewType

LEMMA ViewOffType ==
  /\ ViewOff \in ViewType /\ ~ ViewOff.on /\ ViewOff.pointers = {}
  /\ [ViewOff EXCEPT !.on = TRUE] \in ViewType
  /\ [ViewOff EXCEPT !.on = TRUE].on /\ [ViewOff EXCEPT !.on = TRUE].pointers = {}
<1>1. Gesture({}) = "none"
  <2>1. Cardinality({}) # 1
    BY FS_EmptySet
  <2> QED
    BY <2>1 DEF Gesture
<1>2. ViewOff \in ViewType /\ ~ ViewOff.on /\ ViewOff.pointers = {}
  BY <1>1 DEF ViewOff, ViewType
<1>3. \A v \in ViewType, b \in BOOLEAN : LET y == [v EXCEPT !.on = b]
                                      IN y \in ViewType /\ y.on = b /\ y.pointers = v.pointers
  BY DEF ViewType
<1> QED
  BY <1>2, <1>3

-----------------------------------------------------------------------------
(* The page's gesture variables *)

\* A step that may select something else, but goes on with the gesture.
SameGesture(v, u) ==
  /\ v.draft = u.draft /\ v.drag = u.drag /\ v.text = u.text
  /\ v.pointer = u.pointer /\ v.edit = u.edit /\ v.nav = u.nav

LEMMA RedrawnType ==
  ASSUME NEW u \in UI, NEW objects
  PROVE  Redrawn(u, objects) \in UI /\ SameGesture(Redrawn(u, objects), u)
<1> DEFINE sel == IF u.sel \in DOMAIN objects THEN u.sel ELSE None
<1>1. sel \in Nat \cup {None}
  BY DEF UI
<1>2. Redrawn(u, objects) = [u EXCEPT !.sel = sel]
  BY DEF Redrawn, UI
<1> HIDE DEF sel
<1> QED
  BY <1>1, <1>2 DEF UI, SameGesture

LEMMA CountType ==
  ASSUME NEW S \in SUBSET Finger
  PROVE  Cardinality(S) \in 0 .. Cardinality(Finger)
BY FingerAssumption, FS_Subset, FS_CardinalityType

\* cb_begin_edit_navigation: two fingers end whatever one was doing.
LEMMA NavigationType ==
  ASSUME NEW u \in UI
  PROVE  /\ BeginNavigation(u) \in UI /\ BeginNavigation(u).edit = u.edit
         /\ \/ BeginNavigation(u) = u
            \/ /\ u.edit # {} /\ BeginNavigation(u).nav /\ BeginNavigation(u).pointer = None
               /\ BeginNavigation(u).draft = None /\ BeginNavigation(u).drag = None
               /\ BeginNavigation(u).text = None
<1>1. CASE Cardinality(u.edit) < 2
  BY <1>1 DEF BeginNavigation
<1>2. CASE ~ (Cardinality(u.edit) < 2)
  <2> DEFINE n == Cardinality(u.edit)
             v == [u EXCEPT !.nav = TRUE, !.pointer = None, !.text = None,
                            !.draft = None, !.drag = None, !.count = n]
  <2>1. u.edit # {}
    BY <1>2, FS_EmptySet
  <2>2. n \in 0 .. Cardinality(Finger)
    BY CountType DEF UI
  <2>3. BeginNavigation(u) = Redrawn(v, Objects)
    BY <1>2 DEF BeginNavigation
  <2> HIDE DEF n
  <2>4. /\ v \in UI /\ v.edit = u.edit /\ v.nav /\ v.pointer = None /\ v.text = None
        /\ v.draft = None /\ v.drag = None
    BY <2>2 DEF UI
  <2> HIDE DEF v
  <2>5. Redrawn(v, Objects) \in UI /\ SameGesture(Redrawn(v, Objects), v)
    BY <2>4, RedrawnType
  <2> QED
    BY <2>1, <2>3, <2>4, <2>5 DEF SameGesture
<1> QED
  BY <1>1, <1>2

\* A state in which u goes on with the gesture, or navigation has taken over.
GoesOn(v, u) ==
  \/ /\ v.draft = u.draft /\ v.drag = u.drag /\ v.text = u.text /\ v.pointer = u.pointer
     /\ v.nav => u.nav /\ v.edit # {}
  \/ /\ v.draft = None /\ v.drag = None /\ v.text = None /\ v.pointer = None
     /\ v.nav /\ v.edit # {}

\* cb_finish_edit_pointer
LEMMA FinishedPointer ==
  ASSUME NEW u \in UI, NEW f \in Finger
  PROVE  /\ FinishPointer(u, f) \in UI /\ FinishPointer(u, f).edit = u.edit \ {f}
         /\ GoesOn(FinishPointer(u, f), u)
<1> DEFINE v == [u EXCEPT !.edit = @ \ {f}]
<1>1. /\ v \in UI /\ v.edit = u.edit \ {f} /\ v.draft = u.draft /\ v.drag = u.drag
      /\ v.text = u.text /\ v.pointer = u.pointer /\ v.nav = u.nav
  BY DEF UI
<1>2. FinishPointer(u, f) = IF v.edit = {} THEN [v EXCEPT !.nav = FALSE, !.count = 0]
                            ELSE BeginNavigation(v)
  BY DEF FinishPointer
<1> HIDE DEF v
<1>3. CASE v.edit = {}
  <2> DEFINE w == [v EXCEPT !.nav = FALSE, !.count = 0]
  <2>1. 0 \in 0 .. Cardinality(Finger)
    BY FingerAssumption, FS_CardinalityType
  <2>2. /\ w \in UI /\ w.edit = v.edit /\ w.draft = v.draft /\ w.drag = v.drag
        /\ w.text = v.text /\ w.pointer = v.pointer /\ ~ w.nav
    BY <1>1, <2>1 DEF UI
  <2>3. FinishPointer(u, f) = w
    BY <1>2, <1>3
  <2> HIDE DEF w
  <2> QED
    BY <1>1, <2>2, <2>3 DEF GoesOn
<1>4. CASE v.edit # {}
  BY <1>1, <1>2, <1>4, NavigationType DEF GoesOn
<1> QED
  BY <1>3, <1>4

-----------------------------------------------------------------------------
(* Writing *)

State == [ui : UI, objects : ObjectMap, made : Nat]

\* What a handler leaves when the objects and the drag are on the board.
GoodState(s) ==
  s \in State /\ GoodObjects(s.objects, s.made) /\ GoodDrag(s.ui, s.objects, s.made)

LEMMA ObjectTyped ==
  ASSUME NEW objects \in ObjectMap, NEW id \in DOMAIN objects
  PROVE  objects[id] \in Object /\ id \in Nat
BY DEF ObjectMap

LEMMA NowGood ==
  ASSUME TypeInv, BoardInv
  PROVE  GoodState(Now) /\ Now.ui = ui /\ Now.objects = board.objects /\ Now.made = board.made
BY DEF TypeInv, Board, BoardInv, GoodState, State, Now

\* Another state of the page with the same drag, or none.
LEMMA OtherUI ==
  ASSUME NEW s, GoodState(s), NEW u \in UI, u.drag = s.ui.drag \/ u.drag = None
  PROVE  /\ GoodState([s EXCEPT !.ui = u]) /\ [s EXCEPT !.ui = u].ui = u
         /\ [s EXCEPT !.ui = u].objects = s.objects /\ [s EXCEPT !.ui = u].made = s.made
<1> DEFINE t == [s EXCEPT !.ui = u]
<1>1. t \in State /\ t.ui = u /\ t.objects = s.objects /\ t.made = s.made
  BY DEF GoodState, State
<1> HIDE DEF t
<1>2. GoodState(t)
  BY <1>1 DEF GoodState, GoodDrag
<1> QED
  BY <1>1, <1>2 DEF t

LEMMA AppliedType ==
  ASSUME NEW s \in State, NEW objects \in ObjectMap, NEW made \in Nat
  PROVE  /\ Applied(s, objects, made) \in State
         /\ Applied(s, objects, made).objects = objects /\ Applied(s, objects, made).made = made
         /\ SameGesture(Applied(s, objects, made).ui, s.ui)
<1> DEFINE u == IF board.stage = "loading" THEN s.ui ELSE Redrawn(s.ui, objects)
<1>1. s.ui \in UI
  BY DEF State
<1>2. u \in UI /\ SameGesture(u, s.ui)
  BY <1>1, RedrawnType DEF SameGesture
<1>3. Applied(s, objects, made) = [ui |-> u, objects |-> objects, made |-> made]
  BY DEF Applied
<1> HIDE DEF u
<1> QED
  BY <1>2, <1>3 DEF State

LEMMA NewObjectType ==
  ASSUME NEW lo \in Position, NEW hi \in Int, lo <= hi
  PROVE  /\ NewObject("t", lo, hi) \in Object
         /\ hi \in Position => NewObject("s", lo, hi) \in Object
         /\ \A k \in {"s", "t"} : /\ NewObject(k, lo, hi).k = k
                                  /\ hi \in Position => Fits(NewObject(k, lo, hi), NewObject(k, lo, hi).xf)
<1>1. Original \in Transformation /\ Original.dx = 0 /\ Original.sc = 1
  BY DEF Original, Transformation
<1>2. \A k \in {"s", "t"} :
         NewObject(k, lo, hi) \in [k : {"s", "t"}, lo : Position, hi : Int, xf : Transformation]
  BY <1>1 DEF NewObject
<1>3. \A k : /\ NewObject(k, lo, hi).k = k /\ NewObject(k, lo, hi).lo = lo
             /\ NewObject(k, lo, hi).hi = hi /\ NewObject(k, lo, hi).xf = Original
  BY DEF NewObject
<1>4. ASSUME NEW k \in {"s", "t"}, hi \in Position
      PROVE  Fits(NewObject(k, lo, hi), NewObject(k, lo, hi).xf)
  <2> DEFINE o == NewObject(k, lo, hi)
  <2>1. o.lo = lo /\ o.hi = hi /\ o.xf.dx = 0 /\ o.xf.sc = 1
    BY <1>1, <1>3
  <2>2. Box(o, o.xf).lo = lo /\ Box(o, o.xf).hi = hi
    BY <2>1, <1>4, SizeAssumption DEF Box, Position
  <2> QED
    BY <2>2, <1>4, SizeAssumption DEF Fits, Position
<1> QED
  BY <1>2, <1>3, <1>4 DEF Object

\* A new object.
LEMMA ObjectAdded ==
  ASSUME NEW s, GoodState(s), NEW o \in Object, Fits(o, o.xf)
  PROVE  LET new == [id \in DOMAIN s.objects \union {s.made + 1} |->
                       IF id = s.made + 1 THEN o ELSE s.objects[id]]
         IN /\ new \in ObjectMap /\ new[s.made + 1] = o
            /\ GoodObjects(new, s.made + 1)
            /\ GoodDrag(s.ui, new, s.made + 1)
<1> DEFINE D == DOMAIN s.objects \union {s.made + 1}
           new == [id \in D |-> IF id = s.made + 1 THEN o ELSE s.objects[id]]
<1>1. s.made \in Nat /\ s.objects \in ObjectMap /\ DOMAIN s.objects \subseteq 1 .. s.made
  BY DEF GoodState, State, GoodObjects
<1>2. D \in SUBSET Nat /\ D \subseteq 1 .. (s.made + 1)
  BY <1>1
<1>3. new \in [D -> Object]
  <2>1. \A id \in DOMAIN s.objects : s.objects[id] \in Object
    BY <1>1, ObjectTyped
  <2> QED
    BY <2>1
<1>4. \A id \in D : new[id] = IF id = s.made + 1 THEN o ELSE s.objects[id]
  OBVIOUS
<1> HIDE DEF new
<1>5. DOMAIN new = D /\ new \in ObjectMap
  BY <1>2, <1>3 DEF ObjectMap
<1>6. new[s.made + 1] = o
  BY <1>4
<1>7. GoodObjects(new, s.made + 1)
  <2>1. \A id \in D : Fits(new[id], new[id].xf)
    BY <1>4 DEF GoodState, GoodObjects
  <2> QED
    BY <1>2, <1>5, <2>1 DEF GoodObjects
<1>8. GoodDrag(s.ui, new, s.made + 1)
  <2> SUFFICES ASSUME s.ui.drag # None
               PROVE  /\ s.ui.drag.target <= s.made + 1
                      /\ s.ui.drag.target \in DOMAIN new => Fits(new[s.ui.drag.target], s.ui.drag.xf)
    BY DEF GoodDrag
  <2> DEFINE t == s.ui.drag.target
  <2>1. t \in Nat /\ t <= s.made /\ (t \in DOMAIN s.objects => Fits(s.objects[t], s.ui.drag.xf))
    BY DEF GoodState, GoodDrag, State, UI, Drags
  <2> HIDE DEF t
  <2>2. t <= s.made + 1 /\ t # s.made + 1
    BY <1>1, <2>1
  <2>3. t \in D => t \in DOMAIN s.objects /\ new[t] = s.objects[t]
    BY <1>4, <2>2
  <2>4. t <= s.made + 1 /\ (t \in DOMAIN new => Fits(new[t], s.ui.drag.xf))
    BY <1>5, <2>1, <2>2, <2>3
  <2> QED
    BY <2>4 DEF t
<1> QED
  BY <1>5, <1>6, <1>7, <1>8 DEF new

LEMMA ObjectWritten ==
  ASSUME NEW s, GoodState(s), NEW o \in Object, Fits(o, o.xf)
  PROVE  /\ GoodState(WriteObject(s, o)) /\ SameGesture(WriteObject(s, o).ui, s.ui)
         /\ Writable => WriteObject(s, o).made = s.made + 1 /\ WriteObject(s, o).objects[s.made + 1] = o
<1>1. CASE ~ Writable
  BY <1>1 DEF WriteObject, SameGesture
<1>2. CASE Writable
  <2> DEFINE new == [id \in DOMAIN s.objects \union {s.made + 1} |->
                       IF id = s.made + 1 THEN o ELSE s.objects[id]]
             t == Applied(s, new, s.made + 1)
  <2>1. /\ new \in ObjectMap /\ new[s.made + 1] = o
        /\ GoodObjects(new, s.made + 1) /\ GoodDrag(s.ui, new, s.made + 1)
    BY ObjectAdded
  <2>2. WriteObject(s, o) = t
    BY <1>2 DEF WriteObject
  <2> HIDE DEF new
  <2>3. s \in State /\ s.made + 1 \in Nat
    BY DEF GoodState, State
  <2>4. t \in State /\ t.objects = new /\ t.made = s.made + 1 /\ SameGesture(t.ui, s.ui)
    BY <2>1, <2>3, AppliedType
  <2> HIDE DEF t
  <2>5. GoodState(t)
    BY <2>1, <2>4 DEF GoodState, SameGesture, GoodDrag
  <2> QED
    BY <2>1, <2>2, <2>4, <2>5
<1> QED
  BY <1>1, <1>2

\* An object keeps what it is when it is moved or resized.
LEMMA ObjectMoved ==
  ASSUME NEW s, GoodState(s), NEW target, NEW xf \in Transformation,
         target \in DOMAIN s.objects => Fits(s.objects[target], xf)
  PROVE  LET new == [id \in DOMAIN s.objects |->
                       IF id = target THEN [s.objects[id] EXCEPT !.xf = xf] ELSE s.objects[id]]
         IN /\ new \in ObjectMap /\ (target \in DOMAIN s.objects => new[target].xf = xf)
            /\ GoodObjects(new, s.made) /\ GoodDrag(s.ui, new, s.made)
<1> DEFINE moved(id) == [s.objects[id] EXCEPT !.xf = xf]
           new == [id \in DOMAIN s.objects |-> IF id = target THEN moved(id) ELSE s.objects[id]]
<1>1. s.objects \in ObjectMap /\ DOMAIN s.objects \in SUBSET Nat
  BY DEF GoodState, State, ObjectMap
<1>2. \A id \in DOMAIN s.objects :
        /\ s.objects[id] \in Object
        /\ moved(id) \in Object /\ moved(id).xf = xf
        /\ moved(id).k = s.objects[id].k /\ moved(id).lo = s.objects[id].lo
        /\ moved(id).hi = s.objects[id].hi
  <2>1. \A o \in Object : LET m == [o EXCEPT !.xf = xf]
                          IN m \in Object /\ m.xf = xf /\ m.k = o.k /\ m.lo = o.lo /\ m.hi = o.hi
    BY DEF Object
  <2> QED
    BY <1>1, <2>1, ObjectTyped
<1>3. \A id \in DOMAIN s.objects : new[id] = IF id = target THEN moved(id) ELSE s.objects[id]
  OBVIOUS
<1>4. DOMAIN new = DOMAIN s.objects /\ new \in [DOMAIN s.objects -> Object]
  BY <1>2
<1> HIDE DEF new, moved
<1>5. new \in ObjectMap
  BY <1>1, <1>4 DEF ObjectMap
<1>6. \A id \in DOMAIN new :
        /\ \A x : Fits(s.objects[id], x) => Fits(new[id], x)
        /\ new[id].xf = IF id = target THEN xf ELSE s.objects[id].xf
  BY <1>2, <1>3, <1>4 DEF Fits, Box
<1>7. GoodObjects(new, s.made)
  BY <1>4, <1>6 DEF GoodState, GoodObjects
<1>8. GoodDrag(s.ui, new, s.made)
  BY <1>4, <1>6 DEF GoodState, GoodDrag
<1> QED
  BY <1>4, <1>5, <1>6, <1>7, <1>8 DEF new, moved

LEMMA MoveWritten ==
  ASSUME NEW s, GoodState(s), NEW d \in Drags,
         d.target \in DOMAIN s.objects => Fits(s.objects[d.target], d.xf)
  PROVE  /\ GoodState(WriteMove(s, d)) /\ SameGesture(WriteMove(s, d).ui, s.ui)
         /\ Writable /\ d.target \in DOMAIN s.objects => WriteMove(s, d).objects[d.target].xf = d.xf
<1>1. CASE ~ Writable
  BY <1>1 DEF WriteMove, SameGesture
<1>2. CASE Writable
  <2> DEFINE new == [id \in DOMAIN s.objects |->
                       IF id = d.target THEN [s.objects[id] EXCEPT !.xf = d.xf] ELSE s.objects[id]]
             t == Applied(s, new, s.made)
  <2>1. /\ new \in ObjectMap /\ (d.target \in DOMAIN s.objects => new[d.target].xf = d.xf)
        /\ GoodObjects(new, s.made) /\ GoodDrag(s.ui, new, s.made)
    <3>1. d.xf \in Transformation
      BY DEF Drags
    <3> QED
      BY <3>1, ObjectMoved
  <2>2. WriteMove(s, d) = t
    BY <1>2 DEF WriteMove
  <2> HIDE DEF new
  <2>3. s \in State /\ s.made \in Nat
    BY DEF GoodState, State
  <2>4. t \in State /\ t.objects = new /\ t.made = s.made /\ SameGesture(t.ui, s.ui)
    BY <2>1, <2>3, AppliedType
  <2> HIDE DEF t
  <2>5. GoodState(t)
    BY <2>1, <2>4 DEF GoodState, SameGesture, GoodDrag
  <2> QED
    BY <2>1, <2>2, <2>4, <2>5
<1> QED
  BY <1>1, <1>2

-----------------------------------------------------------------------------
(* The end of a gesture *)

LEMMA TextPlaced ==
  ASSUME NEW s, GoodState(s), NEW p \in Position, NEW typed \in BOOLEAN
  PROVE  GoodState(PlaceText(s, p, typed)) /\ SameGesture(PlaceText(s, p, typed).ui, s.ui)
<1>1. CASE ~ typed
  BY <1>1 DEF PlaceText, SameGesture
<1>2. CASE typed
  <2> DEFINE o == NewObject("t", p, p + 1)
             t == WriteObject(s, o)
             n == s.made + 1
             v == [t.ui EXCEPT !.sel = n, !.tool = "select"]
             w == Redrawn(v, t.objects)
  <2>1. p \in Int /\ p + 1 \in Int /\ p <= p + 1
    BY SizeAssumption DEF Position
  <2>2. o \in Object /\ Fits(o, o.xf)
    BY <2>1, NewObjectType DEF Fits
  <2>3. PlaceText(s, p, typed) = [t EXCEPT !.ui = w]
    BY <1>2 DEF PlaceText
  <2> HIDE DEF o
  <2>4. GoodState(t) /\ SameGesture(t.ui, s.ui)
    BY <2>2, ObjectWritten
  <2> HIDE DEF t
  <2>5. n \in Nat /\ t.ui \in UI
    BY <2>4 DEF GoodState, State
  <2> HIDE DEF n
  <2>6. v \in UI /\ SameGesture(v, t.ui)
    BY <2>5 DEF UI, SameGesture
  <2> HIDE DEF v
  <2>7. w \in UI /\ SameGesture(w, v)
    BY <2>6, RedrawnType
  <2> HIDE DEF w
  <2>8. SameGesture(w, t.ui) /\ SameGesture(w, s.ui)
    BY <2>4, <2>6, <2>7 DEF SameGesture
  <2>9. GoodState([t EXCEPT !.ui = w]) /\ [t EXCEPT !.ui = w].ui = w
    BY <2>4, <2>7, <2>8, OtherUI DEF SameGesture
  <2> QED
    BY <2>3, <2>8, <2>9
<1> QED
  BY <1>1, <1>2

\* What a finger did in state s, with one gesture at a time.
Alone(u) ==
  /\ u.text # None => u.draft = None /\ u.drag = None
  /\ u.drag # None => u.draft = None

Nothing(u) == u.draft = None /\ u.drag = None /\ u.text = None

SameFingers(v, u) == v.edit = u.edit /\ v.pointer = u.pointer /\ v.nav = u.nav

\* The drawing u becomes an object, the drag u the transformation of one.
Drawn(t, made, d) == t.made = made + 1 /\ t.objects[t.made] = NewObject("s", d.lo, d.hi)

Moved(t, objects, d) ==
  \/ ~ d.moved
  \/ d.target \notin DOMAIN objects
  \/ t.objects[d.target].xf = d.xf

LEMMA TextFinished ==
  ASSUME NEW s, GoodState(s), NEW typed \in BOOLEAN, s.ui.text # None
  PROVE  /\ GoodState(Finished(s, typed)) /\ SameFingers(Finished(s, typed).ui, s.ui)
         /\ Alone(s.ui) => Nothing(Finished(s, typed).ui)
<1> DEFINE u == [s.ui EXCEPT !.text = None]
           t == [s EXCEPT !.ui = u]
           r == IF s.ui.tool = "text" THEN PlaceText(t, s.ui.text, typed) ELSE t
<1>1. s \in State /\ s.ui \in UI
  BY DEF GoodState, State
<1>2. /\ u \in UI /\ u.text = None /\ u.drag = s.ui.drag /\ u.draft = s.ui.draft
      /\ SameFingers(u, s.ui)
  BY <1>1 DEF UI, SameFingers
<1>3. [s EXCEPT !.ui.text = None] = t
  BY <1>1 DEF State
<1>4. Finished(s, typed) = r
  BY <1>3 DEF Finished
<1> HIDE DEF u
<1>5. GoodState(t) /\ t.ui = u
  BY <1>2, OtherUI
<1> HIDE DEF t
<1>6. s.ui.text \in Position
  BY <1>1 DEF UI
<1>7. GoodState(r) /\ SameGesture(r.ui, u)
  <2>1. CASE s.ui.tool = "text"
    BY <1>5, <1>6, <2>1, TextPlaced
  <2>2. CASE s.ui.tool # "text"
    BY <1>5, <2>2 DEF SameGesture
  <2> QED
    BY <2>1, <2>2
<1> HIDE DEF r
<1> QED
  BY <1>2, <1>4, <1>7 DEF Alone, Nothing, SameFingers, SameGesture

LEMMA DragFinished ==
  ASSUME NEW s, GoodState(s), NEW typed \in BOOLEAN, s.ui.text = None, s.ui.drag # None
  PROVE  /\ GoodState(Finished(s, typed)) /\ SameFingers(Finished(s, typed).ui, s.ui)
         /\ Alone(s.ui) => Nothing(Finished(s, typed).ui)
         /\ Writable => Moved(Finished(s, typed), s.objects, s.ui.drag)
<1> DEFINE u == [s.ui EXCEPT !.drag = None]
           t == [s EXCEPT !.ui = u]
           d == s.ui.drag
           w == Redrawn(t.ui, t.objects)
           r == IF d.moved THEN WriteMove(t, d) ELSE [t EXCEPT !.ui = w]
<1>1. s \in State /\ s.ui \in UI
  BY DEF GoodState, State
<1>2. /\ u \in UI /\ u.drag = None /\ u.text = s.ui.text /\ u.draft = s.ui.draft
      /\ SameFingers(u, s.ui)
  BY <1>1 DEF UI, SameFingers
<1>3. [s EXCEPT !.ui.drag = None] = t
  BY <1>1 DEF State
<1>4. t \in State
  BY <1>1, <1>2 DEF State
<1>5. [t EXCEPT !.ui = Redrawn(@, t.objects)] = [t EXCEPT !.ui = w]
  BY <1>4 DEF State
<1>6. Finished(s, typed) = r
  BY <1>3, <1>5 DEF Finished
<1> HIDE DEF u
<1>7. GoodState(t) /\ t.ui = u /\ t.objects = s.objects
  BY <1>2, OtherUI
<1> HIDE DEF t, d
<1>8. d \in Drags /\ (d.target \in DOMAIN s.objects => Fits(s.objects[d.target], d.xf))
  BY <1>1 DEF UI, GoodState, GoodDrag, d
<1>9. GoodState(r) /\ SameGesture(r.ui, u) /\ (Writable => Moved(r, s.objects, d))
  <2>1. CASE d.moved
    <3>1. /\ GoodState(WriteMove(t, d)) /\ SameGesture(WriteMove(t, d).ui, u)
          /\ Writable /\ d.target \in DOMAIN s.objects => WriteMove(t, d).objects[d.target].xf = d.xf
      BY <1>7, <1>8, MoveWritten
    <3> QED
      BY <2>1, <3>1 DEF Moved
  <2>2. CASE ~ d.moved
    <3>1. w \in UI /\ SameGesture(w, t.ui)
      BY <1>2, <1>7, RedrawnType
    <3> HIDE DEF w
    <3>2. GoodState([t EXCEPT !.ui = w]) /\ [t EXCEPT !.ui = w].ui = w
      BY <1>7, <3>1, OtherUI DEF SameGesture
    <3> QED
      BY <1>7, <2>2, <3>1, <3>2 DEF Moved
  <2> QED
    BY <2>1, <2>2
<1> HIDE DEF r
<1>10. /\ GoodState(r) /\ SameFingers(r.ui, s.ui)
       /\ Alone(s.ui) => Nothing(r.ui)
  BY <1>2, <1>9 DEF Alone, Nothing, SameFingers, SameGesture
<1> QED
  BY <1>6, <1>9, <1>10 DEF d

LEMMA DraftFinished ==
  ASSUME NEW s, GoodState(s), NEW typed \in BOOLEAN,
         s.ui.text = None, s.ui.drag = None, s.ui.draft # None
  PROVE  /\ GoodState(Finished(s, typed)) /\ SameFingers(Finished(s, typed).ui, s.ui)
         /\ Nothing(Finished(s, typed).ui)
         /\ Writable => Drawn(Finished(s, typed), s.made, s.ui.draft)
<1> DEFINE u == [s.ui EXCEPT !.draft = None]
           t == [s EXCEPT !.ui = u]
           o == NewObject("s", s.ui.draft.lo, s.ui.draft.hi)
<1>1. s \in State /\ s.ui \in UI
  BY DEF GoodState, State
<1>2. /\ u \in UI /\ u.draft = None /\ u.text = s.ui.text /\ u.drag = s.ui.drag
      /\ SameFingers(u, s.ui)
  BY <1>1 DEF UI, SameFingers
<1>3. [s EXCEPT !.ui.draft = None] = t
  BY <1>1 DEF State
<1>4. Finished(s, typed) = WriteObject(t, o)
  BY <1>3 DEF Finished
<1>5. s.ui.draft \in Draft
  BY <1>1 DEF UI
<1>6. o \in Object /\ Fits(o, o.xf)
  <2>1. /\ s.ui.draft.lo \in Position /\ s.ui.draft.hi \in Position /\ s.ui.draft.hi \in Int
        /\ s.ui.draft.lo <= s.ui.draft.hi
    BY <1>5, SizeAssumption DEF Draft, Drafts, Position
  <2> QED
    BY <2>1, NewObjectType
<1> HIDE DEF u, o
<1>7. GoodState(t) /\ t.ui = u /\ t.made = s.made
  BY <1>2, OtherUI
<1> HIDE DEF t
<1>8. /\ GoodState(WriteObject(t, o)) /\ SameGesture(WriteObject(t, o).ui, u)
      /\ Writable => WriteObject(t, o).made = s.made + 1 /\ WriteObject(t, o).objects[s.made + 1] = o
  BY <1>6, <1>7, ObjectWritten
<1>9. SameFingers(WriteObject(t, o).ui, s.ui) /\ Nothing(WriteObject(t, o).ui)
  BY <1>2, <1>8 DEF Nothing, SameFingers, SameGesture
<1> QED
  BY <1>4, <1>8, <1>9 DEF Drawn, o

\* Whatever the finger did, in three cases.
LEMMA GestureFinished ==
  ASSUME NEW s, GoodState(s), NEW typed \in BOOLEAN
  PROVE  /\ GoodState(Finished(s, typed)) /\ SameFingers(Finished(s, typed).ui, s.ui)
         /\ Alone(s.ui) =>
              /\ Nothing(Finished(s, typed).ui)
              /\ Writable /\ s.ui.draft # None => Drawn(Finished(s, typed), s.made, s.ui.draft)
              /\ Writable /\ s.ui.drag # None => Moved(Finished(s, typed), s.objects, s.ui.drag)
<1>1. CASE s.ui.text # None
  BY <1>1, TextFinished DEF Alone
<1>2. CASE s.ui.text = None /\ s.ui.drag # None
  BY <1>2, DragFinished DEF Alone
<1>3. CASE s.ui.text = None /\ s.ui.drag = None /\ s.ui.draft # None
  BY <1>3, DraftFinished
<1>4. CASE s.ui.text = None /\ s.ui.drag = None /\ s.ui.draft = None
  <2>1. Finished(s, typed) = s
    BY <1>4 DEF Finished
  <2> QED
    BY <1>4, <2>1 DEF SameFingers, Nothing
<1> QED
  BY <1>1, <1>2, <1>3, <1>4

\* What was drawn or dragged goes on, is on the board, or gave way to navigation.
KeptIn(s) ==
  /\ ui.draft # None /\ Writable /\ ~ s.ui.nav =>
       s.ui.draft = ui.draft \/ Drawn(s, board.made, ui.draft)
  /\ ui.drag # None /\ Writable /\ ~ s.ui.nav =>
       s.ui.drag = ui.drag \/ Moved(s, board.objects, ui.drag)

\* What finger f leaves behind, if there was one gesture and the finger of it came
\* first.
Ends(s, f) ==
  Neat(ui) /\ (ui.pointer # None => hand.primary = ui.pointer) =>
    /\ Neat(s.ui) /\ s.ui.edit = ui.edit \ {f}
    /\ s.ui.pointer # None => s.ui.pointer = ui.pointer /\ s.ui.pointer # f
    /\ KeptIn(s)

LEMMA GoesOnNeat ==
  ASSUME NEW v, NEW u, GoesOn(v, u), Neat(u)
  PROVE  Neat(v)
BY DEF GoesOn, Neat

\* cb_up of a finger that draws.
LEMMA DrawingUp ==
  ASSUME TypeInv, BoardInv, NEW f \in Finger, NEW typed \in BOOLEAN, Drawing(f)
  PROVE  GoodState(Up(f, typed)) /\ Ends(Up(f, typed), f)
<1> DEFINE u == [ui EXCEPT !.edit = @ \ {f}, !.pointer = None]
           t == [Now EXCEPT !.ui = u]
           r == Finished(t, typed)
<1>1. ui \in UI
  BY DEF TypeInv
<1>2. /\ u \in UI /\ u.draft = ui.draft /\ u.drag = ui.drag /\ u.text = ui.text
      /\ u.pointer = None /\ u.edit = ui.edit \ {f} /\ u.nav = ui.nav
  BY <1>1 DEF UI
<1>3. Up(f, typed) = r
  BY DEF Up
<1> HIDE DEF u
<1>4. GoodState(Now) /\ Now.ui = ui /\ Now.objects = board.objects /\ Now.made = board.made
  BY NowGood
<1>5. GoodState(t) /\ t.ui = u /\ t.objects = board.objects /\ t.made = board.made
  BY <1>2, <1>4, OtherUI
<1> HIDE DEF t
<1>6. /\ GoodState(r) /\ SameFingers(r.ui, u)
      /\ Alone(u) =>
           /\ Nothing(r.ui)
           /\ Writable /\ u.draft # None => Drawn(r, board.made, u.draft)
           /\ Writable /\ u.drag # None => Moved(r, board.objects, u.drag)
  BY <1>5, GestureFinished
<1> HIDE DEF r
<1>7. ASSUME Neat(ui)
      PROVE  /\ Neat(r.ui) /\ r.ui.edit = ui.edit \ {f} /\ r.ui.pointer = None
             /\ KeptIn(r)
  <2>1. Alone(u)
    BY <1>2, <1>7 DEF Neat, Alone
  <2>2. r.ui.edit = ui.edit \ {f} /\ r.ui.pointer = None /\ ~ r.ui.nav /\ Nothing(r.ui)
    BY <1>2, <1>6, <2>1 DEF SameFingers, Drawing
  <2> QED
    BY <1>2, <1>6, <2>1, <2>2 DEF Neat, Nothing, KeptIn
<1> QED
  BY <1>3, <1>6, <1>7 DEF Ends

\* Another finger goes.
LEMMA OtherUp ==
  ASSUME TypeInv, BoardInv, NEW f \in Finger, ~ Drawing(f)
  PROVE  LET r == [Now EXCEPT !.ui = FinishPointer(ui, f)]
         IN GoodState(r) /\ Ends(r, f)
<1> DEFINE v == FinishPointer(ui, f)
           r == [Now EXCEPT !.ui = v]
<1>1. ui \in UI /\ f # None
  BY FingerAssumption DEF TypeInv
<1>2. v \in UI /\ v.edit = ui.edit \ {f} /\ GoesOn(v, ui)
  BY <1>1, FinishedPointer
<1>3. v.drag = ui.drag \/ v.drag = None
  BY <1>2 DEF GoesOn
<1> HIDE DEF v
<1>4. GoodState(Now) /\ Now.ui = ui
  BY NowGood
<1>5. GoodState(r) /\ r.ui = v
  BY <1>2, <1>3, <1>4, OtherUI
<1> HIDE DEF r
<1>6. ASSUME Neat(ui), ui.pointer # None => hand.primary = ui.pointer
      PROVE  /\ Neat(v) /\ v.edit = ui.edit \ {f}
             /\ v.pointer # None => v.pointer = ui.pointer /\ v.pointer # f
             /\ KeptIn(r)
  <2>1. Neat(v)
    BY <1>2, <1>6, GoesOnNeat
  <2>2. ui.pointer # f
    BY <1>1, <1>6 DEF Drawing, Neat
  <2>3. v.pointer # None => v.pointer = ui.pointer
    BY <1>2 DEF GoesOn
  <2>4. KeptIn(r)
    BY <1>2, <1>5 DEF KeptIn, GoesOn
  <2> QED
    BY <1>2, <2>1, <2>2, <2>3, <2>4
<1> QED
  BY <1>5, <1>6 DEF Ends, v, r

LEMMA UpEnds ==
  ASSUME TypeInv, BoardInv, NEW f \in Finger, NEW typed \in BOOLEAN
  PROVE  GoodState(Up(f, typed)) /\ Ends(Up(f, typed), f)
<1>1. CASE Drawing(f)
  BY <1>1, DrawingUp
<1>2. CASE ~ Drawing(f)
  <2>1. Up(f, typed) = [Now EXCEPT !.ui = FinishPointer(ui, f)]
    BY <1>2 DEF Up
  <2> QED
    BY <1>2, <2>1, OtherUp
<1> QED
  BY <1>1, <1>2

\* A finger that is not on the canvas for the page changes nothing.
LEMMA NowEnds ==
  ASSUME TypeInv, BoardInv, NEW f \in Finger, f \notin ui.edit, ui.pointer # f
  PROVE  GoodState(Now) /\ Ends(Now, f)
<1>1. GoodState(Now) /\ Now.ui = ui
  BY NowGood
<1>2. ui.edit = ui.edit \ {f}
  OBVIOUS
<1> QED
  BY <1>1, <1>2 DEF Ends, KeptIn

LEMMA LostEnds ==
  ASSUME TypeInv, BoardInv, NEW f \in Finger, NEW typed \in BOOLEAN
  PROVE  GoodState(Lost(f, typed)) /\ Ends(Lost(f, typed), f)
<1>1. CASE f \in ui.edit \/ ui.pointer = f
  BY <1>1, UpEnds DEF Lost
<1>2. CASE ~ (f \in ui.edit \/ ui.pointer = f)
  BY <1>2, NowEnds DEF Lost
<1> QED
  BY <1>1, <1>2

\* cb_cancel of a gesture that shows nothing yet.
LEMMA CancelDrops ==
  ASSUME TypeInv, BoardInv, NEW f \in Finger, ~ ui.nav, ui.pointer = f,
         ui.draft = None, ui.drag # None => ~ ui.drag.moved
  PROVE  LET r == [Now EXCEPT !.ui = Redrawn([ui EXCEPT !.edit = @ \ {f}, !.pointer = None,
                     !.text = None, !.drag = None, !.draft = None], Objects)]
         IN GoodState(r) /\ Ends(r, f)
<1> DEFINE u == [ui EXCEPT !.edit = @ \ {f}, !.pointer = None,
                   !.text = None, !.drag = None, !.draft = None]
           v == Redrawn(u, Objects)
           r == [Now EXCEPT !.ui = v]
<1>1. ui \in UI
  BY DEF TypeInv
<1>2. /\ u \in UI /\ u.draft = None /\ u.drag = None /\ u.text = None
      /\ u.pointer = None /\ u.edit = ui.edit \ {f} /\ ~ u.nav
  BY <1>1 DEF UI
<1> HIDE DEF u
<1>3. v \in UI /\ SameGesture(v, u)
  BY <1>2, RedrawnType
<1> HIDE DEF v
<1>4. GoodState(Now) /\ Now.ui = ui
  BY NowGood
<1>5. GoodState(r) /\ r.ui = v
  BY <1>2, <1>3, <1>4, OtherUI DEF SameGesture
<1> HIDE DEF r
<1>6. /\ v.draft = None /\ v.drag = None /\ v.text = None
      /\ v.pointer = None /\ v.edit = ui.edit \ {f} /\ ~ v.nav
  BY <1>2, <1>3 DEF SameGesture
<1>7. Ends(r, f)
  BY <1>5, <1>6 DEF Ends, Neat, KeptIn, Moved
<1> QED
  BY <1>5, <1>7 DEF u, v, r

LEMMA CancelEnds ==
  ASSUME TypeInv, BoardInv, NEW f \in Finger, NEW typed \in BOOLEAN
  PROVE  GoodState(Cancel(f, typed)) /\ Ends(Cancel(f, typed), f)
<1> DEFINE visible == ui.draft # None \/ (ui.drag # None /\ ui.drag.moved)
           one == [Now EXCEPT !.ui = FinishPointer(ui, f)]
           three == [Now EXCEPT !.ui = Redrawn([ui EXCEPT !.edit = @ \ {f}, !.pointer = None,
                       !.text = None, !.drag = None, !.draft = None], Objects)]
           other == ui.nav \/ ui.pointer # f
           works == ~ ui.nav /\ ui.pointer = f /\ visible
<1>1. Cancel(f, typed) = CASE other -> one [] works -> Up(f, typed) [] OTHER -> three
  BY DEF Cancel
<1>2. CASE other
  <2>1. GoodState(one) /\ Ends(one, f)
    BY <1>2, OtherUp DEF Drawing
  <2> HIDE DEF one, three
  <2>2. ~ works
    BY <1>2
  <2> QED
    BY <1>1, <1>2, <2>1, <2>2
<1>3. CASE works
  <2>1. ~ other
    BY <1>3
  <2> HIDE DEF one, three, other, works
  <2> QED
    BY <1>1, <1>3, <2>1, UpEnds
<1>4. CASE ~ other /\ ~ works
  <2>1. GoodState(three) /\ Ends(three, f)
    BY <1>4, CancelDrops
  <2> HIDE DEF one, three, other, works
  <2> QED
    BY <1>1, <1>4, <2>1
<1> QED
  BY <1>2, <1>3, <1>4

-----------------------------------------------------------------------------
(* What the steps have in common *)

\* WorkKept of one step.
WorkStep ==
  /\ ui.draft # None /\ Writable /\ ~ ui'.nav /\ ~ view'.on =>
       \/ ui'.draft # None /\ ui'.draft.lo <= ui.draft.lo /\ ui.draft.hi <= ui'.draft.hi
       \/ /\ board'.made = board.made + 1
          /\ board'.objects[board'.made] = NewObject("s", ui.draft.lo, ui.draft.hi)
  /\ ui.drag # None /\ Writable /\ ~ ui'.nav /\ ~ view'.on =>
       \/ ui'.drag # None /\ ui'.drag.target = ui.drag.target
       \/ ~ ui.drag.moved
       \/ ui.drag.target \notin DOMAIN Objects
       \/ board'.objects[ui.drag.target].xf = ui.drag.xf

LEMMA FrameType ==
  ASSUME TypeInv
  PROVE  frame \in Nat /\ frame # 0
BY SizeAssumption DEF TypeInv

\* The edit view has a width whenever the board is seen.
LEMMA FittedView ==
  ASSUME TypeInv, SightInv, board.stage \in {"open", "resuming", "away"}
  PROVE  editView.width # 0
BY FrameType DEF SightInv, Fitted

LEMMA DraftType ==
  ASSUME TypeInv, ui.draft # None
  PROVE  ui.draft \in Draft /\ ui.draft.lo \in Int /\ ui.draft.hi \in Int
BY SizeAssumption DEF TypeInv, UI, Draft, Drafts, Position

\* A step that goes on with what is drawn and dragged.
LEMMA WorkGoesOn ==
  ASSUME TypeInv, ui'.draft = ui.draft \/ ui.draft = None, ui'.drag = ui.drag \/ ui.drag = None
  PROVE  WorkStep
BY DraftType DEF WorkStep

\* A step after which the handler's result s is the page's state.
LEMMA BecomesGood ==
  ASSUME TypeInv, NEW s, GoodState(s), Becomes(s)
  PROVE  /\ ui' \in UI /\ board' \in Board /\ BoardInv' /\ board'.stage = board.stage
         /\ ui' = s.ui /\ board'.objects = s.objects /\ board'.made = s.made
<1>1. ui' = s.ui /\ s \in State
  BY DEF Becomes, GoodState
<1>2. /\ board' \in Board /\ board'.stage = board.stage
      /\ board'.objects = s.objects /\ board'.made = s.made
  <2>1. board \in Board
    BY DEF TypeInv
  <2>2. board' = [board EXCEPT !.objects = s.objects, !.made = s.made]
    BY DEF Becomes
  <2> QED
    BY <1>1, <2>1, <2>2 DEF Board, State
<1>3. BoardInv'
  BY <1>1, <1>2 DEF BoardInv, GoodState
<1> QED
  BY <1>1, <1>2, <1>3 DEF State

LEMMA BecomesKept ==
  ASSUME TypeInv, NEW s, GoodState(s), Becomes(s), KeptIn(s)
  PROVE  WorkStep
<1>1. ui' = s.ui /\ board'.objects = s.objects /\ board'.made = s.made
  BY BecomesGood
<1>2. ASSUME ui.draft # None, Writable, ~ ui'.nav
      PROVE  \/ ui'.draft # None /\ ui'.draft.lo <= ui.draft.lo /\ ui.draft.hi <= ui'.draft.hi
             \/ /\ board'.made = board.made + 1
                /\ board'.objects[board'.made] = NewObject("s", ui.draft.lo, ui.draft.hi)
  BY <1>1, <1>2, DraftType DEF KeptIn, Drawn
<1>3. ASSUME ui.drag # None, Writable, ~ ui'.nav
      PROVE  \/ ui'.drag # None /\ ui'.drag.target = ui.drag.target
             \/ ~ ui.drag.moved
             \/ ui.drag.target \notin DOMAIN Objects
             \/ board'.objects[ui.drag.target].xf = ui.drag.xf
  BY <1>1, <1>3 DEF KeptIn, Moved, Objects
<1> QED
  BY <1>2, <1>3 DEF WorkStep

LEMMA SameSight ==
  ASSUME SightInv, view'.on = view.on, view'.x = view.x, view'.scale = view.scale,
         editView' = editView, frame' = frame, board'.stage = board.stage
  PROVE  SightInv'
BY DEF SightInv, Fitted

LEMMA SameBoard ==
  ASSUME BoardInv, board' = board, ui'.drag = ui.drag \/ ui'.drag = None
  PROVE  BoardInv'
BY DEF BoardInv, GoodDrag

-----------------------------------------------------------------------------
(* The first state *)

LEMMA InitInv ==
  ASSUME Init
  PROVE  IInv /\ HandInv
<1>1. Cardinality(Finger) \in Nat
  BY FingerAssumption, FS_CardinalityType
<1>2. ui \in UI
  BY <1>1 DEF Init, Idle, UI
<1>3. view \in ViewType
  BY ViewOffType DEF Init
<1>4. editView \in EditView
  BY DEF Init, Unfitted, EditView
<1>5. hand \in Hand /\ frame \in Frames
  BY DEF Init, Hand
<1>6. board \in Board /\ DOMAIN board.objects = {} /\ board.stage = "closed"
  <2>1. << >> \in [{} -> Object] /\ DOMAIN << >> = {}
    OBVIOUS
  <2>2. << >> \in ObjectMap
    BY <2>1 DEF ObjectMap
  <2> QED
    BY <2>1, <2>2 DEF Init, Board
<1>7. TypeInv
  BY <1>2, <1>3, <1>4, <1>5, <1>6 DEF TypeInv
<1>8. ui.drag = None /\ ~ view.on /\ view.pointers = {}
  BY ViewOffType DEF Init, Idle
<1>9. BoardInv
  BY <1>6, <1>8 DEF BoardInv, GoodObjects, GoodDrag
<1>10. SightInv
  BY <1>6, <1>8 DEF SightInv
<1>11. HandInv
  BY <1>8 DEF HandInv, Neat, Init, Idle
<1> QED
  BY <1>7, <1>9, <1>10, <1>11 DEF IInv

-----------------------------------------------------------------------------
(* A finger touches the canvas *)

LEMMA XFGood ==
  ASSUME TypeInv, BoardInv, NEW id \in DOMAIN Objects
  PROVE  /\ Objects[id] \in Object /\ XF(id) \in Transformation
         /\ id \in Nat /\ id <= board.made
         /\ Fits(Objects[id], XF(id))
<1>1. Objects \in ObjectMap /\ Objects = board.objects /\ board.made \in Nat
  BY DEF TypeInv, Board, Objects
<1>2. Objects[id] \in Object /\ id \in Nat
  BY <1>1, ObjectTyped
<1>3. id <= board.made /\ Fits(Objects[id], Objects[id].xf)
  BY <1>1 DEF BoardInv, GoodObjects
<1>4. CASE ui.drag # None /\ ui.drag.target = id
  BY <1>1, <1>2, <1>3, <1>4 DEF XF, BoardInv, GoodDrag, TypeInv, UI, Drags
<1>5. CASE ~ (ui.drag # None /\ ui.drag.target = id)
  BY <1>2, <1>3, <1>5 DEF XF, Object
<1> QED
  BY <1>4, <1>5

\* What a finger that is alone may begin.
Begins(v, u, f) ==
  /\ v \in UI /\ v.edit = u.edit /\ v.nav = u.nav
  /\ GoodDrag(v, board.objects, board.made)
  /\ \/ v.pointer = u.pointer /\ v.draft = u.draft /\ v.text = u.text /\ v.drag = None
     \/ /\ v.pointer = f
        /\ \/ v.draft = u.draft /\ v.drag = u.drag
           \/ v.text = u.text /\ v.drag = u.drag
           \/ v.text = u.text /\ v.draft = u.draft

LEMMA GrabBegins ==
  ASSUME TypeInv, BoardInv, NEW u \in UI, NEW f \in Finger, NEW p \in Position,
         NEW v \in Grab(u, f, p)
  PROVE  Begins(v, u, f)
<1> DEFINE drag(mode, id) ==
             [mode |-> mode, target |-> id, start |-> p, base |-> XF(id), xf |-> XF(id),
              moved |-> FALSE]
<1>1. ASSUME NEW mode \in {"move", "resize"}, NEW id \in DOMAIN Objects
      PROVE  /\ drag(mode, id) \in Drags
             /\ \A w : w.drag = drag(mode, id) => GoodDrag(w, board.objects, board.made)
  <2>1. /\ XF(id) \in Transformation /\ id \in Nat /\ id <= board.made
        /\ Fits(Objects[id], XF(id)) /\ Objects = board.objects
    BY XFGood DEF Objects
  <2>2. drag(mode, id) \in Drags /\ drag(mode, id).target = id /\ drag(mode, id).xf = XF(id)
    BY <2>1 DEF Drags
  <2> HIDE DEF drag
  <2> QED
    BY <2>1, <2>2 DEF GoodDrag
<1>2. \A id \in HitHandle(u, p) \cup Hit(p) : id \in DOMAIN Objects /\ id \in Nat
  BY XFGood DEF HitHandle, Hit
<1>3. \/ \E id \in HitHandle(u, p) : v = [u EXCEPT !.pointer = f, !.drag = drag("resize", id)]
      \/ \E id \in Hit(p) : v = [u EXCEPT !.pointer = f, !.sel = id, !.drag = drag("move", id)]
  BY DEF Grab
<1> HIDE DEF drag
<1>4. CASE \E id \in HitHandle(u, p) : v = [u EXCEPT !.pointer = f, !.drag = drag("resize", id)]
  <2> PICK id \in HitHandle(u, p) : v = [u EXCEPT !.pointer = f, !.drag = drag("resize", id)]
    BY <1>4
  <2> DEFINE d == drag("resize", id)
  <2>1. d \in Drags /\ \A w : w.drag = d => GoodDrag(w, board.objects, board.made)
    BY <1>1, <1>2
  <2> HIDE DEF d
  <2>2. v = [u EXCEPT !.pointer = f, !.drag = d]
    BY DEF d
  <2>3. v \in UI /\ v.drag = d /\ v.edit = u.edit /\ v.nav = u.nav /\ v.pointer = f
        /\ v.text = u.text /\ v.draft = u.draft
    BY <2>1, <2>2 DEF UI
  <2> QED
    BY <2>1, <2>3 DEF Begins
<1>5. CASE \E id \in Hit(p) : v = [u EXCEPT !.pointer = f, !.sel = id, !.drag = drag("move", id)]
  <2> PICK id \in Hit(p) : v = [u EXCEPT !.pointer = f, !.sel = id, !.drag = drag("move", id)]
    BY <1>5
  <2> DEFINE d == drag("move", id)
  <2>1. id \in Nat /\ d \in Drags /\ \A w : w.drag = d => GoodDrag(w, board.objects, board.made)
    BY <1>1, <1>2
  <2> HIDE DEF d
  <2>2. v = [u EXCEPT !.pointer = f, !.sel = id, !.drag = d]
    BY DEF d
  <2>3. v \in UI /\ v.drag = d /\ v.edit = u.edit /\ v.nav = u.nav /\ v.pointer = f
        /\ v.text = u.text /\ v.draft = u.draft
    BY <2>1, <2>2 DEF UI
  <2> QED
    BY <2>1, <2>3 DEF Begins
<1> QED
  BY <1>3, <1>4, <1>5

LEMMA StartBegins ==
  ASSUME TypeInv, BoardInv, NEW u \in UI, GoodDrag(u, board.objects, board.made),
         NEW f \in Finger, NEW p \in Position, NEW v \in Start(u, f, p)
  PROVE  Begins(v, u, f)
<1>1. CASE u.tool = "text"
  <2>1. v = [u EXCEPT !.pointer = f, !.text = p]
    BY <1>1 DEF Start
  <2>2. v \in UI /\ v.drag = u.drag /\ v.edit = u.edit /\ v.nav = u.nav /\ v.pointer = f
        /\ v.draft = u.draft
    BY <2>1 DEF UI
  <2> QED
    BY <2>2 DEF Begins, GoodDrag
<1>2. CASE u.tool = "pen"
  <2> DEFINE d == [lo |-> p, hi |-> p]
  <2>1. u.tool # "text"
    BY <1>2
  <2>2. v = [u EXCEPT !.pointer = f, !.draft = d]
    BY <1>2, <2>1 DEF Start
  <2>3. d \in Draft
    BY SizeAssumption DEF Draft, Drafts, Position
  <2> HIDE DEF d
  <2>4. v \in UI /\ v.drag = u.drag /\ v.edit = u.edit /\ v.nav = u.nav /\ v.pointer = f
        /\ v.text = u.text
    BY <2>2, <2>3 DEF UI
  <2> QED
    BY <2>4 DEF Begins, GoodDrag
<1>3. CASE u.tool # "text" /\ u.tool # "pen"
  <2>1. v \in IF Grab(u, f, p) # {} THEN Grab(u, f, p) ELSE {[u EXCEPT !.sel = None, !.drag = None]}
    BY <1>3 DEF Start
  <2>2. CASE v \in Grab(u, f, p)
    BY <2>2, GrabBegins
  <2>3. CASE v = [u EXCEPT !.sel = None, !.drag = None]
    <3>1. v \in UI /\ v.drag = None /\ v.edit = u.edit /\ v.nav = u.nav /\ v.pointer = u.pointer
          /\ v.text = u.text /\ v.draft = u.draft
      BY <2>3 DEF UI
    <3> QED
      BY <3>1 DEF Begins, GoodDrag
  <2> QED
    BY <2>1, <2>2, <2>3
<1> QED
  BY <1>1, <1>2, <1>3

\* How the page takes finger f, if first is the primary finger.
Taken(v, u, first, f) ==
  \/ v \in {ui, u, BeginNavigation(u)}
  \/ Begins(v, u, f) /\ first = f /\ ~ u.nav /\ u.pointer = None

LEMMA TouchTaken ==
  ASSUME TypeInv, BoardInv, NEW f \in Finger, NEW p \in Position, TouchDown(f, p)
  PROVE  \E first \in {hand.primary, f, None} :
           /\ hand.touch # {} => first = hand.primary
           /\ hand.touch = {} /\ ~ TwoHands => first = f
           /\ first \in Finger \cup {None}
           /\ hand' = [hand EXCEPT !.touch = @ \union {f}, !.primary = first, !.late = @ \ {f}]
           /\ Taken(ui', [ui EXCEPT !.edit = @ \union {f}], first, f)
<1> DEFINE u == [ui EXCEPT !.edit = @ \union {f}]
<1>1. PICK first \in IF hand.touch # {} THEN {hand.primary}
                     ELSE {f} \union (IF TwoHands THEN {None} ELSE {}) :
        /\ hand' = [hand EXCEPT !.touch = @ \union {f}, !.primary = first, !.late = @ \ {f}]
        /\ ui' \in CASE view.on \/ board.stage = "loading" -> {ui}
                     [] Cardinality(u.edit) >= 2 -> {BeginNavigation(u)}
                     [] u.nav -> {u}
                     [] first # f -> {ui}
                     [] u.pointer # None -> {u}
                     [] OTHER -> Start(u, f, p)
  BY DEF TouchDown
<1>2. /\ first \in {hand.primary, f, None}
      /\ hand.touch # {} => first = hand.primary
      /\ hand.touch = {} /\ ~ TwoHands => first = f
      /\ first \in Finger \cup {None}
  <2>1. hand.primary \in Finger \cup {None}
    BY DEF TypeInv, Hand
  <2> QED
    BY <2>1
<1>3. u \in UI /\ u.drag = ui.drag
  BY DEF TypeInv, UI
<1>4. GoodDrag(u, board.objects, board.made)
  BY <1>3 DEF BoardInv, GoodDrag
<1> HIDE DEF u
<1>5. Taken(ui', u, first, f)
  <2> DEFINE C1 == view.on \/ board.stage = "loading"
             C2 == Cardinality(u.edit) >= 2
             S == Start(u, f, p)
  <2>1. ui' \in CASE C1 -> {ui} [] C2 -> {BeginNavigation(u)} [] u.nav -> {u}
                  [] first # f -> {ui} [] u.pointer # None -> {u} [] OTHER -> S
    BY <1>1
  <2> HIDE DEF C1, C2, S
  <2>2. \/ ui' \in {ui, u, BeginNavigation(u)}
        \/ ui' \in S /\ first = f /\ ~ u.nav /\ u.pointer = None
    BY <2>1
  <2> QED
    BY <1>3, <1>4, <2>2, StartBegins DEF Taken, S
<1> QED
  BY <1>1, <1>2, <1>5 DEF u

LEMMA TakenType ==
  ASSUME TypeInv, BoardInv, NEW f \in Finger, NEW first,
         Taken(ui', [ui EXCEPT !.edit = @ \union {f}], first, f)
  PROVE  ui' \in UI /\ GoodDrag(ui', board.objects, board.made)
<1> DEFINE u == [ui EXCEPT !.edit = @ \union {f}]
<1>1. ui \in UI /\ GoodDrag(ui, board.objects, board.made)
  BY DEF TypeInv, BoardInv
<1>2. u \in UI /\ u.drag = ui.drag
  BY <1>1 DEF UI
<1> HIDE DEF u
<1>3. u \in UI /\ GoodDrag(u, board.objects, board.made)
  BY <1>1, <1>2 DEF GoodDrag
<1>4. BeginNavigation(u) \in UI /\ (BeginNavigation(u) = u \/ BeginNavigation(u).drag = None)
  BY <1>2, NavigationType
<1>5. Taken(ui', u, first, f)
  BY DEF u
<1>6. CASE ui' = BeginNavigation(u)
  BY <1>3, <1>4, <1>6 DEF GoodDrag
<1> QED
  BY <1>1, <1>3, <1>5, <1>6 DEF Taken, Begins

LEMMA TouchDownStep ==
  ASSUME IInv, NEW f \in Finger, NEW p \in Position, TouchDown(f, p)
  PROVE  IInv'
<1>1. TypeInv /\ BoardInv /\ SightInv
  BY DEF IInv
<1>2. PICK first \in {hand.primary, f, None} :
        /\ first \in Finger \cup {None}
        /\ hand' = [hand EXCEPT !.touch = @ \union {f}, !.primary = first, !.late = @ \ {f}]
        /\ Taken(ui', [ui EXCEPT !.edit = @ \union {f}], first, f)
  BY <1>1, TouchTaken
<1>3. ui' \in UI /\ GoodDrag(ui', board.objects, board.made)
  BY <1>1, <1>2, TakenType
<1>4. UNCHANGED <<editView, board, frame>>
  BY DEF TouchDown
<1>5. hand' \in Hand
  BY <1>1, <1>2 DEF TypeInv, Hand
<1>6. view' \in ViewType /\ view'.on = view.on /\ view'.x = view.x /\ view'.scale = view.scale
  <2>1. view' = IF view.on THEN ViewWith(view.pointers \union {f}) ELSE view
    BY DEF TouchDown
  <2>2. view \in ViewType /\ view.pointers \union {f} \in SUBSET Finger
    BY <1>1 DEF TypeInv, ViewType
  <2> QED
    BY <2>1, <2>2, ViewWithType
<1>7. TypeInv'
  BY <1>1, <1>3, <1>4, <1>5, <1>6 DEF TypeInv
<1>8. BoardInv'
  BY <1>1, <1>3, <1>4 DEF BoardInv
<1> QED
  BY <1>1, <1>4, <1>6, <1>7, <1>8, SameSight DEF IInv

LEMMA TouchDownHands ==
  ASSUME IInv, HandInv, ~ TwoHands, NEW f \in Finger, NEW p \in Position, TouchDown(f, p)
  PROVE  HandInv' /\ WorkStep
<1> DEFINE u == [ui EXCEPT !.edit = @ \union {f}]
<1>1. TypeInv /\ BoardInv /\ f # None
  BY FingerAssumption DEF IInv
<1>2. PICK first \in {hand.primary, f, None} :
        /\ hand.touch # {} => first = hand.primary
        /\ hand.touch = {} => first = f
        /\ hand' = [hand EXCEPT !.touch = @ \union {f}, !.primary = first, !.late = @ \ {f}]
        /\ Taken(ui', u, first, f)
  BY <1>1, TouchTaken
<1>3. u \in UI /\ u.edit = ui.edit \cup {f} /\ u.draft = ui.draft /\ u.drag = ui.drag
      /\ u.text = ui.text /\ u.pointer = ui.pointer /\ u.nav = ui.nav
  BY <1>1 DEF TypeInv, UI
<1> HIDE DEF u
<1>4. hand'.touch = hand.touch \cup {f} /\ hand'.primary = first
  BY <1>1, <1>2 DEF TypeInv, Hand
<1>5. Neat(u)
  BY <1>3 DEF HandInv, Neat
<1>6. \/ ui' = ui
      \/ ui' = u
      \/ ui'.edit = u.edit /\ ui'.nav /\ ui'.pointer = None /\ u.edit # {} /\ Nothing(ui')
      \/ Begins(ui', u, f) /\ first = f /\ ~ u.nav /\ u.pointer = None
  BY <1>2, <1>3, NavigationType DEF Taken, Nothing
<1>7. Neat(ui') /\ ui'.edit \subseteq hand'.touch /\ (ui'.pointer # None => ui'.pointer \in {ui.pointer, f})
  BY <1>1, <1>3, <1>4, <1>5, <1>6 DEF HandInv, Neat, Nothing, Begins
<1>8. ui'.pointer # None => ui'.pointer \in hand'.touch /\ hand'.primary = ui'.pointer
  <2>1. CASE ui'.pointer = ui.pointer
    BY <1>2, <1>4, <2>1 DEF HandInv
  <2>2. CASE ui'.pointer # ui.pointer
    BY <1>3, <1>4, <1>6, <2>2 DEF Begins
  <2> QED
    BY <2>1, <2>2
<1>9. view'.pointers \subseteq hand'.touch
  <2>1. view \in ViewType /\ view.pointers \union {f} \in SUBSET Finger
    BY <1>1 DEF TypeInv, ViewType
  <2>2. view'.pointers \subseteq view.pointers \cup {f}
    BY <2>1, ViewWithType DEF TouchDown
  <2> QED
    BY <1>4, <2>2 DEF HandInv
<1>10. board'.stage \notin {"closed", "away"}
  BY DEF TouchDown
<1>11. HandInv'
  BY <1>7, <1>8, <1>9, <1>10 DEF HandInv, Neat
<1>12. WorkStep
  <2>1. CASE ui'.nav
    BY <2>1 DEF WorkStep
  <2>2. CASE ~ ui'.nav
    <3>1. (ui'.draft = ui.draft \/ ui.draft = None) /\ (ui'.drag = ui.drag \/ ui.drag = None)
      BY <1>3, <1>6, <2>2 DEF HandInv, Neat
    <3> QED
      BY <1>1, <3>1, WorkGoesOn
  <2> QED
    BY <2>1, <2>2
<1> QED
  BY <1>11, <1>12

-----------------------------------------------------------------------------
(* A finger moves *)

LEMMA ZoomType ==
  ASSUME NEW z \in Zooms
  PROVE  z.scale \in Nat /\ z.x \in Int
BY SizeAssumption DEF Zooms, Places

\* With two fingers navigation starts again, or zooms and moves the edit view.
LEMMA Navigated ==
  ASSUME NEW f, Navigate(f)
  PROVE  /\ ui.nav
         /\ \/ ui' = BeginNavigation(ui) /\ editView' = editView
            \/ /\ ui' = ui
               /\ \E z \in Zooms :
                    editView' = ClampView([editView EXCEPT !.scale = z.scale, !.x = z.x])
BY DEF Navigate

LEMMA NavigateStep ==
  ASSUME IInv, NEW f \in Finger, Navigate(f), UNCHANGED <<view, hand, board, frame>>
  PROVE  IInv'
<1>1. TypeInv /\ BoardInv /\ SightInv /\ ui \in UI /\ editView \in EditView
  BY DEF IInv, TypeInv
<1>2. CASE ui' = BeginNavigation(ui) /\ editView' = editView
  <2>1. ui' \in UI /\ (ui'.drag = ui.drag \/ ui'.drag = None)
    BY <1>1, <1>2, NavigationType
  <2>2. TypeInv'
    BY <1>1, <1>2, <2>1 DEF TypeInv
  <2> QED
    BY <1>1, <1>2, <2>1, <2>2, SameBoard, SameSight DEF IInv
<1>3. CASE /\ ui' = ui
           /\ \E z \in Zooms :
                editView' = ClampView([editView EXCEPT !.scale = z.scale, !.x = z.x])
  <2> PICK z \in Zooms :
             editView' = ClampView([editView EXCEPT !.scale = z.scale, !.x = z.x])
    BY <1>3
  <2> DEFINE v == [editView EXCEPT !.scale = z.scale, !.x = z.x]
  <2>1. z.scale \in Nat /\ z.x \in Int
    BY ZoomType
  <2>2. v \in EditView /\ v.width = editView.width
    BY <1>1, <2>1 DEF EditView
  <2> HIDE DEF v
  <2>3. /\ editView' \in EditView /\ editView'.width = editView.width
        /\ Placed(editView'.x, editView.width, editView'.scale)
    BY <2>2, ViewClamped DEF v
  <2>4. TypeInv'
    BY <1>1, <1>3, <2>3 DEF TypeInv
  <2>5. SightInv'
    BY <1>1, <2>3 DEF SightInv, Fitted
  <2> QED
    BY <1>1, <1>3, <2>4, <2>5, SameBoard DEF IInv
<1> QED
  BY <1>2, <1>3, Navigated

LEMMA NavigateHands ==
  ASSUME IInv, HandInv, NEW f \in Finger, Navigate(f), UNCHANGED <<view, hand, board, frame>>
  PROVE  HandInv' /\ WorkStep
<1>1. TypeInv /\ ui \in UI /\ ui.nav
  BY Navigated DEF IInv, TypeInv
<1>2. ui.pointer = None /\ ui.draft = None /\ ui.drag = None /\ ui.text = None /\ ui.edit # {}
  BY <1>1 DEF HandInv, Neat
<1>3. ui' = ui \/ ui' = BeginNavigation(ui)
  BY Navigated
<1>4. ui'.edit = ui.edit /\ ui'.pointer = None /\ Nothing(ui')
  BY <1>1, <1>2, <1>3, NavigationType DEF Nothing
<1>5. HandInv'
  BY <1>2, <1>4 DEF HandInv, Neat, Nothing
<1> QED
  BY <1>1, <1>2, <1>5, WorkGoesOn

\* The drag of the page, after a move.
LEMMA DraggedType ==
  ASSUME TypeInv, BoardInv, NEW f \in Finger, NEW p \in Position, Drag(f, p)
  PROVE  /\ ui' \in UI /\ ui' = [ui EXCEPT !.drag = ui'.drag]
         /\ ui'.drag \in Drags /\ ui'.drag.target = ui.drag.target
         /\ GoodDrag(ui', board.objects, board.made)
<1> DEFINE d == ui.drag
<1>1. ui \in UI /\ board.objects \in ObjectMap /\ Objects = board.objects
  BY DEF TypeInv, Board, Objects
<1>2. d \in Drags /\ d.xf \in Transformation
  BY <1>1 DEF UI, Drag, Drags
<1>3. d.target <= board.made /\ (d.target \in DOMAIN Objects => Fits(Objects[d.target], d.xf))
  BY <1>1 DEF BoardInv, GoodDrag, Drag
<1>4. PICK e \in Drags, b \in BOOLEAN :
        /\ e.target = d.target /\ (e.mode = "move" => e.xf.sc = d.xf.sc)
        /\ ui' = [ui EXCEPT !.drag = [ClampDrag(e) EXCEPT !.moved = @ \/ b]]
  <2>1. CASE /\ d.mode = "move"
             /\ ui' = [ui EXCEPT !.drag =
                    [ClampDrag([d EXCEPT !.xf.dx = d.base.dx + p - d.start])
                       EXCEPT !.moved = @ \/ p # d.start]]
    <3> DEFINE n == d.base.dx + p - d.start
               e == [d EXCEPT !.xf.dx = n]
               b == p # d.start
    <3>1. n \in Int
      BY <1>2, SizeAssumption DEF Drags, Transformation, Position
    <3> HIDE DEF n
    <3>2. e \in Drags /\ e.target = d.target /\ e.xf.sc = d.xf.sc
      BY <1>2, <3>1 DEF Drags, Transformation
    <3>3. ui' = [ui EXCEPT !.drag = [ClampDrag(e) EXCEPT !.moved = @ \/ b]]
      BY <2>1 DEF n
    <3> HIDE DEF e, b
    <3>4. b \in BOOLEAN
      BY DEF b
    <3> QED
      BY <3>2, <3>3, <3>4
  <2>2. CASE /\ d.mode = "resize"
             /\ \E sc \in Scale :
                  ui' = [ui EXCEPT !.drag =
                      [ClampDrag([d EXCEPT !.xf.sc = sc])
                         EXCEPT !.moved = @ \/ sc # d.base.sc]]
    <3> PICK sc \in Scale : ui' = [ui EXCEPT !.drag = [ClampDrag([d EXCEPT !.xf.sc = sc])
                                                         EXCEPT !.moved = @ \/ sc # d.base.sc]]
      BY <2>2
    <3> DEFINE e == [d EXCEPT !.xf.sc = sc]
               b == sc # d.base.sc
    <3>1. sc \in Nat
      BY SizeAssumption DEF Scale
    <3>2. e \in Drags /\ e.target = d.target /\ e.mode = "resize"
      BY <1>2, <2>2, <3>1 DEF Drags, Transformation
    <3>3. ui' = [ui EXCEPT !.drag = [ClampDrag(e) EXCEPT !.moved = @ \/ b]]
      OBVIOUS
    <3> HIDE DEF e, b
    <3>4. b \in BOOLEAN
      BY DEF b
    <3> QED
      BY <3>2, <3>3, <3>4
  <2> QED
    BY <2>1, <2>2 DEF Drag
<1> DEFINE c == ClampDrag(e)
           r == [c EXCEPT !.moved = c.moved \/ b]
<1> HIDE DEF d
<1>5. ASSUME e.mode = "move", e.target \in DOMAIN Objects, Objects[e.target].k = "s"
      PROVE  (Objects[e.target].hi - Objects[e.target].lo) * e.xf.sc <= Width
  <2>1. Objects[d.target] \in Object /\ Fits(Objects[d.target], d.xf) /\ Objects[d.target].k = "s"
    BY <1>1, <1>3, <1>4, <1>5, ObjectTyped
  <2>2. (Objects[d.target].hi - Objects[d.target].lo) * d.xf.sc <= Width
    BY <1>2, <2>1, FittingIsNarrow
  <2> QED
    BY <1>4, <1>5, <2>2
<1>6. /\ c \in Drags /\ c.target = d.target
      /\ d.target \in DOMAIN Objects => Fits(Objects[d.target], c.xf)
  BY <1>1, <1>4, <1>5, DragClamped
<1>7. ui' = [ui EXCEPT !.drag = r]
  BY <1>4, <1>6 DEF Drags
<1> HIDE DEF c
<1>8. r \in Drags /\ r.target = c.target /\ r.xf = c.xf
  BY <1>4, <1>6 DEF Drags
<1> HIDE DEF r
<1>9. ui' \in UI /\ ui'.drag = r
  BY <1>1, <1>7, <1>8 DEF UI
<1>10. GoodDrag(ui', board.objects, board.made)
  BY <1>1, <1>3, <1>6, <1>8, <1>9 DEF GoodDrag
<1> QED
  BY <1>6, <1>7, <1>8, <1>9, <1>10 DEF d

\* The drawing of the page, after a move.
LEMMA DrawnType ==
  ASSUME TypeInv, NEW f \in Finger, NEW p \in Position, Draw(f, p)
  PROVE  /\ ui' \in UI /\ ui' = [ui EXCEPT !.draft = ui'.draft]
         /\ ui'.draft \in Drafts /\ ui'.draft.lo <= ui.draft.lo /\ ui.draft.hi <= ui'.draft.hi
<1> DEFINE lo == ui.draft.lo
           hi == ui.draft.hi
           new == [lo |-> Min({lo, p}), hi |-> Max({hi, p})]
<1>1. ui \in UI
  BY DEF TypeInv
<1>2. lo \in Position /\ hi \in Position /\ lo <= hi /\ \A x \in Position : x \in Int
  BY <1>1, SizeAssumption DEF UI, Draw, Draft, Drafts, Position
<1>3. ui' = [ui EXCEPT !.draft = new]
  BY <1>1 DEF Draw, UI
<1> HIDE DEF lo, hi
<1>4. new.lo = (IF lo <= p THEN lo ELSE p) /\ new.hi = (IF hi >= p THEN hi ELSE p)
  BY <1>2, MinOfTwo, MaxOfTwo
<1>5. new.lo \in Position /\ new.hi \in Position /\ new.lo <= lo /\ hi <= new.hi /\ new.lo <= new.hi
  BY <1>2, <1>4
<1>6. new = [lo |-> new.lo, hi |-> new.hi]
  OBVIOUS
<1> HIDE DEF new
<1>7. new \in Drafts /\ new \in Draft
  BY <1>5, <1>6 DEF Draft, Drafts
<1>8. ui' \in UI /\ ui'.draft = new
  BY <1>1, <1>3, <1>7 DEF UI
<1> QED
  BY <1>3, <1>5, <1>7, <1>8 DEF lo, hi

LEMMA TouchMoveStep ==
  ASSUME IInv, NEW f \in Finger, TouchMove(f)
  PROVE  IInv'
<1>1. TypeInv /\ BoardInv /\ SightInv /\ ui \in UI
  BY DEF IInv, TypeInv
<1>2. UNCHANGED <<view, hand, board, frame>>
  BY DEF TouchMove
<1>3. CASE Navigate(f)
  BY <1>2, <1>3, NavigateStep
<1>4. ASSUME NEW p \in Position, Drag(f, p)
      PROVE  IInv'
  <2>1. ui' \in UI /\ GoodDrag(ui', board.objects, board.made) /\ editView' = editView
    BY <1>1, <1>4, DraggedType DEF Drag
  <2>2. TypeInv' /\ BoardInv'
    BY <1>1, <1>2, <2>1 DEF TypeInv, BoardInv
  <2> QED
    BY <1>1, <1>2, <2>1, <2>2, SameSight DEF IInv
<1>5. ASSUME NEW p \in Position, Draw(f, p)
      PROVE  IInv'
  <2>1. ui' \in UI /\ ui' = [ui EXCEPT !.draft = ui'.draft] /\ editView' = editView
    BY <1>1, <1>5, DrawnType DEF Draw
  <2>2. ui'.drag = ui.drag
    BY <1>1, <2>1 DEF UI
  <2>3. TypeInv'
    BY <1>1, <1>2, <2>1 DEF TypeInv
  <2> QED
    BY <1>1, <1>2, <2>1, <2>2, <2>3, SameBoard, SameSight DEF IInv
<1> QED
  BY <1>3, <1>4, <1>5 DEF TouchMove

LEMMA TouchMoveHands ==
  ASSUME IInv, HandInv, NEW f \in Finger, TouchMove(f)
  PROVE  HandInv' /\ WorkStep
<1>1. TypeInv /\ BoardInv /\ ui \in UI /\ f # None
  BY FingerAssumption DEF IInv, TypeInv
<1>2. UNCHANGED <<view, hand, board, frame>>
  BY DEF TouchMove
<1>3. CASE Navigate(f)
  BY <1>2, <1>3, NavigateHands
<1>4. ASSUME NEW p \in Position, Drag(f, p)
      PROVE  HandInv' /\ WorkStep
  <2>1. /\ ui' \in UI /\ ui' = [ui EXCEPT !.drag = ui'.drag]
        /\ ui'.drag \in Drags /\ ui'.drag.target = ui.drag.target
    BY <1>1, <1>4, DraggedType
  <2>2. /\ ui'.draft = ui.draft /\ ui'.text = ui.text /\ ui'.pointer = ui.pointer
        /\ ui'.edit = ui.edit /\ ui'.nav = ui.nav
    BY <1>1, <2>1 DEF UI
  <2>3. ui'.drag # None /\ ui.drag # None /\ ui.pointer # None
    BY <1>1, <1>4, <2>1, NoneAssumption DEF Drag, Drawing
  <2>4. HandInv'
    BY <1>2, <2>2, <2>3 DEF HandInv, Neat
  <2>5. WorkStep
    BY <2>1, <2>3 DEF WorkStep, HandInv, Neat
  <2> QED
    BY <2>4, <2>5
<1>5. ASSUME NEW p \in Position, Draw(f, p)
      PROVE  HandInv' /\ WorkStep
  <2>1. /\ ui' \in UI /\ ui' = [ui EXCEPT !.draft = ui'.draft]
        /\ ui'.draft \in Drafts /\ ui'.draft.lo <= ui.draft.lo /\ ui.draft.hi <= ui'.draft.hi
    BY <1>1, <1>5, DrawnType
  <2>2. /\ ui'.drag = ui.drag /\ ui'.text = ui.text /\ ui'.pointer = ui.pointer
        /\ ui'.edit = ui.edit /\ ui'.nav = ui.nav
    BY <1>1, <2>1 DEF UI
  <2>3. ui'.draft # None /\ ui.draft # None /\ ui.drag = None /\ ui.pointer # None
    BY <1>1, <1>5, <2>1, NoneAssumption DEF Draw, Drawing
  <2>4. HandInv'
    BY <1>2, <2>2, <2>3 DEF HandInv, Neat
  <2>5. WorkStep
    BY <2>1, <2>3 DEF WorkStep
  <2> QED
    BY <2>4, <2>5
<1> QED
  BY <1>3, <1>4, <1>5 DEF TouchMove

-----------------------------------------------------------------------------
(* The full-screen view *)

LEMMA ZoomedView ==
  ASSUME view \in ViewType, NEW s \in Nat, NEW x \in Int
  PROVE  LET v == [view EXCEPT !.scale = s, !.x = x]
         IN v \in ViewType /\ v.on = view.on /\ v.pointers = view.pointers
BY DEF ViewType

\* Another view of the same place, with the same fingers on it.
LEMMA OtherView ==
  ASSUME IInv, view' \in ViewType, view'.on = view.on, view'.pointers = view.pointers,
         Placed(view'.x, frame, view'.scale),
         UNCHANGED <<ui, editView, hand, board, frame>>
  PROVE  /\ IInv'
         /\ HandInv => HandInv' /\ WorkStep
<1>1. TypeInv'
  BY DEF IInv, TypeInv
<1>2. BoardInv'
  BY SameBoard DEF IInv
<1>3. SightInv'
  BY DEF IInv, SightInv, Fitted
<1>4. HandInv => HandInv'
  BY DEF HandInv
<1>5. WorkStep
  BY WorkGoesOn DEF IInv
<1> QED
  BY <1>1, <1>2, <1>3, <1>4, <1>5 DEF IInv

LEMMA ViewMoveStep ==
  ASSUME IInv, NEW f \in Finger, ViewMove(f)
  PROVE  /\ IInv'
         /\ HandInv => HandInv' /\ WorkStep
<1>1. view \in ViewType /\ frame \in Nat /\ view.pointers \in SUBSET Finger
  BY FrameType DEF IInv, TypeInv, ViewType
<1> DEFINE Good(w) == /\ w \in ViewType /\ w.on = view.on /\ w.pointers = view.pointers
                      /\ Placed(w.x, frame, w.scale)
           panned(x) == ViewPlaced([view EXCEPT !.x = x])
           zoomed(z) == ViewPlaced([view EXCEPT !.scale = z.scale, !.x = z.x])
           A == {panned(x) : x \in Places}
           B == {zoomed(z) : z \in Zooms}
           C == ViewPlaced(ViewWith(view.pointers))
           pan == view.gesture = "pan" /\ view.pointers = {f}
           pinch == view.gesture = "pinch" /\ Cardinality(view.pointers) >= 2
<1>2. \A x \in Places : Good(panned(x))
  <2> TAKE x \in Places
  <2> DEFINE v == [view EXCEPT !.x = x]
  <2>1. x \in Int
    BY SizeAssumption DEF Places
  <2>2. v \in ViewType /\ v.on = view.on /\ v.pointers = view.pointers
    BY <1>1, <2>1 DEF ViewType
  <2> HIDE DEF v
  <2>3. Good(ViewPlaced(v))
    BY <1>1, <2>2, ViewPlacedType
  <2> QED
    BY <2>3 DEF v
<1>3. \A z \in Zooms : Good(zoomed(z))
  <2> TAKE z \in Zooms
  <2> DEFINE v == [view EXCEPT !.scale = z.scale, !.x = z.x]
  <2>1. v \in ViewType /\ v.on = view.on /\ v.pointers = view.pointers
    BY <1>1, ZoomType, ZoomedView
  <2> HIDE DEF v
  <2>2. Good(ViewPlaced(v))
    BY <1>1, <2>1, ViewPlacedType
  <2> QED
    BY <2>2 DEF v
<1>4. Good(C)
  BY <1>1, ViewWithType, ViewPlacedType
<1>5. view' \in CASE pan -> A [] pinch -> B [] OTHER -> {C}
  BY DEF ViewMove
<1>6. view' \in A \/ view' \in B \/ view' = C
  <2> HIDE DEF A, B, C, pan, pinch
  <2> QED
    BY <1>5
<1>7. Good(view')
  <2> HIDE DEF panned, zoomed, C, Good
  <2> QED
    BY <1>2, <1>3, <1>4, <1>6
<1>8. UNCHANGED <<ui, editView, hand, board, frame>>
  BY DEF ViewMove
<1> QED
  BY <1>7, <1>8, OtherView

LEMMA ViewWheelStep ==
  ASSUME IInv, ViewWheel
  PROVE  /\ IInv'
         /\ HandInv => HandInv' /\ WorkStep
<1>1. view \in ViewType /\ frame \in Nat
  BY FrameType DEF IInv, TypeInv
<1>2. PICK z \in Zooms : view' = ViewPlaced([view EXCEPT !.scale = z.scale, !.x = z.x])
  BY DEF ViewWheel
<1> DEFINE v == [view EXCEPT !.scale = z.scale, !.x = z.x]
<1>3. v \in ViewType /\ v.on = view.on /\ v.pointers = view.pointers
  BY <1>1, ZoomType, ZoomedView
<1> HIDE DEF v
<1>4. /\ view' \in ViewType /\ view'.on = view.on /\ view'.pointers = view.pointers
      /\ Placed(view'.x, frame, view'.scale)
  BY <1>1, <1>2, <1>3, ViewPlacedType DEF v
<1>5. UNCHANGED <<ui, editView, hand, board, frame>>
  BY DEF ViewWheel
<1> QED
  BY <1>4, <1>5, OtherView

LEMMA ResetAgainStep ==
  ASSUME IInv, ResetAgain
  PROVE  /\ IInv'
         /\ HandInv => HandInv' /\ WorkStep
<1>1. view \in ViewType /\ frame \in Nat
  BY FrameType DEF IInv, TypeInv
<1>2. /\ view' \in ViewType /\ view'.on = view.on /\ view'.pointers = view.pointers
      /\ Placed(view'.x, frame, view'.scale)
  BY <1>1, ViewResetType DEF ResetAgain
<1>3. UNCHANGED <<ui, editView, hand, board, frame>>
  BY DEF ResetAgain
<1> QED
  BY <1>2, <1>3, OtherView

LEMMA EnterViewStep ==
  ASSUME IInv, EnterView
  PROVE  /\ IInv'
         /\ HandInv /\ ~ TwoHands => HandInv' /\ WorkStep
<1>1. /\ ui \in UI /\ view \in ViewType /\ frame \in Nat
      /\ TypeInv /\ BoardInv /\ SightInv
  BY FrameType DEF IInv, TypeInv
<1>2. /\ ui' \in UI /\ ui'.drag = None /\ ui'.draft = None /\ ui'.pointer = None
      /\ ui'.edit = ui.edit /\ ui'.nav = ui.nav /\ ui'.text = ui.text
  BY <1>1 DEF EnterView, UI
<1> DEFINE v == [ViewOff EXCEPT !.on = TRUE]
<1>3. v \in ViewType /\ v.on /\ v.pointers = {} /\ view' = ViewReset(v)
  BY ViewOffType DEF EnterView
<1> HIDE DEF v
<1>4. /\ view' \in ViewType /\ view'.on /\ view'.pointers = {}
      /\ Placed(view'.x, frame, view'.scale)
  BY <1>1, <1>3, ViewResetType
<1>5. UNCHANGED <<editView, hand, board, frame>> /\ board.stage \in {"open", "resuming"}
  BY DEF EnterView, Button
<1>6. TypeInv' /\ BoardInv'
  BY <1>1, <1>2, <1>4, <1>5, SameBoard DEF TypeInv
<1>7. SightInv'
  BY <1>1, <1>4, <1>5, FittedView DEF SightInv
<1>8. ASSUME HandInv, ~ TwoHands
      PROVE  HandInv' /\ WorkStep
  <2>1. hand.touch = {} /\ ui.pointer = None /\ ui.text = None
    BY <1>1, <1>8, FingerAssumption DEF HandInv, Neat, EnterView, Button
  <2>2. HandInv'
    BY <1>2, <1>4, <1>5, <1>8, <2>1 DEF HandInv, Neat
  <2>3. WorkStep
    BY <1>4 DEF WorkStep
  <2> QED
    BY <2>2, <2>3
<1> QED
  BY <1>6, <1>7, <1>8 DEF IInv

LEMMA ExitViewStep ==
  ASSUME IInv, ExitView
  PROVE  /\ IInv'
         /\ HandInv => HandInv' /\ WorkStep
<1>1. TypeInv /\ BoardInv /\ SightInv /\ frame \in Nat /\ editView \in EditView /\ view.on
  BY FrameType DEF IInv, TypeInv, ExitView
<1>2. view' \in ViewType /\ ~ view'.on /\ view'.pointers = {}
  BY ViewOffType DEF ExitView
<1>3. UNCHANGED <<ui, hand, board, frame>>
  BY DEF ExitView
<1>4. /\ editView' \in EditView /\ editView'.width = frame
      /\ Placed(editView'.x, frame, editView'.scale)
  BY <1>1, ViewFitted DEF ExitView, ViewLeft, SightInv
<1>5. TypeInv' /\ BoardInv'
  BY <1>1, <1>2, <1>3, <1>4, SameBoard DEF TypeInv
<1>6. SightInv'
  BY <1>2, <1>3, <1>4 DEF SightInv, Fitted
<1>7. HandInv => HandInv'
  BY <1>2, <1>3 DEF HandInv
<1>8. WorkStep
  BY <1>1, <1>3, WorkGoesOn
<1> QED
  BY <1>5, <1>6, <1>7, <1>8 DEF IInv

-----------------------------------------------------------------------------
(* A finger goes *)

\* The steps after which the handler's result s is the page's state, while finger f
\* goes or is lost.
LEMMA EndStep ==
  ASSUME IInv, NEW f \in Finger, NEW s, GoodState(s), Becomes(s),
         view' = view \/ view' = ViewWith(view.pointers \ {f}),
         hand' \in Hand, UNCHANGED <<editView, frame>>
  PROVE  IInv'
<1>1. TypeInv /\ SightInv /\ view \in ViewType
  BY DEF IInv, TypeInv
<1>2. ui' \in UI /\ board' \in Board /\ BoardInv' /\ board'.stage = board.stage
  BY <1>1, BecomesGood
<1>3. view' \in ViewType /\ view'.on = view.on /\ view'.x = view.x /\ view'.scale = view.scale
  <2>1. view.pointers \ {f} \in SUBSET Finger
    BY <1>1 DEF ViewType
  <2> QED
    BY <1>1, <2>1, ViewWithType
<1>4. TypeInv'
  BY <1>1, <1>2, <1>3 DEF TypeInv
<1>5. SightInv'
  BY <1>1, <1>2, <1>3, SameSight
<1> QED
  BY <1>2, <1>4, <1>5 DEF IInv

LEMMA EndHands ==
  ASSUME IInv, HandInv, NEW f \in Finger, NEW s, GoodState(s), Ends(s, f), Becomes(s),
         \/ /\ hand'.touch = hand.touch
            /\ view' = view \/ view' = ViewWith(view.pointers \ {f})
         \/ /\ hand'.touch = hand.touch \ {f}
            /\ view' = IF f \in view.pointers THEN ViewWith(view.pointers \ {f}) ELSE view,
         hand'.primary = hand.primary
  PROVE  HandInv' /\ WorkStep
<1>1. TypeInv /\ view \in ViewType
  BY DEF IInv, TypeInv
<1>2. ui' = s.ui /\ board'.stage = board.stage
  BY <1>1, BecomesGood
<1>3. /\ Neat(s.ui) /\ s.ui.edit = ui.edit \ {f}
      /\ s.ui.pointer # None => s.ui.pointer = ui.pointer /\ s.ui.pointer # f
      /\ KeptIn(s)
  BY DEF HandInv, Ends
<1>4. hand'.touch \in {hand.touch, hand.touch \ {f}}
  OBVIOUS
<1>5. view'.pointers \subseteq hand'.touch
  <2>1. ViewWith(view.pointers \ {f}).pointers = view.pointers \ {f}
    BY <1>1, ViewWithType DEF ViewType
  <2> QED
    BY <2>1 DEF HandInv
<1>6. ui'.edit \subseteq hand'.touch
  BY <1>2, <1>3, <1>4 DEF HandInv
<1>7. ui'.pointer # None => ui'.pointer \in hand'.touch /\ hand'.primary = ui'.pointer
  BY <1>2, <1>3, <1>4 DEF HandInv
<1>8. board'.stage \in {"closed", "away"} => hand'.touch = {}
  BY <1>2, <1>4 DEF HandInv
<1>9. HandInv'
  BY <1>2, <1>3, <1>5, <1>6, <1>7, <1>8 DEF HandInv, Neat
<1> QED
  BY <1>1, <1>3, <1>9, BecomesKept

LEMMA GoneStep ==
  ASSUME IInv, NEW f \in Finger, NEW s, GoodState(s), Ends(s, f), Gone(f), Becomes(s)
  PROVE  /\ IInv'
         /\ HandInv => HandInv' /\ WorkStep
<1>1. hand \in Hand
  BY DEF IInv, TypeInv
<1>2. hand' \in Hand /\ hand'.touch = hand.touch \ {f} /\ hand'.primary = hand.primary
  BY <1>1 DEF Gone, Hand
<1>3. /\ view' = IF f \in view.pointers THEN ViewWith(view.pointers \ {f}) ELSE view
      /\ UNCHANGED <<editView, frame>>
  BY DEF Gone
<1>4. IInv'
  BY <1>2, <1>3, EndStep
<1>5. HandInv => HandInv' /\ WorkStep
  BY <1>2, <1>3, EndHands
<1> QED
  BY <1>4, <1>5

LEMMA StaysStep ==
  ASSUME IInv, NEW f \in Finger, NEW s, GoodState(s), Ends(s, f), Becomes(s),
         view' = view \/ view' = ViewWith(view.pointers \ {f}),
         UNCHANGED <<editView, hand, frame>>
  PROVE  /\ IInv'
         /\ HandInv => HandInv' /\ WorkStep
<1>1. hand' \in Hand
  BY DEF IInv, TypeInv
<1>2. IInv'
  BY <1>1, EndStep
<1>3. HandInv => HandInv' /\ WorkStep
  BY EndHands
<1> QED
  BY <1>2, <1>3

LEMMA FingerStep ==
  ASSUME IInv, NEW f \in Finger, NEW typed \in BOOLEAN,
         \/ TouchUp(f, typed) \/ TouchCancel(f, typed)
         \/ CaptureLost(f, typed) \/ Leaves(f, typed) \/ Late(f, typed)
  PROVE  /\ IInv'
         /\ HandInv => HandInv' /\ WorkStep
<1>1. TypeInv /\ BoardInv
  BY DEF IInv
<1>2. /\ GoodState(Up(f, typed)) /\ Ends(Up(f, typed), f)
      /\ GoodState(Cancel(f, typed)) /\ Ends(Cancel(f, typed), f)
      /\ GoodState(Lost(f, typed)) /\ Ends(Lost(f, typed), f)
  BY <1>1, UpEnds, CancelEnds, LostEnds
<1>3. CASE TouchUp(f, typed)
  BY <1>2, <1>3, GoneStep DEF TouchUp
<1>4. CASE TouchCancel(f, typed)
  BY <1>2, <1>4, GoneStep DEF TouchCancel
<1>5. CASE CaptureLost(f, typed)
  <2>1. /\ Becomes(Lost(f, typed)) /\ UNCHANGED <<editView, hand, frame>>
        /\ view' = view \/ view' = ViewWith(view.pointers \ {f})
    BY <1>5 DEF CaptureLost
  <2> QED
    BY <1>2, <2>1, StaysStep
<1>6. CASE Leaves(f, typed)
  <2>1. Becomes(Up(f, typed)) /\ UNCHANGED <<view, editView, hand, frame>>
    BY <1>6 DEF Leaves
  <2> QED
    BY <1>2, <2>1, StaysStep
<1>7. CASE Late(f, typed)
  <2>1. /\ Becomes(Lost(f, typed)) \/ Becomes(Up(f, typed))
        /\ UNCHANGED <<view, editView, hand, frame>>
    BY <1>7 DEF Late
  <2> QED
    BY <1>2, <2>1, StaysStep
<1> QED
  BY <1>3, <1>4, <1>5, <1>6, <1>7

-----------------------------------------------------------------------------
(* Buttons *)

LEMMA ToggleToolStep ==
  ASSUME IInv, NEW tool \in Tools, ToggleTool(tool)
  PROVE  /\ IInv'
         /\ HandInv => HandInv' /\ WorkStep
<1>1. TypeInv /\ BoardInv /\ SightInv /\ ui \in UI
  BY DEF IInv, TypeInv
<1> DEFINE new == IF ui.tool = tool THEN "select" ELSE tool
<1>2. new \in Tools \cup {"select"} /\ ui' = [ui EXCEPT !.tool = new]
  BY <1>1 DEF ToggleTool, UI
<1> HIDE DEF new
<1>3. ui' \in UI /\ SameGesture(ui', ui)
  BY <1>1, <1>2 DEF UI, SameGesture
<1>4. UNCHANGED <<view, editView, hand, board, frame>>
  BY DEF ToggleTool
<1>5. TypeInv' /\ BoardInv'
  BY <1>1, <1>3, <1>4, SameBoard DEF TypeInv, SameGesture
<1>6. SightInv'
  BY <1>1, <1>4, SameSight
<1>7. HandInv => HandInv'
  BY <1>3, <1>4 DEF HandInv, Neat, SameGesture
<1>8. WorkStep
  BY <1>1, <1>3, WorkGoesOn DEF SameGesture
<1> QED
  BY <1>5, <1>6, <1>7, <1>8 DEF IInv

\* Fewer objects.
LEMMA ObjectsRemoved ==
  ASSUME TypeInv, BoardInv, NEW ids
  PROVE  LET new == [id \in DOMAIN Objects \ ids |-> Objects[id]]
         IN /\ new \in ObjectMap /\ GoodObjects(new, board.made)
            /\ GoodDrag(ui, new, board.made)
<1> DEFINE D == DOMAIN Objects \ ids
           new == [id \in D |-> Objects[id]]
<1>1. Objects = board.objects /\ Objects \in ObjectMap /\ board.made \in Nat
  BY DEF TypeInv, Board, Objects
<1>2. DOMAIN Objects \in SUBSET Nat /\ \A id \in DOMAIN Objects : Objects[id] \in Object
  BY <1>1, ObjectTyped DEF ObjectMap
<1>3. D \in SUBSET Nat /\ new \in [D -> Object] /\ \A id \in D : new[id] = Objects[id]
  BY <1>2
<1>4. DOMAIN new = D
  OBVIOUS
<1> HIDE DEF new
<1>5. new \in ObjectMap
  BY <1>3 DEF ObjectMap
<1>6. GoodObjects(new, board.made) /\ GoodDrag(ui, new, board.made)
  BY <1>1, <1>3, <1>4 DEF BoardInv, GoodObjects, GoodDrag
<1> QED
  BY <1>5, <1>6 DEF new

LEMMA RemoveStep ==
  ASSUME IInv, NEW ids, Remove(ids)
  PROVE  /\ IInv'
         /\ HandInv => HandInv' /\ WorkStep
<1> DEFINE new == [id \in DOMAIN Objects \ ids |-> Objects[id]]
           s == IF ~ Writable THEN Now ELSE Applied(Now, new, board.made)
           u == [s.ui EXCEPT !.sel = None]
<1>1. TypeInv /\ BoardInv /\ SightInv /\ ui \in UI /\ board.made \in Nat
  BY DEF IInv, TypeInv, Board
<1>2. GoodState(Now) /\ Now.ui = ui /\ Now.objects = board.objects /\ Now.made = board.made
  BY <1>1, NowGood
<1>3. GoodState(s) /\ SameGesture(s.ui, ui)
  <2>1. CASE ~ Writable
    BY <1>2, <2>1 DEF SameGesture
  <2>2. CASE Writable
    <3>1. new \in ObjectMap /\ GoodObjects(new, board.made) /\ GoodDrag(ui, new, board.made)
      BY <1>1, ObjectsRemoved
    <3> DEFINE a == Applied(Now, new, board.made)
    <3> HIDE DEF new
    <3>2. Now \in State
      BY <1>2 DEF GoodState
    <3>3. a \in State /\ a.objects = new /\ a.made = board.made /\ SameGesture(a.ui, ui)
      BY <1>1, <1>2, <3>1, <3>2, AppliedType
    <3>4. s = a
      BY <2>2
    <3> HIDE DEF a, s
    <3> QED
      BY <3>1, <3>3, <3>4 DEF GoodState, GoodDrag, SameGesture
  <2> QED
    BY <2>1, <2>2
<1>4. /\ Button /\ Becomes([s EXCEPT !.ui.sel = None])
      /\ UNCHANGED <<view, editView, hand, frame>>
  BY DEF Remove
<1> HIDE DEF s
<1>5. s \in State /\ s.ui \in UI
  BY <1>3 DEF GoodState, State
<1>6. u \in UI /\ SameGesture(u, ui)
  BY <1>3, <1>5 DEF UI, SameGesture
<1>7. [s EXCEPT !.ui.sel = None] = [s EXCEPT !.ui = u]
  BY <1>5 DEF State
<1> HIDE DEF u
<1>8. u.drag = s.ui.drag
  BY <1>3, <1>6 DEF SameGesture
<1>9. GoodState([s EXCEPT !.ui = u]) /\ [s EXCEPT !.ui = u].ui = u
  BY <1>3, <1>6, <1>8, OtherUI
<1> DEFINE t == [s EXCEPT !.ui = u]
<1>10. GoodState(t) /\ t.ui = u /\ Becomes(t)
  BY <1>4, <1>7, <1>9
<1> HIDE DEF t
<1>11. ui' \in UI /\ board' \in Board /\ BoardInv' /\ board'.stage = board.stage /\ ui' = u
  BY <1>1, <1>10, BecomesGood
<1>12. TypeInv'
  BY <1>1, <1>4, <1>11 DEF TypeInv
<1>13. SightInv'
  BY <1>1, <1>4, <1>11, SameSight
<1>14. HandInv => HandInv'
  BY <1>4, <1>6, <1>11 DEF HandInv, Neat, SameGesture
<1>15. WorkStep
  BY <1>1, <1>6, <1>11, WorkGoesOn DEF SameGesture
<1> QED
  BY <1>11, <1>12, <1>13, <1>14, <1>15 DEF IInv

-----------------------------------------------------------------------------
(* Boards *)

\* cb_reset_edit_view lets go of the fingers, not of what is drawn or dragged.
LEMMA WithoutFingersType ==
  ASSUME NEW u \in UI
  PROVE  LET v == WithoutFingers(u)
         IN /\ v \in UI /\ v.edit = {} /\ ~ v.nav /\ v.text = None
            /\ v.pointer = u.pointer /\ v.draft = u.draft /\ v.drag = u.drag
<1>1. 0 \in 0 .. Cardinality(Finger)
  BY FingerAssumption, FS_CardinalityType
<1> QED
  BY <1>1 DEF WithoutFingers, UI

LEMMA OpenBoardStep ==
  ASSUME IInv, OpenBoard
  PROVE  /\ IInv'
         /\ HandInv => HandInv' /\ WorkStep
<1>1. TypeInv /\ BoardInv /\ SightInv /\ ui \in UI /\ board \in Board /\ board.stage = "closed"
  BY DEF IInv, TypeInv, OpenBoard
<1> DEFINE v == WithoutFingers(ui)
<1>2. /\ v \in UI /\ v.edit = {} /\ ~ v.nav /\ v.text = None
      /\ v.pointer = ui.pointer /\ v.draft = ui.draft /\ v.drag = ui.drag
  BY <1>1, WithoutFingersType
<1>3. ui' = [v EXCEPT !.sel = None] /\ UNCHANGED <<view, hand, frame>>
  BY DEF OpenBoard
<1> HIDE DEF v
<1>4. /\ ui' \in UI /\ ui'.edit = {} /\ ~ ui'.nav /\ ui'.text = None
      /\ ui'.pointer = ui.pointer /\ ui'.draft = ui.draft /\ ui'.drag = ui.drag
  BY <1>2, <1>3 DEF UI
<1>5. /\ board' \in Board /\ board'.stage = "loading"
      /\ board'.objects = board.objects /\ board'.made = board.made
  BY <1>1 DEF OpenBoard, Board
<1>6. editView' \in EditView
  BY DEF OpenBoard, Unfitted, EditView
<1>7. TypeInv' /\ BoardInv'
  BY <1>1, <1>3, <1>4, <1>5, <1>6 DEF TypeInv, BoardInv, GoodDrag
<1>8. SightInv'
  BY <1>1, <1>3, <1>5 DEF SightInv
<1>9. HandInv => HandInv'
  BY <1>3, <1>4, <1>5 DEF HandInv, Neat
<1>10. WorkStep
  BY <1>1, <1>4, WorkGoesOn
<1> QED
  BY <1>7, <1>8, <1>9, <1>10 DEF IInv

LEMMA LoadStep ==
  ASSUME IInv, Load
  PROVE  /\ IInv'
         /\ HandInv => HandInv' /\ WorkStep
<1>1. TypeInv /\ BoardInv /\ SightInv /\ board \in Board
  BY DEF IInv, TypeInv
<1>2. /\ board' \in Board /\ board'.stage = "loading"
      /\ board'.objects = board.objects /\ board'.made = board.made
      /\ UNCHANGED <<ui, view, editView, hand, frame>>
  BY <1>1 DEF Load, Board
<1>3. TypeInv' /\ BoardInv'
  BY <1>1, <1>2 DEF TypeInv, BoardInv
<1>4. SightInv'
  BY <1>1, <1>2 DEF SightInv
<1>5. HandInv => HandInv'
  BY <1>2 DEF HandInv
<1>6. WorkStep
  BY <1>1, <1>2, WorkGoesOn
<1> QED
  BY <1>3, <1>4, <1>5, <1>6 DEF IInv

LEMMA FinishReplayStep ==
  ASSUME IInv, FinishReplay
  PROVE  /\ IInv'
         /\ HandInv => HandInv' /\ WorkStep
<1>1. /\ TypeInv /\ BoardInv /\ SightInv /\ ui \in UI /\ board \in Board
      /\ frame \in Nat /\ editView \in EditView
  BY FrameType DEF IInv, TypeInv
<1>2. ui' \in UI /\ SameGesture(ui', ui)
  BY <1>1, RedrawnType DEF FinishReplay
<1>3. /\ board' \in Board /\ board'.stage = "open"
      /\ board'.objects = board.objects /\ board'.made = board.made
      /\ UNCHANGED <<view, hand, frame>>
  BY <1>1 DEF FinishReplay, Board
<1>4. /\ editView' \in EditView
      /\ view.on => editView' = editView
      /\ ~ view.on => editView'.width = frame /\ Placed(editView'.x, frame, editView'.scale)
  BY <1>1, ViewFitted DEF FinishReplay
<1>5. TypeInv' /\ BoardInv'
  BY <1>1, <1>2, <1>3, <1>4 DEF TypeInv, BoardInv, GoodDrag, SameGesture
<1>6. SightInv'
  BY <1>1, <1>3, <1>4 DEF SightInv, Fitted
<1>7. HandInv => HandInv'
  BY <1>2, <1>3 DEF HandInv, Neat, SameGesture
<1>8. WorkStep
  BY <1>1, <1>2, WorkGoesOn DEF SameGesture
<1> QED
  BY <1>5, <1>6, <1>7, <1>8 DEF IInv

LEMMA CloseBoardStep ==
  ASSUME IInv, CloseBoard
  PROVE  /\ IInv'
         /\ HandInv /\ ~ TwoHands => HandInv' /\ WorkStep
<1>1. TypeInv /\ BoardInv /\ ui \in UI /\ board \in Board
  BY DEF IInv, TypeInv
<1>2. /\ ui' \in UI /\ ui'.edit = {} /\ ~ ui'.nav /\ ui'.text = None
      /\ ui'.pointer = ui.pointer /\ ui'.draft = ui.draft /\ ui'.drag = ui.drag
  BY <1>1, WithoutFingersType DEF CloseBoard
<1>3. /\ board' \in Board /\ board'.stage = "closed"
      /\ DOMAIN board'.objects = {} /\ board'.made = board.made
      /\ UNCHANGED <<hand, frame>>
  <2>1. << >> \in [{} -> Object] /\ DOMAIN << >> = {}
    OBVIOUS
  <2>2. << >> \in ObjectMap
    BY <2>1 DEF ObjectMap
  <2> QED
    BY <1>1, <2>1, <2>2 DEF CloseBoard, Board
<1>4. view' \in ViewType /\ ~ view'.on /\ view'.pointers = {}
  BY ViewOffType DEF CloseBoard
<1>5. editView' \in EditView
  BY DEF CloseBoard, Unfitted, EditView
<1>6. TypeInv'
  BY <1>1, <1>2, <1>3, <1>4, <1>5 DEF TypeInv
<1>7. BoardInv'
  BY <1>1, <1>2, <1>3 DEF BoardInv, GoodObjects, GoodDrag
<1>8. SightInv'
  BY <1>3, <1>4 DEF SightInv
<1>9. ASSUME HandInv, ~ TwoHands
      PROVE  HandInv'
  <2>1. hand.touch = {} /\ ui.pointer = None
    BY <1>9 DEF CloseBoard, Button, HandInv
  <2> QED
    BY <1>2, <1>3, <1>4, <1>9, <2>1 DEF HandInv, Neat
<1>10. WorkStep
  BY <1>1, <1>2, WorkGoesOn
<1> QED
  BY <1>6, <1>7, <1>8, <1>9, <1>10 DEF IInv

LEMMA BackPressedStep ==
  ASSUME IInv, BackPressed
  PROVE  /\ IInv'
         /\ HandInv /\ ~ TwoHands => HandInv' /\ WorkStep
<1>1. TypeInv /\ BoardInv /\ SightInv /\ board \in Board
  BY DEF IInv, TypeInv
<1>2. /\ board' \in Board /\ board'.stage = "away"
      /\ board'.objects = board.objects /\ board'.made = board.made
      /\ UNCHANGED <<ui, view, editView, hand, frame>>
      /\ board.stage = "open" /\ ~ view.on /\ (TwoHands \/ hand.touch = {})
  BY <1>1 DEF BackPressed, Board
<1>3. TypeInv' /\ BoardInv'
  BY <1>1, <1>2 DEF TypeInv, BoardInv
<1>4. SightInv'
  BY <1>1, <1>2 DEF SightInv, Fitted
<1>5. HandInv /\ ~ TwoHands => HandInv'
  BY <1>2 DEF HandInv
<1>6. WorkStep
  BY <1>1, <1>2, WorkGoesOn
<1> QED
  BY <1>3, <1>4, <1>5, <1>6 DEF IInv

LEMMA ResumeStep ==
  ASSUME IInv, Resume
  PROVE  /\ IInv'
         /\ HandInv => HandInv' /\ WorkStep
<1>1. /\ TypeInv /\ BoardInv /\ SightInv /\ ui \in UI /\ board \in Board
      /\ frame \in Nat /\ editView \in EditView
  BY FrameType DEF IInv, TypeInv
<1> DEFINE u == [ui EXCEPT !.tool = "select"]
<1>2. u \in UI /\ SameGesture(u, ui)
  BY <1>1 DEF UI, SameGesture
<1>3. ui' = Redrawn(u, Objects)
  BY DEF Resume
<1> HIDE DEF u
<1>4. ui' \in UI /\ SameGesture(ui', ui)
  BY <1>2, <1>3, RedrawnType DEF SameGesture
<1>5. /\ board' \in Board /\ board'.stage = "resuming"
      /\ board'.objects = board.objects /\ board'.made = board.made
      /\ UNCHANGED <<view, hand, frame>> /\ board.stage = "away"
  BY <1>1 DEF Resume, Board
<1>6. editView' \in EditView /\ editView'.width = frame /\ Placed(editView'.x, frame, editView'.scale)
  BY <1>1, ViewFitted DEF Resume
<1>7. TypeInv' /\ BoardInv'
  BY <1>1, <1>4, <1>5, <1>6 DEF TypeInv, BoardInv, GoodDrag, SameGesture
<1>8. SightInv'
  BY <1>1, <1>5, <1>6 DEF SightInv, Fitted
<1>9. HandInv => HandInv'
  BY <1>4, <1>5 DEF HandInv, Neat, SameGesture
<1>10. WorkStep
  BY <1>1, <1>4, WorkGoesOn DEF SameGesture
<1> QED
  BY <1>7, <1>8, <1>9, <1>10 DEF IInv

-----------------------------------------------------------------------------
(* Other phones, and turning this one *)

\* What another phone's event makes of the objects.
LEMMA RemoteObjects ==
  ASSUME TypeInv, BoardInv, Remote
  PROVE  /\ board' \in Board /\ board'.stage = board.stage
         /\ GoodObjects(board'.objects, board'.made)
         /\ GoodDrag(ui, board'.objects, board'.made)
<1>1. GoodState(Now) /\ Now.ui = ui /\ Now.objects = board.objects /\ Now.made = board.made
  BY NowGood
<1>2. board \in Board /\ board.made \in Nat /\ Objects = board.objects
  BY DEF TypeInv, Board, Objects
<1>3. ASSUME NEW lo \in Position, NEW hi \in Position, lo <= hi,
             board' = [board EXCEPT !.made = @ + 1,
                  !.objects = [id \in DOMAIN Objects \union {board.made + 1} |->
                     IF id = board.made + 1 THEN NewObject("s", lo, hi) ELSE Objects[id]]]
      PROVE  /\ board' \in Board /\ board'.stage = board.stage
             /\ GoodObjects(board'.objects, board'.made)
             /\ GoodDrag(ui, board'.objects, board'.made)
  <2> DEFINE o == NewObject("s", lo, hi)
             new == [id \in DOMAIN board.objects \union {board.made + 1} |->
                       IF id = board.made + 1 THEN o ELSE board.objects[id]]
             n == board.made + 1
  <2>1. hi \in Int
    BY SizeAssumption DEF Position
  <2>2. o \in Object /\ Fits(o, o.xf)
    BY <1>3, <2>1, NewObjectType
  <2> HIDE DEF o
  <2>3. new \in ObjectMap /\ GoodObjects(new, n) /\ GoodDrag(ui, new, n)
    BY <1>1, <2>2, ObjectAdded
  <2>4. board' = [board EXCEPT !.made = n, !.objects = new]
    BY <1>2, <1>3 DEF o
  <2>5. n \in Nat
    BY <1>2
  <2> HIDE DEF new, n
  <2>6. board' \in Board /\ board'.stage = board.stage /\ board'.objects = new /\ board'.made = n
    BY <1>2, <2>3, <2>4, <2>5 DEF Board
  <2> QED
    BY <2>3, <2>6
<1>4. ASSUME NEW id \in DOMAIN Objects, NEW xf \in Transformation, Fits(Objects[id], xf),
             board' = [board EXCEPT !.objects[id].xf = xf]
      PROVE  /\ board' \in Board /\ board'.stage = board.stage
             /\ GoodObjects(board'.objects, board'.made)
             /\ GoodDrag(ui, board'.objects, board'.made)
  <2> DEFINE new == [i \in DOMAIN board.objects |->
                       IF i = id THEN [board.objects[i] EXCEPT !.xf = xf] ELSE board.objects[i]]
             moved == [board.objects EXCEPT ![id] = [@ EXCEPT !.xf = xf]]
  <2>1. new \in ObjectMap /\ GoodObjects(new, board.made) /\ GoodDrag(ui, new, board.made)
    BY <1>1, <1>2, <1>4, ObjectMoved
  <2>2. board.objects \in ObjectMap
    BY <1>2 DEF Board
  <2>3. moved = new
    BY <2>2 DEF ObjectMap
  <2>4. board' = [board EXCEPT !.objects = moved]
    BY <1>2, <1>4 DEF Board
  <2> HIDE DEF new, moved
  <2>5. /\ board' \in Board /\ board'.stage = board.stage
        /\ board'.objects = new /\ board'.made = board.made
    BY <1>2, <2>1, <2>3, <2>4 DEF Board
  <2> QED
    BY <2>1, <2>5
<1>5. ASSUME NEW ids, board' = [board EXCEPT !.objects = [id \in DOMAIN Objects \ ids |-> Objects[id]]]
      PROVE  /\ board' \in Board /\ board'.stage = board.stage
             /\ GoodObjects(board'.objects, board'.made)
             /\ GoodDrag(ui, board'.objects, board'.made)
  <2> DEFINE new == [id \in DOMAIN Objects \ ids |-> Objects[id]]
  <2>1. new \in ObjectMap /\ GoodObjects(new, board.made) /\ GoodDrag(ui, new, board.made)
    BY ObjectsRemoved
  <2>2. board' = [board EXCEPT !.objects = new]
    BY <1>5
  <2> HIDE DEF new
  <2>3. /\ board' \in Board /\ board'.stage = board.stage
        /\ board'.objects = new /\ board'.made = board.made
    BY <1>2, <2>1, <2>2 DEF Board
  <2> QED
    BY <2>1, <2>3
<1>6. ASSUME NEW id \in DOMAIN Objects, NEW dx \in -Width .. Width, NEW sc \in Scale,
             LET xf == [dx |-> dx, sc |-> sc]
                 box == Box(Objects[id], xf) IN
             /\ 0 <= box.lo /\ box.hi <= Width
             /\ board' = [board EXCEPT !.objects[id].xf = xf]
      PROVE  /\ board' \in Board /\ board'.stage = board.stage
             /\ GoodObjects(board'.objects, board'.made)
             /\ GoodDrag(ui, board'.objects, board'.made)
  <2> DEFINE xf == [dx |-> dx, sc |-> sc]
  <2>1. xf \in Transformation
    BY SizeAssumption DEF Scale, Transformation
  <2>2. 0 <= Box(Objects[id], xf).lo /\ Box(Objects[id], xf).hi <= Width
    BY <1>6
  <2>3. board' = [board EXCEPT !.objects[id].xf = xf]
    BY <1>6
  <2> HIDE DEF xf
  <2>4. Fits(Objects[id], xf)
    BY <2>2 DEF Fits
  <2> QED
    BY <1>4, <2>1, <2>3, <2>4
<1> QED
  BY <1>3, <1>5, <1>6 DEF Remote

LEMMA RemoteStep ==
  ASSUME IInv, Remote
  PROVE  /\ IInv'
         /\ HandInv => HandInv' /\ WorkStep
<1>1. TypeInv /\ BoardInv /\ SightInv /\ ui \in UI
  BY DEF IInv, TypeInv
<1>2. /\ board' \in Board /\ board'.stage = board.stage
      /\ GoodObjects(board'.objects, board'.made)
      /\ GoodDrag(ui, board'.objects, board'.made)
  BY <1>1, RemoteObjects
<1>3. ui' \in UI /\ SameGesture(ui', ui)
  <2>1. ui' = ui \/ ui' = Redrawn(ui, board'.objects)
    BY DEF Remote
  <2> QED
    BY <1>1, <2>1, RedrawnType DEF SameGesture
<1>4. UNCHANGED <<view, editView, hand, frame>>
  BY DEF Remote
<1>5. TypeInv' /\ BoardInv'
  BY <1>1, <1>2, <1>3, <1>4 DEF TypeInv, BoardInv, GoodDrag, SameGesture
<1>6. SightInv'
  BY <1>1, <1>2, <1>4, SameSight
<1>7. HandInv => HandInv'
  BY <1>2, <1>3, <1>4 DEF HandInv, Neat, SameGesture
<1>8. WorkStep
  BY <1>1, <1>3, WorkGoesOn DEF SameGesture
<1> QED
  BY <1>5, <1>6, <1>7, <1>8 DEF IInv

LEMMA TurnStep ==
  ASSUME IInv, NEW w \in Frames, Turn(w)
  PROVE  /\ IInv'
         /\ HandInv => HandInv' /\ WorkStep
<1>1. /\ TypeInv /\ BoardInv /\ SightInv /\ view \in ViewType
      /\ editView \in EditView /\ w \in Nat /\ w # 0
  BY SizeAssumption DEF IInv, TypeInv
<1>2. frame' = w /\ UNCHANGED <<ui, hand, board>>
  BY DEF Turn
<1>3. /\ editView' \in EditView
      /\ view.on \/ editView.width = 0 => editView' = editView
      /\ ~ (view.on \/ editView.width = 0) =>
           editView'.width = w /\ Placed(editView'.x, w, editView'.scale)
  BY <1>1, ViewFitted DEF Turn
<1>4. /\ view' \in ViewType /\ view'.on = view.on /\ view'.pointers = view.pointers
      /\ view.on => Placed(view'.x, w, view'.scale)
  <2> DEFINE x == ClampAxis(view.x, w, Width * view.scale)
  <2>1. view.x \in Int /\ view.scale \in Nat /\ Width * view.scale \in Nat
    BY <1>1, SizeAssumption DEF ViewType
  <2>2. x \in Int /\ x = ClampAxis(x, w, Width * view.scale)
    BY <1>1, <2>1, ClampedOnce
  <2>3. view' = IF view.on THEN [view EXCEPT !.x = x] ELSE view
    BY <1>1 DEF Turn, ViewType
  <2> HIDE DEF x
  <2>4. LET v == [view EXCEPT !.x = x]
        IN /\ v \in ViewType /\ v.on = view.on /\ v.pointers = view.pointers
           /\ v.x = x /\ v.scale = view.scale
    BY <1>1, <2>2 DEF ViewType
  <2> QED
    BY <1>1, <2>2, <2>3, <2>4 DEF Placed
<1>5. TypeInv'
  BY <1>1, <1>2, <1>3, <1>4 DEF TypeInv
<1>6. BoardInv'
  BY <1>1, <1>2 DEF BoardInv
<1>7. SightInv'
  <2>1. view'.on => editView'.width # 0 /\ Placed(view'.x, frame', view'.scale)
    BY <1>1, <1>2, <1>3, <1>4 DEF SightInv
  <2>2. board.stage \in {"open", "resuming", "away"} => view'.on \/ Fitted'
    BY <1>1, <1>2, <1>3, <1>4, FittedView DEF Fitted
  <2>3. board.stage \in {"closed", "away"} => ~ view'.on
    BY <1>1, <1>4 DEF SightInv
  <2> QED
    BY <1>2, <2>1, <2>2, <2>3 DEF SightInv
<1>8. HandInv => HandInv'
  BY <1>2, <1>4 DEF HandInv
<1>9. WorkStep
  BY <1>1, <1>2, WorkGoesOn
<1> QED
  BY <1>5, <1>6, <1>7, <1>8, <1>9 DEF IInv

-----------------------------------------------------------------------------
(* The theorems *)

LEMMA NextStep ==
  ASSUME IInv, Next
  PROVE  /\ IInv'
         /\ HandInv /\ ~ TwoHands => HandInv' /\ WorkStep
<1>1. CASE Touch
  <2> PICK f \in Finger :
        \/ \E p \in Position : TouchDown(f, p)
        \/ TouchMove(f) \/ ViewMove(f)
        \/ \E typed \in BOOLEAN :
             \/ TouchUp(f, typed) \/ TouchCancel(f, typed)
             \/ CaptureLost(f, typed) \/ Leaves(f, typed) \/ Late(f, typed)
    BY <1>1 DEF Touch
  <2>1. CASE \E p \in Position : TouchDown(f, p)
    BY <2>1, TouchDownStep, TouchDownHands
  <2>2. CASE TouchMove(f)
    BY <2>2, TouchMoveStep, TouchMoveHands
  <2>3. CASE ViewMove(f)
    BY <2>3, ViewMoveStep
  <2>4. CASE \E typed \in BOOLEAN :
               \/ TouchUp(f, typed) \/ TouchCancel(f, typed)
               \/ CaptureLost(f, typed) \/ Leaves(f, typed) \/ Late(f, typed)
    BY <2>4, FingerStep
  <2> QED
    BY <2>1, <2>2, <2>3, <2>4
<1>2. CASE \E tool \in Tools : ToggleTool(tool)
  BY <1>2, ToggleToolStep
<1>3. CASE DeleteSelected
  BY <1>3, RemoveStep DEF DeleteSelected
<1>4. CASE ClearBoard
  BY <1>4, RemoveStep DEF ClearBoard
<1>5. CASE EnterView
  BY <1>5, EnterViewStep
<1>6. CASE ViewWheel
  BY <1>6, ViewWheelStep
<1>7. CASE ResetAgain
  BY <1>7, ResetAgainStep
<1>8. CASE ExitView
  BY <1>8, ExitViewStep
<1>9. CASE OpenBoard
  BY <1>9, OpenBoardStep
<1>10. CASE Load
  BY <1>10, LoadStep
<1>11. CASE FinishReplay
  BY <1>11, FinishReplayStep
<1>12. CASE CloseBoard
  BY <1>12, CloseBoardStep
<1>13. CASE BackPressed
  BY <1>13, BackPressedStep
<1>14. CASE Resume
  BY <1>14, ResumeStep
<1>15. CASE Remote
  BY <1>15, RemoteStep
<1>16. CASE \E w \in Frames : Turn(w)
  BY <1>16, TurnStep
<1> QED
  BY <1>1, <1>2, <1>3, <1>4, <1>5, <1>6, <1>7, <1>8, <1>9, <1>10, <1>11, <1>12,
     <1>13, <1>14, <1>15, <1>16 DEF Next

LEMMA StutterStep ==
  ASSUME UNCHANGED vars
  PROVE  /\ IInv => IInv'
         /\ HandInv => HandInv'
<1>1. UNCHANGED <<ui, view, editView, hand, board, frame>>
  BY DEF vars
<1>2. IInv => IInv'
  BY <1>1 DEF IInv, TypeInv, BoardInv, SightInv, Fitted
<1>3. HandInv => HandInv'
  BY <1>1 DEF HandInv
<1> QED
  BY <1>2, <1>3

\* The types, the objects and the drag on the board, the views in their places:
\* what every handler of collabboard.js keeps, whatever the user does.
THEOREM Inductive == Spec => []IInv
<1>1. Init => IInv
  BY InitInv
<1>2. IInv /\ [Next]_vars => IInv'
  BY NextStep, StutterStep
<1> QED
  BY <1>1, <1>2, PTL DEF Spec

\* Type correctness for any fingers, sizes and tools.
THEOREM TypeCorrect == Spec => []TypeOK
<1>1. IInv => TypeOK
  <2> SUFFICES ASSUME IInv PROVE TypeOK
    OBVIOUS
  <2>1. ui \in UI /\ view \in ViewType /\ hand \in Hand
    BY DEF IInv, TypeInv
  <2>2. DOMAIN ui = DOMAIN Idle
    BY <2>1 DEF UI, Idle
  <2>3. DOMAIN Objects \subseteq 1 .. board.made
    BY DEF IInv, BoardInv, GoodObjects, Objects
  <2>4. ui.draft # None => ui.draft.lo \in Position /\ ui.draft.hi \in Position
    BY <2>1 DEF UI, Draft, Drafts
  <2>5. /\ ui.pointer \in Finger \union {None} /\ ui.edit \subseteq Finger
        /\ ui.count \in 0 .. Cardinality(Finger) /\ ui.text \in Position \union {None}
    BY <2>1 DEF UI
  <2>6. view.gesture = Gesture(view.pointers) /\ view.pointers \subseteq Finger
    BY <2>1 DEF ViewType
  <2> QED
    BY <2>1, <2>2, <2>3, <2>4, <2>5, <2>6 DEF TypeOK, Hand
<1> QED
  BY <1>1, Inductive, PTL

\* Drawings stay on the board: cb_clamp_drag_transform clamps every move of a drag
\* on this phone, and other phones clamp theirs.
THEOREM StaysOnBoard == Spec => []OnBoard
<1>1. IInv => OnBoard
  <2> SUFFICES ASSUME IInv, NEW id \in DOMAIN Objects, Objects[id].k = "s"
               PROVE  0 <= BoxOf(id).lo /\ BoxOf(id).hi <= Width
    BY DEF OnBoard
  <2>1. Fits(Objects[id], XF(id))
    BY XFGood DEF IInv
  <2> QED
    BY <2>1 DEF Fits, BoxOf
<1> QED
  BY <1>1, Inductive, PTL

\* The board is in sight in both views: cb_clamp_edit_view, cb_clamp_view and
\* cb_fit_canvas follow every gesture and every turn of the phone, and a canvas that
\* could not be fitted meanwhile is fitted when it comes back.
THEOREM StaysInSight == Spec => []InSight
<1>1. IInv => InSight
  BY DEF IInv, SightInv, Fitted, Placed, InSight
<1> QED
  BY <1>1, Inductive, PTL

\* One gesture at a time, of a finger on the canvas, as long as buttons are tapped
\* with no finger there.
THEOREM OneGesture ==
  ASSUME ~ TwoHands
  PROVE  Spec => []HandInv
<1>1. Init => HandInv
  BY InitInv
<1>2. IInv /\ HandInv /\ [Next]_vars => HandInv'
  BY NextStep, StutterStep
<1> QED
  BY <1>1, <1>2, Inductive, PTL DEF Spec

\* When the last finger is lifted no gesture is left over, however the browser
\* reported the fingers before.
THEOREM NothingLeftOver ==
  ASSUME ~ TwoHands
  PROVE  Spec => []HandsOff
<1>1. HandInv => HandsOff
  BY FingerAssumption DEF HandInv, Neat, HandsOff
<1> QED
  BY <1>1, OneGesture, PTL

\* What is drawn or dragged becomes an object or its transformation, however the
\* gesture ends; only a second finger and the view drop it.
THEOREM WorkIsKept ==
  ASSUME ~ TwoHands
  PROVE  Spec => WorkKept
<1>1. IInv /\ HandInv /\ Next => WorkStep
  BY NextStep
<1>2. IInv /\ HandInv /\ [Next]_vars => [WorkStep]_vars
  BY <1>1
<1> QED
  BY <1>2, Inductive, OneGesture, PTL DEF Spec, WorkKept, WorkStep
=============================================================================
