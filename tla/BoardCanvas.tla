---------------------------- MODULE BoardCanvas ----------------------------
(***************************************************************************)
(* Fingers, tools and gestures on the canvas of the board page             *)
(* (collabboard.js): drawing, placing text, moving and resizing, two       *)
(* finger navigation, the full-screen view, and what opening, loading,     *)
(* leaving and closing a board and events of other phones do in between.   *)
(*                                                                         *)
(* Abstractions.  Both axes are treated alike by the code, here there is   *)
(* one.  A drawing is the stretch it covers; its colour, width and the     *)
(* points in between are left out.  The board holds what the reducer would *)
(* show (BoardReducer).  A resize may give any scale: the code computes it *)
(* from the distance of the fingers.                                       *)
(***************************************************************************)
EXTENDS Integers, FiniteSets, FiniteSetsExt

CONSTANTS
  Finger,
  None,
  Width,       \* CB_BOARD_WIDTH
  MaxScale,    \* 20, the largest scale of an object
  MaxZoom,     \* cb_edit_view.maxScale
  Frames,      \* possible widths of the canvas frame, turning the phone
  MaxObjects,  \* bound: objects that are ever made
  Tools,       \* bound: the tools that are tried
  TwoHands     \* whether buttons are tapped with a finger on the canvas

\* None stands for null.
ASSUME FingerAssumption == IsFiniteSet(Finger) /\ None \notin Finger
ASSUME SizeAssumption ==
  /\ Width \in Nat \ {0} /\ MaxScale \in Nat \ {0} /\ MaxZoom \in Nat \ {0}
  /\ Frames \subseteq Nat \ {0}

VARIABLES
  ui,        \* the page's gesture variables
  view,      \* cb_view_mode, cb_view_pointers, cb_view_gesture, cb_view
  editView,  \* cb_edit_view
  hand,      \* the fingers on the canvas, and what the browser still reports
  board,     \* the board: its stage, its objects
  frame      \* the width of the canvas frame

vars == <<ui, view, editView, hand, board, frame>>

Position == 0 .. Width
Scale == 1 .. MaxScale
Original == [dx |-> 0, sc |-> 1]

\* A drawing in progress, a drag in progress.
Drafts == [lo : Position, hi : Position]
Transformation == [dx : Int, sc : Nat]
Drags == [mode : {"move", "resize"}, target : Nat, start : Position,
          base : Transformation, xf : Transformation, moved : BOOLEAN]

ASSUME NoneAssumption == None \notin Drafts /\ None \notin Drags

-----------------------------------------------------------------------------
(* Objects and their transformations *)

\* cb_bbox_for_xf
Box(o, xf) == [lo |-> o.lo + xf.dx, hi |-> o.lo + (o.hi - o.lo) * xf.sc + xf.dx]

Objects == board.objects

\* cb_xf: a drag in progress hides the object's own transformation.
XF(id) ==
  IF ui.drag # None /\ ui.drag.target = id THEN ui.drag.xf ELSE Objects[id].xf

BoxOf(id) == Box(Objects[id], XF(id))

\* The largest scale at which the object still fits.
LargestScale(o) ==
  IF o.hi = o.lo THEN MaxScale ELSE Min({MaxScale, Width \div (o.hi - o.lo)})

\* Mutant: an object may become larger than the board.
ClampDragAnyScale(d) ==
  IF d.target \notin DOMAIN Objects THEN d
  ELSE LET box == Box(Objects[d.target], d.xf)
           right == IF box.lo < 0 THEN d.xf.dx - box.lo ELSE d.xf.dx
           over == Box(Objects[d.target], [d.xf EXCEPT !.dx = right]).hi - Width
       IN [d EXCEPT !.xf.dx = IF over > 0 THEN right - over ELSE right]

\* cb_clamp_drag_transform
ClampDrag(d) ==
  IF d.target \notin DOMAIN Objects THEN d
  ELSE LET o == Objects[d.target]
           sc == IF d.mode = "resize" THEN Min({d.xf.sc, LargestScale(o)}) ELSE d.xf.sc
           xf == [d.xf EXCEPT !.sc = sc]
           right == xf.dx - Min({0, Box(o, xf).lo})
           over == Box(o, [xf EXCEPT !.dx = right]).hi - Width
       IN [d EXCEPT !.xf = [dx |-> right - Max({0, over}), sc |-> sc]]

-----------------------------------------------------------------------------
(* The edit view: the part of the board that is in the frame *)

ClampAxis(value, viewport, content) ==
  IF content <= viewport THEN (viewport - content) \div 2
  ELSE Max({viewport - content, Min({0, value})})

\* cb_clamp_edit_view
ClampView(v) == [v EXCEPT !.x = ClampAxis(v.x, v.width, Width * v.scale)]

Unfitted == [scale |-> 1, x |-> 0, width |-> 0]

\* cb_fit_canvas: a frame of another width starts afresh.
Fit(v, w) ==
  ClampView(IF v.width = w THEN v ELSE [scale |-> 1, x |-> 0, width |-> w])

-----------------------------------------------------------------------------
(* Gestures *)

Idle == [tool |-> "select", draft |-> None, drag |-> None, sel |-> None,
         pointer |-> None, text |-> None, edit |-> {}, nav |-> FALSE, count |-> 0]

\* cb_redraw: a selected object that is not visible is no longer selected.
Redrawn(u, objects) ==
  [u EXCEPT !.sel = IF @ \in DOMAIN objects THEN @ ELSE None]

\* Mutant: the finger that drew is not forgotten.
BeginNavigationKept(u) ==
  IF Cardinality(u.edit) < 2 THEN u
  ELSE [u EXCEPT !.nav = TRUE, !.text = None, !.draft = None, !.drag = None,
                 !.count = Cardinality(u.edit)]

\* cb_begin_edit_navigation
BeginNavigation(u) ==
  IF Cardinality(u.edit) < 2 THEN u
  ELSE Redrawn([u EXCEPT !.nav = TRUE, !.pointer = None, !.text = None,
                         !.draft = None, !.drag = None,
                         !.count = Cardinality(u.edit)], Objects)

\* cb_finish_edit_pointer
FinishPointer(u, f) ==
  LET v == [u EXCEPT !.edit = @ \ {f}]
  IN IF v.edit = {} THEN [v EXCEPT !.nav = FALSE, !.count = 0]
     ELSE BeginNavigation(v)

\* cb_begin_view_gesture
Gesture(pointers) ==
  CASE pointers = {} -> "none"
    [] Cardinality(pointers) = 1 -> "pan"
    [] OTHER -> "pinch"

\* Mutant: a finger that joins or goes does not start the gesture again.
ViewWithOld(pointers) == [view EXCEPT !.pointers = pointers]

\* cb_view_down and cb_view_up
ViewWith(pointers) ==
  [view EXCEPT !.pointers = pointers, !.gesture = Gesture(pointers)]

\* cb_reset_edit_view, the part about fingers
WithoutFingers(u) ==
  [u EXCEPT !.edit = {}, !.count = 0, !.nav = FALSE, !.text = None]

\* The full-screen view when it is off.  Entering it resets its place.
ViewOff == [on |-> FALSE, pointers |-> {}, gesture |-> "none", scale |-> 1, x |-> 0]

\* cb_clamp_view
ViewPlaced(v) == [v EXCEPT !.x = ClampAxis(@, frame, Width * v.scale)]

\* cb_reset_view: at the scale that fits the board is in the middle.
ViewReset(v) == ViewPlaced([v EXCEPT !.scale = 1, !.x = 0])

-----------------------------------------------------------------------------
(* Writing.  State s is what the handlers of pointers change: s.ui, s.objects. *)

Now == [ui |-> ui, objects |-> board.objects, made |-> board.made]

\* cb_write_board_event: nothing is written without a board, nor before the
\* native part confirmed it.
Writable == board.stage \in {"loading", "open", "away"}

\* cb_apply of an own event: the board is drawn again unless it loads.
Applied(s, objects, made) ==
  [ui |-> IF board.stage = "loading" THEN s.ui ELSE Redrawn(s.ui, objects),
   objects |-> objects, made |-> made]

NewObject(k, lo, hi) == [k |-> k, lo |-> lo, hi |-> hi, xf |-> Original]

\* An object; the new id is s.made + 1.
WriteObject(s, o) ==
  IF ~ Writable THEN s
  ELSE Applied(s, [id \in DOMAIN s.objects \union {s.made + 1} |->
                     IF id = s.made + 1 THEN o ELSE s.objects[id]], s.made + 1)

\* A move or resize; its target may have been deleted meanwhile.
WriteMove(s, d) ==
  IF ~ Writable THEN s
  ELSE Applied(s, [id \in DOMAIN s.objects |->
                     IF id = d.target THEN [s.objects[id] EXCEPT !.xf = d.xf]
                     ELSE s.objects[id]], s.made)

\* cb_place_text; the text field may be empty.
PlaceText(s, p, typed) ==
  IF ~ typed THEN s
  ELSE LET t == WriteObject(s, NewObject("t", p, p + 1))
       IN [t EXCEPT !.ui = Redrawn([@ EXCEPT !.sel = s.made + 1, !.tool = "select"],
                                   t.objects)]

\* The end of a gesture in cb_up: text, else a drag, else a drawing.
Finished(s, typed) ==
  LET u == s.ui IN
  CASE u.text # None ->
         LET t == [s EXCEPT !.ui.text = None]
         IN IF u.tool = "text" THEN PlaceText(t, u.text, typed) ELSE t
    [] u.text = None /\ u.drag # None ->
         LET t == [s EXCEPT !.ui.drag = None]
         IN IF u.drag.moved THEN WriteMove(t, u.drag)
            ELSE [t EXCEPT !.ui = Redrawn(@, t.objects)]
    [] u.text = None /\ u.drag = None /\ u.draft # None ->
         WriteObject([s EXCEPT !.ui.draft = None],
                     NewObject("s", u.draft.lo, u.draft.hi))
    [] OTHER -> s

\* The finger that a gesture in progress belongs to.
Drawing(f) == ui.pointer = f /\ hand.primary = f /\ ~ ui.nav

\* cb_up
Up(f, typed) ==
  IF ~ Drawing(f) THEN [Now EXCEPT !.ui = FinishPointer(ui, f)]
  ELSE Finished([Now EXCEPT !.ui = [ui EXCEPT !.edit = @ \ {f}, !.pointer = None]], typed)

\* Mutant: a cancelled gesture is thrown away.
CancelAll(f, typed) ==
  IF ui.nav \/ ui.pointer # f THEN [Now EXCEPT !.ui = FinishPointer(ui, f)]
  ELSE [Now EXCEPT !.ui = Redrawn([ui EXCEPT !.edit = @ \ {f}, !.pointer = None,
          !.text = None, !.drag = None, !.draft = None], Objects)]

\* cb_cancel: visible work is finished, other gestures are dropped.
Cancel(f, typed) ==
  LET visible == ui.draft # None \/ (ui.drag # None /\ ui.drag.moved)
  IN CASE ui.nav \/ ui.pointer # f -> [Now EXCEPT !.ui = FinishPointer(ui, f)]
       [] ~ ui.nav /\ ui.pointer = f /\ visible -> Up(f, typed)
       [] OTHER -> [Now EXCEPT !.ui = Redrawn([ui EXCEPT !.edit = @ \ {f},
                      !.pointer = None, !.text = None, !.drag = None,
                      !.draft = None], Objects)]

\* cb_lost_capture
Lost(f, typed) ==
  IF f \in ui.edit \/ ui.pointer = f THEN Up(f, typed) ELSE Now

Becomes(s) ==
  /\ ui' = s.ui
  /\ board' = [board EXCEPT !.objects = s.objects, !.made = s.made]

-----------------------------------------------------------------------------
(* Fingers on the canvas *)

\* cb_hit_handle: the selected object, if p is on its handle, which lies at the
\* end of the object.
HitHandle(u, p) == {id \in DOMAIN Objects : id = u.sel /\ p = BoxOf(id).hi}

\* cb_hit: the object at p.  Which of several is on top is left open.
Hit(p) == {id \in DOMAIN Objects : BoxOf(id).lo <= p /\ p <= BoxOf(id).hi}

\* cb_down with the select tool: on a handle that is the object to resize.
Grab(u, f, p) ==
  LET drag(mode, id) ==
        [mode |-> mode, target |-> id, start |-> p, base |-> XF(id), xf |-> XF(id),
         moved |-> FALSE]
  IN {[u EXCEPT !.pointer = f, !.drag = drag("resize", id)] : id \in HitHandle(u, p)}
     \union
     {[u EXCEPT !.pointer = f, !.sel = id, !.drag = drag("move", id)] : id \in Hit(p)}

\* cb_down, for a finger that is alone on the canvas.
Start(u, f, p) ==
  CASE u.tool = "text" -> {[u EXCEPT !.pointer = f, !.text = p]}
    [] u.tool = "pen" -> {[u EXCEPT !.pointer = f, !.draft = [lo |-> p, hi |-> p]]}
    [] OTHER -> IF Grab(u, f, p) # {} THEN Grab(u, f, p)
                ELSE {[u EXCEPT !.sel = None, !.drag = None]}

TouchDown(f, p) ==
  /\ board.stage \in {"open", "loading", "resuming"}
  /\ f \notin hand.touch
  /\ board.made < MaxObjects \/ ui.tool = "select"
  /\ \E first \in IF hand.touch # {} THEN {hand.primary}
                  ELSE {f} \union (IF TwoHands THEN {None} ELSE {}) :
       /\ hand' = [hand EXCEPT !.touch = @ \union {f}, !.primary = first, !.late = @ \ {f}]
       /\ LET u == [ui EXCEPT !.edit = @ \union {f}] IN
          ui' \in CASE view.on \/ board.stage = "loading" -> {ui}
                    [] Cardinality(u.edit) >= 2 -> {BeginNavigation(u)}
                    [] u.nav -> {u}
                    [] first # f -> {ui}
                    [] u.pointer # None -> {u}
                    [] OTHER -> Start(u, f, p)
  /\ view' = IF view.on THEN ViewWith(view.pointers \union {f}) ELSE view
  /\ UNCHANGED <<editView, board, frame>>

\* Where a gesture may put the board, and how large; it is clamped afterwards.
Places == -(Width * MaxZoom) .. 0
Zooms == [scale : 1 .. MaxZoom, x : Places]

\* cb_move while navigating: a gesture of another number of fingers starts
\* again, otherwise any zoom and place may result.
Navigate(f) ==
  /\ ui.nav /\ Cardinality(ui.edit) >= 2
  /\ IF ui.count # Cardinality(ui.edit)
     THEN ui' = BeginNavigation(ui) /\ UNCHANGED editView
     ELSE /\ \E z \in Zooms :
               editView' = ClampView([editView EXCEPT !.scale = z.scale, !.x = z.x])
          /\ UNCHANGED ui

\* cb_move while dragging
Drag(f, p) ==
  /\ Drawing(f) /\ ui.drag # None
  /\ LET d == ui.drag IN
     \/ /\ d.mode = "move"
        /\ ui' = [ui EXCEPT !.drag =
                    [ClampDrag([d EXCEPT !.xf.dx = d.base.dx + p - d.start])
                       EXCEPT !.moved = @ \/ p # d.start]]
     \/ /\ d.mode = "resize"
        /\ \E sc \in Scale :
             ui' = [ui EXCEPT !.drag =
                      [ClampDrag([d EXCEPT !.xf.sc = sc])
                         EXCEPT !.moved = @ \/ sc # d.base.sc]]
  /\ UNCHANGED editView

\* cb_move while drawing
Draw(f, p) ==
  /\ Drawing(f) /\ ui.drag = None /\ ui.draft # None
  /\ ui' = [ui EXCEPT !.draft = [lo |-> Min({@.lo, p}), hi |-> Max({@.hi, p})]]
  /\ UNCHANGED editView

TouchMove(f) ==
  /\ f \in hand.touch
  /\ Navigate(f) \/ \E p \in Position : Drag(f, p) \/ Draw(f, p)
  /\ UNCHANGED <<view, hand, board, frame>>

\* cb_view_move: one finger pans, two pinch; a gesture that does not fit the
\* number of fingers starts again.
ViewMove(f) ==
  /\ f \in hand.touch /\ f \in view.pointers
  /\ view' \in CASE view.gesture = "pan" /\ view.pointers = {f} ->
                      {ViewPlaced([view EXCEPT !.x = x]) : x \in Places}
                 [] view.gesture = "pinch" /\ Cardinality(view.pointers) >= 2 ->
                      {ViewPlaced([view EXCEPT !.scale = z.scale, !.x = z.x]) : z \in Zooms}
                 [] OTHER -> {ViewPlaced(ViewWith(view.pointers))}
  /\ UNCHANGED <<ui, editView, hand, board, frame>>

\* cb_view_wheel: one step in or out.
ViewWheel ==
  /\ view.on
  /\ \E z \in Zooms :
       /\ z.scale \in {view.scale - 1, view.scale + 1}
       /\ view' = ViewPlaced([view EXCEPT !.scale = z.scale, !.x = z.x])
  /\ UNCHANGED <<ui, editView, hand, board, frame>>

\* The browser may report a lost capture or a left canvas once the finger has
\* gone, until it touches again.
Gone(f) ==
  /\ f \in hand.touch
  /\ hand' = [hand EXCEPT !.touch = @ \ {f}, !.late = @ \union {f}]
  /\ view' = IF f \in view.pointers THEN ViewWith(view.pointers \ {f}) ELSE view
  /\ UNCHANGED <<editView, frame>>

TouchUp(f, typed) == Gone(f) /\ Becomes(Up(f, typed))

TouchCancel(f, typed) == Gone(f) /\ Becomes(Cancel(f, typed))

\* The capture is lost, or a finger that was not captured leaves the canvas,
\* while it still touches the screen.
CaptureLost(f, typed) ==
  /\ f \in hand.touch
  /\ Becomes(Lost(f, typed))
  /\ view' = IF f \in view.pointers THEN ViewWith(view.pointers \ {f}) ELSE view
  /\ UNCHANGED <<editView, hand, frame>>

Leaves(f, typed) ==
  /\ f \in hand.touch
  /\ Becomes(Up(f, typed))
  /\ UNCHANGED <<view, editView, hand, frame>>

\* The same reports after the finger has gone.
Late(f, typed) ==
  /\ f \in hand.late
  /\ Becomes(Lost(f, typed)) \/ Becomes(Up(f, typed))
  /\ UNCHANGED <<view, editView, hand, frame>>

-----------------------------------------------------------------------------
(* Buttons *)

\* The buttons above the canvas are hidden while a board loads.
Button ==
  /\ board.stage \in {"open", "resuming"}
  /\ TwoHands \/ hand.touch = {}

\* cb_toggle_tool
ToggleTool(tool) ==
  /\ Button /\ ~ view.on
  /\ ui' = [ui EXCEPT !.tool = IF @ = tool THEN "select" ELSE tool]
  /\ UNCHANGED <<view, editView, hand, board, frame>>

\* cb_delete_selected and cb_clear
Remove(ids) ==
  LET s == IF ~ Writable THEN Now
           ELSE Applied(Now, [id \in DOMAIN Objects \ ids |-> Objects[id]], board.made)
  IN /\ Button /\ ~ view.on
     /\ Becomes([s EXCEPT !.ui.sel = None])
     /\ UNCHANGED <<view, editView, hand, frame>>

DeleteSelected == ui.sel # None /\ ui.tool = "select" /\ Remove({ui.sel})

ClearBoard == Remove(DOMAIN Objects)

EnterView ==
  /\ Button /\ ~ view.on
  /\ view' = ViewReset([ViewOff EXCEPT !.on = TRUE])
  /\ ui' = [ui EXCEPT !.sel = None, !.drag = None, !.draft = None,
                      !.pointer = None, !.tool = "select"]
  /\ UNCHANGED <<editView, hand, board, frame>>

\* cb_schedule_view_reset: it resets the view again, once the phone has laid it
\* out.  The fingers may have moved it by then.
ResetAgain ==
  /\ view.on
  /\ view' = ViewReset(view)
  /\ UNCHANGED <<ui, editView, hand, board, frame>>

\* Mutant: the edit view is left as it was.
ViewLeftUnfitted(v) == v

\* cb_exit_view: the canvas is fitted to the frame again.
ViewLeft(v) == IF v.width = 0 THEN v ELSE Fit(v, frame)

ExitView ==
  /\ view.on
  /\ view' = ViewOff
  /\ editView' = ViewLeft(editView)
  /\ UNCHANGED <<ui, hand, board, frame>>

-----------------------------------------------------------------------------
(* Boards, other phones, the phone is turned *)

\* cb_activate_room and cb_begin_board_replay
OpenBoard ==
  /\ board.stage = "closed"
  /\ board' = [board EXCEPT !.stage = "loading"]
  /\ ui' = [WithoutFingers(ui) EXCEPT !.sel = None]
  /\ editView' = Unfitted
  /\ UNCHANGED <<view, hand, frame>>

\* cb_board_configured after a quick resume, or a neighbour's first operation
\* after a join: the board loads.
Load ==
  /\ board.stage \in {"resuming", "open"}
  /\ board' = [board EXCEPT !.stage = "loading"]
  /\ UNCHANGED <<ui, view, editView, hand, frame>>

\* cb_finish_board_replay
FinishReplay ==
  /\ board.stage = "loading"
  /\ board' = [board EXCEPT !.stage = "open"]
  /\ ui' = Redrawn(ui, Objects)
  /\ editView' = IF view.on THEN editView ELSE Fit(editView, frame)
  /\ UNCHANGED <<view, hand, frame>>

\* cb_close_board
CloseBoard ==
  /\ Button
  /\ board' = [board EXCEPT !.stage = "closed", !.objects = << >>]
  /\ ui' = WithoutFingers(ui)
  /\ view' = ViewOff
  /\ editView' = Unfitted
  /\ UNCHANGED <<hand, frame>>

\* onBackPressed: from the view to the board, from the board to the app.
BackPressed ==
  /\ board.stage = "open" /\ ~ view.on
  /\ TwoHands \/ hand.touch = {}
  /\ board' = [board EXCEPT !.stage = "away"]
  /\ UNCHANGED <<ui, view, editView, hand, frame>>

\* cb_open within the time of a quick resume
Resume ==
  /\ board.stage = "away"
  /\ board' = [board EXCEPT !.stage = "resuming"]
  /\ ui' = Redrawn([ui EXCEPT !.tool = "select"], Objects)
  /\ editView' = Fit(editView, frame)
  /\ UNCHANGED <<view, hand, frame>>

\* cb_apply of another phone's event.  What it does to the board is decided by
\* the reducer; a transformation was clamped where it was made.
Remote ==
  /\ board.stage # "closed"
  /\ \/ /\ board.made < MaxObjects
        /\ \E lo, hi \in Position :
             /\ lo <= hi
             /\ board' = [board EXCEPT !.made = @ + 1,
                  !.objects = [id \in DOMAIN Objects \union {board.made + 1} |->
                     IF id = board.made + 1 THEN NewObject("s", lo, hi) ELSE Objects[id]]]
     \/ \E id \in DOMAIN Objects, dx \in -Width .. Width, sc \in Scale :
          LET xf == [dx |-> dx, sc |-> sc]
              box == Box(Objects[id], xf) IN
          /\ 0 <= box.lo /\ box.hi <= Width
          /\ board' = [board EXCEPT !.objects[id].xf = xf]
     \/ \E ids \in {DOMAIN Objects} \union {{id} : id \in DOMAIN Objects} :
          board' = [board EXCEPT !.objects = [id \in DOMAIN Objects \ ids |-> Objects[id]]]
  /\ ui' = IF board.stage = "loading" THEN ui ELSE Redrawn(ui, board'.objects)
  /\ UNCHANGED <<view, editView, hand, frame>>

\* cb_fit_canvas when the window is resized: the view keeps its scale.
Turn(w) ==
  /\ w # frame
  /\ frame' = w
  /\ editView' = IF view.on \/ editView.width = 0 THEN editView ELSE Fit(editView, w)
  /\ view' = IF view.on THEN [view EXCEPT !.x = ClampAxis(@, w, Width * view.scale)]
             ELSE view
  /\ UNCHANGED <<ui, hand, board>>

-----------------------------------------------------------------------------
(* The specification *)

Init ==
  /\ ui = Idle
  /\ view = ViewOff
  /\ editView = Unfitted
  /\ hand = [touch |-> {}, primary |-> None, late |-> {}]
  /\ board = [stage |-> "closed", objects |-> << >>, made |-> 0]
  /\ frame \in Frames

Touch ==
  \E f \in Finger :
    \/ \E p \in Position : TouchDown(f, p)
    \/ TouchMove(f) \/ ViewMove(f)
    \/ \E typed \in IF ui.text = None THEN {FALSE} ELSE BOOLEAN :
         \/ TouchUp(f, typed) \/ TouchCancel(f, typed)
         \/ CaptureLost(f, typed) \/ Leaves(f, typed) \/ Late(f, typed)

Next ==
  \/ Touch
  \/ \E tool \in Tools : ToggleTool(tool)
  \/ DeleteSelected \/ ClearBoard
  \/ EnterView \/ ViewWheel \/ ResetAgain \/ ExitView
  \/ OpenBoard \/ Load \/ FinishReplay \/ CloseBoard \/ BackPressed \/ Resume
  \/ Remote
  \/ \E w \in Frames : Turn(w)

Spec == Init /\ [][Next]_vars

-----------------------------------------------------------------------------
(* Properties *)

TypeOK ==
  /\ DOMAIN ui = DOMAIN Idle
  /\ ui.pointer \in Finger \union {None} /\ ui.edit \subseteq Finger
  /\ ui.count \in 0 .. Cardinality(Finger)
  /\ ui.draft # None => ui.draft.lo \in Position /\ ui.draft.hi \in Position
  /\ ui.text \in Position \union {None}
  /\ view.gesture = Gesture(view.pointers) /\ view.pointers \subseteq Finger
  /\ DOMAIN Objects \subseteq 1 .. board.made
  /\ hand.late \subseteq Finger

\* Drawings stay on the board, however they are moved and enlarged, also while
\* other phones move or delete them.
OnBoard ==
  \A id \in DOMAIN Objects :
    Objects[id].k = "s" => 0 <= BoxOf(id).lo /\ BoxOf(id).hi <= Width

\* The board fills the frame, or is in its middle, in the full-screen view and
\* when it is edited: neither gestures nor turning the phone, in one view or the
\* other, move it out of sight.
InSight ==
  /\ board.stage = "open" /\ ~ view.on =>
       /\ editView.width = frame
       /\ editView.x = ClampAxis(editView.x, frame, Width * editView.scale)
  /\ view.on => view.x = ClampAxis(view.x, frame, Width * view.scale)

\* When the last finger is lifted no gesture is left over, so the next touch
\* means what it says.
HandsOff ==
  hand.touch = {} =>
    /\ ui.pointer = None /\ ui.edit = {} /\ ~ ui.nav
    /\ ui.draft = None /\ ui.drag = None /\ ui.text = None
    /\ view.pointers = {}

\* What a finger draws or drags stays as it is until it becomes an object or
\* the transformation of one, however the gesture ends: by lifting, by a lost
\* capture, by a cancellation.  Only a second finger and the view drop it.
WorkKept ==
  [][/\ ui.draft # None /\ Writable /\ ~ ui'.nav /\ ~ view'.on =>
          \/ ui'.draft # None /\ ui'.draft.lo <= ui.draft.lo /\ ui.draft.hi <= ui'.draft.hi
          \/ /\ board'.made = board.made + 1
             /\ board'.objects[board'.made] = NewObject("s", ui.draft.lo, ui.draft.hi)
     /\ ui.drag # None /\ Writable /\ ~ ui'.nav /\ ~ view'.on =>
          \/ ui'.drag # None /\ ui'.drag.target = ui.drag.target
          \/ ~ ui.drag.moved
          \/ ui.drag.target \notin DOMAIN Objects
          \/ board'.objects[ui.drag.target].xf = ui.drag.xf
    ]_vars
=============================================================================
