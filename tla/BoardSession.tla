---------------------------- MODULE BoardSession ----------------------------
(***************************************************************************)
(* What the user of one phone is promised about the board in front of him: *)
(* a board is shown whole or not at all, what is shown was stored for this *)
(* board, what he draws is stored for the board he draws on, nothing he    *)
(* sees disappears while he looks, and only a board that he does not look  *)
(* at is erased.  BoardPage implements this with a page, a native part and *)
(* two queues between them.                                                *)
(***************************************************************************)
EXTENDS Naturals

CONSTANTS
  Room,   \* the boards
  NoRoom  \* no board is shown

VARIABLES
  stored,  \* stored[r]: the operations stored for board r
  shown,   \* the board that is shown, or NoRoom
  content  \* the operations that make up what is shown

vars == <<stored, shown, content>>

Init ==
  /\ stored = [r \in Room |-> {}]
  /\ shown = NoRoom
  /\ content = {}

\* A board appears, made of what is stored for it.
Show(r) ==
  /\ shown = NoRoom
  /\ shown' = r
  /\ content' \subseteq stored[r]
  /\ UNCHANGED stored

Hide ==
  /\ shown' = NoRoom
  /\ content' = {}
  /\ UNCHANGED stored

\* Operations that were stored before reach the screen.
See ==
  /\ shown # NoRoom
  /\ content \subseteq content'
  /\ content' \subseteq stored[shown]
  /\ UNCHANGED <<stored, shown>>

\* The user draws.
Draw ==
  /\ shown # NoRoom
  /\ content' \ content # {}
  /\ content \subseteq content'
  /\ stored' = [stored EXCEPT ![shown] = @ \union (content' \ content)]
  /\ UNCHANGED shown

\* Operations arrive from other phones, or the page publishes a name.
Learn(r) ==
  /\ stored' = [stored EXCEPT ![r] = stored'[r]]
  /\ stored[r] \subseteq stored'[r]
  /\ UNCHANGED <<shown, content>>

Erase(r) ==
  /\ shown # r
  /\ stored' = [stored EXCEPT ![r] = {}]
  /\ UNCHANGED <<shown, content>>

Next ==
  \/ \E r \in Room : Show(r) \/ Learn(r) \/ Erase(r)
  \/ Hide
  \/ See
  \/ Draw

Spec == Init /\ [][Next]_vars
=============================================================================
