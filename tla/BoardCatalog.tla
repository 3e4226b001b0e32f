---------------------------- MODULE BoardCatalog ----------------------------
(***************************************************************************)
(* The page's list of saved boards (collabboard.js,                        *)
(* tremola.collabboardBoards) and the local label colours that tell boards *)
(* of one name apart.  The list is a sequence of entries in the order of   *)
(* their "updated" time, oldest first: touching an entry moves it to the   *)
(* end.                                                                    *)
(*                                                                         *)
(* Abstractions.  A name is a model value, equal names have equal keys     *)
(* (cb_board_name_key); DefaultName stands for the names that              *)
(* cb_is_default_board_name recognises.  Two updates are never in the same *)
(* millisecond.                                                            *)
(***************************************************************************)
EXTENDS Integers, Sequences, FiniteSets, Subsequences

CONSTANTS
  Colors,      \* CB_BOARD_COLORS.length
  DefaultName  \* "Board", or "Board" and the code

NoColor == -1
ColorIndex == 0 .. Colors - 1

Listed(cat, r) == \E i \in DOMAIN cat : cat[i].room = r

EntryOf(cat, r) == cat[CHOOSE i \in DOMAIN cat : cat[i].room = r]

Rooms(cat) == {cat[i].room : i \in DOMAIN cat}

\* The entries of name n, as positions in the list.
Group(cat, n) == {i \in DOMAIN cat : cat[i].name = n}

\* cb_stable_board_name: a default name never replaces a given one.
StableName(cat, r, n) ==
  IF n = DefaultName /\ Listed(cat, r) THEN EntryOf(cat, r).name ELSE n

-----------------------------------------------------------------------------
(* Colours *)

\* The i-th entry has a colour that no older entry of its name has.
Keeps(cat, i) ==
  /\ cat[i].color \in ColorIndex
  /\ \A j \in Group(cat, cat[i].name) : j < i => cat[j].color # cat[i].color

\* The colours that are left for the entries of name n that keep none.
Free(cat, n) ==
  ColorIndex \ {cat[i].color : i \in {j \in Group(cat, n) : Keeps(cat, j)}}

\* The nr-th smallest member of S, or NoColor.
Nth(S, nr) ==
  LET at == {c \in S : Cardinality({d \in S : d < c}) = nr}
  IN IF at = {} THEN NoColor ELSE CHOOSE c \in at : TRUE

\* Mutant: colours are given out without looking who else gets one.
ReconciledAlone(cat) ==
  [i \in DOMAIN cat |->
     IF cat[i].color \in ColorIndex THEN cat[i]
     ELSE [cat[i] EXCEPT !.color = Nth(Free(cat, cat[i].name), 0)]]

\* cb_reconcile_board_colors
Reconciled(cat) ==
  LET before(i) == {j \in Group(cat, cat[i].name) : j < i /\ ~ Keeps(cat, j)}
  IN [i \in DOMAIN cat |->
        IF Keeps(cat, i) THEN cat[i]
        ELSE [cat[i] EXCEPT !.color =
                Nth(Free(cat, cat[i].name), Cardinality(before(i)))]]

-----------------------------------------------------------------------------
(* Operations *)

\* cb_board_name_available
NameAvailable(cat, n) == Cardinality(Group(cat, n)) < Colors

Others(cat, r) == Pick(cat, {i \in DOMAIN cat : cat[i].room # r})

\* cb_remember_room
Remember(cat, r, n, touch) ==
  LET color == IF Listed(cat, r) THEN EntryOf(cat, r).color ELSE NoColor
      entry == [room |-> r, name |-> n, color |-> color]
  IN Reconciled(
       IF touch \/ ~ Listed(cat, r) THEN Append(Others(cat, r), entry)
       ELSE [i \in DOMAIN cat |-> IF cat[i].room = r THEN entry ELSE cat[i]])

\* cb_forget_catalog_room, and cb_render_board_list when the list is shown.
Forget(cat, r) == Reconciled(Others(cat, r))

-----------------------------------------------------------------------------
(* Equal names have different colours as long as there are enough colours  *)
(* (TECHNICAL_OVERVIEW.md: "unique local palette indexes, up to eight"),   *)
(* and an entry is without one only when all are in use.                   *)
UniqueColors(cat) ==
  \A i, j \in DOMAIN cat :
    i # j /\ cat[i].name = cat[j].name =>
      \/ cat[i].color # cat[j].color
      \/ cat[i].color = NoColor /\ Cardinality(Group(cat, cat[i].name)) > Colors

ColorsUsed(cat) ==
  \A i \in DOMAIN cat :
    cat[i].color = NoColor =>
      ColorIndex \subseteq {cat[j].color : j \in Group(cat, cat[i].name)}
=============================================================================
