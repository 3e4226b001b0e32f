----------------------------- MODULE MCKanban -----------------------------
(* Instances of Kanban: a fresh board, and a board two people share already. *)
EXTENDS Kanban

CONSTANTS ann, bob, More

Fresh == [events |-> <<>>, order |-> <<>>, more |-> More]

\* ann created the board and invited bob, who accepted; one list with one card.
Shared ==
    [events |-> <<Event(ann, "board/create", NoRef, NoRef, {}),
                  Event(ann, "invite", bob, NoRef, {1}),
                  Event(bob, "invite/accept", NoRef, NoRef, {2}),
                  Event(ann, "column/create", NoRef, NoRef, {3}),
                  Event(ann, "item/create", 4, NoRef, {4})>>,
     order |-> <<1, 2, 3, 4, 5>>, more |-> More]

BothStarts == {Fresh, Shared}

=============================================================================
