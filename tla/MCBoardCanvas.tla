--------------------------- MODULE MCBoardCanvas ---------------------------
(* An instance of BoardCanvas for TLC.                                     *)
EXTENDS BoardCanvas, TLC

Symmetry == Permutations(Finger)

\* The places of the two views and the objects do not depend on each other: one
\* varies while the others are at rest.
Focus ==
  /\ \/ board.made = 0
     \/ frame = Width /\ editView \in {Unfitted, [Unfitted EXCEPT !.width = frame]}
  /\ view.on =>
       \/ view.scale = 1 /\ view.x = (frame - Width) \div 2
       \/ board.made = 0 /\ editView.scale = 1 /\ ui = [Idle EXCEPT !.edit = ui.edit]
=============================================================================
