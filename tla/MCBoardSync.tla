---------------------------- MODULE MCBoardSync -----------------------------
(* Instances of BoardSync for TLC.                                         *)
EXTENDS BoardSync, FiniteSetsExt

CONSTANTS
  MaxTraffic,  \* bound: messages queued or in flight, all routes together
  Third,       \* phones that take part only when nothing is upset
  Second       \* authors that write only when nothing is upset

Traffic == MapThenSumSet(LAMBDA r : Cardinality(out[r[1]][r[2]]), Phone \X Phone)

\* Two phones with several operations of one author, failures and more traffic;
\* or all phones with one operation of each author and no failure.
Focus ==
  \/ /\ \A p \in Third : ~ open[p] /\ \A q \in Phone : q \notin routes[p] /\ p \notin routes[q]
     /\ \A p \in Second : made[p] = 0
     /\ Traffic <= MaxTraffic
  \/ /\ upsets = 0 /\ \A p \in Phone : made[p] <= 1
     /\ Traffic < MaxTraffic
=============================================================================
