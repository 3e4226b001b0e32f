------------------------------ MODULE Timeline ------------------------------
(***************************************************************************)
(* One timeline of src/src/scuttlesort.js while operations arrive: any     *)
(* acyclic graph of causes, in any order, effects before their causes, and *)
(* the page saved and restored at any moment (tremola.js persist and       *)
(* b2f_initialize, board.js:274).                                          *)
(***************************************************************************)
EXTENDS ScuttleSort, TLC

CONSTANT MaxCauses  \* bound: causes one operation names

ASSUME TimelineAssumption == MaxCauses \in Nat

VARIABLE timeline

TimelineInit == timeline = EmptyTimeline

\* n would be its own cause through the operations that have arrived: it is in
\* every set that holds the causes and, with an operation, what that one names.
Depends(n, causes) ==
    \A reached \in SUBSET Names :
        /\ causes \subseteq reached
        /\ \A c \in reached \cap Nodes(timeline) : timeline.after[c] \subseteq reached
        => n \in reached

Arrive(n) ==
    /\ n \notin Nodes(timeline)
    /\ \E causes \in SUBSET (Names \ {n}) :
          /\ Cardinality(causes) <= MaxCauses
          /\ ~Depends(n, causes)
          /\ timeline' = Add(timeline, n, causes)

Restart ==
    /\ timeline # EmptyTimeline
    /\ timeline' = FromJSON(timeline)

TimelineNext == (\E n \in Names : Arrive(n)) \/ Restart

TimelineSpec == TimelineInit /\ [][TimelineNext]_timeline

-----------------------------------------------------------------------------
(* What the timeline promises, whatever the order of arrival. *)

\* "Convergent" (scuttlesort.js, header): after every arrival the ranks are the
\* depths in the graph of the arrived operations - which these equations
\* determine - and the order is by depth, then by name: the same on every phone
\* that has these operations, in whatever order they came in.
Convergent ==
    /\ \A n \in Nodes(timeline) :
          timeline.rank[n] =
             Max({0} \cup {timeline.rank[c] + 1 : c \in timeline.after[n] \cap Nodes(timeline)})
    /\ \A i, j \in DOMAIN timeline.linear :
          LET a == timeline.linear[i]
              b == timeline.linear[j]
          IN  i < j => \/ timeline.rank[a] < timeline.rank[b]
                       \/ timeline.rank[a] = timeline.rank[b] /\ a < b

\* What the board takes from the timeline besides the order: the place of each
\* operation (board.js:305 compares it with the end), and the tips, which the
\* next operation will name as its causes (board.js:315).
PlacesAndTips ==
    /\ DOMAIN timeline.indx = Range(timeline.linear)
    /\ \A i \in DOMAIN timeline.linear : timeline.indx[timeline.linear[i]] = i
    /\ timeline.tips = {n \in Nodes(timeline) : \A m \in Nodes(timeline) : n \notin timeline.after[m]}

=============================================================================
