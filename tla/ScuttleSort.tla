---------------------------- MODULE ScuttleSort ----------------------------
(***************************************************************************)
(* The sorted timeline of src/src/scuttlesort.js: an incremental           *)
(* topological sort of the operations of a Kanban board.  Every operation  *)
(* names its causes (the tips its author knew).  Operations may arrive     *)
(* before their causes; the timeline then keeps the effect in "pending".   *)
(*                                                                         *)
(* A timeline is a record:                                                 *)
(*   linear   the operations in order            (this.linear)             *)
(*   indx     the place of each in linear, from 1 (node.indx, from 0)      *)
(*   rank     length of the longest known path    (node.rank)              *)
(*   after    the causes each was added with      (node.prev, by name)     *)
(*   known    those of them that have arrived     (node.prev, linked)      *)
(*   succ     the operations linked to it         (node.succ)              *)
(*   pending  missing cause |-> its effects       (this.pending)           *)
(*   tips     operations without an effect        (this.tips)              *)
(*                                                                         *)
(* Names are integers with the order the code compares them by.  The       *)
(* notify callback and the "mov"/"ins" commands it compresses have no user *)
(* in the repository and are left out; so is the cycle check, since an     *)
(* author can only name operations that exist.                             *)
(***************************************************************************)
EXTENDS Integers, Sequences, FiniteSets, FiniteSetsExt, SequencesExt, Functions

CONSTANT Names  \* the references of the operations

ASSUME NamesAssumption == Names \subseteq Nat /\ IsFiniteSet(Names)

EmptyTimeline == [linear |-> <<>>, indx |-> <<>>, rank |-> <<>>, after |-> <<>>,
                  known |-> <<>>, succ |-> <<>>, pending |-> <<>>, tips |-> {}]

Nodes(t) == DOMAIN t.rank

\* The effects that wait for a cause that has not arrived.
Waiting(t, c) == IF c \in DOMAIN t.pending THEN t.pending[c] ELSE {}

-----------------------------------------------------------------------------
(* Moving a node towards the future. *)

\* Take the node out of its place and put it at pos; those between move back.
Jump(t, n, pos) ==
    LET si == t.indx[n] IN
    [t EXCEPT !.linear = InsertAt(RemoveAt(t.linear, si), pos, n),
              !.indx = [m \in Nodes(t) |->
                          IF m = n THEN pos
                          ELSE IF t.indx[m] \in (si + 1)..pos THEN t.indx[m] - 1
                          ELSE t.indx[m]]]

\* The last place reachable from pos over neighbours that are behind.
Past(t, pos, behind) ==
    Max({p \in pos..Len(t.linear) : \A q \in (pos + 1)..p : t.linear[q] \in behind})

RiseTo(t, n, pos) == IF t.indx[n] < pos THEN Jump(t, n, pos) ELSE t

\* Mutant of Rise: names are not compared.
RiseByRank(t, n) ==
    LET lowerRank == {m \in Nodes(t) : t.rank[n] > t.rank[m]}
    IN  RiseTo(t, n, Past(t, t.indx[n], lowerRank))

\* Bubble up over nodes of a lower rank, then over smaller names of its rank.
Rise(t, n) ==
    LET lowerRank == {m \in Nodes(t) : t.rank[n] > t.rank[m]}
        smallerName == {m \in Nodes(t) : t.rank[n] = t.rank[m] /\ m < n}
    IN  RiseTo(t, n, Past(t, Past(t, t.indx[n], lowerRank), smallerName))

-----------------------------------------------------------------------------
(* A new edge from a node to one of its causes. *)

\* One level of the wave: a node whose rank is too low gets the rank of the
\* level, and its effects are the next level.
Level(t, w, rank) ==
    LET raised == {c \in w.front : w.rank[c] < rank}
    IN  [front |-> UNION {t.succ[c] : c \in raised},
         visited |-> w.visited \cup w.front,
         rank |-> [c \in Nodes(t) |-> IF c \in raised THEN rank ELSE w.rank[c]]]

\* Ranks spread along the effects.  (The code goes depth first, and raises a
\* node again when it meets it at a deeper level; the last ranks are those of
\* the levels, and so are the nodes it has met.)
Wave(t, n, base) ==
    LET at[d \in 0..Cardinality(Nodes(t))] ==
            IF d = 0 THEN [front |-> {n}, visited |-> {}, rank |-> t.rank]
            ELSE Level(t, at[d - 1], base + d)
    IN  at[Cardinality(Nodes(t))]

\* Everything the wave visited rises in turn, the latest first.
RiseAll(t, visited) ==
    LET len == Len(t.linear)
        at[k \in 0..len] ==
            IF k = 0 THEN t
            ELSE LET n == t.linear[len + 1 - k]
                 IN  IF n \in visited THEN Rise(at[k - 1], n) ELSE at[k - 1]
    IN  at[len]

Spread(t, n, cause, wave) ==
    LET s == [t EXCEPT !.rank = wave.rank]
    IN  RiseAll(IF s.indx[n] < s.indx[cause] THEN Jump(s, n, s.indx[cause]) ELSE Rise(s, n),
                wave.visited)

AddEdgeToThePast(t, n, cause) == Spread(t, n, cause, Wave(t, n, t.rank[cause]))

-----------------------------------------------------------------------------
(* Adding an operation. *)

\* Mutant of Uncovered: a cause stays a tip.
StillTips(tips, here) == tips

\* A cause that gets an effect is no tip any more.
Uncovered(tips, here) == tips \ here

\* Register the node: link it to the causes that are here, wait for the others,
\* and put it before the latest of its causes.
Register(t, n, after) ==
    LET here == after \cap Nodes(t)
        pos == Max({1} \cup {t.indx[c] : c \in here})
    IN  [linear |-> InsertAt(t.linear, pos, n),
         indx |-> [m \in Nodes(t) \cup {n} |->
                     IF m = n THEN pos ELSE IF t.indx[m] >= pos THEN t.indx[m] + 1 ELSE t.indx[m]],
         rank |-> [m \in Nodes(t) \cup {n} |-> IF m = n THEN 0 ELSE t.rank[m]],
         after |-> [m \in Nodes(t) \cup {n} |-> IF m = n THEN after ELSE t.after[m]],
         known |-> [m \in Nodes(t) \cup {n} |-> IF m = n THEN here ELSE t.known[m]],
         succ |-> [m \in Nodes(t) \cup {n} |->
                     IF m = n THEN {} ELSE IF m \in here THEN t.succ[m] \cup {n} ELSE t.succ[m]],
         pending |-> [c \in DOMAIN t.pending \cup (after \ here) |->
                        Waiting(t, c) \cup (IF c \in after \ here THEN {n} ELSE {})],
         tips |-> Uncovered(t.tips, here)]

\* An edge from e, which was waiting for n, to n.
Link(t, e, n) ==
    [AddEdgeToThePast(t, e, n) EXCEPT !.succ[n] = @ \cup {e}, !.known[e] = @ \cup {n}]

\* The operations that were waiting for n get their edge to it.
Resolved(t, n, effects) ==
    LET at[k \in 0..Len(effects)] == IF k = 0 THEN t ELSE Link(at[k - 1], effects[k], n)
    IN  at[Len(effects)]

ResolvePending(t, n) ==
    [Resolved(t, n, SetToSeq(Waiting(t, n))) EXCEPT !.pending = Restrict(@, DOMAIN @ \ {n})]

\* A new node gets an edge to each of its causes.
Anchored(t, n, causes) ==
    LET at[k \in 0..Len(causes)] ==
            IF k = 0 THEN t ELSE AddEdgeToThePast(at[k - 1], n, causes[k])
    IN  at[Len(causes)]

Placed(t, n) ==
    IF t.known[n] # {} THEN Anchored(t, n, SetToSeq(t.known[n])) ELSE Rise(t, n)

WithTip(t, n) == [t EXCEPT !.tips = IF t.succ[n] = {} THEN @ \cup {n} ELSE @]

Add(t, n, after) == WithTip(ResolvePending(Placed(Register(t, n, after), n), n), n)

-----------------------------------------------------------------------------
(* Saving and restoring (toJSON, fromJSON): a node is linked to a cause when *)
(* the cause stands before it in the saved order.                            *)

FromJSON(t) ==
    LET Earlier(n) == {t.linear[i] : i \in {j \in DOMAIN t.linear : n \notin Range(SubSeq(t.linear, 1, j))}}
        linked == [n \in Nodes(t) |-> t.after[n] \cap Earlier(n)]
    IN  [t EXCEPT !.known = linked, !.succ = [n \in Nodes(t) |-> {m \in Nodes(t) : n \in linked[m]}]]

=============================================================================
