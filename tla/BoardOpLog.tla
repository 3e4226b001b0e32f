----------------------------- MODULE BoardOpLog -----------------------------
(***************************************************************************)
(* What the board replication promises, without messages: every phone      *)
(* holds a growing set of operations of one board, an author numbers its   *)
(* own operations 1, 2, 3, ... and a phone only ever obtains an operation  *)
(* that its author still holds.  The Room table BoardOperation             *)
(* (db/entities/BoardOperation.kt) is the state; BoardSync.tla shows how   *)
(* the BLE protocol implements it.                                         *)
(***************************************************************************)
EXTENDS Naturals

CONSTANTS
  Phone,  \* the feed identities of the board's members
  MaxOps  \* bound: operations of one author

VARIABLE store  \* store[p]: the operations recorded on phone p

Op == [author : Phone, seq : 1 .. MaxOps, nr : 1 .. MaxOps]

Own(p) == {o \in store[p] : o.author = p}

Init == store = [p \in Phone |-> {}]

\* p records a new event of its own under the next sequence number.
Create(p, o) ==
  /\ o.author = p
  /\ {x.seq : x \in Own(p)} = 1 .. (o.seq - 1)
  /\ o.nr \notin {x.nr : x \in Own(p)}
  /\ store' = [store EXCEPT ![p] = @ \cup {o}]

\* p obtains an operation from anyone; its author still holds it.
Obtain(p, o) ==
  /\ o \in store[o.author]
  /\ store' = [store EXCEPT ![p] = @ \cup {o}]

Next == \E p \in Phone, o \in Op : Create(p, o) \/ Obtain(p, o)

Spec == Init /\ [][Next]_store
=============================================================================
