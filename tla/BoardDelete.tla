---------------------------- MODULE BoardDelete -----------------------------
(***************************************************************************)
(* Deleting a board from one phone and joining it again by code: the       *)
(* replication of BoardSync.tla extended with BleSync.deleteBoard.  The    *)
(* operations of a deleted board are gone from this phone only, and        *)
(* numbering starts again from what its table holds.                       *)
(***************************************************************************)
EXTENDS BoardSync

VARIABLES
  profile,  \* phones that keep the board's profile in their preferences
  held      \* history: held[p] is every operation p's table ever held

dvars == <<vars, profile, held>>

DInit == Init /\ profile = {} /\ held = store

\* The worker's task that deletes the board's rows.
DeleteRoom == [t |-> "delete"]

\* openBoardByCode: the profile is written when the board is activated.
JoinByCode(p) ==
  /\ OpenBoard(p)
  /\ profile' = profile \cup {p}

\* deleteBoard: refused while the board is open or without a profile; the
\* rows are deleted later, on the worker.
DeleteBoard(p) ==
  /\ ~ open[p]
  /\ p \in profile
  /\ profile' = profile \ {p}
  /\ work' = [work EXCEPT ![p] = Append(@, DeleteRoom)]
  /\ UNCHANGED <<store, made, unconfirmed, open, routes, auth, pending, out, upsets>>

DeleteRows(p) ==
  /\ Posted(p, DeleteRoom)
  /\ work' = [work EXCEPT ![p] = Tail(@)]
  /\ store' = [store EXCEPT ![p] = {}]
  /\ UNCHANGED <<made, unconfirmed, open, routes, auth, pending, out, upsets, profile>>

DStep ==
  \/ \E p \in Phone : JoinByCode(p) \/ DeleteBoard(p) \/ DeleteRows(p)
  \/ /\ \/ \E p \in Phone : WriteBoardEvent(p) \/ CloseBoard(p) \/ Worker(p) \/ Restart(p)
        \/ \E p, q \in Phone : Link(p, q) \/ Receive(p, q)
     /\ UNCHANGED profile

DNext == DStep /\ held' = [p \in Phone |-> held[p] \cup store'[p]]

DSpec == DInit /\ [][DNext]_dvars

\* An acknowledged operation has been stored by another phone: "Operation ACK
\* prevents 'all frames were handed to Android' from being mistaken for 'the peer
\* stored the complete operation'" (docs/SYNC_AND_MERGE.md, section 6).
AcknowledgedWasStored ==
  \A p \in Phone : \A n \in 1 .. made[p] :
    n \notin unconfirmed[p] =>
      \E q \in Phone \ {p} : \E x \in held[q] : OpId(x) = <<p, n>>
=============================================================================
