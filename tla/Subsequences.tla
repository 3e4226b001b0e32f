---------------------------- MODULE Subsequences ----------------------------
(***************************************************************************)
(* The part of a sequence at given positions: what filter, removeAll and   *)
(* removeIf leave of a list.  (SelectSeq does the same and is beyond the   *)
(* proof system, which knows no definition of it.)                         *)
(***************************************************************************)
EXTENDS Naturals, Sequences, FiniteSets

\* How many of the positions are up to i.
Rank(at, i) == Cardinality({j \in at : j <= i})

\* The elements of s at the positions, in their order.
Pick(s, at) ==
  [n \in 1 .. Cardinality(at) |-> s[CHOOSE i \in at : Rank(at, i) = n]]
=============================================================================
