------------------------------- MODULE Ordering -------------------------------
(***************************************************************************)
(* Array.prototype.sort, of what a finite set holds and by an order that    *)
(* leaves no ties: the n-th is the one that n - 1 others precede.  before   *)
(* is the set of the pairs of which the first precedes the second.          *)
(***************************************************************************)
EXTENDS Integers, FiniteSets

RankIn(p, S, before) == Cardinality({q \in S : <<q, p>> \in before})

Ordered(S, before) == [n \in 1..Cardinality(S) |-> CHOOSE p \in S : RankIn(p, S, before) = n - 1]
=============================================================================
