-------------------------------- MODULE Lists --------------------------------
(***************************************************************************)
(* List comprehensions with a condition, as the channels prune their lists *)
(* ([x for x in list if ...]): the elements at the places where it holds.  *)
(* SelectSeq, said without recursion.                                      *)
(***************************************************************************)
EXTENDS Integers, Sequences, FiniteSets

(* The n-th of a finite set of numbers, in ascending order.                *)
Nth(S, n) == CHOOSE i \in S : Cardinality({k \in S : k <= i}) = n

At(list, places) == [n \in 1 .. Cardinality(places) |-> list[Nth(places, n)]]
=============================================================================
