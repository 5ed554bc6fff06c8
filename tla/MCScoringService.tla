-------------------------- MODULE MCScoringService --------------------------
(* Instances of ScoringService for model checking.                         *)
EXTENDS ScoringService, TLC

CONSTANT c1

AllOnOneCard == [id \in TxnIds |-> c1]

ThreadSymmetry == Permutations(Workers) \cup Permutations(TxnIds)
=============================================================================
