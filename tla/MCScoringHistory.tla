-------------------------- MODULE MCScoringHistory --------------------------
(* Instances of ScoringHistory for model checking.                         *)
EXTENDS ScoringHistory, TLC

CONSTANT c1

AllOnOneCard == [id \in TxnIds |-> c1]

ThreadSymmetry == Permutations(Workers) \cup Permutations(TxnIds)
=============================================================================
