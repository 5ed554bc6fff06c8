------------------------- MODULE MCInvestigationHold -------------------------
(* Model-checking instance of InvestigationHold, and the mutants of its    *)
(* definitions.                                                            *)
EXTENDS InvestigationHold, TLC

CardSymmetry == Permutations(Cards)
=============================================================================
