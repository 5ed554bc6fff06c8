--------------------------- MODULE MCFeatureStore ---------------------------
(* Model-checking instance of CardIncidents, and so of FeatureStore.       *)
EXTENDS CardIncidents

EntitySymmetry == Permutations(Cards) \cup Permutations(Devices) \cup Permutations(Merchants)
=============================================================================
