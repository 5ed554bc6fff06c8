---------------------------- MODULE MCRedisStore ----------------------------
(* Model-checking instance of RedisStore.                                  *)
EXTENDS RedisStore

EntitySymmetry ==
    Permutations(Cards) \cup Permutations(Devices)
        \cup Permutations(Merchants) \cup Permutations(Replicas)
=============================================================================
