----------------------------- MODULE MCOffline -----------------------------
(* Model-checking instance of Offline.                                     *)
EXTENDS Offline, TLC

(* Linear for small epsilons, quadratic for large ones, like the bound of  *)
(* the code; in units.                                                     *)
DrvBound(eps0, k) == ((eps0 * (k + 1)) \div 2) + ((k * eps0 * eps0) \div Unit)

(* Two cost models with a middle action; 1/6 lies between 1/7, the first   *)
(* one's lower threshold if a challenged fraud were free, and 1/5.         *)
Card == [fn |-> 6, fraud_mid |-> 2, fp_hi |-> 4, fp_mid |-> 1]
P2P == [fn |-> 10, fraud_mid |-> 4, fp_hi |-> 4, fp_mid |-> 2]

FiniteTotals == {16, 32, 80}
Symmetric == Permutations(Processes) \cup Permutations(Versions)
=============================================================================
