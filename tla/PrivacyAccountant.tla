-------------------------- MODULE PrivacyAccountant --------------------------
(***************************************************************************)
(* The inversions of finguard/privacy_accountant.py: the epsilon a round   *)
(* may spend when k rounds share a budget, and the rounds a budget affords.*)
(*                                                                         *)
(* An epsilon is a number of units of 2^-Halvings, and so is a number of   *)
(* rounds while it is being searched for: then every midpoint of Halvings  *)
(* bisections is an integer.  The code bisects 100 times.  The bound of    *)
(* strong composition (Bound) is a parameter: only that it is 0 at 0 and   *)
(* grows with both arguments matters to a search.                          *)
(*                                                                         *)
(* The recursions are functions on intervals, and what a search spends is  *)
(* passed to it as a function.                                             *)
(***************************************************************************)
EXTENDS Integers, FiniteSetsExt

CONSTANTS
    Bound(_, _),     \* _strong_composition_bound(eps0, k), delta being fixed
    Halvings,        \* bisections
    MaxDoublings,    \* bound on the doublings before them
    Grain,           \* round(eps0, 4) is a multiple of this many units
    Totals,          \* EPS_TOTALS, in units
    Horizons,        \* HORIZONS_ROUNDS
    Targets          \* UTILITY_THRESHOLDS, in units

(* 1, 2, 4, ...                                                            *)
Powers[n \in 0 .. Halvings] == IF n = 0 THEN 1 ELSE 2 * Powers[n - 1]

Unit == Powers[Halvings]
Widest == Powers[MaxDoublings]

ASSUME AccountantAssumption ==
    /\ Halvings \in Nat /\ MaxDoublings \in 0 .. Halvings
    /\ Grain \in Nat \ {0} /\ Grain % 2 = 0
    /\ Totals \subseteq {n * Unit : n \in 1 .. Widest}
    /\ Horizons \subseteq Nat \ {0}
    /\ Targets \subseteq Nat \ {0}

(* The bound is 0 at 0 and grows with the epsilon (its docstring) and with *)
(* the rounds, and the doublings suffice for it to reach any of the totals.*)
ASSUME BoundAssumption ==
    /\ \A k \in Horizons :
        /\ Bound(0, k) = 0
        /\ \A total \in Totals : Bound(total * Widest, k) >= total
        /\ \A e \in 0 .. Widest * Widest * Unit + Grain :
               Bound(e, k) \in Nat /\ Bound(e, k) <= Bound(e + 1, k)
    /\ \A eps0 \in Targets :
        /\ \A total \in Totals : Bound(eps0, Widest) >= total
        /\ \A n \in 0 .. Widest :
               Bound(eps0, n) \in Nat /\ Bound(eps0, n) <= Bound(eps0, n + 1)

(* The first of start, 2 start, 4 start, ... that satisfies P.             *)
Widened(start, P(_)) ==
    start * Powers[Min({n \in 0 .. MaxDoublings : P(start * Powers[n]) \/ n = MaxDoublings})]

(* Mutant of Keeps: the half that overshoots is kept.                      *)
KeepsOvershoot(spent, total) == spent > total

Keeps(spent, total) == spent <= total

Halved(b, spent, total) ==
    LET mid == (b.lo + b.hi) \div 2
    IN  IF Keeps(spent[mid], total) THEN [b EXCEPT !.lo = mid] ELSE [b EXCEPT !.hi = mid]

(* The lower end after bisecting between 0 and hi.                         *)
Bisected(hi, spent, total) ==
    LET bracket[i \in 0 .. Halvings] ==
            IF i = 0 THEN [lo |-> 0, hi |-> hi] ELSE Halved(bracket[i - 1], spent, total)
    IN  bracket[Halvings].lo

BasicEps0(total, k) == total \div k

AdvancedEps0(total, k) ==
    LET hi == Widened(total, LAMBDA e : Bound(e, k) >= total)
    IN  Bisected(hi, [e \in 0 .. hi |-> Bound(e, k)], total)

(* In units; the caller is to round down to whole rounds.                  *)
RoundsForTarget(total, eps0) ==
    LET hi == Widened(1, LAMBDA n : Bound(eps0, n) >= total)
        whole(n) == IF n < Unit THEN 1 ELSE n \div Unit
    IN  Bisected(hi * Unit, [n \in 0 .. hi * Unit |-> Bound(eps0, whole(n))], total)

Rounded(eps0) == ((2 * eps0 + Grain) \div (2 * Grain)) * Grain

BudgetTable ==
    {[total |-> total, rounds |-> k, basic |-> Rounded(BasicEps0(total, k)),
      advanced |-> Rounded(AdvancedEps0(total, k))] : total \in Totals, k \in Horizons}

CadenceAnswers ==
    {[total |-> total, target |-> eps0, rounds |-> RoundsForTarget(total, eps0)] :
     total \in Totals, eps0 \in Targets}

-----------------------------------------------------------------------------
(* A row's epsilon is, within its rounding and the resolution of the       *)
(* search, the largest that keeps the rounds within the budget             *)
(* (privacy_accountant.py: "the largest eps0 such that k adaptive eps0-DP  *)
(* releases stay within eps_total").                                       *)
SpendsBudget(row) ==
    LET step == Widened(row.total, LAMBDA e : Bound(e, row.rounds) >= row.total) \div Unit
        half == Grain \div 2
    IN  /\ row.advanced <= half \/ Bound(row.advanced - half, row.rounds) <= row.total
        /\ Bound(row.advanced + half + step, row.rounds) >= row.total

(* Rounded down, the rounds of an answer can be afforded, and one more     *)
(* cannot, or only just.                                                   *)
AffordsRounds(answer) ==
    LET rounds == answer.rounds \div Unit
    IN  /\ rounds > 0 => Bound(answer.target, rounds) <= answer.total
        /\ Bound(answer.target, rounds + 1) >= answer.total
=============================================================================
