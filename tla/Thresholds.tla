----------------------------- MODULE Thresholds -----------------------------
(***************************************************************************)
(* Decision thresholds from a channel's cost model (finguard/core.py,      *)
(* graduated_thresholds, and the wrappers of train.py and p2p.py), and the *)
(* decision and the cost they lead to (train.py, expected_cost).           *)
(*                                                                         *)
(* A score stands for the probability score / Scale.  A threshold is a     *)
(* pair of a numerator and a positive denominator, so that comparing a     *)
(* score with it is exact.                                                 *)
(***************************************************************************)
EXTENDS Integers, Sequences, FiniteSets, Functions

CONSTANT Scale

ASSUME ScaleAssumption == Scale \in Nat \ {0}

Scores == 0 .. Scale

(* Costs per event, in one unit: of approving a fraud, of the middle       *)
(* action on a fraud, of the strong and of the middle action on a genuine  *)
(* one.                                                                    *)
Costs == [fn : Nat, fraud_mid : Nat, fp_hi : Nat, fp_mid : Nat]

(* The middle action is worth having: it is dearer than approving a        *)
(* genuine event, cheaper than blocking it, cheaper than approving a fraud,*)
(* and there are scores for which it is the best of the three.             *)
Graduated(c) ==
    /\ 0 < c.fp_mid /\ c.fp_mid < c.fp_hi /\ c.fraud_mid < c.fn
    /\ c.fp_mid * c.fraud_mid <= (c.fp_hi - c.fp_mid) * (c.fn - c.fraud_mid)

Meets(p, t) == p * t[2] >= t[1] * Scale
NoLess(s, t) == s[1] * t[2] >= t[1] * s[2]
Larger(s, t) == IF NoLess(s, t) THEN s ELSE t

(* Mutant of MiddleFrom: the challenged fraud costs nothing.               *)
MiddleFromFree(c) == <<c.fp_mid, c.fn + c.fp_mid>>

MiddleFrom(c) == <<c.fp_mid, c.fn - c.fraud_mid + c.fp_mid>>
StrongFrom(c) == <<c.fp_hi - c.fp_mid, c.fp_hi - c.fp_mid + c.fraud_mid>>

GraduatedThresholds(c) ==
    [mid |-> MiddleFrom(c), strong |-> Larger(StrongFrom(c), MiddleFrom(c))]

Meeting(scores, t) == {i \in DOMAIN scores : Meets(scores[i], t)}

(* np.sort                                                                 *)
Sorted(scores) ==
    LET places == 1 .. Len(scores)
        order == CHOOSE p \in Bijection(places, places) :
                     \A i, j \in places : i < j => scores[p[i]] <= scores[p[j]]
    IN  [i \in places |-> scores[order[i]]]

(* Mutant of KthLargest: one place too far down.                           *)
KthLargestNext(scores, k) == Sorted(scores)[IF k < Len(scores) THEN Len(scores) - k ELSE 1]

(* np.sort(scores)[-k]: from the end, but -0 is the first place.           *)
KthLargest(scores, k) == Sorted(scores)[IF k = 0 THEN 1 ELSE Len(scores) + 1 - k]

(* allowed: the cap per day times the days.                                *)
ApplyAlertCap(t, scores, allowed) ==
    IF Cardinality(Meeting(scores, t)) > allowed
    THEN <<KthLargest(scores, allowed), Scale>> ELSE t

(* After the alert cap has raised the lower one to mid.                    *)
AnalyticThresholds(c, mid) ==
    [mid |-> mid, strong |-> Larger(GraduatedThresholds(c).strong, mid)]

Action(p, t) ==
    IF Meets(p, t.strong) THEN "strong" ELSE IF Meets(p, t.mid) THEN "middle" ELSE "approve"

ExpectedCost(action, p, c) ==
    [approve |-> c.fn * p,
     middle |-> c.fraud_mid * p + c.fp_mid * (Scale - p),
     strong |-> c.fp_hi * (Scale - p)][action]

(* The action on a score costs no more than either of the others, or the   *)
(* cap has turned an action into an approval (core.py: "middle beats       *)
(* approve above t_mid; strong beats middle above t_strong").              *)
Cheapest(p, t, c) ==
    \/ \A other \in {"approve", "middle", "strong"} :
           ExpectedCost(Action(p, t), p, c) <= ExpectedCost(other, p, c)
    \/ Action(p, t) = "approve" /\ Meets(p, MiddleFrom(c))
=============================================================================
