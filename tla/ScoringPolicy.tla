---------------------------- MODULE ScoringPolicy ----------------------------
(***************************************************************************)
(* The constants and pure decision rules of ScoringEngine                  *)
(* (finguard/scoring.py): when a hold has expired, which of the three      *)
(* decisions a risk score and a hold give, which alerts are model-driven.  *)
(* The model's score is any member of Risks; only its order relative to    *)
(* the two thresholds of the bundle matters to the engine.                 *)
(***************************************************************************)
EXTENDS Integers

CONSTANTS
    Cards,        \* hold keys, "<institution_id>:<card_id>"
    MaxTime,      \* bound on the timestamps of the transactions
    HoldTTL,      \* HOLD_TTL, in the model's unit of event time
    MaxRisk,      \* risk scores are 0 .. MaxRisk
    TChallenge,   \* the bundle's t_challenge
    TBlock,       \* the bundle's t_block
    NoHold        \* the key is absent from the dictionary

ASSUME BoundsAssumption == MaxTime \in Nat /\ MaxRisk \in Nat
ASSUME TTLAssumption == HoldTTL \in Nat
ASSUME NoHoldAssumption == NoHold \notin Int
\* analytic_thresholds returns a block threshold raised to the challenge one.
ASSUME ThresholdAssumption ==
    TChallenge \in Nat /\ TBlock \in Nat /\ TChallenge <= TBlock

Times == 0 .. MaxTime
Risks == 0 .. MaxRisk
Decisions == {"approve", "soft_challenge", "hard_block"}

(* The age test of _is_held, strict: a hold exactly HOLD_TTL old holds.    *)
Expired(set_at, ts) == ts - set_at > HoldTTL

ModelDriven(risk) == risk >= TChallenge

(* Mutant of Decision: held cards are not floored.                         *)
DecisionUnfloored(risk, held) ==
    IF risk >= TBlock THEN "hard_block"
    ELSE IF ModelDriven(risk) THEN "soft_challenge" ELSE "approve"

(* Held cards are floored at soft_challenge.                               *)
Decision(risk, held) ==
    IF risk >= TBlock THEN "hard_block"
    ELSE IF ModelDriven(risk) \/ held THEN "soft_challenge" ELSE "approve"
=============================================================================
