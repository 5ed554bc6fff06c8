----------------------- MODULE InvestigationHold_proofs -----------------------
(***************************************************************************)
(* Proofs about InvestigationHold, for every set of cards, every TTL, any  *)
(* thresholds in order and any bound on the timestamps.                    *)
(***************************************************************************)
EXTENDS InvestigationHold, TLAPS

USE BoundsAssumption, TTLAssumption, NoHoldAssumption, ThresholdAssumption

-----------------------------------------------------------------------------
(* Looking at a hold leaves it as it is or removes it; if it remains, it   *)
(* has not expired.                                                        *)
LEMMA SurvivingHoldLemma ==
    ASSUME TypeOK, NEW c \in Cards, NEW ts \in Times
    PROVE  /\ SurvivingHold(c, ts) \in {holds[c], NoHold}
           /\ SurvivingHold(c, ts) # NoHold =>
                 /\ SurvivingHold(c, ts) = holds[c]
                 /\ ~Expired(holds[c], ts)
           /\ SurvivingHold(c, ts) = NoHold =>
                 holds[c] = NoHold \/ Expired(holds[c], ts)
  BY DEF SurvivingHold

(* What Score leaves in the dictionary is a time or the absent marker.     *)
LEMMA HoldAfterType ==
    ASSUME TypeOK, NEW c \in Cards, NEW ts \in Times, NEW risk \in Risks
    PROVE  HoldAfter(c, ts, risk) \in Times \cup {NoHold}
  <1>1. holds[c] \in Times \cup {NoHold}
    BY DEF TypeOK
  <1>. QED  BY <1>1, SurvivingHoldLemma DEF HoldAfter

LEMMA DecisionType ==
    ASSUME NEW risk, NEW held
    PROVE  Decision(risk, held) \in Decisions
  BY DEF Decision, Decisions

(* An expired alert stays expired as event time advances, and so does every*)
(* alert before it.                                                        *)
LEMMA ExpiredMonotone ==
    ASSUME NEW a \in Times, NEW b \in Times, a <= b,
           NEW s \in Times, NEW t \in Times, s <= t,
           Expired(b, s)
    PROVE  Expired(a, t)
  BY DEF Expired, Times

-----------------------------------------------------------------------------
(* Every step keeps the types, in whatever order the timestamps come.      *)
LEMMA TypeStep ==
    ASSUME TypeOK, [NextAnyOrder]_vars
    PROVE  TypeOK'
  <1>1. ASSUME NEW c \in Cards, NEW ts \in Times, NEW risk \in Risks,
               Score(c, ts, risk)
        PROVE  TypeOK'
    <2>1. holds' \in [Cards -> Times \cup {NoHold}]
      BY <1>1, HoldAfterType DEF TypeOK, Score
    <2>2. now' \in Times
      BY <1>1 DEF TypeOK, Score
    <2>3. alerted' \in [Cards -> SUBSET Times]
      BY <1>1 DEF TypeOK, Score
    <2>4. verdict' \in Verdicts
      BY <1>1, DecisionType DEF Score, Verdicts
    <2>. QED  BY <2>1, <2>2, <2>3, <2>4 DEF TypeOK
  <1>2. ASSUME NEW c \in Cards, ClearHold(c)
        PROVE  TypeOK'
    BY <1>2 DEF TypeOK, ClearHold
  <1>3. CASE Restart
    BY <1>3 DEF TypeOK, Restart
  <1>4. CASE UNCHANGED vars
    BY <1>4 DEF TypeOK, vars
  <1>. QED  BY <1>1, <1>2, <1>3, <1>4 DEF NextAnyOrder

LEMMA InitType == ASSUME Init PROVE TypeOK
  BY DEF Init, TypeOK, Times

(* The variables of the engine keep their types under the most general     *)
(* specification: ScoringEngine.__init__, score, clear_hold, in any order  *)
(* of timestamps and with restarts.                                        *)
THEOREM TypeCorrect == AnyOrderSpec => []TypeOK
  <1>1. Init => TypeOK
    BY InitType
  <1>2. TypeOK /\ [NextAnyOrder]_vars => TypeOK'
    BY TypeStep
  <1>. QED  BY <1>1, <1>2, PTL DEF AnyOrderSpec

-----------------------------------------------------------------------------
(* A score in timestamp order keeps the dictionary of holds and the        *)
(* history of alerts in agreement.                                         *)
LEMMA ScoreKeepsHoldInv ==
    ASSUME HoldInv, NEW c \in Cards, NEW ts \in Times, NEW risk \in Risks,
           ScoreInOrder(c, ts, risk)
    PROVE  HoldInv'
  <1>. USE DEF ScoreInOrder, Score
  <1>1. TypeOK /\ TypeOK'
    <2>1. [NextAnyOrder]_vars
      BY DEF NextAnyOrder
    <2>. QED  BY <2>1, TypeStep DEF HoldInv
  <1>2. now' = ts /\ now \in Times /\ now <= ts
    BY <1>1 DEF TypeOK, Times
  <1>3. AlertsArePast'
    BY <1>1, <1>2 DEF HoldInv, AlertsArePast, TypeOK, Times
  <1>4. ASSUME NEW d \in Cards, d # c
        PROVE  holds'[d] = holds[d] /\ alerted'[d] = alerted[d]
    BY <1>1, <1>4 DEF TypeOK
  <1>5. CASE ModelDriven(risk)
    <2>1. holds'[c] = ts /\ alerted'[c] = alerted[c] \cup {ts}
      BY <1>1, <1>5 DEF TypeOK, HoldAfter
    <2>2. HoldIsLatestAlert'
      BY <1>1, <1>2, <1>4, <2>1 DEF HoldInv, HoldIsLatestAlert, AlertsArePast, TypeOK, Times
    <2>3. NoHoldMeansExpired'
      <3>1. ASSUME NEW d \in Cards, holds'[d] = NoHold, NEW a \in alerted'[d]
            PROVE  Expired(a, now')
        <4>1. d # c
          BY <2>1, <3>1 DEF Times
        <4>2. a \in alerted[d] /\ holds[d] = NoHold /\ a \in Times
          BY <1>1, <1>4, <3>1, <4>1 DEF TypeOK
        <4>3. Expired(a, now)
          BY <4>2 DEF HoldInv, NoHoldMeansExpired
        <4>. QED  BY <1>2, <4>2, <4>3, ExpiredMonotone DEF Times
      <3>. QED  BY <3>1 DEF NoHoldMeansExpired
    <2>. QED  BY <1>1, <1>3, <2>2, <2>3 DEF HoldInv
  <1>6. CASE ~ModelDriven(risk)
    <2>1. holds'[c] = SurvivingHold(c, ts) /\ alerted' = alerted
      BY <1>1, <1>6 DEF TypeOK, HoldAfter
    <2>2. HoldIsLatestAlert'
      BY <1>1, <1>4, <2>1, SurvivingHoldLemma DEF HoldInv, HoldIsLatestAlert
    <2>3. NoHoldMeansExpired'
      <3>1. ASSUME NEW d \in Cards, holds'[d] = NoHold, NEW a \in alerted[d]
            PROVE  Expired(a, ts)
        <4>0. a \in Times
          BY <1>1 DEF TypeOK
        <4>1. CASE holds[d] = NoHold
          <5>1. Expired(a, now)
            BY <4>1 DEF HoldInv, NoHoldMeansExpired
          <5>. QED  BY <1>2, <4>0, <5>1, ExpiredMonotone DEF Times
        <4>2. CASE holds[d] # NoHold
          <5>1. d = c /\ Expired(holds[c], ts)
            BY <1>1, <1>4, <2>1, <3>1, <4>2, SurvivingHoldLemma
          <5>2. a <= holds[c] /\ holds[c] \in Times
            BY <1>1, <4>2, <5>1 DEF HoldInv, HoldIsLatestAlert, TypeOK
          <5>. QED  BY <4>0, <5>1, <5>2, ExpiredMonotone DEF Times
        <4>. QED  BY <4>1, <4>2
      <3>. QED  BY <1>2, <2>1, <3>1 DEF NoHoldMeansExpired
    <2>. QED  BY <1>1, <1>3, <2>2, <2>3 DEF HoldInv
  <1>. QED  BY <1>5, <1>6

LEMMA ClearKeepsHoldInv ==
    ASSUME HoldInv, NEW c \in Cards, ClearHold(c)
    PROVE  HoldInv'
  <1>1. TypeOK /\ TypeOK'
    <2>1. [NextAnyOrder]_vars
      BY DEF NextAnyOrder
    <2>. QED  BY <2>1, TypeStep DEF HoldInv
  <1>2. holds'[c] = NoHold /\ alerted'[c] = {} /\ now' = now
    BY <1>1 DEF ClearHold, TypeOK
  <1>3. ASSUME NEW d \in Cards, d # c
        PROVE  holds'[d] = holds[d] /\ alerted'[d] = alerted[d]
    BY <1>1, <1>3 DEF ClearHold, TypeOK
  <1>4. HoldIsLatestAlert'
    BY <1>2, <1>3 DEF HoldInv, HoldIsLatestAlert
  <1>5. NoHoldMeansExpired'
    BY <1>2, <1>3 DEF HoldInv, NoHoldMeansExpired
  <1>6. AlertsArePast'
    BY <1>2, <1>3 DEF HoldInv, AlertsArePast
  <1>. QED  BY <1>1, <1>4, <1>5, <1>6 DEF HoldInv

(* As long as transactions arrive in timestamp order and the process stays *)
(* up, every hold is its card's latest uncleared alert and a card without  *)
(* one has only expired alerts (scoring.py, _is_held and score).           *)
THEOREM HoldInvariant == Spec => []HoldInv
  <1>1. Init => HoldInv
    <2>1. ASSUME Init PROVE HoldIsLatestAlert /\ NoHoldMeansExpired /\ AlertsArePast
      BY <2>1 DEF Init, HoldIsLatestAlert, NoHoldMeansExpired, AlertsArePast
    <2>. QED  BY <2>1, InitType DEF HoldInv
  <1>2. HoldInv /\ [NextInOrder]_vars => HoldInv'
    <2>1. CASE UNCHANGED vars
      BY <2>1 DEF vars, HoldInv, TypeOK, HoldIsLatestAlert, NoHoldMeansExpired,
                  AlertsArePast
    <2>. QED  BY <2>1, ScoreKeepsHoldInv, ClearKeepsHoldInv DEF NextInOrder
  <1>. QED  BY <1>1, <1>2, PTL DEF Spec

-----------------------------------------------------------------------------
(* The verdict of one score call in timestamp order.                       *)
LEMMA ApprovedOnlyUncovered ==
    ASSUME HoldInv, NEW c \in Cards, NEW ts \in Times, NEW risk \in Risks,
           ScoreInOrder(c, ts, risk)
    PROVE  FloorHolds'
  <1>. USE DEF ScoreInOrder, Score
  <1>0. TypeOK /\ now \in Times /\ now <= ts
    BY DEF HoldInv, TypeOK, Times
  <1>1. SUFFICES ASSUME Decision(risk, Held(c, ts)) = "approve",
                        NEW a \in alerted'[c]
                 PROVE  Expired(a, ts)
    BY DEF FloorHolds, Covering
  <1>2. ~ModelDriven(risk) /\ ~Held(c, ts)
    BY <1>1 DEF Decision, ModelDriven, Risks
  <1>3. a \in alerted[c] /\ a \in Times
    BY <1>0, <1>2 DEF TypeOK
  <1>4. CASE holds[c] = NoHold
    <2>1. Expired(a, now)
      BY <1>3, <1>4 DEF HoldInv, NoHoldMeansExpired
    <2>. QED  BY <1>0, <1>3, <2>1, ExpiredMonotone DEF Times
  <1>5. CASE holds[c] # NoHold
    <2>1. Expired(holds[c], ts)
      BY <1>0, <1>2, <1>5, SurvivingHoldLemma DEF Held
    <2>2. a <= holds[c] /\ holds[c] \in Times
      BY <1>0, <1>3, <1>5 DEF HoldInv, HoldIsLatestAlert, TypeOK
    <2>. QED  BY <1>3, <2>1, <2>2, ExpiredMonotone DEF Times
  <1>. QED  BY <1>4, <1>5

(* In timestamp order, no transaction is approved while an uncleared       *)
(* model-driven alert on its card is within HOLD_TTL: repetition cannot    *)
(* bring a card under investigation back to approve (ScoringEngine.score). *)
THEOREM NoDecayToApprove == Spec => []FloorHolds
  <1>1. Init => FloorHolds
    BY DEF Init, FloorHolds, NoVerdict
  <1>2. HoldInv /\ FloorHolds /\ [NextInOrder]_vars => FloorHolds'
    <2>1. ASSUME NEW c \in Cards, ClearHold(c)
          PROVE  FloorHolds'
      BY <2>1 DEF ClearHold, FloorHolds, NoVerdict
    <2>2. CASE FloorHolds /\ UNCHANGED vars
      BY <2>2 DEF vars, FloorHolds, Covering
    <2>. QED  BY <2>1, <2>2, ApprovedOnlyUncovered DEF NextInOrder
  <1>. QED  BY <1>1, <1>2, HoldInvariant, PTL DEF Spec

-----------------------------------------------------------------------------
(* Whatever the order of the timestamps and however often the process      *)
(* restarts, a hold stands for an uncleared model-driven alert.            *)
HoldIsUncleared ==
    \A c \in Cards : holds[c] # NoHold => holds[c] \in alerted[c]

LEMMA HoldIsUnclearedStep ==
    ASSUME TypeOK, HoldIsUncleared, [NextAnyOrder]_vars
    PROVE  HoldIsUncleared'
  <1>1. ASSUME NEW c \in Cards, NEW ts \in Times, NEW risk \in Risks,
               Score(c, ts, risk)
        PROVE  HoldIsUncleared'
    <2>1. ASSUME NEW d \in Cards, d # c
          PROVE  holds'[d] = holds[d] /\ alerted'[d] = alerted[d]
      BY <1>1, <2>1 DEF Score, TypeOK
    <2>2. holds'[c] # NoHold => holds'[c] \in alerted'[c]
      <3>1. CASE ModelDriven(risk)
        BY <1>1, <3>1 DEF Score, TypeOK, HoldAfter
      <3>2. CASE ~ModelDriven(risk)
        BY <1>1, <3>2, SurvivingHoldLemma DEF Score, TypeOK, HoldAfter, HoldIsUncleared
      <3>. QED  BY <3>1, <3>2
    <2>. QED  BY <2>1, <2>2 DEF HoldIsUncleared
  <1>2. ASSUME NEW c \in Cards, ClearHold(c)
        PROVE  HoldIsUncleared'
    BY <1>2 DEF ClearHold, TypeOK, HoldIsUncleared
  <1>3. CASE Restart
    BY <1>3 DEF Restart, HoldIsUncleared
  <1>4. CASE UNCHANGED vars
    BY <1>4 DEF vars, HoldIsUncleared
  <1>. QED  BY <1>1, <1>2, <1>3, <1>4 DEF NextAnyOrder

(* A low-risk transaction is challenged only within HOLD_TTL of an         *)
(* uncleared model-driven alert on its card, in any order of timestamps    *)
(* and across restarts: floored challenges do not keep the hold alive      *)
(* (ScoringEngine.score).                                                  *)
THEOREM NoSelfExtendingHold == AnyOrderSpec => []FloorOnlyWhileCovered
  <1>1. Init => TypeOK /\ HoldIsUncleared /\ FloorOnlyWhileCovered
    BY InitType DEF Init, HoldIsUncleared, FloorOnlyWhileCovered, NoVerdict
  <1>2. TypeOK /\ HoldIsUncleared /\ FloorOnlyWhileCovered /\ [NextAnyOrder]_vars
            => FloorOnlyWhileCovered'
    <2>1. ASSUME TypeOK, HoldIsUncleared,
                 NEW c \in Cards, NEW ts \in Times, NEW risk \in Risks,
                 Score(c, ts, risk)
          PROVE  FloorOnlyWhileCovered'
      <3>1. SUFFICES ASSUME ~ModelDriven(risk),
                            Decision(risk, Held(c, ts)) = "soft_challenge"
                     PROVE  \E a \in alerted'[c] : ~Expired(a, ts)
        BY <2>1 DEF Score, FloorOnlyWhileCovered, Covering
      <3>2. Held(c, ts)
        BY <3>1 DEF Decision
      <3>3. holds[c] # NoHold /\ ~Expired(holds[c], ts)
        BY <2>1, <3>2, SurvivingHoldLemma DEF Held
      <3>4. holds[c] \in alerted'[c]
        BY <2>1, <3>1, <3>3 DEF HoldIsUncleared, Score
      <3>. QED  BY <3>3, <3>4
    <2>2. ASSUME NEW c \in Cards, ClearHold(c)
          PROVE  FloorOnlyWhileCovered'
      BY <2>2 DEF ClearHold, FloorOnlyWhileCovered, NoVerdict
    <2>3. CASE Restart
      BY <2>3 DEF Restart, FloorOnlyWhileCovered, NoVerdict
    <2>4. CASE FloorOnlyWhileCovered /\ UNCHANGED vars
      BY <2>4 DEF vars, FloorOnlyWhileCovered, Covering
    <2>. QED  BY <2>1, <2>2, <2>3, <2>4 DEF NextAnyOrder
  <1>3. TypeOK /\ HoldIsUncleared /\ [NextAnyOrder]_vars => TypeOK' /\ HoldIsUncleared'
    BY TypeStep, HoldIsUnclearedStep
  <1>. QED  BY <1>1, <1>2, <1>3, PTL DEF AnyOrderSpec
=============================================================================
