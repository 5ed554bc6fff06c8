-------------------------- MODULE InvestigationHold --------------------------
(***************************************************************************)
(* What the investigation hold of ScoringEngine (finguard/scoring.py)      *)
(* promises, one whole call per step: one engine process, its private      *)
(* dictionary `holds` (card -> the time the hold was set), scoring,        *)
(* clearing by a disposition, and a restart of the process.                *)
(*                                                                         *)
(* Time is EVENT time: the code reads no clock, it compares the timestamp  *)
(* of the transaction being scored with the one stored in the hold.        *)
(*                                                                         *)
(* Three history variables, which no guard reads but `now`'s in the        *)
(* in-order specification: `now` is the largest timestamp scored so far,   *)
(* `alerted` the timestamps of each card's model-driven alerts that no     *)
(* disposition has cleared, `verdict` the result of the latest call.       *)
(***************************************************************************)
EXTENDS ScoringPolicy

VARIABLES holds, now, alerted, verdict

vars == <<holds, now, alerted, verdict>>

Verdicts == [card : Cards, ts : Times, risk : Risks, decision : Decisions]
NoVerdict == [decision |-> "none"]

TypeOK ==
    /\ holds \in [Cards -> Times \cup {NoHold}]
    /\ now \in Times
    /\ alerted \in [Cards -> SUBSET Times]
    /\ verdict \in Verdicts \cup {NoVerdict}

Init ==
    /\ holds = [c \in Cards |-> NoHold]
    /\ now = 0
    /\ alerted = [c \in Cards |-> {}]
    /\ verdict = NoVerdict

-----------------------------------------------------------------------------
(* The hold that is left once _is_held has looked at the card: the look    *)
(* itself deletes an expired entry.                                        *)
SurvivingHold(c, ts) ==
    IF holds[c] # NoHold /\ Expired(holds[c], ts) THEN NoHold ELSE holds[c]

Held(c, ts) == SurvivingHold(c, ts) # NoHold

(* Mutant of HoldAfter: an alert on a held card does not refresh the hold. *)
HoldAfterNoRefresh(c, ts, risk) ==
    IF ModelDriven(risk) /\ ~Held(c, ts) THEN ts ELSE SurvivingHold(c, ts)

(* Mutant of HoldAfter: any alert, a floored one too, refreshes the hold.  *)
HoldAfterFloorExtends(c, ts, risk) ==
    IF ModelDriven(risk) \/ Held(c, ts) THEN ts ELSE NoHold

(* Only a model-driven alert sets or refreshes the hold, with the          *)
(* transaction's own timestamp.                                            *)
HoldAfter(c, ts, risk) ==
    IF ModelDriven(risk) THEN ts ELSE SurvivingHold(c, ts)

Score(c, ts, risk) ==
    /\ holds' = [holds EXCEPT ![c] = HoldAfter(c, ts, risk)]
    /\ now' = IF ts > now THEN ts ELSE now
    /\ alerted' = IF ModelDriven(risk)
                  THEN [alerted EXCEPT ![c] = @ \cup {ts}]
                  ELSE alerted
    /\ verdict' = [card |-> c, ts |-> ts, risk |-> risk,
                   decision |-> Decision(risk, Held(c, ts))]

(* The effect of a confirmed_legitimate disposition.                       *)
ClearHold(c) ==
    /\ holds' = [holds EXCEPT ![c] = NoHold]
    /\ alerted' = [alerted EXCEPT ![c] = {}]
    /\ verdict' = NoVerdict
    /\ UNCHANGED now

(* A new process starts from an empty dictionary.                          *)
Restart ==
    /\ holds' = [c \in Cards |-> NoHold]
    /\ verdict' = NoVerdict
    /\ UNCHANGED <<now, alerted>>

-----------------------------------------------------------------------------
(* The stream arrives in timestamp order (the sorted replay of harness.py, *)
(* one Kafka partition) and the process stays up.                          *)
ScoreInOrder(c, ts, risk) == ts >= now /\ Score(c, ts, risk)

NextInOrder ==
    \/ \E c \in Cards, ts \in Times, risk \in Risks : ScoreInOrder(c, ts, risk)
    \/ \E c \in Cards : ClearHold(c)

Spec == Init /\ [][NextInOrder]_vars

(* What the code guarantees with no such assumption: `timestamp` is a      *)
(* field of the request that nothing orders, and the process may restart.  *)
NextAnyOrder ==
    \/ \E c \in Cards, ts \in Times, risk \in Risks : Score(c, ts, risk)
    \/ \E c \in Cards : ClearHold(c)
    \/ Restart

AnyOrderSpec == Init /\ [][NextAnyOrder]_vars

-----------------------------------------------------------------------------
(* The uncleared alerts of card c that still cover time ts.                *)
Covering(c, ts) == {a \in alerted[c] : ~Expired(a, ts)}

(* No transaction is approved within HOLD_TTL of a model-driven alert on   *)
(* its card that nobody has cleared: repetition may lower the score of the *)
(* next transaction, not its decision (scoring.py, ScoringEngine.__init__, *)
(* "closes the adaptive-repetition hole").                                 *)
FloorHolds ==
    verdict.decision = "approve" => Covering(verdict.card, verdict.ts) = {}

(* A transaction whose own score is low is challenged only while a         *)
(* model-driven alert covers it: a floored challenge never extends the     *)
(* hold, and a cleared hold is gone (scoring.py, score, "must not extend   *)
(* itself").                                                               *)
FloorOnlyWhileCovered ==
    (verdict.decision = "soft_challenge" /\ ~ModelDriven(verdict.risk))
        => Covering(verdict.card, verdict.ts) # {}

-----------------------------------------------------------------------------
(* The parts of the inductive invariant behind these properties.  A hold   *)
(* is the latest uncleared alert ...                                       *)
HoldIsLatestAlert ==
    \A c \in Cards :
        holds[c] # NoHold =>
            /\ holds[c] \in alerted[c]
            /\ \A a \in alerted[c] : a <= holds[c]

(* ... a card without a hold has only alerts that are past the TTL ...     *)
NoHoldMeansExpired ==
    \A c \in Cards :
        holds[c] = NoHold => \A a \in alerted[c] : Expired(a, now)

(* ... and no alert is ahead of the stream.                                *)
AlertsArePast == \A c \in Cards : \A a \in alerted[c] : a <= now

(* The dictionary of holds and the history of alerts agree: the invariant  *)
(* that makes the two floor properties inductive (scoring.py, _is_held and *)
(* score together).                                                        *)
HoldInv == TypeOK /\ HoldIsLatestAlert /\ NoHoldMeansExpired /\ AlertsArePast
=============================================================================
