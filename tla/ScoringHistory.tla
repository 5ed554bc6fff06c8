--------------------------- MODULE ScoringHistory ---------------------------
(***************************************************************************)
(* ScoringService with the history variables of InvestigationHold, which   *)
(* relate the threads' steps on the shared dictionary of holds to whole    *)
(* score and clear calls.  Nothing here adds or removes a behaviour of the *)
(* service except the assumption of InOrderSpec.                           *)
(***************************************************************************)
EXTENDS ScoringService

VARIABLES
    alerted,   \* per card, the model-driven alerts no disposition has cleared
    now,       \* largest timestamp decided so far
    verdict,   \* the latest decision
    before,    \* per thread whose call has been alone, the uncleared alerts
               \* of its card when the call arrived
    looked     \* per thread, the card's entry of `holds` that its call read

history == <<alerted, now, verdict, before, looked>>

NoVerdict == [decision |-> "none"]

Init_H ==
    /\ Init
    /\ alerted = [c \in Cards |-> {}]
    /\ now = 0
    /\ verdict = NoVerdict
    /\ before = [w \in Workers |-> {}]
    /\ looked = [w \in Workers |-> NoHold]

Deciding(w)  == At(w, "decide") /\ pc'[w] = "fold"
Clearing(w)  == At(w, "effect") /\ job[w].label = "confirmed_legitimate" /\ pc'[w] = "idle"
Arriving(w)  == At(w, "idle") /\ pc'[w] = "features"
Looking(w)   == At(w, "look") /\ pc'[w] # "look"
Alone(w)     == \A v \in Workers \ {w} : At(v, "idle")

DecideHistory(w) ==
    LET c == Card(w)
        ts == job[w].ts
    IN  /\ alerted' = IF ModelDriven(job[w].risk)
                      THEN [alerted EXCEPT ![c] = @ \cup {ts}] ELSE alerted
        /\ now' = IF ts > now THEN ts ELSE now
        /\ verdict' = [card |-> c, ts |-> ts, risk |-> job[w].risk,
                       decision |-> job'[w].decision,
                       before |-> before[w] \cap alerted[c]]
        /\ before' = [before EXCEPT ![w] = {}]
        /\ looked' = [looked EXCEPT ![w] = NoHold]

ClearHistory(w) ==
    /\ alerted' = [alerted EXCEPT ![job[w].alert.card] = {}]
    /\ verdict' = NoVerdict
    /\ UNCHANGED <<now, before, looked>>

RestartHistory ==
    /\ verdict' = NoVerdict
    /\ before' = [w \in Workers |-> {}]
    /\ looked' = [w \in Workers |-> NoHold]
    /\ UNCHANGED <<alerted, now>>

ThreadHistory(w) ==
    /\ before' = [v \in Workers |->
                     IF Arriving(w)
                     THEN IF v = w /\ Alone(w) THEN alerted[CardOf[job'[w].id]] ELSE {}
                     ELSE IF pc'[v] = "idle" THEN {} ELSE before[v]]
    /\ looked' = IF Looking(w) THEN [looked EXCEPT ![w] = holds[Card(w)]]
                 ELSE IF pc'[w] = "idle" THEN [looked EXCEPT ![w] = NoHold] ELSE looked
    /\ UNCHANGED <<alerted, now, verdict>>

Next_H ==
    \/ \E w \in Workers :
          /\ Request(w) \/ ScoreStep(w) \/ DispositionStep(w) \/ DatabaseRaises(w)
          /\ IF Deciding(w) THEN DecideHistory(w)
             ELSE IF Clearing(w) THEN ClearHistory(w) ELSE ThreadHistory(w)
    \/ Restart /\ RestartHistory
    \/ Finished /\ UNCHANGED history

Spec_H == Init_H /\ [][Next_H]_<<vars, history>> /\ Fairness

(* Clients send their transactions in timestamp order, and those the       *)
(* service scores at the same moment happened at the same moment.          *)
ArrivesInOrder ==
    \A w \in Workers :
        Arriving(w) =>
            /\ job'[w].ts >= now
            /\ \A v \in Workers : "ts" \in DOMAIN job[v] => job'[w].ts = job[v].ts

InOrderSpec_H == Init_H /\ [][Next_H /\ ArrivesInOrder]_<<vars, history>>

-----------------------------------------------------------------------------
(* No transaction is approved within HOLD_TTL of a model-driven alert that *)
(* was decided before the transaction arrived and that nobody has cleared, *)
(* not even when no other call is running: whatever races there were are   *)
(* over (ARCHITECTURE.md:68-70, "TTL from the last model-driven alert").   *)
FloorHolds ==
    verdict.decision = "approve" =>
        \A a \in verdict.before : Expired(a, verdict.ts)

-----------------------------------------------------------------------------
(* Refinement.  The deletion of an expired entry belongs to the decision   *)
(* that follows it: until then the abstract dictionary still has it.       *)
AbstractHolds ==
    [c \in Cards |->
        IF \E w \in Workers : At(w, "decide") /\ Card(w) = c /\ looked[w] # NoHold
        THEN looked[CHOOSE w \in Workers :
                        At(w, "decide") /\ Card(w) = c /\ looked[w] # NoHold]
        ELSE holds[c]]

AbstractVerdict ==
    IF verdict = NoVerdict THEN NoVerdict
    ELSE [card |-> verdict.card, ts |-> verdict.ts, risk |-> verdict.risk,
          decision |-> verdict.decision]

Hold == INSTANCE InvestigationHold
          WITH holds <- AbstractHolds, verdict <- AbstractVerdict

Queue == INSTANCE AlertQueue
           WITH AlertIds <- TxnIds, alerts <- disk.alerts, audit <- disk.audit

(* With one worker, score and clear_hold are atomic: the steps on the      *)
(* dictionary implement InvestigationHold, in any order of timestamps and  *)
(* with restarts, so that what is proved of that module holds of the       *)
(* verdicts of the service (ScoringEngine.score, clear_hold).              *)
ImplementsHold == Hold!AnyOrderSpec

(* With one worker, what is on disk changes only by whole push and         *)
(* disposition calls, whenever the process dies, until sqlite raises: what *)
(* a call has then left open, the commit of the next one takes along       *)
(* (AlertQueue).                                                           *)
ImplementsQueue ==
    Queue!QueueInit /\ [][faults = 0 => Queue!QueueNext]_(Queue!queueVars)
=============================================================================
