--------------------------- MODULE ScoringService ---------------------------
(***************************************************************************)
(* The HTTP service of finguard/scoring.py as it runs: FastAPI executes    *)
(* the synchronous endpoints /score and /alerts/../disposition/.. on a     *)
(* pool of worker threads which share ONE ScoringEngine, one feature       *)
(* store, one Metrics object and one sqlite connection, with no lock       *)
(* around any of them.  Every read or write of that shared state is a step *)
(* of its own; what a thread computes on its locals belongs to the step.   *)
(*                                                                         *)
(* The connection's open transaction is shared too: `conn` is what any     *)
(* thread reads through the connection, `disk` is what has been committed  *)
(* and survives a crash.                                                   *)
(*                                                                         *)
(* `answered` and `refused`, what became of the alerts, are history.       *)
(***************************************************************************)
EXTENDS ScoringPolicy, Sequences, FiniteSets, Functions

CONSTANTS
    Workers,      \* threads of the endpoint pool
    TxnIds,       \* transaction ids; alert ids are the same names prefixed
    CardOf,       \* the card of a transaction id
    Analysts,     \* analyst identities that are not blank
    MaxCalls,     \* bound on the calls accepted
    MaxCrashes,   \* bound on the restarts of the process
    MaxFaults,    \* bound on the calls in which sqlite raises
    NoAlert,
    Null

ASSUME WorkersAssumption == IsFiniteSet(Workers)
ASSUME CardsAssumption == IsFiniteSet(Cards)
ASSUME CardOfAssumption == CardOf \in [TxnIds -> Cards]

VARIABLES
    ready,      \* model_ready
    holds,      \* ScoringEngine.holds
    folded,     \* per card, how many transactions the store has folded in
    marks,      \* per card, the timestamps in card_fraud_marks
    metrics,    \* Metrics: scored, errors, decisions
    conn,       \* the two tables as the shared connection sees them
    disk,       \* the two tables as committed
    pc, job,    \* per thread: the next step, and the locals of its call
    calls, crashes, faults,
    answered,   \* the transactions whose alert a returned score call reported
    refused     \* those whose alert the database has refused to this process

engineVars == <<holds, folded, marks>>
boundVars == <<calls, crashes, faults>>
outcomes == <<answered, refused>>
vars == <<ready, engineVars, metrics, conn, disk, pc, job, boundVars, outcomes>>

(* What the service reads back from an alert.                              *)
Payloads == [card : Cards, ts : Times]
NoJob == [kind |-> "none"]

(* The queue's tables as a whole: the same operators build both views.     *)
Tables == INSTANCE AlertQueue
            WITH AlertIds <- TxnIds, alerts <- conn.alerts, audit <- conn.audit

ASSUME NullAssumption == Null \notin Tables!Labels /\ NoAlert \notin Tables!Rows

EmptyTables == [alerts |-> [id \in TxnIds |-> NoAlert], audit |-> <<>>]
NoMetrics == [scored |-> 0, errors |-> 0, decisions |-> [d \in Decisions |-> 0]]

Init ==
    /\ ready \in BOOLEAN
    /\ holds = [c \in Cards |-> NoHold]
    /\ folded = [c \in Cards |-> 0]
    /\ marks = [c \in Cards |-> <<>>]
    /\ metrics = NoMetrics
    /\ conn = EmptyTables
    /\ disk = EmptyTables
    /\ pc = [w \in Workers |-> "idle"]
    /\ job = [w \in Workers |-> NoJob]
    /\ calls = 0
    /\ crashes = 0
    /\ faults = 0
    /\ answered = {}
    /\ refused = {}

-----------------------------------------------------------------------------
(* Control of one thread: `job` keeps the locals that are still needed.    *)
Goto(w, label) == pc' = [pc EXCEPT ![w] = label]

Locals(w, locals) == job' = [job EXCEPT ![w] = locals]

Return(w) == Goto(w, "idle") /\ Locals(w, NoJob)

At(w, label) == pc[w] = label

Card(w) == CardOf[job[w].id]

Accept(w, newJob, label) ==
    /\ At(w, "idle")
    /\ calls < MaxCalls
    /\ calls' = calls + 1
    /\ Locals(w, newJob)
    /\ Goto(w, label)

-----------------------------------------------------------------------------
(* POST /score.                                                            *)

ScoreRequest(w, id, ts) ==
    /\ ready
    /\ Accept(w, [id |-> id, ts |-> ts], "features")
    /\ UNCHANGED <<ready, engineVars, metrics, conn, disk, crashes, faults, outcomes>>

(* model_ready is False: 503.                                              *)
ScoreUnready(w) ==
    /\ ~ready
    /\ At(w, "idle")
    /\ calls < MaxCalls
    /\ calls' = calls + 1
    /\ metrics' = [metrics EXCEPT !.errors = @ + 1]
    /\ UNCHANGED <<ready, engineVars, conn, disk, pc, job, crashes, faults, outcomes>>

(* features_for begins: from here it trims and iterates over the windows of*)
(* the card, the merchant and the device.                                  *)
ReadFeatures(w) ==
    /\ At(w, "features")
    /\ Goto(w, "reading")
    /\ Locals(w, [id |-> job[w].id, ts |-> job[w].ts, seen |-> folded])
    /\ UNCHANGED <<ready, engineVars, metrics, conn, disk, boundVars, outcomes>>

(* Another thread has appended to, or is itself trimming, a window this    *)
(* one iterates over: any two transactions may share the merchant.         *)
Disturbed(w) ==
    \/ folded # job[w].seen
    \/ \E v \in Workers \ {w} : At(v, "reading")

(* features_for returns and the model turns the features into a score;     *)
(* which one is the model's business.                                      *)
Predict(w, risk) ==
    /\ At(w, "reading")
    /\ Goto(w, "look")
    /\ Locals(w, [id |-> job[w].id, ts |-> job[w].ts, risk |-> risk])
    /\ UNCHANGED <<ready, engineVars, metrics, conn, disk, boundVars, outcomes>>

(* "deque mutated during iteration" or a pop from an emptied deque: 500.   *)
FeaturesFail(w) ==
    /\ At(w, "reading")
    /\ Disturbed(w)
    /\ Return(w)
    /\ UNCHANGED <<ready, engineVars, metrics, conn, disk, boundVars, outcomes>>

(* Mutant of LookAtHold: no age test.                                      *)
LookAtHoldAgeless(w) ==
    /\ At(w, "look")
    /\ Goto(w, "decide")
    /\ Locals(w, [id |-> job[w].id, ts |-> job[w].ts, risk |-> job[w].risk,
                  held |-> holds[Card(w)] # NoHold])
    /\ UNCHANGED <<ready, engineVars, metrics, conn, disk, boundVars, outcomes>>

(* _is_held reads the hold into the local set_at ...                       *)
LookAtHold(w) ==
    /\ At(w, "look")
    /\ LET set_at == holds[Card(w)]
           stale  == set_at # NoHold /\ Expired(set_at, job[w].ts)
       IN  /\ Goto(w, IF stale THEN "drop" ELSE "decide")
           /\ Locals(w, [id |-> job[w].id, ts |-> job[w].ts, risk |-> job[w].risk,
                         held |-> set_at # NoHold /\ ~stale])
    /\ UNCHANGED <<ready, engineVars, metrics, conn, disk, boundVars, outcomes>>

(* ... and deletes the entry if set_at has expired: whatever is there now. *)
DropHold(w) ==
    /\ At(w, "drop")
    /\ holds[Card(w)] # NoHold
    /\ holds' = [holds EXCEPT ![Card(w)] = NoHold]
    /\ Goto(w, "decide")
    /\ UNCHANGED <<ready, folded, marks, metrics, conn, disk, job, boundVars, outcomes>>

(* Mutant of DropFails: the failing call still updates the store.          *)
DropFailsFolding(w) ==
    /\ At(w, "drop")
    /\ holds[Card(w)] = NoHold
    /\ folded' = [folded EXCEPT ![Card(w)] = @ + 1]
    /\ Return(w)
    /\ UNCHANGED <<ready, holds, marks, metrics, conn, disk, boundVars, outcomes>>

(* The entry is gone already: KeyError, 500.                               *)
DropFails(w) ==
    /\ At(w, "drop")
    /\ holds[Card(w)] = NoHold
    /\ Return(w)
    /\ UNCHANGED <<ready, engineVars, metrics, conn, disk, boundVars, outcomes>>

(* The decision, the alert, and the hold of a model-driven alert.          *)
Decide(w) ==
    /\ At(w, "decide")
    /\ LET risk     == job[w].risk
           decision == Decision(risk, job[w].held)
       IN  /\ holds' = IF decision # "approve" /\ ModelDriven(risk)
                       THEN [holds EXCEPT ![Card(w)] = job[w].ts] ELSE holds
           /\ Locals(w, [id |-> job[w].id, ts |-> job[w].ts, decision |-> decision])
    /\ Goto(w, "fold")
    /\ UNCHANGED <<ready, folded, marks, metrics, conn, disk, boundVars, outcomes>>

(* store.update                                                            *)
Fold(w) ==
    /\ At(w, "fold")
    /\ folded' = [folded EXCEPT ![Card(w)] = @ + 1]
    /\ Goto(w, "record")
    /\ UNCHANGED <<ready, holds, marks, metrics, conn, disk, job, boundVars, outcomes>>

(* Metrics.record: `scored += 1` and the read of the decision's counter,   *)
(* then the write of the counter.                                          *)
RecordScored(w) ==
    /\ At(w, "record")
    /\ metrics' = [metrics EXCEPT !.scored = @ + 1]
    /\ Locals(w, [id |-> job[w].id, ts |-> job[w].ts, decision |-> job[w].decision,
                  count |-> metrics.decisions[job[w].decision]])
    /\ Goto(w, "tally")
    /\ UNCHANGED <<ready, engineVars, conn, disk, boundVars, outcomes>>

(* Mutant of RecordDecision: a hard block is final and not queued.         *)
RecordDecisionBlockUnqueued(w) ==
    /\ At(w, "tally")
    /\ metrics' = [metrics EXCEPT !.decisions[job[w].decision] = job[w].count + 1]
    /\ IF job[w].decision # "soft_challenge" THEN Return(w)
       ELSE /\ Goto(w, "push")
            /\ Locals(w, [id |-> job[w].id, ts |-> job[w].ts, decision |-> job[w].decision])
    /\ UNCHANGED <<ready, engineVars, conn, disk, boundVars, outcomes>>

RecordDecision(w) ==
    /\ At(w, "tally")
    /\ metrics' = [metrics EXCEPT !.decisions[job[w].decision] = job[w].count + 1]
    /\ IF job[w].decision = "approve" THEN Return(w)
       ELSE /\ Goto(w, "push")
            /\ Locals(w, [id |-> job[w].id, ts |-> job[w].ts, decision |-> job[w].decision])
    /\ UNCHANGED <<ready, engineVars, conn, disk, boundVars, outcomes>>

(* AlertQueue.push: the statement, then the commit of whatever the shared  *)
(* connection holds; the call returns the verdict.                         *)
PushAlert(w) ==
    /\ At(w, "push")
    /\ LET payload == [card |-> Card(w), ts |-> job[w].ts]
       IN  conn' = [conn EXCEPT !.alerts = Tables!WithAlert(@, job[w].id, payload)]
    /\ Goto(w, "pushed")
    /\ UNCHANGED <<ready, engineVars, metrics, disk, job, boundVars, outcomes>>

(* Mutant of CommitPush: no commit.                                        *)
CommitPushForgotten(w) ==
    /\ At(w, "pushed")
    /\ answered' = answered \cup {job[w].id}
    /\ Return(w)
    /\ UNCHANGED <<ready, engineVars, metrics, conn, disk, boundVars, refused>>

CommitPush(w) ==
    /\ At(w, "pushed")
    /\ disk' = conn
    /\ answered' = answered \cup {job[w].id}
    /\ Return(w)
    /\ UNCHANGED <<ready, engineVars, metrics, conn, boundVars, refused>>

-----------------------------------------------------------------------------
(* POST /alerts/{alert_id}/disposition/{label}.  An unknown label (422) or *)
(* a blank analyst (401) is refused before anything is touched, as is a    *)
(* malformed /score: those calls are not modelled.                         *)

DispositionRequest(w, id, label, analyst) ==
    /\ Accept(w, [id |-> id, label |-> label, analyst |-> analyst], "select")
    /\ UNCHANGED <<ready, engineVars, metrics, conn, disk, crashes, faults, outcomes>>

SelectPrior(w) ==
    /\ At(w, "select")
    /\ Locals(w, [id |-> job[w].id, label |-> job[w].label, analyst |-> job[w].analyst,
                  prior |-> Tables!PriorIn(conn.alerts, job[w].id)])
    /\ Goto(w, "amend")
    /\ UNCHANGED <<ready, engineVars, metrics, conn, disk, boundVars, outcomes>>

(* Mutant of UpdateAlert: the audit row is skipped.                        *)
UpdateAlertUnaudited(w) ==
    /\ At(w, "amend")
    /\ conn' = [conn EXCEPT !.alerts =
                   Tables!WithDisposition(@, job[w].id, job[w].label)]
    /\ Goto(w, "seal")
    /\ UNCHANGED <<ready, engineVars, metrics, disk, job, boundVars, outcomes>>

(* Mutant of UpdateAlert: the connection commits every statement.          *)
UpdateAlertAutocommit(w) ==
    /\ At(w, "amend")
    /\ conn' = [conn EXCEPT !.alerts =
                   Tables!WithDisposition(@, job[w].id, job[w].label)]
    /\ disk' = conn'
    /\ Goto(w, "trail")
    /\ UNCHANGED <<ready, engineVars, metrics, job, boundVars, outcomes>>

UpdateAlert(w) ==
    /\ At(w, "amend")
    /\ conn' = [conn EXCEPT !.alerts =
                   Tables!WithDisposition(@, job[w].id, job[w].label)]
    /\ Goto(w, "trail")
    /\ UNCHANGED <<ready, engineVars, metrics, disk, job, boundVars, outcomes>>

(* Mutant of InsertAudit: one row per alert, the latest.                   *)
InsertAuditReplacing(w) ==
    /\ At(w, "trail")
    /\ conn' = [conn EXCEPT !.audit =
                   Append(SelectSeq(@, LAMBDA row : row.alert # job[w].id),
                          Tables!AuditRow(job[w].id, job[w].label,
                                          job[w].analyst, job[w].prior))]
    /\ Goto(w, "seal")
    /\ Locals(w, [id |-> job[w].id, label |-> job[w].label])
    /\ UNCHANGED <<ready, engineVars, metrics, disk, boundVars, outcomes>>

InsertAudit(w) ==
    /\ At(w, "trail")
    /\ conn' = [conn EXCEPT !.audit =
                   Append(@, Tables!AuditRow(job[w].id, job[w].label,
                                             job[w].analyst, job[w].prior))]
    /\ Goto(w, "seal")
    /\ Locals(w, [id |-> job[w].id, label |-> job[w].label])
    /\ UNCHANGED <<ready, engineVars, metrics, disk, boundVars, outcomes>>

(* Mutant of CommitDisposition: left to the next commit.                   *)
CommitDispositionDeferred(w) ==
    /\ At(w, "seal")
    /\ Goto(w, "fetch")
    /\ UNCHANGED <<ready, engineVars, metrics, conn, disk, job, boundVars, outcomes>>

CommitDisposition(w) ==
    /\ At(w, "seal")
    /\ disk' = conn
    /\ Goto(w, "fetch")
    /\ UNCHANGED <<ready, engineVars, metrics, conn, job, boundVars, outcomes>>

(* Mutant of FetchAlert: only a confirmed_fraud disposition has an effect. *)
FetchAlertFraudOnly(w) ==
    /\ At(w, "fetch")
    /\ IF conn.alerts[job[w].id] # NoAlert /\ job[w].label = "confirmed_fraud" /\ ready
       THEN /\ Goto(w, "effect")
            /\ Locals(w, [label |-> job[w].label,
                           alert |-> conn.alerts[job[w].id].payload])
       ELSE Return(w)
    /\ UNCHANGED <<ready, engineVars, metrics, conn, disk, boundVars, outcomes>>

(* queue.get, after the disposition is durable.  Nothing more happens for  *)
(* an alert that does not exist or a label with no effect; without an      *)
(* engine the effect raises AttributeError (500) and is lost.              *)
FetchAlert(w) ==
    /\ At(w, "fetch")
    /\ IF conn.alerts[job[w].id] # NoAlert /\ job[w].label # "unresolved" /\ ready
       THEN /\ Goto(w, "effect")
            /\ Locals(w, [label |-> job[w].label,
                           alert |-> conn.alerts[job[w].id].payload])
       ELSE Return(w)
    /\ UNCHANGED <<ready, engineVars, metrics, conn, disk, boundVars, outcomes>>

ClearHold(w) ==
    /\ At(w, "effect")
    /\ job[w].label = "confirmed_legitimate"
    /\ holds' = [holds EXCEPT ![job[w].alert.card] = NoHold]
    /\ Return(w)
    /\ UNCHANGED <<ready, folded, marks, metrics, conn, disk, boundVars, outcomes>>

(* store.mark_confirmed_fraud with the alert's own timestamp.              *)
MarkFraud(w) ==
    /\ At(w, "effect")
    /\ job[w].label = "confirmed_fraud"
    /\ marks' = [marks EXCEPT ![job[w].alert.card] = Append(@, job[w].alert.ts)]
    /\ Return(w)
    /\ UNCHANGED <<ready, holds, folded, metrics, conn, disk, boundVars, outcomes>>

-----------------------------------------------------------------------------
(* sqlite raises (OperationalError: the Kafka consumer holds the lock on   *)
(* the file, or two threads begin a transaction at once): the statement or *)
(* the commit has no effect, and the call ends with a 500.  Nobody rolls   *)
(* back: what the connection holds uncommitted, the next commit takes.     *)
AtDatabase(w) == pc[w] \in {"push", "pushed", "select", "amend", "trail", "seal", "fetch"}

DatabaseRaises(w) ==
    /\ AtDatabase(w)
    /\ faults < MaxFaults
    /\ faults' = faults + 1
    /\ refused' = IF At(w, "push") THEN refused \cup {job[w].id} ELSE refused
    /\ Return(w)
    /\ UNCHANGED <<ready, engineVars, metrics, conn, disk, calls, crashes, answered>>

-----------------------------------------------------------------------------
(* The process dies and starts again: everything in memory goes, so does   *)
(* the open transaction; the new one may find no model bundle.             *)
Restart ==
    /\ crashes < MaxCrashes
    /\ crashes' = crashes + 1
    /\ ready' \in BOOLEAN
    /\ holds' = [c \in Cards |-> NoHold]
    /\ folded' = [c \in Cards |-> 0]
    /\ marks' = [c \in Cards |-> <<>>]
    /\ metrics' = NoMetrics
    /\ conn' = disk
    /\ pc' = [w \in Workers |-> "idle"]
    /\ job' = [w \in Workers |-> NoJob]
    /\ refused' = {}
    /\ UNCHANGED <<disk, calls, faults, answered>>

-----------------------------------------------------------------------------
(* The steps of a thread that has accepted a call.                         *)
ScoreStep(w) ==
    \/ ReadFeatures(w)
    \/ \E risk \in Risks : Predict(w, risk)
    \/ FeaturesFail(w)
    \/ LookAtHold(w)
    \/ DropHold(w)
    \/ DropFails(w)
    \/ Decide(w)
    \/ Fold(w)
    \/ RecordScored(w)
    \/ RecordDecision(w)
    \/ PushAlert(w)
    \/ CommitPush(w)

DispositionStep(w) ==
    \/ SelectPrior(w)
    \/ UpdateAlert(w)
    \/ InsertAudit(w)
    \/ CommitDisposition(w)
    \/ FetchAlert(w)
    \/ ClearHold(w)
    \/ MarkFraud(w)

Request(w) ==
    \/ \E id \in TxnIds, ts \in Times : ScoreRequest(w, id, ts)
    \/ ScoreUnready(w)
    \/ \E id \in TxnIds, label \in Tables!Labels, analyst \in Analysts :
           DispositionRequest(w, id, label, analyst)

(* The bound on the calls is reached and every call has returned.          *)
Finished ==
    /\ calls = MaxCalls
    /\ \A w \in Workers : At(w, "idle")
    /\ UNCHANGED vars

Next ==
    \/ \E w \in Workers :
          Request(w) \/ ScoreStep(w) \/ DispositionStep(w) \/ DatabaseRaises(w)
    \/ Restart
    \/ Finished

(* A thread that runs a call is scheduled again: the operating system and  *)
(* the interpreter lock are fair, and no step waits for another thread.    *)
Fairness == \A w \in Workers : WF_vars(ScoreStep(w) \/ DispositionStep(w))

Spec == Init /\ [][Next]_vars /\ Fairness

-----------------------------------------------------------------------------
(* The shapes of the shared state (ScoringEngine.__init__, Metrics,        *)
(* AlertQueue.__init__).                                                   *)
TypeOK ==
    /\ ready \in BOOLEAN
    /\ holds \in [Cards -> Times \cup {NoHold}]
    /\ folded \in [Cards -> Nat]
    /\ marks \in [Cards -> Seq(Times)]
    /\ metrics \in [scored : Nat, errors : Nat, decisions : [Decisions -> Nat]]
    /\ Tables!QueueTypeOK
    /\ DOMAIN pc = Workers /\ DOMAIN job = Workers
    /\ \A w \in Workers : (pc[w] = "idle") = (job[w] = NoJob)
    /\ answered \subseteq TxnIds /\ refused \subseteq TxnIds

(* An alert whose score call has returned is in the table on disk, through *)
(* any interleaving of the threads' commits and through restarts: every    *)
(* non-approve decision reaches the investigator queue (scoring.py:8-10).  *)
NoAlertLost == \A id \in answered : disk.alerts[id] # NoAlert

(* A card that is held has an alert in the queue, or one on its way there, *)
(* without which its customer is challenged and no analyst can clear the   *)
(* hold.  The one way to miss it, through any interleaving and restart, is *)
(* that the database refused the alert to this process: the hold is set    *)
(* before the push and nothing takes it back (score's assignment to holds  *)
(* and the push that follows it).                                          *)
HeldCardIsInQueue ==
    \A c \in Cards :
        holds[c] # NoHold =>
            \/ \E id \in TxnIds : CardOf[id] = c /\ conn.alerts[id] # NoAlert
            \/ \E w \in Workers : /\ pc[w] \in {"fold", "record", "tally", "push"}
                                  /\ Card(w) = c
                                  /\ job[w].decision # "approve"
            \/ \E id \in refused : CardOf[id] = c

Audited(label, c) ==
    {i \in DOMAIN disk.audit :
        disk.audit[i].disposition = label /\ CardOf[disk.audit[i].alert] = c}

(* Reputation marks never outnumber the confirmed_fraud rows of the durable*)
(* audit trail: no label reaches the model's features unattributed         *)
(* (scoring.py:180-181, the disposition endpoint).                         *)
MarksAreAudited ==
    \A c \in Cards : Len(marks[c]) <= Cardinality(Audited("confirmed_fraud", c))

(* While the process runs, a hold disappears only because it expired or    *)
(* after a durable confirmed_legitimate row on an alert of its card: never *)
(* by a call that a crash can still undo (the disposition endpoint calls   *)
(* clear_hold after queue.disposition).                                    *)
ClearsAreAudited ==
    [][\A c \in Cards :
          (holds[c] # NoHold /\ holds'[c] = NoHold /\ crashes' = crashes) =>
              \/ Audited("confirmed_legitimate", c) # {}
              \/ \E w \in Workers : At(w, "drop") /\ Card(w) = c /\ pc'[w] = "decide"]_vars

(* The audit trail on disk is append-only: no interleaving, no crash and   *)
(* no later call takes a row away or changes it (scoring.py:180).          *)
AuditAppendOnly ==
    [][/\ Len(disk'.audit) >= Len(disk.audit)
       /\ SubSeq(disk'.audit, 1, Len(disk.audit)) = disk.audit]_vars

(* The feature history holds exactly the transactions the metrics count    *)
(* plus those between update and record: a call that fails with a 500      *)
(* leaves nothing behind.  The counters per decision, incremented without  *)
(* a lock, may lag behind but never overtake (score, Metrics.record).      *)
CountersAgree ==
    LET Sum(f) == FoldFunction(+, 0, f)
    IN  /\ Sum(folded) = metrics.scored + Cardinality({w \in Workers : At(w, "record")})
        /\ Sum(metrics.decisions) <= metrics.scored

(* A disposition that is durable has its effect on the engine, unless the  *)
(* process dies or the database raises first: the reply cannot say         *)
(* hold_cleared and leave the hold (the disposition endpoint after         *)
(* queue.disposition).                                                     *)
Actionable(w, label) ==
    /\ At(w, "fetch")
    /\ ready
    /\ job[w].label = label
    /\ conn.alerts[job[w].id] # NoAlert

CommittedDispositionActs ==
    \A w \in Workers, c \in Cards, n \in 0 .. MaxCrashes + MaxFaults :
        /\ (/\ Actionable(w, "confirmed_legitimate")
            /\ Card(w) = c
            /\ crashes + faults = n) ~> (holds[c] = NoHold \/ crashes + faults > n)
        /\ \A k \in 0 .. MaxCalls :
             (/\ Actionable(w, "confirmed_fraud")
              /\ Card(w) = c
              /\ crashes + faults = n
              /\ Len(marks[c]) = k) ~> (Len(marks[c]) > k \/ crashes + faults > n)
=============================================================================
