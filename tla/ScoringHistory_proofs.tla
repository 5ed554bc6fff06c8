------------------------ MODULE ScoringHistory_proofs ------------------------
(***************************************************************************)
(* Proofs about the threads of ScoringService, for any number of threads,  *)
(* cards, transactions, calls and restarts: what each step may rely on,    *)
(* and, by counting, the rows that justify the fraud marks and the counters*)
(* of the metrics.                                                         *)
(*                                                                         *)
(* With one worker, at the end, the service implements its two abstract    *)
(* components: the steps of a call on the dictionary of holds are one step *)
(* of InvestigationHold, and what is on disk changes by whole calls of     *)
(* AlertQueue.                                                             *)
(***************************************************************************)
EXTENDS ScoringHistory, Induction_proofs

-----------------------------------------------------------------------------
(* The locals of a thread at each step.                                    *)
Reporting == {"fold", "record", "tally", "push"}
Scoring == {"features", "reading", "look", "drop", "decide", "pushed"} \cup Reporting
Disposing == {"select", "amend", "trail", "seal", "fetch"}

JobOK(step, j) ==
    /\ step \in Scoring \cup Disposing \cup {"idle", "effect"}
    /\ step \in Scoring => j.id \in TxnIds /\ j.ts \in Times
    /\ step \in Disposing => j.id \in TxnIds /\ j.label \in Tables!Labels
    /\ step \in {"select", "amend", "trail"} => j.analyst \in Analysts
    /\ step \in {"amend", "trail"} => j.prior \in Tables!Labels \cup {Null}
    /\ step = "effect" => j.alert \in Payloads /\ j.label \in Tables!Labels

ThreadsOK ==
    /\ pc = [w \in Workers |-> pc[w]] /\ job = [w \in Workers |-> job[w]]
    /\ \A w \in Workers : JobOK(pc[w], job[w])

AlertTable == [TxnIds -> Tables!Rows \cup {NoAlert}]
AuditTrail == Seq(Tables!AuditRows)
TablesOK ==
    /\ conn = [alerts |-> conn.alerts, audit |-> conn.audit]
    /\ conn.alerts \in AlertTable /\ conn.audit \in AuditTrail
    /\ disk.alerts \in AlertTable /\ disk.audit \in AuditTrail
    /\ disk = [alerts |-> disk.alerts, audit |-> disk.audit]
    /\ DOMAIN holds = Cards /\ answered \subseteq TxnIds

(* The connection is ahead of the disk: it holds every alert and audit row *)
(* that is durable.                                                        *)
Prefix(s, t) == Len(s) <= Len(t) /\ \A i \in 1 .. Len(s) : s[i] = t[i]
ConnAhead ==
    /\ \A id \in TxnIds : disk.alerts[id] # NoAlert => conn.alerts[id] # NoAlert
    /\ Prefix(disk.audit, conn.audit)

(* An alert is of the card of its transaction.                             *)
OwnCards(table) ==
    \A id \in TxnIds : table[id] # NoAlert => table[id].payload.card = CardOf[id]
CardsAgree == OwnCards(conn.alerts) /\ OwnCards(disk.alerts)

(* What a thread has done so far is in the tables.                         *)
HasRow(trail, label, c) ==
    \E i \in 1 .. Len(trail) : trail[i].disposition = label /\ CardOf[trail[i].alert] = c

WorkDone(step, j) ==
    /\ step = "pushed" => conn.alerts[j.id] # NoAlert
    /\ step = "seal" => HasRow(conn.audit, j.label, CardOf[j.id])
    /\ step = "fetch" => HasRow(disk.audit, j.label, CardOf[j.id])
    /\ step = "effect" => HasRow(disk.audit, j.label, j.alert.card)

WorkIsDone == \A w \in Workers : WorkDone(pc[w], job[w])

ServiceInv ==
    /\ ThreadsOK /\ TablesOK /\ ConnAhead /\ CardsAgree /\ WorkIsDone
    /\ NoAlertLost /\ HeldCardIsInQueue

-----------------------------------------------------------------------------
LEMMA ServiceInit == Init => ServiceInv
<1> SUFFICES ASSUME Init PROVE ServiceInv
    OBVIOUS
<1>1. ThreadsOK
    BY DEF Init, ThreadsOK, JobOK, Scoring, Reporting, Disposing
<1>2. conn = EmptyTables /\ disk = EmptyTables
    BY DEF Init
<1>3. TablesOK
    BY <1>2 DEF Init, EmptyTables, TablesOK, AlertTable, AuditTrail
<1>4. ConnAhead /\ CardsAgree
    BY <1>2 DEF EmptyTables, ConnAhead, Prefix, CardsAgree, OwnCards
<1>5. WorkIsDone
    BY DEF Init, WorkIsDone, WorkDone
<1>6. NoAlertLost /\ HeldCardIsInQueue
    BY DEF Init, NoAlertLost, HeldCardIsInQueue
<1>7. QED
    BY <1>1, <1>3, <1>4, <1>5, <1>6 DEF ServiceInv

LEMMA Moves ==
    ASSUME ThreadsOK, NEW w \in Workers, NEW step, NEW j, Goto(w, step), Locals(w, j),
           JobOK(step, j)
    PROVE  /\ ThreadsOK'
           /\ pc'[w] = step /\ job'[w] = j
           /\ \A v \in Workers \ {w} : pc'[v] = pc[v] /\ job'[v] = job[v]
<1>1. /\ pc' = [v \in Workers |-> IF v = w THEN step ELSE pc[v]]
      /\ job' = [v \in Workers |-> IF v = w THEN j ELSE job[v]]
    BY DEF ThreadsOK, Goto, Locals
<1>2. QED
    BY <1>1 DEF ThreadsOK

(* A thread leaves the tables alone, and the holds unless it clears one.   *)
Quiet == UNCHANGED <<conn, disk, answered>> /\ refused \subseteq refused' /\ DOMAIN holds' = Cards
            /\ \A c \in Cards : holds'[c] # NoHold => holds[c] # NoHold

Reported(w) == pc[w] \in Reporting /\ job[w].decision # "approve"

LEMMA QuietStep ==
    ASSUME ServiceInv, NEW w \in Workers, NEW step, NEW j,
           Goto(w, step), Locals(w, j), JobOK(step, j), WorkDone(step, j), Quiet,
           Reported(w) => \/ step \in Reporting /\ j.id = job[w].id /\ j.decision # "approve"
                          \/ job[w].id \in refused'
    PROVE  ServiceInv'
<1>1. /\ ThreadsOK'
      /\ pc'[w] = step /\ job'[w] = j
      /\ \A v \in Workers \ {w} : pc'[v] = pc[v] /\ job'[v] = job[v]
    BY Moves DEF ServiceInv
<1>2. TablesOK' /\ ConnAhead' /\ CardsAgree' /\ NoAlertLost'
    BY DEF Quiet, ServiceInv, TablesOK, ConnAhead, CardsAgree, NoAlertLost
<1>3. \A v \in Workers : WorkDone(pc'[v], job'[v])
    BY <1>1 DEF ServiceInv, WorkIsDone
<1>4. WorkIsDone'
    BY <1>3 DEF Quiet, WorkIsDone, WorkDone
<1>5. ASSUME NEW c \in Cards, holds'[c] # NoHold
      PROVE  \/ \E id \in TxnIds : CardOf[id] = c /\ conn'.alerts[id] # NoAlert
             \/ \E v \in Workers : /\ pc'[v] \in Reporting /\ CardOf[job'[v].id] = c
                                   /\ job'[v].decision # "approve"
             \/ \E id \in refused' : CardOf[id] = c
  <2>1. \/ \E id \in TxnIds : CardOf[id] = c /\ conn.alerts[id] # NoAlert
        \/ \E v \in Workers : Reported(v) /\ CardOf[job[v].id] = c
        \/ \E id \in refused : CardOf[id] = c
    BY <1>5 DEF Quiet, ServiceInv, HeldCardIsInQueue, Reported, Reporting, Card
  <2>2. QED
    BY <1>1, <2>1 DEF Quiet, Reported
<1>6. HeldCardIsInQueue'
    BY <1>5 DEF HeldCardIsInQueue, Reporting, Card
<1>7. QED
    BY <1>1, <1>2, <1>4, <1>6 DEF ServiceInv

LEMMA SameJob ==
    ASSUME ThreadsOK, NEW w \in Workers, UNCHANGED job
    PROVE  Locals(w, job[w])
BY DEF ThreadsOK, Locals

LEMMA IdleJob == JobOK("idle", NoJob) /\ WorkDone("idle", NoJob)
BY DEF JobOK, WorkDone, Scoring, Reporting, Disposing

(* The steps of a score call, but for those that add a hold or an alert.   *)
LEMMA QuietScoring ==
    ASSUME ServiceInv, NEW w \in Workers,
           \/ \E id \in TxnIds, ts \in Times : ScoreRequest(w, id, ts)
           \/ ReadFeatures(w) \/ (\E risk \in Risks : Predict(w, risk)) \/ FeaturesFail(w)
           \/ LookAtHold(w) \/ DropHold(w) \/ DropFails(w)
           \/ Fold(w) \/ RecordScored(w) \/ RecordDecision(w)
    PROVE  ServiceInv'
<1> USE DEF At, JobOK, WorkDone, Scoring, Reporting, Disposing, Reported
<1>1. JobOK(pc[w], job[w])
    BY DEF ServiceInv, ThreadsOK
<1>2. DOMAIN holds = Cards
    BY DEF ServiceInv, TablesOK
<1>3. ASSUME NEW id \in TxnIds, NEW ts \in Times, ScoreRequest(w, id, ts)
      PROVE  ServiceInv'
    BY <1>2, <1>3, QuietStep DEF ScoreRequest, Accept, Quiet, outcomes, engineVars
<1>4. CASE ReadFeatures(w)
    BY <1>1, <1>2, <1>4, QuietStep DEF ReadFeatures, Quiet, outcomes, engineVars
<1>5. ASSUME NEW risk \in Risks, Predict(w, risk)
      PROVE  ServiceInv'
    BY <1>1, <1>2, <1>5, QuietStep DEF Predict, Quiet, outcomes, engineVars
<1>6. CASE FeaturesFail(w)
    BY <1>2, <1>6, QuietStep, IdleJob DEF FeaturesFail, Return, Quiet, outcomes, engineVars
<1>7. CASE LookAtHold(w)
  <2> DEFINE stale == holds[Card(w)] # NoHold /\ Expired(holds[Card(w)], job[w].ts)
             j == [id |-> job[w].id, ts |-> job[w].ts, risk |-> job[w].risk,
                   held |-> holds[Card(w)] # NoHold /\ ~stale]
             step == IF stale THEN "drop" ELSE "decide"
  <2>1. Goto(w, step) /\ Locals(w, j)
    BY <1>7 DEF LookAtHold
  <2>2. step \in {"drop", "decide"} /\ j.id = job[w].id /\ j.ts = job[w].ts
    OBVIOUS
  <2>3. pc[w] = "look" /\ Quiet
    BY <1>2, <1>7 DEF LookAtHold, Quiet, outcomes, engineVars
  <2> HIDE DEF j, step
  <2>4. QED
    BY <1>1, <2>1, <2>2, <2>3, QuietStep
<1>8. CASE DropHold(w)
  <2>1. Quiet /\ pc[w] = "drop" /\ Goto(w, "decide") /\ Locals(w, job[w])
    BY <1>2, <1>8, SameJob DEF DropHold, Quiet, outcomes, ServiceInv
  <2>2. QED
    BY <1>1, <2>1, QuietStep
<1>9. CASE DropFails(w)
    BY <1>2, <1>9, QuietStep, IdleJob DEF DropFails, Return, Quiet, outcomes, engineVars
<1>10. CASE Fold(w)
  <2>1. Quiet /\ pc[w] = "fold" /\ Goto(w, "record") /\ Locals(w, job[w])
    BY <1>2, <1>10, SameJob DEF Fold, Quiet, outcomes, ServiceInv
  <2>2. QED
    BY <1>1, <2>1, QuietStep
<1>11. CASE RecordScored(w)
    BY <1>1, <1>2, <1>11, QuietStep DEF RecordScored, Quiet, outcomes, engineVars
<1>12. CASE RecordDecision(w)
  <2>1. pc[w] = "tally" /\ Quiet
    BY <1>2, <1>12 DEF RecordDecision, Quiet, outcomes, engineVars
  <2>2. CASE job[w].decision = "approve"
    BY <1>12, <2>1, <2>2, QuietStep, IdleJob DEF RecordDecision, Return
  <2>3. CASE job[w].decision # "approve"
    BY <1>1, <1>12, <2>1, <2>3, QuietStep DEF RecordDecision
  <2>4. QED
    BY <2>2, <2>3
<1>13. QED
    BY <1>3, <1>4, <1>5, <1>6, <1>7, <1>8, <1>9, <1>10, <1>11, <1>12

(* Those of a disposition that leave the tables alone.  Its effect needs   *)
(* no more than the row.                                                   *)
LEMMA QuietDisposing ==
    ASSUME ServiceInv, NEW w \in Workers,
           \/ \E id \in TxnIds, label \in Tables!Labels, analyst \in Analysts :
                 DispositionRequest(w, id, label, analyst)
           \/ SelectPrior(w) \/ FetchAlert(w) \/ ClearHold(w) \/ MarkFraud(w)
    PROVE  ServiceInv'
<1> USE DEF At, JobOK, WorkDone, Scoring, Reporting, Disposing, Reported
<1>1. JobOK(pc[w], job[w]) /\ WorkDone(pc[w], job[w])
    BY DEF ServiceInv, ThreadsOK, WorkIsDone
<1>2. DOMAIN holds = Cards
    BY DEF ServiceInv, TablesOK
<1>3. ASSUME NEW id \in TxnIds, NEW label \in Tables!Labels, NEW analyst \in Analysts,
             DispositionRequest(w, id, label, analyst)
      PROVE  ServiceInv'
    BY <1>2, <1>3, QuietStep DEF DispositionRequest, Accept, Quiet, outcomes, engineVars
<1>4. CASE SelectPrior(w)
  <2> DEFINE j == [id |-> job[w].id, label |-> job[w].label, analyst |-> job[w].analyst,
                   prior |-> Tables!PriorIn(conn.alerts, job[w].id)]
  <2>1. pc[w] = "select" /\ Quiet /\ Goto(w, "amend") /\ Locals(w, j)
    BY <1>2, <1>4 DEF SelectPrior, Quiet, outcomes, engineVars
  <2>2. Tables!PriorIn(conn.alerts, job[w].id) \in Tables!Labels \cup {Null}
    BY <1>1, <2>1 DEF ServiceInv, TablesOK, AlertTable, Tables!PriorIn, Tables!Rows
  <2>3. JobOK("amend", j) /\ WorkDone("amend", j)
    BY <1>1, <2>1, <2>2
  <2> HIDE DEF j
  <2>4. QED
    BY <2>1, <2>3, QuietStep
<1>5. CASE FetchAlert(w)
  <2>1. pc[w] = "fetch" /\ Quiet
    BY <1>2, <1>5 DEF FetchAlert, Quiet, outcomes, engineVars
  <2>2. CASE Return(w)
    BY <2>1, <2>2, QuietStep, IdleJob DEF Return
  <2>3. CASE conn.alerts[job[w].id] # NoAlert
    <3> DEFINE j == [label |-> job[w].label, alert |-> conn.alerts[job[w].id].payload]
    <3>1. j.alert \in Payloads /\ j.alert.card = CardOf[job[w].id]
      BY <1>1, <2>1, <2>3
      DEF ServiceInv, TablesOK, AlertTable, Tables!Rows, CardsAgree, OwnCards
    <3>2. JobOK("effect", j) /\ WorkDone("effect", j)
      BY <1>1, <2>1, <3>1
    <3>3. CASE Goto(w, "effect") /\ Locals(w, j)
      <4> HIDE DEF j
      <4>1. QED
        BY <2>1, <3>2, <3>3, QuietStep
    <3>4. QED
      BY <1>5, <2>2, <3>3 DEF FetchAlert
  <2>4. QED
    BY <1>5, <2>2, <2>3 DEF FetchAlert
<1>6. CASE ClearHold(w)
  <2>1. pc[w] = "effect" /\ Quiet
    BY <1>2, <1>6 DEF ClearHold, Quiet, outcomes
  <2>2. QED
    BY <1>6, <2>1, QuietStep, IdleJob DEF ClearHold, Return
<1>7. CASE MarkFraud(w)
    BY <1>2, <1>7, QuietStep, IdleJob DEF MarkFraud, Return, Quiet, outcomes
<1>8. QED
    BY <1>3, <1>4, <1>5, <1>6, <1>7

-----------------------------------------------------------------------------
(* The steps that add a hold, write the tables or make them durable.       *)
LEMMA DecideStep ==
    ASSUME ServiceInv, NEW w \in Workers, Decide(w)
    PROVE  ServiceInv'
<1> USE DEF JobOK, WorkDone, Scoring, Reporting, Disposing
<1> DEFINE d == Decision(job[w].risk, job[w].held)
           j == [id |-> job[w].id, ts |-> job[w].ts, decision |-> d]
<1>1. pc[w] = "decide" /\ JobOK("decide", job[w]) /\ Goto(w, "fold") /\ Locals(w, j)
    BY DEF Decide, At, ServiceInv, ThreadsOK
<1>2. /\ j.id = job[w].id /\ j.ts = job[w].ts /\ j.decision = d
      /\ JobOK("fold", j)
    BY <1>1
<1>3. /\ UNCHANGED <<conn, disk, answered, refused>> /\ DOMAIN holds' = Cards
      /\ \A c \in Cards :
             holds'[c] # NoHold => holds[c] # NoHold \/ (c = Card(w) /\ d # "approve")
    BY DEF Decide, ServiceInv, TablesOK, outcomes
<1> HIDE DEF d, j
<1>4. /\ ThreadsOK' /\ pc'[w] = "fold" /\ job'[w] = j
      /\ \A v \in Workers \ {w} : pc'[v] = pc[v] /\ job'[v] = job[v]
    BY <1>1, <1>2, Moves DEF ServiceInv
<1>5. TablesOK' /\ ConnAhead' /\ CardsAgree' /\ NoAlertLost'
    BY <1>3 DEF ServiceInv, TablesOK, ConnAhead, CardsAgree, NoAlertLost
<1>6. WorkIsDone'
    BY <1>3, <1>4 DEF ServiceInv, WorkIsDone
<1>7. ASSUME NEW c \in Cards, holds'[c] # NoHold
      PROVE  \/ \E id \in TxnIds : CardOf[id] = c /\ conn'.alerts[id] # NoAlert
             \/ \E v \in Workers : /\ pc'[v] \in Reporting /\ CardOf[job'[v].id] = c
                                   /\ job'[v].decision # "approve"
             \/ \E id \in refused' : CardOf[id] = c
  <2>1. CASE c = Card(w) /\ d # "approve"
    BY <1>2, <1>4, <2>1 DEF Card
  <2>2. CASE holds[c] # NoHold
    <3>1. \/ \E id \in TxnIds : CardOf[id] = c /\ conn.alerts[id] # NoAlert
          \/ \E v \in Workers : Reported(v) /\ CardOf[job[v].id] = c
          \/ \E id \in refused : CardOf[id] = c
      BY <2>2 DEF ServiceInv, HeldCardIsInQueue, Reported, Card
    <3>2. QED
      BY <1>1, <1>3, <1>4, <3>1 DEF Reported
  <2>3. QED
    BY <1>3, <1>7, <2>1, <2>2
<1>8. HeldCardIsInQueue'
    BY <1>7 DEF HeldCardIsInQueue, Card
<1>9. QED
    BY <1>4, <1>5, <1>6, <1>8 DEF ServiceInv

(* The tables of the connection only gain alerts and audit rows.           *)
ConnGains ==
    /\ conn' = [alerts |-> conn'.alerts, audit |-> conn'.audit]
    /\ conn'.alerts \in AlertTable /\ conn'.audit \in AuditTrail
    /\ \A id \in TxnIds : conn.alerts[id] # NoAlert => conn'.alerts[id] # NoAlert
    /\ OwnCards(conn'.alerts)
    /\ Prefix(conn.audit, conn'.audit)

LEMMA PrefixMeans ==
    ASSUME NEW s, NEW t, Len(s) \in Nat, Len(t) \in Nat, Prefix(s, t),
           NEW label, NEW c, HasRow(s, label, c)
    PROVE  HasRow(t, label, c)
BY DEF Prefix, HasRow

LEMMA PrefixTransitive ==
    ASSUME NEW s, NEW t, NEW u, Len(s) \in Nat, Len(t) \in Nat, Len(u) \in Nat,
           Prefix(s, t), Prefix(t, u)
    PROVE  Prefix(s, u)
BY DEF Prefix

LEMMA ConnStep ==
    ASSUME ServiceInv, NEW w \in Workers, NEW step, NEW j,
           Goto(w, step), Locals(w, j), JobOK(step, j),
           ConnGains, UNCHANGED <<disk, holds, outcomes>>,
           step \notin {"fetch", "effect"},
           step = "pushed" => conn'.alerts[j.id] # NoAlert,
           step = "seal" => HasRow(conn'.audit, j.label, CardOf[j.id]),
           Reported(w) => conn'.alerts[job[w].id] # NoAlert
    PROVE  ServiceInv'
<1>1. /\ ThreadsOK' /\ pc'[w] = step /\ job'[w] = j
      /\ \A v \in Workers \ {w} : pc'[v] = pc[v] /\ job'[v] = job[v]
    BY Moves DEF ServiceInv
<1>2. TablesOK' /\ CardsAgree' /\ NoAlertLost'
    BY DEF ConnGains, ServiceInv, TablesOK, CardsAgree, NoAlertLost, OwnCards, outcomes
<1>3. /\ Len(disk.audit) \in Nat /\ Len(conn.audit) \in Nat /\ Len(conn'.audit) \in Nat
      /\ Prefix(disk.audit, conn.audit)
    BY DEF ServiceInv, TablesOK, AuditTrail, ConnGains, ConnAhead
<1>4. ConnAhead'
    BY <1>3, PrefixTransitive DEF ConnGains, ServiceInv, ConnAhead
<1>5. ASSUME NEW v \in Workers
      PROVE  WorkDone(pc[v], job[v])' 
  <2>1. CASE v = w
    BY <1>1, <2>1 DEF WorkDone
  <2>2. CASE v # w
    <3>1. WorkDone(pc[v], job[v]) /\ pc'[v] = pc[v] /\ job'[v] = job[v] /\ JobOK(pc[v], job[v])
      BY <1>1, <2>2 DEF ServiceInv, WorkIsDone, ThreadsOK
    <3>2. QED
      BY <1>3, <3>1, PrefixMeans DEF WorkDone, ConnGains, JobOK, Scoring
  <2>3. QED
    BY <2>1, <2>2
<1>6. WorkIsDone'
    BY <1>5 DEF WorkIsDone
<1>7. ASSUME NEW c \in Cards, holds'[c] # NoHold
      PROVE  \/ \E id \in TxnIds : CardOf[id] = c /\ conn'.alerts[id] # NoAlert
             \/ \E v \in Workers : /\ pc'[v] \in Reporting /\ CardOf[job'[v].id] = c
                                   /\ job'[v].decision # "approve"
             \/ \E id \in refused' : CardOf[id] = c
  <2>1. \/ \E id \in TxnIds : CardOf[id] = c /\ conn.alerts[id] # NoAlert
        \/ \E v \in Workers : Reported(v) /\ CardOf[job[v].id] = c
        \/ \E id \in refused : CardOf[id] = c
    BY <1>7 DEF ServiceInv, HeldCardIsInQueue, Reported, Card, Reporting
  <2>2. CASE Reported(w) /\ CardOf[job[w].id] = c
    <3>1. job[w].id \in TxnIds
      BY <2>2 DEF Reported, Reporting, ServiceInv, ThreadsOK, JobOK, Scoring
    <3>2. QED
      BY <2>2, <3>1
  <2>3. QED
    BY <1>1, <2>1, <2>2 DEF ConnGains, Reported, outcomes
<1>8. HeldCardIsInQueue'
    BY <1>7 DEF HeldCardIsInQueue, Card, Reporting
<1>9. QED
    BY <1>1, <1>2, <1>4, <1>6, <1>8 DEF ServiceInv

LEMMA AlertStays ==
    ASSUME TablesOK, CardsAgree, NEW table \in AlertTable, OwnCards(table),
           \A id \in TxnIds : conn.alerts[id] # NoAlert => table[id] # NoAlert,
           conn' = [conn EXCEPT !.alerts = table]
    PROVE  ConnGains /\ conn'.alerts = table
<1>1. conn' = [alerts |-> table, audit |-> conn.audit]
    BY DEF TablesOK
<1>2. Len(conn.audit) \in Nat
    BY DEF TablesOK, AuditTrail
<1>3. QED
    BY <1>1, <1>2 DEF ConnGains, TablesOK, Prefix

LEMMA PushStep ==
    ASSUME ServiceInv, NEW w \in Workers, PushAlert(w)
    PROVE  ServiceInv'
<1> DEFINE payload == [card |-> Card(w), ts |-> job[w].ts]
           table == Tables!WithAlert(conn.alerts, job[w].id, payload)
<1>1. pc[w] = "push" /\ JobOK("push", job[w]) /\ job[w].id \in TxnIds /\ job[w].ts \in Times
    BY DEF PushAlert, At, ServiceInv, ThreadsOK, JobOK, Scoring, Reporting
<1>2. conn.alerts \in AlertTable /\ TablesOK /\ CardsAgree
    BY DEF ServiceInv, TablesOK
<1>3. payload \in Payloads /\ payload.card = CardOf[job[w].id]
    BY <1>1, CardOfAssumption DEF Card, Payloads
<1> HIDE DEF payload
<1>4. /\ table = [conn.alerts EXCEPT ![job[w].id] = [payload |-> payload, disposition |-> Null]]
      /\ [payload |-> payload, disposition |-> Null] \in Tables!Rows
    BY <1>3 DEF Tables!WithAlert, Tables!Rows
<1> HIDE DEF table
<1>5. table \in AlertTable
    BY <1>1, <1>2, <1>4 DEF AlertTable
<1>6. /\ table[job[w].id] # NoAlert
      /\ \A id \in TxnIds : conn.alerts[id] # NoAlert => table[id] # NoAlert
    BY <1>1, <1>2, <1>4, NullAssumption DEF AlertTable
<1>7. OwnCards(table)
    BY <1>1, <1>2, <1>3, <1>4 DEF AlertTable, OwnCards, CardsAgree
<1>8. conn' = [conn EXCEPT !.alerts = table]
    BY DEF PushAlert, table, payload
<1>9. ConnGains /\ conn'.alerts = table
    BY <1>2, <1>5, <1>6, <1>7, <1>8, AlertStays
<1>10. Goto(w, "pushed") /\ Locals(w, job[w]) /\ UNCHANGED <<disk, holds, outcomes>>
    BY SameJob DEF PushAlert, ServiceInv, engineVars
<1>11. JobOK("pushed", job[w])
    BY <1>1 DEF JobOK, Scoring, Reporting, Disposing
<1>12. QED
    BY <1>6, <1>9, <1>10, <1>11, ConnStep

LEMMA UpdateStep ==
    ASSUME ServiceInv, NEW w \in Workers, UpdateAlert(w)
    PROVE  ServiceInv'
<1> DEFINE table == Tables!WithDisposition(conn.alerts, job[w].id, job[w].label)
<1>1. /\ pc[w] = "amend" /\ JobOK("amend", job[w])
      /\ job[w].id \in TxnIds /\ job[w].label \in Tables!Labels
    BY DEF UpdateAlert, At, ServiceInv, ThreadsOK, JobOK, Disposing
<1>2. conn.alerts \in AlertTable /\ TablesOK /\ CardsAgree
    BY DEF ServiceInv, TablesOK
<1>3. conn' = [conn EXCEPT !.alerts = table]
    BY DEF UpdateAlert
<1>4. /\ table \in AlertTable /\ OwnCards(table)
      /\ \A id \in TxnIds : conn.alerts[id] # NoAlert => table[id] # NoAlert
  <2>1. CASE conn.alerts[job[w].id] = NoAlert
    BY <1>2, <2>1 DEF Tables!WithDisposition, CardsAgree
  <2>2. CASE conn.alerts[job[w].id] # NoAlert
    <3> DEFINE row == [conn.alerts[job[w].id] EXCEPT !.disposition = job[w].label]
    <3>1. conn.alerts[job[w].id] \in Tables!Rows
      BY <1>1, <1>2, <2>2 DEF AlertTable
    <3>2. row \in Tables!Rows /\ row.payload = conn.alerts[job[w].id].payload
      BY <1>1, <3>1 DEF Tables!Rows
    <3>3. table = [conn.alerts EXCEPT ![job[w].id] = row]
      BY <2>2 DEF Tables!WithDisposition
    <3> HIDE DEF row, table
    <3>4. QED
      BY <1>1, <1>2, <2>2, <3>2, <3>3, NullAssumption DEF AlertTable, OwnCards, CardsAgree
  <2>3. QED
    BY <2>1, <2>2
<1> HIDE DEF table
<1>5. ConnGains
    BY <1>2, <1>3, <1>4, AlertStays
<1>6. Goto(w, "trail") /\ Locals(w, job[w]) /\ UNCHANGED <<disk, holds, outcomes>>
    BY SameJob DEF UpdateAlert, ServiceInv, engineVars
<1>7. JobOK("trail", job[w]) /\ ~Reported(w)
    BY <1>1 DEF JobOK, Reported, Scoring, Reporting, Disposing
<1>8. QED
    BY <1>5, <1>6, <1>7, ConnStep

LEMMA AuditStep ==
    ASSUME ServiceInv, NEW w \in Workers, InsertAudit(w)
    PROVE  ServiceInv'
<1> DEFINE row == Tables!AuditRow(job[w].id, job[w].label, job[w].analyst, job[w].prior)
           j == [id |-> job[w].id, label |-> job[w].label]
<1>1. /\ pc[w] = "trail" /\ job[w].id \in TxnIds /\ job[w].label \in Tables!Labels
      /\ job[w].analyst \in Analysts /\ job[w].prior \in Tables!Labels \cup {Null}
    BY DEF InsertAudit, At, ServiceInv, ThreadsOK, JobOK, Disposing
<1>2. row \in Tables!AuditRows /\ row.alert = job[w].id /\ row.disposition = job[w].label
    BY <1>1 DEF Tables!AuditRow, Tables!AuditRows
<1>3. conn.audit \in AuditTrail /\ TablesOK /\ CardsAgree
    BY DEF ServiceInv, TablesOK
<1>4. conn' = [alerts |-> conn.alerts, audit |-> Append(conn.audit, row)]
    BY <1>3 DEF InsertAudit, TablesOK
<1> HIDE DEF row
<1>5. /\ Append(conn.audit, row) \in AuditTrail
      /\ Len(Append(conn.audit, row)) = Len(conn.audit) + 1 /\ Len(conn.audit) \in Nat
      /\ Append(conn.audit, row)[Len(conn.audit) + 1] = row
      /\ \A i \in 1 .. Len(conn.audit) : Append(conn.audit, row)[i] = conn.audit[i]
    BY <1>2, <1>3 DEF AuditTrail
<1>6. ConnGains
    BY <1>3, <1>4, <1>5 DEF ConnGains, TablesOK, CardsAgree, Prefix
<1>7. HasRow(conn'.audit, j.label, CardOf[j.id])
    BY <1>2, <1>4, <1>5 DEF HasRow
<1>8. Goto(w, "seal") /\ Locals(w, j) /\ UNCHANGED <<disk, holds, outcomes>>
    BY DEF InsertAudit, engineVars
<1>9. JobOK("seal", j) /\ ~Reported(w)
    BY <1>1 DEF JobOK, Reported, Scoring, Reporting, Disposing
<1> HIDE DEF j
<1>10. QED
    BY <1>6, <1>7, <1>8, <1>9, ConnStep

(* Whoever commits makes everybody's statements durable.                   *)
LEMMA CommitStep ==
    ASSUME ServiceInv, NEW w \in Workers, CommitPush(w) \/ CommitDisposition(w)
    PROVE  ServiceInv'
<1>1. JobOK(pc[w], job[w]) /\ WorkDone(pc[w], job[w]) /\ ThreadsOK /\ TablesOK
    BY DEF ServiceInv, ThreadsOK, WorkIsDone
<1>2. PICK step, j :
          /\ Goto(w, step) /\ Locals(w, j) /\ JobOK(step, j)
          /\ step \notin {"pushed", "seal", "effect"}
          /\ step = "fetch" => HasRow(conn.audit, j.label, CardOf[j.id])
  <2>1. CASE CommitPush(w)
    BY <2>1, IdleJob DEF CommitPush, Return
  <2>2. CASE CommitDisposition(w)
    <3>1. pc[w] = "seal" /\ Goto(w, "fetch") /\ Locals(w, job[w])
      BY <1>1, <2>2, SameJob DEF CommitDisposition, At
    <3>2. QED
      BY <1>1, <3>1 DEF JobOK, WorkDone, Scoring, Reporting, Disposing
  <2>3. QED
    BY <2>1, <2>2
<1>3. /\ ThreadsOK' /\ pc'[w] = step /\ job'[w] = j
      /\ \A v \in Workers \ {w} : pc'[v] = pc[v] /\ job'[v] = job[v]
    BY <1>1, <1>2, Moves
<1>4. disk' = conn /\ UNCHANGED <<conn, holds, refused>> /\ ~Reported(w)
    BY DEF CommitPush, CommitDisposition, engineVars, outcomes, At, Reported, Reporting
<1>5. /\ Len(disk.audit) \in Nat /\ Len(conn.audit) \in Nat
      /\ Prefix(disk.audit, conn.audit) /\ Prefix(conn.audit, conn.audit)
    BY <1>1 DEF TablesOK, AuditTrail, ServiceInv, ConnAhead, Prefix
<1>6. TablesOK' /\ ConnAhead' /\ CardsAgree'
  <2>1. answered' = answered \/ (pc[w] = "pushed" /\ answered' = answered \cup {job[w].id})
    BY DEF CommitPush, CommitDisposition, At, outcomes
  <2>2. answered' \subseteq TxnIds
    BY <1>1, <2>1 DEF TablesOK, JobOK, Scoring
  <2>3. QED
    BY <1>1, <1>4, <1>5, <2>2 DEF TablesOK, ServiceInv, ConnAhead, CardsAgree
<1>7. ASSUME NEW v \in Workers
      PROVE  WorkDone(pc[v], job[v])'
  <2>1. CASE v = w
    BY <1>2, <1>3, <1>4, <2>1 DEF WorkDone
  <2>2. CASE v # w
    <3>1. WorkDone(pc[v], job[v]) /\ pc'[v] = pc[v] /\ job'[v] = job[v]
      BY <1>3, <2>2 DEF ServiceInv, WorkIsDone
    <3>2. QED
      BY <1>4, <1>5, <3>1, PrefixMeans DEF WorkDone
  <2>3. QED
    BY <2>1, <2>2
<1>8. WorkIsDone'
    BY <1>7 DEF WorkIsDone
<1>9. NoAlertLost'
  <2>1. answered' = answered \/ (pc[w] = "pushed" /\ answered' = answered \cup {job[w].id})
    BY DEF CommitPush, CommitDisposition, At, outcomes
  <2>2. \A id \in answered : id \in TxnIds /\ conn.alerts[id] # NoAlert
    BY <1>1 DEF TablesOK, ServiceInv, NoAlertLost, ConnAhead
  <2>3. pc[w] = "pushed" => conn.alerts[job[w].id] # NoAlert
    BY <1>1 DEF WorkDone
  <2>4. \A id \in answered' : conn.alerts[id] # NoAlert
    BY <2>1, <2>2, <2>3
  <2>5. QED
    BY <1>4, <2>4 DEF NoAlertLost
<1>10. ASSUME NEW c \in Cards, holds'[c] # NoHold
       PROVE  \/ \E id \in TxnIds : CardOf[id] = c /\ conn'.alerts[id] # NoAlert
              \/ \E v \in Workers : /\ pc'[v] \in Reporting /\ CardOf[job'[v].id] = c
                                    /\ job'[v].decision # "approve"
              \/ \E id \in refused' : CardOf[id] = c
  <2>1. \/ \E id \in TxnIds : CardOf[id] = c /\ conn.alerts[id] # NoAlert
        \/ \E v \in Workers : Reported(v) /\ CardOf[job[v].id] = c
        \/ \E id \in refused : CardOf[id] = c
    BY <1>4, <1>10 DEF ServiceInv, HeldCardIsInQueue, Reported, Card, Reporting
  <2>2. QED
    BY <1>3, <1>4, <2>1 DEF Reported
<1>11. HeldCardIsInQueue'
    BY <1>10 DEF HeldCardIsInQueue, Card, Reporting
<1>12. QED
    BY <1>3, <1>6, <1>8, <1>9, <1>11 DEF ServiceInv

LEMMA RestartStep ==
    ASSUME ServiceInv, Restart
    PROVE  ServiceInv'
<1>1. /\ conn' = disk /\ UNCHANGED <<disk, answered>> /\ holds' = [c \in Cards |-> NoHold]
      /\ pc' = [w \in Workers |-> "idle"] /\ job' = [w \in Workers |-> NoJob]
    BY DEF Restart
<1>2. ThreadsOK' /\ WorkIsDone'
    BY <1>1, IdleJob DEF ThreadsOK, WorkIsDone, WorkDone
<1>3. TablesOK' /\ CardsAgree' /\ NoAlertLost'
    BY <1>1 DEF ServiceInv, TablesOK, CardsAgree, NoAlertLost
<1>4. Len(disk.audit) \in Nat
    BY DEF ServiceInv, TablesOK, AuditTrail
<1>5. ConnAhead'
    BY <1>1, <1>4 DEF ConnAhead, Prefix
<1>6. HeldCardIsInQueue'
    BY <1>1 DEF HeldCardIsInQueue
<1>7. QED
    BY <1>2, <1>3, <1>5, <1>6 DEF ServiceInv

LEMMA StutterStep ==
    ASSUME ServiceInv,
           UNCHANGED <<holds, conn, disk, pc, job, outcomes>>
    PROVE  ServiceInv'
BY DEF ServiceInv, ThreadsOK, TablesOK, ConnAhead, CardsAgree, OwnCards, WorkIsDone, WorkDone,
       HasRow, NoAlertLost, HeldCardIsInQueue, Card, outcomes

(* A call that ends because the database raises owes nobody an alert but   *)
(* the one the database refused.                                           *)
LEMMA RaisedStep ==
    ASSUME ServiceInv, NEW w \in Workers, DatabaseRaises(w)
    PROVE  ServiceInv'
<1>1. Goto(w, "idle") /\ Locals(w, NoJob)
    BY DEF DatabaseRaises, Return
<1>2. Quiet
    BY DEF DatabaseRaises, Quiet, engineVars, ServiceInv, TablesOK
<1>3. Reported(w) => job[w].id \in refused'
    BY DEF DatabaseRaises, AtDatabase, At, Reported, Reporting
<1>4. QED
    BY <1>1, <1>2, <1>3, IdleJob, QuietStep

LEMMA ServiceStep ==
    ASSUME ServiceInv, [Next]_vars
    PROVE  ServiceInv'
<1>1. ASSUME NEW w \in Workers, Request(w)
      PROVE  ServiceInv'
  <2>1. CASE ScoreUnready(w)
    BY <2>1, StutterStep DEF ScoreUnready, engineVars
  <2>2. QED
    BY <1>1, <2>1, QuietScoring, QuietDisposing DEF Request
<1>2. ASSUME NEW w \in Workers, ScoreStep(w)
      PROVE  ServiceInv'
    BY <1>2, QuietScoring, DecideStep, PushStep, CommitStep DEF ScoreStep
<1>3. ASSUME NEW w \in Workers, DispositionStep(w)
      PROVE  ServiceInv'
    BY <1>3, QuietDisposing, UpdateStep, AuditStep, CommitStep DEF DispositionStep
<1>4. ASSUME NEW w \in Workers, DatabaseRaises(w)
      PROVE  ServiceInv'
    BY <1>4, RaisedStep
<1>5. CASE UNCHANGED vars
    BY <1>5, StutterStep DEF vars, engineVars
<1>6. QED
    BY <1>1, <1>2, <1>3, <1>4, <1>5, RestartStep DEF Next, Finished

(* The inductive invariant: what each thread has done so far is in the     *)
(* tables its step says, and the connection is ahead of the disk, whichever*)
(* threads committed in between (scoring.py, AlertQueue and the endpoints).*)
THEOREM ServiceInvariant == Spec => []ServiceInv
BY ServiceInit, ServiceStep, PTL DEF Spec

(* No alert that a score call has answered is ever missing from the disk,  *)
(* for any number of threads and restarts (AlertQueue.push).               *)
THEOREM AnsweredAlertsAreDurable == Spec => []NoAlertLost
<1>1. ServiceInv => NoAlertLost
    BY DEF ServiceInv
<1>2. QED
    BY <1>1, ServiceInvariant, PTL

(* No customer is held without an alert an analyst can clear, or one on    *)
(* its way, unless the database refused one to the process (score,         *)
(* _is_held and the push of the endpoint).                                 *)
THEOREM HeldCardsCanBeCleared == Spec => []HeldCardIsInQueue
<1>1. ServiceInv => HeldCardIsInQueue
    BY DEF ServiceInv
<1>2. QED
    BY <1>1, ServiceInvariant, PTL

-----------------------------------------------------------------------------
(* The disk changes only by a commit, to what the connection holds.        *)
LEMMA DiskSteps ==
    ASSUME [Next]_vars
    PROVE  disk' = disk \/ disk' = conn
BY DEF Next, Request, ScoreStep, DispositionStep, Finished, vars, ScoreRequest, ScoreUnready,
       DispositionRequest, ReadFeatures, Predict, FeaturesFail, LookAtHold, DropHold, DropFails,
       Decide, Fold, RecordScored, RecordDecision, PushAlert, CommitPush, SelectPrior,
       UpdateAlert, InsertAudit, CommitDisposition, FetchAlert, ClearHold, MarkFraud,
       DatabaseRaises, Restart

LEMMA DiskGrows ==
    ASSUME ServiceInv, [Next]_vars
    PROVE  Prefix(disk.audit, disk'.audit)
<1>1. Len(disk.audit) \in Nat /\ Prefix(disk.audit, conn.audit)
    BY DEF ServiceInv, TablesOK, AuditTrail, ConnAhead
<1>2. QED
    BY <1>1, DiskSteps DEF Prefix

(* No thread, commit or restart takes a row from the durable audit trail   *)
(* or changes one (AlertQueue.disposition: only INSERTs).                  *)
THEOREM TrailOnlyGrows == Spec => AuditAppendOnly
<1> DEFINE Grown == /\ Len(disk'.audit) >= Len(disk.audit)
                    /\ SubSeq(disk'.audit, 1, Len(disk.audit)) = disk.audit
<1>1. ServiceInv /\ ServiceInv' /\ [Next]_vars => Grown
  <2> SUFFICES ASSUME ServiceInv, ServiceInv', [Next]_vars PROVE Grown
    OBVIOUS
  <2>1. Prefix(disk.audit, disk'.audit)
    BY DiskGrows
  <2>2. disk.audit \in AuditTrail /\ disk'.audit \in AuditTrail
    BY DEF ServiceInv, TablesOK
  <2>3. QED
    BY <2>1, <2>2 DEF Prefix, AuditTrail
<1>2. QED
    BY <1>1, ServiceInvariant, PTL DEF Spec, AuditAppendOnly

(* Every restart is counted: a step that keeps `crashes` is of a process   *)
(* that lives.  So is every error of the database.                         *)
Counted == crashes \in Nat /\ faults \in Nat

LEMMA CrashesCounted == Spec => []Counted
<1>1. Init => Counted
    BY DEF Init, Counted
<1>2. ASSUME Counted, [Next]_vars
      PROVE  Counted'
  <2>1. CASE Restart
    BY <1>2, <2>1 DEF Restart, Counted
  <2>2. CASE \E w \in Workers : DatabaseRaises(w)
    BY <1>2, <2>2 DEF DatabaseRaises, Counted
  <2>3. CASE ~Restart /\ ~\E w \in Workers : DatabaseRaises(w)
    <3>1. UNCHANGED <<crashes, faults>>
      BY <1>2, <2>3, ZenonT(60)
      DEF Next, Request, ScoreStep, DispositionStep, Finished, vars, boundVars, ScoreRequest,
          ScoreUnready, DispositionRequest, Accept, ReadFeatures, Predict, FeaturesFail,
          LookAtHold, DropHold, DropFails, Decide, Fold, RecordScored, RecordDecision,
          PushAlert, CommitPush, SelectPrior, UpdateAlert, InsertAudit, CommitDisposition,
          FetchAlert, ClearHold, MarkFraud
    <3>2. QED
      BY <1>2, <3>1 DEF Counted
  <2>4. QED
    BY <2>1, <2>2, <2>3
<1>3. QED
    BY <1>1, <1>2, PTL DEF Spec

(* Of the steps of a living process only these two end a hold.             *)
Expires(w, c) == At(w, "drop") /\ Card(w) = c /\ pc'[w] = "decide"
Clears(w, c) == At(w, "effect") /\ job[w].label = "confirmed_legitimate"
                    /\ job[w].alert.card = c

LEMMA HoldEnds ==
    ASSUME ServiceInv, Next, Counted, crashes' = crashes,
           NEW c \in Cards, holds[c] # NoHold, holds'[c] = NoHold
    PROVE  \E w \in Workers : Expires(w, c) \/ Clears(w, c)
<1>1. DOMAIN holds = Cards
    BY DEF ServiceInv, TablesOK
<1>2. holds' # holds
    OBVIOUS
<1>3. ~Restart /\ ~Finished
    BY <1>2 DEF Restart, Finished, vars, engineVars, Counted
<1>4. PICK w \in Workers : DropHold(w) \/ Decide(w) \/ ClearHold(w)
    BY <1>2, <1>3 DEF Next, Request, ScoreStep, DispositionStep, engineVars, ScoreRequest,
           ScoreUnready, DispositionRequest, ReadFeatures, Predict, FeaturesFail, LookAtHold,
           DropFails, Fold, RecordScored, RecordDecision, PushAlert, CommitPush, SelectPrior,
           UpdateAlert, InsertAudit, CommitDisposition, FetchAlert, MarkFraud, DatabaseRaises
<1>5. CASE DropHold(w)
    BY <1>1, <1>5 DEF DropHold, Expires, Goto, At, ServiceInv, ThreadsOK
<1>6. CASE Decide(w)
  <2>1. job[w].ts \in Times
    BY <1>6 DEF Decide, At, ServiceInv, ThreadsOK, JobOK, Scoring
  <2>2. holds'[c] = holds[c] \/ holds'[c] = job[w].ts
    BY <1>1, <1>6 DEF Decide
  <2>3. QED
    BY <2>1, <2>2, NoHoldAssumption, BoundsAssumption DEF Times
<1>7. CASE ClearHold(w)
    BY <1>1, <1>7 DEF ClearHold, Clears
<1>8. QED
    BY <1>4, <1>5, <1>6, <1>7

(* While the process runs no hold goes without having expired, except for  *)
(* a durable confirmed_legitimate row (clear_hold after queue.disposition).*)
THEOREM ClearsHaveARow == Spec => ClearsAreAudited
<1> DEFINE Accounted ==
        \A c \in Cards :
            (holds[c] # NoHold /\ holds'[c] = NoHold /\ crashes' = crashes) =>
                \/ Audited("confirmed_legitimate", c) # {}
                \/ \E w \in Workers : At(w, "drop") /\ Card(w) = c /\ pc'[w] = "decide"
<1>1. ServiceInv /\ Counted /\ [Next]_vars => (Accounted \/ UNCHANGED vars)
  <2> SUFFICES ASSUME ServiceInv, Counted, Next, crashes' = crashes,
                      NEW c \in Cards, holds[c] # NoHold, holds'[c] = NoHold
               PROVE  \/ Audited("confirmed_legitimate", c) # {}
                      \/ \E w \in Workers : Expires(w, c)
    BY DEF Expires
  <2>1. PICK w \in Workers : Expires(w, c) \/ Clears(w, c)
    BY HoldEnds
  <2>2. CASE Clears(w, c)
    <3>1. HasRow(disk.audit, "confirmed_legitimate", c)
      BY <2>2 DEF Clears, At, ServiceInv, WorkIsDone, WorkDone
    <3>2. DOMAIN disk.audit = 1 .. Len(disk.audit)
      BY DEF ServiceInv, TablesOK, AuditTrail
    <3>3. QED
      BY <3>1, <3>2 DEF HasRow, Audited
  <2>3. QED
    BY <2>1, <2>2
<1>2. QED
    BY <1>1, ServiceInvariant, CrashesCounted, PTL DEF Spec, ClearsAreAudited

-----------------------------------------------------------------------------
(* The rows of a trail that confirm fraud on a card, and the threads whose *)
(* row is written while its mark is still to come.                         *)
FraudRow(row, c) == row.disposition = "confirmed_fraud" /\ CardOf[row.alert] = c
FraudRows(trail, c) == {i \in 1 .. Len(trail) : FraudRow(trail[i], c)}

Owes(step, j, c) ==
    /\ step \in {"seal", "fetch", "effect"} /\ j.label = "confirmed_fraud"
    /\ c = IF step = "effect" THEN j.alert.card ELSE CardOf[j.id]

Written(c) == {w \in Workers : Owes(pc[w], job[w], c)}
Committed(c) == {w \in Workers : pc[w] # "seal" /\ Owes(pc[w], job[w], c)}

(* Each mark, made or to come, has a row of its own: in the connection as  *)
(* soon as the thread has written it, on disk as soon as it has committed. *)
Covered(c) ==
    /\ Len(marks[c]) + Cardinality(Written(c)) <= Cardinality(FraudRows(conn.audit, c))
    /\ Len(marks[c]) + Cardinality(Committed(c)) <= Cardinality(FraudRows(disk.audit, c))

MarksInv == marks \in [Cards -> Seq(Times)] /\ \A c \in Cards : Covered(c)

-----------------------------------------------------------------------------
LEMMA RowsFinite ==
    ASSUME NEW trail \in AuditTrail, NEW c
    PROVE  IsFiniteSet(FraudRows(trail, c)) /\ Cardinality(FraudRows(trail, c)) \in Nat
<1>1. Len(trail) \in Nat /\ FraudRows(trail, c) \in SUBSET (1 .. Len(trail))
    BY DEF AuditTrail, FraudRows
<1>2. IsFiniteSet(1 .. Len(trail))
    BY <1>1, FS_Interval
<1>3. IsFiniteSet(FraudRows(trail, c))
    BY <1>1, <1>2, FS_Subset
<1>4. QED
    BY <1>3, FS_CardinalityType

LEMMA ThreadsFinite ==
    ASSUME NEW S \in SUBSET Workers, NEW T \in SUBSET S
    PROVE  /\ IsFiniteSet(S) /\ Cardinality(S) \in Nat
           /\ Cardinality(T) \in Nat /\ Cardinality(T) <= Cardinality(S)
<1>1. IsFiniteSet(S)
    BY WorkersAssumption, FS_Subset
<1>2. IsFiniteSet(T) /\ Cardinality(T) <= Cardinality(S)
    BY <1>1, FS_Subset
<1>3. QED
    BY <1>1, <1>2, FS_CardinalityType

LEMMA MarksInit == Init => MarksInv
<1> SUFFICES ASSUME Init PROVE MarksInv
    OBVIOUS
<1>1. marks = [c \in Cards |-> <<>>]
    BY DEF Init
<1>2. ASSUME NEW c \in Cards
      PROVE  Covered(c)
  <2>1. Written(c) = {} /\ Committed(c) = {}
    BY DEF Init, Written, Committed, Owes
  <2>2. conn.audit = <<>> /\ disk.audit = <<>>
    BY DEF Init, EmptyTables
  <2>3. FraudRows(conn.audit, c) = {} /\ FraudRows(disk.audit, c) = {}
    BY <2>2 DEF FraudRows
  <2>4. Cardinality({}) = 0
    BY FS_EmptySet
  <2>5. Len(marks[c]) = 0
    BY <1>1
  <2>6. QED
    BY <2>1, <2>3, <2>4, <2>5 DEF Covered
<1>3. marks \in [Cards -> Seq(Times)]
  <2> DEFINE Marks == Seq(Times)
  <2>1. <<>> \in Marks
    OBVIOUS
  <2> HIDE DEF Marks
  <2>2. marks \in [Cards -> Marks]
    BY <1>1, <2>1
  <2>3. QED
    BY <2>2 DEF Marks
<1>4. QED
    BY <1>2, <1>3 DEF MarksInv

(* A step that owes no more, on trails that lose no row.                   *)
LEMMA CoveredStays ==
    ASSUME ServiceInv, ServiceInv', MarksInv, marks' = marks, NEW c \in Cards,
           Written(c)' \subseteq Written(c),
           FraudRows(conn.audit, c) \subseteq FraudRows(conn'.audit, c),
           FraudRows(disk.audit, c) \subseteq FraudRows(disk'.audit, c),
           Committed(c)' \subseteq Committed(c)
    PROVE  Covered(c)'
<1>1. /\ conn.audit \in AuditTrail /\ disk.audit \in AuditTrail
      /\ conn'.audit \in AuditTrail /\ disk'.audit \in AuditTrail
    BY DEF ServiceInv, TablesOK
<1>2. /\ Cardinality(FraudRows(conn.audit, c)) <= Cardinality(FraudRows(conn'.audit, c))
      /\ Cardinality(FraudRows(disk.audit, c)) <= Cardinality(FraudRows(disk'.audit, c))
      /\ Cardinality(FraudRows(conn.audit, c)) \in Nat
      /\ Cardinality(FraudRows(disk.audit, c)) \in Nat
      /\ Cardinality(FraudRows(conn'.audit, c)) \in Nat
      /\ Cardinality(FraudRows(disk'.audit, c)) \in Nat
    BY <1>1, RowsFinite, FS_Subset
<1>3. Written(c) \in SUBSET Workers /\ Committed(c) \in SUBSET Workers
    BY DEF Written, Committed
<1>4. /\ Cardinality(Written(c)') <= Cardinality(Written(c))
      /\ Cardinality(Committed(c)') <= Cardinality(Committed(c))
      /\ Cardinality(Written(c)') \in Nat /\ Cardinality(Committed(c)') \in Nat
      /\ Cardinality(Written(c)) \in Nat /\ Cardinality(Committed(c)) \in Nat
    BY <1>3, ThreadsFinite
<1>5. Len(marks[c]) \in Nat /\ Len(marks'[c]) = Len(marks[c])
    BY DEF MarksInv
<1>6. QED
    BY <1>2, <1>4, <1>5 DEF Covered, MarksInv

(* What a thread owes after its step; the others owe what they did.        *)
LEMMA Owing ==
    ASSUME ServiceInv, NEW w \in Workers, NEW step, NEW j, Goto(w, step), Locals(w, j), NEW c
    PROVE  /\ \A v \in Workers :
                v \in Written(c)' <=> IF v = w THEN Owes(step, j, c) ELSE v \in Written(c)
           /\ \A v \in Workers :
                v \in Committed(c)' <=>
                    IF v = w THEN step # "seal" /\ Owes(step, j, c) ELSE v \in Committed(c)
           /\ Written(c)' \subseteq Workers /\ Committed(c)' \subseteq Workers
<1>1. /\ pc' = [v \in Workers |-> IF v = w THEN step ELSE pc[v]]
      /\ job' = [v \in Workers |-> IF v = w THEN j ELSE job[v]]
    BY DEF ServiceInv, ThreadsOK, Goto, Locals
<1>2. /\ pc'[w] = step /\ job'[w] = j
      /\ \A v \in Workers \ {w} : pc'[v] = pc[v] /\ job'[v] = job[v]
    BY <1>1
<1>3. QED
    BY <1>2 DEF Written, Committed, Owes

(* The steps that touch neither the audit trail nor the marks.             *)
LEMMA QuietCovered ==
    ASSUME ServiceInv, ServiceInv', MarksInv, NEW w \in Workers, NEW step, NEW j,
           Goto(w, step), Locals(w, j),
           \A c \in Cards : Owes(step, j, c) => pc[w] # "seal" /\ Owes(pc[w], job[w], c),
           marks' = marks, conn'.audit = conn.audit, disk'.audit = disk.audit
    PROVE  MarksInv'
<1>1. ASSUME NEW c \in Cards
      PROVE  Covered(c)'
  <2>1. Written(c)' \subseteq Written(c) /\ Committed(c)' \subseteq Committed(c)
    BY Owing DEF Written, Committed
  <2>2. QED
    BY <2>1, CoveredStays
<1>2. QED
    BY <1>1 DEF MarksInv

LEMMA IdleOwes == \A c : ~Owes("idle", NoJob, c)
BY DEF Owes

(* The steps of a score call reach none that owes a mark.                  *)
LEMMA ScoringCovered ==
    ASSUME ServiceInv, ServiceInv', MarksInv, NEW w \in Workers,
           ScoreStep(w), ~CommitPush(w)
    PROVE  MarksInv'
<1> DEFINE Elsewhere == \E step, j : /\ Goto(w, step) /\ Locals(w, j)
                                     /\ step \notin {"seal", "fetch", "effect"}
<1>1. marks' = marks /\ conn'.audit = conn.audit /\ disk'.audit = disk.audit
    BY DEF ScoreStep, ReadFeatures, Predict, FeaturesFail, LookAtHold, DropHold, DropFails,
           Decide, Fold, RecordScored, RecordDecision, PushAlert, ServiceInv, TablesOK, engineVars
<1>2. ThreadsOK
    BY DEF ServiceInv
<1>3. Elsewhere
  <2>1. CASE ReadFeatures(w) \/ FeaturesFail(w) \/ DropFails(w) \/ RecordScored(w)
    BY <2>1 DEF ReadFeatures, FeaturesFail, DropFails, RecordScored, Return
  <2>2. CASE \E risk \in Risks : Predict(w, risk)
    BY <2>2 DEF Predict
  <2>3. CASE DropHold(w) \/ Fold(w) \/ PushAlert(w)
    BY <1>2, <2>3, SameJob DEF DropHold, Fold, PushAlert
  <2>4. CASE LookAtHold(w)
    BY <2>4 DEF LookAtHold
  <2>5. CASE Decide(w)
    BY <2>5 DEF Decide
  <2>6. CASE RecordDecision(w)
    BY <2>6 DEF RecordDecision, Return
  <2>7. QED
    BY <2>1, <2>2, <2>3, <2>4, <2>5, <2>6 DEF ScoreStep
<1>4. PICK step, j : Goto(w, step) /\ Locals(w, j) /\ step \notin {"seal", "fetch", "effect"}
    BY <1>3
<1>5. QED
    BY <1>1, <1>4, QuietCovered DEF Owes

(* Those of a disposition, but for its row, its commit and its mark.       *)
LEMMA DisposingCovered ==
    ASSUME ServiceInv, ServiceInv', MarksInv, NEW w \in Workers,
           \/ \E id \in TxnIds, label \in Tables!Labels, analyst \in Analysts :
                 DispositionRequest(w, id, label, analyst)
           \/ \E id \in TxnIds, ts \in Times : ScoreRequest(w, id, ts)
           \/ SelectPrior(w) \/ UpdateAlert(w) \/ FetchAlert(w) \/ ClearHold(w)
    PROVE  MarksInv'
<1>1. marks' = marks /\ conn'.audit = conn.audit /\ disk'.audit = disk.audit
    BY DEF DispositionRequest, ScoreRequest, SelectPrior, UpdateAlert, FetchAlert, ClearHold,
           ServiceInv, TablesOK, engineVars
<1>2. JobOK(pc[w], job[w]) /\ ThreadsOK
    BY DEF ServiceInv, ThreadsOK
<1>3. CASE ~FetchAlert(w)
  <2>1. \E step, j : Goto(w, step) /\ Locals(w, j) /\ step \notin {"seal", "fetch", "effect"}
    <3>1. CASE UpdateAlert(w)
      BY <1>2, <3>1, SameJob DEF UpdateAlert
    <3>2. CASE SelectPrior(w)
      BY <3>2 DEF SelectPrior
    <3>3. CASE ClearHold(w)
      BY <3>3 DEF ClearHold, Return
    <3>4. ASSUME NEW j, NEW step, Accept(w, j, step), step \in {"select", "features"}
          PROVE  Goto(w, step) /\ Locals(w, j) /\ step \notin {"seal", "fetch", "effect"}
      BY <3>4 DEF Accept
    <3>5. ASSUME NEW id \in TxnIds, NEW label \in Tables!Labels, NEW analyst \in Analysts,
                 DispositionRequest(w, id, label, analyst)
          PROVE  \E j : Accept(w, j, "select")
      BY <3>5 DEF DispositionRequest
    <3>6. ASSUME NEW id \in TxnIds, NEW ts \in Times, ScoreRequest(w, id, ts)
          PROVE  \E j : Accept(w, j, "features")
      BY <3>6 DEF ScoreRequest
    <3>7. QED
      BY <1>3, <3>1, <3>2, <3>3, <3>4, <3>5, <3>6
  <2>2. PICK step, j :
            Goto(w, step) /\ Locals(w, j) /\ step \notin {"seal", "fetch", "effect"}
    BY <2>1
  <2>3. QED
    BY <1>1, <2>2, QuietCovered DEF Owes
<1>4. CASE FetchAlert(w)
  <2>1. pc[w] = "fetch" /\ job[w].id \in TxnIds
    BY <1>2, <1>4 DEF FetchAlert, At, JobOK, Disposing
  <2>2. CASE Return(w)
    BY <1>1, <2>2, IdleOwes, QuietCovered DEF Return
  <2>3. CASE /\ conn.alerts[job[w].id] # NoAlert /\ Goto(w, "effect")
             /\ Locals(w, [label |-> job[w].label, alert |-> conn.alerts[job[w].id].payload])
    <3> DEFINE j == [label |-> job[w].label, alert |-> conn.alerts[job[w].id].payload]
    <3>1. j.label = job[w].label /\ j.alert.card = CardOf[job[w].id]
      BY <2>1, <2>3 DEF ServiceInv, CardsAgree, OwnCards
    <3>2. Goto(w, "effect") /\ Locals(w, j)
      BY <2>3
    <3> HIDE DEF j
    <3>3. \A c \in Cards : Owes("effect", j, c) => Owes(pc[w], job[w], c)
      BY <2>1, <3>1 DEF Owes
    <3>4. QED
      BY <1>1, <2>1, <3>2, <3>3, QuietCovered
  <2>4. QED
    BY <1>4, <2>2, <2>3 DEF FetchAlert
<1>5. QED
    BY <1>3, <1>4

(* A commit makes every written row durable, whoever wrote it.             *)
LEMMA CommitCovered ==
    ASSUME ServiceInv, ServiceInv', MarksInv, NEW w \in Workers,
           CommitPush(w) \/ CommitDisposition(w)
    PROVE  MarksInv'
<1>1. marks' = marks /\ disk' = conn /\ conn' = conn
    BY DEF CommitPush, CommitDisposition, engineVars
<1>2. ThreadsOK
    BY DEF ServiceInv
<1>3. PICK step, j :
          /\ Goto(w, step) /\ Locals(w, j)
          /\ \A c \in Cards : Owes(step, j, c) => Owes(pc[w], job[w], c)
  <2>1. CASE CommitPush(w)
    BY <2>1, IdleOwes DEF CommitPush, Return
  <2>2. CASE CommitDisposition(w)
    <3>1. pc[w] = "seal" /\ Goto(w, "fetch") /\ Locals(w, job[w])
      BY <1>2, <2>2, SameJob DEF CommitDisposition, At
    <3>2. QED
      BY <3>1 DEF Owes
  <2>3. QED
    BY <2>1, <2>2
<1>4. ASSUME NEW c \in Cards
      PROVE  Covered(c)'
  <2>1. Written(c)' \subseteq Written(c) /\ Committed(c)' \subseteq Written(c)
    BY <1>3, Owing DEF Written, Committed
  <2>2. Written(c) \in SUBSET Workers
    BY DEF Written
  <2>3. /\ Cardinality(Written(c)') <= Cardinality(Written(c))
        /\ Cardinality(Committed(c)') <= Cardinality(Written(c))
        /\ Cardinality(Written(c)') \in Nat /\ Cardinality(Committed(c)') \in Nat
        /\ Cardinality(Written(c)) \in Nat
    BY <2>1, <2>2, ThreadsFinite
  <2>4. Cardinality(FraudRows(conn.audit, c)) \in Nat /\ Len(marks[c]) \in Nat
    BY RowsFinite DEF ServiceInv, TablesOK, MarksInv
  <2>5. Len(marks[c]) + Cardinality(Written(c)) <= Cardinality(FraudRows(conn.audit, c))
    BY DEF MarksInv, Covered
  <2>6. QED
    BY <1>1, <2>3, <2>4, <2>5 DEF Covered
<1>5. QED
    BY <1>1, <1>4 DEF MarksInv

(* The row of a disposition, written before anything rests on it.          *)
LEMMA AuditCovered ==
    ASSUME ServiceInv, ServiceInv', MarksInv, NEW w \in Workers, InsertAudit(w)
    PROVE  MarksInv'
<1> DEFINE row == Tables!AuditRow(job[w].id, job[w].label, job[w].analyst, job[w].prior)
           j == [id |-> job[w].id, label |-> job[w].label]
           n == Len(conn.audit)
<1>1. /\ marks' = marks /\ disk' = disk /\ pc[w] = "trail"
      /\ Goto(w, "seal") /\ Locals(w, j)
      /\ conn'.audit = Append(conn.audit, row)
    BY DEF InsertAudit, At, engineVars, ServiceInv, TablesOK
<1>2. row.alert = job[w].id /\ row.disposition = job[w].label
      /\ j.id = job[w].id /\ j.label = job[w].label
    BY DEF Tables!AuditRow
<1>3. conn.audit \in AuditTrail /\ conn'.audit \in AuditTrail /\ row \in Tables!AuditRows
  <2>1. JobOK("trail", job[w])
    BY <1>1 DEF ServiceInv, ThreadsOK
  <2>2. row \in Tables!AuditRows
    BY <2>1 DEF JobOK, Disposing, Tables!AuditRow, Tables!AuditRows
  <2>3. QED
    BY <2>2 DEF ServiceInv, TablesOK
<1> HIDE DEF row, j
<1>4. n \in Nat /\ Len(conn'.audit) = n + 1 /\ conn'.audit[n + 1] = row
      /\ \A i \in 1 .. n : conn'.audit[i] = conn.audit[i]
    BY <1>1, <1>3 DEF AuditTrail
<1>5. ASSUME NEW c \in Cards
      PROVE  Covered(c)'
  <2>1. Committed(c)' \subseteq Committed(c)
    BY <1>1, Owing DEF Committed
  <2>2. CASE Owes("seal", j, c)
    <3>1. Written(c)' = Written(c) \cup {w} /\ w \notin Written(c)
      <4>1. w \notin Written(c)
        BY <1>1 DEF Written, Owes
      <4>2. /\ \A v \in Workers : v \in Written(c)' <=> v = w \/ v \in Written(c)
            /\ Written(c)' \subseteq Workers
        BY <1>1, <2>2, Owing
      <4>3. QED
        BY <4>1, <4>2 DEF Written
    <3>2. FraudRow(row, c)
      <4>1. j.label = "confirmed_fraud" /\ c = CardOf[j.id]
        BY <2>2 DEF Owes
      <4>2. QED
        BY <1>2, <4>1 DEF FraudRow
    <3>3. /\ FraudRows(conn'.audit, c) = FraudRows(conn.audit, c) \cup {n + 1}
          /\ n + 1 \notin FraudRows(conn.audit, c)
      BY <1>4, <3>2 DEF FraudRows
    <3>4. IsFiniteSet(Written(c)) /\ Cardinality(Written(c)) \in Nat
      BY ThreadsFinite DEF Written
    <3>5. Cardinality(Written(c)') = Cardinality(Written(c)) + 1
      BY <3>1, <3>4, FS_AddElement
    <3>6. Cardinality(FraudRows(conn'.audit, c)) = Cardinality(FraudRows(conn.audit, c)) + 1
      BY <1>3, <3>3, RowsFinite, FS_AddElement
    <3>7. Cardinality(FraudRows(conn.audit, c)) \in Nat /\ Len(marks[c]) \in Nat
          /\ Cardinality(FraudRows(disk.audit, c)) \in Nat
      BY RowsFinite DEF ServiceInv, TablesOK, MarksInv
    <3>8. Committed(c) \in SUBSET Workers
      BY DEF Committed
    <3>9. Cardinality(Committed(c)') <= Cardinality(Committed(c))
          /\ Cardinality(Committed(c)') \in Nat /\ Cardinality(Committed(c)) \in Nat
      BY <2>1, <3>8, ThreadsFinite
    <3>10. Covered(c)
      BY DEF MarksInv
    <3>11. Len(marks'[c]) + Cardinality(Written(c)') <= Cardinality(FraudRows(conn'.audit, c))
      BY <1>1, <3>4, <3>5, <3>6, <3>7, <3>10 DEF Covered
    <3>12. Len(marks'[c]) + Cardinality(Committed(c)') <= Cardinality(FraudRows(disk'.audit, c))
      BY <1>1, <3>7, <3>9, <3>10 DEF Covered
    <3>13. QED
      BY <3>11, <3>12 DEF Covered
  <2>3. CASE ~Owes("seal", j, c)
    <3>1. Written(c)' \subseteq Written(c)
      BY <1>1, <2>3, Owing DEF Written
    <3>2. FraudRows(conn.audit, c) \subseteq FraudRows(conn'.audit, c)
      BY <1>4 DEF FraudRows
    <3>3. QED
      BY <1>1, <2>1, <3>1, <3>2, CoveredStays
  <2>4. QED
    BY <2>2, <2>3
<1>6. QED
  BY <1>1, <1>5 DEF MarksInv

(* The mark a thread owes is the one it makes.                             *)
LEMMA MarkCovered ==
    ASSUME ServiceInv, ServiceInv', MarksInv, NEW w \in Workers, MarkFraud(w)
    PROVE  MarksInv'
<1> DEFINE card == job[w].alert.card
           ts == job[w].alert.ts
<1>1. /\ pc[w] = "effect" /\ job[w].label = "confirmed_fraud"
      /\ marks' = [marks EXCEPT ![card] = Append(marks[card], ts)]
      /\ Goto(w, "idle") /\ Locals(w, NoJob) /\ UNCHANGED <<conn, disk>>
    BY DEF MarkFraud, At, Return
<1>2. card \in Cards /\ ts \in Times
    BY <1>1 DEF ServiceInv, ThreadsOK, JobOK, Payloads
<1>3. Owes(pc[w], job[w], card) /\ \A c \in Cards : c # card => ~Owes(pc[w], job[w], c)
    BY <1>1 DEF Owes
<1> HIDE DEF card, ts
<1>4. marks' \in [Cards -> Seq(Times)] /\ \A c \in Cards : marks[c] \in Seq(Times)
  <2>1. marks \in [Cards -> Seq(Times)]
    BY DEF MarksInv
  <2>2. Append(marks[card], ts) \in Seq(Times)
    BY <1>2, <2>1
  <2> DEFINE S == Seq(Times)
             longer == Append(marks[card], ts)
  <2>3. marks \in [Cards -> S] /\ longer \in S /\ marks' = [marks EXCEPT ![card] = longer]
    BY <1>1, <2>1, <2>2
  <2> HIDE DEF S, longer
  <2>4. marks' \in [Cards -> S]
    BY <2>3
  <2>5. QED
    BY <2>1, <2>4 DEF S
<1>5. ASSUME NEW c \in Cards
      PROVE  Covered(c)'
  <2>1. Covered(c) /\ marks \in [Cards -> Seq(Times)]
    BY DEF MarksInv
  <2>2. /\ IsFiniteSet(Written(c)) /\ IsFiniteSet(Committed(c))
        /\ Cardinality(Written(c)) \in Nat /\ Cardinality(Committed(c)) \in Nat
    BY ThreadsFinite DEF Written, Committed
  <2>3. Written(c)' = Written(c) \ {w} /\ Committed(c)' = Committed(c) \ {w}
    BY <1>1, IdleOwes, Owing DEF Written, Committed
  <2>4. /\ Cardinality(FraudRows(conn.audit, c)) \in Nat
        /\ Cardinality(FraudRows(disk.audit, c)) \in Nat
    BY RowsFinite DEF ServiceInv, TablesOK
  <2>5. CASE c = card
    <3>1. w \in Written(c) /\ w \in Committed(c)
      BY <1>1, <1>3, <2>5 DEF Written, Committed
    <3>2. /\ Cardinality(Written(c)') = Cardinality(Written(c)) - 1
          /\ Cardinality(Committed(c)') = Cardinality(Committed(c)) - 1
      BY <2>2, <2>3, <3>1, FS_RemoveElement
    <3>3. marks'[c] = Append(marks[c], ts)
      BY <1>1, <2>1, <2>5
    <3>4. Len(marks'[c]) = Len(marks[c]) + 1 /\ Len(marks[c]) \in Nat
      BY <1>2, <1>4, <3>3
    <3>5. QED
      BY <1>1, <2>1, <2>2, <2>4, <3>2, <3>4 DEF Covered
  <2>6. CASE c # card
    <3>1. w \notin Written(c) /\ w \notin Committed(c)
      BY <1>3, <2>6 DEF Written, Committed
    <3>2. Written(c)' = Written(c) /\ Committed(c)' = Committed(c)
      BY <2>3, <3>1
    <3>3. marks'[c] = marks[c]
      BY <1>1, <2>1, <2>6
    <3>4. QED
      BY <1>1, <2>1, <3>2, <3>3 DEF Covered
  <2>7. QED
    BY <2>5, <2>6
<1>6. QED
    BY <1>4, <1>5 DEF MarksInv

LEMMA RestartCovered ==
    ASSUME ServiceInv', Restart
    PROVE  MarksInv'
<1>1. marks' = [c \in Cards |-> <<>>] /\ pc' = [w \in Workers |-> "idle"]
    BY DEF Restart
<1>2. marks' \in [Cards -> Seq(Times)]
  <2> DEFINE Marks == Seq(Times)
  <2>1. <<>> \in Marks
    OBVIOUS
  <2> HIDE DEF Marks
  <2>2. marks' \in [Cards -> Marks]
    BY <1>1, <2>1
  <2>3. QED
    BY <2>2 DEF Marks
<1>3. ASSUME NEW c \in Cards
      PROVE  Covered(c)'
  <2>1. Written(c)' = {} /\ Committed(c)' = {}
    BY <1>1 DEF Written, Committed, Owes
  <2>2. Len(marks'[c]) = 0 /\ Cardinality({}) = 0
    BY <1>1, FS_EmptySet
  <2>3. conn'.audit \in AuditTrail /\ disk'.audit \in AuditTrail
    BY DEF ServiceInv, TablesOK
  <2>4. /\ Cardinality(FraudRows(conn'.audit, c)) \in Nat
        /\ Cardinality(FraudRows(disk'.audit, c)) \in Nat
    BY <2>3, RowsFinite
  <2>5. QED
    BY <2>1, <2>2, <2>4 DEF Covered
<1>4. QED
    BY <1>2, <1>3 DEF MarksInv

LEMMA RaisedCovered ==
    ASSUME ServiceInv, ServiceInv', MarksInv, NEW w \in Workers, DatabaseRaises(w)
    PROVE  MarksInv'
<1>1. Goto(w, "idle") /\ Locals(w, NoJob)
    BY DEF DatabaseRaises, Return
<1>2. UNCHANGED <<marks, conn, disk>>
    BY DEF DatabaseRaises, engineVars
<1>3. QED
    BY <1>1, <1>2, IdleOwes, QuietCovered

LEMMA StutterCovered ==
    ASSUME MarksInv, UNCHANGED <<marks, conn, disk, pc, job>>
    PROVE  MarksInv'
BY DEF MarksInv, Covered, Written, Committed, Owes, FraudRows, FraudRow

LEMMA MarksStep ==
    ASSUME ServiceInv, ServiceInv', MarksInv, [Next]_vars
    PROVE  MarksInv'
<1>1. ASSUME NEW w \in Workers, Request(w)
      PROVE  MarksInv'
  <2>1. CASE ScoreUnready(w)
    BY <2>1, StutterCovered DEF ScoreUnready, engineVars
  <2>2. QED
    BY <1>1, <2>1, DisposingCovered DEF Request
<1>2. ASSUME NEW w \in Workers, ScoreStep(w)
      PROVE  MarksInv'
    BY <1>2, ScoringCovered, CommitCovered
<1>3. ASSUME NEW w \in Workers, DispositionStep(w)
      PROVE  MarksInv'
    BY <1>3, DisposingCovered, AuditCovered, CommitCovered, MarkCovered DEF DispositionStep
<1>4. ASSUME NEW w \in Workers, DatabaseRaises(w)
      PROVE  MarksInv'
    BY <1>4, RaisedCovered
<1>5. CASE UNCHANGED vars
    BY <1>5, StutterCovered DEF vars, engineVars
<1>6. QED
    BY <1>1, <1>2, <1>3, <1>4, <1>5, RestartCovered DEF Next, Finished

(* A fraud mark on a card has a confirmed_fraud row of its own on disk,    *)
(* for any number of threads and restarts (the disposition endpoint marks  *)
(* after queue.disposition has committed).                                 *)
THEOREM MarksHaveRows == Spec => []MarksAreAudited
<1>1. Spec => []MarksInv
    BY MarksInit, MarksStep, ServiceInvariant, PTL DEF Spec
<1>2. ServiceInv /\ MarksInv => MarksAreAudited
  <2> SUFFICES ASSUME ServiceInv, MarksInv, NEW c \in Cards
               PROVE  Len(marks[c]) <= Cardinality(Audited("confirmed_fraud", c))
    BY DEF MarksAreAudited
  <2>1. disk.audit \in AuditTrail /\ DOMAIN disk.audit = 1 .. Len(disk.audit)
    BY DEF ServiceInv, TablesOK, AuditTrail
  <2>2. Audited("confirmed_fraud", c) = FraudRows(disk.audit, c)
    BY <2>1 DEF Audited, FraudRows, FraudRow
  <2>3. Cardinality(Committed(c)) \in Nat /\ Cardinality(FraudRows(disk.audit, c)) \in Nat
    BY <2>1, RowsFinite, ThreadsFinite DEF Committed
  <2>4. Len(marks[c]) \in Nat /\ Covered(c)
    BY DEF MarksInv
  <2>5. QED
    BY <2>2, <2>3, <2>4 DEF Covered
<1>3. QED
    BY <1>1, <1>2, ServiceInvariant, PTL

-----------------------------------------------------------------------------
(* The counters.                                                           *)

(* The locals of a thread between its decision and its counter.            *)
ReportOK(step, j) ==
    /\ step \in {"fold", "record", "tally"} => j.decision \in Decisions
    /\ step = "tally" => j.count \in Nat

Recording == {w \in Workers : pc[w] = "record"}

(* How often each decision was counted in `scored`.  No counter is ahead   *)
(* of it, nor will be after the write that a thread has prepared.          *)
CountedAs(often) ==
    /\ often \in [Decisions -> Nat]
    /\ Whole(often) = metrics.scored
    /\ \A d \in Decisions : metrics.decisions[d] <= often[d]
    /\ \A w \in Workers : pc[w] = "tally" => job[w].count + 1 <= often[job[w].decision]

CountsInv ==
    /\ folded \in [Cards -> Nat]
    /\ metrics \in [scored : Nat, errors : Nat, decisions : [Decisions -> Nat]]
    /\ \A w \in Workers : ReportOK(pc[w], job[w])
    /\ Whole(folded) = metrics.scored + Cardinality(Recording)
    /\ \E often \in [Decisions -> Nat] : CountedAs(often)

LEMMA DecisionsFinite == IsFiniteSet(Decisions)
<1>1. Decisions = {"approve"} \cup {"soft_challenge"} \cup {"hard_block"}
    BY DEF Decisions
<1>2. QED
    BY <1>1, FS_Singleton, FS_Union

(* A process that has just started.                                        *)
Fresh ==
    /\ folded = [c \in Cards |-> 0]
    /\ metrics = NoMetrics
    /\ \A w \in Workers : pc[w] = "idle"

LEMMA FreshCounts == Fresh => CountsInv
<1> SUFFICES ASSUME Fresh PROVE CountsInv
    OBVIOUS
<1> USE DEF Fresh
<1>1. Whole(folded) = 0
    BY CardsAssumption, SumOfZeros
<1>2. Recording = {} /\ Cardinality({}) = 0
    BY FS_EmptySet DEF Recording
<1>3. metrics.scored = 0
    BY DEF NoMetrics
<1> DEFINE often == [d \in Decisions |-> 0]
<1>4. Whole(often) = 0
    BY DecisionsFinite, SumOfZeros
<1>5. CountedAs(often)
    BY <1>3, <1>4 DEF CountedAs, NoMetrics
<1>6. often \in [Decisions -> Nat]
    OBVIOUS
<1> HIDE DEF often
<1>7. QED
    BY <1>1, <1>2, <1>3, <1>5, <1>6 DEF CountsInv, ReportOK, NoMetrics

(* A thread's step that counts nothing.                                    *)
LEMMA QuietCounts ==
    ASSUME ServiceInv, CountsInv, NEW w \in Workers, NEW step, NEW j,
           Goto(w, step), Locals(w, j), pc[w] # "record",
           step \notin {"record", "tally"}, step = "fold" => j.decision \in Decisions,
           UNCHANGED <<folded, metrics>>
    PROVE  CountsInv'
<1>1. /\ pc' = [v \in Workers |-> IF v = w THEN step ELSE pc[v]]
      /\ job' = [v \in Workers |-> IF v = w THEN j ELSE job[v]]
    BY DEF ServiceInv, ThreadsOK, Goto, Locals
<1>2. Recording' = Recording
    BY <1>1 DEF Recording
<1>3. \A v \in Workers : ReportOK(pc'[v], job'[v])
    BY <1>1 DEF CountsInv, ReportOK
<1>4. \A often \in [Decisions -> Nat] : CountedAs(often) => CountedAs(often)'
    BY <1>1 DEF CountedAs
<1>5. QED
    BY <1>2, <1>3, <1>4 DEF CountsInv

LEMMA FoldCounts ==
    ASSUME ServiceInv, CountsInv, NEW w \in Workers, Fold(w)
    PROVE  CountsInv'
<1>1. /\ pc[w] = "fold" /\ folded' = [folded EXCEPT ![Card(w)] = @ + 1]
      /\ UNCHANGED <<metrics, job>> /\ Goto(w, "record")
    BY DEF Fold, At
<1>2. pc' = [v \in Workers |-> IF v = w THEN "record" ELSE pc[v]]
    BY <1>1 DEF ServiceInv, ThreadsOK, Goto
<1>3. Card(w) \in Cards
    BY <1>1, CardOfAssumption DEF ServiceInv, ThreadsOK, JobOK, Scoring, Reporting, Card
<1>4. folded' \in [Cards -> Nat]
    BY <1>1, <1>3 DEF CountsInv
<1>5. Whole(folded') = Whole(folded) + 1
    BY <1>1, <1>3, CardsAssumption, SumRaised DEF CountsInv
<1>6. Recording' = Recording \cup {w} /\ w \notin Recording
    BY <1>1, <1>2 DEF Recording
<1>7. IsFiniteSet(Recording)
    BY WorkersAssumption, FS_Subset DEF Recording
<1>8. Cardinality(Recording') = Cardinality(Recording) + 1 /\ Cardinality(Recording) \in Nat
    BY <1>6, <1>7, FS_AddElement, FS_CardinalityType
<1>9. Whole(folded') = metrics'.scored + Cardinality(Recording')
    BY <1>1, <1>5, <1>8 DEF CountsInv
<1>10. \A v \in Workers : ReportOK(pc'[v], job'[v])
    BY <1>1, <1>2 DEF CountsInv, ReportOK
<1>11. \A often \in [Decisions -> Nat] : CountedAs(often) => CountedAs(often)'
    BY <1>1, <1>2 DEF CountedAs
<1>12. QED
    BY <1>1, <1>4, <1>9, <1>10, <1>11 DEF CountsInv

(* `scored` goes up, and the counter the thread will write is one it has   *)
(* just read.                                                              *)
LEMMA ScoredCounts ==
    ASSUME ServiceInv, CountsInv, NEW w \in Workers, RecordScored(w)
    PROVE  CountsInv'
<1> DEFINE d == job[w].decision
           j == [id |-> job[w].id, ts |-> job[w].ts, decision |-> d,
                 count |-> metrics.decisions[d]]
<1>1. /\ pc[w] = "record" /\ folded' = folded /\ Goto(w, "tally") /\ Locals(w, j)
      /\ metrics' = [metrics EXCEPT !.scored = @ + 1]
    BY DEF RecordScored, At, engineVars
<1>2. j.decision = d /\ j.count = metrics.decisions[d]
    OBVIOUS
<1> HIDE DEF j
<1>3. /\ pc' = [v \in Workers |-> IF v = w THEN "tally" ELSE pc[v]]
      /\ job' = [v \in Workers |-> IF v = w THEN j ELSE job[v]]
    BY <1>1 DEF ServiceInv, ThreadsOK, Goto, Locals
<1>4. d \in Decisions
    BY <1>1 DEF CountsInv, ReportOK
<1> HIDE DEF d
<1>5. metrics \in [scored : Nat, errors : Nat, decisions : [Decisions -> Nat]]
    BY DEF CountsInv
<1>6. /\ metrics' \in [scored : Nat, errors : Nat, decisions : [Decisions -> Nat]]
      /\ metrics'.scored = metrics.scored + 1 /\ metrics'.decisions = metrics.decisions
      /\ metrics.decisions[d] \in Nat /\ metrics.scored \in Nat
    BY <1>1, <1>4, <1>5
<1>7. Recording' = Recording \ {w} /\ w \in Recording
    BY <1>1, <1>3 DEF Recording
<1>8. IsFiniteSet(Recording)
    BY WorkersAssumption, FS_Subset DEF Recording
<1>9. Cardinality(Recording') = Cardinality(Recording) - 1 /\ Cardinality(Recording) \in Nat
    BY <1>7, <1>8, FS_RemoveElement, FS_CardinalityType
<1>10. Whole(folded') = metrics'.scored + Cardinality(Recording')
    BY <1>1, <1>6, <1>9 DEF CountsInv
<1>11. \A v \in Workers : ReportOK(pc'[v], job'[v])
    BY <1>2, <1>3, <1>4, <1>6 DEF CountsInv, ReportOK
<1>12. PICK often \in [Decisions -> Nat] : CountedAs(often)
    BY DEF CountsInv
<1>13. PICK more \in [Decisions -> Nat] :
           /\ Whole(more) = Whole(often) + 1
           /\ more[d] = often[d] + 1
           /\ \A e \in Decisions : often[e] <= more[e] /\ often[e] \in Nat /\ more[e] \in Nat
  <2> DEFINE raised == [often EXCEPT ![d] = @ + 1]
  <2>1. Whole(raised) = Whole(often) + 1
    BY <1>4, DecisionsFinite, SumRaised
  <2>2. /\ raised \in [Decisions -> Nat] /\ raised[d] = often[d] + 1
        /\ \A e \in Decisions :
               often[e] <= raised[e] /\ often[e] \in Nat /\ raised[e] \in Nat
    BY <1>4
  <2> HIDE DEF raised
  <2>3. QED
    BY <2>1, <2>2
<1>14. \A e \in Decisions : metrics'.decisions[e] <= more[e]
    BY <1>5, <1>6, <1>12, <1>13 DEF CountedAs
<1>15. ASSUME NEW v \in Workers, pc'[v] = "tally"
       PROVE  job'[v].count + 1 <= more[job'[v].decision]
  <2>1. CASE v = w
    BY <1>2, <1>3, <1>4, <1>6, <1>12, <1>13, <2>1 DEF CountedAs
  <2>2. CASE v # w
    <3>1. pc[v] = "tally" /\ job'[v] = job[v]
      BY <1>3, <1>15, <2>2
    <3>2. job[v].decision \in Decisions /\ job[v].count \in Nat
      BY <3>1 DEF CountsInv, ReportOK
    <3>3. job[v].count + 1 <= often[job[v].decision]
      BY <1>12, <3>1 DEF CountedAs
    <3>4. QED
      BY <1>13, <3>1, <3>2, <3>3
  <2>3. QED
    BY <2>1, <2>2
<1>16. Whole(more) = metrics'.scored
    BY <1>6, <1>12, <1>13 DEF CountedAs
<1>17. CountedAs(more)'
    BY <1>13, <1>14, <1>15, <1>16 DEF CountedAs
<1>18. QED
    BY <1>1, <1>6, <1>10, <1>11, <1>13, <1>17 DEF CountsInv

(* The write may be older than another thread's; it is never too large.    *)
LEMMA DecisionCounts ==
    ASSUME ServiceInv, CountsInv, NEW w \in Workers, RecordDecision(w)
    PROVE  CountsInv'
<1> DEFINE d == job[w].decision
<1>1. /\ pc[w] = "tally" /\ folded' = folded
      /\ metrics' = [metrics EXCEPT !.decisions[d] = job[w].count + 1]
      /\ \E step, j : Goto(w, step) /\ Locals(w, j) /\ step \in {"idle", "push"}
    BY DEF RecordDecision, At, engineVars, Return
<1>2. PICK step, j : Goto(w, step) /\ Locals(w, j) /\ step \in {"idle", "push"}
    BY <1>1
<1>3. /\ pc' = [v \in Workers |-> IF v = w THEN step ELSE pc[v]]
      /\ job' = [v \in Workers |-> IF v = w THEN j ELSE job[v]]
    BY <1>2 DEF ServiceInv, ThreadsOK, Goto, Locals
<1>4. d \in Decisions /\ job[w].count \in Nat
    BY <1>1 DEF CountsInv, ReportOK
<1>5. metrics \in [scored : Nat, errors : Nat, decisions : [Decisions -> Nat]]
    BY DEF CountsInv
<1>6. /\ metrics' \in [scored : Nat, errors : Nat, decisions : [Decisions -> Nat]]
      /\ metrics'.scored = metrics.scored
      /\ metrics'.decisions = [metrics.decisions EXCEPT ![d] = job[w].count + 1]
    BY <1>1, <1>4, <1>5
<1>7. Recording' = Recording
    BY <1>1, <1>2, <1>3 DEF Recording
<1>8. \A v \in Workers : ReportOK(pc'[v], job'[v])
    BY <1>2, <1>3 DEF CountsInv, ReportOK
<1>9. PICK often \in [Decisions -> Nat] : CountedAs(often)
    BY DEF CountsInv
<1>10. \A e \in Decisions : metrics'.decisions[e] <= often[e]
    BY <1>1, <1>4, <1>5, <1>6, <1>9 DEF CountedAs
<1>11. CountedAs(often)'
    BY <1>2, <1>3, <1>6, <1>9, <1>10 DEF CountedAs
<1>12. QED
    BY <1>1, <1>6, <1>7, <1>8, <1>9, <1>11 DEF CountsInv

(* The others count nothing.                                               *)
LEMMA OtherCounts ==
    ASSUME ServiceInv, CountsInv, NEW w \in Workers,
           \/ \E id \in TxnIds, ts \in Times : ScoreRequest(w, id, ts)
           \/ \E id \in TxnIds, label \in Tables!Labels, analyst \in Analysts :
                 DispositionRequest(w, id, label, analyst)
           \/ ReadFeatures(w) \/ (\E risk \in Risks : Predict(w, risk)) \/ FeaturesFail(w)
           \/ LookAtHold(w) \/ DropHold(w) \/ DropFails(w) \/ Decide(w)
           \/ PushAlert(w) \/ CommitPush(w) \/ DispositionStep(w) \/ DatabaseRaises(w)
    PROVE  CountsInv'
<1> DEFINE Still(step, j) == /\ Goto(w, step) /\ Locals(w, j) /\ pc[w] # "record"
                             /\ step \notin {"record", "tally"}
                             /\ step = "fold" => j.decision \in Decisions
                             /\ UNCHANGED <<folded, metrics>>
<1>1. ThreadsOK
    BY DEF ServiceInv
<1>2. \E step, j : Still(step, j)
  <2>1. ASSUME NEW id \in TxnIds, NEW ts \in Times, ScoreRequest(w, id, ts)
        PROVE  \E j : Still("features", j)
    BY <2>1 DEF ScoreRequest, Accept, At, engineVars
  <2>2. ASSUME NEW id \in TxnIds, NEW label \in Tables!Labels, NEW analyst \in Analysts,
               DispositionRequest(w, id, label, analyst)
        PROVE  \E j : Still("select", j)
    BY <2>2 DEF DispositionRequest, Accept, At, engineVars
  <2>3. CASE ReadFeatures(w)
    BY <2>3 DEF ReadFeatures, At, engineVars
  <2>4. CASE \E risk \in Risks : Predict(w, risk)
    BY <2>4 DEF Predict, At, engineVars
  <2>5. CASE FeaturesFail(w) \/ DropFails(w) \/ CommitPush(w)
    BY <2>5 DEF FeaturesFail, DropFails, CommitPush, Return, At, engineVars
  <2>6. CASE LookAtHold(w)
    BY <2>6 DEF LookAtHold, At, engineVars
  <2>7. CASE DropHold(w) \/ PushAlert(w)
    BY <1>1, <2>7, SameJob DEF DropHold, PushAlert, At, engineVars
  <2>8. CASE Decide(w)
    <3>1. \A risk, held : Decision(risk, held) \in Decisions
      BY DEF Decision, Decisions
    <3>2. QED
      BY <2>8, <3>1 DEF Decide, At
  <2>9. CASE SelectPrior(w) \/ InsertAudit(w)
    BY <2>9 DEF SelectPrior, InsertAudit, At, engineVars
  <2>10. CASE UpdateAlert(w) \/ CommitDisposition(w)
    BY <1>1, <2>10, SameJob DEF UpdateAlert, CommitDisposition, At, engineVars
  <2>11. CASE FetchAlert(w)
    BY <2>11 DEF FetchAlert, Return, At, engineVars
  <2>12. CASE ClearHold(w) \/ MarkFraud(w)
    BY <2>12 DEF ClearHold, MarkFraud, Return, At
  <2>13. CASE DatabaseRaises(w)
    BY <2>13 DEF DatabaseRaises, AtDatabase, Return, engineVars
  <2>14. QED
    BY <2>1, <2>2, <2>3, <2>4, <2>5, <2>6, <2>7, <2>8, <2>9, <2>10, <2>11, <2>12, <2>13
    DEF DispositionStep
<1>3. QED
    BY <1>2, QuietCounts

LEMMA StutterCounts ==
    ASSUME CountsInv, UNCHANGED <<folded, pc, job>>,
           metrics' = metrics \/ metrics' = [metrics EXCEPT !.errors = @ + 1]
    PROVE  CountsInv'
<1>1. metrics \in [scored : Nat, errors : Nat, decisions : [Decisions -> Nat]]
    BY DEF CountsInv
<1>2. /\ metrics' \in [scored : Nat, errors : Nat, decisions : [Decisions -> Nat]]
      /\ metrics'.scored = metrics.scored /\ metrics'.decisions = metrics.decisions
    BY <1>1
<1>3. Recording' = Recording
    BY DEF Recording
<1>4. \A often \in [Decisions -> Nat] : CountedAs(often) => CountedAs(often)'
    BY <1>2 DEF CountedAs
<1>5. QED
    BY <1>2, <1>3, <1>4 DEF CountsInv

LEMMA CountsStep ==
    ASSUME ServiceInv, CountsInv, [Next]_vars, Fresh' => CountsInv'
    PROVE  CountsInv'
<1>1. ASSUME NEW w \in Workers, Request(w)
      PROVE  CountsInv'
  <2>1. CASE ScoreUnready(w)
    BY <2>1, StutterCounts DEF ScoreUnready, engineVars
  <2>2. QED
    BY <1>1, <2>1, OtherCounts DEF Request
<1>2. ASSUME NEW w \in Workers, ScoreStep(w)
      PROVE  CountsInv'
    BY <1>2, OtherCounts, FoldCounts, ScoredCounts, DecisionCounts DEF ScoreStep
<1>3. ASSUME NEW w \in Workers, DispositionStep(w) \/ DatabaseRaises(w)
      PROVE  CountsInv'
    BY <1>3, OtherCounts
<1>4. CASE Restart
  <2>1. Fresh'
    BY <1>4 DEF Restart, Fresh, NoMetrics
  <2>2. QED
    BY <2>1
<1>5. CASE UNCHANGED vars
    BY <1>5, StutterCounts DEF vars, engineVars
<1>6. QED
    BY <1>1, <1>2, <1>3, <1>4, <1>5 DEF Next, Finished

(* The feature history is what the metrics counted plus what is about to   *)
(* be counted, and the unlocked counters per decision never overtake it,   *)
(* whatever the threads do to each other's (score, Metrics.record).        *)
THEOREM CountersNeverOvertake == Spec => []CountersAgree
<1>1. Init => CountsInv
    BY FreshCounts DEF Init, Fresh
<1>2. Spec => []CountsInv
    BY <1>1, CountsStep, FreshCounts, ServiceInvariant, PTL DEF Spec
<1>3. CountsInv => CountersAgree
  <2> SUFFICES ASSUME CountsInv PROVE CountersAgree
    OBVIOUS
  <2>1. PICK often \in [Decisions -> Nat] : CountedAs(often)
    BY DEF CountsInv
  <2>2. Whole(metrics.decisions) <= Whole(often)
    BY <2>1, DecisionsFinite, SumBounded DEF CountsInv, CountedAs
  <2>3. FoldFunction(+, 0, metrics.decisions) <= metrics.scored
    BY <2>1, <2>2, FoldIs DEF CountedAs
  <2>4. {w \in Workers : At(w, "record")} = Recording
    BY DEF At, Recording
  <2>5. FoldFunction(+, 0, folded) = metrics.scored + Cardinality(Recording)
    BY FoldIs DEF CountsInv
  <2>6. QED
    BY <2>3, <2>4, <2>5 DEF CountersAgree
<1>4. QED
    BY <1>2, <1>3, PTL

-----------------------------------------------------------------------------
(* What the hold's entry was when the thread w looked, and what is left of *)
(* it since.  No other thread is there to change it.                       *)
LookedUp(step, j, entry, left) ==
    /\ step \in {"look", "drop", "decide"} => j.risk \in Risks
    /\ step = "drop" => /\ entry # NoHold /\ Expired(entry, j.ts)
                        /\ left = entry /\ j.held = FALSE
    /\ step = "decide" =>
          /\ left = IF entry # NoHold /\ Expired(entry, j.ts) THEN NoHold ELSE entry
          /\ j.held = (left # NoHold)

LookInv(w) ==
    /\ DOMAIN looked = Workers
    /\ LookedUp(pc[w], job[w], looked[w], holds[Card(w)])

(* The statements of the open transaction are those of the call that the   *)
(* thread w runs, and the row it has read is still the one on disk.        *)
Statements(step, j, view, durable) ==
    /\ step \notin {"pushed", "trail", "seal"} => view = durable
    /\ step = "pushed" =>
          /\ view.audit = durable.audit
          /\ \E payload \in Payloads :
                view.alerts = Tables!WithAlert(durable.alerts, j.id, payload)
    /\ step \in {"amend", "trail"} => j.prior = Tables!PriorIn(durable.alerts, j.id)
    /\ step = "trail" => view.audit = durable.audit
    /\ step \in {"trail", "seal"} =>
          view.alerts = Tables!WithDisposition(durable.alerts, j.id, j.label)
    /\ step = "seal" =>
          \E analyst \in Analysts :
             view.audit = Append(durable.audit,
                                 Tables!AuditRow(j.id, j.label, analyst,
                                                 Tables!PriorIn(durable.alerts, j.id)))

OpenInv(w) == Statements(pc[w], job[w], conn, disk)

(* As long as the database has not raised.                                 *)
UntilFault(w) == faults = 0 => OpenInv(w)

-----------------------------------------------------------------------------
(* The history variables follow the service and do not steer it.           *)
LEMMA HistoryInit == Init_H => Init
BY DEF Init_H

LEMMA HistoryStep ==
    ASSUME [Next_H]_<<vars, history>>
    PROVE  [Next]_vars
BY DEF Next_H, Next, Finished

LEMMA HistoryOfService == Spec_H => Spec
<1>1. [Next_H]_<<vars, history>> => [Next]_vars
    BY HistoryStep
<1>2. QED
    BY <1>1, HistoryInit, PTL DEF Spec_H, Spec

LEMMA HistoryInvariant == Spec_H => []ServiceInv
BY HistoryOfService, ServiceInvariant, PTL

LEMMA ThreadMoves ==
    ASSUME ThreadsOK, NEW w \in Workers, NEW step, Goto(w, step)
    PROVE  pc'[w] = step
BY DEF ThreadsOK, Goto

LEMMA LocalsMove ==
    ASSUME ThreadsOK, NEW w \in Workers, NEW j, Locals(w, j)
    PROVE  job'[w] = j
BY DEF ThreadsOK, Locals

-----------------------------------------------------------------------------
(* The steps that write neither table.                                     *)
LEMMA ReadOnly ==
    ASSUME ThreadsOK, NEW w \in Workers,
           \/ Request(w)
           \/ ReadFeatures(w) \/ (\E risk \in Risks : Predict(w, risk)) \/ FeaturesFail(w)
           \/ LookAtHold(w) \/ DropHold(w) \/ DropFails(w) \/ Decide(w)
           \/ Fold(w) \/ RecordScored(w) \/ RecordDecision(w)
           \/ FetchAlert(w) \/ ClearHold(w) \/ MarkFraud(w)
    PROVE  /\ UNCHANGED <<conn, disk>>
           /\ pc[w] \notin {"pushed", "trail", "seal"}
           /\ pc'[w] \notin {"pushed", "amend", "trail", "seal"}
<1>1. ASSUME NEW step, Goto(w, step)
      PROVE  pc'[w] = step
    BY <1>1, ThreadMoves
<1> USE DEF At, Return
<1>2. CASE Request(w)
    BY <1>1, <1>2 DEF Request, ScoreRequest, ScoreUnready, DispositionRequest, Accept
<1>3. CASE ReadFeatures(w) \/ (\E risk \in Risks : Predict(w, risk)) \/ FeaturesFail(w)
    BY <1>1, <1>3 DEF ReadFeatures, Predict, FeaturesFail
<1>4. CASE LookAtHold(w)
    BY <1>1, <1>4 DEF LookAtHold
<1>5. CASE DropHold(w) \/ DropFails(w) \/ Decide(w)
    BY <1>1, <1>5 DEF DropHold, DropFails, Decide
<1>6. CASE Fold(w) \/ RecordScored(w) \/ RecordDecision(w)
    BY <1>1, <1>6 DEF Fold, RecordScored, RecordDecision
<1>7. CASE FetchAlert(w)
    BY <1>1, <1>7 DEF FetchAlert
<1>8. CASE ClearHold(w) \/ MarkFraud(w)
    BY <1>1, <1>8 DEF ClearHold, MarkFraud
<1>9. QED
    BY <1>2, <1>3, <1>4, <1>5, <1>6, <1>7, <1>8

DiskStep == [faults = 0 => Queue!QueueNext]_(Queue!queueVars)

(* A statement, and the commit that ends a call.                           *)
LEMMA PushOpens ==
    ASSUME ServiceInv, NEW w \in Workers, OpenInv(w), PushAlert(w)
    PROVE  OpenInv(w)' /\ disk' = disk
<1> DEFINE payload == [card |-> Card(w), ts |-> job[w].ts]
           table == Tables!WithAlert(conn.alerts, job[w].id, payload)
<1>1. pc[w] = "push" /\ job[w].id \in TxnIds /\ job[w].ts \in Times
    BY DEF PushAlert, At, ServiceInv, ThreadsOK, JobOK, Scoring, Reporting
<1>2. payload \in Payloads
    BY <1>1, CardOfAssumption DEF Card, Payloads
<1>3. conn' = [conn EXCEPT !.alerts = table] /\ disk' = disk
    BY DEF PushAlert
<1>4. conn = disk
    BY <1>1 DEF OpenInv, Statements
<1>5. conn'.alerts = table /\ conn'.audit = conn.audit
    BY <1>3 DEF ServiceInv, TablesOK
<1>6. pc'[w] = "pushed" /\ job'[w] = job[w]
    BY ThreadMoves DEF PushAlert, ServiceInv
<1> HIDE DEF payload
<1>7. table = Tables!WithAlert(disk.alerts, job[w].id, payload)
    BY <1>4
<1> HIDE DEF table
<1>8. Statements("pushed", job[w], conn', disk)
    BY <1>2, <1>4, <1>5, <1>7 DEF Statements
<1>9. QED
    BY <1>3, <1>6, <1>8 DEF OpenInv

LEMMA SelectReads ==
    ASSUME ServiceInv, NEW w \in Workers, OpenInv(w), SelectPrior(w)
    PROVE  OpenInv(w)' /\ disk' = disk
<1>1. pc[w] = "select" /\ UNCHANGED <<conn, disk>>
    BY DEF SelectPrior, At
<1>2. conn = disk
    BY <1>1 DEF OpenInv, Statements
<1>3. pc'[w] = "amend" /\ job'[w].prior = Tables!PriorIn(conn.alerts, job[w].id)
                       /\ job'[w].id = job[w].id
    BY ThreadMoves, LocalsMove DEF SelectPrior, ServiceInv
<1>4. QED
    BY <1>1, <1>2, <1>3 DEF OpenInv, Statements

LEMMA UpdateOpens ==
    ASSUME ServiceInv, NEW w \in Workers, OpenInv(w), UpdateAlert(w)
    PROVE  OpenInv(w)' /\ disk' = disk
<1> DEFINE table == Tables!WithDisposition(conn.alerts, job[w].id, job[w].label)
<1>1. pc[w] = "amend" /\ disk' = disk /\ conn' = [conn EXCEPT !.alerts = table]
    BY DEF UpdateAlert, At
<1>2. conn = disk /\ job[w].prior = Tables!PriorIn(disk.alerts, job[w].id)
    BY <1>1 DEF OpenInv, Statements
<1>3. conn'.alerts = table /\ conn'.audit = conn.audit
    BY <1>1 DEF ServiceInv, TablesOK
<1>4. pc'[w] = "trail" /\ job'[w] = job[w]
    BY ThreadMoves DEF UpdateAlert, ServiceInv
<1>5. table = Tables!WithDisposition(disk.alerts, job[w].id, job[w].label)
    BY <1>2
<1> HIDE DEF table
<1>6. Statements("trail", job[w], conn', disk)
    BY <1>2, <1>3, <1>5 DEF Statements
<1>7. QED
    BY <1>1, <1>4, <1>6 DEF OpenInv

LEMMA AuditOpens ==
    ASSUME ServiceInv, NEW w \in Workers, OpenInv(w), InsertAudit(w)
    PROVE  OpenInv(w)' /\ disk' = disk
<1> DEFINE row(analyst, prior) == Tables!AuditRow(job[w].id, job[w].label, analyst, prior)
<1>1. /\ pc[w] = "trail" /\ disk' = disk
      /\ conn' = [conn EXCEPT !.audit = Append(@, row(job[w].analyst, job[w].prior))]
    BY DEF InsertAudit, At
<1>2. /\ conn.audit = disk.audit
      /\ conn.alerts = Tables!WithDisposition(disk.alerts, job[w].id, job[w].label)
      /\ job[w].prior = Tables!PriorIn(disk.alerts, job[w].id)
    BY <1>1 DEF OpenInv, Statements
<1>3. job[w].analyst \in Analysts
    BY <1>1 DEF ServiceInv, ThreadsOK, JobOK
<1>4. /\ conn'.alerts = conn.alerts
      /\ conn'.audit = Append(conn.audit, row(job[w].analyst, job[w].prior))
    BY <1>1 DEF ServiceInv, TablesOK
<1>5. pc'[w] = "seal" /\ job'[w] = [id |-> job[w].id, label |-> job[w].label]
    BY ThreadMoves, LocalsMove DEF InsertAudit, ServiceInv
<1>6. job'[w].id = job[w].id /\ job'[w].label = job[w].label
    BY <1>5
<1>7. Statements("seal", job'[w], conn', disk)
    BY <1>2, <1>3, <1>4, <1>6 DEF Statements
<1>8. QED
    BY <1>1, <1>5, <1>7 DEF OpenInv

LEMMA CommitCloses ==
    ASSUME ServiceInv, NEW w \in Workers, OpenInv(w), CommitPush(w) \/ CommitDisposition(w)
    PROVE  OpenInv(w)' /\ DiskStep
<1>1. disk' = conn /\ conn' = conn /\ pc'[w] \in {"idle", "fetch"}
    BY ThreadMoves DEF CommitPush, CommitDisposition, Return, ServiceInv
<1>2. OpenInv(w)'
    BY <1>1 DEF OpenInv, Statements
<1>3. CASE CommitPush(w)
  <2>1. pc[w] = "pushed" /\ job[w].id \in TxnIds
    BY <1>3 DEF CommitPush, At, ServiceInv, ThreadsOK, JobOK, Scoring
  <2>2. PICK payload \in Payloads :
            /\ conn.alerts = Tables!WithAlert(disk.alerts, job[w].id, payload)
            /\ conn.audit = disk.audit
    BY <2>1 DEF OpenInv, Statements
  <2>3. Queue!Push(job[w].id, payload)
    BY <1>1, <2>2 DEF Queue!Push, Queue!WithAlert, Tables!WithAlert
  <2>4. QED
    BY <1>2, <2>1, <2>3 DEF DiskStep, Queue!QueueNext
<1>4. CASE CommitDisposition(w)
  <2>1. pc[w] = "seal" /\ job[w].id \in TxnIds /\ job[w].label \in Tables!Labels
    BY <1>4 DEF CommitDisposition, At, ServiceInv, ThreadsOK, JobOK, Disposing
  <2>2. PICK analyst \in Analysts :
            conn.audit = Append(disk.audit,
                                Tables!AuditRow(job[w].id, job[w].label, analyst,
                                                Tables!PriorIn(disk.alerts, job[w].id)))
    BY <2>1 DEF OpenInv, Statements
  <2>3. conn.alerts = Tables!WithDisposition(disk.alerts, job[w].id, job[w].label)
    BY <2>1 DEF OpenInv, Statements
  <2>4. Queue!Disposition(job[w].id, job[w].label, analyst)
    BY <1>1, <2>2, <2>3 DEF Queue!Disposition, Queue!WithDisposition, Tables!WithDisposition,
       Queue!AuditRow, Tables!AuditRow, Queue!PriorIn, Tables!PriorIn
  <2>5. QED
    BY <1>2, <2>1, <2>4 DEF DiskStep, Queue!QueueNext, Queue!Labels, Tables!Labels
<1>5. QED
    BY <1>3, <1>4

LEMMA QueueStep ==
    ASSUME NEW w, Workers = {w}, ServiceInv, OpenInv(w), [Next]_vars,
           ~DatabaseRaises(w)
    PROVE  OpenInv(w)' /\ DiskStep
<1>1. w \in Workers /\ ThreadsOK
    BY DEF ServiceInv
<1>2. disk' = disk => DiskStep
    BY DEF DiskStep, Queue!queueVars
<1>3. CASE UNCHANGED vars
    BY <1>2, <1>3 DEF vars, OpenInv
<1>4. CASE Restart
    BY <1>1, <1>2, <1>4 DEF Restart, OpenInv, Statements
<1>5. CASE Request(w) \/ ScoreStep(w) \/ DispositionStep(w)
  <2>1. CASE PushAlert(w) \/ SelectPrior(w) \/ UpdateAlert(w) \/ InsertAudit(w)
    BY <1>1, <1>2, <2>1, PushOpens, SelectReads, UpdateOpens, AuditOpens
  <2>2. CASE CommitPush(w) \/ CommitDisposition(w)
    BY <1>1, <2>2, CommitCloses
  <2>3. CASE ~(\/ PushAlert(w) \/ SelectPrior(w) \/ UpdateAlert(w) \/ InsertAudit(w)
               \/ CommitPush(w) \/ CommitDisposition(w))
    <3>1. /\ UNCHANGED <<conn, disk>>
          /\ pc[w] \notin {"pushed", "trail", "seal"}
          /\ pc'[w] \notin {"pushed", "amend", "trail", "seal"}
      BY <1>1, <1>5, <2>3, ReadOnly DEF ScoreStep, DispositionStep
    <3>2. QED
      BY <1>2, <3>1 DEF OpenInv, Statements
  <2>4. QED
    BY <2>1, <2>2, <2>3
<1>6. QED
    BY <1>3, <1>4, <1>5 DEF Next, Finished

LEMMA UntilFaultStep ==
    ASSUME NEW w, Workers = {w}, ServiceInv, Counted, UntilFault(w), [Next]_vars
    PROVE  UntilFault(w)' /\ DiskStep
<1>1. w \in Workers
    OBVIOUS
<1>2. CASE DatabaseRaises(w)
    BY <1>2 DEF DatabaseRaises, Counted, UntilFault, DiskStep, Queue!queueVars
<1>3. CASE ~DatabaseRaises(w) /\ faults = 0
    BY <1>3, QueueStep DEF UntilFault
<1>4. CASE ~DatabaseRaises(w) /\ faults # 0
  <2>1. faults' = faults
    BY <1>4, ZenonT(60)
    DEF Next, Request, ScoreStep, DispositionStep, Finished, vars, boundVars, ScoreRequest,
        ScoreUnready, DispositionRequest, Accept, ReadFeatures, Predict, FeaturesFail,
        LookAtHold, DropHold, DropFails, Decide, Fold, RecordScored, RecordDecision,
        PushAlert, CommitPush, SelectPrior, UpdateAlert, InsertAudit, CommitDisposition,
        FetchAlert, ClearHold, MarkFraud, Restart
  <2>2. QED
    BY <1>4, <2>1 DEF UntilFault, DiskStep
<1>5. QED
    BY <1>2, <1>3, <1>4

(* One thread's calls reach the disk whole and one after the other, in the *)
(* order of AlertQueue's steps, wherever the process dies in between: an   *)
(* alert, or a disposition with the audit row that quotes the disposition  *)
(* it replaces.  At most the call in which the database first raises leaves*)
(* statements to a later commit (AlertQueue.push, AlertQueue.disposition). *)
THEOREM DiskHoldsWholeCalls ==
    ASSUME NEW w, Workers = {w}
    PROVE  Spec_H => ImplementsQueue
<1>1. Init_H => UntilFault(w) /\ Queue!QueueInit
    BY DEF Init_H, Init, UntilFault, OpenInv, Statements, EmptyTables, Queue!QueueInit
<1>2. ServiceInv /\ Counted /\ UntilFault(w) /\ [Next]_vars => UntilFault(w)' /\ DiskStep
    BY UntilFaultStep
<1>3. QED
    BY <1>1, <1>2, HistoryOfService, HistoryInvariant, CrashesCounted, PTL
    DEF Spec_H, Spec, ImplementsQueue, DiskStep

-----------------------------------------------------------------------------
(* The mapping to InvestigationHold with one worker: a deletion that the   *)
(* decision has not caught up with is undone.                              *)
Undone(w) ==
    /\ At(w, "decide") /\ looked[w] # NoHold =>
          AbstractHolds = [c \in Cards |-> IF c = Card(w) THEN looked[w] ELSE holds[c]]
    /\ ~(At(w, "decide") /\ looked[w] # NoHold) => AbstractHolds = [c \in Cards |-> holds[c]]

LEMMA UndoneDeletion ==
    ASSUME NEW w, Workers = {w}
    PROVE  Undone(w)
<1>1. CASE At(w, "decide") /\ looked[w] # NoHold
  <2>1. ASSUME NEW c \in Cards, c = Card(w)
        PROVE  (CHOOSE v \in Workers : At(v, "decide") /\ Card(v) = c /\ looked[v] # NoHold) = w
    BY <1>1, <2>1
  <2>2. QED
    BY <1>1, <2>1 DEF AbstractHolds, Undone
<1>2. CASE ~(At(w, "decide") /\ looked[w] # NoHold)
  BY <1>2 DEF AbstractHolds, Undone
<1>3. QED
  BY <1>1, <1>2

HoldsStep == [Hold!NextAnyOrder]_(Hold!vars)
HoldsKept == UNCHANGED <<AbstractHolds, AbstractVerdict, now, alerted>>

LEMMA KeptIsStutter == HoldsKept => HoldsStep
BY DEF HoldsKept, HoldsStep, Hold!vars

(* The steps of a call before it looks at the hold and after its decision, *)
(* and those of a disposition but for the clearing.                        *)
LEMMA Elsewhere ==
    ASSUME ThreadsOK, NEW w \in Workers,
           \/ Request(w)
           \/ ReadFeatures(w) \/ (\E risk \in Risks : Predict(w, risk)) \/ FeaturesFail(w)
           \/ DropFails(w) \/ Fold(w) \/ RecordScored(w) \/ RecordDecision(w)
           \/ PushAlert(w) \/ CommitPush(w) \/ (DispositionStep(w) /\ ~ClearHold(w))
           \/ DatabaseRaises(w)
    PROVE  /\ UNCHANGED holds
           /\ ~At(w, "decide") /\ ~Clearing(w)
           /\ pc'[w] \notin {"drop", "decide"}
           /\ pc'[w] = "look" => job'[w].risk \in Risks \/ (At(w, "look") /\ UNCHANGED job)
<1>1. ASSUME NEW step, Goto(w, step)
      PROVE  pc'[w] = step
    BY <1>1, ThreadMoves
<1>2. ASSUME NEW j, Locals(w, j)
      PROVE  job'[w] = j
    BY <1>2, LocalsMove
<1> USE DEF At, Return, Clearing
<1>3. CASE Request(w)
    BY <1>1, <1>3 DEF Request, ScoreRequest, ScoreUnready, DispositionRequest, Accept,
       engineVars
<1>4. ASSUME NEW risk \in Risks, Predict(w, risk)
      PROVE  /\ UNCHANGED holds
             /\ pc[w] = "reading" /\ pc'[w] = "look" /\ job'[w].risk = risk
    BY <1>1, <1>2, <1>4 DEF Predict, engineVars
<1>5. CASE ReadFeatures(w) \/ FeaturesFail(w) \/ DropFails(w)
    BY <1>1, <1>5 DEF ReadFeatures, FeaturesFail, DropFails, engineVars
<1>6. CASE Fold(w) \/ RecordScored(w) \/ RecordDecision(w)
    BY <1>1, <1>6 DEF Fold, RecordScored, RecordDecision, engineVars
<1>7. CASE PushAlert(w) \/ CommitPush(w)
    BY <1>1, <1>7 DEF PushAlert, CommitPush, engineVars
<1>8. CASE SelectPrior(w) \/ UpdateAlert(w) \/ InsertAudit(w) \/ CommitDisposition(w)
    BY <1>1, <1>8 DEF SelectPrior, UpdateAlert, InsertAudit, CommitDisposition, engineVars
<1>9. CASE FetchAlert(w)
    BY <1>1, <1>9 DEF FetchAlert, engineVars
<1>10. CASE MarkFraud(w)
    BY <1>1, <1>10 DEF MarkFraud
<1>11. CASE DatabaseRaises(w)
    BY <1>1, <1>11 DEF DatabaseRaises, AtDatabase, engineVars
<1>12. QED
    BY <1>3, <1>4, <1>5, <1>6, <1>7, <1>8, <1>9, <1>10, <1>11 DEF DispositionStep

LEMMA ElsewhereKeeps ==
    ASSUME NEW w \in Workers, LookInv(w), Undone(w), Undone(w)', ThreadHistory(w),
           UNCHANGED holds, ~At(w, "decide"), pc'[w] \notin {"drop", "decide"},
           pc'[w] = "look" => job'[w].risk \in Risks \/ (At(w, "look") /\ UNCHANGED job)
    PROVE  LookInv(w)' /\ HoldsKept
<1>1. DOMAIN looked' = Workers
    BY DEF ThreadHistory, LookInv
<1>2. LookInv(w)'
    BY <1>1 DEF LookInv, LookedUp, At
<1>3. AbstractHolds' = AbstractHolds
    BY DEF Undone, At
<1>4. QED
    BY <1>2, <1>3 DEF HoldsKept, AbstractVerdict, ThreadHistory

(* The look itself changes nothing the mapping shows, whatever it finds.   *)
LEMMA LookKeeps ==
    ASSUME NEW w \in Workers, ServiceInv, LookInv(w), Undone(w), Undone(w)',
           LookAtHold(w), ThreadHistory(w)
    PROVE  LookInv(w)' /\ HoldsKept
<1> DEFINE entry == holds[Card(w)]
           stale == entry # NoHold /\ Expired(entry, job[w].ts)
           j == [id |-> job[w].id, ts |-> job[w].ts, risk |-> job[w].risk,
                 held |-> entry # NoHold /\ ~stale]
<1>1. pc[w] = "look" /\ UNCHANGED holds /\ job[w].risk \in Risks /\ job[w].id \in TxnIds
    BY DEF LookAtHold, At, engineVars, LookInv, LookedUp, ServiceInv, ThreadsOK, JobOK, Scoring
<1>2. pc'[w] = (IF stale THEN "drop" ELSE "decide") /\ job'[w] = j
    BY ThreadMoves, LocalsMove DEF LookAtHold, ServiceInv
<1>3. /\ job'[w].id = job[w].id /\ job'[w].ts = job[w].ts /\ job'[w].risk = job[w].risk
      /\ job'[w].held = (entry # NoHold /\ ~stale)
    BY <1>2
<1>4. looked' = [looked EXCEPT ![w] = entry]
    BY <1>1, <1>2 DEF ThreadHistory, Looking, At
<1>5. looked'[w] = entry /\ DOMAIN looked' = Workers
    BY <1>4 DEF LookInv
<1>6. Card(w)' = Card(w) /\ holds'[Card(w)'] = entry
    BY <1>1, <1>3 DEF Card
<1>7. AbstractHolds = [c \in Cards |-> holds[c]]
    BY <1>1 DEF Undone, At
<1> HIDE DEF entry, stale, j
<1>8. LookInv(w)'
  <2>1. CASE stale
    BY <1>1, <1>2, <1>3, <1>5, <1>6, <2>1 DEF LookInv, LookedUp, stale
  <2>2. CASE ~stale
    BY <1>1, <1>2, <1>3, <1>5, <1>6, <2>2 DEF LookInv, LookedUp, stale
  <2>3. QED
    BY <2>1, <2>2
<1>9. AbstractHolds' = [c \in Cards |-> holds[c]]
    BY <1>1, <1>5, <1>6 DEF Undone, entry
<1>10. QED
    BY <1>7, <1>8, <1>9 DEF HoldsKept, AbstractVerdict, ThreadHistory

LEMMA DropKeeps ==
    ASSUME NEW w \in Workers, ServiceInv, LookInv(w), Undone(w), Undone(w)',
           DropHold(w), ThreadHistory(w)
    PROVE  LookInv(w)' /\ HoldsKept
<1>1. pc[w] = "drop" /\ pc'[w] = "decide" /\ job' = job /\ job[w].id \in TxnIds
    BY ThreadMoves DEF DropHold, At, ServiceInv, ThreadsOK, JobOK, Scoring
<1>2. /\ looked[w] # NoHold /\ Expired(looked[w], job[w].ts)
      /\ holds[Card(w)] = looked[w] /\ job[w].held = FALSE /\ job[w].risk \in Risks
    BY <1>1 DEF LookInv, LookedUp
<1>3. looked' = looked
    BY <1>1 DEF ThreadHistory, Looking, At
<1>4. Card(w)' = Card(w) /\ Card(w) \in Cards
    BY <1>1, CardOfAssumption DEF Card
<1>5. holds' = [holds EXCEPT ![Card(w)] = NoHold] /\ DOMAIN holds = Cards
    BY DEF DropHold, ServiceInv, TablesOK
<1>6. LookInv(w)'
    BY <1>1, <1>2, <1>3, <1>4, <1>5 DEF LookInv, LookedUp
<1>7. AbstractHolds = [c \in Cards |-> holds[c]]
    BY <1>1 DEF Undone, At
<1>8. AbstractHolds' = [c \in Cards |-> IF c = Card(w) THEN looked[w] ELSE holds'[c]]
    BY <1>1, <1>2, <1>3, <1>4 DEF Undone, At
<1>9. AbstractHolds' = AbstractHolds
    BY <1>2, <1>5, <1>7, <1>8
<1>10. QED
    BY <1>6, <1>9 DEF HoldsKept, AbstractVerdict, ThreadHistory

(* The decision is the abstract call: it sees the entry the thread found,  *)
(* expired or not, and leaves what the abstract call leaves.               *)
LEMMA DecideIsScore ==
    ASSUME NEW w \in Workers, ServiceInv, LookInv(w), Undone(w), Undone(w)',
           Decide(w), DecideHistory(w)
    PROVE  LookInv(w)' /\ HoldsStep
<1> DEFINE c == Card(w)
           ts == job[w].ts
           risk == job[w].risk
           decision == Decision(risk, job[w].held)
           j == [id |-> job[w].id, ts |-> ts, decision |-> decision]
<1>1. /\ pc[w] = "decide" /\ pc'[w] = "fold" /\ job'[w] = j
      /\ job[w].id \in TxnIds /\ ts \in Times
    BY ThreadMoves, LocalsMove DEF Decide, At, ServiceInv, ThreadsOK, JobOK, Scoring
<1>2. job'[w].decision = decision
    BY <1>1
<1>3. /\ holds[c] = IF looked[w] # NoHold /\ Expired(looked[w], ts) THEN NoHold ELSE looked[w]
      /\ job[w].held = (holds[c] # NoHold)
      /\ risk \in Risks
    BY <1>1 DEF LookInv, LookedUp
<1>4. c \in Cards /\ DOMAIN holds = Cards
    BY <1>1, CardOfAssumption DEF Card, ServiceInv, TablesOK
<1>5. holds' = IF decision # "approve" /\ ModelDriven(risk)
               THEN [holds EXCEPT ![c] = ts] ELSE holds
    BY DEF Decide
<1>6. ModelDriven(risk) => decision # "approve"
    BY DEF Decision
<1>7. LookInv(w)'
    BY <1>1 DEF DecideHistory, LookInv, LookedUp
<1> HIDE DEF c, ts, risk, decision, j
<1>8. AbstractHolds = [k \in Cards |-> IF k = c THEN looked[w] ELSE holds[k]]
  <2>1. CASE looked[w] # NoHold
    BY <1>1, <2>1 DEF Undone, At, c
  <2>2. CASE looked[w] = NoHold
    <3>1. AbstractHolds = [k \in Cards |-> holds[k]] /\ holds[c] = NoHold
      BY <1>1, <1>3, <2>2 DEF Undone, At
    <3>2. QED
      BY <2>2, <3>1
  <2>3. QED
    BY <2>1, <2>2
<1>9. AbstractHolds' = [k \in Cards |-> holds'[k]]
    BY <1>1 DEF Undone, At
<1>10. Hold!SurvivingHold(c, ts) = holds[c]
    BY <1>3, <1>4, <1>8 DEF Hold!SurvivingHold, Hold!Expired, Expired
<1>11. AbstractHolds' = [AbstractHolds EXCEPT ![c] = Hold!HoldAfter(c, ts, risk)]
  <2>1. Hold!HoldAfter(c, ts, risk) = IF ModelDriven(risk) THEN ts ELSE holds[c]
    BY <1>10 DEF Hold!HoldAfter, Hold!ModelDriven, ModelDriven
  <2>2. \A k \in Cards : holds'[k] = IF k = c /\ ModelDriven(risk) THEN ts ELSE holds[k]
    BY <1>4, <1>5, <1>6
  <2>3. QED
    BY <1>8, <1>9, <2>1, <2>2
<1>12. Hold!Decision(risk, Hold!Held(c, ts)) = decision
    BY <1>3, <1>10 DEF Hold!Held, Hold!Decision, Hold!ModelDriven, ModelDriven, Decision, decision
<1>13. verdict' = [card |-> c, ts |-> ts, risk |-> risk, decision |-> decision,
                   before |-> before[w] \cap alerted[c]]
    BY <1>2 DEF DecideHistory, c, ts, risk
<1>14. AbstractVerdict' = [card |-> c, ts |-> ts, risk |-> risk, decision |-> decision]
  <2>1. decision \in Decisions
    BY DEF decision, Decision, Decisions
  <2>2. verdict'.decision = decision /\ NoVerdict.decision = "none"
    BY <1>13 DEF NoVerdict
  <2>3. verdict' # NoVerdict
    BY <2>1, <2>2 DEF Decisions
  <2>4. QED
    BY <1>13, <2>3 DEF AbstractVerdict
<1>15. /\ alerted' = IF ModelDriven(risk) THEN [alerted EXCEPT ![c] = @ \cup {ts}] ELSE alerted
       /\ now' = IF ts > now THEN ts ELSE now
    BY DEF DecideHistory, c, ts, risk
<1>16. Hold!Score(c, ts, risk)
    BY <1>11, <1>12, <1>14, <1>15 DEF Hold!Score, Hold!ModelDriven, ModelDriven
<1>17. c \in Cards /\ ts \in Hold!Times /\ risk \in Hold!Risks
    BY <1>1, <1>3, <1>4 DEF Hold!Times, Hold!Risks, Times, Risks
<1>18. QED
    BY <1>7, <1>16, <1>17 DEF HoldsStep, Hold!NextAnyOrder

LEMMA ClearIsClear ==
    ASSUME NEW w \in Workers, ServiceInv, LookInv(w), Undone(w), Undone(w)',
           ClearHold(w), ClearHistory(w)
    PROVE  LookInv(w)' /\ HoldsStep
<1> DEFINE c == job[w].alert.card
<1>1. pc[w] = "effect" /\ pc'[w] = "idle" /\ c \in Cards
    BY ThreadMoves DEF ClearHold, At, Return, ServiceInv, ThreadsOK, JobOK, Payloads
<1>2. holds' = [holds EXCEPT ![c] = NoHold] /\ DOMAIN holds = Cards
    BY DEF ClearHold, ServiceInv, TablesOK
<1>3. LookInv(w)'
    BY <1>1 DEF ClearHistory, LookInv, LookedUp
<1>4. AbstractHolds = [k \in Cards |-> holds[k]] /\ AbstractHolds' = [k \in Cards |-> holds'[k]]
    BY <1>1 DEF Undone, At
<1>5. AbstractHolds' = [AbstractHolds EXCEPT ![c] = NoHold]
    BY <1>1, <1>2, <1>4
<1>6. AbstractVerdict' = Hold!NoVerdict
    BY DEF ClearHistory, AbstractVerdict, NoVerdict, Hold!NoVerdict
<1>7. Hold!ClearHold(c)
    BY <1>5, <1>6 DEF ClearHistory, Hold!ClearHold
<1>8. QED
    BY <1>1, <1>3, <1>7 DEF HoldsStep, Hold!NextAnyOrder

LEMMA RestartIsRestart ==
    ASSUME NEW w \in Workers, Undone(w)', Restart, RestartHistory
    PROVE  LookInv(w)' /\ HoldsStep
<1>1. /\ pc'[w] = "idle" /\ holds' = [c \in Cards |-> NoHold]
      /\ DOMAIN looked' = Workers
    BY DEF Restart, RestartHistory
<1>2. LookInv(w)'
    BY <1>1 DEF LookInv, LookedUp
<1>3. AbstractHolds' = [c \in Cards |-> NoHold]
    BY <1>1 DEF Undone, At
<1>4. AbstractVerdict' = Hold!NoVerdict
    BY DEF RestartHistory, AbstractVerdict, NoVerdict, Hold!NoVerdict
<1>5. Hold!Restart
    BY <1>3, <1>4 DEF RestartHistory, Hold!Restart
<1>6. QED
    BY <1>2, <1>5 DEF HoldsStep, Hold!NextAnyOrder

LEMMA HoldsAdvance ==
    ASSUME NEW w, Workers = {w}, ServiceInv, LookInv(w), Undone(w), Undone(w)',
           [Next_H]_<<vars, history>>
    PROVE  LookInv(w)' /\ HoldsStep
<1>1. w \in Workers /\ ThreadsOK
    BY DEF ServiceInv
<1>2. CASE UNCHANGED <<vars, history>>
  <2>1. UNCHANGED <<pc, job, holds, looked, verdict, alerted, now>>
    BY <1>2 DEF vars, engineVars, history
  <2>2. LookInv(w)'
    BY <2>1 DEF LookInv, Card
  <2>3. HoldsKept
    BY <2>1 DEF HoldsKept, AbstractHolds, AbstractVerdict, At, Card
  <2>4. QED
    BY <2>2, <2>3, KeptIsStutter
<1>3. CASE Restart /\ RestartHistory
    BY <1>1, <1>3, RestartIsRestart
<1>4. CASE /\ Request(w) \/ ScoreStep(w) \/ DispositionStep(w) \/ DatabaseRaises(w)
           /\ IF Deciding(w) THEN DecideHistory(w)
              ELSE IF Clearing(w) THEN ClearHistory(w) ELSE ThreadHistory(w)
  <2>1. CASE Decide(w)
    <3>1. Deciding(w)
      BY <1>1, <2>1, ThreadMoves DEF Decide, Deciding
    <3>2. QED
      BY <1>1, <1>4, <2>1, <3>1, DecideIsScore
  <2>2. CASE ClearHold(w)
    <3>1. ~Deciding(w) /\ Clearing(w)
      BY <1>1, <2>2, ThreadMoves DEF ClearHold, Return, Deciding, Clearing, At
    <3>2. QED
      BY <1>1, <1>4, <2>2, <3>1, ClearIsClear
  <2>3. CASE LookAtHold(w) \/ DropHold(w)
    <3>1. ~Deciding(w) /\ ~Clearing(w)
      BY <2>3 DEF LookAtHold, DropHold, Deciding, Clearing, At
    <3>2. QED
      BY <1>1, <1>4, <2>3, <3>1, LookKeeps, DropKeeps, KeptIsStutter
  <2>4. CASE ~(Decide(w) \/ ClearHold(w) \/ LookAtHold(w) \/ DropHold(w))
    <3>1. /\ UNCHANGED holds
          /\ ~At(w, "decide") /\ ~Clearing(w)
          /\ pc'[w] \notin {"drop", "decide"}
          /\ pc'[w] = "look" => job'[w].risk \in Risks \/ (At(w, "look") /\ UNCHANGED job)
      BY <1>1, <1>4, <2>4, Elsewhere DEF ScoreStep
    <3>2. ThreadHistory(w)
      BY <1>4, <3>1 DEF Deciding
    <3>3. QED
      BY <1>1, <3>1, <3>2, ElsewhereKeeps, KeptIsStutter
  <2>5. QED
    BY <2>1, <2>2, <2>3, <2>4
<1>5. QED
    BY <1>2, <1>3, <1>4 DEF Next_H, Finished

(* With one worker thread every call on the dictionary of holds is atomic: *)
(* look, deletion of an expired entry and decision are one Score, whatever *)
(* the timestamps and the restarts (ScoringEngine.score, _is_held,         *)
(* clear_hold).                                                            *)
THEOREM CallsAreAtomic ==
    ASSUME NEW w, Workers = {w}
    PROVE  Spec_H => ImplementsHold
<1>1. Undone(w)
    BY UndoneDeletion
<1>2. Init_H /\ Undone(w) => LookInv(w) /\ Hold!Init
  <2>1. ASSUME Init_H, Undone(w)
        PROVE  LookInv(w) /\ Hold!Init
    <3>1. pc[w] = "idle" /\ holds = [c \in Cards |-> NoHold]
      BY <2>1 DEF Init_H, Init
    <3>2. AbstractHolds = [c \in Cards |-> NoHold]
      BY <2>1, <3>1 DEF Undone, At
    <3>3. LookInv(w)
      BY <2>1, <3>1 DEF Init_H, LookInv, LookedUp
    <3>4. AbstractVerdict = Hold!NoVerdict
      BY <2>1 DEF Init_H, AbstractVerdict, NoVerdict, Hold!NoVerdict
    <3>5. QED
      BY <2>1, <3>2, <3>3, <3>4 DEF Init_H, Hold!Init
  <2>2. QED
    BY <2>1
<1>3. /\ ServiceInv /\ LookInv(w) /\ Undone(w) /\ Undone(w)' /\ [Next_H]_<<vars, history>>
      => LookInv(w)' /\ HoldsStep
    BY HoldsAdvance
<1>4. QED
    BY <1>1, <1>2, <1>3, HistoryInvariant, PTL
    DEF Spec_H, ImplementsHold, Hold!AnyOrderSpec, HoldsStep
=============================================================================
