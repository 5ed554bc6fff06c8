------------------------------ MODULE Offline ------------------------------
(***************************************************************************)
(* The offline programs, each a process started by hand: card training     *)
(* (train.py), P2P training (p2p.py), the federation simulation with and   *)
(* without noise (federation.py, federation_dp.py) and the privacy         *)
(* accountant, which runs the noisy rounds itself.  They share the files:  *)
(* the pilot bundle, the experiment log and the model registry.  Any of    *)
(* them may be killed at any moment.                                       *)
(*                                                                         *)
(* Training gives any out-of-fold scores and any version; what the         *)
(* federation rounds report is left out.  One process at a time trains the *)
(* card model (the registry has no lock).                                  *)
(***************************************************************************)
EXTENDS Thresholds, PrivacyAccountant, ExperimentLog, ModelRegistry

CONSTANTS
    Processes,
    MaxRuns,       \* bound on the programs started
    CardCosts, P2PCosts,
    CapPerDay,     \* card_alert_cap and p2p_alert_cap
    FrameDays,     \* numbers of days in a generated frame
    MaxScores      \* bound on the out-of-fold scores

(* Days before the cutoff, uniq[int(len(uniq) * 0.7)].                     *)
TrainDays(days) == (days * 7) \div 10

ASSUME OfflineAssumption ==
    /\ MaxRuns \in Nat /\ MaxScores \in Nat /\ CapPerDay \in Nat \ {0}
    /\ CardCosts \in Costs /\ Graduated(CardCosts)
    /\ P2PCosts \in Costs /\ Graduated(P2PCosts)
    /\ FrameDays \subseteq Nat /\ \A days \in FrameDays : TrainDays(days) > 0

VARIABLES
    programs,    \* what each process runs
    runs,        \* number of programs started so far
    pilot        \* data/model_v0.pkl: a version, or absent or torn

fileVars == <<pilot, log, registryVars>>
vars == <<programs, runs, fileVars>>

Absent == "absent"
Torn == "torn"
Idle == [kind |-> "none", step |-> "none"]

Init ==
    /\ RegistryInit /\ LogInit
    /\ programs = [s \in Processes |-> Idle]
    /\ runs = 0
    /\ pilot = Absent

-----------------------------------------------------------------------------
Runs(s, kind, step) == programs[s].kind = kind /\ programs[s].step = step
Becomes(s, program) == programs' = [programs EXCEPT ![s] = program]
GoesOn(s, step) == programs' = [programs EXCEPT ![s].step = step]

Started(s) ==
    /\ programs[s] = Idle
    /\ runs < MaxRuns
    /\ runs' = runs + 1

(* A set of scores, in ascending order.                                    *)
OutOfFold ==
    {oof \in UNION {[1 .. n -> Scores] : n \in 1 .. MaxScores} :
        \A i \in 1 .. Len(oof) - 1 : oof[i] <= oof[i + 1]}

Fitted(c, oof, days) ==
    LET allowed == CapPerDay * TrainDays(days)
    IN  [costs |-> c, oof |-> oof, allowed |-> allowed,
         t |-> AnalyticThresholds(c, ApplyAlertCap(MiddleFrom(c), oof, allowed))]

(* train.py: loading the frame, the split, training, the thresholds and    *)
(* the metrics, up to the first write.                                     *)
Train(s) ==
    /\ Started(s)
    /\ \A other \in Processes : programs[other].kind # "train"
    /\ \E oof \in OutOfFold, days \in FrameDays, v \in Versions :
           Becomes(s, [kind |-> "train", step |-> "open", version |-> v,
                       fit |-> Fitted(CardCosts, oof, days)])
    /\ UNCHANGED fileVars

OpenPilot(s) ==
    /\ Runs(s, "train", "open")
    /\ pilot' = Torn
    /\ GoesOn(s, "dump")
    /\ UNCHANGED <<runs, log, registryVars>>

(* The bundle is whole before the metrics file and the log are touched.    *)
DumpPilot(s) ==
    /\ Runs(s, "train", "dump")
    /\ pilot' = programs[s].version
    /\ Becomes(s, [kind |-> "train", step |-> "log", version |-> programs[s].version])
    /\ UNCHANGED <<runs, log, registryVars>>

(* Mutant of LogTraining: the version is published before it is logged.    *)
LogTrainingLast(s) ==
    /\ Runs(s, "train", "log")
    /\ Publish(programs[s].version, TRUE)
    /\ GoesOn(s, "publishing")
    /\ UNCHANGED <<runs, pilot, log>>

LogTraining(s) ==
    /\ Runs(s, "train", "log")
    /\ LogRun([kind |-> "train", version |-> programs[s].version])
    /\ GoesOn(s, "publish")
    /\ UNCHANGED <<runs, pilot, registryVars>>

StartPublish(s) ==
    /\ Runs(s, "train", "publish")
    /\ Publish(programs[s].version, TRUE)
    /\ GoesOn(s, "publishing")
    /\ UNCHANGED <<runs, pilot, log>>

(* publish, and then set_current; the program is then done.                *)
PublishStep(s) ==
    /\ Runs(s, "train", "publishing")
    /\ DumpBundle \/ OpenSidecar \/ DumpSidecar \/ OpenPointer \/ NameVersion
    /\ IF writer' = NoCall THEN Becomes(s, Idle) ELSE UNCHANGED programs
    /\ UNCHANGED <<runs, pilot, log>>

-----------------------------------------------------------------------------
(* p2p.py: the thresholds only enter its report.                           *)
TrainP2P(s) ==
    /\ Started(s)
    /\ \E oof \in OutOfFold, days \in FrameDays :
           Becomes(s, [kind |-> "p2p_train", step |-> "log",
                       fit |-> Fitted(P2PCosts, oof, days)])
    /\ UNCHANGED fileVars

(* The institutions' models, the rounds and the report, up to the log.     *)
Simulate(s, kind) ==
    /\ Started(s)
    /\ Becomes(s, [kind |-> kind, step |-> "log"])
    /\ UNCHANGED fileVars

Federate(s) == Simulate(s, "federation")
FederateDP(s) == Simulate(s, "federation_dp")
Account(s) == Simulate(s, "privacy_accountant")

(* The accountant logs its table and its answers.                          *)
Metrics(program) ==
    IF program.kind = "privacy_accountant"
    THEN [table |-> BudgetTable, answers |-> CadenceAnswers] ELSE [table |-> {}, answers |-> {}]

LogReport(s) ==
    /\ programs[s].kind \notin {"none", "train"}
    /\ LogRun([kind |-> programs[s].kind, metrics |-> Metrics(programs[s])])
    /\ Becomes(s, Idle)
    /\ UNCHANGED <<runs, pilot, registryVars>>

(* The process is killed; a pickle or a pointer it was writing stays torn. *)
Killed(s) ==
    /\ programs[s] # Idle
    /\ IF programs[s].step = "publishing" THEN WriterDies ELSE UNCHANGED registryVars
    /\ Becomes(s, Idle)
    /\ UNCHANGED <<runs, pilot, log>>

(* All programs the bounds allow have ended.                               *)
Finished == runs = MaxRuns /\ programs = [s \in Processes |-> Idle] /\ UNCHANGED vars

Next ==
    \/ \E s \in Processes :
          \/ Train(s) \/ OpenPilot(s) \/ DumpPilot(s) \/ LogTraining(s)
          \/ StartPublish(s) \/ PublishStep(s)
          \/ TrainP2P(s) \/ Federate(s) \/ FederateDP(s) \/ Account(s)
          \/ LogReport(s) \/ Killed(s)
    \/ Finished

Spec == Init /\ [][Next]_vars

-----------------------------------------------------------------------------
(* Whatever bundle the registry holds, or its pointer names, the log has   *)
(* the record of the training that made it, whenever a process was killed  *)
(* (train.py, main: log, then publish; experiments.py: "Every              *)
(* training/eval run appends one record").                                 *)
PublishedIsLogged ==
    \A v \in Versions :
        bundle[v] # "absent" \/ sidecar[v] # "absent" \/ current = v =>
            \E run \in LoadRuns : run.kind = "train" /\ run.version = v

Fits == {programs[s].fit : s \in {p \in Processes : "fit" \in DOMAIN programs[p]}}

(* The cap only ever raises the lower threshold, and no further than it    *)
(* must: fewer scores than it allows are strictly above a raised one.      *)
(* Those that tie with it are kept on the analysts' side, and with them    *)
(* the scores that meet it may be more than the cap allows (core.py,       *)
(* apply_alert_cap: np.sort(oof_scores)[-k]).                              *)
OnlyTiesExceedCap ==
    \A fit \in Fits :
        LET mid == fit.t.mid
            met == Meeting(fit.oof, mid)
            above == {i \in met : fit.oof[i] * mid[2] > mid[1] * Scale}
        IN  \/ mid = MiddleFrom(fit.costs) /\ Cardinality(met) <= fit.allowed
            \/ /\ NoLess(mid, MiddleFrom(fit.costs))
               /\ Cardinality(above) < fit.allowed /\ fit.allowed <= Cardinality(met)

(* The raised threshold satisfies the cap: no more out-of-fold scores meet *)
(* it than the cap allows (core.py, apply_alert_cap: "raise t_mid to the   *)
(* cap-satisfying quantile"; test_core.py: "(scores >= t).sum() <= 100").  *)
CapSatisfied == \A fit \in Fits : Cardinality(Meeting(fit.oof, fit.t.mid)) <= fit.allowed

(* Whatever the cap did to them, the thresholds take for every score the   *)
(* cheapest action, or approve what the cap keeps from the analysts        *)
(* (core.py, graduated_thresholds).                                        *)
ActionIsCheapest ==
    \A fit \in Fits : \A p \in Scores : Cheapest(p, fit.t, fit.costs)

(* Every logged answer of the accountant uses its budget up and no more.   *)
BudgetIsSpent ==
    \A run \in {r \in LoadRuns : r.kind = "privacy_accountant"} :
        /\ \A row \in run.metrics.table : SpendsBudget(row)
        /\ \A answer \in run.metrics.answers : AffordsRounds(answer)
=============================================================================
