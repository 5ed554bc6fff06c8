--------------------------- MODULE Offline_proofs ---------------------------
(***************************************************************************)
(* Proofs about the offline programs of Offline, for any number of         *)
(* processes, programs and versions, killed anywhere, about the thresholds *)
(* they fit, for every cost model with a middle action, cap and set of     *)
(* scores, and about the budgets they account for, for every bound that    *)
(* grows.                                                                  *)
(***************************************************************************)
EXTENDS Offline, FunctionTheorems, Induction_proofs

-----------------------------------------------------------------------------
(* The log only grows.  Its records, with those of the reports as they are *)
(* written:                                                                *)
Records ==
    [kind : {"train"}, version : Versions]
        \cup [kind : {"p2p_train", "federation", "federation_dp", "privacy_accountant"},
              metrics : {[table |-> BudgetTable, answers |-> CadenceAnswers],
                         [table |-> {}, answers |-> {}]}]

Logged(v) == \E run \in LoadRuns : run.kind = "train" /\ run.version = v

(* A program that trains, and one that publishes.                          *)
Kinds == {"none", "train", "p2p_train", "federation", "federation_dp", "privacy_accountant"}

ProgramsType ==
    /\ DOMAIN programs = Processes
    /\ programs = [s \in Processes |-> programs[s]]
    /\ \A s \in Processes :
           /\ {"kind", "step"} \subseteq DOMAIN programs[s]
           /\ programs[s].kind \in Kinds
           /\ programs[s].kind = "train" =>
                  "version" \in DOMAIN programs[s] /\ programs[s].version \in Versions

LogType == log \in Seq(Records)

WriterIsLogged == writer.step # "none" => writer.version \in Versions /\ Logged(writer.version)

ProgramsAreLogged ==
    \A s \in Processes :
        programs[s].kind = "train" /\ programs[s].step = "publish" => Logged(programs[s].version)

(* What the registry has or names is logged; so is what is being published *)
(* and what a program is about to publish.                                 *)
FilesAreLogged ==
    /\ PublishedIsLogged
    /\ writer \in Calls \cup {NoCall}
    /\ WriterIsLogged
    /\ ProgramsAreLogged
    /\ bundle \in [Versions -> Files] /\ sidecar \in [Versions -> Files]

LogInv == ProgramsType /\ LogType /\ FilesAreLogged

LEMMA LogGrows ==
    ASSUME LogType, NEW record \in Records, LogRun(record)
    PROVE  LogType' /\ LoadRuns' = LoadRuns \cup {record}
<1>1. log' = Append(log, record) /\ log \in Seq(Records)
    BY DEF LogRun, LogType
<1>2. log' \in Seq(Records) /\ Len(log') = Len(log) + 1 /\ Len(log) \in Nat
    BY <1>1
<1>3. DOMAIN log = 1 .. Len(log) /\ DOMAIN log' = 1 .. Len(log) + 1
    BY <1>1, <1>2
<1>4. \A i \in DOMAIN log' : log'[i] = IF i \in DOMAIN log THEN log[i] ELSE record
    BY <1>1, <1>2, <1>3
<1>5. Len(log) + 1 \in DOMAIN log' /\ Len(log) + 1 \notin DOMAIN log
    BY <1>2, <1>3
<1>6. DOMAIN log \subseteq DOMAIN log'
    BY <1>2, <1>3
<1>7. LoadRuns' = LoadRuns \cup {record}
    BY <1>4, <1>5, <1>6, <1>3, <1>2 DEF LoadRuns
<1>8. QED
    BY <1>2, <1>7 DEF LogType

LEMMA IdleFields == Idle.kind = "none" /\ Idle.step = "none" /\ DOMAIN Idle = {"kind", "step"}
BY DEF Idle

LEMMA BecomesType ==
    ASSUME ProgramsType, NEW s \in Processes, NEW p, Becomes(s, p),
           {"kind", "step"} \subseteq DOMAIN p, p.kind \in Kinds,
           p.kind = "train" => "version" \in DOMAIN p /\ p.version \in Versions
    PROVE  /\ ProgramsType'
           /\ programs'[s] = p
           /\ \A other \in Processes \ {s} : programs'[other] = programs[other]
<1>1. programs' = [other \in Processes |-> IF other = s THEN p ELSE programs[other]]
    BY DEF Becomes, ProgramsType
<1>2. QED
    BY <1>1 DEF ProgramsType

LEMMA GoesOnType ==
    ASSUME ProgramsType, NEW s \in Processes, NEW step, GoesOn(s, step)
    PROVE  /\ ProgramsType'
           /\ programs'[s].kind = programs[s].kind /\ programs'[s].step = step
           /\ programs[s].kind = "train" => programs'[s].version = programs[s].version
           /\ \A other \in Processes \ {s} : programs'[other] = programs[other]
<1> DEFINE p == [programs[s] EXCEPT !.step = step]
<1>1. /\ DOMAIN p = DOMAIN programs[s] /\ p.kind = programs[s].kind /\ p.step = step
      /\ programs[s].kind = "train" => p.version = programs[s].version
    BY DEF ProgramsType
<1>2. programs' = [other \in Processes |-> IF other = s THEN p ELSE programs[other]]
    BY DEF GoesOn, ProgramsType
<1> HIDE DEF p
<1>3. QED
    BY <1>1, <1>2 DEF ProgramsType

-----------------------------------------------------------------------------
LEMMA LogInvInit == Init => LogInv
<1> SUFFICES ASSUME Init PROVE LogInv
    OBVIOUS
<1>1. ProgramsType
    BY IdleFields DEF Init, ProgramsType, Kinds
<1>2. LogType
    BY DEF Init, LogInit, LogType
<1>3. writer.step = "none" /\ writer \in Calls \cup {NoCall}
    BY DEF Init, RegistryInit, NoCall
<1>4. PublishedIsLogged
    BY RegistryAssumption DEF Init, RegistryInit, PublishedIsLogged
<1>5. bundle \in [Versions -> Files] /\ sidecar \in [Versions -> Files]
    BY DEF Init, RegistryInit, Files
<1>6. \A s \in Processes : programs[s].kind = "none"
    BY IdleFields DEF Init
<1>7. QED
    BY <1>1, <1>2, <1>3, <1>4, <1>5, <1>6
    DEF LogInv, FilesAreLogged, WriterIsLogged, ProgramsAreLogged

LEMMA WriterFields ==
    ASSUME FilesAreLogged, writer.step # "none"
    PROVE  writer \in Calls
BY DEF FilesAreLogged, NoCall

LEMMA GoToType ==
    ASSUME writer \in Calls, GoTo("sidecar") \/ GoTo("dump sidecar") \/ GoTo("point") \/ GoTo("name")
    PROVE  writer' \in Calls /\ writer'.version = writer.version
BY DEF GoTo, Calls

(* A step of the publish under way.                                        *)
LEMMA PublishSteps ==
    ASSUME FilesAreLogged, LoadRuns' = LoadRuns,
           DumpBundle \/ OpenSidecar \/ DumpSidecar \/ OpenPointer \/ NameVersion
    PROVE  /\ PublishedIsLogged'
           /\ writer' \in Calls \cup {NoCall}
           /\ WriterIsLogged'
           /\ bundle' \in [Versions -> Files] /\ sidecar' \in [Versions -> Files]
<1> USE DEF FilesAreLogged, WriterIsLogged
<1>1. writer.step # "none" /\ writer.version \in Versions /\ Logged(writer.version)
    BY DEF DumpBundle, OpenSidecar, DumpSidecar, OpenPointer, NameVersion
<1>2. /\ bundle' \in [Versions -> Files] /\ sidecar' \in [Versions -> Files]
      /\ \A v \in Versions \ {writer.version} :
             bundle'[v] = bundle[v] /\ sidecar'[v] = sidecar[v]
      /\ \A v \in Versions \ {writer.version} : current' = v => current = v
    BY <1>1, RegistryAssumption
    DEF DumpBundle, OpenSidecar, DumpSidecar, OpenPointer, NameVersion, Files
<1>3. \A v : Logged(v)' <=> Logged(v)
    BY DEF Logged
<1>4. PublishedIsLogged'
    BY <1>1, <1>2, <1>3 DEF PublishedIsLogged, Logged
<1>5. writer' = NoCall \/ (writer' \in Calls /\ writer'.version = writer.version)
  <2>1. \/ writer' = NoCall
        \/ GoTo("sidecar") \/ GoTo("dump sidecar") \/ GoTo("point") \/ GoTo("name")
    BY DEF DumpBundle, OpenSidecar, DumpSidecar, OpenPointer, NameVersion
  <2>2. QED
    BY <1>1, <2>1, WriterFields, GoToType
<1>6. writer'.step # "none" => writer'.version = writer.version
    BY <1>5 DEF NoCall
<1>7. WriterIsLogged'
    BY <1>1, <1>3, <1>6 DEF WriterIsLogged
<1>8. QED
    BY <1>2, <1>4, <1>5, <1>7

(* No other step writes the registry, but for the first of a publish: the  *)
(* pickle of a logged version is opened.                                   *)
LEMMA PublishStarts ==
    ASSUME FilesAreLogged, LoadRuns' = LoadRuns, NEW v \in Versions, Logged(v), Publish(v, TRUE)
    PROVE  /\ PublishedIsLogged'
           /\ writer' \in Calls \cup {NoCall}
           /\ WriterIsLogged'
           /\ bundle' \in [Versions -> Files] /\ sidecar' \in [Versions -> Files]
<1> USE DEF FilesAreLogged, WriterIsLogged
<1>1. writer' = [step |-> "dump", version |-> v, make_current |-> TRUE]
    BY DEF Publish, Call
<1>2. writer' \in Calls /\ writer'.version = v
    BY <1>1 DEF Calls
<1>3. /\ bundle' \in [Versions -> Files] /\ sidecar' = sidecar /\ current' = current
      /\ \A w \in Versions \ {v} : bundle'[w] = bundle[w]
    BY DEF Publish, Files
<1>4. \A w : Logged(w)' <=> Logged(w)
    BY DEF Logged
<1>5. PublishedIsLogged'
    BY <1>3, <1>4 DEF PublishedIsLogged, Logged
<1>6. QED
    BY <1>2, <1>3, <1>4, <1>5

(* Logged versions stay logged when the log grows and the registry stays.  *)
LEMMA RegistryStays ==
    ASSUME FilesAreLogged, LoadRuns \subseteq LoadRuns', UNCHANGED registryVars
    PROVE  /\ PublishedIsLogged'
           /\ writer' \in Calls \cup {NoCall}
           /\ WriterIsLogged'
           /\ bundle' \in [Versions -> Files] /\ sidecar' \in [Versions -> Files]
           /\ \A v : Logged(v) => Logged(v)'
<1>1. UNCHANGED <<bundle, sidecar, current, writer>>
    BY DEF registryVars
<1>2. \A v : Logged(v) => Logged(v)'
    BY DEF Logged
<1>3. PublishedIsLogged'
    BY <1>1, <1>2 DEF FilesAreLogged, PublishedIsLogged, Logged
<1>4. QED
    BY <1>1, <1>2, <1>3 DEF FilesAreLogged, WriterIsLogged

(* One program moves, to publish only what is logged.                      *)
LEMMA ProgramMoves ==
    ASSUME ProgramsAreLogged, NEW s \in Processes, LoadRuns \subseteq LoadRuns',
           \A other \in Processes \ {s} : programs'[other] = programs[other],
           programs'[s].kind # "train" \/ programs'[s].step # "publish"
    PROVE  ProgramsAreLogged'
BY DEF ProgramsAreLogged, Logged

(* Every step.  The registry follows from the lemmas above, the programs   *)
(* from what the one that moved has become.                                *)
LEMMA LogInvStep ==
    ASSUME LogInv, [Next]_vars
    PROVE  LogInv'
<1> USE DEF LogInv
<1>1. ASSUME ProgramsType', LogType', ProgramsAreLogged',
             UNCHANGED registryVars, LoadRuns \subseteq LoadRuns'
      PROVE  LogInv'
    BY <1>1, RegistryStays DEF FilesAreLogged
<1>2. ASSUME UNCHANGED log
      PROVE  LogType' /\ LoadRuns' = LoadRuns
    BY <1>2 DEF LogType, LoadRuns
<1>3. ProgramsType /\ LogType /\ FilesAreLogged /\ ProgramsAreLogged
    BY DEF FilesAreLogged
<1>4. ASSUME NEW s \in Processes, Train(s)
      PROVE  LogInv'
  <2>1. PICK oof \in OutOfFold, days \in FrameDays, v \in Versions :
            Becomes(s, [kind |-> "train", step |-> "open", version |-> v,
                        fit |-> Fitted(CardCosts, oof, days)])
    BY <1>4 DEF Train
  <2> DEFINE p == [kind |-> "train", step |-> "open", version |-> v,
                   fit |-> Fitted(CardCosts, oof, days)]
  <2>2. /\ {"kind", "step", "version"} \subseteq DOMAIN p
        /\ p.kind = "train" /\ p.step = "open" /\ p.version = v /\ Becomes(s, p)
    BY <2>1
  <2> HIDE DEF p
  <2>3. /\ ProgramsType' /\ programs'[s] = p
        /\ \A other \in Processes \ {s} : programs'[other] = programs[other]
    BY <1>3, <2>2, BecomesType DEF Kinds
  <2>4. UNCHANGED log /\ UNCHANGED registryVars
    BY <1>4 DEF Train, fileVars
  <2>5. ProgramsAreLogged'
    BY <1>2, <1>3, <2>2, <2>3, <2>4, ProgramMoves
  <2>6. QED
    BY <1>1, <1>2, <2>3, <2>4, <2>5
<1>5. ASSUME NEW s \in Processes, OpenPilot(s)
      PROVE  LogInv'
  <2>1. /\ ProgramsType' /\ programs'[s].step = "dump"
        /\ \A other \in Processes \ {s} : programs'[other] = programs[other]
    BY <1>3, <1>5, GoesOnType DEF OpenPilot
  <2>2. UNCHANGED log /\ UNCHANGED registryVars
    BY <1>5 DEF OpenPilot
  <2>3. ProgramsAreLogged'
    BY <1>2, <1>3, <2>1, <2>2, ProgramMoves
  <2>4. QED
    BY <1>1, <1>2, <2>1, <2>2, <2>3
<1>6. ASSUME NEW s \in Processes, DumpPilot(s)
      PROVE  LogInv'
  <2> DEFINE p == [kind |-> "train", step |-> "log", version |-> programs[s].version]
  <2>1. /\ {"kind", "step", "version"} \subseteq DOMAIN p
        /\ p.kind = "train" /\ p.step = "log" /\ p.version \in Versions /\ Becomes(s, p)
    BY <1>3, <1>6 DEF DumpPilot, Runs, ProgramsType
  <2> HIDE DEF p
  <2>2. /\ ProgramsType' /\ programs'[s] = p
        /\ \A other \in Processes \ {s} : programs'[other] = programs[other]
    BY <1>3, <2>1, BecomesType DEF Kinds
  <2>3. UNCHANGED log /\ UNCHANGED registryVars
    BY <1>6 DEF DumpPilot
  <2>4. ProgramsAreLogged'
    BY <1>2, <1>3, <2>1, <2>2, <2>3, ProgramMoves
  <2>5. QED
    BY <1>1, <1>2, <2>2, <2>3, <2>4
<1>7. ASSUME NEW s \in Processes, LogTraining(s)
      PROVE  LogInv'
  <2> DEFINE run == [kind |-> "train", version |-> programs[s].version]
  <2>1. programs[s].kind = "train" /\ programs[s].version \in Versions
    BY <1>3, <1>7 DEF LogTraining, Runs, ProgramsType
  <2>2. run \in Records /\ run.kind = "train" /\ run.version = programs[s].version /\ LogRun(run)
    BY <1>7, <2>1 DEF LogTraining, Records
  <2> HIDE DEF run
  <2>3. LogType' /\ LoadRuns' = LoadRuns \cup {run}
    BY <1>3, <2>2, LogGrows
  <2>4. /\ ProgramsType' /\ programs'[s].version = programs[s].version
        /\ \A other \in Processes \ {s} : programs'[other] = programs[other]
    BY <1>3, <1>7, <2>1, GoesOnType DEF LogTraining
  <2>5. ProgramsAreLogged'
    BY <1>3, <2>2, <2>3, <2>4 DEF ProgramsAreLogged, Logged
  <2>6. QED
    BY <1>1, <1>7, <2>3, <2>4, <2>5 DEF LogTraining
<1>8. ASSUME NEW s \in Processes, StartPublish(s)
      PROVE  LogInv'
  <2>1. /\ programs[s].kind = "train" /\ programs[s].version \in Versions
        /\ Logged(programs[s].version) /\ Publish(programs[s].version, TRUE)
    BY <1>3, <1>8 DEF StartPublish, Runs, ProgramsType, ProgramsAreLogged
  <2>2. LogType' /\ LoadRuns' = LoadRuns
    BY <1>2, <1>8 DEF StartPublish
  <2>3. /\ ProgramsType' /\ programs'[s].step = "publishing"
        /\ \A other \in Processes \ {s} : programs'[other] = programs[other]
    BY <1>3, <1>8, GoesOnType DEF StartPublish
  <2>4. ProgramsAreLogged'
    BY <1>3, <2>2, <2>3, ProgramMoves
  <2>5. QED
    BY <1>3, <2>1, <2>2, <2>3, <2>4, PublishStarts DEF FilesAreLogged
<1>9. ASSUME NEW s \in Processes, PublishStep(s)
      PROVE  LogInv'
  <2>1. LogType' /\ LoadRuns' = LoadRuns
    BY <1>2, <1>9 DEF PublishStep
  <2>2. ProgramsType' /\ ProgramsAreLogged'
    <3>1. CASE Becomes(s, Idle)
      <4>1. /\ ProgramsType' /\ programs'[s] = Idle
            /\ \A other \in Processes \ {s} : programs'[other] = programs[other]
        BY <1>3, <3>1, IdleFields, BecomesType DEF Kinds
      <4>2. QED
        BY <1>3, <2>1, <4>1, IdleFields, ProgramMoves
    <3>2. CASE UNCHANGED programs
      BY <1>3, <2>1, <3>2 DEF ProgramsType, ProgramsAreLogged, Logged
    <3>3. QED
      BY <1>9, <3>1, <3>2 DEF PublishStep
  <2>3. DumpBundle \/ OpenSidecar \/ DumpSidecar \/ OpenPointer \/ NameVersion
    BY <1>9 DEF PublishStep
  <2>4. QED
    BY <1>3, <2>1, <2>2, <2>3, PublishSteps DEF FilesAreLogged
<1>10. ASSUME NEW s \in Processes, TrainP2P(s)
       PROVE  LogInv'
  <2>1. PICK oof \in OutOfFold, days \in FrameDays :
            Becomes(s, [kind |-> "p2p_train", step |-> "log",
                        fit |-> Fitted(P2PCosts, oof, days)])
    BY <1>10 DEF TrainP2P
  <2> DEFINE p == [kind |-> "p2p_train", step |-> "log", fit |-> Fitted(P2PCosts, oof, days)]
  <2>2. /\ {"kind", "step"} \subseteq DOMAIN p
        /\ p.kind = "p2p_train" /\ p.step = "log" /\ Becomes(s, p)
    BY <2>1
  <2> HIDE DEF p
  <2>3. /\ ProgramsType' /\ programs'[s] = p
        /\ \A other \in Processes \ {s} : programs'[other] = programs[other]
    BY <1>3, <2>2, BecomesType DEF Kinds
  <2>4. UNCHANGED log /\ UNCHANGED registryVars
    BY <1>10 DEF TrainP2P, fileVars
  <2>5. ProgramsAreLogged'
    BY <1>2, <1>3, <2>2, <2>3, <2>4, ProgramMoves
  <2>6. QED
    BY <1>1, <1>2, <2>3, <2>4, <2>5
<1>11. ASSUME NEW s \in Processes,
              NEW kind \in {"federation", "federation_dp", "privacy_accountant"},
              Simulate(s, kind)
       PROVE  LogInv'
  <2> DEFINE p == [kind |-> kind, step |-> "log"]
  <2>1. {"kind", "step"} \subseteq DOMAIN p /\ p.kind = kind /\ Becomes(s, p)
    BY <1>11 DEF Simulate
  <2> HIDE DEF p
  <2>2. /\ ProgramsType' /\ programs'[s] = p
        /\ \A other \in Processes \ {s} : programs'[other] = programs[other]
    BY <1>3, <2>1, BecomesType DEF Kinds
  <2>3. UNCHANGED log /\ UNCHANGED registryVars
    BY <1>11 DEF Simulate, fileVars
  <2>4. ProgramsAreLogged'
    BY <1>2, <1>3, <2>1, <2>2, <2>3, ProgramMoves
  <2>5. QED
    BY <1>1, <1>2, <2>2, <2>3, <2>4
<1>12. ASSUME NEW s \in Processes, LogReport(s)
       PROVE  LogInv'
  <2> DEFINE run == [kind |-> programs[s].kind, metrics |-> Metrics(programs[s])]
  <2>1. programs[s].kind \in {"p2p_train", "federation", "federation_dp", "privacy_accountant"}
    BY <1>3, <1>12 DEF LogReport, ProgramsType, Kinds
  <2>2. run \in Records /\ LogRun(run)
    BY <1>12, <2>1 DEF LogReport, Metrics, Records
  <2> HIDE DEF run
  <2>3. LogType' /\ LoadRuns' = LoadRuns \cup {run}
    BY <1>3, <2>2, LogGrows
  <2>4. /\ ProgramsType' /\ programs'[s] = Idle
        /\ \A other \in Processes \ {s} : programs'[other] = programs[other]
    BY <1>3, <1>12, IdleFields, BecomesType DEF LogReport, Kinds
  <2>5. ProgramsAreLogged'
    BY <1>3, <2>3, <2>4, IdleFields, ProgramMoves
  <2>6. QED
    BY <1>1, <1>12, <2>3, <2>4, <2>5 DEF LogReport
<1>13. ASSUME NEW s \in Processes, Killed(s)
       PROVE  LogInv'
  <2>1. /\ ProgramsType' /\ programs'[s] = Idle
        /\ \A other \in Processes \ {s} : programs'[other] = programs[other]
    BY <1>3, <1>13, IdleFields, BecomesType DEF Killed, Kinds
  <2>2. LogType' /\ LoadRuns' = LoadRuns
    BY <1>2, <1>13 DEF Killed
  <2>3. ProgramsAreLogged'
    BY <1>3, <2>1, <2>2, IdleFields, ProgramMoves
  <2>4. CASE WriterDies
    BY <1>3, <2>1, <2>2, <2>3, <2>4
    DEF WriterDies, NoCall, FilesAreLogged, WriterIsLogged, PublishedIsLogged
  <2>5. CASE UNCHANGED registryVars
    BY <1>1, <2>1, <2>2, <2>3, <2>5
  <2>6. QED
    BY <1>13, <2>4, <2>5 DEF Killed
<1>14. CASE UNCHANGED vars
  <2>1. UNCHANGED programs /\ UNCHANGED log /\ UNCHANGED registryVars
    BY <1>14 DEF vars, fileVars
  <2>2. ProgramsType' /\ ProgramsAreLogged'
    BY <1>2, <1>3, <2>1 DEF ProgramsType, ProgramsAreLogged, Logged
  <2>3. QED
    BY <1>1, <1>2, <2>1, <2>2
<1>15. QED
    BY <1>4, <1>5, <1>6, <1>7, <1>8, <1>9, <1>10, <1>11, <1>12, <1>13, <1>14
    DEF Next, Federate, FederateDP, Account, Finished

(* Whatever the registry holds or names was logged first, for any number   *)
(* of programs, processes and versions, killed at any moment (train.py,    *)
(* main: log, then publish).                                               *)
THEOREM LogBeforePublish == Spec => []PublishedIsLogged
<1>1. LogInv => PublishedIsLogged
    BY DEF LogInv, FilesAreLogged
<1>2. QED
    BY <1>1, LogInvInit, LogInvStep, PTL DEF Spec

-----------------------------------------------------------------------------
(* The thresholds minimise the expected cost of a decision.  Each is where *)
(* two costs cross (MiddleCrossing, StrongCrossing); the order of the      *)
(* crossings (StrongAfterMiddle), and of any thresholds the code takes the *)
(* larger of, carries over to the scores that meet them (MeetsLess).       *)
Fractions == Int \X (Nat \ {0})

(* Positive factors can be cancelled.                                      *)
LEMMA Cancel ==
    ASSUME NEW x \in Int, NEW y \in Int, NEW m \in Int, m > 0, x * m <= y * m
    PROVE  x <= y
<1>1. SUFFICES ASSUME y + 1 <= x PROVE FALSE
    OBVIOUS
<1>2. (y + 1) * m <= x * m
    BY <1>1, SMT
<1>3. (y + 1) * m = y * m + m
    BY SMT
<1>4. QED
    BY <1>2, <1>3, SMT

LEMMA Scale_in == Scale \in Nat /\ Scale > 0
BY ScaleAssumption

(* What meets a threshold meets every one that is no larger.               *)
LEMMA MeetsLess ==
    ASSUME NEW s \in Fractions, NEW t \in Fractions, NEW p \in Scores,
           NoLess(s, t), Meets(p, s)
    PROVE  Meets(p, t)
<1> DEFINE a == s[1]  b == s[2]  e == t[1]  f == t[2]
<1>1. a \in Int /\ b \in Int /\ b > 0 /\ e \in Int /\ f \in Int /\ f > 0
    BY DEF Fractions
<1>2. p \in Int
    BY Scale_in DEF Scores
<1>3. a * f >= e * b /\ p * b >= a * Scale
    BY DEF NoLess, Meets
<1> HIDE DEF a, b, e, f
<1>4. (a * Scale) * f <= (p * b) * f
    BY <1>1, <1>2, <1>3, Scale_in, SMT
<1>5. (e * b) * Scale <= (a * f) * Scale
    BY <1>1, <1>3, Scale_in, SMT
<1>6. (e * Scale) * b <= (p * f) * b
    BY <1>1, <1>2, <1>4, <1>5, Scale_in, SMT
<1>7. e * Scale <= p * f
  <2>1. e * Scale \in Int /\ p * f \in Int
    BY <1>1, <1>2, Scale_in, SMT
  <2>2. QED
    BY <1>1, <1>6, <2>1, Cancel
<1>8. QED
    BY <1>7, <1>1, <1>2, Scale_in DEF Meets, e, f

-----------------------------------------------------------------------------
LEMMA CostFacts ==
    ASSUME NEW c \in Costs, Graduated(c)
    PROVE  /\ c.fn \in Nat /\ c.fraud_mid \in Nat /\ c.fp_hi \in Nat /\ c.fp_mid \in Nat
           /\ c.fp_mid > 0 /\ c.fp_hi > c.fp_mid /\ c.fn > c.fraud_mid
BY DEF Costs, Graduated

LEMMA ThresholdTypes ==
    ASSUME NEW c \in Costs, Graduated(c)
    PROVE  MiddleFrom(c) \in Fractions /\ StrongFrom(c) \in Fractions
BY CostFacts, SMT DEF MiddleFrom, StrongFrom, Fractions

(* From MiddleFrom on, and only then, the middle action costs no more than *)
(* approving.                                                              *)
LEMMA MiddleCrossing ==
    ASSUME NEW c \in Costs, Graduated(c), NEW p \in Scores
    PROVE  Meets(p, MiddleFrom(c)) <=>
               ExpectedCost("middle", p, c) <= ExpectedCost("approve", p, c)
<1> DEFINE A == c.fp_mid  F == c.fn  D == c.fraud_mid  S == Scale
<1>1. A \in Int /\ F \in Int /\ D \in Int /\ S \in Int /\ p \in Int
    BY CostFacts, Scale_in DEF Scores
<1>2. ExpectedCost("middle", p, c) = D * p + A * (S - p)
    BY DEF ExpectedCost
<1>3. ExpectedCost("approve", p, c) = F * p
    BY DEF ExpectedCost
<1>4. Meets(p, MiddleFrom(c)) <=> p * (F - D + A) >= A * S
    BY DEF Meets, MiddleFrom
<1> HIDE DEF A, F, D, S
<1>5. p * (F - D + A) = F * p - D * p + A * p /\ A * (S - p) = A * S - A * p
    BY <1>1, SMT
<1>6. A * S \in Int /\ A * p \in Int /\ F * p \in Int /\ D * p \in Int
    BY <1>1, SMT
<1>7. QED
    BY <1>2, <1>3, <1>4, <1>5, <1>6, SMT

(* From StrongFrom on, and only then, the strong action costs no more than *)
(* the middle one.                                                         *)
LEMMA StrongCrossing ==
    ASSUME NEW c \in Costs, Graduated(c), NEW p \in Scores
    PROVE  Meets(p, StrongFrom(c)) <=>
               ExpectedCost("strong", p, c) <= ExpectedCost("middle", p, c)
<1> DEFINE A == c.fp_mid  H == c.fp_hi  D == c.fraud_mid  S == Scale
<1>1. A \in Int /\ H \in Int /\ D \in Int /\ S \in Int /\ p \in Int
    BY CostFacts, Scale_in DEF Scores
<1>2. ExpectedCost("middle", p, c) = D * p + A * (S - p)
    BY DEF ExpectedCost
<1>3. ExpectedCost("strong", p, c) = H * (S - p)
    BY DEF ExpectedCost
<1>4. Meets(p, StrongFrom(c)) <=> p * (H - A + D) >= (H - A) * S
    BY DEF Meets, StrongFrom
<1> HIDE DEF A, H, D, S
<1>5. /\ p * (H - A + D) = H * p - A * p + D * p
      /\ (H - A) * S = H * S - A * S
      /\ A * (S - p) = A * S - A * p /\ H * (S - p) = H * S - H * p
    BY <1>1, SMT
<1>6. /\ A * S \in Int /\ A * p \in Int /\ H * p \in Int /\ D * p \in Int
      /\ H * S \in Int
    BY <1>1, SMT
<1>7. QED
    BY <1>2, <1>3, <1>4, <1>5, <1>6, SMT

LEMMA StrongAfterMiddle ==
    ASSUME NEW c \in Costs, Graduated(c)
    PROVE  NoLess(StrongFrom(c), MiddleFrom(c))
<1> DEFINE A == c.fp_mid  B == c.fn - c.fraud_mid  C == c.fp_hi - c.fp_mid
           D == c.fraud_mid
<1>1. A \in Int /\ B \in Int /\ C \in Int /\ D \in Int
    BY CostFacts, SMT
<1>2. A * D <= C * B
    BY DEF Graduated
<1>3. NoLess(StrongFrom(c), MiddleFrom(c)) <=> C * (B + A) >= A * (C + D)
    BY DEF NoLess, StrongFrom, MiddleFrom
<1> HIDE DEF A, B, C, D
<1>4. C * (B + A) = C * B + A * C /\ A * (C + D) = A * C + A * D
    BY <1>1, SMT
<1>5. C * B \in Int /\ A * C \in Int /\ A * D \in Int
    BY <1>1, SMT
<1>6. QED
    BY <1>2, <1>3, <1>4, <1>5, SMT

LEMMA CostTypes ==
    ASSUME NEW c \in Costs, Graduated(c), NEW p \in Scores
    PROVE  /\ ExpectedCost("approve", p, c) \in Int
           /\ ExpectedCost("middle", p, c) \in Int
           /\ ExpectedCost("strong", p, c) \in Int
<1>1. p \in Int /\ Scale \in Int
    BY Scale_in DEF Scores
<1>2. QED
    BY <1>1, CostFacts, SMT DEF ExpectedCost

-----------------------------------------------------------------------------
(* For every cost model with a middle action and every lower threshold no  *)
(* smaller than the analytic one, the action on any score costs no more    *)
(* than either other action, or it is an approval of what the raised       *)
(* threshold keeps from the analysts (core.py, graduated_thresholds).      *)
THEOREM CheapestAction ==
    ASSUME NEW c \in Costs, Graduated(c), NEW mid \in Fractions,
           NoLess(mid, MiddleFrom(c)), NEW p \in Scores
    PROVE  Cheapest(p, AnalyticThresholds(c, mid), c)
<1> DEFINE t == AnalyticThresholds(c, mid)
           approve == ExpectedCost("approve", p, c)
           middle == ExpectedCost("middle", p, c)
           strong == ExpectedCost("strong", p, c)
<1>1. MiddleFrom(c) \in Fractions /\ StrongFrom(c) \in Fractions
    BY ThresholdTypes
<1>2. Meets(p, MiddleFrom(c)) <=> middle <= approve
    BY MiddleCrossing
<1>3. Meets(p, StrongFrom(c)) <=> strong <= middle
    BY StrongCrossing
<1>4. Meets(p, mid) => Meets(p, MiddleFrom(c))
    BY <1>1, MeetsLess
<1>5. Meets(p, StrongFrom(c)) => Meets(p, MiddleFrom(c))
    BY <1>1, MeetsLess, StrongAfterMiddle
<1>6. t.mid = mid
    BY DEF AnalyticThresholds
<1>7. t.strong = IF NoLess(StrongFrom(c), mid) THEN StrongFrom(c) ELSE mid
    BY StrongAfterMiddle DEF AnalyticThresholds, GraduatedThresholds, Larger
<1>8. ~NoLess(StrongFrom(c), mid) => (Meets(p, mid) => Meets(p, StrongFrom(c)))
  <2>1. StrongFrom(c)[1] * mid[2] \in Int /\ mid[1] * StrongFrom(c)[2] \in Int
    BY <1>1, SMT DEF Fractions
  <2>2. ~NoLess(StrongFrom(c), mid) => NoLess(mid, StrongFrom(c))
    BY <2>1, SMT DEF NoLess
  <2>3. QED
    BY <1>1, <2>2, MeetsLess
<1>9. approve \in Int /\ middle \in Int /\ strong \in Int
    BY CostTypes
<1> HIDE DEF t, approve, middle, strong
<1>10. CASE Meets(p, t.strong)
  <2>1. Meets(p, StrongFrom(c))
    BY <1>7, <1>8, <1>10
  <2>2. strong <= middle /\ strong <= approve
    BY <1>2, <1>3, <1>5, <1>9, <2>1
  <2>3. Action(p, t) = "strong"
    BY <1>10 DEF Action
  <2>4. QED
    BY <1>9, <2>2, <2>3 DEF Cheapest, t, approve, middle, strong
<1>11. CASE ~Meets(p, t.strong) /\ Meets(p, mid)
  <2>1. ~Meets(p, StrongFrom(c))
    BY <1>7, <1>11
  <2>2. middle <= approve /\ middle <= strong
    BY <1>2, <1>3, <1>4, <1>9, <1>11, <2>1
  <2>3. Action(p, t) = "middle"
    BY <1>6, <1>11 DEF Action
  <2>4. QED
    BY <1>9, <2>2, <2>3 DEF Cheapest, t, approve, middle, strong
<1>12. CASE ~Meets(p, t.strong) /\ ~Meets(p, mid)
  <2>1. Action(p, t) = "approve"
    BY <1>6, <1>12 DEF Action
  <2>2. CASE Meets(p, MiddleFrom(c))
    BY <2>1, <2>2 DEF Cheapest, t
  <2>3. CASE ~Meets(p, MiddleFrom(c))
    <3>1. approve <= middle /\ approve <= strong
      BY <1>2, <1>3, <1>5, <1>9, <2>3
    <3>2. QED
      BY <1>9, <2>1, <3>1 DEF Cheapest, t, approve, middle, strong
  <2>4. QED
    BY <2>2, <2>3
<1>13. QED
    BY <1>10, <1>11, <1>12 DEF t

-----------------------------------------------------------------------------
(* The alert cap.  A least number stands in for induction: here on the     *)
(* distance of two places of a sequence.                                   *)
Ascending(s) == \A i, j \in 1 .. Len(s) : i < j => s[i] <= s[j]

LEMMA AdjacentIsAscending ==
    ASSUME NEW s \in Seq(Int), \A i \in 1 .. Len(s) - 1 : s[i] <= s[i + 1]
    PROVE  Ascending(s)
<1> SUFFICES ASSUME NEW i \in 1 .. Len(s), NEW j \in 1 .. Len(s), i < j, ~(s[i] <= s[j])
             PROVE  FALSE
    BY DEF Ascending
<1> DEFINE bad == {k \in Nat : k \in 1 .. Len(s) /\ i < k /\ ~(s[i] <= s[k])}
<1>1. bad \in SUBSET Nat /\ j \in bad
    OBVIOUS
<1>2. PICK k \in bad : \A l \in bad : k <= l
    BY <1>1, LeastExists
<1>3. /\ k - 1 \in 1 .. Len(s) - 1 /\ i <= k - 1 /\ k - 1 \notin bad
      /\ k \in 1 .. Len(s) /\ ~(s[i] <= s[k])
    BY <1>2
<1>4. s[i] <= s[k - 1]
    BY <1>3
<1>5. s[k - 1] <= s[k]
  <2>1. s[k - 1] <= s[(k - 1) + 1]
    BY <1>3
  <2>2. (k - 1) + 1 = k
    BY <1>3
  <2>3. QED
    BY <2>1, <2>2
<1>6. s[i] \in Int /\ s[k - 1] \in Int /\ s[k] \in Int
    BY <1>3
<1>7. QED
    BY <1>3, <1>4, <1>5, <1>6

(* Sorting rearranges the places of a sequence so that it ascends.         *)
LEMMA SortedIs ==
    ASSUME NEW s \in Seq(Int), Ascending(s)
    PROVE  \E p \in Bijection(1 .. Len(s), 1 .. Len(s)) :
              /\ Sorted(s) = [i \in 1 .. Len(s) |-> s[p[i]]]
              /\ \A i, j \in 1 .. Len(s) : i < j => s[p[i]] <= s[p[j]]
<1> DEFINE places == 1 .. Len(s)
           Orders(p) == \A i, j \in places : i < j => s[p[i]] <= s[p[j]]
           same == [i \in places |-> i]
<1>1. same \in Bijection(places, places)
    BY Fun_IsBij DEF Bijection, Injection, Surjection, IsInjective
<1>2. Orders(same)
    BY DEF Ascending
<1>3. \E p \in Bijection(places, places) : Orders(p)
    BY <1>1, <1>2
<1> DEFINE order == CHOOSE p \in Bijection(places, places) : Orders(p)
<1>4. order \in Bijection(places, places) /\ Orders(order)
    BY <1>3
<1>5. Sorted(s) = [i \in places |-> s[order[i]]]
    BY DEF Sorted
<1> HIDE DEF order
<1>6. QED
    BY <1>4, <1>5

(* At least k places hold the k-th largest score or more, fewer than k     *)
(* hold more.                                                              *)
LEMMA KthLargestCounts ==
    ASSUME NEW s \in Seq(Int), Ascending(s), NEW k \in 1 .. Len(s)
    PROVE  LET x == KthLargest(s, k)
           IN  /\ \E i \in 1 .. Len(s) : x = s[i]
               /\ IsFiniteSet({i \in 1 .. Len(s) : s[i] >= x})
               /\ Cardinality({i \in 1 .. Len(s) : s[i] >= x}) >= k
               /\ IsFiniteSet({i \in 1 .. Len(s) : s[i] > x})
               /\ Cardinality({i \in 1 .. Len(s) : s[i] > x}) < k
<1> DEFINE n == Len(s)
           places == 1 .. n
           place == n + 1 - k
           x == KthLargest(s, k)
           met == {i \in places : s[i] >= x}
           above == {i \in places : s[i] > x}
<1>1. PICK p \in Bijection(places, places) :
          /\ Sorted(s) = [i \in places |-> s[p[i]]]
          /\ \A i, j \in places : i < j => s[p[i]] <= s[p[j]]
    BY SortedIs
<1>2. n \in Nat /\ k \in Nat /\ k # 0 /\ place \in places
    OBVIOUS
<1>3. x = s[p[place]]
    BY <1>1, <1>2 DEF KthLargest
<1>4. /\ p \in [places -> places]
      /\ \A i, j \in places : p[i] = p[j] => i = j
      /\ \A i \in places : \E j \in places : p[j] = i
    BY <1>1 DEF Bijection, Injection, Surjection, IsInjective
<1>5. \A i \in places : s[i] \in Int
    OBVIOUS
<1> HIDE DEF n, x
<1>6. p[place] \in places /\ x \in Int
  <2>1. p[place] \in places
    BY <1>2, <1>4
  <2> HIDE DEF places, place
  <2>2. QED
    BY <1>3, <1>5, <2>1
<1>7. IsFiniteSet(places) /\ IsFiniteSet(met) /\ IsFiniteSet(above)
  <2>1. IsFiniteSet(places) /\ met \in SUBSET places /\ above \in SUBSET places
    BY <1>2, FS_Interval
  <2> HIDE DEF met, above
  <2>2. QED
    BY <2>1, FS_Subset
<1>8. /\ IsFiniteSet(place .. n) /\ Cardinality(place .. n) = k
      /\ IsFiniteSet(place + 1 .. n) /\ Cardinality(place + 1 .. n) = k - 1
    BY <1>2, FS_Interval
<1>9. Cardinality(met) >= k
  <2> DEFINE f == [i \in place .. n |-> p[i]]
  <2>1. ASSUME NEW i \in place .. n
        PROVE  i \in places /\ p[i] \in met
    <3>1. i \in places /\ (i = place \/ place < i)
      BY <1>2
    <3>2. p[i] \in places
      BY <1>4, <3>1
    <3>3. s[p[place]] <= s[p[i]] \/ i = place
      BY <1>1, <1>2, <3>1
    <3>4. s[p[i]] \in Int
      BY <1>5, <3>2
    <3>5. s[p[i]] >= x
      BY <1>3, <1>6, <3>3, <3>4
    <3>6. QED
      BY <3>1, <3>2, <3>5
  <2>2. f \in Injection(place .. n, met)
    BY <1>4, <2>1 DEF Injection, IsInjective
  <2>3. Cardinality(place .. n) <= Cardinality(met)
    BY <1>7, <2>2, FS_Injection
  <2>4. QED
    BY <1>8, <2>3
<1>10. Cardinality(above) < k
  <2> DEFINE g == [i \in above |-> CHOOSE j \in places : p[j] = i]
  <2>1. ASSUME NEW i \in above
        PROVE  g[i] \in places /\ p[g[i]] = i
    BY <1>4
  <2> HIDE DEF g
  <2>2. ASSUME NEW i \in above
        PROVE  g[i] \in place + 1 .. n
    <3>1. g[i] \in places /\ s[p[g[i]]] = s[i] /\ s[i] > x /\ s[i] \in Int
      BY <1>5, <2>1
    <3>2. g[i] # place
      BY <1>3, <1>6, <3>1
    <3>3. g[i] < place => s[p[g[i]]] <= s[p[place]]
      BY <1>1, <1>2, <3>1
    <3>4. ~(g[i] < place)
      BY <1>3, <1>6, <3>1, <3>3
    <3>5. QED
      BY <1>2, <3>1, <3>2, <3>4
  <2>3. g \in [above -> place + 1 .. n]
    BY <2>2 DEF g
  <2>4. g \in Injection(above, place + 1 .. n)
    BY <2>1, <2>3 DEF Injection, IsInjective
  <2>5. Cardinality(above) <= Cardinality(place + 1 .. n)
    BY <1>8, <2>4, FS_Injection
  <2>6. Cardinality(above) \in Nat
    BY <1>7, FS_CardinalityType
  <2>7. QED
    BY <1>2, <1>8, <2>5, <2>6
<1>11. QED
    BY <1>2, <1>3, <1>4, <1>7, <1>9, <1>10 DEF n, x

StrictlyAbove(scores, t) == {i \in DOMAIN scores : scores[i] * t[2] > t[1] * Scale}

(* The cap leaves the threshold alone when few enough scores meet it, and  *)
(* otherwise raises it to one that only ties keep at or above the cap.     *)
CapSpent(t, mid, scores, allowed) ==
    \/ mid = t /\ Cardinality(Meeting(scores, t)) <= allowed
    \/ /\ NoLess(mid, t)
       /\ Cardinality(StrictlyAbove(scores, mid)) < allowed
       /\ allowed <= Cardinality(Meeting(scores, mid))

LEMMA CapRaises ==
    ASSUME NEW t \in Fractions, NEW s \in Seq(Scores), Ascending(s), NEW allowed \in Nat \ {0}
    PROVE  LET mid == ApplyAlertCap(t, s, allowed)
           IN  mid \in Fractions /\ NoLess(mid, t) /\ CapSpent(t, mid, s, allowed)
<1> DEFINE places == 1 .. Len(s)
           met == Meeting(s, t)
           a == t[1]
           b == t[2]
<1>1. a \in Int /\ b \in Int /\ b > 0 /\ t = <<a, b>>
    BY DEF Fractions
<1>2. s \in Seq(Int) /\ Len(s) \in Nat /\ DOMAIN s = places /\ \A i \in places : s[i] \in Int
    BY Scale_in DEF Scores
<1>3. met = {i \in places : s[i] * b >= a * Scale}
    BY <1>2 DEF Meeting, Meets
<1>4. IsFiniteSet(met) /\ Cardinality(met) \in Nat /\ Cardinality(met) <= Len(s)
  <2>1. IsFiniteSet(places) /\ Cardinality(places) = Len(s)
    BY <1>2, FS_Interval
  <2>2. met \in SUBSET places
    BY <1>3
  <2> HIDE DEF met, places
  <2>3. QED
    BY <2>1, <2>2, FS_Subset, FS_CardinalityType
<1>5. CASE Cardinality(met) <= allowed
  <2>1. ApplyAlertCap(t, s, allowed) = t
    BY <1>4, <1>5 DEF ApplyAlertCap
  <2>2. NoLess(t, t)
    BY <1>1, SMT DEF NoLess
  <2>3. QED
    BY <1>5, <2>1, <2>2 DEF CapSpent
<1>6. CASE Cardinality(met) > allowed
  <2> DEFINE x == KthLargest(s, allowed)
             above == {i \in places : s[i] > x}
             atLeast == {i \in places : s[i] >= x}
  <2>1. ApplyAlertCap(t, s, allowed) = <<x, Scale>>
    BY <1>6 DEF ApplyAlertCap
  <2>2. allowed \in 1 .. Len(s)
    BY <1>4, <1>6
  <2> HIDE DEF places
  <2>3. /\ \E i \in places : x = s[i]
        /\ IsFiniteSet(atLeast) /\ Cardinality(atLeast) >= allowed
        /\ IsFiniteSet(above) /\ Cardinality(above) < allowed
    BY <1>2, <2>2, KthLargestCounts DEF places
  <2> HIDE DEF x
  <2>4. x \in Int
    BY <1>2, <2>3
  <2>5. x * b >= a * Scale
    <3>1. SUFFICES ASSUME ~(x * b >= a * Scale) PROVE FALSE
      OBVIOUS
    <3>2. ASSUME NEW i \in met
          PROVE  i \in above
      <4>1. i \in places /\ s[i] \in Int /\ s[i] * b >= a * Scale
        BY <1>2, <1>3
      <4>2. ASSUME s[i] <= x PROVE FALSE
        <5> DEFINE q == s[i]
        <5>1. q \in Int /\ q <= x /\ q * b >= a * Scale
          BY <4>1, <4>2
        <5> HIDE DEF q, a, b
        <5>2. q * b <= x * b
          BY <1>1, <2>4, <5>1, SMT
        <5>3. q * b \in Int /\ x * b \in Int /\ a * Scale \in Int
          BY <1>1, <2>4, <5>1, Scale_in, SMT
        <5>4. QED
          BY <3>1, <5>1, <5>2, <5>3, SMT
      <4>3. QED
        BY <2>4, <4>1, <4>2
    <3>3. met \in SUBSET above
      BY <3>2
    <3> HIDE DEF met, above
    <3>4. Cardinality(met) <= Cardinality(above) /\ Cardinality(above) \in Nat
      BY <2>3, <3>3, FS_Subset, FS_CardinalityType
    <3>5. QED
      BY <1>4, <1>6, <2>3, <3>4
  <2>6. NoLess(<<x, Scale>>, t)
    BY <2>5 DEF NoLess
  <2>7. Meeting(s, <<x, Scale>>) = atLeast
    <3>1. ASSUME NEW q \in Int
          PROVE  q * Scale >= x * Scale <=> q >= x
      <4>1. q >= x => q * Scale >= x * Scale
        BY <2>4, Scale_in, SMT
      <4>2. q * Scale >= x * Scale => q >= x
        BY <2>4, Scale_in, Cancel
      <4>3. QED
        BY <4>1, <4>2
    <3>2. QED
      BY <1>2, <3>1 DEF Meeting, Meets
  <2>8. StrictlyAbove(s, <<x, Scale>>) = above
    <3>1. ASSUME NEW q \in Int
          PROVE  q * Scale > x * Scale <=> q > x
      <4>1. q <= x => q * Scale <= x * Scale
        BY <2>4, Scale_in, SMT
      <4>2. q * Scale <= x * Scale => q <= x
        BY <2>4, Scale_in, Cancel
      <4>3. q * Scale \in Int /\ x * Scale \in Int
        BY <2>4, Scale_in, SMT
      <4>4. QED
        BY <2>4, <4>1, <4>2, <4>3
    <3>2. QED
      BY <1>2, <3>1 DEF StrictlyAbove
  <2>9. <<x, Scale>> \in Fractions
    BY <2>4, Scale_in DEF Fractions
  <2> HIDE DEF above, atLeast
  <2>10. Cardinality(atLeast) \in Nat
    BY <2>3, FS_CardinalityType
  <2>11. CapSpent(t, <<x, Scale>>, s, allowed)
    BY <2>3, <2>6, <2>7, <2>8, <2>10 DEF CapSpent
  <2>12. QED
    BY <2>1, <2>6, <2>9, <2>11
<1>7. QED
    BY <1>4, <1>5, <1>6

-----------------------------------------------------------------------------
(* Whatever a program has fitted, it has fitted to ascending scores of a   *)
(* frame with training days.                                               *)
IsFitted(fit) ==
    \E c \in {CardCosts, P2PCosts}, oof \in OutOfFold, days \in FrameDays :
        fit = Fitted(c, oof, days)

FitsInv ==
    /\ DOMAIN programs = Processes
    /\ \A s \in Processes : "fit" \in DOMAIN programs[s] => IsFitted(programs[s].fit)

LEMMA OutOfFoldAscends ==
    ASSUME NEW oof \in OutOfFold
    PROVE  oof \in Seq(Scores) /\ Ascending(oof)
<1>1. PICK n \in 1 .. MaxScores : oof \in [1 .. n -> Scores]
    BY DEF OutOfFold
<1>2. n \in Nat
    BY OfflineAssumption
<1>3. oof \in Seq(Scores) /\ Len(oof) = n
    BY <1>1, <1>2
<1>4. oof \in Seq(Int)
    BY <1>3, Scale_in DEF Scores
<1>5. \A i \in 1 .. Len(oof) - 1 : oof[i] <= oof[i + 1]
    BY DEF OutOfFold
<1>6. QED
    BY <1>3, <1>4, <1>5, AdjacentIsAscending

LEMMA FitFacts ==
    ASSUME NEW fit, IsFitted(fit)
    PROVE  /\ fit.costs \in Costs /\ Graduated(fit.costs)
           /\ fit.t = AnalyticThresholds(fit.costs, fit.t.mid)
           /\ fit.t.mid \in Fractions /\ NoLess(fit.t.mid, MiddleFrom(fit.costs))
           /\ CapSpent(MiddleFrom(fit.costs), fit.t.mid, fit.oof, fit.allowed)
<1>1. PICK c \in {CardCosts, P2PCosts}, oof \in OutOfFold, days \in FrameDays :
          fit = Fitted(c, oof, days)
    BY DEF IsFitted
<1> DEFINE allowed == CapPerDay * TrainDays(days)
           mid == ApplyAlertCap(MiddleFrom(c), oof, allowed)
<1>2. /\ fit.costs = c /\ fit.oof = oof /\ fit.allowed = allowed
      /\ fit.t = AnalyticThresholds(c, mid) /\ fit.t.mid = mid
    BY <1>1 DEF Fitted, AnalyticThresholds
<1>3. c \in Costs /\ Graduated(c)
    BY OfflineAssumption
<1>4. allowed \in Nat \ {0}
  <2>1. TrainDays(days) \in Nat \ {0}
    BY OfflineAssumption DEF TrainDays
  <2>2. CapPerDay \in Nat \ {0}
    BY OfflineAssumption
  <2>3. QED
    BY <2>1, <2>2, SMT
<1> HIDE DEF allowed
<1>5. MiddleFrom(c) \in Fractions
    BY <1>3, ThresholdTypes
<1>6. /\ mid \in Fractions /\ NoLess(mid, MiddleFrom(c))
      /\ CapSpent(MiddleFrom(c), mid, oof, allowed)
    BY <1>4, <1>5, OutOfFoldAscends, CapRaises
<1> HIDE DEF mid
<1>7. QED
    BY <1>2, <1>3, <1>6

(* A program keeps what it has fitted, or loses it with everything else.   *)
KeepsFit(s, program) ==
    "fit" \in DOMAIN program =>
        \/ IsFitted(program.fit)
        \/ "fit" \in DOMAIN programs[s] /\ program.fit = programs[s].fit

LEMMA FitBecomes ==
    ASSUME FitsInv, NEW s \in Processes, NEW program, Becomes(s, program),
           KeepsFit(s, program)
    PROVE  FitsInv'
<1>1. programs' = [programs EXCEPT ![s] = program]
    BY DEF Becomes
<1>2. ASSUME NEW other \in Processes, "fit" \in DOMAIN programs'[other]
      PROVE  IsFitted(programs'[other].fit)
  <2>1. programs'[other] = IF other = s THEN program ELSE programs[other]
    BY <1>1 DEF FitsInv
  <2>2. CASE other = s
    BY <1>2, <2>1, <2>2 DEF FitsInv, KeepsFit
  <2>3. CASE other # s
    BY <1>2, <2>1, <2>3 DEF FitsInv
  <2>4. QED
    BY <2>2, <2>3
<1>3. DOMAIN programs' = Processes
    BY <1>1 DEF FitsInv
<1>4. \A other \in Processes : "fit" \in DOMAIN programs'[other] => IsFitted(programs'[other].fit)
    BY <1>2
<1>5. QED
    BY <1>3, <1>4 DEF FitsInv, IsFitted

LEMMA FitGoesOn ==
    ASSUME FitsInv, NEW s \in Processes,
           \/ \E step : GoesOn(s, step)
           \/ \E epsilon : programs' = [programs EXCEPT ![s].todo = @ \ {epsilon}]
    PROVE  FitsInv'
<1>1. CASE \E step : GoesOn(s, step)
  <2>1. PICK step : GoesOn(s, step)
    BY <1>1
  <2> DEFINE program == [programs[s] EXCEPT !.step = step]
  <2>2. DOMAIN program = DOMAIN programs[s]
        /\ ("fit" \in DOMAIN program => program.fit = programs[s].fit)
    OBVIOUS
  <2>3. Becomes(s, program)
    BY <2>1 DEF GoesOn, Becomes
  <2> HIDE DEF program
  <2>4. QED
    BY <2>2, <2>3, FitBecomes DEF KeepsFit
<1>2. CASE \E epsilon : programs' = [programs EXCEPT ![s].todo = @ \ {epsilon}]
  <2>1. PICK epsilon : programs' = [programs EXCEPT ![s].todo = @ \ {epsilon}]
    BY <1>2
  <2> DEFINE program == [programs[s] EXCEPT !.todo = @ \ {epsilon}]
  <2>2. DOMAIN program = DOMAIN programs[s]
        /\ ("fit" \in DOMAIN program => program.fit = programs[s].fit)
    OBVIOUS
  <2>3. Becomes(s, program)
    BY <2>1 DEF Becomes
  <2> HIDE DEF program
  <2>4. QED
    BY <2>2, <2>3, FitBecomes DEF KeepsFit
<1>3. QED
    BY <1>1, <1>2

LEMMA FitsStep ==
    ASSUME FitsInv, [Next]_vars
    PROVE  FitsInv'
<1>1. ASSUME NEW s \in Processes,
             Train(s) \/ TrainP2P(s)
      PROVE  FitsInv'
  <2>1. PICK program :
            /\ Becomes(s, program) /\ IsFitted(program.fit)
    <3>1. CASE Train(s)
      <4>1. PICK oof \in OutOfFold, days \in FrameDays, v \in Versions :
                Becomes(s, [kind |-> "train", step |-> "open", version |-> v,
                            fit |-> Fitted(CardCosts, oof, days)])
        BY <3>1 DEF Train
      <4>2. IsFitted(Fitted(CardCosts, oof, days))
        BY DEF IsFitted
      <4>3. QED
        BY <4>1, <4>2
    <3>2. CASE TrainP2P(s)
      <4>1. PICK oof \in OutOfFold, days \in FrameDays :
                Becomes(s, [kind |-> "p2p_train", step |-> "log",
                            fit |-> Fitted(P2PCosts, oof, days)])
        BY <3>2 DEF TrainP2P
      <4>2. IsFitted(Fitted(P2PCosts, oof, days))
        BY DEF IsFitted
      <4>3. QED
        BY <4>1, <4>2
    <3>3. QED
      BY <1>1, <3>1, <3>2
  <2>2. QED
    BY <2>1, FitBecomes DEF KeepsFit
<1>2. ASSUME NEW s \in Processes,
             OpenPilot(s) \/ LogTraining(s) \/ StartPublish(s)
      PROVE  FitsInv'
    BY <1>2, FitGoesOn DEF OpenPilot, LogTraining, StartPublish
<1>3. ASSUME NEW s \in Processes,
             \/ DumpPilot(s) \/ Federate(s) \/ FederateDP(s) \/ Account(s)
             \/ LogReport(s) \/ Killed(s) \/ (PublishStep(s) /\ writer' = NoCall)
      PROVE  FitsInv'
  <2>1. \E program : Becomes(s, program) /\ "fit" \notin DOMAIN program
    <3>1. "fit" \notin DOMAIN Idle
      BY DEF Idle
    <3>2. CASE DumpPilot(s)
      BY <3>2 DEF DumpPilot
    <3>3. CASE Federate(s) \/ FederateDP(s) \/ Account(s)
      BY <3>3 DEF Federate, FederateDP, Account, Simulate
    <3>4. CASE LogReport(s) \/ Killed(s) \/ (PublishStep(s) /\ writer' = NoCall)
      BY <3>1, <3>4 DEF LogReport, Killed, PublishStep
    <3>5. QED
      BY <1>3, <3>2, <3>3, <3>4
  <2>2. QED
    BY <2>1, FitBecomes DEF KeepsFit
<1>4. ASSUME UNCHANGED programs
      PROVE  FitsInv'
    BY <1>4 DEF FitsInv, IsFitted
<1>5. ASSUME NEW s \in Processes, PublishStep(s), writer' # NoCall
      PROVE  FitsInv'
    BY <1>4, <1>5 DEF PublishStep
<1>6. QED
    BY <1>1, <1>2, <1>3, <1>4, <1>5 DEF Next, Finished, vars

LEMMA FitsInvariant == Spec => []FitsInv
<1>1. Init => FitsInv
    BY DEF Init, Idle, FitsInv
<1>2. QED
    BY <1>1, FitsStep, PTL DEF Spec

LEMMA FitsAreFitted ==
    ASSUME FitsInv, NEW fit \in Fits
    PROVE  IsFitted(fit)
BY DEF Fits, FitsInv

(* For every cap, frame, channel and set of scores, ties included: the cap *)
(* leaves a lower threshold that satisfies it, or raises it to a score     *)
(* that fewer exceed than it allows and at least that many meet; only      *)
(* those that tie with that score can be too many (apply_alert_cap).       *)
THEOREM CapIsSpent == Spec => []OnlyTiesExceedCap
<1>1. FitsInv => OnlyTiesExceedCap
  <2>1. SUFFICES ASSUME FitsInv, NEW fit \in Fits
                 PROVE  LET mid == fit.t.mid
                            met == Meeting(fit.oof, mid)
                            above == {i \in met : fit.oof[i] * mid[2] > mid[1] * Scale}
                        IN  \/ mid = MiddleFrom(fit.costs) /\ Cardinality(met) <= fit.allowed
                            \/ /\ NoLess(mid, MiddleFrom(fit.costs))
                               /\ Cardinality(above) < fit.allowed
                               /\ fit.allowed <= Cardinality(met)
    BY DEF OnlyTiesExceedCap
  <2> DEFINE mid == fit.t.mid
             met == Meeting(fit.oof, mid)
             above == {i \in met : fit.oof[i] * mid[2] > mid[1] * Scale}
  <2>2. IsFitted(fit)
    BY <2>1, FitsAreFitted
  <2>3. /\ mid \in Fractions
        /\ CapSpent(MiddleFrom(fit.costs), mid, fit.oof, fit.allowed)
    BY <2>2, FitFacts
  <2>4. \A i \in DOMAIN fit.oof : fit.oof[i] \in Int
    <3>1. fit.oof \in OutOfFold
      BY <2>2 DEF IsFitted, Fitted
    <3>2. fit.oof \in Seq(Scores)
      BY <3>1, OutOfFoldAscends
    <3>3. QED
      BY <3>2, Scale_in DEF Scores
  <2>5. mid[1] \in Int /\ mid[2] \in Int /\ Scale \in Int
    BY <2>3, Scale_in DEF Fractions
  <2>6. above = StrictlyAbove(fit.oof, mid)
    <3>1. ASSUME NEW i \in DOMAIN fit.oof, fit.oof[i] * mid[2] > mid[1] * Scale
          PROVE  Meets(fit.oof[i], mid)
      <4>1. fit.oof[i] * mid[2] \in Int /\ mid[1] * Scale \in Int
        BY <2>4, <2>5, SMT
      <4>2. QED
        BY <3>1, <4>1, SMT DEF Meets
    <3>2. QED
      BY <3>1 DEF StrictlyAbove, Meeting
  <2> HIDE DEF mid, above
  <2>7. QED
    BY <2>3, <2>6 DEF CapSpent, mid, above
<1>2. QED
    BY <1>1, FitsInvariant, PTL

(* Every bundle that training ever makes decides each score as cheaply as  *)
(* its cap allows, for every cost model with a middle action, whatever the *)
(* out-of-fold scores were (core.py, graduated_thresholds; train.py).      *)
THEOREM FittedActionIsCheapest == Spec => []ActionIsCheapest
<1>1. FitsInv => ActionIsCheapest
  <2>1. SUFFICES ASSUME FitsInv, NEW fit \in Fits, NEW p \in Scores
                 PROVE  Cheapest(p, fit.t, fit.costs)
    BY DEF ActionIsCheapest
  <2>2. /\ fit.costs \in Costs /\ Graduated(fit.costs)
        /\ fit.t = AnalyticThresholds(fit.costs, fit.t.mid)
        /\ fit.t.mid \in Fractions /\ NoLess(fit.t.mid, MiddleFrom(fit.costs))
    BY <2>1, FitsAreFitted, FitFacts
  <2>3. QED
    BY <2>1, <2>2, CheapestAction
<1>2. QED
    BY <1>1, FitsInvariant, PTL

-----------------------------------------------------------------------------
(* The searches of the privacy accountant.  What is iterated n times is a  *)
(* function on 0 .. n.                                                     *)
Iterated(g, S, start, step, n) ==
    /\ g \in [0 .. n -> S]
    /\ \A i \in 0 .. n : g[i] = IF i = 0 THEN start ELSE step[g[i - 1]]

LEMMA Iterates ==
    ASSUME NEW S, NEW start \in S, NEW step \in [S -> S], NEW n \in Nat
    PROVE  \E g : Iterated(g, S, start, step, n)
<1> DEFINE Upto(g, k) == g[0] = start /\ \A i \in 1 .. k : g[i] = step[g[i - 1]]
           Good == {k \in Nat : \E g \in [0 .. k -> S] : Upto(g, k)}
<1>1. 0 \in Good
  <2> DEFINE g == [i \in 0 .. 0 |-> start]
  <2>1. g \in [0 .. 0 -> S] /\ Upto(g, 0)
    OBVIOUS
  <2>. QED  BY <2>1
<1>2. ASSUME NEW k \in Good PROVE k + 1 \in Good
  <2>1. PICK g \in [0 .. k -> S] : Upto(g, k)
    OBVIOUS
  <2> DEFINE h == [i \in 0 .. k + 1 |-> IF i = k + 1 THEN step[g[k]] ELSE g[i]]
  <2>2. k \in Nat /\ k \in 0 .. k /\ k + 1 # 0
    OBVIOUS
  <2>3. h \in [0 .. k + 1 -> S]
    <3>1. step[g[k]] \in S
      BY <2>2
    <3>2. \A i \in 0 .. k + 1 : i # k + 1 => i \in 0 .. k
      BY <2>2
    <3>. QED  BY <3>1, <3>2
  <2>4. h[0] = start
    BY <2>1, <2>2
  <2>5. ASSUME NEW i \in 1 .. k + 1 PROVE h[i] = step[h[i - 1]]
    <3>1. i - 1 \in 0 .. k + 1 /\ i - 1 # k + 1 /\ h[i - 1] = g[i - 1]
      BY <2>2
    <3>2. CASE i = k + 1
      BY <2>2, <3>1, <3>2
    <3>3. CASE i # k + 1
      <4>1. i \in 1 .. k /\ h[i] = g[i]
        BY <2>2, <3>3
      <4>. QED  BY <2>1, <3>1, <4>1
    <3>. QED  BY <3>2, <3>3
  <2> HIDE DEF h
  <2>6. Upto(h, k + 1)
    BY <2>4, <2>5
  <2>. QED  BY <2>2, <2>3, <2>6
<1>3. n \in Good
  <2> HIDE DEF Good
  <2>1. Good \in SUBSET Nat
    BY DEF Good
  <2>. QED  BY <1>1, <1>2, <2>1, EveryNumber
<1>4. PICK g \in [0 .. n -> S] : Upto(g, n)
  BY <1>3
<1>5. \A i \in 0 .. n : g[i] = IF i = 0 THEN start ELSE step[g[i - 1]]
  <2> SUFFICES ASSUME NEW i \in 0 .. n PROVE g[i] = IF i = 0 THEN start ELSE step[g[i - 1]]
    OBVIOUS
  <2>1. i = 0 \/ i \in 1 .. n
    OBVIOUS
  <2>. QED  BY <1>4, <2>1
<1>6. Iterated(g, S, start, step, n)
  BY <1>5 DEF Iterated
<1>. QED  BY <1>6

LEMMA Doubling ==
    /\ Powers \in [0 .. Halvings -> Nat]
    /\ Powers[0] = 1
    /\ \A n \in 1 .. Halvings : Powers[n] = 2 * Powers[n - 1]
<1> DEFINE twice == [x \in Nat |-> 2 * x]
<1>1. Halvings \in Nat
  BY AccountantAssumption
<1>2. twice \in [Nat -> Nat]
  OBVIOUS
<1>3. PICK g : Iterated(g, Nat, 1, twice, Halvings)
  <2> HIDE DEF twice
  <2>1. 1 \in Nat
    OBVIOUS
  <2>. QED  BY <1>1, <1>2, <2>1, Iterates
<1>4. \A i \in 0 .. Halvings : g[i] = IF i = 0 THEN 1 ELSE 2 * g[i - 1]
  <2> SUFFICES ASSUME NEW i \in 0 .. Halvings PROVE g[i] = IF i = 0 THEN 1 ELSE 2 * g[i - 1]
    OBVIOUS
  <2>1. g \in [0 .. Halvings -> Nat] /\ g[i] = IF i = 0 THEN 1 ELSE twice[g[i - 1]]
    BY <1>3 DEF Iterated
  <2>2. i # 0 => i - 1 \in 0 .. Halvings
    BY <1>1
  <2>3. i # 0 => g[i - 1] \in Nat
    BY <2>1, <2>2
  <2>. QED  BY <2>1, <2>3
<1>5. g \in [0 .. Halvings -> Nat] /\ g = [n \in 0 .. Halvings |-> IF n = 0 THEN 1 ELSE 2 * g[n - 1]]
  BY <1>3, <1>4 DEF Iterated
<1>6. Powers = [n \in 0 .. Halvings |-> IF n = 0 THEN 1 ELSE 2 * Powers[n - 1]]
  BY <1>5 DEF Powers
<1>7. \A n \in 0 .. Halvings : Powers[n] = IF n = 0 THEN 1 ELSE 2 * Powers[n - 1]
  BY <1>6
<1>8. Powers = g
  <2> DEFINE Good == {n \in Nat : n \in 0 .. Halvings => Powers[n] = g[n]}
  <2>1. 0 \in Good
    BY <1>1, <1>4, <1>7
  <2>2. ASSUME NEW n \in Good PROVE n + 1 \in Good
    <3>1. CASE n + 1 \in 0 .. Halvings
      <4>1. n \in 0 .. Halvings /\ n + 1 # 0 /\ (n + 1) - 1 = n
        BY <1>1, <3>1
      <4>2. Powers[n + 1] = 2 * Powers[n] /\ g[n + 1] = 2 * g[n]
        BY <1>4, <1>7, <3>1, <4>1
      <4>. QED  BY <4>1, <4>2
    <3>. QED  BY <3>1
  <2> HIDE DEF Good
  <2>3. \A n \in Nat : n \in Good
    <3>1. Good \in SUBSET Nat
      BY DEF Good
    <3>. QED  BY <2>1, <2>2, <3>1, EveryNumber
  <2>4. \A n \in 0 .. Halvings : Powers[n] = g[n]
    BY <1>1, <2>3 DEF Good
  <2>5. Powers = [n \in 0 .. Halvings |-> Powers[n]]
    BY <1>6
  <2>. QED  BY <1>5, <2>4, <2>5
<1>9. \A n \in 1 .. Halvings : n \in 0 .. Halvings /\ n # 0
  BY <1>1
<1>. QED  BY <1>1, <1>5, <1>7, <1>8, <1>9

(* A function that never falls from a number to the next never falls.      *)
LEMMA NeverFalls ==
    ASSUME NEW top \in Nat, NEW f, \A n \in 0 .. top : f[n] \in Nat,
           \A n \in 0 .. top - 1 : f[n] <= f[n + 1]
    PROVE  \A m, n \in 0 .. top : m <= n => f[m] <= f[n]
<1> DEFINE Good == {n \in Nat : n \in 0 .. top => \A m \in 0 .. n : f[m] <= f[n]}
<1>1. 0 \in Good
  <2>1. \A m \in 0 .. 0 : m = 0
    OBVIOUS
  <2>2. f[0] <= f[0]
    OBVIOUS
  <2>. QED  BY <2>1, <2>2
<1>2. ASSUME NEW n \in Good PROVE n + 1 \in Good
  <2>1. n \in Nat
    OBVIOUS
  <2> SUFFICES ASSUME n + 1 \in 0 .. top, NEW m \in 0 .. n + 1 PROVE f[m] <= f[n + 1]
    BY <2>1
  <2>2. n \in 0 .. top /\ n \in 0 .. top - 1 /\ f[n] <= f[n + 1]
    BY <2>1
  <2>3. f[n] \in Nat /\ f[n + 1] \in Nat
    BY <2>2
  <2>4. CASE m = n + 1
    BY <2>3, <2>4
  <2>5. CASE m # n + 1
    <3>1. m \in 0 .. n /\ m \in 0 .. top
      BY <2>1, <2>5
    <3>2. f[m] <= f[n] /\ f[m] \in Nat
      BY <2>2, <3>1
    <3>. QED  BY <2>2, <2>3, <3>2
  <2>. QED  BY <2>4, <2>5
<1> HIDE DEF Good
<1>3. \A n \in Nat : n \in Good
  <2>1. Good \in SUBSET Nat
    BY DEF Good
  <2>. QED  BY <1>1, <1>2, <2>1, EveryNumber
<1> SUFFICES ASSUME NEW m \in 0 .. top, NEW n \in 0 .. top, m <= n PROVE f[m] <= f[n]
  OBVIOUS
<1>4. n \in Good /\ m \in 0 .. n
  BY <1>3
<1>. QED  BY <1>4 DEF Good

LEMMA PowersGrow ==
    /\ Halvings \in Nat /\ MaxDoublings \in 0 .. Halvings
    /\ \A n \in 0 .. Halvings : Powers[n] \in Nat /\ Powers[n] >= 1
    /\ \A m, n \in 0 .. Halvings : m <= n => Powers[m] <= Powers[n]
    /\ Unit \in Nat /\ Unit >= 1 /\ Widest \in Nat /\ Widest >= 1 /\ Widest <= Unit
<1>1. Halvings \in Nat /\ MaxDoublings \in 0 .. Halvings
  BY AccountantAssumption
<1>2. \A n \in 0 .. Halvings : Powers[n] \in Nat
  BY Doubling
<1>3. \A n \in 0 .. Halvings - 1 : Powers[n] <= Powers[n + 1]
  <2> SUFFICES ASSUME NEW n \in 0 .. Halvings - 1 PROVE Powers[n] <= Powers[n + 1]
    OBVIOUS
  <2>1. n + 1 \in 1 .. Halvings /\ (n + 1) - 1 = n /\ n \in 0 .. Halvings
    BY <1>1
  <2>2. Powers[n + 1] = 2 * Powers[n]
    BY <2>1, Doubling
  <2>. QED  BY <1>2, <2>1, <2>2
<1>4. \A m, n \in 0 .. Halvings : m <= n => Powers[m] <= Powers[n]
  BY <1>1, <1>2, <1>3, NeverFalls
<1>5. \A n \in 0 .. Halvings : Powers[n] >= 1
  <2> SUFFICES ASSUME NEW n \in 0 .. Halvings PROVE Powers[n] >= 1
    OBVIOUS
  <2>1. 0 \in 0 .. Halvings /\ 0 <= n
    BY <1>1
  <2>2. Powers[0] <= Powers[n] /\ Powers[0] = 1 /\ Powers[n] \in Nat
    BY <1>2, <1>4, <2>1, Doubling
  <2>. QED  BY <2>2
<1>6. Halvings \in 0 .. Halvings /\ MaxDoublings <= Halvings
  BY <1>1
<1>. QED  BY <1>1, <1>2, <1>4, <1>5, <1>6 DEF Unit, Widest

(* What a search knows of its bracket: the lower end spends no more than   *)
(* the total, unless it is still 0, and the upper end no less.             *)
Brackets(b, width, hi, spent, total) ==
    /\ b = [lo |-> b.lo, hi |-> b.hi]
    /\ b.lo \in Nat /\ b.hi = b.lo + width /\ b.hi <= hi
    /\ b.lo = 0 \/ spent[b.lo] <= total
    /\ spent[b.hi] >= total

LEMMA HalfBrackets ==
    ASSUME NEW hi \in Nat, NEW total \in Nat, NEW spent, \A n \in 0 .. hi : spent[n] \in Nat,
           NEW b, NEW width \in Nat, Brackets(b, 2 * width, hi, spent, total)
    PROVE  Brackets(Halved(b, spent, total), width, hi, spent, total)
<1> DEFINE mid == (b.lo + b.hi) \div 2
<1>1. b.lo \in Nat /\ b.hi = b.lo + 2 * width /\ b.hi <= hi
  BY DEF Brackets
<1>2. mid = b.lo + width /\ mid \in 0 .. hi
  BY <1>1
<1>3. spent[mid] \in Nat
  BY <1>2
<1> HIDE DEF mid
<1>4. CASE spent[mid] <= total
  <2>1. Halved(b, spent, total) = [lo |-> mid, hi |-> b.hi]
    BY <1>4 DEF Halved, Keeps, mid, Brackets
  <2>. QED  BY <1>1, <1>2, <1>4, <2>1 DEF Brackets
<1>5. CASE ~(spent[mid] <= total)
  <2>1. Halved(b, spent, total) = [lo |-> b.lo, hi |-> mid]
    BY <1>5 DEF Halved, Keeps, mid, Brackets
  <2>2. spent[mid] >= total
    BY <1>3, <1>5
  <2>3. Brackets([lo |-> b.lo, hi |-> mid], width, hi, spent, total)
    BY <1>1, <1>2, <2>2 DEF Brackets
  <2>. QED  BY <2>1, <2>3
<1>. QED  BY <1>4, <1>5

(* After the last bisection the bracket is as wide as the resolution.      *)
LEMMA SearchEnds ==
    ASSUME NEW width \in Nat, NEW hi, hi = width * Unit, NEW total \in Nat,
           NEW spent, \A n \in 0 .. hi : spent[n] \in Nat, spent[hi] >= total
    PROVE  LET lo == Bisected(hi, spent, total)
           IN  /\ lo \in Nat /\ lo + width <= hi
               /\ lo = 0 \/ spent[lo] <= total
               /\ spent[lo + width] >= total
<1> DEFINE Pairs == [lo : Int, hi : Int]
           halve == [b \in Pairs |-> Halved(b, spent, total)]
           first == [lo |-> 0, hi |-> hi]
           B == CHOOSE b : b = [i \in 0 .. Halvings |->
                                  IF i = 0 THEN first ELSE Halved(b[i - 1], spent, total)]
<1>0. Halvings \in Nat /\ Unit \in Nat /\ hi \in Nat
  BY PowersGrow
<1>1. halve \in [Pairs -> Pairs]
  <2> SUFFICES ASSUME NEW b \in Pairs PROVE Halved(b, spent, total) \in Pairs
    OBVIOUS
  <2>1. (b.lo + b.hi) \div 2 \in Int
    OBVIOUS
  <2>. QED  BY <2>1 DEF Halved
<1>2. first \in Pairs
  BY <1>0
<1>3. \A b \in Pairs : halve[b] = Halved(b, spent, total)
  OBVIOUS
<1>4. PICK g : Iterated(g, Pairs, first, halve, Halvings)
  <2> HIDE DEF Pairs, halve, first
  <2>. QED  BY <1>0, <1>1, <1>2, Iterates
<1>5. g \in [0 .. Halvings -> Pairs]
      /\ \A i \in 0 .. Halvings : g[i] = IF i = 0 THEN first ELSE Halved(g[i - 1], spent, total)
  <2> HIDE DEF Pairs, halve, first
  <2>1. g \in [0 .. Halvings -> Pairs]
        /\ \A i \in 0 .. Halvings : g[i] = IF i = 0 THEN first ELSE halve[g[i - 1]]
    BY <1>4 DEF Iterated
  <2>2. \A i \in 0 .. Halvings : i # 0 => g[i - 1] \in Pairs
    BY <1>0, <2>1
  <2>. QED  BY <1>3, <2>1, <2>2
<1> HIDE DEF Pairs, halve, first
<1>6. g = [i \in 0 .. Halvings |-> IF i = 0 THEN first ELSE Halved(g[i - 1], spent, total)]
  BY <1>5
<1>7. B = [i \in 0 .. Halvings |-> IF i = 0 THEN first ELSE Halved(B[i - 1], spent, total)]
  BY <1>6
<1>8. Bisected(hi, spent, total) = B[Halvings].lo
  BY DEF Bisected, first
<1> HIDE DEF B
<1>9. \A i \in 0 .. Halvings : B[i] = IF i = 0 THEN first ELSE Halved(B[i - 1], spent, total)
  BY <1>7
<1> DEFINE Sound(i) == Brackets(B[i], width * Powers[Halvings - i], hi, spent, total)
           Good == {i \in Nat : i \in 0 .. Halvings => Sound(i)}
<1>10. 0 \in Good
  <2>1. Halvings - 0 = Halvings /\ width * Powers[Halvings - 0] = hi
    BY <1>0 DEF Unit
  <2>2. B[0] = [lo |-> 0, hi |-> hi]
    BY <1>0, <1>9 DEF first
  <2>3. Brackets([lo |-> 0, hi |-> hi], hi, hi, spent, total)
    BY <1>0 DEF Brackets
  <2>. QED  BY <2>1, <2>2, <2>3
<1>11. ASSUME NEW i \in Good PROVE i + 1 \in Good
  <2>1. CASE i + 1 \in 0 .. Halvings
    <3>1. i \in Nat /\ i \in 0 .. Halvings /\ i + 1 # 0 /\ (i + 1) - 1 = i
      BY <1>0, <2>1
    <3> DEFINE rest == Halvings - (i + 1)
    <3>2. rest \in 0 .. Halvings /\ Halvings - i \in 1 .. Halvings /\ (Halvings - i) - 1 = rest
      BY <1>0, <2>1, <3>1
    <3>3. Powers[Halvings - i] = 2 * Powers[rest] /\ Powers[rest] \in Nat
      BY <3>2, Doubling
    <3> HIDE DEF rest
    <3>4. width * Powers[Halvings - i] = 2 * (width * Powers[rest]) /\ width * Powers[rest] \in Nat
      BY <3>3
    <3>5. Brackets(B[i], 2 * (width * Powers[rest]), hi, spent, total)
      BY <3>1, <3>4
    <3>6. Brackets(Halved(B[i], spent, total), width * Powers[rest], hi, spent, total)
      BY <1>0, <3>4, <3>5, HalfBrackets
    <3>7. B[i + 1] = Halved(B[i], spent, total)
      BY <1>9, <2>1, <3>1
    <3>. QED  BY <3>1, <3>6, <3>7 DEF rest
  <2>. QED  BY <2>1
<1>12. Sound(Halvings)
  <2> HIDE DEF Sound
  <2>1. Good \in SUBSET Nat
    OBVIOUS
  <2> HIDE DEF Good
  <2>2. \A i \in Nat : i \in Good
    BY <1>10, <1>11, <2>1, EveryNumber
  <2>3. Halvings \in 0 .. Halvings /\ Halvings \in Good
    BY <1>0, <2>2
  <2>. QED  BY <2>3 DEF Good
<1>13. width * Powers[Halvings - Halvings] = width
  <2>1. Halvings - Halvings = 0 /\ Powers[0] = 1
    BY <1>0, Doubling
  <2>. QED  BY <2>1
<1>14. Brackets(B[Halvings], width, hi, spent, total)
  BY <1>12, <1>13
<1>. QED  BY <1>8, <1>14 DEF Brackets

LEMMA Quotient ==
    ASSUME NEW a \in Nat, NEW b \in Nat, b > 0
    PROVE  /\ a \div b \in Nat /\ b * (a \div b) <= a /\ a < b * (a \div b) + b
           /\ (a * b) \div b = a
           /\ (a + b) \div b = a \div b + 1
OBVIOUS

LEMMA QuotientGrows ==
    ASSUME NEW a \in Nat, NEW c \in Nat, NEW b \in Nat, b > 0, a <= c
    PROVE  a \div b <= c \div b
<1>1. /\ a \div b \in Nat /\ b * (a \div b) <= a
      /\ c \div b \in Nat /\ c < b * (c \div b) + b
  BY Quotient
<1>2. (a \div b) * b < (c \div b + 1) * b
  <2>1. (c \div b + 1) * b = b * (c \div b) + b /\ (a \div b) * b = b * (a \div b)
    BY <1>1
  <2>. QED  BY <1>1, <2>1
<1>3. CASE c \div b + 1 <= a \div b
  <2>1. (c \div b + 1) * b <= (a \div b) * b
    <3>1. (a \div b - (c \div b + 1)) * b \in Nat
      BY <1>1, <1>3
    <3>. QED  BY <1>1, <3>1
  <2>. QED  BY <1>1, <1>2, <2>1
<1>4. CASE ~(c \div b + 1 <= a \div b)
  BY <1>1, <1>4
<1>. QED  BY <1>3, <1>4

(* What is rounded to a multiple of Grain moves by no more than half of it.*)
LEMMA RoundedIs ==
    ASSUME NEW e \in Nat
    PROVE  LET half == Grain \div 2
           IN  /\ half \in Nat /\ Grain = 2 * half /\ Rounded(e) \in Nat
               /\ Rounded(e) - half <= e /\ e <= Rounded(e) + half
<1> DEFINE half == Grain \div 2
           q == (2 * e + Grain) \div (2 * Grain)
<1>1. Grain \in Nat /\ Grain > 0 /\ Grain % 2 = 0
  BY AccountantAssumption
<1>2. half \in Nat /\ Grain = 2 * half
  BY <1>1
<1>3. q \in Nat /\ (2 * Grain) * q <= 2 * e + Grain /\ 2 * e + Grain < (2 * Grain) * q + 2 * Grain
  <2>1. 2 * e + Grain \in Nat /\ 2 * Grain \in Nat /\ 2 * Grain > 0
    BY <1>1
  <2>. QED  BY <2>1, Quotient
<1> HIDE DEF q, half
<1>4. Rounded(e) = q * Grain
  BY DEF Rounded, q
<1>5. q * Grain \in Nat /\ (2 * Grain) * q = 2 * (q * Grain)
  BY <1>1, <1>3
<1>6. 2 * (q * Grain) <= 2 * e + Grain /\ 2 * e + Grain < 2 * (q * Grain) + 2 * Grain
  BY <1>3, <1>5
<1>7. Rounded(e) \in Nat /\ Rounded(e) - half <= e /\ e <= Rounded(e) + half
  BY <1>2, <1>4, <1>5, <1>6
<1>. QED  BY <1>2, <1>7 DEF half

(* The upper end of a search: the first power of two that overshoots.      *)
LEMMA WidthOf ==
    ASSUME NEW S \in SUBSET (0 .. MaxDoublings), MaxDoublings \in S
    PROVE  /\ Min(S) \in S
           /\ Powers[Min(S)] \in Nat /\ Powers[Min(S)] >= 1 /\ Powers[Min(S)] <= Widest
<1>1. /\ Halvings \in Nat /\ MaxDoublings \in 0 .. Halvings
      /\ \A n \in 0 .. Halvings : Powers[n] \in Nat /\ Powers[n] >= 1
      /\ \A m, n \in 0 .. Halvings : m <= n => Powers[m] <= Powers[n]
  BY PowersGrow
<1>2. S \in SUBSET Nat /\ S # {}
  BY <1>1
<1>3. Min(S) \in S
  BY <1>2, MinIsLeast
<1>4. Min(S) \in 0 .. Halvings /\ Min(S) <= MaxDoublings
  <2>1. Min(S) \in 0 .. MaxDoublings
    BY <1>3
  <2>2. \A n \in 0 .. MaxDoublings : n \in 0 .. Halvings /\ n <= MaxDoublings
    BY <1>1
  <2>. QED  BY <2>1, <2>2
<1>5. Powers[Min(S)] \in Nat /\ Powers[Min(S)] >= 1 /\ Powers[Min(S)] <= Powers[MaxDoublings]
  <2> DEFINE n0 == Min(S)
  <2> HIDE DEF n0
  <2>1. n0 \in 0 .. Halvings /\ n0 <= MaxDoublings
    BY <1>4 DEF n0
  <2>2. Powers[n0] \in Nat /\ Powers[n0] >= 1 /\ Powers[n0] <= Powers[MaxDoublings]
    BY <1>1, <2>1
  <2>. QED  BY <2>2 DEF n0
<1>. QED  BY <1>3, <1>5 DEF Widest

(* Where the two searches start.                                           *)
EpsWidth(total, k) == Widened(total, LAMBDA e : Bound(e, k) >= total)
RoundsWidth(total, eps0) == Widened(1, LAMBDA n : Bound(eps0, n) >= total)

LEMMA EpsWidthIs ==
    ASSUME NEW total \in Totals, NEW k \in Horizons
    PROVE  \E width \in Nat : /\ EpsWidth(total, k) = width * Unit
                              /\ EpsWidth(total, k) \in Nat
                              /\ EpsWidth(total, k) <= Widest * Widest * Unit
                              /\ Bound(EpsWidth(total, k), k) >= total
<1> DEFINE S == {n \in 0 .. MaxDoublings : Bound(total * Powers[n], k) >= total \/ n = MaxDoublings}
           n0 == Min(S)
<1>1. MaxDoublings \in Nat /\ Unit \in Nat /\ Widest \in Nat
  BY PowersGrow
<1>2. PICK t \in 1 .. Widest : total = t * Unit
  BY AccountantAssumption
<1>3. S \in SUBSET (0 .. MaxDoublings) /\ MaxDoublings \in S
  BY <1>1
<1>4. n0 \in S /\ Powers[n0] \in Nat /\ Powers[n0] <= Widest
  <2> HIDE DEF S
  <2>. QED  BY <1>3, WidthOf
<1>5. EpsWidth(total, k) = total * Powers[n0]
  BY DEF EpsWidth, Widened
<1>6. Bound(total * Powers[n0], k) >= total
  <2>1. Bound(total * Widest, k) >= total
    BY BoundAssumption
  <2>. QED  BY <1>4, <2>1 DEF Widest
<1> HIDE DEF n0, S
<1>7. t \in Nat /\ t <= Widest
  BY <1>1
<1>8. total * Powers[n0] = (t * Powers[n0]) * Unit /\ t * Powers[n0] \in Nat
  BY <1>1, <1>2, <1>4, <1>7
<1>9. t * Powers[n0] <= Widest * Widest
  <2>1. (Widest - t) * Powers[n0] \in Nat /\ Widest * (Widest - Powers[n0]) \in Nat
    BY <1>1, <1>4, <1>7
  <2>2. (Widest - t) * Powers[n0] = Widest * Powers[n0] - t * Powers[n0]
        /\ Widest * (Widest - Powers[n0]) = Widest * Widest - Widest * Powers[n0]
    BY <1>1, <1>4, <1>7
  <2>3. Widest * Powers[n0] \in Nat /\ Widest * Widest \in Nat
    BY <1>1, <1>4
  <2>. QED  BY <1>8, <2>1, <2>2, <2>3
<1>10. (t * Powers[n0]) * Unit <= (Widest * Widest) * Unit /\ (t * Powers[n0]) * Unit \in Nat
  <2>1. Widest * Widest \in Nat
    BY <1>1
  <2>2. (Widest * Widest - t * Powers[n0]) * Unit \in Nat
    BY <1>1, <1>8, <1>9, <2>1
  <2>. QED  BY <1>1, <1>8, <2>1, <2>2
<1>. QED  BY <1>5, <1>6, <1>8, <1>10

LEMMA RoundsWidthIs ==
    ASSUME NEW total \in Totals, NEW eps0 \in Targets
    PROVE  /\ RoundsWidth(total, eps0) \in Nat /\ RoundsWidth(total, eps0) >= 1
           /\ RoundsWidth(total, eps0) <= Widest
           /\ Bound(eps0, RoundsWidth(total, eps0)) >= total
<1> DEFINE S == {n \in 0 .. MaxDoublings : Bound(eps0, 1 * Powers[n]) >= total \/ n = MaxDoublings}
           n0 == Min(S)
<1>1. MaxDoublings \in Nat /\ Unit \in Nat /\ Widest \in Nat
  BY PowersGrow
<1>3. S \in SUBSET (0 .. MaxDoublings) /\ MaxDoublings \in S
  BY <1>1
<1>4. n0 \in S /\ Powers[n0] \in Nat /\ Powers[n0] >= 1 /\ Powers[n0] <= Widest
  <2> HIDE DEF S
  <2>. QED  BY <1>3, WidthOf
<1>5. RoundsWidth(total, eps0) = 1 * Powers[n0]
  BY DEF RoundsWidth, Widened
<1>6. 1 * Powers[n0] = Powers[n0]
  BY <1>4
<1>7. Bound(eps0, 1 * Powers[n0]) >= total
  <2>1. Bound(eps0, Widest) >= total
    BY BoundAssumption
  <2>2. CASE n0 = MaxDoublings
    <3>1. Powers[n0] = Widest
      BY <2>2 DEF Widest
    <3>. QED  BY <1>6, <2>1, <3>1
  <2>. QED  BY <1>4, <2>2
<1> HIDE DEF n0, S
<1>. QED  BY <1>4, <1>5, <1>6, <1>7

(* The bound grows with the epsilon, and with the rounds.                  *)
LEMMA BoundGrows ==
    /\ \A k \in Horizons :
         \A e, f \in 0 .. Widest * Widest * Unit + Grain :
            Bound(e, k) \in Nat /\ (e <= f => Bound(e, k) <= Bound(f, k))
    /\ \A eps0 \in Targets :
         \A m, n \in 0 .. Widest :
            Bound(eps0, m) \in Nat /\ (m <= n => Bound(eps0, m) <= Bound(eps0, n))
<1> DEFINE top == Widest * Widest * Unit + Grain
<1>1. Widest \in Nat /\ top \in Nat
  <2>1. Widest \in Nat /\ Unit \in Nat /\ Grain \in Nat
    BY PowersGrow, AccountantAssumption
  <2>2. Widest * Widest \in Nat
    BY <2>1
  <2>3. Widest * Widest * Unit \in Nat
    BY <2>1, <2>2
  <2>. QED  BY <2>1, <2>3
<1>2. ASSUME NEW k \in Horizons
      PROVE  \A e, f \in 0 .. top : Bound(e, k) \in Nat /\ (e <= f => Bound(e, k) <= Bound(f, k))
  <2>1. \A e \in 0 .. top : Bound(e, k) \in Nat /\ Bound(e, k) <= Bound(e + 1, k)
    BY BoundAssumption
  <2> DEFINE g == [e \in 0 .. top |-> Bound(e, k)]
  <2> HIDE DEF top
  <2>2. \A e \in 0 .. top : g[e] \in Nat /\ g[e] = Bound(e, k)
    BY <2>1
  <2>3. \A e \in 0 .. top - 1 : e \in 0 .. top /\ e + 1 \in 0 .. top
    BY <1>1
  <2> HIDE DEF g
  <2>4. \A e \in 0 .. top - 1 : g[e] <= g[e + 1]
    BY <2>1, <2>2, <2>3
  <2>5. \A e, f \in 0 .. top : e <= f => g[e] <= g[f]
    BY <1>1, <2>2, <2>4, NeverFalls
  <2>. QED  BY <2>1, <2>2, <2>5
<1>3. ASSUME NEW eps0 \in Targets
      PROVE  \A m, n \in 0 .. Widest :
                Bound(eps0, m) \in Nat /\ (m <= n => Bound(eps0, m) <= Bound(eps0, n))
  <2>1. \A n \in 0 .. Widest : Bound(eps0, n) \in Nat /\ Bound(eps0, n) <= Bound(eps0, n + 1)
    BY BoundAssumption
  <2> DEFINE g == [n \in 0 .. Widest |-> Bound(eps0, n)]
  <2>2. \A n \in 0 .. Widest : g[n] \in Nat /\ g[n] = Bound(eps0, n)
    BY <2>1
  <2>3. \A n \in 0 .. Widest - 1 : n \in 0 .. Widest /\ n + 1 \in 0 .. Widest
    BY <1>1
  <2> HIDE DEF g
  <2>4. \A n \in 0 .. Widest - 1 : g[n] <= g[n + 1]
    BY <2>1, <2>2, <2>3
  <2>5. \A m, n \in 0 .. Widest : m <= n => g[m] <= g[n]
    BY <1>1, <2>2, <2>4, NeverFalls
  <2>. QED  BY <2>1, <2>2, <2>5
<1>. QED  BY <1>2, <1>3

(* Every row of the table uses its budget up.                              *)
LEMMA TableSpends ==
    ASSUME NEW row \in BudgetTable
    PROVE  SpendsBudget(row)
<1>1. PICK total \in Totals, k \in Horizons :
         row = [total |-> total, rounds |-> k, basic |-> Rounded(BasicEps0(total, k)),
                advanced |-> Rounded(AdvancedEps0(total, k))]
  BY DEF BudgetTable
<1>2. row.total = total /\ row.rounds = k /\ row.advanced = Rounded(AdvancedEps0(total, k))
  BY <1>1
<1> DEFINE hi == EpsWidth(total, k)
           top == Widest * Widest * Unit + Grain
           spent == [e \in 0 .. hi |-> Bound(e, k)]
           lo == Bisected(hi, spent, total)
           half == Grain \div 2
<1>3. AdvancedEps0(total, k) = lo
  BY DEF AdvancedEps0, EpsWidth
<1>4. total \in Nat
  <2>1. PICK t \in 1 .. Widest : total = t * Unit
    BY AccountantAssumption
  <2>2. t \in Nat /\ Unit \in Nat
    BY PowersGrow
  <2>. QED  BY <2>1, <2>2
<1>5. PICK width \in Nat : /\ hi = width * Unit /\ hi \in Nat
                          /\ hi <= Widest * Widest * Unit
                          /\ Bound(hi, k) >= total
  BY EpsWidthIs
<1>6. Unit \in Nat /\ Unit > 0 /\ Grain \in Nat /\ Widest * Widest * Unit \in Nat
  <2>1. Widest \in Nat /\ Unit \in Nat /\ Unit >= 1 /\ Grain \in Nat
    BY PowersGrow, AccountantAssumption
  <2>2. Widest * Widest \in Nat
    BY <2>1
  <2>. QED  BY <2>1, <2>2
<1>7. hi \div Unit = width
  <2> HIDE DEF hi
  <2>. QED  BY <1>5, <1>6, Quotient
<1>8. \A e, f \in 0 .. top : Bound(e, k) \in Nat /\ (e <= f => Bound(e, k) <= Bound(f, k))
  BY BoundGrows
<1>9. Widened(row.total, LAMBDA e : Bound(e, row.rounds) >= row.total) = hi
  BY <1>2 DEF EpsWidth
<1> HIDE DEF hi
<1>10. hi + Grain <= top /\ top \in Nat /\ \A e \in 0 .. hi : e \in 0 .. top
  <2> DEFINE most == Widest * Widest * Unit
  <2> SUFFICES hi + Grain <= most + Grain /\ most + Grain \in Nat
               /\ \A e \in 0 .. hi : e \in 0 .. most + Grain
    OBVIOUS
  <2>1. most \in Nat /\ hi <= most /\ Grain \in Nat /\ hi \in Nat
    BY <1>5, <1>6
  <2> HIDE DEF most
  <2>. QED  BY <2>1
<1> HIDE DEF top
<1>11. /\ \A n \in 0 .. hi : spent[n] = Bound(n, k) /\ spent[n] \in Nat
       /\ spent[hi] >= total
  BY <1>5, <1>8, <1>10
<1> HIDE DEF spent
<1>12. /\ lo \in Nat /\ lo + width <= hi
       /\ lo = 0 \/ spent[lo] <= total
       /\ spent[lo + width] >= total
  BY <1>4, <1>5, <1>11, SearchEnds
<1> HIDE DEF lo
<1>13. /\ half \in Nat /\ Grain = 2 * half /\ Rounded(lo) \in Nat
       /\ Rounded(lo) - half <= lo /\ lo <= Rounded(lo) + half
  BY <1>12, RoundedIs
<1> DEFINE near == Rounded(lo)
<1> HIDE DEF half, near
<1>14. /\ half \in Nat /\ Grain = 2 * half /\ near \in Nat
       /\ near - half <= lo /\ lo <= near + half
  BY <1>13 DEF near
<1>15. near <= half \/ Bound(near - half, k) <= total
  <2>1. CASE near > half
    <3>1. near - half \in 0 .. top /\ lo \in 0 .. top /\ lo \in 0 .. hi /\ lo # 0
      BY <1>5, <1>10, <1>12, <1>14, <2>1
    <3>2. Bound(near - half, k) <= Bound(lo, k) /\ Bound(near - half, k) \in Nat
          /\ Bound(lo, k) \in Nat
      BY <1>8, <1>14, <3>1
    <3>3. Bound(lo, k) <= total
      BY <1>11, <1>12, <3>1
    <3>. QED  BY <1>4, <3>2, <3>3
  <2>. QED  BY <1>14, <2>1
<1>16. Bound(near + half + width, k) >= total
  <2>1. /\ near + half + width \in 0 .. top /\ lo + width \in 0 .. top
        /\ lo + width \in 0 .. hi /\ lo + width <= near + half + width
    BY <1>5, <1>10, <1>12, <1>14
  <2>2. Bound(lo + width, k) <= Bound(near + half + width, k)
        /\ Bound(lo + width, k) \in Nat /\ Bound(near + half + width, k) \in Nat
    BY <1>8, <2>1
  <2>3. Bound(lo + width, k) >= total
    BY <1>11, <1>12, <2>1
  <2>. QED  BY <1>4, <2>2, <2>3
<1>17. row.advanced = near
  BY <1>2, <1>3 DEF near
<1>. QED  BY <1>2, <1>7, <1>9, <1>15, <1>16, <1>17 DEF SpendsBudget, half

(* Every answer affords its rounds.                                        *)
LEMMA AnswersAfford ==
    ASSUME NEW answer \in CadenceAnswers
    PROVE  AffordsRounds(answer)
<1>1. PICK total \in Totals, eps0 \in Targets :
         answer = [total |-> total, target |-> eps0, rounds |-> RoundsForTarget(total, eps0)]
  BY DEF CadenceAnswers
<1>2. answer.total = total /\ answer.target = eps0 /\ answer.rounds = RoundsForTarget(total, eps0)
  BY <1>1
<1> DEFINE width == RoundsWidth(total, eps0)
           hi == width * Unit
           whole(n) == IF n < Unit THEN 1 ELSE n \div Unit
           spent == [n \in 0 .. hi |-> Bound(eps0, whole(n))]
           lo == Bisected(hi, spent, total)
           rounds == lo \div Unit
<1>3. RoundsForTarget(total, eps0) = lo
  BY DEF RoundsForTarget, RoundsWidth
<1>4. total \in Nat
  <2>1. PICK t \in 1 .. Widest : total = t * Unit
    BY AccountantAssumption
  <2>2. t \in Nat /\ Unit \in Nat
    BY PowersGrow
  <2>. QED  BY <2>1, <2>2
<1>5. width \in Nat /\ width >= 1 /\ width <= Widest /\ Bound(eps0, width) >= total
  BY RoundsWidthIs
<1>6. Unit \in Nat /\ Unit > 0 /\ Widest \in Nat /\ Widest <= Unit
  BY PowersGrow
<1>7. \A m, n \in 0 .. Widest :
         Bound(eps0, m) \in Nat /\ (m <= n => Bound(eps0, m) <= Bound(eps0, n))
  BY BoundGrows
<1> HIDE DEF width
<1>8. hi \in Nat /\ hi \div Unit = width /\ Unit <= hi
  <2>1. hi \in Nat /\ hi \div Unit = width
    BY <1>5, <1>6, Quotient
  <2>2. (width - 1) * Unit \in Nat /\ (width - 1) * Unit = hi - Unit
    BY <1>5, <1>6
  <2> HIDE DEF hi
  <2>. QED  BY <1>6, <2>1, <2>2
<1> HIDE DEF hi
<1>9. ASSUME NEW n \in 0 .. hi PROVE whole(n) \in 1 .. width
  <2>1. n \in Nat /\ n <= hi
    BY <1>8
  <2>2. n \div Unit <= hi \div Unit
    BY <1>6, <1>8, <2>1, QuotientGrows
  <2>3. n \div Unit \in Nat
    BY <1>6, <2>1, Quotient
  <2>4. ASSUME Unit <= n PROVE 1 <= n \div Unit
    <3>1. Unit \div Unit <= n \div Unit
      BY <1>6, <2>1, <2>4, QuotientGrows
    <3>2. Unit \div Unit = 1
      <4>1. (1 * Unit) \div Unit = 1 /\ 1 * Unit = Unit
        BY <1>6, Quotient
      <4>. QED  BY <4>1
    <3>. QED  BY <3>1, <3>2
  <2>. QED  BY <1>5, <1>6, <1>8, <2>1, <2>2, <2>3, <2>4
<1>10. ASSUME NEW n \in 0 .. hi PROVE whole(n) \in 0 .. Widest
  <2>1. whole(n) \in 1 .. width
    BY <1>9
  <2> HIDE DEF whole
  <2>. QED  BY <1>5, <1>6, <2>1
<1>11. whole(hi) = width
  BY <1>6, <1>8
<1> HIDE DEF whole
<1>12. /\ \A n \in 0 .. hi : spent[n] = Bound(eps0, whole(n)) /\ spent[n] \in Nat
       /\ spent[hi] >= total
  <2>1. \A n \in 0 .. hi : Bound(eps0, whole(n)) \in Nat
    BY <1>7, <1>10
  <2>2. hi \in 0 .. hi
    BY <1>8
  <2>. QED  BY <1>5, <1>11, <2>1, <2>2
<1> HIDE DEF spent
<1>13. /\ lo \in Nat /\ lo + width <= hi
       /\ lo = 0 \/ spent[lo] <= total
       /\ spent[lo + width] >= total
  BY <1>4, <1>5, <1>12, SearchEnds DEF hi
<1> HIDE DEF lo
<1>14. /\ rounds \in Nat /\ Unit * rounds <= lo /\ (lo + Unit) \div Unit = rounds + 1
  BY <1>6, <1>13, Quotient
<1>15. lo + width \in 0 .. hi /\ lo \in 0 .. hi /\ lo < hi
  BY <1>5, <1>8, <1>13
<1>16. rounds + 1 <= width
  <2>1. lo < Unit * width
    <3>1. hi = Unit * width
      BY <1>5, <1>6 DEF hi
    <3>. QED  BY <1>15, <3>1
  <2> HIDE DEF rounds
  <2>2. CASE width <= rounds
    <3>1. Unit * (rounds - width) \in Nat /\ Unit * (rounds - width) = Unit * rounds - Unit * width
      BY <1>5, <1>6, <1>14, <2>2
    <3>2. Unit * rounds \in Nat /\ Unit * width \in Nat
      BY <1>5, <1>6, <1>14
    <3>. QED  BY <1>13, <1>14, <2>1, <3>1, <3>2
  <2>. QED  BY <1>5, <1>14, <2>2
<1>17. rounds > 0 => Bound(eps0, rounds) <= total
  <2> SUFFICES ASSUME rounds > 0 PROVE Bound(eps0, rounds) <= total
    OBVIOUS
  <2>1. Unit <= lo
    <3> HIDE DEF rounds
    <3>1. Unit * (rounds - 1) \in Nat /\ Unit * (rounds - 1) = Unit * rounds - Unit
      BY <1>6, <1>14
    <3>2. Unit * rounds \in Nat
      BY <1>6, <1>14
    <3>. QED  BY <1>6, <1>13, <1>14, <3>1, <3>2
  <2>2. lo # 0 /\ whole(lo) = rounds
    BY <1>6, <1>13, <2>1 DEF whole
  <2>. QED  BY <1>12, <1>13, <1>15, <2>2
<1>18. whole(lo + width) <= rounds + 1
  <2>1. lo + width \in Nat /\ lo + Unit \in Nat /\ lo + width <= lo + Unit
    BY <1>5, <1>6, <1>13
  <2>2. (lo + width) \div Unit <= (lo + Unit) \div Unit
    BY <1>6, <2>1, QuotientGrows
  <2>3. (lo + width) \div Unit <= rounds + 1
    BY <1>14, <2>2
  <2> HIDE DEF rounds
  <2>4. CASE lo + width < Unit
    <3>1. whole(lo + width) = 1
      BY <2>4 DEF whole
    <3>. QED  BY <1>14, <3>1
  <2>5. CASE ~(lo + width < Unit)
    <3>1. whole(lo + width) = (lo + width) \div Unit
      BY <2>5 DEF whole
    <3>. QED  BY <2>3, <3>1
  <2>. QED  BY <2>4, <2>5
<1> HIDE DEF rounds
<1>19. Bound(eps0, rounds + 1) >= total
  <2>1. whole(lo + width) \in 0 .. Widest /\ rounds + 1 \in 0 .. Widest
    BY <1>5, <1>6, <1>10, <1>14, <1>15, <1>16
  <2>2. Bound(eps0, whole(lo + width)) <= Bound(eps0, rounds + 1)
        /\ Bound(eps0, whole(lo + width)) \in Nat /\ Bound(eps0, rounds + 1) \in Nat
    BY <1>7, <1>18, <2>1
  <2>3. Bound(eps0, whole(lo + width)) >= total
    BY <1>12, <1>13, <1>15
  <2>. QED  BY <1>4, <2>2, <2>3
<1>20. answer.rounds \div Unit = rounds
  BY <1>2, <1>3 DEF rounds
<1>. QED  BY <1>2, <1>17, <1>19, <1>20 DEF AffordsRounds

(* Every logged answer of the accountant uses its budget up and no more,   *)
(* whatever the budgets, the horizons and the targets, for every bound     *)
(* that grows with the epsilon and with the rounds, and wherever the       *)
(* accountant was killed before (privacy_accountant.py,                    *)
(* advanced_composition_eps0 and rounds_for_target_eps0).                  *)
THEOREM BudgetsAreSpent == Spec => []BudgetIsSpent
<1>1. LogInv => BudgetIsSpent
  <2> SUFFICES ASSUME LogInv, NEW run \in LoadRuns, run.kind = "privacy_accountant"
               PROVE  /\ \A row \in run.metrics.table : SpendsBudget(row)
                      /\ \A answer \in run.metrics.answers : AffordsRounds(answer)
    BY DEF BudgetIsSpent
  <2>1. PICK i \in DOMAIN log : run = log[i]
    BY DEF LoadRuns
  <2>2. log \in Seq(Records)
    BY DEF LogInv, LogType
  <2>3. run \in Records
    BY <2>1, <2>2
  <2>4. /\ run.metrics.table = BudgetTable \/ run.metrics.table = {}
        /\ run.metrics.answers = CadenceAnswers \/ run.metrics.answers = {}
    BY <2>3 DEF Records
  <2>. QED  BY <2>4, TableSpends, AnswersAfford
<1>. QED  BY <1>1, LogInvInit, LogInvStep, PTL DEF Spec
=============================================================================
