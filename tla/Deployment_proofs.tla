------------------------- MODULE Deployment_proofs -------------------------
(***************************************************************************)
(* Proofs about the registry and the stream consumer of Deployment, for    *)
(* any versions, messages, poison, analysts and bounds.  The two share no  *)
(* variable that the other writes, so each has an inductive invariant of   *)
(* its own.                                                                *)
(***************************************************************************)
EXTENDS Deployment, FiniteSetTheorems, TLAPS

-----------------------------------------------------------------------------
(* The registry.  A bundle is torn only while it is written or after a     *)
(* write was cut off, and nothing names a version before its bundle exists.*)
TornIsSpoiled ==
    \A v \in Versions :
        bundle[v] = "torn" =>
            v \in spoiled \/ (writer.step = "dump" /\ writer.version = v)

NamedExists ==
    /\ \A v \in Versions : sidecar[v] # "absent" \/ current = v => bundle[v] # "absent"
    /\ writer.step \in {"sidecar", "dump sidecar", "name"} =>
           bundle[writer.version] # "absent"

RegistryInv == RegistryTypeOK /\ TornIsSpoiled /\ NamedExists

LEMMA RegistryInitInv == RegistryInit => RegistryInv
BY RegistryAssumption
DEF RegistryInit, RegistryInv, RegistryTypeOK, TornIsSpoiled, NamedExists, Files, NoCall

LEMMA NoCallStep == NoCall.step = "none"
BY DEF NoCall

(* The call under way is a record with the fields of a call.               *)
LEMMA WriterFields ==
    ASSUME RegistryTypeOK, writer.step # "none"
    PROVE  /\ writer \in Calls
           /\ writer.version \in Versions /\ writer.make_current \in BOOLEAN
<1>1. writer # NoCall
    BY NoCallStep
<1>2. writer \in Calls
    BY <1>1 DEF RegistryTypeOK
<1>3. QED
    BY <1>2 DEF Calls

LEMMA GoToType ==
    ASSUME RegistryTypeOK, writer.step # "none",
           NEW step \in {"dump", "sidecar", "dump sidecar", "point", "name"}, GoTo(step)
    PROVE  /\ writer' \in Calls
           /\ writer'.step = step /\ writer'.version = writer.version
BY WriterFields DEF GoTo, Calls

LEMMA CallType ==
    ASSUME RegistryTypeOK, NEW v \in Versions, NEW make_current \in BOOLEAN,
           NEW step \in {"dump", "point"}, Call(step, v, make_current)
    PROVE  /\ writer' \in Calls /\ writer'.step = step /\ writer'.version = v
           /\ writes' \in 0 .. MaxWrites /\ writer.step = "none"
<1>1. writer = NoCall /\ writes \in Nat /\ writes + 1 \in 0 .. MaxWrites
    BY RegistryAssumption DEF RegistryTypeOK, Call
<1>2. writer' = [step |-> step, version |-> v, make_current |-> make_current]
    BY DEF Call
<1>3. writer' \in Calls /\ writer'.step = step /\ writer'.version = v
    BY <1>2 DEF Calls
<1>4. QED
    BY <1>1, <1>3, NoCallStep DEF Call

LEMMA RegistryStep ==
    ASSUME RegistryInv, RegistryNext
    PROVE  RegistryInv'
<1> USE DEF RegistryInv, TornIsSpoiled, NamedExists
<1>0. RegistryTypeOK
    OBVIOUS
<1>1. ASSUME NEW v \in Versions, NEW make_current \in BOOLEAN, Publish(v, make_current)
      PROVE  RegistryInv'
  <2>1. /\ writer' \in Calls /\ writer'.step = "dump" /\ writer'.version = v
        /\ writes' \in 0 .. MaxWrites /\ writer.step = "none"
    BY <1>0, <1>1, CallType DEF Publish
  <2>2. QED
    BY <1>0, <1>1, <2>1 DEF Publish, RegistryTypeOK, Files
<1>2. ASSUME NEW v \in Versions, Rollback(v)
      PROVE  RegistryInv'
  <2>1. /\ writer' \in Calls /\ writer'.step = "point" /\ writer'.version = v
        /\ writes' \in 0 .. MaxWrites /\ writer.step = "none"
    BY <1>0, <1>2, CallType DEF Rollback
  <2>2. QED
    BY <1>0, <1>2, <2>1 DEF Rollback, RegistryTypeOK
<1>3. CASE DumpBundle
  <2>1. /\ writer' \in Calls /\ writer'.step = "sidecar"
        /\ writer'.version = writer.version /\ writer.version \in Versions
    BY <1>0, <1>3, GoToType, WriterFields DEF DumpBundle
  <2>2. QED
    BY <1>0, <1>3, <2>1 DEF DumpBundle, RegistryTypeOK, Files
<1>4. CASE OpenSidecar
  <2>1. /\ writer' \in Calls /\ writer'.step = "dump sidecar"
        /\ writer'.version = writer.version /\ writer.version \in Versions
    BY <1>0, <1>4, GoToType, WriterFields DEF OpenSidecar
  <2>2. QED
    BY <1>0, <1>4, <2>1 DEF OpenSidecar, RegistryTypeOK, Files
<1>5. CASE DumpSidecar
  <2>1. writer.version \in Versions
    BY <1>0, <1>5, WriterFields DEF DumpSidecar
  <2>2. \/ writer' = NoCall
        \/ writer' \in Calls /\ writer'.step = "point"
    BY <1>0, <1>5, GoToType DEF DumpSidecar
  <2>3. writer'.step \in {"none", "point"}
    BY <2>2, NoCallStep
  <2>4. RegistryTypeOK'
    BY <1>0, <1>5, <2>1, <2>2 DEF DumpSidecar, RegistryTypeOK, Files
  <2>5. writer.step # "dump" /\ bundle[writer.version] # "absent"
    BY <1>5 DEF DumpSidecar
  <2>6. TornIsSpoiled'
    BY <1>5, <2>5 DEF DumpSidecar
  <2>7. NamedExists'
    BY <1>0, <1>5, <2>1, <2>3, <2>5 DEF DumpSidecar, RegistryTypeOK
  <2>8. QED
    BY <2>4, <2>6, <2>7
<1>6. CASE OpenPointer
  <2>1. /\ writer' \in Calls /\ writer'.step = "name"
        /\ writer'.version = writer.version /\ writer.version \in Versions
    BY <1>0, <1>6, GoToType, WriterFields DEF OpenPointer
  <2>2. QED
    BY <1>0, <1>6, <2>1, RegistryAssumption DEF OpenPointer, RegistryTypeOK
<1>7. CASE VersionMissing
    BY <1>0, <1>7 DEF VersionMissing, RegistryTypeOK, NoCall
<1>8. CASE NameVersion
  <2>1. writer.version \in Versions
    BY <1>0, <1>8, WriterFields DEF NameVersion
  <2>2. QED
    BY <1>0, <1>8, <2>1 DEF NameVersion, RegistryTypeOK, NoCall
<1>9. CASE WriterDies
  <2>1. writer.step = "dump" => writer.version \in Versions
    BY <1>0, WriterFields
  <2>2. writer'.step = "none" /\ writer' = NoCall
    BY <1>9 DEF WriterDies, NoCall
  <2>3. QED
    BY <1>0, <1>9, <2>1, <2>2 DEF WriterDies, RegistryTypeOK
<1>10. QED
    BY <1>1, <1>2, <1>3, <1>4, <1>5, <1>6, <1>7, <1>8, <1>9 DEF RegistryNext

-----------------------------------------------------------------------------
(* The consumer's types.                                                   *)
LEMMA ConsumerInitType == ConsumerInit => ConsumerTypeOK
<1> SUFFICES ASSUME ConsumerInit PROVE ConsumerTypeOK
    OBVIOUS
<1>1. QueueTypeOK
    BY DEF ConsumerInit, QueueInit, QueueTypeOK
<1>2. 0 \in Offsets /\ MaxStops \in Nat
    BY ConsumerAssumption DEF Offsets
<1>3. deliveries \in [Messages -> Nat]
    BY DEF ConsumerInit
<1>4. crashes \in Nat /\ closes \in Nat /\ crashes + closes <= MaxStops
    BY <1>2 DEF ConsumerInit
<1>5. /\ produced \in Offsets /\ position \in Offsets
      /\ up \in BOOLEAN /\ settled \subseteq Messages /\ skipped \subseteq Messages
    BY <1>2 DEF ConsumerInit
<1>6. /\ stored \in Offsets \cup {None} /\ committed \in Offsets \cup {None}
      /\ job \in [step : {"score", "push"}, message : Messages] \cup {NoJob}
    BY DEF ConsumerInit
<1>7. QED
    BY <1>1, <1>3, <1>4, <1>5, <1>6 DEF ConsumerTypeOK

LEMMA QueueStepType ==
    ASSUME QueueTypeOK, NEW id \in AlertIds
    PROVE  /\ \A payload \in Payloads : Push(id, payload) => QueueTypeOK'
           /\ \A label \in Labels, analyst \in Analysts :
                  alerts[id] # NoAlert /\ Disposition(id, label, analyst) => QueueTypeOK'
<1>1. ASSUME NEW payload \in Payloads, Push(id, payload)
      PROVE  QueueTypeOK'
    BY <1>1 DEF Push, WithAlert, QueueTypeOK, Rows
<1>2. ASSUME NEW label \in Labels, NEW analyst \in Analysts,
             alerts[id] # NoAlert, Disposition(id, label, analyst)
      PROVE  QueueTypeOK'
  <2>1. alerts[id] \in Rows
    BY <1>2 DEF QueueTypeOK
  <2>2. [alerts[id] EXCEPT !.disposition = label] \in Rows
    BY <2>1 DEF Rows
  <2>3. alerts' \in [AlertIds -> Rows \cup {NoAlert}]
    BY <1>2, <2>2 DEF Disposition, WithDisposition, QueueTypeOK
  <2>4. AuditRow(id, label, analyst, PriorIn(alerts, id)) \in AuditRows
    BY <1>2, <2>1 DEF AuditRow, AuditRows, PriorIn, Rows
  <2>5. audit' \in Seq(AuditRows)
    BY <1>2, <2>4 DEF Disposition, QueueTypeOK
  <2>6. QED
    BY <2>3, <2>5 DEF QueueTypeOK
<1>3. QED
    BY <1>1, <1>2

LEMMA JobFields ==
    ASSUME ConsumerTypeOK, job # NoJob
    PROVE  job.step \in {"score", "push"} /\ job.message \in Messages
BY DEF ConsumerTypeOK, NoJob

LEMMA NoJobStep == NoJob.step = "none"
BY DEF NoJob

LEMMA MessagesAreNumbers ==
    /\ MaxMessages \in Nat /\ MaxStops \in Nat /\ Messages = 1 .. MaxMessages
    /\ Offsets = 0 .. MaxMessages /\ None \notin Int /\ AlertIds = Messages
BY ConsumerAssumption DEF Messages, Offsets

LEMMA SettleType ==
    ASSUME ConsumerTypeOK, job # NoJob, Settle, QueueTypeOK'
    PROVE  ConsumerTypeOK'
BY JobFields DEF Settle, ConsumerTypeOK

LEMMA StopType ==
    ASSUME ConsumerTypeOK, Stop, committed' \in Offsets \cup {None},
           \/ crashes' = crashes + 1 /\ closes' = closes
           \/ closes' = closes + 1 /\ crashes' = crashes
    PROVE  ConsumerTypeOK'
<1>1. QueueTypeOK'
    BY DEF Stop, ConsumerTypeOK, QueueTypeOK, queueVars
<1>2. crashes' \in Nat /\ closes' \in Nat /\ crashes' + closes' <= MaxStops
    BY MessagesAreNumbers DEF Stop, ConsumerTypeOK
<1>3. QED
    BY <1>1, <1>2 DEF Stop, ConsumerTypeOK

LEMMA ConsumerStepType ==
    ASSUME ConsumerTypeOK, ConsumerNext
    PROVE  ConsumerTypeOK'
<1>0. UNCHANGED queueVars => QueueTypeOK'
    BY DEF ConsumerTypeOK, QueueTypeOK, queueVars
<1>1. CASE Produce
    BY <1>0, <1>1, MessagesAreNumbers DEF Produce, ConsumerTypeOK, loopVars
<1>2. CASE Poll
  <2>1. /\ position' \in Offsets /\ stored' \in Offsets
        /\ job' \in [step : {"score", "push"}, message : Messages]
    BY <1>2, MessagesAreNumbers DEF Poll, ConsumerTypeOK
  <2>2. deliveries' \in [Messages -> Nat]
    BY <1>2, MessagesAreNumbers DEF Poll, ConsumerTypeOK
  <2>3. QED
    BY <1>0, <1>2, <2>1, <2>2 DEF Poll, ConsumerTypeOK
<1>3. CASE AutoCommit
    BY <1>0, <1>3 DEF AutoCommit, ConsumerTypeOK
<1>4. CASE ScoreQuietly
    BY <1>0, <1>4, SettleType, NoJobStep DEF ScoreQuietly, Scored
<1>5. CASE ScoreAlert
  <2>1. job # NoJob
    BY <1>5, NoJobStep DEF ScoreAlert, Scored
  <2>2. job' \in [step : {"score", "push"}, message : Messages]
    BY <1>5, <2>1 DEF ScoreAlert, ConsumerTypeOK
  <2>3. QED
    BY <1>0, <1>5, <2>2 DEF ScoreAlert, ConsumerTypeOK
<1>6. CASE Swallow
    BY <1>0, <1>6, SettleType DEF Swallow
<1>7. ASSUME NEW payload \in Payloads, PushAlert(payload)
      PROVE  ConsumerTypeOK'
  <2>1. job # NoJob
    BY <1>7, NoJobStep DEF PushAlert
  <2>2. QueueTypeOK'
    BY <1>7, <2>1, QueueStepType, JobFields, MessagesAreNumbers
    DEF PushAlert, ConsumerTypeOK
  <2>3. QED
    BY <1>7, <2>1, <2>2, SettleType DEF PushAlert
<1>8. CASE Close
    BY <1>8, StopType DEF Close, ConsumerTypeOK
<1>9. CASE Crash
    BY <1>9, StopType DEF Crash, ConsumerTypeOK
<1>10. ASSUME NEW id \in AlertIds, NEW label \in Labels, NEW analyst \in Analysts,
              Decide(id, label, analyst)
       PROVE  ConsumerTypeOK'
  <2>1. QueueTypeOK'
    BY <1>10, QueueStepType DEF Decide, ConsumerTypeOK
  <2>2. QED
    BY <1>10, <2>1 DEF Decide, ConsumerTypeOK, consumerVars, loopVars
<1>11. QED
    BY <1>1, <1>2, <1>3, <1>4, <1>5, <1>6, <1>7, <1>8, <1>9, <1>10
    DEF ConsumerNext, LoopBody

LEMMA SubscribeType ==
    ASSUME ConsumerTypeOK, Subscribe
    PROVE  ConsumerTypeOK'
<1>1. QueueTypeOK'
    BY DEF Subscribe, ConsumerTypeOK, QueueTypeOK, queueVars
<1>2. position' \in Offsets
    BY DEF Subscribe, ConsumerTypeOK
<1>3. skipped' \subseteq Messages
    BY MessagesAreNumbers DEF Subscribe, ConsumerTypeOK
<1>4. QED
    BY <1>1, <1>2, <1>3 DEF Subscribe, ConsumerTypeOK

-----------------------------------------------------------------------------
(* What a process has polled is what it will commit, and a process that    *)
(* has polled nothing stands at the group's offset.                        *)
OffsetsAgree ==
    /\ position <= produced
    /\ committed # None => committed <= produced
    /\ stored # None => stored = position
    /\ ~up => stored = None /\ job = NoJob
    /\ up /\ stored = None /\ committed # None => committed = position

(* The consumer's messages that no loop body has ended, that were not      *)
(* passed over and that are not in hand, whether or not the group will see *)
(* them again.                                                             *)
Missed == ((1 .. position) \cup Acknowledged) \ (settled \cup skipped \cup InHand)

MissedBounded == Cardinality(Missed) <= crashes + closes

(* Where the present process continues, or the next one will start.        *)
NextOffset == IF up THEN position ELSE IF committed = None THEN produced ELSE committed

DeliveriesBounded ==
    /\ \A m \in Messages : deliveries[m] <= 1 + crashes
    /\ \A m \in Messages : m > NextOffset => deliveries[m] <= crashes

ConsumerInv == ConsumerTypeOK /\ OffsetsAgree /\ MissedBounded /\ DeliveriesBounded

LEMMA OffsetTypes ==
    ASSUME ConsumerTypeOK
    PROVE  /\ position \in Nat /\ produced \in Nat
           /\ position <= MaxMessages /\ produced <= MaxMessages
           /\ committed # None => committed \in Nat /\ committed <= MaxMessages
           /\ stored # None => stored \in Nat
           /\ crashes \in Nat /\ closes \in Nat
BY MessagesAreNumbers DEF ConsumerTypeOK

LEMMA OffsetsStep ==
    ASSUME ConsumerTypeOK, OffsetsAgree, ConsumerNext
    PROVE  OffsetsAgree'
<1> USE OffsetTypes, MessagesAreNumbers DEF OffsetsAgree
<1>1. CASE Produce
    BY <1>1 DEF Produce, loopVars
<1>2. CASE Poll
    BY <1>2 DEF Poll
<1>3. CASE AutoCommit
    BY <1>3 DEF AutoCommit
<1>4. CASE Settle
    BY <1>4 DEF Settle
<1>5. CASE ScoreAlert
  <2>1. job # NoJob
    BY <1>5, NoJobStep DEF ScoreAlert, Scored
  <2>2. QED
    BY <1>5, <2>1 DEF ScoreAlert
<1>6. CASE Close
    BY <1>6 DEF Close, Stop
<1>7. CASE Crash
    BY <1>7 DEF Crash, Stop
<1>8. CASE UNCHANGED consumerVars
    BY <1>8 DEF consumerVars, loopVars
<1>9. QED
    BY <1>1, <1>2, <1>3, <1>4, <1>5, <1>6, <1>7, <1>8
    DEF ConsumerNext, LoopBody, ScoreQuietly, Swallow, PushAlert, Decide

LEMMA OffsetsSubscribe ==
    ASSUME ConsumerTypeOK, OffsetsAgree, Subscribe
    PROVE  OffsetsAgree'
BY OffsetTypes DEF OffsetsAgree, Subscribe

-----------------------------------------------------------------------------
LEMMA MissedFinite ==
    ASSUME ConsumerTypeOK
    PROVE  /\ Missed \subseteq Messages /\ IsFiniteSet(Missed)
           /\ Cardinality(Missed) \in Nat
<1>1. Missed \subseteq Messages
    BY OffsetTypes, MessagesAreNumbers DEF Missed, Acknowledged
<1>2. IsFiniteSet(Messages)
    BY MessagesAreNumbers, FS_Interval
<1>3. IsFiniteSet(Missed)
    BY <1>1, <1>2, FS_Subset
<1>4. QED
    BY <1>1, <1>3, FS_CardinalityType

(* A step that misses nothing new keeps the bound.                         *)
LEMMA MissedShrinks ==
    ASSUME ConsumerTypeOK, ConsumerTypeOK', MissedBounded, Missed' \subseteq Missed,
           crashes' = crashes, closes' = closes
    PROVE  MissedBounded'
<1>1. Cardinality(Missed') <= Cardinality(Missed)
    BY MissedFinite, FS_Subset
<1>2. Cardinality(Missed') \in Nat
  <2>1. IsFiniteSet(Missed')
    BY MissedFinite, FS_Subset
  <2>2. QED
    BY <2>1, FS_CardinalityType
<1>3. QED
    BY <1>1, <1>2, MissedFinite, OffsetTypes DEF MissedBounded

(* A stop misses the message in hand and no other.                         *)
LEMMA MissedOneMore ==
    ASSUME ConsumerTypeOK, ConsumerTypeOK', MissedBounded, NEW m,
           Missed' \subseteq Missed \cup {m},
           crashes' + closes' = crashes + closes + 1
    PROVE  MissedBounded'
<1>0. IsFiniteSet(Missed) /\ Cardinality(Missed) \in Nat
    BY MissedFinite
<1>1. /\ IsFiniteSet(Missed \cup {m})
      /\ Cardinality(Missed \cup {m}) <= Cardinality(Missed) + 1
      /\ Cardinality(Missed \cup {m}) \in Nat
  <2>1. /\ IsFiniteSet(Missed \cup {m})
        /\ Cardinality(Missed \cup {m}) =
               IF m \in Missed THEN Cardinality(Missed) ELSE Cardinality(Missed) + 1
    BY <1>0, FS_AddElement
  <2>2. QED
    BY <1>0, <2>1
<1>2. IsFiniteSet(Missed') /\ Cardinality(Missed') <= Cardinality(Missed \cup {m})
    BY <1>1, FS_Subset
<1>3. Cardinality(Missed') \in Nat
    BY <1>2, FS_CardinalityType
<1>4. QED
    BY <1>1, <1>2, <1>3, MissedFinite, OffsetTypes DEF MissedBounded

LEMMA MissedStep ==
    ASSUME ConsumerTypeOK, ConsumerTypeOK', OffsetsAgree, MissedBounded, ConsumerNext
    PROVE  MissedBounded'
<1> USE OffsetTypes
<1>1. CASE Produce
  <2>1. Missed' = Missed
    BY <1>1 DEF Produce, loopVars, Missed, Acknowledged, InHand
  <2>2. QED
    BY <1>1, <2>1, MissedShrinks DEF Produce
<1>2. CASE Poll
  <2>1. InHand' = {position + 1}
    BY <1>2, NoJobStep DEF Poll, InHand
  <2>2. Missed' \subseteq Missed
    BY <1>2, <2>1 DEF Poll, Missed, Acknowledged, InHand
  <2>3. QED
    BY <1>2, <2>2, MissedShrinks DEF Poll
<1>3. CASE AutoCommit
  <2>1. Missed' \subseteq Missed
    BY <1>3 DEF AutoCommit, OffsetsAgree, Missed, Acknowledged, InHand
  <2>2. QED
    BY <1>3, <2>1, MissedShrinks DEF AutoCommit
<1>4. CASE job # NoJob /\ Settle
  <2>1. InHand = {job.message} /\ InHand' = {}
    BY <1>4 DEF Settle, InHand
  <2>2. Missed' \subseteq Missed
    BY <1>4, <2>1 DEF Settle, Missed, Acknowledged
  <2>3. QED
    BY <1>4, <2>2, MissedShrinks DEF Settle
<1>5. CASE ScoreAlert
  <2>1. job # NoJob
    BY <1>5, NoJobStep DEF ScoreAlert, Scored
  <2>2. job'.step = "push" /\ job'.message = job.message
    BY <1>5, <2>1 DEF ScoreAlert, ConsumerTypeOK
  <2>3. InHand' = InHand
    BY <2>1, <2>2, NoJobStep DEF InHand
  <2>4. Missed' = Missed
    BY <1>5, <2>3 DEF ScoreAlert, Missed, Acknowledged
  <2>5. QED
    BY <1>5, <2>4, MissedShrinks DEF ScoreAlert
<1>6. CASE Close \/ Crash
  <2>1. InHand \subseteq {job.message} /\ InHand' = {}
    BY <1>6 DEF Close, Crash, Stop, InHand
  <2>2. position' = position /\ settled' = settled /\ skipped' = skipped
    BY <1>6 DEF Close, Crash, Stop
  <2>3. Acknowledged' \subseteq (1 .. position) \cup Acknowledged
    BY <1>6 DEF Close, Crash, OffsetsAgree, Acknowledged
  <2>4. Missed' \subseteq Missed \cup {job.message}
    BY <2>1, <2>2, <2>3 DEF Missed
  <2>5. crashes' + closes' = crashes + closes + 1
    BY <1>6 DEF Close, Crash
  <2>6. QED
    BY <2>4, <2>5, MissedOneMore
<1>7. CASE UNCHANGED consumerVars
  <2>1. Missed' = Missed
    BY <1>7 DEF consumerVars, loopVars, Missed, Acknowledged, InHand
  <2>2. QED
    BY <1>7, <2>1, MissedShrinks DEF consumerVars
<1>8. LoopBody => ScoreAlert \/ (job # NoJob /\ Settle)
    BY NoJobStep DEF LoopBody, ScoreQuietly, Scored, Swallow, PushAlert
<1>9. QED
    BY <1>1, <1>2, <1>3, <1>4, <1>5, <1>6, <1>7, <1>8 DEF ConsumerNext, Decide

LEMMA MissedSubscribe ==
    ASSUME ConsumerTypeOK, ConsumerTypeOK', MissedBounded, Subscribe
    PROVE  MissedBounded'
<1>1. Missed' \subseteq Missed
    BY OffsetTypes DEF Subscribe, Missed, Acknowledged, InHand
<1>2. QED
    BY <1>1, MissedShrinks DEF Subscribe

-----------------------------------------------------------------------------
LEMMA DeliveriesStep ==
    ASSUME ConsumerTypeOK, OffsetsAgree, DeliveriesBounded, ConsumerNext
    PROVE  DeliveriesBounded'
<1> USE OffsetTypes, MessagesAreNumbers
<1>0. \A m \in Messages : m \in Nat /\ deliveries[m] \in Nat
    BY DEF ConsumerTypeOK
<1>1. CASE Produce
  <2>1. NextOffset <= NextOffset'
    BY <1>1 DEF Produce, loopVars, NextOffset
  <2>2. NextOffset \in Nat /\ NextOffset' \in Nat
    BY <1>1 DEF Produce, loopVars, NextOffset
  <2>3. QED
    BY <1>0, <1>1, <2>1, <2>2 DEF Produce, DeliveriesBounded
<1>2. CASE Poll
  <2>1. NextOffset = position /\ NextOffset' = position + 1
    BY <1>2 DEF Poll, NextOffset
  <2>2. \A m \in Messages :
            deliveries'[m] = IF m = position + 1 THEN deliveries[m] + 1 ELSE deliveries[m]
    BY <1>2 DEF Poll, ConsumerTypeOK
  <2>3. crashes' = crashes
    BY <1>2 DEF Poll
  <2>4. QED
    BY <1>0, <2>1, <2>2, <2>3, SMTT(30) DEF DeliveriesBounded
<1>3. CASE AutoCommit
    BY <1>3 DEF AutoCommit, NextOffset, DeliveriesBounded
<1>4. CASE Settle
    BY <1>4 DEF Settle, NextOffset, DeliveriesBounded
<1>5. CASE ScoreAlert
    BY <1>5 DEF ScoreAlert, NextOffset, DeliveriesBounded
<1>6. CASE Close
  <2>1. NextOffset \in Nat /\ NextOffset' \in Nat /\ NextOffset <= NextOffset'
    BY <1>6 DEF Close, Stop, OffsetsAgree, NextOffset
  <2>2. deliveries' = deliveries /\ crashes' = crashes
    BY <1>6 DEF Close, Stop
  <2>3. QED
    BY <1>0, <2>1, <2>2 DEF DeliveriesBounded
<1>7. CASE Crash
  <2>1. deliveries' = deliveries /\ crashes' = crashes + 1
    BY <1>7 DEF Crash, Stop
  <2>2. QED
    BY <1>0, <2>1 DEF DeliveriesBounded
<1>8. CASE UNCHANGED consumerVars
    BY <1>8 DEF consumerVars, loopVars, NextOffset, DeliveriesBounded
<1>9. QED
    BY <1>1, <1>2, <1>3, <1>4, <1>5, <1>6, <1>7, <1>8
    DEF ConsumerNext, LoopBody, ScoreQuietly, Swallow, PushAlert, Decide

LEMMA DeliveriesSubscribe ==
    ASSUME DeliveriesBounded, Subscribe
    PROVE  DeliveriesBounded'
BY DEF DeliveriesBounded, Subscribe, NextOffset

-----------------------------------------------------------------------------
LEMMA ConsumerInitInv == ConsumerInit => ConsumerInv
<1> SUFFICES ASSUME ConsumerInit PROVE ConsumerInv
    OBVIOUS
<1>1. ConsumerTypeOK
    BY ConsumerInitType
<1>2. OffsetsAgree
    BY DEF ConsumerInit, OffsetsAgree
<1>3. Missed = {}
    BY DEF ConsumerInit, Missed, Acknowledged
<1>4. MissedBounded
    BY <1>3, FS_EmptySet DEF MissedBounded, ConsumerInit
<1>5. DeliveriesBounded
    BY DEF ConsumerInit, DeliveriesBounded
<1>6. QED
    BY <1>1, <1>2, <1>4, <1>5 DEF ConsumerInv

LEMMA ConsumerStepInv ==
    ASSUME ConsumerInv, ConsumerNext \/ Subscribe \/ UNCHANGED <<consumerVars, queueVars>>
    PROVE  ConsumerInv'
<1> USE DEF ConsumerInv
<1>1. CASE ConsumerNext
    BY <1>1, ConsumerStepType, OffsetsStep, MissedStep, DeliveriesStep
<1>2. CASE Subscribe
    BY <1>2, SubscribeType, OffsetsSubscribe, MissedSubscribe, DeliveriesSubscribe
<1>3. CASE UNCHANGED <<consumerVars, queueVars>>
  <2>1. ConsumerTypeOK'
    BY <1>3 DEF consumerVars, loopVars, queueVars, ConsumerTypeOK, QueueTypeOK
  <2>2. OffsetsAgree' /\ DeliveriesBounded'
    BY <1>3 DEF consumerVars, loopVars, OffsetsAgree, DeliveriesBounded, NextOffset
  <2>3. MissedBounded'
    BY <1>3 DEF consumerVars, loopVars, MissedBounded, Missed, Acknowledged, InHand
  <2>4. QED
    BY <2>1, <2>2, <2>3
<1>4. QED
    BY <1>1, <1>2, <1>3

LEMMA RegistryStutter ==
    ASSUME RegistryInv, UNCHANGED registryVars
    PROVE  RegistryInv'
BY DEF RegistryInv, RegistryTypeOK, TornIsSpoiled, NamedExists, registryVars

(* Every step of the deployment is a step of the registry or of the        *)
(* consumer, and leaves the other's variables alone.                       *)
LEMMA StepParts ==
    ASSUME [Next]_vars
    PROVE  /\ RegistryNext \/ UNCHANGED registryVars
           /\ ConsumerNext \/ Subscribe \/ UNCHANGED <<consumerVars, queueVars>>
BY DEF Next, vars, ReadPointer, Start, StartFails, Registry, Consumer, Finished

(* Whatever its pointer or an operator names can be loaded, except a       *)
(* version whose own publish was cut off or is under way: for any versions *)
(* and any sequence of calls and deaths (model_registry.py).               *)
THEOREM PublishedIsLoadable == Spec => []OnlyCutOffPublishSpoils
<1>1. Init => RegistryInv
    BY RegistryInitInv DEF Init
<1>2. RegistryInv /\ [Next]_vars => RegistryInv'
    BY StepParts, RegistryStep, RegistryStutter
<1>3. RegistryInv => OnlyCutOffPublishSpoils
    BY DEF RegistryInv, RegistryTypeOK, TornIsSpoiled, NamedExists, Files,
           OnlyCutOffPublishSpoils
<1>4. QED
    BY <1>1, <1>2, <1>3, PTL DEF Spec

(* The consumer's invariant: offsets that agree, the messages it misses    *)
(* counted by its stops and the deliveries by its crashes                  *)
(* (kafka_consumer.py, run).                                               *)
THEOREM ConsumerInvariant == Spec => []ConsumerInv
<1>1. Init => ConsumerInv
    BY ConsumerInitInv DEF Init
<1>2. ConsumerInv /\ [Next]_vars => ConsumerInv'
    BY StepParts, ConsumerStepInv
<1>3. QED
    BY <1>1, <1>2, PTL DEF Spec

(* For any number of messages, stops and polls, and any poison: no more    *)
(* messages are lost than the process was stopped (kafka_consumer.py:      *)
(* enable.auto.commit around a loop of one message at a time).             *)
THEOREM LossIsBounded == Spec => []LossBounded
<1>1. ConsumerInv => LossBounded
  <2> SUFFICES ASSUME ConsumerInv PROVE LossBounded
    OBVIOUS
  <2>1. Lost \subseteq Missed
    BY DEF Lost, Missed
  <2>2. IsFiniteSet(Missed) /\ Cardinality(Missed) \in Nat
    BY MissedFinite DEF ConsumerInv
  <2>3. IsFiniteSet(Lost) /\ Cardinality(Lost) <= Cardinality(Missed)
    BY <2>1, <2>2, FS_Subset
  <2>4. Cardinality(Lost) \in Nat
    BY <2>3, FS_CardinalityType
  <2>5. QED
    BY <2>2, <2>3, <2>4, OffsetTypes DEF ConsumerInv, MissedBounded, LossBounded
<1>2. QED
    BY <1>1, ConsumerInvariant, PTL

(* A message is delivered at most once more than the process crashed,      *)
(* however often it was stopped in order (kafka_consumer.py, run: the      *)
(* finally clause).                                                        *)
THEOREM CrashesBoundDuplicates == Spec => []DuplicatesOnlyByCrash
<1>1. ConsumerInv => DuplicatesOnlyByCrash
    BY DEF ConsumerInv, DeliveriesBounded, DuplicatesOnlyByCrash
<1>2. QED
    BY <1>1, ConsumerInvariant, PTL

-----------------------------------------------------------------------------
(* A row of the queue was polled, and one of the message in hand was polled*)
(* before.                                                                 *)
RowsWerePolled ==
    /\ \A m \in Messages : alerts[m] # NoAlert => deliveries[m] >= 1
    /\ job # NoJob =>
           /\ deliveries[job.message] >= 1
           /\ alerts[job.message] # NoAlert => deliveries[job.message] >= 2

LEMMA SettlePolled ==
    ASSUME ConsumerTypeOK, RowsWerePolled, job # NoJob, Settle,
           \A m \in Messages : m # job.message => alerts'[m] = alerts[m]
    PROVE  RowsWerePolled'
BY JobFields, MessagesAreNumbers DEF RowsWerePolled, Settle, ConsumerTypeOK

LEMMA PolledStep ==
    ASSUME ConsumerTypeOK, RowsWerePolled, ConsumerNext
    PROVE  RowsWerePolled'
<1> USE MessagesAreNumbers DEF RowsWerePolled
<1>0. deliveries \in [Messages -> Nat] /\ alerts \in [Messages -> Rows \cup {NoAlert}]
    BY DEF ConsumerTypeOK, QueueTypeOK
<1>1. CASE Produce \/ AutoCommit
    BY <1>1 DEF Produce, AutoCommit, loopVars, queueVars
<1>2. CASE Poll
  <2> DEFINE m == position + 1
  <2>1. /\ m \in Messages /\ job'.message = m /\ job' # NoJob
        /\ deliveries' = [deliveries EXCEPT ![m] = @ + 1] /\ alerts' = alerts
    BY <1>2, NoJobStep DEF Poll, queueVars, ConsumerTypeOK
  <2> HIDE DEF m
  <2>2. deliveries'[m] = deliveries[m] + 1
        /\ \A n \in Messages : n # m => deliveries'[n] = deliveries[n]
    BY <1>0, <2>1
  <2>3. QED
    BY <1>0, <2>1, <2>2
<1>3. CASE ScoreQuietly \/ Swallow
  <2>1. job # NoJob /\ Settle /\ alerts' = alerts
    BY <1>3, NoJobStep DEF ScoreQuietly, Scored, Swallow, queueVars
  <2>2. QED
    BY <2>1, SettlePolled
<1>4. CASE ScoreAlert
  <2>1. job # NoJob
    BY <1>4, NoJobStep DEF ScoreAlert, Scored
  <2>2. job'.message = job.message /\ UNCHANGED <<deliveries, alerts>>
    BY <1>4, <2>1 DEF ScoreAlert, queueVars, ConsumerTypeOK
  <2>3. QED
    BY <2>1, <2>2
<1>5. ASSUME NEW payload \in Payloads, PushAlert(payload)
      PROVE  RowsWerePolled'
  <2>1. job # NoJob /\ Settle
    BY <1>5, NoJobStep DEF PushAlert
  <2>2. \A m \in Messages : m # job.message => alerts'[m] = alerts[m]
    BY <1>0, <1>5 DEF PushAlert, Push, WithAlert
  <2>3. QED
    BY <2>1, <2>2, SettlePolled
<1>6. CASE Close \/ Crash
    BY <1>6 DEF Close, Crash, Stop, queueVars
<1>7. ASSUME NEW id \in AlertIds, NEW label \in Labels, NEW analyst \in Analysts,
             Decide(id, label, analyst)
      PROVE  RowsWerePolled'
  <2>1. \A m \in Messages : alerts'[m] # NoAlert => alerts[m] # NoAlert
    BY <1>0, <1>7 DEF Decide, Disposition, WithDisposition
  <2>2. UNCHANGED <<job, deliveries>>
    BY <1>7 DEF Decide, consumerVars, loopVars
  <2>3. job # NoJob => job.message \in Messages
    BY JobFields
  <2>4. QED
    BY <2>1, <2>2, <2>3
<1>8. QED
    BY <1>1, <1>2, <1>3, <1>4, <1>5, <1>6, <1>7 DEF ConsumerNext, LoopBody

(* For any messages, polls and stops: an analyst's decision on a streamed  *)
(* alert is never undone unless the process was killed before              *)
(* (scoring.py, push, called from the consumer's loop).                    *)
THEOREM DecisionsOutliveStops == Spec => DecisionsUndoneOnlyByCrash
<1>1. Init => RowsWerePolled
    BY MessagesAreNumbers DEF Init, ConsumerInit, QueueInit, RowsWerePolled
<1>2. ConsumerInv /\ RowsWerePolled /\ [Next]_vars => RowsWerePolled'
  <2>1. ConsumerInv => ConsumerTypeOK
    BY DEF ConsumerInv
  <2>2. RowsWerePolled /\ UNCHANGED <<job, deliveries, alerts>> => RowsWerePolled'
    BY DEF RowsWerePolled
  <2>3. Subscribe \/ UNCHANGED <<consumerVars, queueVars>> =>
            UNCHANGED <<job, deliveries, alerts>>
    BY DEF Subscribe, consumerVars, loopVars, queueVars
  <2>4. QED
    BY <2>1, <2>2, <2>3, StepParts, PolledStep
<1> DEFINE Undone == \E id \in AlertIds : Decided(alerts, id) /\ ~Decided(alerts', id)
<1>3. ConsumerInv /\ RowsWerePolled /\ [Next]_vars => (Undone => crashes > 0)
  <2> SUFFICES ASSUME ConsumerInv, RowsWerePolled, [Next]_vars,
                      NEW id \in AlertIds, Decided(alerts, id), ~Decided(alerts', id)
               PROVE  crashes > 0
    OBVIOUS
  <2>1. alerts' # alerts
    OBVIOUS
  <2>2. /\ alerts \in [Messages -> Rows \cup {NoAlert}] /\ id \in Messages
        /\ deliveries \in [Messages -> Nat] /\ crashes \in Nat
    BY MessagesAreNumbers DEF ConsumerInv, ConsumerTypeOK, QueueTypeOK
  <2>3. ConsumerNext
    BY <2>1, StepParts DEF Subscribe, queueVars
  <2>4. ASSUME NEW payload \in Payloads, PushAlert(payload)
        PROVE  crashes > 0
    <3>1. job # NoJob
      BY <2>4, NoJobStep DEF PushAlert
    <3>2. id = job.message
      BY <2>2, <2>4 DEF PushAlert, Push, WithAlert, Decided
    <3>3. deliveries[id] >= 2
      BY <3>1, <3>2 DEF RowsWerePolled, Decided
    <3>4. deliveries[id] <= 1 + crashes
      BY <2>2 DEF ConsumerInv, DeliveriesBounded
    <3>5. QED
      BY <2>2, <3>3, <3>4
  <2>5. ASSUME NEW other \in AlertIds, NEW label \in Labels, NEW analyst \in Analysts,
               Decide(other, label, analyst)
        PROVE  FALSE
    <3>1. /\ alerts[other] # NoAlert
          /\ alerts' = [alerts EXCEPT ![other].disposition = label]
      BY <2>5 DEF Decide, Disposition, WithDisposition
    <3>2. other \in Messages /\ alerts[other] \in Rows
      BY <2>2, <3>1, MessagesAreNumbers
    <3>3. alerts'[other] = [alerts[other] EXCEPT !.disposition = label]
          /\ \A m \in Messages : m # other => alerts'[m] = alerts[m]
      BY <2>2, <3>1, <3>2
    <3>4. alerts'[other] \in Rows /\ alerts'[other].disposition = label
      BY <3>2, <3>3 DEF Rows
    <3>5. QED
      BY <2>2, <3>3, <3>4, RowAssumption DEF Decided
  <2>6. CASE Produce \/ Poll \/ AutoCommit \/ ScoreQuietly \/ ScoreAlert \/ Swallow
             \/ Close \/ Crash
    BY <2>1, <2>6 DEF Produce, Poll, AutoCommit, ScoreQuietly, ScoreAlert, Swallow,
                      Close, Crash, Stop, queueVars
  <2>7. QED
    BY <2>3, <2>4, <2>5, <2>6 DEF ConsumerNext, LoopBody
<1>4. ConsumerInv /\ RowsWerePolled /\ [Next]_vars =>
          [\A id \in AlertIds :
              Decided(alerts, id) /\ ~Decided(alerts', id) => crashes > 0]_<<consumerVars, queueVars>>
    BY <1>3
<1>5. QED
    BY <1>1, <1>2, <1>4, ConsumerInvariant, PTL DEF Spec, DecisionsUndoneOnlyByCrash

-----------------------------------------------------------------------------
(* The types of all variables, for any constants: a starting process loads *)
(* a version or the pilot whatever the pointer file holds (scoring.py,     *)
(* ScoringEngine.__init__, current_path() or cfg.model_path).              *)
THEOREM TypeCorrect == Spec => []TypeOK
<1> DEFINE Models == Versions \cup {Pilot, None}
           ModelType == loading \in Models /\ model \in Models
<1>1. Init => RegistryInv /\ ConsumerInv /\ ModelType
    BY RegistryInitInv, ConsumerInitInv DEF Init
<1>2. RegistryInv /\ ConsumerInv /\ ModelType /\ [Next]_vars
        => (RegistryInv /\ ConsumerInv /\ ModelType)'
  <2> SUFFICES ASSUME RegistryInv, ConsumerInv, ModelType, [Next]_vars
               PROVE  (RegistryInv /\ ConsumerInv /\ ModelType)'
    OBVIOUS
  <2>1. RegistryInv' /\ ConsumerInv'
    BY StepParts, RegistryStep, RegistryStutter, ConsumerStepInv
  <2>2. ModelType'
    BY DEF Next, vars, ReadPointer, Start, StartFails, Registry, Consumer, Finished
  <2>3. QED
    BY <2>1, <2>2
<1>3. RegistryInv /\ ConsumerInv /\ ModelType => TypeOK
    BY DEF RegistryInv, ConsumerInv, TypeOK
<1>4. QED
    BY <1>1, <1>2, <1>3, PTL DEF Spec
=============================================================================
