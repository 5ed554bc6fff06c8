--------------------------- MODULE KafkaConsumer ---------------------------
(***************************************************************************)
(* The stream ingress (finguard/kafka_consumer.py): the poll loop of one   *)
(* institution's consumer over one partition, with auto-commit, its own    *)
(* engine and its own connection to the alert queue that the HTTP service  *)
(* reads.  Messages are numbered 1, 2, ... in partition order and have     *)
(* distinct transaction ids: the alert of message m has id m.              *)
(*                                                                         *)
(* Outside the code: the client library stores the offset of a message as  *)
(* poll returns it and commits the stored offset from a timer; close       *)
(* commits it too.  Starting is in Deployment.                             *)
(***************************************************************************)
EXTENDS AlertQueue, FiniteSets

CONSTANTS
    MaxMessages,     \* bound on the messages of the partition
    Poison,          \* messages that cannot be scored
    MaxStops,        \* bound on the stops of the process
    MaxDecisions,    \* bound on the dispositions
    None             \* no offset, no message

Messages == 1 .. MaxMessages

ASSUME ConsumerAssumption ==
    /\ MaxMessages \in Nat /\ MaxStops \in Nat /\ MaxDecisions \in Nat
    /\ AlertIds = Messages /\ Poison \subseteq Messages
    /\ None \notin Int
ASSUME RowAssumption == Null \notin Labels /\ NoAlert \notin Rows

VARIABLES
    produced,    \* messages in the partition
    up,          \* the loop runs
    position,    \* messages polled or skipped by this process
    stored,      \* what the next commit of this process will commit
    committed,   \* the offset of the consumer group
    job,         \* the message between poll and the end of the loop body
    deliveries,  \* history: how often each message was polled
    settled,     \* history: messages whose loop body ended
    skipped,     \* history: messages passed over by starting at the end
    crashes, closes   \* history: stops of the process

loopVars == <<up, position, stored, committed, job>>
consumerVars == <<produced, loopVars, deliveries, settled, skipped, crashes, closes>>

Offsets == 0 .. MaxMessages
NoJob == [step |-> "none"]

ConsumerTypeOK ==
    /\ QueueTypeOK
    /\ produced \in Offsets /\ position \in Offsets
    /\ up \in BOOLEAN
    /\ stored \in Offsets \cup {None} /\ committed \in Offsets \cup {None}
    /\ job \in [step : {"score", "push"}, message : Messages] \cup {NoJob}
    /\ deliveries \in [Messages -> Nat]
    /\ settled \subseteq Messages /\ skipped \subseteq Messages
    /\ crashes \in Nat /\ closes \in Nat /\ crashes + closes <= MaxStops

ConsumerInit ==
    /\ QueueInit
    /\ produced = 0 /\ up = FALSE /\ position = 0
    /\ stored = None /\ committed = None /\ job = NoJob
    /\ deliveries = [m \in Messages |-> 0]
    /\ settled = {} /\ skipped = {}
    /\ crashes = 0 /\ closes = 0

-----------------------------------------------------------------------------
Produce ==
    /\ produced < MaxMessages
    /\ produced' = produced + 1
    /\ UNCHANGED <<loopVars, deliveries, settled, skipped, crashes, closes, queueVars>>

(* subscribe: from the committed offset, or, if the group has none, from   *)
(* the end of the partition (auto.offset.reset latest).                    *)
Subscribe ==
    /\ ~up
    /\ up' = TRUE
    /\ position' = IF committed = None THEN produced ELSE committed
    /\ skipped' = IF committed = None THEN skipped \cup (1 .. produced \ settled)
                  ELSE skipped
    /\ UNCHANGED <<produced, stored, committed, job, deliveries, settled,
                   crashes, closes, queueVars>>

(* Mutant of Poll: the offset of everything fetched is stored.             *)
PollAhead ==
    /\ up /\ job = NoJob
    /\ position < produced
    /\ position' = position + 1
    /\ stored' = produced
    /\ job' = [step |-> "score", message |-> position + 1]
    /\ deliveries' = [deliveries EXCEPT ![position + 1] = @ + 1]
    /\ UNCHANGED <<produced, up, committed, settled, skipped, crashes, closes, queueVars>>

(* poll(1.0) returns the next message; None and errors go round the loop.  *)
Poll ==
    /\ up /\ job = NoJob
    /\ position < produced
    /\ position' = position + 1
    /\ stored' = position + 1
    /\ job' = [step |-> "score", message |-> position + 1]
    /\ deliveries' = [deliveries EXCEPT ![position + 1] = @ + 1]
    /\ UNCHANGED <<produced, up, committed, settled, skipped, crashes, closes, queueVars>>

(* enable.auto.commit: the timer does not wait for the loop body.          *)
AutoCommit ==
    /\ up /\ stored # None /\ stored # committed
    /\ committed' = stored
    /\ UNCHANGED <<produced, up, position, stored, job, deliveries, settled,
                   skipped, crashes, closes, queueVars>>

(* The loop body is over, one way or the other.                            *)
Settle ==
    /\ settled' = settled \cup {job.message}
    /\ job' = NoJob
    /\ UNCHANGED <<produced, up, position, stored, committed, deliveries,
                   skipped, crashes, closes>>

Scored == job.step = "score" /\ job.message \notin Poison

(* engine.score raises no alert ...                                        *)
ScoreQuietly == Scored /\ Settle /\ UNCHANGED queueVars

(* ... or one, which is to be pushed.                                      *)
ScoreAlert ==
    /\ Scored
    /\ job' = [job EXCEPT !.step = "push"]
    /\ UNCHANGED <<produced, up, position, stored, committed, deliveries,
                   settled, skipped, crashes, closes, queueVars>>

PushAlert(payload) ==
    /\ job.step = "push"
    /\ Push(job.message, payload)
    /\ Settle

(* Mutant of Swallow: a failed message is tried again at once.             *)
SwallowRetry ==
    /\ job # NoJob
    /\ UNCHANGED <<consumerVars, queueVars>>

(* `except Exception: continue`, around parsing, scoring and the push.     *)
Swallow ==
    /\ job # NoJob
    /\ Settle
    /\ UNCHANGED queueVars

Stop ==
    /\ up
    /\ crashes + closes < MaxStops
    /\ up' = FALSE
    /\ stored' = None
    /\ job' = NoJob
    /\ UNCHANGED <<produced, position, deliveries, settled, skipped, queueVars>>

(* Mutant of Close: the consumer is not closed.                            *)
CloseForgotten ==
    /\ Stop
    /\ closes' = closes + 1
    /\ UNCHANGED <<committed, crashes>>

(* An interrupt leaves the loop, wherever it is, through `finally`:        *)
(* consumer.close() commits what is stored.                                *)
Close ==
    /\ Stop
    /\ closes' = closes + 1
    /\ committed' = IF stored = None THEN committed ELSE stored
    /\ UNCHANGED crashes

(* The process is killed.                                                  *)
Crash ==
    /\ Stop
    /\ crashes' = crashes + 1
    /\ UNCHANGED <<committed, closes>>

(* An analyst decides an alert through the HTTP service.                   *)
Decide(id, label, analyst) ==
    /\ Len(audit) < MaxDecisions
    /\ alerts[id] # NoAlert
    /\ Disposition(id, label, analyst)
    /\ UNCHANGED consumerVars

LoopBody ==
    \/ ScoreQuietly \/ ScoreAlert \/ Swallow
    \/ \E payload \in Payloads : PushAlert(payload)

ConsumerNext ==
    \/ Produce
    \/ Poll
    \/ AutoCommit
    \/ LoopBody
    \/ Close
    \/ Crash
    \/ \E id \in AlertIds, label \in Labels, analyst \in Analysts :
           Decide(id, label, analyst)

-----------------------------------------------------------------------------
InHand == IF job = NoJob THEN {} ELSE {job.message}
Acknowledged == IF committed = None THEN {} ELSE 1 .. committed

(* The group will not see these messages again and nobody has dealt with   *)
(* them.                                                                   *)
Lost == Acknowledged \ (settled \cup skipped \cup InHand)

(* Each stop of the process costs at most the one message in hand, once    *)
(* the group has an offset: the offset that auto-commit stores runs ahead  *)
(* of the loop body by one message and no more (kafka_consumer.py, run:    *)
(* enable.auto.commit around a loop that scores one message at a time).    *)
LossBounded == Cardinality(Lost) <= crashes + closes

(* A message is scored more than once only because the process was killed  *)
(* between polling it and the next commit; an orderly stop commits first   *)
(* (kafka_consumer.py, run: the finally clause).                           *)
DuplicatesOnlyByCrash == \A m \in Messages : deliveries[m] <= 1 + crashes

Decided(table, id) == table[id] # NoAlert /\ table[id].disposition # Null

(* An analyst's decision on a streamed alert is undone only by a message   *)
(* delivered again after a crash: INSERT OR REPLACE resets it (scoring.py, *)
(* push, called from the consumer's loop).                                 *)
DecisionsUndoneOnlyByCrash ==
    [][\A id \in AlertIds :
          Decided(alerts, id) /\ ~Decided(alerts', id) => crashes > 0]_<<consumerVars, queueVars>>

(* While the process is up it gets past every message, a poison one        *)
(* included (kafka_consumer.py, run: "a poison message must not kill the   *)
(* consumer").                                                             *)
NoMessageBlocks ==
    \A m \in Messages :
        (up /\ position < m /\ m <= produced) ~> (m \in settled \/ ~up)
=============================================================================
