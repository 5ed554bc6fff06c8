# FinGuard: specifications, model checking and proofs

This directory specifies FinGuard (`finguard/`) in TLA+: the serving side,
which keeps state, runs concurrently and survives crashes; the three channels'
features, controls and test frames; and the offline programs that train, publish
and share models. TLC checks the specifications on small instances; TLAPS proves
the main properties for all values of the constants.
`PROJECT.json` is the index: components, runs, mutants, the map from
definitions to source lines, findings, hazards and theorems.

## The system

| part | state | operations | talks to |
| --- | --- | --- | --- |
| `ScoringEngine` (scoring.py) | `holds`: card -> time of the hold; the model bundle | `score`, `clear_hold` | feature store |
| `AlertQueue` (scoring.py) | sqlite tables `alerts`, `disposition_audit`; the connection's open transaction | `push`, `disposition`, `get`, `pending`, `audit_trail` | the HTTP service |
| HTTP service (`create_app`) | `model_ready`, `Metrics` | `/score`, `/alerts/{id}/disposition/{label}`, read-only endpoints | all of the above, from a pool of threads without locks |
| `InMemoryFeatureStore` (features.py) | windows, counters, sets, first-seen times, fraud marks | `features_for`, `update`, `mark_confirmed_fraud` | engine, label loop, `build_feature_frame` |
| `RedisFeatureStore` (redis_store.py) | the same, in Redis; transiently in the inherited dictionaries | the same | Redis, shared by all replicas |
| Kafka consumer | its own engine and connection; committed offsets | poll loop | engine, queue |
| model registry | version files, `current` | `publish`, `set_current`, `rollback` | training, engine start-up |
| thresholds and caps (core.py, train.py, p2p.py) | none | `graduated_thresholds`, `apply_alert_cap`, `analytic_thresholds` | bundle |
| card training (train.py) | pilot bundle | `main` | features, thresholds, experiment log, registry |
| experiment log (experiments.py) | one JSON-lines file | `log_run`, `load_runs`, `content_hash` | every offline program |
| wire controls (wire.py) | per (payer, account) history | `build_features`, `decide` | - |
| P2P channel (p2p.py) | per sender, recipient and pair history | `generate`, `build_features`, `apply_friction`, `main` | thresholds, log |
| federation (federation.py, federation_dp.py) | none kept | `train_local`, `run_round`, `main` | log |
| privacy accountant | none | budget table, inversions, rounds | federation_dp, log |
| card generator (datagen.py) | none | ten kinds of incident, `generate` | feature store (replay) |
| drift, harness, dashboard, config | statistics, I/O, constants | | |

How they interact. `/score` reads features, asks the model, looks at the hold,
decides, perhaps sets the hold, folds the transaction into the store, counts it
and pushes an alert. An analyst's disposition updates the alert and the audit
trail in one sqlite transaction and then, in memory, clears the hold or marks
the card. FastAPI runs both endpoints on a thread pool; engine, store, metrics
and sqlite connection are shared and nothing locks them. A crash loses the
dictionaries and the open transaction. Training writes the pilot bundle, the log
and the registry one after the other; the service, the consumer and every
replica load the registry's current version when they start. The offline
programs are started by hand, may run side by side, and share these files.

What is hard: the threads' interleavings on `holds`, on the counters, on the
windows and on the shared sqlite transaction; crashes between a hold, its alert
and the effect of a disposition; time, which is the timestamp of the request
and not a clock, so that late transactions and expiry meet; a feature read that
also trims; the Redis store's copies of shared state; files written in place by a
process that may be killed; rows planned independently and sorted into one frame;
thresholds and budgets at their boundaries. `hazards` in
`PROJECT.json` lists each at its line.

What makes each part correct:

* engine: no card with an uncleared model-driven alert is approved within
  `HOLD_TTL`; a challenge caused by the hold never extends it;
* queue: every alert answered to a client is on disk; the audit trail is
  append-only, and names the disposition that an override overrides;
* service: a held card has an alert an analyst can act on; no reputation mark
  and no cleared hold without a durable audit row; a committed disposition acts;
  counters agree with the history; calls are atomic as far as the code makes them;
* feature stores: features are a function of the past only, labels arrive late,
  both stores agree, replicas keep no stale copy;
* registry and log: what is listed or current can be loaded and traced to the
  training that made it;
* channels: a row is a function of the rows before it; caps and frictions stop
  what they say and nothing else; the generated frauds look as their authors say;
* thresholds, accountant: cheapest actions, a cap that is used up and exceeded by
  ties only, budgets neither exceeded nor wasted.

## Modules

| module | models | kind |
| --- | --- | --- |
| `ScoringPolicy` | expiry, decision, thresholds: constants and pure operators | shared |
| `InvestigationHold` | `score`, `clear_hold`, restart as whole calls on `holds` | abstract specification |
| `AlertQueue` | `push`, `disposition` as whole calls on the two tables | abstract specification |
| `ScoringService` | the service, one step per access to shared state | detailed specification |
| `ScoringHistory` | `ScoringService` plus history variables; refinement mappings | composition |
| `FeatureLog` | the features as a function of the whole past | abstract specification |
| `FeatureStore` | the in-memory store and `build_feature_frame` | detailed specification |
| `RedisStore` | the Redis store on several replicas, next to the in-memory one | composition |
| `RedisThreads` | one attribute of the Redis store under the threads of one replica | detailed specification |
| `ModelRegistry` | `publish`, `set_current`, `rollback` as file writes | shared |
| `KafkaConsumer` | the poll loop, auto-commit, stops, and the queue it feeds | detailed specification |
| `Deployment` | a consumer that loads the registry's current model and runs | composition |
| `WireControls` | `build_features`, `hold_threshold`, `decide` of the wire channel | detailed specification |
| `CardIncidents` | `datagen`'s incidents, planned, merged, sorted and replayed | composition with `FeatureStore` |
| `P2PTransfers` | `generate`'s scams, `build_features`, `apply_friction` | detailed specification |
| `Thresholds` | `graduated_thresholds`, `apply_alert_cap` | pure operators |
| `Lists` | `[x for x in list if ...]`, without recursion | pure operators |
| `PrivacyAccountant` | budget table and inversions | pure operators |
| `ExperimentLog` | `log_run`, `load_runs` | shared |
| `Offline` | the offline programs as processes that share files | composition |
| `*_proofs` | theorems about the module they are named after (`Channels_proofs`: WireControls and P2PTransfers; `FeatureStore_proofs`: also CardIncidents; `ScoringHistory_proofs`: also ScoringService) | proofs |
| `Induction_proofs` | lemmas on induction over data, sums, minima and lists that mirror a set, which the others cite | proofs |
| `MC*` | model-checking instances (`MCChannels`: of WireControls and of P2PTransfers) | TLC |

**Engine.** A risk score is any member of `0 .. MaxRisk`; the engine only
compares it with the thresholds. `ThresholdAssumption` (`t_challenge <=
t_block`) is what `analytic_thresholds` ends with. Timestamps are integers of
event time; `Expired` is the strict comparison of `_is_held`. In
`InvestigationHold` one action is one call; `alerted`, `now` and `verdict` are
history that no guard of the code reads. `Spec` assumes timestamps in order (a
sorted replay, one Kafka partition) and a process that stays up;
`AnyOrderSpec` assumes nothing.

**Service.** `pc[w]` is where thread `w` is, `job[w]` the locals it still
needs. Each action is one read or write of something shared, in the order of
the source: `LookAtHold` and `DropHold` are the two halves of `_is_held`,
`RecordScored` and `RecordDecision` of `Metrics.record`, `PushAlert` /
`CommitPush` and `SelectPrior` .. `CommitDisposition` the statements and the
commit. `conn` is what the shared connection sees, `disk` what is committed: a
commit by any thread copies all of `conn`. `FeaturesFail` is the exception
Python raises when a deque changes under an iteration; it may strike whenever
another thread has folded a transaction since or is in its own `features_for`,
because any two transactions may share a merchant. `Restart` throws away
everything but `disk`, and may find no model bundle. `DatabaseRaises` is an
sqlite error at any statement or commit (the file is locked by the consumer, two
threads begin a transaction at once): it has no effect on the tables, ends the call
with a 500, and what the call left uncommitted stays in the connection for the next
commit. Errors that make sqlite roll back by itself (a full disk) are left out.
`refused` remembers the alerts whose INSERT was refused. `folded` abstracts the
feature store to the number of transactions folded per card. Calls that the
code refuses before touching anything (422, 401) are no step.

**Feature stores.** `FeatureStore` writes the store as a record of its
dictionaries and each method as a function from store to store, so that
`RedisStore` can apply the very same functions to what a replica has loaded -
as the subclass does. The entities of one transaction's keys are grouped as the
code always touches them together: rolling state per card, merchant, device,
pair, and the marks. `Over`, `After` and `Evict` are the dictionary semantics
of `_load`, `defaultdict` and `del`. `mget` and the transactional pipeline are
atomic, as in Redis.

**Registry and consumer.** A file is absent, torn or whole: opening it for
writing tears it, the process may die before it is whole. `writer` is the call
of `publish` or `rollback` under way; `set_current` is `OpenPointer` /
`NameVersion`. `Deployment` starts a consumer by reading the pointer and then
the bundle (`ReadPointer`, `Start`, `StartFails`). In `KafkaConsumer`,
`position`, `stored` and `committed` are the three offsets of the client
library: `poll` moves the first two, a timer or `close` copies the second to
the third. `Swallow` is the `except` around parsing, scoring and pushing.
`Produce` and `AutoCommit` are outside the code. The model serves until the
process stops: a rollback reaches no running process.

**Wire channel.** One step of `WireControls` is one row of the frame: `Row`
reads the dictionaries, `Held` decides, `Folded` and `paid` take the wire in.
The threshold of `hold_threshold` is multiplied out, since probabilities and
fractions are integer parts of `Unit`. `Verify` draws the completion of an
account's callback when it could first matter instead of up front.
`released` and `log` are history.

**Card frames.** `CardIncidents` plans at most one incident, any of the ten the
generator draws (`IncidentsAt`), as a set of rows with their times, and then
replays it through `FeatureStore` between other rows of any kind
(`ReadDue` / `ReadOther` .. `MarkRow`), always the earliest first, equal
timestamps in any order as `sort_values` leaves them. `confirmed` and the rows
read are what the properties look at.

**P2P channel.** `Plan` is a scam of `generate`, with an amount and a time for each
payment; `TakeDue`, `TakePayment` and
`TakeTakeover` are the rows of the sorted frame, `FeaturesOfTransfer` and
`Ledger` what `build_features` reads and writes for one, `ApplyFriction` the
function with every outcome of its random draws. Any set of rows may be alerted.
Both channels prune their lists with `Lists!At`, the elements of a list at a set
of places.

**Offline programs.** A process of `Offline` runs one program: `Train` is
everything up to the first write (any out-of-fold scores and number of days),
then one step per file opened or filled; `LogTraining` and `LogReport` are the
append to the log, `Publish` .. `NameVersion` those of `ModelRegistry`. Of the
federation simulations and the accountant's rounds only the process and its log
record are modelled. `Killed` may strike at any step.
`Thresholds` keeps a threshold as a fraction and multiplies out; `ApplyAlertCap`
picks the k-th largest of the sorted scores. `PrivacyAccountant` keeps epsilons
on an integer grid on which the bisections are exact.

## Runs

| run | module | question | states |
| --- | --- | --- | --- |
| `hold_in_order` | MCInvestigationHold | does the hold floor every transaction of its window, and only those? | 3 361 |
| `service_threads` | MCScoringService | what holds of the service under any interleaving, a restart and an sqlite error? | 898 009 |
| `service_single` | MCScoringHistory | does the service with one worker implement the hold and the queue, and do dispositions act? | 322 421 |
| `feature_store` | MCFeatureStore | are the rolling features those of the whole history, and do the generated frauds look to them as they should? | 457 161 |
| `redis_store` | MCRedisStore | do two stores agree through replicas that crash? | 55 862 |
| `deployment` | MCDeployment | what can a crash of training, of an operator or of the consumer cost? | 468 608 |
| `channels` | MCChannels | do the cap, the threshold and the features say what they should, do installments add up, what does friction stop? | 1 133 241 |
| `offline` | MCOffline | log before publish, alert caps, cheapest actions, privacy budgets | 159 749 |
| `service_race` | MCScoringHistory | **violated**: `FloorHolds` with two threads | |
| `queue_override` | MCAlertQueue | **violated**: `OverrideVisible` after a re-scored transaction | |
| `redis_threads` | RedisThreads | **violated**: `HistoryNeverShrinks` with two threads | |
| `alert_cap` | MCOffline | **violated**: `CapSatisfied` with tied scores | |

The violations are disagreements between the code and a sentence of its docs or
tests, quoted under `findings`.

Bounds, and why they are enough:

* `hold_in_order`: two cards, timestamps 0..4 with TTL 1 (so a hold can be
  fresh, exactly at the TTL, and expired, twice in a row), three risk levels
  (below, at challenge, at block). The calls are not bounded.
* `service_threads`: two threads, one card (the hazards are about one key), two
  transaction ids (one can be scored again), three calls, one restart, one sqlite error
  (`MaxFaults`; none in `service_race`), TTL 0
  and two timestamps so that a hold can expire. Every pair of calls overlaps in
  every way, and the third follows or overlaps either.
* `service_single`: the same with one worker; `service_race` needs four calls
  (set, look, set, approve) and no restart.
* `feature_store`: every sorted frame of three rows over two cards, devices,
  merchants and amounts at 0, 1, 5 and 9 with a day of 4: rows inside, on the
  boundary of, and outside each window, equal timestamps, and marks that become
  visible within the frame. And every incident, of two rows in a burst and two
  days of warm-up, with one more row anywhere around it: two rows are the
  smallest burst that can outrun or meet a label, offsets include the latest of
  each kind, and a third row shares an entity or not.
* `redis_store`: such frames of three rows with one amount, two replicas, any number of
  crashes. Symmetry (cards, devices, merchants, replicas, threads, transaction
  ids) is used only with safety properties.
* `deployment`: two versions and two registry calls (publish twice, or publish
  and roll back, each cut off anywhere), two messages of which the first is
  poison, two stops, one disposition: enough for a committed and an uncommitted
  message, a redelivery after a decision, and a start in the middle of a publish.
* `channels`: a program runs one channel; neither reads the other's state, and one
  run explores both. Every sorted frame of three wires of two payers, suppliers
  and accounts over four days, windows of 0, 1 and 2 days; two wires of 2 meet
  the cap of 4 exactly, a wire of 3 exceeds the floor of 2; scores on either
  side of the threshold of each amount. And every sorted frame of three transfers
  between two senders and two recipients, alone or with a scam of up to three
  payments of two amounts, at moments on either side of a week and of a month (days
  of 2, weeks of 5, months of 6), so that installments fall on the window's edge,
  the last may be the largest, and an inbound surge can have a past.
* `offline`: two programs one after the other or side by side, two versions, two
  publishes; up to three scores on a scale of six, with ties, and caps of one or
  two alerts in all;
  every budget and horizon of a small table over four
  halvings. Half of the last digit of a rounded epsilon is one unit.

`CHECK_DEADLOCK` is on in every run: the bounded specifications end in an
explicit `Finished` step.

**Fairness.** Two properties need it. `CommittedDispositionActs`: weak fairness
of each thread's steps once it has accepted a call; no step waits for another
thread (there are no locks; an sqlite statement that would wait raises in the end), and the operating system schedules runnable
threads. `NoMessageBlocks`: weak fairness of the consumer's loop, a single
thread that waits only for the next message. Requests, producers, the commit
timer, operators, restarts and the offline programs are not fair.

Every property of a passing run has a mutant: a definition altered the way a
plausible bug would (`Mutant of ...` in the modules) under which TLC finds the
property violated.

## What the checks show

* With transactions in order and one process, the hold does what it promises
  (checked and proved). Without order, a floored challenge is still always
  covered by an alert (proved), but a late transaction may shorten the hold.
* With one worker the statement-by-statement service *implements* both atomic
  specifications, in any order of timestamps and with restarts (the queue: until
  sqlite raises, as what a failed call leaves open the next commit takes along), so the proved
  properties of `AnyOrderSpec` carry over to the service's verdicts (checked and
  proved).
* With several threads it does not: `service_race` shows the floor lost for
  good, by a delete of somebody else's hold.
* What survives the races: alerts that were answered are on disk; the audit
  trail is append-only; no mark and no cleared hold precedes its durable audit
  row; a held card has an alert in the queue or on its way, unless the database
  refused the push of one; the folded history
  matches the count of scored transactions, failed calls included (all proved).
* That exception is a gap: the hold is set before the push, and when sqlite
  raises in the push the card stays held with no alert for an analyst to clear,
  until the hold expires. Nothing retries the push.
* The rolling feature state is equivalent to recomputing from the whole
  history for sorted input, so training frames are point-in-time correct; and
  Redis-backed replicas are equivalent to the in-memory store, crashes between
  calls included (both checked and proved).
* A stop of the stream consumer costs at most the message in hand, not counting
  messages it swallows, nor those that arrive before its group has committed an
  offset, which `auto.offset.reset=latest` skips (kafka_consumer.py:46). Only a kill
  makes it score a message twice, and only then is an analyst's decision undone
  by the redelivery (proved). No message blocks the stream.
* No publish, rollback or crash makes a listed or current version unloadable,
  except a publish of that very version that was cut off. (It can: publishing
  rewrites a version in place. And an empty pointer silently means the pilot.)
* Whatever the registry holds has its record in the log, whenever training was
  killed (checked and proved). The pilot bundle may stay torn.
* The wire controls hold each payer's released money to an unverified account
  below the cap (checked and proved); payers are not added up. The features of
  a row are those of the whole history before it (proved).
* The same holds of a P2P row, though two lists are pruned in passing. Every
  earlier installment of an evasive scam, whatever its amount, is in the pair's
  window. Friction never
  stops a later payment of a scheme whose first it let through, nor a legitimate
  one. (All proved.)
* The generated frauds are what their authors say: a ring that ends within the
  label latency sees no mark of its own, a slow burn's cash-out does, probes add
  up on their merchant and device, a sleeper device looks like one card's own
  until it turns (all proved, whatever traffic they are mixed with).
* The thresholds take the cheapest action for every score, or approve what the
  cap keeps from the analysts (proved). The raised threshold does not satisfy the
  cap when scores tie with it (`alert_cap`); only ties exceed it (proved). Every logged epsilon spends its budget and
  no more, up to half of its last digit, and every logged number of rounds,
  rounded down, can be afforded (proved).

Read in the source and checked by no run: an alert cap below one a day makes
`apply_alert_cap` index the smallest score (`[-0]`); the live label loop marks a
card with the alert's own time (scoring.py:377) while the training frame marks it
24 hours later (features.py:278). Frames, and so
models and reports, are not reproducible from their seed: `rng.choice(list(...))`
over a set of strings (datagen.py:156, 181) depends on `PYTHONHASHSEED`, and reaches
`is_high_risk_mcc` (features.py:191).

## Proofs

Every theorem holds for all values of the constants that satisfy the named
`ASSUME`s; TLC evaluates these on the instances.

**Induction over data.** The library's induction theorems take an operator,
which the provers cannot instantiate. `Induction_proofs` states them with a set
instead: `EveryNumber` (a set of naturals that holds 0 and successors holds all),
`EverySubset` (the same of the subsets of a finite set). From these come the
facts about sums over finite functions and about the least of a set that the other
modules cite, and those about `Mirrors(list, T, e)`: some one-to-one numbering of the
numbers `T` lists `e[i]` for each. It survives an append and a choice by a condition,
and makes lengths, sums and sets equal. Pruned lists are written with `Lists!At`, which is not recursive.

**Hold** (`InvestigationHold_proofs`): `TypeCorrect`, `HoldInvariant`,
`NoDecayToApprove`, `NoSelfExtendingHold`. `FloorHolds` is about the latest
verdict and says nothing of the dictionary, so it is not inductive. The argument
goes through `HoldInv`: a card's entry is its *latest* uncleared alert
(`HoldIsLatestAlert`), a card without an entry has only alerts past the TTL
(`NoHoldMeansExpired`), and no alert is ahead of the stream (`AlertsArePast`).
In-order timestamps are needed exactly there: a later look can only find alerts
older. `NoSelfExtendingHold` needs less: an entry is *some* alert of the card,
which a model-driven alert alone establishes.

**Service** (`ScoringHistory_proofs`): `ServiceInvariant`,
`AnsweredAlertsAreDurable`, `HeldCardsCanBeCleared`, `TrailOnlyGrows`,
`ClearsHaveARow`. The question is whether one thread's commit, in the middle of
another thread's statements, can spoil what the other relies on. `ServiceInv`
says it cannot: the connection is always *ahead* of the disk (`ConnAhead`), and
what a thread has done so far is in the table its step names (`WorkIsDone`: its
alert in the connection after the INSERT, its audit row in the connection after
that INSERT and on disk after the commit). A commit by any thread copies the
connection, so it keeps both. `CardsAgree` ties the card of an alert to that of
its transaction, which `ClearHold` reads from the one and the audit from the other.

Two theorems count. `MarksHaveRows`: two threads may dispose of the same alert, so
marks made, plus threads whose row is written and whose mark is to come, are at
most the rows (`Covered`), once for the connection and once, with the committed
threads only, for the disk. `CountersNeverOvertake`: the folded history is the
count of scored calls plus the threads between the two (`CountsInv`); the
counters per decision are read and written in two unlocked steps, so they may
lose an increment, and the invariant names a table of how often each decision
was really counted (`CountedAs`) that no counter, and no write a thread has
prepared, is ahead of. Both assume a finite pool of threads
(`WorkersAssumption`), the second finitely many cards (`CardsAssumption`: the sum
runs over them).

**Refinement** (`ScoringHistory_proofs`): `CallsAreAtomic` (`ImplementsHold`) and
`DiskHoldsWholeCalls` (`ImplementsQueue`), for the service with one worker, any
cards, times and restarts. For the hold, `LookInv` remembers what the entry was
when the thread looked: the look and the deletion of an expired entry are
stutters that the refinement mapping hides until the decision, which is then one
`Score`. For the queue, `OpenInv` says which prefix of the call's statements the
connection is ahead of the disk by, and that the row the thread has read is still
the one on disk; the commit is the abstract step. It is kept until sqlite raises
(`UntilFault`): a failed call leaves statements open that a later commit takes
along. With two threads both
invariants fail, as `service_race` shows. By `CallsAreAtomic`, `NoSelfExtendingHold`
holds of the one-worker service too.

**Consumer and registry** (`Deployment_proofs`): `PublishedIsLoadable`,
`ConsumerInvariant`, `LossIsBounded`, `CrashesBoundDuplicates`,
`DecisionsOutliveStops`, `TypeCorrect`. For the registry the invariant adds where the call
under way is: past the dump, its bundle is whole or was cut off before; the
pointer names only what has a bundle file. For the consumer the three offsets are
ordered, at most one polled message is in hand, each stop adds at most one
message to those lost, and a delivery beyond the first is paid for by a crash: a
message that is pushed again, undoing a decision, is one such delivery.

**Offline programs** (`Offline_proofs`): `LogBeforePublish` (the log only grows, and a program about to publish, and the
call under way, hold a version that is logged already); `CheapestAction`
(fractions ordered by cross-multiplication); `CapIsSpent` and
`FittedActionIsCheapest`. The last two are about what a training holds (`FitsInv`):
its thresholds are `graduated_thresholds` with the cap applied to an ascending
list of scores. `CapIsSpent` then counts: the scores above the k-th largest are
among the last k-1 places of that list, those at or above it include the last k
(and, with ties, others: `OnlyTiesExceedCap` claims no upper bound for them).

`BudgetsAreSpent`: what is logged is one of the table and the answers, so it
suffices that each search ends where it should. Doubling and bisecting recurse
over a bounded number of steps and are written as functions on an interval;
`Iterates` shows that such a function exists, and `Brackets` is what a search keeps:
the lower end is 0 or spends no more than the total, the upper end no less, and
their distance halves with every step (`SearchEnds`). Rounding moves an epsilon by
half a grain, rounding down a number of rounds by less than one, and the bound,
which never falls (`BoundGrows`), carries the comparison over. Assumed of the bound
of strong composition (`BoundAssumption`): it is 0 at 0, grows with the epsilon
and the rounds, and the doublings reach every total, as the code's first loop goes on
until they do; and of the searches (`AccountantAssumption`), that there are no more
doublings than bisections: the code bisects 100 times and stops doubling rounds
past 1e9.

**Feature store and frames** (`FeatureStore_proofs`): `FramesArePointInTime` and
`TwinsArePointInTime` prove `ImplementsLog` for the frames of `CardIncidents` and for
the in-memory store of `RedisStore`, from `FrameInvariant`. `ReplayInv` says what the
rolling state is as a function of the rows folded in: a window mirrors the rows of
its entity, in time order, but for a first part too old to be read again
(`features_for` trims what it reads); counters, sums, sets and first-seen times are
those of all rows, marks those of the confirmations. As rows come in time order,
each read filters the rest by the condition by which the log's definition selects
rows. That the generated rows are transactions (`RowsFit`) needs amounts and times
that reach far enough (`FrameAssumption`).

*Of the incidents*, for any sizes, offsets and traffic around them:
`IncidentsOutrunLabels`, `CashOutsAreMarked`, `TrustedDevicesCreepUp`,
`ProbesAreSeen`. `IncidentInv` relates three things that happen to one row at different
moments: it is due, then read, then folded in and marked. The log has on the
incident's own devices exactly its rows that were taken; the confirmations that name
these devices are those of its fraud rows, each `LabelLatency` after its row; what
is due is no older than what was read. Then the features, which by the refinement
are those of the log, are counts over rows that are known: a burst within the
latency has no visible mark of its own, whereas small purchases a day apart have;
a probe's window holds all its elders. Assumed: the label latency is above the ten minutes of a probe's
window and at most a day (features.py:67 has a day), kinds of entity are told apart
(`KindsAssumption`), markers are no values (`NoneAssumption`, `NobodyAssumption`,
`NoIncidentAssumption`).

**Redis store** (`RedisStore_proofs`): `TwinInvariant`, `NothingKeptLocally`,
`RedisFeaturesIdentical`, `RedisKeepsHistory`. The windows of the two stores are
not equal: `features_for` trims the in-process ones, and what it trims from a
replica's copy is never written back. `TwinInv` relates them by a suffix: the
in-process window is the one in Redis without a first part, all of which is older
than the latest read by more than the window (`Alike`, `Horizon`). Reads come in
time order, so a later read would trim that part anyway, and both stores return
the same. Everything else is equal, and replicas are empty between calls. Each
method on a replica is shown to be the method on the whole store restricted to
the keys it has loaded. Assumed: the marker of an absent key is no value
(`AbsentAssumption`), and that of "no call yet" no transaction
(`NobodyAssumption`).

**Channels** (`Channels_proofs`), for any parties, amounts and times and frames
of any length. *Controls*: `CapInvariant`, `BeneficiaryCap`, `CheapestHold`.
`CapHolds` alone is not inductive: the control compares the cap with the sum of
*all* wires, the property speaks of the released ones. `CapInv` adds that the
released are part of the sum; then a wire that passes the control with the whole
sum below the cap leaves the released part below it. Positive amounts and cap,
fractions between 0 and 1 (`MoneyAssumption`, `CostAssumption`).

*Rows are of history*: `WireRowsAreOfHistory` and `TransferRowsAreOfHistory` (from
`TransferInvariant`). A feature is a count, a sum, a set or a least time read off
a list that is appended to and pruned; the specification says the same of the
rows of the frame. `LedgerOf` and `BookOf` say that every dictionary mirrors
(`Mirrors`, above) the rows it is meant to list; a list pruned in passing mirrors
*some* set of rows that includes all young ones (`Pruned`, `KeptTimes`), which suffices as a reader
prunes at least as far, the frame being in time order.

*Of the P2P rows*: `SurgesNeedHistory` follows from the features of the past
alone. `InstallmentsAdd` needs an invariant over what is planned and what has been
taken: the installments of a scam that are
rows of the frame and those to come are numbered without a gap and once each, the
earlier numbers first, and any two are at most seven days apart (`Coached`). At
the k-th, then, exactly 0 .. k-1 are rows before it, all in the pair's window, so that its
count is at least k and its sum at least that of their amounts. It assumes that all installments fall into seven days
(`CoachingAssumption`: at most six, a day apart, between 9 and 20 h).
`FrictionFromTheFirst`: a payment stopped with its scheme is stopped by the scheme's
first contact, which is stopped too; one recalled while settling is the first
payment of its pair, and as the frame marks exactly those (`FirstsMarked`), it is the
first of its scheme.

Every invariant and every refinement that a passing run checks is proved. Only
model-checked, and why: liveness (`CommittedDispositionActs`, `NoMessageBlocks`),
which the prover does not do. The violations are TLC's, too. Beyond the two
`TypeCorrect`, the invariants carry only the types their proofs need.

## Not modelled

The model itself, its calibration, what the federation's institutions share and
report (it depends on trained models, noise and a hash seed), and every figure the programs only report
(recall, cost, variant and bias tables, dollar effects). Drift (`psi`): real
arithmetic that reports and never acts. The harness: a sorted replay through the
engine that prints; `InvestigationHold`'s `Spec` is its order assumption. The
configuration: environment variables read once; they are the modules' constants.
Read-only endpoints and the dashboard. Of the generators, the population and the
ordinary traffic, for which the modules take any rows. Three features of the card
store that need real arithmetic or follow the same path as modelled ones (hour
deviation, z-score, dominant country); of the wire rows the z-score, the cadence
and the country; fields copied from a transaction. Several writers of the registry
at once. Retention expiry of Redis keys and a failing Redis server.

## Plan

Done, most important first: 1. hold; 2. queue; 3. service with threads, sqlite
transaction and crashes; 4. feature store; 5. Redis store; 6. registry, consumer
and deployment; 7. wire controls; 8. P2P channel; 9. card incidents; 10. offline
programs, thresholds, accountant; 11. proofs of 1 and 3 to 10. Left:

* `Deployment` with several engines, each with its own holds, over one queue: a
  disposition reaches the holds of one process only (ARCHITECTURE.md:74-75).
* What an institution's report depends on, per process.
* The dominant country and hour deviation of the feature store; a failing Redis.
