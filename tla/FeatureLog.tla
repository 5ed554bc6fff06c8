----------------------------- MODULE FeatureLog -----------------------------
(***************************************************************************)
(* What a feature store of finguard promises (features.py, tests/          *)
(* test_point_in_time.py): the features of a transaction are a function of *)
(* the WHOLE history of the transactions before it and of the fraud        *)
(* confirmations visible at its timestamp.  There is no rolling state and  *)
(* no window here: each feature is defined directly over the history.      *)
(*                                                                         *)
(* Transactions come in timestamp order.  Timestamps are integers; the     *)
(* three window lengths are constants in the same unit.                    *)
(***************************************************************************)
EXTENDS Integers, Sequences, FiniteSets, FiniteSetsExt, Functions

CONSTANTS
    Cards, Devices, Merchants,
    Amounts,         \* amounts of the transactions
    MaxTime,         \* bound on the timestamps
    Day, Hour, TenMinutes,
    SmallAmount,     \* amounts below it are probes
    LabelLatency,    \* LABEL_LATENCY
    MarkCap,         \* cap of card_prior_confirmed_fraud
    Nobody           \* a confirmation that names no device or merchant

ASSUME TimeAssumption ==
    /\ MaxTime \in Nat /\ LabelLatency \in Nat
    /\ TenMinutes \in Nat /\ Hour \in Nat /\ Day \in Nat
    /\ TenMinutes <= Hour /\ Hour <= Day
ASSUME AmountAssumption == Amounts \subseteq Nat /\ SmallAmount \in Nat /\ MarkCap \in Nat

Times == 0 .. MaxTime

Txns == [card : Cards, device : Devices, merchant : Merchants,
         ts : Times, amount : Amounts]

(* A confirmation and the time from which scoring may use it.              *)
Confirmations == [visible : 0 .. MaxTime + LabelLatency, card : Cards,
                  device : Devices \cup {Nobody}, merchant : Merchants \cup {Nobody}]

(* The absence of a name is not a transaction.                             *)
ASSUME NobodyAssumption == Nobody \notin Txns

NoFeatures == [txn_count_24h |-> -1]

VARIABLES
    log,         \* the transactions folded in, oldest first
    confirmed,   \* the confirmations, oldest first
    asked,       \* the transaction of the latest features_for
    features     \* what it returned

logVars == <<log, confirmed, asked, features>>

LogInit == log = <<>> /\ confirmed = <<>> /\ asked = Nobody /\ features = NoFeatures

-----------------------------------------------------------------------------
(* Indices of the earlier transactions that satisfy P.                     *)
Earlier(P(_)) == {i \in DOMAIN log : P(log[i])}

Total(S) == SumFunction([i \in S |-> log[i].amount])

(* Age of the first transaction in S, 0 if there is none.                  *)
AgeOfFirst(S, ts) == IF S = {} THEN 0 ELSE ts - log[Min(S)].ts

Visible(ts, P(_)) ==
    Cardinality({i \in DOMAIN confirmed : confirmed[i].visible <= ts /\ P(confirmed[i])})

AtMost(n, bound) == IF n < bound THEN n ELSE bound

FeaturesOf(t) ==
    LET ofCard     == Earlier(LAMBDA x : x.card = t.card)
        ofDevice   == Earlier(LAMBDA x : x.device = t.device)
        ofMerchant == Earlier(LAMBDA x : x.merchant = t.merchant)
        within(S, window) == {i \in S : log[i].ts >= t.ts - window}
        lastDay    == within(ofCard, Day)
        deviceAge  == AgeOfFirst(ofDevice, t.ts)
    IN  [txn_count_24h           |-> Cardinality(lastDay),
         txn_count_1h            |-> Cardinality(within(ofCard, Hour)),
         amount_sum_24h          |-> Total(lastDay),
         seconds_since_last_txn  |-> IF lastDay = {} THEN Day
                                     ELSE t.ts - log[Max(lastDay)].ts,
         card_history            |-> <<Cardinality(ofCard), Total(ofCard)>>,
         is_new_device_for_card  |-> ofCard \cap ofDevice = {},
         is_new_merchant_for_card |-> ofCard \cap ofMerchant = {},
         merchant_txns_10m       |-> Cardinality(within(ofMerchant, TenMinutes)),
         merchant_small_amt_10m  |->
             Cardinality({i \in within(ofMerchant, TenMinutes) :
                             log[i].amount < SmallAmount}),
         device_card_count_1h    |->
             Cardinality({log[i].card : i \in within(ofDevice, Hour)}),
         merchant_txn_count      |-> Cardinality(ofMerchant),
         merchant_observed_age   |-> AgeOfFirst(ofMerchant, t.ts),
         device_observed_age     |-> deviceAge,
         device_alltime_cards    |-> Cardinality({log[i].card : i \in ofDevice}),
         pair_device_life        |->
             IF deviceAge > 0 THEN <<AgeOfFirst(ofCard \cap ofDevice, t.ts), deviceAge>>
             ELSE <<1, 1>>,
         device_confirmed_fraud_links   |-> Visible(t.ts, LAMBDA m : m.device = t.device),
         card_prior_confirmed_fraud     |->
             AtMost(Visible(t.ts, LAMBDA m : m.card = t.card), MarkCap),
         merchant_confirmed_fraud_links |-> Visible(t.ts, LAMBDA m : m.merchant = t.merchant)]

(* No transaction is older than one the store has been asked about.        *)
InOrder(t) == asked # Nobody => asked.ts <= t.ts

ReadFeatures(t) ==
    /\ asked' = t
    /\ InOrder(t)
    /\ UNCHANGED <<log, confirmed>>
    /\ features' = FeaturesOf(t)

(* The transaction is folded in after it was read.                         *)
FoldIn ==
    /\ asked # Nobody
    /\ log' = Append(log, asked)
    /\ UNCHANGED <<confirmed, asked, features>>

Confirm(m) ==
    /\ confirmed' = Append(confirmed, m)
    /\ UNCHANGED <<log, asked, features>>

LogNext ==
    \/ \E t \in Txns : ReadFeatures(t)
    \/ FoldIn
    \/ \E m \in Confirmations : Confirm(m)

LogSpec == LogInit /\ [][LogNext]_logVars
=============================================================================
