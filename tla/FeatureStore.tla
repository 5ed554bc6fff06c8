---------------------------- MODULE FeatureStore ----------------------------
(***************************************************************************)
(* InMemoryFeatureStore of finguard/features.py and the replay that builds *)
(* the training frame with it.  The store is a record of the code's        *)
(* dictionaries; the operators are its methods, as functions from a store  *)
(* to a store, so that RedisStore can inherit them as RedisFeatureStore    *)
(* does.                                                                   *)
(*                                                                         *)
(* Entities are already qualified by their institution (_k).  The running  *)
(* sums behind the hour-of-day and z-score features follow the same read-  *)
(* then-update path as card_amt_stats and are not modelled, nor are the    *)
(* features that are fields of the transaction.                            *)
(***************************************************************************)
EXTENDS FeatureLog, SequencesExt

CONSTANTS
    MaxLog,   \* bound on the transactions replayed
    None      \* no first-seen time yet

ASSUME NoneAssumption == None \notin Times

(* The code has a dictionary of marks for each kind of entity; here they   *)
(* are one, keyed by names that tell the kinds apart.                      *)
ASSUME KindsAssumption ==
    Cards \cap Devices = {} /\ Cards \cap Merchants = {} /\ Devices \cap Merchants = {}

VARIABLES
    store,    \* the rolling state
    pending   \* the transaction between features_for, update and the mark

storeVars == <<store, pending>>
vars == <<storeVars, logVars>>

Idle == [step |-> "idle"]

EmptyCard == [window |-> <<>>, devices |-> {}, merchants |-> {}, count |-> 0, total |-> 0]
EmptyMerchant == [window |-> <<>>, first |-> None, count |-> 0]
EmptyDevice == [window |-> <<>>, first |-> None, cards |-> {}]

(* A new store: defaultdicts, and dictionaries with no key.                *)
EmptyStore ==
    [card     |-> [c \in Cards |-> EmptyCard],
     merchant |-> [m \in Merchants |-> EmptyMerchant],
     device   |-> [d \in Devices |-> EmptyDevice],
     pair     |-> [p \in Devices \X Cards |-> None],
     marks    |-> [e \in Cards \cup Devices \cup Merchants |-> <<>>]]

-----------------------------------------------------------------------------
(* Mutant of Trim: the boundary entry goes too.                            *)
TrimInclusive(window, cutoff) ==
    SelectSeq(window, LAMBDA x : x.ts > cutoff)

(* _trim pops entries older than the cutoff from the left, and stops at    *)
(* the first one that is not: entries behind it stay, however old.         *)
Trim(window, cutoff) ==
    LET young == {i \in DOMAIN window : window[i].ts >= cutoff}
    IN  IF young = {} THEN <<>> ELSE SubSeq(window, Min(young), Len(window))

(* features_for trims the windows it reads: a read that writes.            *)
Trimmed(s, t) ==
    [s EXCEPT !.card[t.card].window         = Trim(@, t.ts - Day),
              !.merchant[t.merchant].window = Trim(@, t.ts - TenMinutes),
              !.device[t.device].window     = Trim(@, t.ts - Hour)]

Age(first, ts) == IF first = None THEN 0 ELSE ts - first

(* Mutant of MarksUpTo: every confirmation counts at once.                 *)
MarksUpToNow(s, e, ts) == Len(s.marks[e])

MarksUpTo(s, e, ts) == Cardinality({i \in DOMAIN s.marks[e] : s.marks[e][i] <= ts})

CountIf(window, P(_)) == Cardinality({i \in DOMAIN window : P(window[i])})

(* The features, read off the trimmed windows.                             *)
FeaturesFor(s, t) ==
    LET trimmed  == Trimmed(s, t)
        card     == trimmed.card[t.card]
        merchant == trimmed.merchant[t.merchant]
        device   == trimmed.device[t.device]
        deviceAge == Age(device.first, t.ts)
    IN  [txn_count_24h           |-> Len(card.window),
         txn_count_1h            |-> CountIf(card.window, LAMBDA x : x.ts >= t.ts - Hour),
         amount_sum_24h          |->
             SumFunction([i \in DOMAIN card.window |-> card.window[i].amount]),
         seconds_since_last_txn  |-> IF card.window = <<>> THEN Day
                                     ELSE AtMost(t.ts - Last(card.window).ts, Day),
         card_history            |-> <<card.count, card.total>>,
         is_new_device_for_card  |-> t.device \notin card.devices,
         is_new_merchant_for_card |-> t.merchant \notin card.merchants,
         merchant_txns_10m       |-> Len(merchant.window),
         merchant_small_amt_10m  |->
             CountIf(merchant.window, LAMBDA x : x.amount < SmallAmount),
         device_card_count_1h    |-> Cardinality({x.card : x \in ToSet(device.window)}),
         merchant_txn_count      |-> merchant.count,
         merchant_observed_age   |-> Age(merchant.first, t.ts),
         device_observed_age     |-> deviceAge,
         device_alltime_cards    |-> Cardinality(device.cards),
         pair_device_life        |->
             IF deviceAge > 0 THEN <<Age(s.pair[<<t.device, t.card>>], t.ts), deviceAge>>
             ELSE <<1, 1>>,
         device_confirmed_fraud_links   |-> MarksUpTo(s, t.device, t.ts),
         card_prior_confirmed_fraud     |-> AtMost(MarksUpTo(s, t.card, t.ts), MarkCap),
         merchant_confirmed_fraud_links |-> MarksUpTo(s, t.merchant, t.ts)]

FirstSeen(old, ts) == IF old = None THEN ts ELSE old

(* update                                                                  *)
Updated(s, t) ==
    [s EXCEPT
        !.card[t.card] =
            [window    |-> Append(@.window, [ts |-> t.ts, amount |-> t.amount]),
             devices   |-> @.devices \cup {t.device},
             merchants |-> @.merchants \cup {t.merchant},
             count     |-> @.count + 1,
             total     |-> @.total + t.amount],
        !.merchant[t.merchant] =
            [window |-> Append(@.window, [ts |-> t.ts, amount |-> t.amount]),
             first  |-> FirstSeen(@.first, t.ts),
             count  |-> @.count + 1],
        !.device[t.device] =
            [window |-> Append(@.window, [ts |-> t.ts, card |-> t.card]),
             first  |-> FirstSeen(@.first, t.ts),
             cards  |-> @.cards \cup {t.card}],
        !.pair[<<t.device, t.card>>] = FirstSeen(@, t.ts)]

(* mark_confirmed_fraud: only the entities the caller names.               *)
Marked(s, m) ==
    [s EXCEPT !.marks = [e \in DOMAIN @ |->
        IF e \in {m.card, m.device, m.merchant} THEN Append(@[e], m.visible) ELSE @[e]]]

-----------------------------------------------------------------------------
(* build_feature_frame: the sorted frame, one row at a time.               *)
Init == LogInit /\ store = EmptyStore /\ pending = Idle

Read(t) ==
    /\ pending = Idle
    /\ Len(log) < MaxLog
    /\ asked' = t
    /\ features' = FeaturesFor(store, t)
    /\ store' = Trimmed(store, t)
    /\ pending' = [step |-> "update", txn |-> t]
    /\ UNCHANGED <<log, confirmed>>

ReplayRead(t) == InOrder(t) /\ Read(t)

ReplayUpdate(fraud) ==
    /\ pending.step = "update"
    /\ store' = Updated(store, pending.txn)
    /\ log' = Append(log, pending.txn)
    /\ pending' = IF fraud THEN [step |-> "mark", txn |-> pending.txn] ELSE Idle
    /\ UNCHANGED <<confirmed, asked, features>>

(* The simulated label loop: the mark is visible LABEL_LATENCY later.      *)
ReplayMark ==
    /\ pending.step = "mark"
    /\ LET t == pending.txn
           m == [visible |-> t.ts + LabelLatency, card |-> t.card,
                 device |-> t.device, merchant |-> t.merchant]
       IN  /\ store' = Marked(store, m)
           /\ confirmed' = Append(confirmed, m)
    /\ pending' = Idle
    /\ UNCHANGED <<log, asked, features>>

(* The frame is exhausted.                                                 *)
Finished == pending = Idle /\ Len(log) = MaxLog /\ UNCHANGED vars

-----------------------------------------------------------------------------
(* The rolling windows, sums and first-seen times give the same features   *)
(* as the whole history would: trimming in place, reading before updating  *)
(* and the delayed marks lose and leak nothing (ARCHITECTURE.md, "Point-   *)
(* in-time correctness").                                                  *)
ImplementsLog == LogSpec
=============================================================================
