--------------------------- MODULE CardIncidents ---------------------------
(***************************************************************************)
(* The frames finguard/datagen.py generates, replayed through the feature  *)
(* store.  An incident is planned as a set of rows at their timestamps;    *)
(* generate adds them to the purchases of the holders and sorts the lot,   *)
(* with equal timestamps in any order.                                     *)
(*                                                                         *)
(* Random numbers are choices from small sets.  The fields of a row which  *)
(* the store does not read are left out, and an amount is tiny or large.   *)
(* The devices of an incident have names of their own and are in no row    *)
(* outside it; so do cards made up for it, but here others may use them.   *)
(***************************************************************************)
EXTENDS FeatureStore, Functions

CONSTANTS
    Moments,         \* when the rows outside the incident are made
    MaxOthers,       \* bound on them in a frame with no incident
    MaxAround,       \* bound on them in a frame with one
    Starts,          \* ts of the incident
    BurstRows,       \* rows of a burst
    BurstOffsets,    \* hours to 18 h 59 min: the longest of the bursts
    ProbeOffsets,    \* seconds: the probes of a card test
    LaterOffsets,    \* to 97 h: what outlasts the label latency
    WarmDays,        \* days of a warm-up
    Daytime,         \* when on its day a row of a warm-up is made
    NoIncident

ASSUME IncidentAssumption ==
    /\ Moments \subseteq Times /\ Starts \subseteq Nat
    /\ MaxOthers \in Nat /\ MaxAround \in Nat
    /\ BurstRows \in Nat \ {0} /\ WarmDays \in Nat \ {0}
    /\ BurstOffsets \subseteq 0 .. LabelLatency - 1
    /\ ProbeOffsets \subseteq 0 .. TenMinutes
    /\ LaterOffsets \subseteq Nat /\ Daytime \subseteq 0 .. Day - 1
    /\ TenMinutes < LabelLatency /\ LabelLatency <= Day

(* There is a largest amount and one that is small.  Time is counted from  *)
(* before the earliest warm-up, and no row of an incident is later than    *)
(* MaxTime.                                                                *)
ASSUME FrameAssumption ==
    /\ \E most \in Amounts : \A amount \in Amounts : amount <= most
    /\ \E amount \in Amounts : amount < SmallAmount
    /\ \A ts \in Starts :
        /\ WarmDays * Day <= ts
        /\ \A o \in BurstOffsets \cup ProbeOffsets \cup LaterOffsets : ts + o <= MaxTime
        /\ \A hour \in Daytime : ts + WarmDays * Day + hour <= MaxTime
        /\ ts + BurstRows * Day <= MaxTime

VARIABLES
    incident,   \* the incident of the frame
    due,        \* its rows that are still to come
    current     \* the row being replayed

incidentVars == <<incident, due, current>>
frameVars == <<vars, incidentVars>>

NoRow == [part |-> "none"]
FrameInit == Init /\ incident = NoIncident /\ due = {} /\ current = NoRow

-----------------------------------------------------------------------------
(* The planned rows.  `part` tells a warm-up from what follows it.         *)
Tiny == Min(Amounts)
Large == Max(Amounts)

Row(part, k, card, device, merchant, ts, amount, fraud) ==
    [part |-> part, k |-> k, fraud |-> fraud,
     txn |-> [card |-> card, device |-> device, merchant |-> merchant,
              ts |-> ts, amount |-> amount]]

Incident(variant, ts, rows, own) ==
    [variant |-> variant, ts |-> ts, rows |-> rows, own |-> own]

Burst == 1 .. BurstRows
Plans(offsets) == [Burst -> Merchants \X offsets]

(* Rows of one card on one device, each at some merchant and some time.    *)
OnDevice(card, device, plan, ts) ==
    {Row("burst", k, card, device, plan[k][1], ts + plan[k][2], Large, TRUE) : k \in Burst}

(* Stolen credentials, an account taken over, and either in hiding.        *)
CnpBurst(card, ts) ==
    {Incident("cnp_burst", ts, OnDevice(card, d, p, ts), {d}) :
        d \in Devices, p \in Plans(BurstOffsets)}
CnpEvasive(card, ts) ==
    {Incident("cnp_evasive", ts, OnDevice(card, d, p, ts), {d}) :
        d \in Devices, p \in Plans(LaterOffsets)}
AtoBurst(card, ts) ==
    {Incident("ato_burst", ts, OnDevice(card, d, p, ts), {d}) :
        d \in Devices, p \in Plans(BurstOffsets)}

(* On the holder's own device, hence with no device of its own.            *)
LowSlowProfile(card, ts) ==
    {Incident("low_slow_profile", ts, OnDevice(card, d, p, ts), {}) :
        d \in Devices, p \in Plans({k * Day : k \in Burst})}

(* Mutant of CashOutDay: the cash-out follows the last purchase at once.   *)
CashOutDayEarly == WarmDays - 1

CashOutDay == WarmDays

(* Small purchases, one a day, then the cash-out.                          *)
AtoSlowBurn(card, ts) ==
    {Incident("ato_slow_burn", ts,
        {Row("warm-up", k, card, d, m, ts + k * Day + hour[k], Tiny, TRUE) : k \in 0 .. WarmDays - 1}
        \cup {Row("cash-out", WarmDays, card, d, m, ts + CashOutDay * Day + hour[WarmDays],
                  Large, TRUE)},
        {d}) : d \in Devices, m \in Merchants, hour \in [0 .. WarmDays -> Daytime]}

(* Mutant of ProbeTimes: the probes are as far apart as those in hiding.   *)
ProbeTimesApart == BurstOffsets

ProbeTimes == ProbeOffsets

(* Tiny payments on made-up cards, at one merchant from one device...      *)
CardTestingBurst(ts) ==
    {Incident("card_testing", ts,
        {Row("burst", k, card[k], d, m, ts + at[k], Tiny, TRUE) : k \in Burst}, {d}) :
        card \in Injection(Burst, Cards), d \in Devices, m \in Merchants,
        at \in [Burst -> ProbeTimes]}

(* ... or at any, from any.                                                *)
CardTestingEvasive(ts) ==
    {Incident("card_testing_evasive", ts,
        {Row("burst", k, card[k], d[k], p[k][1], ts + p[k][2], Tiny, TRUE) : k \in Burst},
        Range(d)) :
        card \in Injection(Burst, Cards), d \in [Burst -> Devices], p \in Plans(BurstOffsets)}

(* Mutant of WarmStart: the warm-up begins where the incident does.        *)
WarmStartLate(ts) == ts

WarmStart(ts) == ts - WarmDays * Day

(* Purchases on some of the days before ts, all genuine.                   *)
WarmUp(card, device, merchant, ts) ==
    {{Row("warm-up", k, card, device, merchant, WarmStart(ts) + k * Day + hour[k], Tiny, FALSE) :
        k \in days} : days \in SUBSET (0 .. WarmDays - 1), hour \in [0 .. WarmDays - 1 -> Daytime]}

(* A device trusted on its owner's card turns against other cards.         *)
SleeperDevice(owner, ts) ==
    UNION {{Incident("sleeper_device", ts,
                warm \cup {Row("burst", k, victim[k], d, m, ts + at[k], Large, TRUE) : k \in Burst}, {d}) :
                warm \in WarmUp(owner, d, m, ts), victim \in [Burst -> Cards],
                at \in [Burst -> LaterOffsets]} : d \in Devices, m \in Merchants}

(* Many cards, a device for each row, a few merchants, within 19 hours.    *)
LabelLatencyRing(ts) ==
    {Incident("label_latency_ring", ts,
        {Row("burst", k, card[k], d[k], p[k][1], ts + p[k][2], Large, TRUE) : k \in Burst}, Range(d)) :
        card \in [Burst -> Cards], d \in [Burst -> Devices], p \in Plans(BurstOffsets)}

(* A made-up holder behaves for weeks and maxes the card out.              *)
BustOutSynthetic(card, ts) ==
    UNION {{Incident("bust_out_synthetic", ts, warm \cup OnDevice(card, d, p, ts), {d}) :
                warm \in WarmUp(card, d, m, ts), p \in Plans(BurstOffsets)} :
           d \in Devices, m \in Merchants}

IncidentsAt(ts) ==
    CardTestingBurst(ts) \cup CardTestingEvasive(ts) \cup LabelLatencyRing(ts)
    \cup UNION {CnpBurst(c, ts) \cup CnpEvasive(c, ts) \cup AtoBurst(c, ts)
                \cup AtoSlowBurn(c, ts) \cup SleeperDevice(c, ts)
                \cup LowSlowProfile(c, ts) \cup BustOutSynthetic(c, ts) : c \in Cards}

ASSUME NoIncidentAssumption == \A ts \in Starts : NoIncident \notin IncidentsAt(ts)

-----------------------------------------------------------------------------
(* generate, then build_feature_frame.                                     *)
Plan(planned) ==
    /\ incident = NoIncident /\ asked = Nobody
    /\ incident' = planned /\ due' = planned.rows
    /\ UNCHANGED <<vars, current>>

NoneEarlier(ts) == \A d \in due : ts <= d.txn.ts

ReadDue ==
    \E d \in due :
        /\ NoneEarlier(d.txn.ts)
        /\ ReplayRead(d.txn)
        /\ due' = due \ {d} /\ current' = d
        /\ UNCHANGED incident

(* Another row: a purchase or a fraud in which nothing else is planned.    *)
Others ==
    IF incident = NoIncident THEN Len(log)
    ELSE Len(log) - (Cardinality(incident.rows) - Cardinality(due))
RoomForOther ==
    /\ Others < (IF incident = NoIncident THEN MaxOthers ELSE MaxAround)
    /\ pending = Idle

ReadOther(t) ==
    /\ RoomForOther
    /\ NoneEarlier(t.ts)
    /\ incident # NoIncident => t.device \notin incident.own
    /\ ReplayRead(t)
    /\ current' = NoRow
    /\ UNCHANGED <<incident, due>>

UpdateDue ==
    /\ current # NoRow
    /\ ReplayUpdate(current.fraud)
    /\ UNCHANGED incidentVars

UpdateOther(fraud) ==
    /\ current = NoRow
    /\ ReplayUpdate(fraud)
    /\ UNCHANGED incidentVars

MarkRow == ReplayMark /\ UNCHANGED incidentVars

FrameDone == pending = Idle /\ due = {} /\ UNCHANGED frameVars

FrameNext ==
    \/ \E ts \in Starts : \E planned \in IncidentsAt(ts) : Plan(planned)
    \/ ReadDue
    \/ RoomForOther /\ \E t \in Txns : t.ts \in Moments /\ ReadOther(t)
    \/ UpdateDue
    \/ \E fraud \in BOOLEAN : UpdateOther(fraud)
    \/ MarkRow
    \/ FrameDone

FrameSpec == FrameInit /\ [][FrameNext]_frameVars

-----------------------------------------------------------------------------
(* A row of an incident between features_for and update.                   *)
Reading(variants) ==
    /\ pending.step = "update" /\ current # NoRow
    /\ incident.variant \in variants

ReadBefore(part) == {r \in incident.rows \ (due \cup {current}) : r.part = part}

(* An incident that is over within the label latency is never marked by    *)
(* its own confirmations: its devices look clean, and its cards and        *)
(* merchants carry no mark of a fraud that did not precede it              *)
(* (datagen.py, _label_latency_ring: no mark "has landed on anything by    *)
(* the time the ring finishes").                                           *)
BurstsOutrunLabels ==
    Reading({"label_latency_ring", "card_testing", "card_testing_evasive", "cnp_burst",
             "ato_burst", "bust_out_synthetic"}) =>
        LET earlier(P(_)) == Cardinality({i \in DOMAIN confirmed :
                                 /\ P(confirmed[i])
                                 /\ confirmed[i].visible < incident.ts + LabelLatency})
        IN  /\ features.device_confirmed_fraud_links = 0
            /\ features.card_prior_confirmed_fraud
                   <= earlier(LAMBDA m : m.card = current.txn.card)
            /\ features.merchant_confirmed_fraud_links
                   <= earlier(LAMBDA m : m.merchant = current.txn.merchant)

(* A slow burn does not outrun the label loop: when the cash-out comes,    *)
(* the device is known to the card and all but the last of the small       *)
(* purchases have been confirmed (datagen.py, _ato_slow_burn).             *)
CashOutIsMarked ==
    Reading({"ato_slow_burn"}) /\ current.part = "cash-out" =>
        /\ ~features.is_new_device_for_card
        /\ features.device_confirmed_fraud_links >= WarmDays - 1
        /\ features.device_observed_age >= (WarmDays - 1) * Day

(* A sleeper device and the device of a bust-out keep one card through     *)
(* the warm-up, which ends before the incident begins, and then gain at    *)
(* most a card with each row; they are as old as their first purchase      *)
(* (datagen.py, _sleeper_device_burst: device_alltime_cards "stays at 1    *)
(* through the whole warm-up and only creeps up card-by-card").            *)
TrustedDeviceCreepsUp ==
    Reading({"sleeper_device", "bust_out_synthetic"}) =>
        /\ features.device_alltime_cards <= 1 + Cardinality(ReadBefore("burst"))
        /\ current.part = "warm-up" => ReadBefore("burst") = {}
        /\ \A r \in ReadBefore("warm-up") :
               features.device_observed_age >= current.txn.ts - r.txn.ts

(* Every probe of a card test sees all the probes before it, at the        *)
(* merchant and on the device, whatever else is bought there: the burst is *)
(* shorter than the window (datagen.py, _card_testing_burst: "many small   *)
(* probes on one merchant").                                               *)
ProbesAddUp ==
    Reading({"card_testing"}) =>
        /\ features.merchant_small_amt_10m >= Cardinality(ReadBefore("burst"))
        /\ features.device_card_count_1h = Cardinality(ReadBefore("burst"))
=============================================================================
