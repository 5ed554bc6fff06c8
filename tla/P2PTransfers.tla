---------------------------- MODULE P2PTransfers ----------------------------
(***************************************************************************)
(* The P2P channel (finguard/p2p.py).  generate plans scams as installments*)
(* of one victim to one mule among the other transfers and sorts the lot;  *)
(* build_features reads each row's features off dictionaries and folds the *)
(* row in; apply_friction then stops some of the frauds the model missed.  *)
(*                                                                         *)
(* Times are integers, OneDay units make a day.  A ratio is the pair of    *)
(* its numerator and denominator.  Fields copied from the transfer and the *)
(* account's age are left out, and the score: any rows may be alerted.     *)
(* Frames are far shorter than the 1000 days at which the floor under the  *)
(* lifetime rate and the cap of the acceleration would begin to matter.    *)
(***************************************************************************)
EXTENDS Lists, FiniteSetsExt, SequencesExt

CONSTANTS
    Senders, Recipients, Sums,
    OneDay, SevenDays, ThirtyDays,
    Moments,           \* when other transfers are made, and scams begin
    MaxTransfers,      \* bound on the rows
    MaxScams,          \* bound on the scams
    MaxInstallments,   \* the most installments of a scam
    Spread,            \* latest installment of a day, after the earliest
    BlatantSteps,      \* gaps between the payments of a blatant scam
    NoTransfer

ASSUME TransferAssumption ==
    /\ OneDay \in Nat \ {0} /\ SevenDays \in Nat
    /\ ThirtyDays \in Nat /\ ThirtyDays >= OneDay
    /\ Moments \subseteq Nat /\ MaxTransfers \in Nat /\ MaxScams \in Nat
    /\ MaxInstallments \in Nat /\ Spread \in 0 .. OneDay - 1
    /\ BlatantSteps \subseteq Nat /\ Sums \subseteq Nat \ {0}
    /\ NoTransfer \notin Int

(* At most six installments, a day apart, between 9 and 20 h: the first is *)
(* less than seven days before the last.                                   *)
ASSUME CoachingAssumption == (MaxInstallments - 1) * OneDay + Spread <= SevenDays

VARIABLES
    ledger,     \* the dictionaries of build_features
    scams,      \* how many scams are planned
    due,        \* their payments that are still to come
    frame,      \* the rows so far
    row,        \* the features of the latest row
    friction    \* what apply_friction returned

transferVars == <<ledger, scams, due, frame, row, friction>>

Labels == {"legit", "p2p_app_scam", "p2p_ato_transfer"}
Fraud(t) == t.label # "legit"
PairOf(t) == <<t.sender, t.recipient>>

EmptyLedger ==
    [hist    |-> [s \in Senders |-> <<>>],
     recips  |-> [s \in Senders |-> {}],
     fresh   |-> [s \in Senders |-> <<>>],
     inbound |-> [r \in Recipients |-> <<>>],
     life    |-> [r \in Recipients |-> [n |-> 0, first |-> NoTransfer]],
     pair    |-> [p \in Senders \X Recipients |-> <<>>]]

TransferInit ==
    /\ ledger = EmptyLedger /\ scams = 0 /\ due = {} /\ frame = <<>>
    /\ row = NoTransfer /\ friction = NoTransfer

-----------------------------------------------------------------------------
Young(list, cutoff) == At(list, {i \in DOMAIN list : list[i].ts >= cutoff})
SumOf(list) == SumFunction([i \in DOMAIN list |-> list[i].amount])
FirstTime(t) == t.recipient \notin ledger.recips[t.sender]

(* Whole days since the recipient's first inbound transfer, at least one.  *)
LifeDays(t) ==
    LET first == ledger.life[t.recipient].first
    IN  IF first = NoTransfer THEN 1 ELSE Max({(t.ts - first) \div OneDay, 1})

(* Mutant of PairWindow: the window of the 24 h signals.                   *)
PairWindowDay(t) == Young(ledger.pair[PairOf(t)], t.ts - OneDay)

PairWindow(t) == Young(ledger.pair[PairOf(t)], t.ts - SevenDays)

(* Mutant of Acceleration: the rate of the last thirty days on both sides. *)
AccelerationRecent(t, inbound) == <<Len(inbound) * LifeDays(t), Max({Len(inbound), 1})>>

(* The inbound rate of the last thirty days over that of the whole life.   *)
Acceleration(t, inbound) ==
    <<Len(inbound) * LifeDays(t),
      (ThirtyDays \div OneDay) * Max({ledger.life[t.recipient].n, 1})>>

FeaturesOfTransfer(t) ==
    LET hist    == Young(ledger.hist[t.sender], t.ts - ThirtyDays)
        inbound == Young(ledger.inbound[t.recipient], t.ts - ThirtyDays)
    IN  [amount_over_sender_avg  |-> IF hist = <<>> THEN <<1, 1>>
                                     ELSE <<t.amount * Len(hist), SumOf(hist)>>,
         is_first_time_recipient |-> FirstTime(t),
         sender_transfer_count_30d |-> Len(hist),
         sender_new_recipients_7d  |-> Len(Young(ledger.fresh[t.sender], t.ts - SevenDays)),
         recipient_inbound_30d     |-> Len(inbound),
         recipient_unique_senders_30d |-> Cardinality({x.sender : x \in ToSet(inbound)}),
         recipient_first_time_sender_ratio |->
             <<Cardinality({i \in DOMAIN inbound : inbound[i].first_time}), Len(inbound)>>,
         pair_cum_amount_7d        |-> SumOf(PairWindow(t)),
         pair_txn_count_7d         |-> Len(PairWindow(t)),
         recipient_inbound_accel   |-> Acceleration(t, inbound)]

(* The dictionaries after a row; two of the lists are pruned in passing.   *)
LedgerKeeping(t, window) ==
    LET entry == [ts |-> t.ts, amount |-> t.amount]
    IN  [ledger EXCEPT
            !.hist[t.sender] = Append(Young(@, t.ts - ThirtyDays), entry),
            !.recips[t.sender] = @ \cup {t.recipient},
            !.fresh[t.sender] = IF FirstTime(t) THEN Append(@, entry) ELSE @,
            !.inbound[t.recipient] =
                Append(Young(@, t.ts - window),
                       [ts |-> t.ts, sender |-> t.sender, first_time |-> FirstTime(t)]),
            !.life[t.recipient] =
                [n |-> @.n + 1, first |-> IF @.first = NoTransfer THEN t.ts ELSE @.first],
            !.pair[PairOf(t)] = Append(@, entry)]

(* Mutant of Ledger: the recipient's list is pruned to a week.             *)
LedgerWeek(t) == LedgerKeeping(t, SevenDays)

Ledger(t) == LedgerKeeping(t, ThirtyDays)

-----------------------------------------------------------------------------
(* generate and the loop of build_features: the frame in timestamp order.  *)
Latest == IF frame = <<>> THEN 0 ELSE Last(frame).ts

(* When the payments of a scam that begins at ts are made.  The steps of a *)
(* blatant scam are drawn anew for each payment: one may overtake another. *)
Evasive(ts, n) ==
    {[k \in 0 .. n - 1 |-> ts + k * OneDay + offset[k]] : offset \in [0 .. n - 1 -> 0 .. Spread]}
Blatant(ts, n) ==
    {[k \in 0 .. n - 1 |-> ts + k * step[k]] : step \in [0 .. n - 1 -> BlatantSteps]}

Replaying == friction = NoTransfer

Planning == frame = <<>> /\ scams < MaxScams

(* One scam: the amount of each payment is drawn anew.                     *)
Plan(victim, mule, amounts, times, variant) ==
    /\ Planning
    /\ due' = due \cup {[sender |-> victim, recipient |-> mule, ts |-> times[k],
                          amount |-> amounts[k], label |-> "p2p_app_scam",
                          variant |-> variant, scam |-> scams + 1, k |-> k] :
                             k \in DOMAIN times}
    /\ Cardinality(due') <= MaxTransfers
    /\ scams' = scams + 1
    /\ UNCHANGED <<ledger, frame, row, friction>>

RowOf(t) ==
    [sender |-> t.sender, recipient |-> t.recipient, ts |-> t.ts, amount |-> t.amount,
     label |-> t.label, variant |-> t.variant, scam |-> t.scam, k |-> t.k,
     first_time |-> FirstTime(t)]

Take(t) ==
    /\ Replaying
    /\ row' = FeaturesOfTransfer(t)
    /\ frame' = Append(frame, RowOf(t))
    /\ ledger' = Ledger(t)
    /\ UNCHANGED <<scams, friction>>

NoneEarlier(ts) == \A d \in due : ts <= d.ts

(* The next row is a payment of a scam, or another transfer.               *)
TakeDue ==
    \E d \in due : NoneEarlier(d.ts) /\ Take(d) /\ due' = due \ {d}

TakeOther(sender, recipient, ts, amount, label) ==
    /\ ts >= Latest /\ NoneEarlier(ts)
    /\ Len(frame) + Cardinality(due) < MaxTransfers
    /\ Take([sender |-> sender, recipient |-> recipient, ts |-> ts, amount |-> amount,
             label |-> label, variant |-> "none", scam |-> 0, k |-> 0])
    /\ UNCHANGED due

TakePayment(sender, recipient, ts, amount) ==
    TakeOther(sender, recipient, ts, amount, "legit")
TakeTakeover(sender, recipient, ts, amount) ==
    TakeOther(sender, recipient, ts, amount, "p2p_ato_transfer")

-----------------------------------------------------------------------------
(* apply_friction, on the rows from the day of the cutoff on.              *)
DayOf(i) == frame[i].ts \div OneDay
TestRows(cutoff) == {i \in DOMAIN frame : DayOf(i) >= cutoff}
Scheme(i, rows) == {j \in rows : Fraud(frame[j]) /\ PairOf(frame[j]) = PairOf(frame[i])}

(* The first of the least timestamp: rows are in timestamp order.          *)
FirstContact(i, rows) == Min(Scheme(i, rows))

(* Mutant of Settling: every missed fraud waits for settlement.            *)
SettlingAll(rows, alerted) ==
    {i \in rows : Fraud(frame[i]) /\ i \notin alerted}

(* Missed first-time frauds, delayed long enough to be recalled.           *)
Settling(rows, alerted) ==
    {i \in rows : Fraud(frame[i]) /\ i \notin alerted /\ frame[i].first_time}

(* First contacts at which confirmation of payee gets its chance.          *)
Prompted(rows, alerted) ==
    {i \in rows : /\ Fraud(frame[i]) /\ FirstContact(i, rows) = i
                  /\ frame[i].label = "p2p_app_scam"
                  /\ frame[i].first_time /\ i \notin alerted}

(* Victims who abandon at the prompt are spared the whole scheme; of the   *)
(* rest, some payments are recalled before they settle.  Alerts on         *)
(* legitimate rows play no part.                                           *)
ApplyFriction(cutoff, alerted) ==
    LET rows == TestRows(cutoff)
    IN  /\ Replaying /\ due = {} /\ frame # <<>>
        /\ alerted \subseteq {i \in rows : Fraud(frame[i])}
        /\ \E abandoned \in SUBSET Prompted(rows, alerted) :
               LET spared == UNION {Scheme(i, rows) : i \in abandoned}
               IN  \E recalled \in SUBSET (Settling(rows, alerted) \ spared) :
                       friction' = [cutoff |-> cutoff, prevented |-> spared \cup recalled]
        /\ UNCHANGED <<ledger, scams, due, frame, row>>

ReportDone == ~Replaying /\ UNCHANGED transferVars

TransferNext ==
    \/ /\ Planning
       /\ \E victim \in Senders, mule \in Recipients, ts \in Moments, n \in 1 .. MaxInstallments :
          \E amounts \in [0 .. n - 1 -> Sums] :
          \/ \E times \in Evasive(ts, n) : Plan(victim, mule, amounts, times, "app_evasive")
          \/ \E times \in Blatant(ts, n) : Plan(victim, mule, amounts, times, "app_blatant")
    \/ TakeDue
    \/ \E sender \in Senders, recipient \in Recipients, ts \in Moments, amount \in Sums :
          \/ TakePayment(sender, recipient, ts, amount)
          \/ TakeTakeover(sender, recipient, ts, amount)
    \/ \E i \in DOMAIN frame : \E alerted \in SUBSET DOMAIN frame :
          ApplyFriction(DayOf(i), alerted)
    \/ ReportDone

TransferSpec == TransferInit /\ [][TransferNext]_transferVars

-----------------------------------------------------------------------------
(* Every feature is a function of the transfers before the row: pruning    *)
(* the lists in passing loses nothing a later row needs, and the row's own *)
(* transfer is not among them (p2p.py, build_features).                    *)
FeaturesOfPast(past, t) ==
    LET sent     == {i \in DOMAIN past : past[i].sender = t.sender}
        received == {i \in DOMAIN past : past[i].recipient = t.recipient}
        since(S, window) == {i \in S : past[i].ts >= t.ts - window}
        total(S) == SumFunction([i \in S |-> past[i].amount])
        firsts(S) == {i \in S : ~\E j \in 1 .. i - 1 : PairOf(past[j]) = PairOf(past[i])}
        hist     == since(sent, ThirtyDays)
        inbound  == since(received, ThirtyDays)
        pair     == since(sent \cap received, SevenDays)
        lifeDays == IF received = {} THEN 1
                    ELSE Max({(t.ts - past[Min(received)].ts) \div OneDay, 1})
    IN  [amount_over_sender_avg  |-> IF hist = {} THEN <<1, 1>>
                                     ELSE <<t.amount * Cardinality(hist), total(hist)>>,
         is_first_time_recipient |-> sent \cap received = {},
         sender_transfer_count_30d |-> Cardinality(hist),
         sender_new_recipients_7d  |-> Cardinality(since(firsts(sent), SevenDays)),
         recipient_inbound_30d     |-> Cardinality(inbound),
         recipient_unique_senders_30d |-> Cardinality({past[i].sender : i \in inbound}),
         recipient_first_time_sender_ratio |->
             <<Cardinality(firsts(received) \cap inbound), Cardinality(inbound)>>,
         pair_cum_amount_7d        |-> total(pair),
         pair_txn_count_7d         |-> Cardinality(pair),
         recipient_inbound_accel   |->
             <<Cardinality(inbound) * lifeDays,
               (ThirtyDays \div OneDay) * Max({Cardinality(received), 1})>>]

TransferRowIsOfHistory == frame # <<>> => row = FeaturesOfPast(Front(frame), Last(frame))

(* The installments of a coached scam arrive in order, and each finds all  *)
(* those before it in the pair's window, whatever their amounts and        *)
(* however the victim's other payments fall: the signal is at least what   *)
(* the scam has taken so far (p2p.py, generate: installments over days;    *)
(* P2P_FEATURES: "installments to one recipient ACCUMULATE").              *)
InstallmentsBefore(t) ==
    {i \in 1 .. Len(frame) - 1 : frame[i].scam = t.scam /\ frame[i].variant = "app_evasive"}

InstallmentsAccumulate ==
    frame # <<>> /\ Last(frame).variant = "app_evasive" =>
        LET before == InstallmentsBefore(Last(frame))
        IN  /\ {frame[i].k : i \in before} = 0 .. Last(frame).k - 1
            /\ row.pair_txn_count_7d >= Last(frame).k
            /\ row.pair_cum_amount_7d >= SumFunction([i \in before |-> frame[i].amount])

(* An inbound surge needs a past to compare with: nobody whose first       *)
(* inbound transfer is within the thirty days looks accelerated (p2p.py,   *)
(* _c8: a sleeper "does not look ordinary on their own trend").            *)
SurgeNeedsHistory ==
    frame # <<>> /\ row.recipient_inbound_accel[1] > row.recipient_inbound_accel[2] =>
        \E i \in 1 .. Len(frame) - 1 :
            /\ frame[i].recipient = Last(frame).recipient
            /\ frame[i].ts < Last(frame).ts - ThirtyDays

(* Friction stops no legitimate payment, and never a later payment of a    *)
(* scheme whose first payment in the test window it let through: what      *)
(* build_features calls first is the first contact of apply_friction       *)
(* (p2p.py, apply_friction: confirmation of payee fires at the FIRST       *)
(* contact).                                                               *)
PreventedFromTheFirst ==
    friction # NoTransfer =>
        \A i \in friction.prevented :
            /\ Fraud(frame[i])
            /\ FirstContact(i, TestRows(friction.cutoff)) \in friction.prevented
            /\ frame[FirstContact(i, TestRows(friction.cutoff))].first_time
=============================================================================
