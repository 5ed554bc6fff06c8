---------------------------- MODULE WireControls ----------------------------
(***************************************************************************)
(* The wire channel (finguard/wire.py): build_features folds the sorted    *)
(* wires of a payer to the accounts of its suppliers into dictionaries and *)
(* reads each row's features and control signals off them before it is     *)
(* folded in; decide holds a wire because of its score or because its      *)
(* account is not verified yet.                                            *)
(*                                                                         *)
(* Amounts, days and costs are integers, probabilities and fractions are   *)
(* parts of Unit.  The statistics of a row (z-score, cadence), the country *)
(* and the fields copied from the wire are not modelled; a dictionary kept *)
(* only for its sum, maximum or length is that sum, maximum or length.     *)
(***************************************************************************)
EXTENDS Lists, FiniteSetsExt, SequencesExt

CONSTANTS
    Payers, Suppliers, Accounts, Amounts,
    MaxTime,         \* bound on the timestamps
    MaxWires,        \* bound on the wires
    Day, Week, Month,
    VerifyDelay,     \* the least VERIFY_DELAY_DAYS
    Cap,             \* NEW_BENEFICIARY_CAP
    Floor,           \* PER_WIRE_FLOOR
    HumanAbove,      \* HUMAN_RELEASE_ABOVE
    Unit,            \* probability 1
    Scores,          \* the calibrated scores
    RFrac, DFrac,    \* R_FRAC, D_FRAC
    ReviewCost,      \* REVIEW_COST
    Never            \* NaT, and a key that is absent

ASSUME MoneyAssumption ==
    /\ Amounts \subseteq Nat \ {0}
    /\ Cap \in Nat \ {0} /\ Floor \in Nat /\ HumanAbove \in Nat
ASSUME CostAssumption ==
    /\ Unit \in Nat \ {0} /\ RFrac \in 0 .. Unit /\ DFrac \in 0 .. Unit
    /\ ReviewCost \in Nat /\ Scores \subseteq 0 .. Unit
ASSUME NeverAssumption == Never \notin Int
ASSUME WireTimeAssumption ==
    /\ MaxTime \in Nat /\ MaxWires \in Nat /\ VerifyDelay \in Nat
    /\ Day \in Nat /\ Week \in Nat /\ Month \in Nat

Times == 0 .. MaxTime
Wires == [payer : Payers, supplier : Suppliers, account : Accounts,
          ts : Times, amount : Amounts]

VARIABLES
    paid,       \* account_amounts: what each payer sent each account before
    book,       \* the other dictionaries of build_features
    verified,   \* verified_at of each account
    outcome,    \* the latest wire, its row and its decision
    log,        \* history: the wires so far
    released    \* history: what each payer sent each account while unverified

wireVars == <<paid, book, verified, outcome, log, released>>

Pairs == Payers \X Suppliers
PaidKeys == Payers \X Accounts
NothingPaid == [total |-> 0, most |-> 0]
NoOutcome == [wire |-> Never]

Init ==
    /\ paid = [k \in PaidKeys |-> NothingPaid]
    /\ book = [first    |-> [k \in PaidKeys |-> Never],
               pairSeen |-> [p \in Pairs |-> [a \in Accounts |-> Never]],
               pairPaid |-> [p \in Pairs |-> 0],
               wires    |-> [p \in Payers |-> <<>>],
               newAccts |-> [p \in Payers |-> <<>>],
               amounts  |-> [p \in Payers |-> <<>>]]
    /\ verified = [a \in Accounts |-> Never]
    /\ outcome = NoOutcome
    /\ log = <<>>
    /\ released = [k \in PaidKeys |-> NothingPaid]

-----------------------------------------------------------------------------
Larger(m, n) == IF m >= n THEN m ELSE n
Plus(sums, amount) == [total |-> sums.total + amount, most |-> Larger(sums.most, amount)]
Since(seen, ts) == IF seen = Never THEN ts ELSE seen
Recent(window, cutoff) == At(window, {i \in DOMAIN window : window[i] >= cutoff})

PaidKey(t) == <<t.payer, t.account>>
Pair(t) == <<t.payer, t.supplier>>
NewAccount(t) == book.pairSeen[Pair(t)][t.account] = Never

(* The features and the control signals of a wire, before it is folded in. *)
Row(t) ==
    LET sent == paid[PaidKey(t)]
        wires == book.amounts[t.payer]
        lastDay == {i \in DOMAIN wires : wires[i].ts >= t.ts - Day}
    IN  [cumulative_to_account         |-> sent.total + t.amount,
         benef_account_age_days        |-> t.ts - Since(book.first[PaidKey(t)], t.ts),
         is_new_beneficiary_account    |-> NewAccount(t) /\ book.pairPaid[Pair(t)] > 0,
         days_since_beneficiary_change |->
             IF NewAccount(t) THEN Never
             ELSE t.ts - book.pairSeen[Pair(t)][t.account],
         payer_wires_30d               |-> Len(Recent(book.wires[t.payer], t.ts - Month)),
         supplier_payment_count        |-> book.pairPaid[Pair(t)],
         payer_new_accounts_7d         |-> Len(Recent(book.newAccts[t.payer], t.ts - Week)),
         payer_wire_sum_24h            |-> SumFunction([i \in lastDay |-> wires[i].amount]),
         amount_over_account_max       |->
             <<t.amount, IF sent.most = 0 THEN t.amount ELSE sent.most>>]

(* The dictionaries once the wire is folded in, with a list of the payer's *)
(* wires pruned in passing.                                                *)
FoldedKeeping(t, window) ==
    [book EXCEPT
        !.first[PaidKey(t)] = Since(@, t.ts),
        !.pairSeen[Pair(t)][t.account] = Since(@, t.ts),
        !.pairPaid[Pair(t)] = @ + 1,
        !.wires[t.payer] = Append(Recent(@, t.ts - window), t.ts),
        !.newAccts[t.payer] = IF NewAccount(t) THEN Append(@, t.ts) ELSE @,
        !.amounts[t.payer] = Append(@, [ts |-> t.ts, amount |-> t.amount])]

(* Mutant of Folded: pruned to a week.                                     *)
FoldedWeek(t) == FoldedKeeping(t, Week)

Folded(t) == FoldedKeeping(t, Month)

-----------------------------------------------------------------------------
(* verified_at is missing, or later than the wire.                         *)
Unverified(t) == verified[t.account] = Never \/ t.ts < verified[t.account]

(* Mutant of ModelHeld: the friction that holding a fraud spares is left   *)
(* out of the threshold.                                                   *)
ModelHeldNoFriction(p, amount) ==
    p * (Unit - RFrac) * amount > Unit * (DFrac * amount + Unit * ReviewCost)

(* p > hold_threshold(amount), multiplied out.                             *)
ModelHeld(p, amount) ==
    p * (Unit - RFrac + DFrac) * amount > Unit * (DFrac * amount + Unit * ReviewCost)

(* Mutant of ControlHeld: a wire that reaches the cap exactly passes.      *)
ControlHeldAboveCap(t, cumulative) ==
    Unverified(t) /\ (t.amount > Floor \/ cumulative > Cap)

ControlHeld(t, cumulative) ==
    Unverified(t) /\ (t.amount > Floor \/ cumulative >= Cap)

Held(t, p) ==
    ModelHeld(p, t.amount) \/ ControlHeld(t, Row(t).cumulative_to_account)

(* One row of the frame: its features, its decision, and the fold.  A held *)
(* wire is folded in like a released one.                                  *)
Wire(t, p) ==
    /\ Len(log) < MaxWires
    /\ outcome' = [wire |-> t, p |-> p, row |-> Row(t),
                   model_held   |-> ModelHeld(p, t.amount),
                   held         |-> Held(t, p),
                   human_queue  |-> Held(t, p) /\ t.amount > HumanAbove,
                   dual_control |-> Held(t, p) /\ t.amount <= HumanAbove]
    /\ paid' = [paid EXCEPT ![PaidKey(t)] = Plus(@, t.amount)]
    /\ book' = Folded(t)
    /\ log' = Append(log, t)
    /\ released' = IF Unverified(t) /\ ~Held(t, p)
                   THEN [released EXCEPT ![PaidKey(t)] = Plus(@, t.amount)]
                   ELSE released
    /\ UNCHANGED verified

(* The frame is sorted by timestamp.                                       *)
Now == IF log = <<>> THEN 0 ELSE Last(log).ts

SortedWire(t, p) == t.ts >= Now /\ Wire(t, p)

(* The callback of an account completes at some time, at least VerifyDelay *)
(* after the first wire anybody sent to it.  The generator draws the time  *)
(* up front; here it is drawn once the account has been paid, later than   *)
(* every wire so far: no decision could have read it before.               *)
Verify(a, when) ==
    /\ verified[a] = Never
    /\ when > Now
    /\ \E i \in DOMAIN log : log[i].account = a /\ log[i].ts + VerifyDelay <= when
    /\ verified' = [verified EXCEPT ![a] = when]
    /\ UNCHANGED <<paid, book, outcome, log, released>>

Finished == Len(log) = MaxWires /\ UNCHANGED wireVars

Next ==
    \/ \E t \in Wires, p \in Scores : SortedWire(t, p)
    \/ \E a \in Accounts, when \in Times : Verify(a, when)
    \/ Finished

Spec == Init /\ [][Next]_wireVars

-----------------------------------------------------------------------------
Paids == [total : Nat, most : Nat]

TypeOK ==
    /\ paid \in [PaidKeys -> Paids]
    /\ released \in [PaidKeys -> Paids]
    /\ verified \in [Accounts -> Times \cup {Never}]

(* While an account is unverified, what a payer has been allowed to send   *)
(* it stays below NEW_BENEFICIARY_CAP, in wires of at most PER_WIRE_FLOOR, *)
(* however the wires are spread over suppliers and time (wire.py, decide:  *)
(* the cap and the per-wire floor).                                        *)
CapHolds ==
    \A k \in PaidKeys : released[k].total < Cap /\ released[k].most <= Floor

(* Released wires are among the paid ones, held or not.                    *)
ReleasedWasPaid == \A k \in PaidKeys : released[k].total <= paid[k].total

(* The invariant that makes the cap inductive: what was released is part   *)
(* of what the control counts (wire.py, cumulative_to_account).  The types *)
(* of the other dictionaries play no part in it.                           *)
CapInv == TypeOK /\ ReleasedWasPaid /\ CapHolds

-----------------------------------------------------------------------------
(* A wire is held on its score exactly when holding it costs less than     *)
(* releasing it under the cost model of the module's header (wire.py,      *)
(* hold_threshold).                                                        *)
ReleaseCost(p, amount) == Unit * p * amount
HoldCost(p, amount) ==
    p * RFrac * amount + (Unit - p) * DFrac * amount + Unit * Unit * ReviewCost

HoldIsCheapest ==
    outcome # NoOutcome =>
        (outcome.model_held <=>
            HoldCost(outcome.p, outcome.wire.amount) < ReleaseCost(outcome.p, outcome.wire.amount))

(* Every feature and control signal is a function of the wires that came   *)
(* before: the dictionaries, pruned and folded row by row, lose nothing    *)
(* and hold nothing of the row itself or of a later one (wire.py,          *)
(* build_features).                                                        *)
RowOfHistory(past, t) ==
    LET ofPayer    == {i \in DOMAIN past : past[i].payer = t.payer}
        ofPair     == {i \in DOMAIN past : Pair(past[i]) = Pair(t)}
        toAccount  == {i \in DOMAIN past : PaidKey(past[i]) = PaidKey(t)}
        pairTo     == ofPair \cap toAccount
        ageOfFirst(S) == IF S = {} THEN 0 ELSE t.ts - past[Min(S)].ts
        within(S, window) == {i \in S : past[i].ts >= t.ts - window}
        sum(S)     == SumFunction([i \in S |-> past[i].amount])
        firstOfPair == {i \in ofPayer : ~\E j \in ofPayer :
                            /\ j < i
                            /\ Pair(past[j]) = Pair(past[i])
                            /\ past[j].account = past[i].account}
    IN  [cumulative_to_account         |-> sum(toAccount) + t.amount,
         benef_account_age_days        |-> ageOfFirst(toAccount),
         is_new_beneficiary_account    |-> pairTo = {} /\ ofPair # {},
         days_since_beneficiary_change |->
             IF pairTo = {} THEN Never ELSE ageOfFirst(pairTo),
         payer_wires_30d               |-> Cardinality(within(ofPayer, Month)),
         supplier_payment_count        |-> Cardinality(ofPair),
         payer_new_accounts_7d         |-> Cardinality(within(firstOfPair, Week)),
         payer_wire_sum_24h            |-> sum(within(ofPayer, Day)),
         amount_over_account_max       |->
             <<t.amount, IF toAccount = {} THEN t.amount
                         ELSE Max({past[i].amount : i \in toAccount})>>]

RowIsOfHistory == outcome # NoOutcome => outcome.row = RowOfHistory(Front(log), outcome.wire)
=============================================================================
