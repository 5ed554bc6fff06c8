\* Two threads score transactions that arrive in timestamp order.
CONSTANTS
    c1 = c1
    Cards = {c1}
    MaxTime = 1
    HoldTTL = 0
    MaxRisk = 1
    TChallenge = 1
    TBlock = 1
    NoHold = NoHold
    w1 = w1
    w2 = w2
    Workers = {w1, w2}
    t1 = t1
    t2 = t2
    TxnIds = {t1, t2}
    CardOf <- AllOnOneCard
    a1 = a1
    Analysts = {a1}
    MaxCalls = 4
    MaxCrashes = 0
    MaxFaults = 0
    NoAlert = NoAlert
    Null = Null
SPECIFICATION InOrderSpec_H
SYMMETRY ThreadSymmetry
INVARIANT FloorHolds
