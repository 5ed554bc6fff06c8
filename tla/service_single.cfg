\* One worker thread: the service implements its atomic components.
CONSTANTS
    c1 = c1
    Cards = {c1}
    MaxTime = 1
    HoldTTL = 0
    MaxRisk = 2
    TChallenge = 1
    TBlock = 2
    NoHold = NoHold
    w1 = w1
    Workers = {w1}
    t1 = t1
    t2 = t2
    TxnIds = {t1, t2}
    CardOf <- AllOnOneCard
    a1 = a1
    Analysts = {a1}
    MaxCalls = 3
    MaxCrashes = 1
    MaxFaults = 1
    NoAlert = NoAlert
    Null = Null
SPECIFICATION Spec_H
PROPERTIES ImplementsHold ImplementsQueue CommittedDispositionActs
