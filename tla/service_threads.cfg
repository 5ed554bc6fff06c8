\* Two threads, one card, two transactions, one restart.
CONSTANTS
    c1 = c1
    Cards = {c1}
    MaxTime = 1
    HoldTTL = 0
    MaxRisk = 2
    TChallenge = 1
    TBlock = 2
    NoHold = NoHold
    w1 = w1
    w2 = w2
    Workers = {w1, w2}
    t1 = t1
    t2 = t2
    TxnIds = {t1, t2}
    CardOf <- AllOnOneCard
    a1 = a1
    Analysts = {a1}
    MaxCalls = 3
    MaxCrashes = 1
    MaxFaults = 1
    NoAlert = NoAlert
    Null = Null
SPECIFICATION Spec
SYMMETRY ThreadSymmetry
INVARIANTS NoAlertLost HeldCardIsInQueue MarksAreAudited CountersAgree
PROPERTIES ClearsAreAudited AuditAppendOnly
