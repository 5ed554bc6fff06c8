\* Transactions in timestamp order, dispositions at any time.
CONSTANTS
    c1 = c1
    c2 = c2
    Cards = {c1, c2}
    MaxTime = 4
    HoldTTL = 1
    MaxRisk = 2
    TChallenge = 1
    TBlock = 2
    NoHold = NoHold
SPECIFICATION Spec
SYMMETRY CardSymmetry
INVARIANTS HoldInv FloorHolds FloorOnlyWhileCovered

