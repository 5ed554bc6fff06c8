\* Every sorted frame of three wires, where two wires of 2 reach the cap
\* exactly; and every sorted frame of three transfers, with a scam or without,
\* at moments on either side of a week and of a month.  The senders stand for
\* the payers and the recipients for the accounts, for the symmetry only.
CONSTANTS
    Payers = {p1, p2}
    Suppliers = {s1, s2}
    Accounts = {a1, a2}
    Amounts = {2, 3}
    MaxTime = 3
    MaxWires = 3
    Day = 0
    Week = 1
    Month = 2
    VerifyDelay = 1
    Cap = 4
    Floor = 2
    HumanAbove = 2
    Unit = 10
    Scores = {0, 5, 7}
    RFrac = 2
    DFrac = 1
    ReviewCost = 1
    Never = Never
    Senders = {p1, p2}
    Recipients = {a1, a2}
    Sums = {1, 2}
    OneDay = 2
    SevenDays = 5
    ThirtyDays = 6
    Moments = {0, 5, 6, 14}
    MaxTransfers = 3
    MaxScams = 1
    MaxInstallments = 3
    Spread = 1
    BlatantSteps = {0, 1}
    NoTransfer = NoTransfer
SPECIFICATION ChannelsSpec
SYMMETRY PartySymmetry
INVARIANTS
    CapHolds
    HoldIsCheapest
    RowIsOfHistory
    TransferRowIsOfHistory
    InstallmentsAccumulate
    SurgeNeedsHistory
    PreventedFromTheFirst
