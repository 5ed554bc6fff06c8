\* Two processes, two programs, up to three scores on a scale of six.
CONSTANTS
    Scale = 6
    Bound <- DrvBound
    Halvings = 4
    MaxDoublings = 4
    Grain = 2
    Totals <- FiniteTotals
    Horizons = {1, 2, 4}
    Targets = {8, 24}
    Versions = {v1, v2}
    NoPointer = NoPointer
    MaxWrites = 2
    Processes = {p1, p2}
    MaxRuns = 2
    CardCosts <- Card
    P2PCosts <- P2P
    CapPerDay = 1
    FrameDays = {2, 3}
    MaxScores = 3
SPECIFICATION Spec
SYMMETRY Symmetric
INVARIANTS
    PublishedIsLogged
    OnlyTiesExceedCap
    ActionIsCheapest
    BudgetIsSpent
