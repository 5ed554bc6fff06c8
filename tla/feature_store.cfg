\* Every sorted frame of three rows, and every incident with a row around it.
CONSTANTS
    Cards = {c1, c2}
    Devices = {d1, d2}
    Merchants = {m1, m2}
    Amounts = {1, 6}
    MaxTime = 19
    Day = 4
    Hour = 1
    TenMinutes = 1
    SmallAmount = 5
    LabelLatency = 4
    MarkCap = 1
    Nobody = Nobody
    MaxLog = 5
    None = None
    Moments = {0, 1, 5, 9}
    MaxOthers = 3
    MaxAround = 1
    Starts = {8}
    BurstRows = 2
    BurstOffsets = {0, 3}
    ProbeOffsets = {0, 1}
    LaterOffsets = {0, 5}
    WarmDays = 2
    Daytime = {1, 3}
    NoIncident = NoIncident
SPECIFICATION FrameSpec
SYMMETRY EntitySymmetry
INVARIANTS
    BurstsOutrunLabels
    CashOutIsMarked
    TrustedDeviceCreepsUp
    ProbesAddUp
PROPERTY ImplementsLog
