\* The same frames, replayed through two replicas which may crash between any two calls.
CONSTANTS
    Cards = {c1, c2}
    Devices = {d1, d2}
    Merchants = {m1, m2}
    Amounts = {1}
    MaxTime = 3
    Day = 2
    Hour = 1
    TenMinutes = 0
    SmallAmount = 5
    LabelLatency = 2
    MarkCap = 1
    Nobody = Nobody
    MaxLog = 3
    None = None
    Replicas = {r1, r2}
    Absent = Absent
SPECIFICATION TwinSpec
SYMMETRY EntitySymmetry
INVARIANTS FeaturesIdentical NoStaleCopy SameHistory
