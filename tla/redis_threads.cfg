\* Two threads of one replica, one card, four calls.
CONSTANTS
    Threads = {w1, w2}
    Cards = {c1}
    MaxCalls = 4
    Absent = Absent
SPECIFICATION Spec
PROPERTY HistoryNeverShrinks
