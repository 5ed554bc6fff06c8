\* A transaction is scored again after an analyst decided its alert.
CONSTANTS
    AlertIds = {t1}
    t1 = t1
    Payloads = {p1}
    p1 = p1
    Analysts = {a1}
    a1 = a1
    NoAlert = NoAlert
    Null = Null
    MaxAudit = 3
SPECIFICATION Spec_H
PROPERTY OverrideVisible
