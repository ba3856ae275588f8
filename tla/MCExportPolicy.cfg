CONSTANTS
    Sources = {s1}
    Things = {t1, t2}
    Features = {f1, f2}
    Props = {p1}
    Values = {v1}
    Absent = Absent
    NoDowntime = NoDowntime
    Forged = Forged
    NoSig = NoSig
    NotConfigured = NotConfigured
    Raised = Raised
    Now = 0
    RuleThings = {t1}
    RuleFeatures = {f1}
    MissingDowntime = TRUE
SPECIFICATION Spec
INVARIANTS FirstMatchWins DowntimeWholeThing
