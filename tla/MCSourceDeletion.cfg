CONSTANTS
    s1 = s1  t1 = t1  t2 = t2  f1 = f1  f2 = f2  p1 = p1  p2 = p2  v1 = v1  v2 = v2
    Sources = {s1}
    Things = {t1, t2}
    Features = {f1, f2}
    Props = {p1, p2}
    Values = {v1, v2}
    Absent = Absent
    NoDowntime = NoDowntime
    Forged = Forged
    NoSig = NoSig
    NotConfigured = NotConfigured
    Raised = Raised
    Verify = TRUE
    Policies <- DeletionPolicies
    InitPolicy <- WildcardPolicy
    InitDitto <- MCInitDitto
    ProducerVals <- MCProducerVals
    MaxTime = 0
    MaxEnv = 1
    MaxFail = 0
SPECIFICATION DSpec
PROPERTY NoOrphans
