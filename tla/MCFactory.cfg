CONSTANTS
    s1 = s1  t1 = t1  f1 = f1  vA = vA
    Sources = {s1}
    Things = {t1}
    Features = {f1}
    POpen = pOpen
    PTs = pTs
    JTrue = JTrue
    JFalse = JFalse
    Props = {pOpen, pTs}
    Values <- FactoryValues
    VSource = s1
    VThing = t1
    VFeature = f1
    Absent = Absent
    NoDowntime = NoDowntime
    Forged = Forged
    NoSig = NoSig
    NotConfigured = NotConfigured
    Raised = Raised
    Policies <- ValvePolicies
    InitPolicy <- ValvePolicy
    InitDitto <- MCValveDitto
    ProducerVals <- NoProducerVals
    MaxTime = 1
    MaxEnv = 2
    MaxFail = 1
    MaxReplay = 1
    AtkThing = t1
    AtkFeature = f1
    AtkProp = pOpen
    AtkValue = vA
    MaxAttacks = 1
SPECIFICATION FSpec
INVARIANT FTypeOK
PROPERTIES ValveShown MirrorConverges
