SPECIFICATION Spec
CONSTANTS
    w1 = w1
    m1 = m1
    x1 = x1
    NoSession = NoSession
    Sessions = {w1, m1}
    Kind <- MCKind
    RecoverMinMinutes = 2
    LeaseMinutes = 3
    StaleMinutes = 4
    ManualLeases = {3, 6}
    PassLimit = 1
    Staggered = FALSE
    MaxClock = 1
INVARIANTS MutualExclusion
CHECK_DEADLOCK FALSE
