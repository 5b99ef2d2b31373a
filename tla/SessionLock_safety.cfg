SPECIFICATION FairSpec
CONSTANTS
    w1 = w1
    m1 = m1
    x1 = x1
    NoSession = NoSession
    Sessions = {w1, m1, x1}
    Kind <- MCKind
    RecoverMinMinutes = 2
    LeaseMinutes = 3
    StaleMinutes = 4
    ManualLeases = {3, 6}
    PassLimit = 1
    Staggered = TRUE
    MaxClock = 1
INVARIANTS TypeOK MutualExclusion HolderIsRecorded RunIdsUnique
PROPERTIES CrashesAreReal LockReopens
CHECK_DEADLOCK FALSE
