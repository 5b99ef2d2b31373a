SPECIFICATION Spec
CONSTANTS
    r1 = r1
    r2 = r2
    s1 = s1
    s2 = s2
    v1 = v1
    v2 = v2
    NoRun = NoRun
    NoSlug = NoSlug
    Runs = {r1, r2}
    Slugs = {s1, s2}
    Values = {v1, v2}
    MaxCommands = 3
    MaxClock = 1
    StaleAfter = 0
    ChangeTail = 2
SYMMETRY MCSymmetry
INVARIANTS TypeOK TimelineTrue StoreAgrees PagesAgree RewindTrue
CHECK_DEADLOCK FALSE
