SPECIFICATION Spec
CONSTANTS
    p1 = p1
    p2 = p2
    s1 = s1
    s2 = s2
    Pages = {p1, p2}
    Slugs = {s1, s2}
    NoPage = NoPage
    NoSlug = NoSlug
    MaxTries = 1
    Window = 1
    MaxClock = 0
    MaxWrong = 0
    MaxFrames = 3
    MaxNotices = 1
    Cmds = {"pause", "approve"}
SYMMETRY MCSymmetry
INVARIANTS DraftAlwaysKept
CHECK_DEADLOCK FALSE
