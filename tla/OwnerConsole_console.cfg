SPECIFICATION FairSpec
CONSTANTS
    p1 = p1
    p2 = p2
    s1 = s1
    Pages = {p1, p2}
    Slugs = {1}   \* a number: TLC compares the tables and the lists of notices in orphans
    s2 = s2
    NoPage = NoPage
    NoSlug = NoSlug
    MaxTries = 1
    Window = 1
    MaxClock = 1
    MaxWrong = 2
    MaxFrames = 2
    MaxNotices = 1
    Cmds = {"read", "report", "broken", "archive", "resign", "pause", "unpause", "approve", "decline", "done"}
INVARIANTS TypeOK TriesBounded RowsTellTruth 
PROPERTIES FramesFinish
CHECK_DEADLOCK FALSE
