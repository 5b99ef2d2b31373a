SPECIFICATION FairSpec
CONSTANTS
    s1 = s1
    Slugs = {s1}
    NoSlug = NoSlug
    Notifications = Notifications
    LastDay = 1
    OldAfter = 0
    MaxCrashes = 1
INVARIANTS TypeOK RecordsTrue
PROPERTIES NothingForgotten
CHECK_DEADLOCK FALSE
