SPECIFICATION Spec
CONSTANTS
    Bundles <- MCBundles
    Calls <- MCCalls
    MaxCalls = 2
    InitDisk <- MCDisk
    Edges <- MCEdges
    ProtectedNames = {"SOUL"}
    Appendable = {"CHANGE-LOG", "AUDIT-LOG", "NOTIFICATIONS", "memory"}
    OwnerWrites <- MCOwnerWrites
    MaxOwner = 1
    MaxDeaths = 1
    Texts <- MCTexts
    Numbers = {"3", "5"}
    Now <- MCNow
    DaysAhead <- MCDaysAhead
INVARIANTS TypeOK WritesStick LogCoversDisk ValidatedResolved
PROPERTIES JournalRefinement
CHECK_DEADLOCK FALSE
