SPECIFICATION FairSpec
CONSTANTS
    p1 = p1
    ph1 = ph1
    ph2 = ph2
    Projects = {p1}
    Phases = {ph1, ph2}
    NoPhase = NoPhase
    NoProject = NoProject
    Priority <- MCPriority
    Proposed <- MCOther
    MaxReroutes = 1
    MaxReescalations = 2
    ManagerScansHolds = FALSE
    Brief = TRUE
    CommandLimit = 2
    CrashLimit = 1
PROPERTIES ApprovalIsActedOn
