SPECIFICATION Spec
CONSTANTS
    w1 = w1  w2 = w2  s1 = s1  r1 = r1  r2 = r2  k1 = k1  k2 = k2
    Conns = {w1, w2}
    SessionConns = {}
    Runs = {r1, r2}
    NoRun = NoRun
    Cli = Cli
    Durable = TRUE
    KeyOf <- MCNoKeys
    FeedTail = 2
    ReplayTail = 1
    SeenMax = 1
    SeenKeep = 1
    Arrivals <- MCTwoRuns
    MaxEvents = 3
    MaxChanges = 1
    MaxAlerts = 0
    MaxRestarts = 0
    MaxDeaths = 1
    MaxFull = 1
SYMMETRY MCSymmetry
INVARIANTS PageTrue
PROPERTIES ChannelRefinement
CHECK_DEADLOCK FALSE
