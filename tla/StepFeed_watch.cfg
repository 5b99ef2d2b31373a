SPECIFICATION FairSpec
CONSTANTS
    w1 = w1  w2 = w2  s1 = s1  r1 = r1  r2 = r2  k1 = k1  k2 = k2
    Conns = {w1, s1}
    SessionConns = {s1}
    Runs = {r1, r2}
    NoRun = NoRun
    Cli = Cli
    Durable = FALSE
    KeyOf <- MCKeys
    FeedTail = 2
    ReplayTail = 1
    SeenMax = 1
    SeenKeep = 1
    Arrivals <- MCLastSteps
    MaxEvents = 2
    MaxChanges = 0
    MaxAlerts = 3
    MaxRestarts = 1
    MaxDeaths = 1
    MaxFull = 1
INVARIANTS TypeOK WatchersCurrent
PROPERTIES BatchesArrive
CHECK_DEADLOCK FALSE
