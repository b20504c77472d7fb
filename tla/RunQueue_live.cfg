SPECIFICATION LiveSpec
CONSTANTS
    main = main  mcp = mcp
    s1 = s1  s2 = s2  s3 = s3
    w1 = w1  w2 = w2  w3 = w3
    c1 = c1  c2 = c2
    MaxRuns = 3
    Sessions = {s1}
    Lanes = {main}
    Workers = {w1, w2}
    Callers = {c1}
    LaneLimit <- TwoMain
    WorkerCap = 32
    SessionLimit = 1
    MaxPending = 0
    MaxTotal = 2
    MaxSessions = 1
    Expiry = TRUE
CHECK_DEADLOCK FALSE
INVARIANTS ShutdownIsQuiescent 
PROPERTIES EveryRunCompletes CallsReturn
