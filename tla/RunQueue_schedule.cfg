SPECIFICATION Spec
CONSTANTS
    main = main  mcp = mcp
    s1 = s1  s2 = s2  s3 = s3
    w1 = w1  w2 = w2  w3 = w3
    c1 = c1  c2 = c2
    MaxRuns = 3
    Sessions = {s1, s2, s3}
    Lanes = {main, mcp}
    Workers = {w1, w2}
    Callers = {}
    LaneLimit <- OneEach
    WorkerCap = 32
    SessionLimit = 2
    MaxPending = 2
    MaxTotal = 0
    MaxSessions = 2
    Expiry = FALSE
SYMMETRY Symmetry
CHECK_DEADLOCK FALSE
INVARIANTS TypeOK GaugesMatchList ConcurrencyLimits NoWorkerSleepsOnWork LaneIsolation
PROPERTIES StartsInOrder ImplementsService
