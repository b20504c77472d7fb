SPECIFICATION Spec
CONSTANTS
    c1 = c1  c2 = c2  w = w
    Threads = {c1, c2, w}
    Workers = {w}
    MaxGenerations = 2
    MaxControllerRuns = 2
    MaxSessions = 2
    Agents = {agent}
    Default = agent
    SessionIds = {s}
    Sessions <- OneSession
    Lanes = {main}
    LaneLimit <- OneAtATime
    SessionLimit = 1
    MaxRuns = 1
CHECK_DEADLOCK FALSE
SYMMETRY Symmetry
INVARIANTS HeldIsLive FreedIsUnused ActiveIsControlled TaskOutlivesRun
