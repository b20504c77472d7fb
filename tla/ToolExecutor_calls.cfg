SPECIFICATION FairSpec
CONSTANTS
    c1 = c1
    c2 = c2
    Callers = {c1, c2}
    MaxCalls = 3
    Tools <- AllTools
    Registered <- AllTools
    UsePool = TRUE
    Policies <- ClosedA
    DefaultConcurrency = 2
    HungTools <- HungA
CHECK_DEADLOCK FALSE
INVARIANT LaneLimit
INVARIANT CancelledStartsNothing
PROPERTY CancelReachesWaiter
PROPERTY HungLaneIsContained
