SPECIFICATION Spec
CONSTANTS
    Other = Other  r1 = r1  r2 = r2
    Runs = {r1, r2}
    Commands = {r2}
    MaxSteps = 2
    MaxConcurrency = 1
    Streams <- SomeStreams
    Responses <- SomeResponses
    MaxHistory = 6
    MaxTools = 2
    MaxStreamBytes = 4
    MaxLoad = 6
    KeepRecent = 2
    Budget = 5
    CompressAbove = 3
    CacheSlots = 1
    SummarySizes = {1}
    MaxKept = 1
CHECK_DEADLOCK FALSE
INVARIANTS RequestIsWellFormed SummaryIsOfWhatIsLeftOut FinalOnlyIfReturned
PROPERTIES ToolsRunOnce
