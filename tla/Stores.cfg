SPECIFICATION Spec
CONSTANTS
    Platforms <- AllPlatforms
    Kinds <- AllKinds
    TextLimit = 5
    MaxFaults = 1
    MaxCrashes = 2
    Sessions <- TheSessions
    Batches <- TheBatches
    SessionOf <- TheSessionOf
    Records <- TheRecords
    Keys = {"k1", "k2"}
    Values = {"v1", "v2"}
    CategoryOf <- TheCategoryOf
INVARIANT AckedSurvive
INVARIANT WholeBatches
INVARIANT MemorySurvives
INVARIANT FailedChangeUnseen
