SPECIFICATION Spec
CONSTANTS
    MaxBatches = 6
    SegmentLines = 2
    Environments <- Everything
INVARIANT AckedOnDisk
INVARIANT InOrder
PROPERTY ImplementsLog
