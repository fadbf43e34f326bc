CONSTANTS
    InitialSize = 1
    MaxElements = 4
    MinimumSize = 0
    RequirementPercent = 30
    GrowthFactor = 2
    MaxPushes = 6
    InitialPops = 2
    PopsPerGrow = 1
SPECIFICATION AsyncSpec
INVARIANTS
    DeletedNeverUsed
    EndsWithFinalBatch
    NothingUnhandled
PROPERTIES
    ImplementsFifo
    ImplementsLoop
    EveryFrameHandled
    ThreadEnds
