CONSTANTS
    InitialSize = 1
    MaxElements = 2
    MinimumSize = 0
    RequirementPercent = 30
    GrowthFactor = 2
    MaxPushes = 4
SPECIFICATION PollSpec
INVARIANT NothingDeleted
