CONSTANTS
    MaxCapacity = 4
    MaxProduced = 7
    Garbage = 8
    MaxBlock = 5
SPECIFICATION LifoSpec
INVARIANT
    ReadsAgree
PROPERTY IsSlidingWindow
