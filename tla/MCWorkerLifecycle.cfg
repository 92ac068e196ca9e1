\* Threads made, retired and joined.
CONSTANTS
    MaxPairs = 3
    MaxStrays = 1
SPECIFICATION Spec
INVARIANTS
    ConnectionInv
    NothingOutlives
    StrayIsHarmless
PROPERTIES
    DestructorEnds
    RetiredIsFreed
CHECK_DEADLOCK FALSE
