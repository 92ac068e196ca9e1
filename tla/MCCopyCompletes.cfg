\* What the comments of refetchRows promise.
CONSTANTS
    Row <- MCRow
    Cut <- MCCut
    CellSize <- MCCellSize
    RowSize <- MCRowSize
    Doomed = {2}
    Budget = 5
    Markup = 2
    Pages <- MCPages
    NoCopy = NoCopy
    Idle = Idle
    MaxView = 2
    MaxCopies = 2
SPECIFICATION Spec
PROPERTIES
    AlwaysCompletes
CHECK_DEADLOCK FALSE
