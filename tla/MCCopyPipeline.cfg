\* Copies of pages of tables and files.
CONSTANTS
    Row <- MCRow
    Cut <- MCCut
    CellSize <- MCCellSize
    RowSize <- MCRowSize
    Doomed = {2}
    Budget = 5
    Markup = 2
    Pages <- MCPages
    NoCopy = NoCopy
    Idle = Idle
    MaxView = 2
    MaxCopies = 2
SPECIFICATION Spec
INVARIANTS
    TypeOK
    ClipboardIsSelection
    CutTextsAreReported
    PendingIsCurrent
PROPERTIES
    OverBudgetCopiesNothing
    CopyEnds
CHECK_DEADLOCK FALSE
