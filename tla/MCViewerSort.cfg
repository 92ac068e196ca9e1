\* A rowid table nobody else writes to.
CONSTANTS
    PageSize = 1
    Row <- MCRow
    Column <- MCColumn
    Tables <- MCTables
    Key <- MCKey
    MaxSlices = 0
    MaxView = 2
    MaxOp = 4
    Selects = FALSE
    Nothing = Nothing
    Kinds = {"rowid"}
SPECIFICATION Spec
INVARIANTS
    TypeOK
    IdleSourceOrder
    NextHonest
    SortingLabel
PROPERTIES
    ImplementsPagedTable
    BusyEnds
CHECK_DEADLOCK FALSE
