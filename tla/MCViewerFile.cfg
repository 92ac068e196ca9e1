\* A CSV file, indexed slice by slice while it is paged.
CONSTANTS
    PageSize = 2
    Row <- MCRow
    Column <- MCColumn
    Tables <- MCTables
    Key <- MCKey
    MaxSlices = 3
    MaxView = 2
    MaxOp = 4
    Selects = TRUE
    Nothing = Nothing
    Kinds = {"csv", "norowid"}
SPECIFICATION Spec
INVARIANTS
    PageShowsItsRows
    NextHonest
    TotalIsExact
    TotalDisplayed
    SummaryIsCurrent
    LoadingTextEnds
PROPERTIES
    CellTextKept
    ImplementsPagedTable
    BusyEnds
CHECK_DEADLOCK FALSE
