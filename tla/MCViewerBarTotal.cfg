\* The page bar keeps "page / ..." after a cancelled sort has supplied the total.
CONSTANTS
    PageSize = 1
    Row <- MCRow
    Column <- MCColumn
    Tables <- MCTables
    Key <- MCKey
    MaxSlices = 0
    MaxView = 1
    MaxOp = 3
    Selects = FALSE
    Nothing = Nothing
    Kinds = {"rowid"}
SPECIFICATION Spec
INVARIANTS
    TotalDisplayed
CHECK_DEADLOCK FALSE
