\* A rowid table in a database others delete from.
CONSTANTS
    PageSize = 2
    Row <- MCRow
    Column <- MCColumn
    Tables <- MCTables
    Key <- MCKey
    MaxSlices = 0
    MaxView = 1
    MaxOp = 3
    Selects = FALSE
    Kinds = {"rowid"}
SPECIFICATION SharedSpec
INVARIANTS
    ShownInOrder
    RecountIsFresh
CHECK_DEADLOCK FALSE
