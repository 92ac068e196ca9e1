\* A page of an untouched file that comes back empty.
CONSTANTS
    PageSize = 2
    Row <- MCRow
    Column <- MCColumn
    Tables <- MCTables
    Key <- MCKey
    MaxSlices = 4
    MaxView = 1
    MaxOp = 4
    Selects = FALSE
    Nothing = Nothing
    Kinds = {"csv"}
SPECIFICATION Spec
INVARIANTS
    VanishedMeansModified
CHECK_DEADLOCK FALSE
