\* The worker under an impatient client.
CONSTANTS
    PageSize = 1
    Row <- MCRow
    Column <- MCColumn
    Key <- MCKey
    MaxSlices = 2
    MaxView = 2
    MaxOp = 3
    MaxBacklog = 1
    Kinds = {"csv"}
SPECIFICATION Spec
INVARIANTS
    TypeOK
    ParkedIsScheduled
    Inv
    AnsweredOnce
PROPERTIES
    EveryRequestAnswered
CHECK_DEADLOCK FALSE
