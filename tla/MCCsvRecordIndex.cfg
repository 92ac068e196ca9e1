\* A temporary file that works, or one every access to which may fail.
CONSTANTS
    Span = {s1, s2}
    Hole = hole
    NoRead = noRead
    MaxCachedSpans = 1
    WriteBufferSize = 3
    BlockReadSize = 2
    MaxRecords = 5
SPECIFICATION Spec
INVARIANTS
    IndexInv
    NeverFailsByItself
PROPERTIES
    Implements
CHECK_DEADLOCK FALSE
