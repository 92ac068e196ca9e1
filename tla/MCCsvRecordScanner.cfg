\* Files cut into slices anywhere.
CONSTANTS
    Quote = quote
    Delimiter = delimiter
    CR = cr
    LF = lf
    b1 = b1
    b2 = b2
    b3 = b3
    other = other
    Byte <- MCByte
    Bom <- MCBom
    Texts <- MCTexts
    MaxColumns = 2
    MaxTail = 4
SPECIFICATION Spec
INVARIANTS
    ScannerInv
    RecordsAreFound
    FieldsAreDecoded
    RowsDecodeAlone
CHECK_DEADLOCK FALSE
