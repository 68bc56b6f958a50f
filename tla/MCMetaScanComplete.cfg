CONSTANTS
    Workers = {w1, w2}
    Rowids <- MCSmallRowids
    RowsPerGroup = 2
    VectorSize = 2
    MaxRows = 6
    MaxIdx = 255
SPECIFICATION Spec
INVARIANTS
    ScanComplete
