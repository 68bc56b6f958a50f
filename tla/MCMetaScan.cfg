CONSTANTS
    Workers = {w1, w2, w3}
    Rowids <- MCRowids
    RowsPerGroup = 2
    VectorSize = 2
    MaxRows = 7
    MaxIdx = 255
SPECIFICATION Spec
INVARIANTS
    TypeOK
    NoDuplicateRows
    DisjointRanges
    NoClaimedRowLost
    LossOnlyAtBoundary
    GroupWithinClaimed
    ScanInv
PROPERTIES
    GroupGrowsOverGapsOnly
    ImplementsTableScan
