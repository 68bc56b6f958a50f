SPECIFICATION Spec
CONSTANTS
    w1 = w1
    w2 = w2
    Workers = {w1, w2}
    Contents <- MCContents
    Batches <- MCBatches
INVARIANTS
    VpaxInv
    RowsAreOwnFiles
    HandlesReleased
    TimesMixOnlyAcrossWorkers
    SizesAddUp
