CONSTANTS
    t1 = t1
    t2 = t2
    s1 = s1
    s2 = s2
    r1 = r1
    r2 = r2
    Tables <- MCTables
    Series <- MCSeries
    Requests <- MCRequests
    DeleteBatchSize = 1
    MaxCycles = 3
SPECIFICATION Spec
CHECK_DEADLOCK FALSE
SYMMETRY MCSymmetry
INVARIANT NoExpiredChunkMissed
INVARIANT ProcessedOnlyWhenMarked
