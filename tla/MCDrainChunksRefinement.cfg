CONSTANTS
    SampleInterval = 2
    MaxChunkAge = 5
    OlderThan = 1
    MaxTs = 8
    MaxNow = 8
    MaxOps = 5
    QueryTimes <- MCQueryTimes
    QuerySteps <- MCQuerySteps
SPECIFICATION Spec
CHECK_DEADLOCK FALSE
CONSTRAINT MCChunksWellFormed
PROPERTY ImplementsSampleCounts
