CONSTANTS
    e = e
    Err <- e
    Streams <- MCStreams
    Times <- MCTimes
    Inputs <- MCInputs
    MergeSizes <- MCMergeSizes
SPECIFICATION Spec
CHECK_DEADLOCK FALSE
INVARIANT MergedSorted
INVARIANT MergedPermutation
INVARIANT ErrorsReturned
PROPERTY Terminates
