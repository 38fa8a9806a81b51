CONSTANTS
    nil = nil
    readErr = readErr
    err = err
    zeroTime = zeroTime
    Nil <- nil
    ReadErr <- readErr
    Err <- err
    ZeroTime <- zeroTime
    Columns <- MCColumns
    Objects <- MCObjects
SPECIFICATION Spec
CHECK_DEADLOCK FALSE
INVARIANT StreamsMatchReference
PROPERTY NoYieldAfterStop
