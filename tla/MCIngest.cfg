SPECIFICATION LiveSpec
CONSTANTS
    MaxSegments = 2
    MaxLines = 2
    MaxOdd = 1
    BatchSize = 2
    MaxFaults = 1
CHECK_DEADLOCK FALSE
INVARIANTS CursorCovers
PROPERTIES CompleteIsSettled BadLineReported CatchesUp
