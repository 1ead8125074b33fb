SPECIFICATION ProbeLiveSpec
CONSTANTS
    MaxEpoch = 0
    MaxSeq = 2
    MaxSegmentEvents = 2
    MaxFaults = 2
    NoSegment = NoSegment
CHECK_DEADLOCK FALSE
PROPERTIES LiveWriterNotUnclean DeathIsDetected CriticalBecomesDurable
