SPECIFICATION MCSpec
CONSTANTS
    Segments = {s1, s2}
    NoSegment = NoSegment
    MaxFaults = 2
    MaxCrashes = 2
    MaxMisfires = 1
    Procs = {p1, p2, p3}
    Rows = {a}
    Nobody = Nobody
    MaxOpenings = 4
    MaxCasualties = 1
CHECK_DEADLOCK FALSE
INVARIANTS NothingLost OneWorker OneDatabase
PROPERTIES RecoveredIsSettled Settles AttemptEnds DrainEnds
