SPECIFICATION MCSpec
CONSTANTS
    MaxEpoch = 1
    MaxSeq = 2
    MaxSegmentEvents = 2
    MaxFaults = 1
    NoSegment = NoSegment
    Sinks = {sink1, sink2}
    sink1 = sink1
    sink2 = sink2
    ref = ref
    BindingRefs = {ref}
    Nobody = Nobody
    NativeFacts <- MCNativeFacts
    Claims = {"required"}
    MaxNatives = 2
    MaxEmits = 3
    MaxRouted = 1
    MaxEnded = 1
SYMMETRY MCSinks
CHECK_DEADLOCK FALSE
INVARIANTS NoObligationLost SegmentsAreWhole CheckpointsRest
PROPERTIES NothingBehindFragment ImplementsAckLog
