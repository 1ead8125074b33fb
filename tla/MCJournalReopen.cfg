SPECIFICATION MCSpec
CONSTANTS
    MaxEpoch = 1
    MaxSeq = 2
    MaxSegmentEvents = 2
    MaxFaults = 2
    NoSegment = NoSegment
    Sinks = {sink1, sink2}
    sink1 = sink1
    sink2 = sink2
    ref = ref
    BindingRefs = {ref}
    Nobody = Nobody
    NativeFacts <- MCNativeFacts
    Claims = {"required"}
    MaxNatives = 0
    MaxEmits = 0
    MaxRouted = 0
    MaxEnded = 1
SYMMETRY MCSinks
CHECK_DEADLOCK FALSE
INVARIANT NeverLockedOut
