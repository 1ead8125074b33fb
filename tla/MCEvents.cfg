SPECIFICATION MCSpec
CONSTANTS
    x = x
    r = r
    b = b
    doc = doc
    i = i
    crit = crit
    p = p
    q = q
    None = None
    m1 = m1
    c1 = c1
    k1 = k1
    w1 = w1
    unit = unit
    Nothing = Nothing
    Spans = {m1, c1, k1, w1}
    TraceIds = {A, B}
    WorkUnits = {unit}
    KindOf <- MCKind
    TaskOf <- MCTask
    MaxPending = 1
    MaxRefused = 1
    Invariants = {i}
    Scenarios <- MCScenarios
    Skews <- MCSkews
    Short <- MCShort
SYMMETRY AnyTrace
CHECK_DEADLOCK FALSE
INVARIANTS OrderFree CompletedIsProven CountedOnce RoundsAreReal TiedToItsTrace
