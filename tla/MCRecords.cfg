SPECIFICATION MCSpec
CONSTANTS
    Keys = {k1}
    Texts = {t1, t2}
    MaxRevision = 2
    MaxGeneration = 4
    MaxDeaths = 2
    BaseIds = {b1, b2}
    LocalIds = {x, y}
    Anchors = {a1}
    NoAnchor = NoAnchor
    HyperIds = {g1}
    MaxFragments = 2
    MaxMembers = 3
    Roots = {w1, w2}
    Author = w1
    Sections = {s1}
    MaxVersion = 2
    MaxCommits = 4
    MaxTraces = 3
    MaxCheckouts = 1
    MaxHandoffs = 2
    MaxCrashes = 1
    Wheels = {v1, v2}
    Hermeses = {h1, h2}
    Lacking = Lacking
    Spoiled = Spoiled
    MaxReleaseCalls = 3
    MaxDamage = 1
    MaxStops = 1
    Interpreters = 2
    MaxEdits = 3
    Homes = {old, new}
    Plain = Plain
    Bare = Bare
    module1 = module1
    module2 = module2
    Exports <- MCExports
    MaxReconciles = 2
    MaxHarm = 1
SYMMETRY MCHermeses
CHECK_DEADLOCK FALSE
INVARIANTS NotesAreWhole ComposedAsMeant OneCommittedHandoff ReleaseIsWhole ReceiptIsTrue
