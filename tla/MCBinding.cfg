SPECIFICATION BindingSpec
CONSTANTS
    p1 = p1
    p2 = p2
    x = x
    z = z
    kA = kA
    kB = kB
    A = A
    B = B
    None = None
    Producers = {p1, p2}
    Creators = {p2}
    Tasks = {x, z}
    Tokens = {kA, kB}
    BoardTrace <- MCBoard
    TokenOf <- MCTokenOf
    Parents <- MCParents
    TraceOf <- MCTraceOf
    LaunchTask <- MCLaunch
    Troubled = {p2}
    MaxTrouble = 1
CHECK_DEADLOCK FALSE
INVARIANTS OneAttribution
PROPERTIES IntentSettles
