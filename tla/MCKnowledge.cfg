SPECIFICATION LiveSpec
CONSTANTS
    NChunks = 2
    Routes = {r1}
    MaxInFlight = 2
    MaxUpdates = 2
    MaxDamage = 1
CHECK_DEADLOCK FALSE
INVARIANTS ViewIsWhole 
PROPERTIES CompleteIsKept UpdateEnds
