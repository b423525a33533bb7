SPECIFICATION ResolverSpec
CONSTANTS
    Instances = {i1}
    Pickers = {p1}
    MaxIndex = 2
    MaxWatches = 2
INVARIANTS
    PushesInOrder
PROPERTIES
    Converges
    StopEndsWatch
    WatchFollows
CHECK_DEADLOCK FALSE
