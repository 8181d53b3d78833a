SPECIFICATION Spec
CONSTANTS
    Sites = {s1, s2}
    Buckets = {b1}
    NoBucket = NoBucket
    Rejections = FALSE
    PageSize = 1
    MaxObjects = 1
    MaxLag = 2
    Budget <- Moves
CHECK_DEADLOCK FALSE
INVARIANTS NothingLeftBehind
