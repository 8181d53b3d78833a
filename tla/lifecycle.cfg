SPECIFICATION Spec
CONSTANTS
    b1 = b1
    b2 = b2
    n1 = n1
    n2 = n2
    Buckets = {b1}
    Names = {n1}
    ObsName <- SharedName
    NoBucket = NoBucket
    OutsidersCreate = FALSE
    Conflicts = FALSE
    Rejections = TRUE
    PageSize = 2
    MaxObjects = 2
    MaxLag = 2
    Budget <- Disturbed
CHECK_DEADLOCK FALSE
INVARIANTS TypeOK OwnedHasFinalizer ReadyMeansApplied
PROPERTIES DeleteOnlyOnRequest ImplementsLifecycle
