SPECIFICATION Spec
CONSTANTS
    b1 = b1
    b2 = b2
    n1 = n1
    n2 = n2
    Buckets = {b1}
    Names = {n1}
    ObsName <- SharedName
    NoBucket = NoBucket
    OutsidersCreate = FALSE
    Conflicts = FALSE
    Rejections = FALSE
    PageSize = 1
    MaxObjects = 1
    MaxLag = 2
    Budget <- Flapping
CHECK_DEADLOCK FALSE
INVARIANTS FailureReported
