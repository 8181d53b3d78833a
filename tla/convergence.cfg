SPECIFICATION FairSpec
CONSTANTS
    b1 = b1
    b2 = b2
    n1 = n1
    n2 = n2
    Buckets = {b1}
    Names = {n1}
    ObsName <- OwnNames
    NoBucket = NoBucket
    OutsidersCreate = TRUE
    Conflicts = TRUE
    Rejections = FALSE
    PageSize = 1
    MaxObjects = 1
    MaxLag = 2
    Budget <- Settling
CHECK_DEADLOCK FALSE
INVARIANTS NothingForgotten
PROPERTIES UnclaimedLeftAlone SettingsConverge EventuallyQuiet DeletionCompletes
