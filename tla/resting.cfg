SPECIFICATION FairSpec
CONSTANTS
    c1 = c1
    Configs = {c1}
    Secrets = {s1, s2}
    Buckets = {b1}
    ConfigOf <- OneConfig
    Nobody = Nobody
    FreshMessages = FALSE
    MaxLag = 2
    Budget <- Settling
CHECK_DEADLOCK FALSE
INVARIANTS ConditionIsCurrent ChangesReachBuckets
PROPERTIES Rests
