SPECIFICATION Spec
CONSTANTS
    c1 = c1
    Configs = {c1}
    Secrets = {s1}
    Buckets = {b1}
    ConfigOf <- OneConfig
    Nobody = Nobody
    FreshMessages = FALSE
    MaxLag = 2
    Budget <- Changing
CHECK_DEADLOCK FALSE
INVARIANTS TypeOK ConditionIsCurrent ChangesReachBuckets
