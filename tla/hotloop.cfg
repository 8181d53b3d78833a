SPECIFICATION FairSpec
CONSTANTS
    c1 = c1
    Configs = {c1}
    Secrets = {s1}
    Buckets = {b1}
    ConfigOf <- OneConfig
    Nobody = Nobody
    FreshMessages = TRUE
    MaxLag = 2
    Budget <- Denied
CHECK_DEADLOCK FALSE
PROPERTIES Rests
