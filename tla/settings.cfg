SPECIFICATION FairSpec
CONSTANTS
    Specs <- SomeSpecs
    Tags = {"t1"}
    Targets = {"l1"}
    Keys = {"k1", "k2"}
    Budget <- Interfered
CHECK_DEADLOCK FALSE
INVARIANTS TypeOK PassConforms PrefixDone SetsOnlyDifferences MissingNoticed
PROPERTIES SettingsReached
