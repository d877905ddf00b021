SPECIFICATION FairSpec
CONSTANTS
    Size = 2
    Lists <- SomeLists
    Proxies = {"haproxy", "proxysql"}
    Configs = {"a", "b"}
    CertManager = TRUE
    MaxEdits = 1
    MaxMishaps = 1
INVARIANTS
    VolumesKept
PROPERTIES
    InOrder
    DeletionEnds
    Follows
CHECK_DEADLOCK FALSE
