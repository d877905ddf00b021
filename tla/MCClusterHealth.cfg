SPECIFICATION FairSpec
CONSTANTS
    Size = 3
    Proxy = "haproxy"
    Crashes <- AllOrOne
    MaxConditions = 2
    MaxCommits = 1
    MaxMishaps = 2
INVARIANTS
    OneCluster
    NothingLost
PROPERTIES
    CrashHeals
    StatusFollows
