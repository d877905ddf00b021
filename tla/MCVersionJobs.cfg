SPECIFICATION FairSpec
CONSTANTS
    Pods = {"p1", "p2"}
    Versions = {"v1", "v2"}
    Default = "v1"
    Schedules = {"daily", "weekly"}
    MaxEdits = 2
    MaxMishaps = 1
INVARIANTS
    TypeOK
PROPERTIES
    JobsApart
    ImagesChangeAtRest
    VersionFollows
    JobFollows
