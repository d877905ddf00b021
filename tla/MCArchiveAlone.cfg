SPECIFICATION FairSpec
CONSTANTS
    Hosts <- OneHost
    MaxCommits = 4
    Allowed <- Alone
INVARIANTS
    RecoversLatest
    RecoversToDate
PROPERTIES
    LeftoversHeal
    CatchesUp
