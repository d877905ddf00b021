SPECIFICATION FairSpec
CONSTANTS
    NoSecret = NoSecret
    PMM = TRUE
    ProxySQL = TRUE
    Plans <- MCPlans
    MaxChanges = 2
    MaxErrors = 1
INVARIANTS
    OperatorLogsIn
PROPERTIES
    RotationsEnd
    PodsFollow
