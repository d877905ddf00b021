SPECIFICATION FairSpec
CONSTANTS
    Restores = {r1, r2}
    Plans <- TwoPlans
    Size = 2
    AllowUnsafe = TRUE
    NoRestore = NoRestore
    UpdateTries = 2
    MaxCrashes = 0
    MaxDeletes = 0
    MaxErrors = 0
    MaxTimeouts = 1
PROPERTIES
    EveryRestoreEnds
    PauseEnds
