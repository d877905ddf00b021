SPECIFICATION Spec
CONSTANTS
    Restores = {r1, r2}
    Plans <- AllPlans
    Size = 2
    AllowUnsafe = FALSE
    NoRestore = NoRestore
    UpdateTries = 2
    MaxCrashes = 1
    MaxDeletes = 1
    MaxErrors = 1
    MaxTimeouts = 0
INVARIANTS
    OneRestoreAtATime
    VolumeExclusive
    JobsExclusive
    FreshVolumes
PROPERTIES
    SuccessIsComplete
SYMMETRY Symmetric
