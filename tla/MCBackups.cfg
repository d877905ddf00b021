SPECIFICATION Spec
CONSTANTS
    OnDemand = {user1}
    Scheduled = {c1, c2}
    ScheduleList <- OneSchedule
    StorageOf <- MostlyBucket
    NameOf <- OwnNames
    Keep = {1}
    Edits = {}
    NoObject = NoObject
    Nobody = Nobody
    user1 = user1
    user2 = user2
    c1 = c1
    c2 = c2
    daily = daily
    bucket = bucket
    disk = disk
    Volumes = {disk}
    MaxBackups = 2
    BackoffLimit = 1
    MaxEdits = 0
    MaxDeletes = 1
    MaxErrors = 1
    MaxUnready = 0
INVARIANTS
    SuccessHasData
    RetentionSparesNewest
PROPERTIES
    BackupOutcomes
