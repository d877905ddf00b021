SPECIFICATION FairSpec
CONSTANTS
    OnDemand = {}
    Scheduled = {c1, c2}
    ScheduleList <- OneSchedule
    StorageOf <- MostlyBucket
    NameOf <- OwnNames
    Keep = {1}
    Edits = {"pitr", "listed"}
    NoObject = NoObject
    Nobody = Nobody
    user1 = user1
    user2 = user2
    c1 = c1
    c2 = c2
    daily = daily
    bucket = bucket
    disk = disk
    Volumes = {disk}
    MaxBackups = 2
    BackoffLimit = 0
    MaxEdits = 1
    MaxDeletes = 0
    MaxErrors = 0
    MaxUnready = 1
PROPERTIES
    EveryBackupEnds
    RetentionCatchesUp
    SchedulesFollow
