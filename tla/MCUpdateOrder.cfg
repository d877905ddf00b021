SPECIFICATION Spec
CONSTANTS
    Size = 3
    Revisions = {v1, v2}
    First = v1
    Proxy = "proxysql"
    NoPod = NoPod
    DropsNodes = TRUE
    MaxChanges = 2
    MaxCrashes = 1
    MaxErrors = 0
    MaxFailures = 0
    MaxSwitches = 0
    MaxBackups = 0
PROPERTIES
    PrimaryLast
    OneDownAtATime
    ServiceStaysUp
