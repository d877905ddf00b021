SPECIFICATION FairSpec
CONSTANTS
    Size = 2
    Revisions = {v1, v2}
    First = v1
    Proxy = "haproxy"
    NoPod = NoPod
    DropsNodes = FALSE
    MaxChanges = 1
    MaxCrashes = 0
    MaxErrors = 1
    MaxFailures = 1
    MaxSwitches = 1
    MaxBackups = 1
PROPERTIES
    EveryChangeArrives
