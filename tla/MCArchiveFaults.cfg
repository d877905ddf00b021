SPECIFICATION Spec
CONSTANTS
    Hosts <- TwoHosts
    MaxCommits = 4
    Allowed <- Faults
INVARIANTS
    NoGap
    RecoversLaterBackups
PROPERTIES
    ArchiveIsALog
