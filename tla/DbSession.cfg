SPECIFICATION FairSpec
CONSTANTS
    Tasks = {t1, t2}
    Conns = {c1}
    Shared = Shared
    Nobody = Nobody
    Permits = 1
    Workers = 2
    MaxFaults = 1
    MaxCancels = 2
INVARIANTS
    TypeOK
    IdleIsClean
    FailsOnlyForCause
    AckedIsCommitted
PROPERTY
    RequestsEnd
