SPECIFICATION FairSpec
CONSTANTS
    s1 = s1
    Procs = {w1, s1}
    Program <- MCProgram
    Nobody = Nobody
    LastVersion = 2
    Statements = 2
    MaxFaults = 2
    MaxDeploys = 1
    AdminPassword = TRUE
INVARIANTS
    TypeOK
    RecordedIsComplete
    AppliedByOne
    NothingOverwritten
    FailuresHaveCause
    UpOnItsSchema
    ShutdownInOrder
PROPERTY
    StartEnds
