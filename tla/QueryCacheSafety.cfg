SPECIFICATION Spec
CONSTANTS
    Tasks = {t1, t2}
    Procs = {p1}
    ProcOf <- OneProc
    Keys <- MCKeys
    Writes <- MCWrites
    Tables <- MCTables
    Names <- MCTables
    Reads <- MCReads
    Touches <- MCTouches
    KeyNames <- MCReads
    WriteNames <- MCWriteNames
    Nothing = Nothing
    Precise = TRUE
    L1Size = 1
    MaxJobs = 1
    MaxVersion = 2
    Faults <- AnyFault
SYMMETRY TaskSymmetry
INVARIANTS
    TypeOK
    SingleFlight
    FollowersHaveLeader
    L1EntriesAreIndexed
    FreshUnlessDisturbed
