SPECIFICATION Spec
CONSTANTS
    Tasks = {t1, t2, t3}
    Procs = {p1}
    ProcOf <- OneProc
    Keys <- OneKey
    Writes <- OneWrite
    Tables <- OneTable
    Names <- OneTable
    Reads <- OneReads
    Touches <- OneTouches
    KeyNames <- OneReads
    WriteNames <- OneTouches
    Nothing = Nothing
    Precise = TRUE
    L1Size = 1
    MaxJobs = 1
    MaxVersion = 2
    Faults <- Cancellations
INVARIANT
    FollowersShareLeader
