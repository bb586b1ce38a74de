SPECIFICATION Spec
CONSTANTS
    Tasks = {t1, t2}
    Remote = t2
    Here = p
    There = q
    Procs = {p, q}
    ProcOf <- MCProcOf
    Users = {a, b}
    Admins = {a, b}
    Nothing = Nothing
    RecordTTL = 1
    JwtLife = 2
    MaxAttempts = 1
    Window = 2
    MaxTime = 2
    MaxEvents = 2
    Faults <- AnyFault
SYMMETRY UserSymmetry
INVARIANTS
    TypeOK
    AdminRemains
    RevocationReachesTokens
    LockoutEnds
