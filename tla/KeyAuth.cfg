SPECIFICATION Spec
CONSTANTS
    Tasks = {t1, t2, t3}
    Remote = t3
    Here = p
    There = q
    Procs = {p, q}
    ProcOf <- MCProcOf
    Keys = {k1}
    Users = {u1}
    Owner <- MCOwner
    Roles = {user, admin}
    ExpiresAt <- MCExpiry
    Nothing = Nothing
    KeyTTL = 1
    UserTTL = 1
    MaxTime = 2
    Faults <- AnyFault
SYMMETRY Symmetry
INVARIANTS
    TypeOK
    RevocationTakesEffect
    EvictionHolds
    WaitersHaveLeader
