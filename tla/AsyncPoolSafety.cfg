SPECIFICATION Spec
CONSTANTS
    Tasks = {t1, t2, t3}
    Conns = {c1, c2, c3, c4, c5}
    NoConn = NoConn
    Dead = Dead
    MinConn = 1
    MaxConn = 2
    CooldownChecks = 2
    MaxDead = 1
    Faults <- Everything
SYMMETRY PoolSymmetry
INVARIANTS
    TypeOK
    CapacityBound
    ExclusiveLease
    WaitersAreInAcquire
PROPERTY
    ImplementsLease
