SPECIFICATION FairSpec
CONSTANTS
    Tasks = {t1, t2, t3, t4}
    Conns = {c1, c2, c3, c4}
    NoConn = NoConn
    Dead = Dead
    MinConn = 2
    MaxConn = 2
    CooldownChecks = 1
    MaxDead = 0
    Faults <- BrokenOnly
INVARIANTS
    NoStrandedWaiter
PROPERTY
    QueueDrains
