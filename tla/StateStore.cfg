SPECIFICATION FairSpec
CONSTANTS
    Tasks = {t1}
    Flusher = Flusher
    Stopper = Stopper
    Threads <- MCThreads
    Conns = {c1, c2}
    NoConn = NoConn
    MinConn = 1
    MaxConn = 2
    CooldownChecks = 1
    Records = {r1, r2}
    MaxBatch = 2
    MaxFaults = 1
INVARIANTS
    TypeOK
    NoStrandedWaiter
    IdleInAutocommit
    AllOrNothing
    StopFlushesAll
PROPERTIES
    ImplementsLease
    QueueEmpties
