-------------------------- MODULE OperationsProofs --------------------------
(***************************************************************************)
(* Proofs about what whoever runs the service sets and is told: the sizes  *)
(* that Settings gives every machine, and the alerts, for any counters,    *)
(* gauges and askers.                                                      *)
(***************************************************************************)
EXTENDS Settings, Alerts, TLAPS

-----------------------------------------------------------------------------
(* Settings *)

Sized(n) == n \in Nat \ {0}

(* Whatever of the CPU counts is known, the process counts on one at least *)
(* (cpu.py:25-46).                                                         *)
THEOREM SomeCpu == \A m \in Machines : Sized(DetectCpuCount(m))
<1> SUFFICES ASSUME NEW m \in Machines PROVE Sized(DetectCpuCount(m))
    OBVIOUS
<1> DEFINE quota == CgroupQuota(m)
           limited == Lower(m.affinity, quota)
           cpus == IF limited = 0 THEN m.total ELSE limited
<1>1. /\ m.affinity \in Nat /\ m.total \in Nat
      /\ m.quota2 \in Nat /\ m.period2 \in Nat \ {0}
      /\ m.quota1 \in Nat /\ m.period1 \in Nat \ {0}
    BY DEF Machines
<1>2. m.quota2 \div m.period2 \in Int /\ m.quota1 \div m.period1 \in Int
    BY <1>1
<1>3. quota \in Nat
    BY <1>1, <1>2 DEF CgroupQuota, AtLeast
<1>4. limited \in Nat
    BY <1>1, <1>3 DEF Lower
<1>5. cpus \in Nat
    BY <1>1, <1>4
<1>6. AtLeast(cpus, 1) \in Nat \ {0}
    BY <1>5 DEF AtLeast
<1> QED
    BY <1>6 DEF DetectCpuCount, Sized

LEMMA SizesOfMachine ==
    ASSUME NEW n \in Nat \ {0}
    PROVE  /\ n \div 2 \in Nat /\ 2 * (n \div 2) <= n
           /\ AtLeast(n \div 2, 2) \in Nat \ {0} /\ AtLeast(n \div 2, 2) >= 2
           /\ AtLeast(n * 2, 4) \in Nat \ {0}
           /\ AtLeast(n \div 2, 2) <= AtLeast(n * 2, 4)
<1>1. n \div 2 \in Nat /\ 2 * (n \div 2) <= n
    OBVIOUS
<1> QED
    BY <1>1 DEF AtLeast

LEMMA DefaultLimits ==
    ASSUME NEW n \in Nat \ {0}, NEW env, NEW pool, pool.timeout = 30000,
           DOMAIN env \subseteq {"dataMax"}
    PROVE  ValidLimits(LimitSettings(env, n), pool, DefaultFlags)
<1> DEFINE limits == LimitSettings(env, n)
<1>1. /\ limits.rows = 10000 /\ limits.bytes = 10485760 /\ limits.duration = 30000
      /\ limits.fast = AtLeast(n * 25, 20) /\ limits.normal = AtLeast(n * 10, 8)
      /\ limits.expensive = AtLeast(n, 2) /\ limits.tokenLife = 3600000
      /\ limits.attempts = 10 /\ limits.window = 60000
      /\ limits.maintenance = 86400000
      /\ limits.export = 15000 /\ limits.publish = 2000
    BY DEF LimitSettings, RecommendedSizing, EnvOr
<1> QED
    BY <1>1 DEF ValidLimits, Positive, AtLeast, DefaultFlags

(* A process whose environment sets no sizes starts on every machine, with *)
(* a floor no higher than the ceiling and more threads than connections    *)
(* (settings.py:216-240).                                                  *)
THEOREM DefaultsAccepted ==
    ASSUME NEW n, Sized(n), NEW env, DOMAIN env = {}
    PROVE  Accepted(FromEnv(env, DefaultFlags, n))
<1> DEFINE s == FromEnv(env, DefaultFlags, n)
           pool == PoolSettings(env, n)
           executors == ExecutorSettings(env, pool, n)
           limits == LimitSettings(env, n)
<1> USE DEF Sized
<1>1. \A name, default : EnvOr(env, name, default) = default
    BY DEF EnvOr
<1>2. /\ pool.dataMin = AtLeast(n \div 2, 2) /\ pool.dataMax = AtLeast(n * 2, 4)
      /\ pool.stateMin = AtLeast(n \div 2, 2) /\ pool.stateMax = AtLeast(n * 2, 4)
      /\ pool.timeout = 30000
    BY <1>1 DEF PoolSettings, RecommendedSizing, PoolTimeout
<1>3. ValidPools(pool)
    BY <1>2, SizesOfMachine DEF ValidPools, MinMax, Positive
<1>4. /\ executors.data = pool.dataMax + 2 /\ executors.state = pool.stateMax + 2
      /\ executors.background = AtLeast(n, 2) /\ executors.password = AtLeast(n, 2)
    BY <1>1 DEF ExecutorSettings, RecommendedSizing
<1>5. ValidExecutors(executors, pool)
    BY <1>2, <1>4, SizesOfMachine DEF ValidExecutors, Positive, AtLeast
<1>6. ValidLimits(limits, pool, DefaultFlags)
    BY <1>1, <1>2, DefaultLimits
<1>7. ValidFlags(DefaultFlags)
    BY DEF ValidFlags, DefaultFlags
<1> QED
    BY <1>3, <1>5, <1>6, <1>7 DEF Accepted, FromEnv

(* What validate() accepts is what the models of the pools, the session    *)
(* and the rate limiter take for granted: floors within ceilings           *)
(* (SizerAssumption), a thread for every connection, and no statement that *)
(* may run longer than others wait for its connection.  PoolSettings has a *)
(* validate() of its own that no start calls; it would find nothing more.  *)
THEOREM AcceptedFits ==
    ASSUME NEW s, Accepted(s)
    PROVE  /\ 0 < s.pool.dataMin /\ s.pool.dataMin <= s.pool.dataMax
           /\ 0 < s.pool.stateMin /\ s.pool.stateMin <= s.pool.stateMax
           /\ s.executors.data >= s.pool.dataMax
           /\ s.executors.state >= s.pool.stateMax
           /\ s.limits.duration <= s.pool.timeout
           /\ ValidDatabasePool(DatabasePool(s))
<1>1. ValidPools(s.pool) /\ ValidExecutors(s.executors, s.pool)
      /\ ValidLimits(s.limits, s.pool, s.flags)
    BY DEF Accepted
<1> QED
    BY <1>1 DEF ValidPools, ValidExecutors, ValidLimits, MinMax, Positive,
                ValidDatabasePool, DatabasePool

(* One variable that lowers the ceiling of a pool starts on small machines *)
(* and is refused on larger ones: the floor still follows the CPUs         *)
(* (settings.py:310-320, 438-445).  The executor follows the ceiling.      *)
THEOREM LoneCeiling ==
    ASSUME NEW n, Sized(n), NEW k \in Int
    PROVE  Accepted(FromEnv([v \in {"dataMax"} |-> k], DefaultFlags, n))
              <=> k >= AtLeast(n \div 2, 2)
<1> DEFINE env == [v \in {"dataMax"} |-> k]
           pool == PoolSettings(env, n)
           executors == ExecutorSettings(env, pool, n)
           limits == LimitSettings(env, n)
<1> USE DEF Sized
<1>1. /\ pool.dataMin = AtLeast(n \div 2, 2) /\ pool.dataMax = k
      /\ pool.stateMin = AtLeast(n \div 2, 2) /\ pool.stateMax = AtLeast(n * 2, 4)
      /\ pool.timeout = 30000
    BY DEF PoolSettings, RecommendedSizing, PoolTimeout, EnvOr
<1>2. ValidPools(pool) <=> k >= AtLeast(n \div 2, 2)
    BY <1>1, SizesOfMachine DEF ValidPools, MinMax, Positive
<1>3. /\ executors.data = k + 2 /\ executors.state = pool.stateMax + 2
      /\ executors.background = AtLeast(n, 2) /\ executors.password = AtLeast(n, 2)
    BY <1>1 DEF ExecutorSettings, RecommendedSizing, EnvOr
<1>4. k >= AtLeast(n \div 2, 2) => ValidExecutors(executors, pool)
    BY <1>1, <1>3, SizesOfMachine DEF ValidExecutors, Positive, AtLeast
<1>5. ValidLimits(limits, pool, DefaultFlags)
    BY <1>1, DefaultLimits
<1>6. ValidFlags(DefaultFlags)
    BY DEF ValidFlags, DefaultFlags
<1> QED
    BY <1>2, <1>4, <1>5, <1>6 DEF Accepted, FromEnv

(* cpu.py:118-122 wants the threads of an executor "a little above its     *)
(* matching pool's max".  RecommendedSizing gives the application-data     *)
(* executor fewer threads than its pool has connections from four CPUs on; *)
(* a process that starts by run_api.py takes its own number, two above the *)
(* pool's (settings.py:236).                                               *)
THEOREM RecommendedExecutorFallsShort ==
    ASSUME NEW n, Sized(n)
    PROVE  LET sizing == RecommendedSizing(n) IN
           /\ sizing.dataWorkers < sizing.dataMax <=> n >= 4
           /\ sizing.stateWorkers = sizing.stateMax + 2
<1> USE DEF Sized
<1>1. /\ RecommendedSizing(n).dataWorkers = AtLeast(n, 4) + 2
      /\ RecommendedSizing(n).dataMax = AtLeast(n * 2, 4)
      /\ RecommendedSizing(n).stateWorkers = AtLeast(n * 2, 4) + 2
      /\ RecommendedSizing(n).stateMax = AtLeast(n * 2, 4)
    BY DEF RecommendedSizing
<1> QED
    BY <1>1 DEF AtLeast


-----------------------------------------------------------------------------
(* Alerts *)

IInv ==
    /\ TypeOK
    /\ ToldOnce
    /\ \A c \in Counters \ known : reported[c] = 0

LEMMA Initially == Init => IInv
    BY DEF Init, IInv, TypeOK, ToldOnce

LEMMA DeltaIsGrowth ==
    ASSUME IInv, NEW c \in Counters
    PROVE  Delta(c) \in Nat /\ Delta(c) = count[c] - Previous(c) /\ Previous(c) \in Nat
<1>1. count[c] \in Nat /\ prev[c] \in Nat
    BY DEF IInv, TypeOK
<1>2. CASE c \in known
    <2>1. prev[c] <= count[c]
        BY <1>2 DEF IInv, ToldOnce
    <2> QED
        BY <1>1, <1>2, <2>1 DEF Delta, Previous
<1>3. CASE c \notin known
    BY <1>1, <1>3 DEF Delta, Previous
<1> QED
    BY <1>2, <1>3

LEMMA EvaluateKeeps ==
    ASSUME IInv, NEW looked \in SUBSET Counters, NEW over \in SUBSET Gauges,
           Evaluate(looked, over)
    PROVE  IInv'
<1> USE DEF Evaluate
<1>1. TypeOK
    BY DEF IInv
<1>2. TypeOK'
    <2>1. /\ prev' \in [Counters -> Nat] /\ first' \in [Counters -> Nat]
          /\ count' \in [Counters -> Nat]
        BY <1>1 DEF TypeOK
    <2>2. reported' \in [Counters -> Nat]
        BY <1>1, DeltaIsGrowth DEF TypeOK
    <2>3. known' \in SUBSET Counters /\ firing' \in SUBSET (Counters \cup Gauges)
        BY <1>1 DEF TypeOK
    <2> QED
        BY <2>1, <2>2, <2>3 DEF TypeOK
<1>3. ToldOnce'
    <2> SUFFICES ASSUME NEW c \in known'
                 PROVE  first'[c] + reported'[c] = prev'[c] /\ prev'[c] <= count'[c]
        BY DEF ToldOnce
    <2>1. c \in Counters /\ count[c] \in Nat /\ prev[c] \in Nat /\ first[c] \in Nat
          /\ reported[c] \in Nat
        BY <1>1 DEF TypeOK
    <2>2. CASE c \in looked /\ c \in known
        <3>1. first[c] + reported[c] = prev[c] /\ prev[c] <= count[c]
            BY <2>2 DEF IInv, ToldOnce
        <3>2. /\ prev'[c] = count[c] /\ first'[c] = first[c]
              /\ reported'[c] = reported[c] + (count[c] - prev[c])
            BY <2>1, <2>2 DEF Delta, Previous
        <3> QED
            BY <2>1, <3>1, <3>2
    <2>3. CASE c \in looked /\ c \notin known
        <3>1. reported[c] = 0
            BY <2>1, <2>3 DEF IInv
        <3>2. /\ prev'[c] = count[c] /\ first'[c] = count[c]
              /\ reported'[c] = reported[c] + (count[c] - count[c])
            BY <2>1, <2>3 DEF Delta, Previous
        <3> QED
            BY <2>1, <3>1, <3>2
    <2>4. CASE c \notin looked
        <3>1. c \in known
            BY <2>4
        <3> QED
            BY <2>1, <2>4, <3>1 DEF IInv, ToldOnce
    <2> QED
        BY <2>2, <2>3, <2>4
<1>4. \A c \in Counters \ known' : reported'[c] = 0
    BY <1>1 DEF IInv, TypeOK
<1> QED
    BY <1>2, <1>3, <1>4 DEF IInv

LEMMA OccurKeeps ==
    ASSUME IInv, NEW c \in Counters, Occur(c)
    PROVE  IInv'
<1>1. TypeOK'
    BY DEF IInv, TypeOK, Occur
<1>2. \A d \in Counters : count'[d] \in Nat /\ count[d] <= count'[d]
    BY DEF IInv, TypeOK, Occur
<1>3. ToldOnce'
    <2> SUFFICES ASSUME NEW d \in known
                 PROVE  first[d] + reported[d] = prev[d] /\ prev[d] <= count'[d]
        BY DEF ToldOnce, Occur
    <2>1. d \in Counters /\ count[d] \in Nat /\ prev[d] \in Nat /\ count'[d] \in Nat
        BY <1>2 DEF IInv, TypeOK
    <2> QED
        BY <1>2, <2>1 DEF IInv, ToldOnce
<1>4. \A d \in Counters \ known' : reported'[d] = 0
    BY DEF IInv, Occur
<1> QED
    BY <1>1, <1>3, <1>4 DEF IInv

LEMMA NextKeeps == IInv /\ [Next]_vars => IInv'
<1> SUFFICES ASSUME IInv, [Next]_vars PROVE IInv'
    OBVIOUS
<1>1. CASE HealthCheck
    BY <1>1, EvaluateKeeps DEF HealthCheck, Looked, GaugesOver, Counters
<1>2. ASSUME NEW c \in Counters, Occur(c) PROVE IInv'
    BY <1>2, OccurKeeps
<1>3. CASE UNCHANGED vars
    BY <1>3 DEF vars, IInv, TypeOK, ToldOnce
<1> QED
    BY <1>1, <1>2, <1>3 DEF Next

(* Every occurrence a counter saw after the first evaluation is told by    *)
(* one evaluation and by one only (alerts.py:228-239).                     *)
THEOREM GrowthToldOnce == Spec => []ToldOnce
<1>1. IInv => ToldOnce
    BY DEF IInv
<1> QED
    BY Initially, NextKeeps, <1>1, PTL DEF Spec

=============================================================================
