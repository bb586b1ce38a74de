------------------------------- MODULE Settings -------------------------------
(***************************************************************************)
(* How a process gets its sizes and limits (core/concurrency/cpu.py,       *)
(* core/app/settings.py, core/db/settings.py, run_api.py): from the CPUs   *)
(* it may use, overridden by the environment, and refused by validate()    *)
(* when they make no sense together.  The environment is a function on the *)
(* variables that are set, here named after the settings they give; each   *)
(* is a number.  Durations are in milliseconds.                            *)
(***************************************************************************)
EXTENDS Integers

AtLeast(x, floor) == IF x < floor THEN floor ELSE x

(* Of two counts the lower one, where 0 stands for "not known". *)
Lower(a, b) ==
    IF a = 0 \/ (b # 0 /\ b < a) THEN b ELSE a

(* What the operating system says of the CPUs: the affinity, the total,    *)
(* and the quota and period of cgroup v2 and v1.  A quota of 0 is one that *)
(* is unlimited, or cannot be read.                                        *)
Machines ==
    [affinity : Nat, total : Nat,
     quota2 : Nat, period2 : Nat \ {0}, quota1 : Nat, period1 : Nat \ {0}]

(* _cgroup_cpu_quota(): whole CPUs. *)
CgroupQuota(m) ==
    IF m.quota2 # 0 THEN AtLeast(m.quota2 \div m.period2, 1)
    ELSE IF m.quota1 # 0 THEN AtLeast(m.quota1 \div m.period1, 1)
    ELSE 0

DetectCpuCount(m) ==
    LET limited == Lower(m.affinity, CgroupQuota(m)) IN
    AtLeast(IF limited = 0 THEN m.total ELSE limited, 1)

RecommendedSizing(n) ==
    [dataMin |-> AtLeast(n \div 2, 2),   dataMax |-> AtLeast(n * 2, 4),
     stateMin |-> AtLeast(n \div 2, 2),  stateMax |-> AtLeast(n * 2, 4),
     dataWorkers |-> AtLeast(n, 4) + 2,  stateWorkers |-> AtLeast(n * 2, 4) + 2,
     backgroundWorkers |-> AtLeast(n, 2), passwordWorkers |-> AtLeast(n, 2),
     fast |-> AtLeast(n * 25, 20), normal |-> AtLeast(n * 10, 8),
     expensive |-> AtLeast(n, 2)]

-----------------------------------------------------------------------------

(* env_int(), env_float() and os.getenv() with a default. *)
EnvOr(env, name, default) == IF name \in DOMAIN env THEN env[name] ELSE default

(* PoolRuntimeSettings.timeout and CacheSettings: no variable sets them. *)
PoolTimeout == 30000

(* _default_pool_settings(), under the environment. *)
PoolSettings(env, n) ==
    LET sizing == RecommendedSizing(n) IN
    [dataMin  |-> EnvOr(env, "dataMin", sizing.dataMin),
     dataMax  |-> EnvOr(env, "dataMax", sizing.dataMax),
     stateMin |-> EnvOr(env, "stateMin", sizing.stateMin),
     stateMax |-> EnvOr(env, "stateMax", sizing.stateMax),
     timeout  |-> PoolTimeout]

(* _default_executor_settings(pool), under the environment: two threads    *)
(* more than the pool that was configured, not the recommended number.     *)
ExecutorSettings(env, pool, n) ==
    LET sizing == RecommendedSizing(n) IN
    [data       |-> EnvOr(env, "dataWorkers", pool.dataMax + 2),
     state      |-> EnvOr(env, "stateWorkers", pool.stateMax + 2),
     background |-> EnvOr(env, "backgroundWorkers", sizing.backgroundWorkers),
     password   |-> EnvOr(env, "passwordWorkers", sizing.passwordWorkers)]

(* The other numbers that validate() looks at.  The rate limiter and the   *)
(* maintenance can be switched off.                                        *)
LimitSettings(env, n) ==
    LET sizing == RecommendedSizing(n) IN
    [rows         |-> EnvOr(env, "rows", 10000),
     bytes        |-> EnvOr(env, "bytes", 10485760),
     duration     |-> EnvOr(env, "duration", 30000),
     fast         |-> EnvOr(env, "fast", sizing.fast),
     normal       |-> EnvOr(env, "normal", sizing.normal),
     expensive    |-> EnvOr(env, "expensive", sizing.expensive),
     tokenLife    |-> EnvOr(env, "tokenLife", 3600000),
     attempts     |-> EnvOr(env, "attempts", 10),
     window       |-> EnvOr(env, "window", 60000),
     maintenance  |-> EnvOr(env, "maintenance", 86400000),
     export       |-> EnvOr(env, "export", 15000),
     publish      |-> EnvOr(env, "publish", 2000)]

(* AppSettings.from_env().  What it reads beside numbers: whether a JWT    *)
(* secret is set, a known algorithm named, the CORS origins empty, listed  *)
(* or "*" with or without credentials, and which features are on.          *)
FromEnv(env, flags, n) ==
    LET pool == PoolSettings(env, n) IN
    [pool |-> pool, executors |-> ExecutorSettings(env, pool, n),
     limits |-> LimitSettings(env, n), flags |-> flags]

Flags ==
    [secret : BOOLEAN, algorithm : BOOLEAN, origins : {"none", "listed", "any"},
     credentials : BOOLEAN, rateLimit : BOOLEAN, maintenance : BOOLEAN]

DefaultFlags ==
    [secret |-> TRUE, algorithm |-> TRUE, origins |-> "any",
     credentials |-> FALSE, rateLimit |-> TRUE, maintenance |-> TRUE]

-----------------------------------------------------------------------------

Positive(x) == x > 0
MinMax(min, max) == Positive(min) /\ Positive(max) /\ min <= max

ValidPools(pool) ==
    /\ MinMax(pool.dataMin, pool.dataMax)
    /\ MinMax(pool.stateMin, pool.stateMax)
    /\ Positive(pool.timeout)

ValidExecutors(executors, pool) ==
    /\ \A size \in {executors.data, executors.state, executors.background,
                    executors.password} : Positive(size)
    /\ executors.data >= pool.dataMax
    /\ executors.state >= pool.stateMax

ValidLimits(limits, pool, flags) ==
    /\ \A limit \in {limits.rows, limits.bytes, limits.duration, limits.fast,
                     limits.normal, limits.expensive, limits.tokenLife,
                     limits.export, limits.publish} : Positive(limit)
    /\ limits.duration <= pool.timeout
    /\ flags.rateLimit => Positive(limits.attempts) /\ Positive(limits.window)
    /\ flags.maintenance => Positive(limits.maintenance)

ValidFlags(flags) ==
    /\ flags.secret /\ flags.algorithm
    /\ flags.origins # "none"
    /\ ~(flags.credentials /\ flags.origins = "any")

(* validate() of an AppSettings whose secret is required, as from_env()    *)
(* requires it of every server.                                            *)
Accepted(s) ==
    /\ ValidPools(s.pool)
    /\ ValidExecutors(s.executors, s.pool)
    /\ ValidLimits(s.limits, s.pool, s.flags)
    /\ ValidFlags(s.flags)

(* core/db/settings.py: PoolSettings.validate() of what run_api.py makes   *)
(* of the pool settings, its overflow and recycle interval at the defaults.*)
DatabasePool(s) ==
    [min |-> s.pool.dataMin, max |-> s.pool.dataMax, overflow |-> 10,
     timeout |-> s.pool.timeout]

ValidDatabasePool(pool) ==
    /\ MinMax(pool.min, pool.max)
    /\ pool.overflow >= 0
    /\ Positive(pool.timeout)

=============================================================================
