----------------------------- MODULE QueryCache -----------------------------
(***************************************************************************)
(* The read and write paths of QueryService.run() through the query result *)
(* cache: QueryCacheCoordinator's in-process L1 with its table index and   *)
(* single-flight registry, the shared L2 table query_cache, the persistence*)
(* queue that fills it, and the invalidation a write does (core/services/  *)
(* query_service.py, core/caching, core/db/cache.py).                      *)
(*                                                                         *)
(* Every worker process has its own L1, index, registry and queue; L2 and  *)
(* the database are shared.  The coordinator's asyncio.Lock is only held   *)
(* for dict mutations, never across an await, so it never suspends and     *)
(* does not appear.  A thread's database work and the resumption of the    *)
(* coroutine awaiting it are two steps where other tasks can tell.         *)
(*                                                                         *)
(* A query's result is, per table it reads, the number of writes the table *)
(* had seen.  LRU order and time are left out: a full L1 evicts any entry, *)
(* and any entry of L1 or L2 may expire at any time.                       *)
(***************************************************************************)
EXTENDS Naturals, FiniteSets

CONSTANTS
    Procs,       \* worker processes
    Tasks,       \* requests, each handled by one process
    ProcOf,      \* [Tasks -> Procs]
    Keys,        \* cacheable statements (SQL text and parameters)
    Writes,      \* write statements
    Tables,      \* tables of the database
    Names,       \* table names as they are spelled in statements
    Reads,       \* [Keys -> SUBSET Tables], what a query depends on
    Touches,     \* [Writes -> SUBSET Tables], what a write changes
    KeyNames,    \* [Keys -> SUBSET Names], extract_tables() of a query
    WriteNames,  \* [Writes -> SUBSET Names], extract_tables() of a write
    Nothing,     \* no entry, no leader, no statement
    Precise,     \* AppSettings.cache_invalidation_precise
    L1Size,      \* max_size of L1
    MaxJobs,     \* what a persistence queue and its workers hold at most
    MaxVersion,  \* bound: writes per table
    Faults       \* which events of FaultKinds happen

FaultKinds == {"cancel", "crash", "dberror", "l2error"}

ASSUME CacheAssumption ==
    /\ IsFiniteSet(Tasks) /\ IsFiniteSet(Keys)
    /\ ProcOf \in [Tasks -> Procs]
    /\ Reads \in [Keys -> SUBSET Tables] /\ Touches \in [Writes -> SUBSET Tables]
    /\ KeyNames \in [Keys -> SUBSET Names]
    /\ WriteNames \in [Writes -> SUBSET Names]
    /\ Keys \cap Writes = {} /\ Nothing \notin Tasks \cup Keys \cup Writes
    /\ Precise \in BOOLEAN
    /\ L1Size \in Nat \ {0} /\ MaxJobs \in Nat \ {0}
    /\ MaxVersion \in Nat
    /\ Faults \subseteq FaultKinds

VARIABLES
    pc,         \* where each request is
    stmt,       \* the statement each request runs
    data,       \* the rows a reader has, the versions a writer has written
    todo,       \* names whose L2 rows a writer has still to delete
    since,      \* ghost: `acked` when the read started
    l1,         \* per process, the L1 entry of each key
    tableKeys,  \* per process, _table_keys: name -> tagged keys
    leader,     \* per process, the task registered in _inflight for each key
    cancelled,  \* <<process, key>> whose registered future is cancelled
    l2,         \* the table query_cache
    jobs,       \* results submitted to the persistence queues
    db,         \* writes committed per table
    acked,      \* ghost: writes per table whose requests have been answered
    disturbed   \* ghost: a write ran beside a read or a pending job, or L2
                \* failed to delete

vars == <<pc, stmt, data, todo, since, l1, tableKeys, leader, cancelled, l2,
          jobs, db, acked, disturbed>>
requests == <<pc, stmt, data, todo, since>>
cache == <<l1, tableKeys, leader, cancelled>>
shared == <<l2, jobs, db, acked, disturbed>>

Versions == [Tables -> 0 .. MaxVersion]
Rows(k) == [Reads[k] -> 0 .. MaxVersion]
AllRows == UNION {Rows(k) : k \in Keys}
Written(w) == [Touches[w] -> 0 .. MaxVersion]

LeadingPCs == {"l2_read", "l2_got", "running", "fetched"}
WritingPCs == {"writing", "committed", "clearing", "deleting"}
(* "failed": raised the query's or the leader's exception; "aborted": got  *)
(* a CancelledError though neither it nor its leader was cancelled.        *)
EndPCs == {"done", "failed", "aborted"}

TypeOK ==
    /\ pc \in [Tasks -> {"idle", "following"} \cup LeadingPCs \cup WritingPCs \cup EndPCs]
    /\ stmt \in [Tasks -> Keys \cup Writes \cup {Nothing}]
    /\ \A t \in Tasks : data[t] \in AllRows \cup {Nothing} \cup UNION {Written(w) : w \in Writes}
    /\ todo \in [Tasks -> SUBSET Names]
    /\ since \in [Tasks -> Versions]
    /\ \A p \in Procs, k \in Keys : l1[p][k] \in Rows(k) \cup {Nothing}
    /\ tableKeys \in [Procs -> [Names -> SUBSET Keys]]
    /\ leader \in [Procs -> [Keys -> Tasks \cup {Nothing}]]
    /\ cancelled \subseteq Procs \X Keys
    /\ \A k \in Keys : l2[k] \in Rows(k) \cup {Nothing}
    /\ \A j \in jobs : j.proc \in Procs /\ j.key \in Keys /\ j.rows \in Rows(j.key)
    /\ db \in Versions /\ acked \in Versions
    /\ disturbed \in BOOLEAN

NoVersions == [x \in Tables |-> 0]

Init ==
    /\ pc = [t \in Tasks |-> "idle"]
    /\ stmt = [t \in Tasks |-> Nothing]
    /\ data = [t \in Tasks |-> Nothing]
    /\ todo = [t \in Tasks |-> {}]
    /\ since = [t \in Tasks |-> NoVersions]
    /\ l1 = [p \in Procs |-> [k \in Keys |-> Nothing]]
    /\ tableKeys = [p \in Procs |-> [n \in Names |-> {}]]
    /\ leader = [p \in Procs |-> [k \in Keys |-> Nothing]]
    /\ cancelled = {}
    /\ l2 = [k \in Keys |-> Nothing]
    /\ jobs = {}
    /\ db = NoVersions /\ acked = NoVersions
    /\ disturbed = FALSE

Reading(t) == pc[t] \in LeadingPCs \cup {"following"}
Writing(t) == pc[t] \in WritingPCs

Followers(p, k) ==
    {f \in Tasks : pc[f] = "following" /\ ProcOf[f] = p /\ stmt[f] = k}

-----------------------------------------------------------------------------
(* get_or_execute() *)

(* LRUQueryCache.get(), which drops an entry that has expired. *)
InL1(p, k) == l1[p][k] # Nothing

(* The part before the first await: L1, then the single-flight registry.   *)
(* Awaiting a future that is already cancelled raises CancelledError.      *)
StartRead(t, k) ==
    LET p == ProcOf[t] IN
    /\ pc[t] = "idle"
    /\ stmt' = [stmt EXCEPT ![t] = k]
    /\ since' = [since EXCEPT ![t] = acked]
    /\ data' = [data EXCEPT ![t] = l1[p][k]]
    /\ disturbed' = (disturbed \/ \E u \in Tasks : Writing(u))
    /\ \/ /\ InL1(p, k)
          /\ pc' = [pc EXCEPT ![t] = "done"]
          /\ UNCHANGED leader
       \/ /\ ~InL1(p, k) /\ leader[p][k] = Nothing
          /\ pc' = [pc EXCEPT ![t] = "l2_read"]
          /\ leader' = [leader EXCEPT ![p][k] = t]
       \/ /\ ~InL1(p, k) /\ leader[p][k] # Nothing
          /\ pc' = [pc EXCEPT ![t] =
                       IF <<p, k>> \in cancelled THEN "aborted" ELSE "following"]
          /\ UNCHANGED leader
    /\ UNCHANGED <<todo, l1, tableKeys, cancelled, l2, jobs, db, acked>>

(* The executor thread reads query_cache; get_cached_result() turns an     *)
(* error into a miss.  After a miss nothing happens before run_query().    *)
L2Read(t) ==
    /\ pc[t] = "l2_read"
    /\ pc' = [pc EXCEPT ![t] = IF l2[stmt[t]] = Nothing THEN "running" ELSE "l2_got"]
    /\ data' = [data EXCEPT ![t] = l2[stmt[t]]]
    /\ UNCHANGED <<stmt, todo, since, cache, shared>>

L2ReadFails(t) ==
    /\ "l2error" \in Faults
    /\ pc[t] = "l2_read"
    /\ pc' = [pc EXCEPT ![t] = "running"]
    /\ UNCHANGED <<stmt, data, todo, since, cache, shared>>

(* run_query(): semaphore, pool and executor are waits; then the statement *)
(* runs, and the connection is released before the coroutine goes on.      *)
RunQuery(t) ==
    /\ pc[t] = "running"
    /\ pc' = [pc EXCEPT ![t] = "fetched"]
    /\ data' = [data EXCEPT ![t] = [x \in Reads[stmt[t]] |-> db[x]]]
    /\ UNCHANGED <<stmt, todo, since, cache, shared>>

(* Mutant: a full L1 overwrites the victim's entry instead of removing it. *)
PutL1OverVictim(p, k, rows) ==
    /\ \E victim \in {k} \cup {j \in Keys : l1[p][j] # Nothing} :
          l1' = [l1 EXCEPT ![p][victim] = rows]
    /\ tableKeys' = [tableKeys EXCEPT ![p] =
          [n \in Names |-> IF n \in KeyNames[k] THEN @[n] \cup {k} ELSE @[n]]]

(* LRUQueryCache.put(), then _tag_tables(): no await in between. *)
PutL1(p, k, rows) ==
    /\ LET full == Cardinality({j \in Keys : l1[p][j] # Nothing}) >= L1Size IN
       \/ /\ l1[p][k] # Nothing \/ ~full
          /\ l1' = [l1 EXCEPT ![p][k] = rows]
       \/ /\ l1[p][k] = Nothing /\ full
          /\ \E victim \in {j \in Keys : l1[p][j] # Nothing} :
                l1' = [l1 EXCEPT ![p][victim] = Nothing, ![p][k] = rows]
    /\ tableKeys' = [tableKeys EXCEPT ![p] =
          [n \in Names |-> IF n \in KeyNames[k] THEN @[n] \cup {k} ELSE @[n]]]

(* The leader ends: set_result() or set_exception() reaches the followers  *)
(* of a future that is still pending, and `finally` unregisters it.        *)
Settle(t, outcome, rows) ==
    LET p == ProcOf[t]
        k == stmt[t]
        all == {t} \cup Followers(p, k)
    IN  /\ pc' = [u \in Tasks |-> IF u \in all THEN outcome ELSE pc[u]]
        /\ data' = [u \in Tasks |-> IF u \in all THEN rows ELSE data[u]]
        /\ leader' = [leader EXCEPT ![p][k] = Nothing]
        /\ cancelled' = cancelled \ {<<p, k>>}

FinishL2Hit(t) ==
    /\ pc[t] = "l2_got"
    /\ PutL1(ProcOf[t], stmt[t], data[t])
    /\ Settle(t, "done", data[t])
    /\ UNCHANGED <<stmt, todo, since, shared>>

(* persist_l2() of the rows a request has fetched. *)
Job(t) == [proc |-> ProcOf[t], key |-> stmt[t], rows |-> data[t]]

(* submit(): a queue that is full or does not accept drops the job.        *)
Submitted(job) ==
    {jobs} \cup (IF Cardinality({j \in jobs : j.proc = job.proc}) < MaxJobs
                 THEN {jobs \cup {job}} ELSE {})

(* The result is submitted to the persistence queue; an empty one is not.  *)
FinishMiss(t) ==
    /\ pc[t] = "fetched"
    /\ PutL1(ProcOf[t], stmt[t], data[t])
    /\ jobs' \in Submitted(Job(t))
    /\ Settle(t, "done", data[t])
    /\ UNCHANGED <<stmt, todo, since, l2, db, acked, disturbed>>

QueryFails(t) ==
    /\ "dberror" \in Faults
    /\ pc[t] = "running"
    /\ Settle(t, "failed", Nothing)
    /\ UNCHANGED <<stmt, todo, since, l1, tableKeys, shared>>

(* Mutant: `except Exception`, which a CancelledError passes by. *)
CancelLeaderUnsettled(t) ==
    /\ "cancel" \in Faults
    /\ pc[t] \in LeadingPCs
    /\ pc' = [pc EXCEPT ![t] = "failed"]
    /\ leader' = [leader EXCEPT ![ProcOf[t]][stmt[t]] = Nothing]
    /\ UNCHANGED <<stmt, data, todo, since, l1, tableKeys, cancelled, shared>>

CancelLeader(t) ==
    /\ "cancel" \in Faults
    /\ pc[t] \in LeadingPCs
    /\ Settle(t, "failed", Nothing)
    /\ UNCHANGED <<stmt, todo, since, l1, tableKeys, shared>>

(* Mutant: a cancelled follower also unregisters the future. *)
CancelFollowerUnregisters(t) ==
    /\ "cancel" \in Faults
    /\ pc[t] = "following"
    /\ pc' = [u \in Tasks |-> IF u = t THEN "failed"
                              ELSE IF u \in Followers(ProcOf[t], stmt[t])
                              THEN "aborted" ELSE pc[u]]
    /\ leader' = [leader EXCEPT ![ProcOf[t]][stmt[t]] = Nothing]
    /\ UNCHANGED <<stmt, data, todo, since, l1, tableKeys, cancelled, shared>>

(* `await fut` is not shielded: cancelling a follower cancels the future   *)
(* all followers share, and it stays registered until the leader ends.     *)
CancelFollower(t) ==
    LET p == ProcOf[t]
        k == stmt[t]
    IN  /\ "cancel" \in Faults
        /\ pc[t] = "following"
        /\ pc' = [u \in Tasks |-> IF u = t THEN "failed"
                                  ELSE IF u \in Followers(p, k) THEN "aborted"
                                  ELSE pc[u]]
        /\ cancelled' = cancelled \cup {<<p, k>>}
        /\ UNCHANGED <<stmt, data, todo, since, l1, tableKeys, leader, shared>>

-----------------------------------------------------------------------------
(* The write path of run(), and _invalidate_after_write() *)

StartWrite(t, w) ==
    /\ pc[t] = "idle"
    /\ pc' = [pc EXCEPT ![t] = "writing"]
    /\ stmt' = [stmt EXCEPT ![t] = w]
    /\ disturbed' = (disturbed \/ jobs # {} \/ \E u \in Tasks : Reading(u))
    /\ UNCHANGED <<data, todo, since, cache, l2, jobs, db, acked>>

Bumped(w) == [x \in Tables |-> IF x \in Touches[w] THEN db[x] + 1 ELSE db[x]]
MayBump(w) == \A x \in Touches[w] : db[x] < MaxVersion

Commit(t) ==
    /\ pc[t] = "writing" /\ MayBump(stmt[t])
    /\ pc' = [pc EXCEPT ![t] = "committed"]
    /\ db' = Bumped(stmt[t])
    /\ data' = [data EXCEPT ![t] = [x \in Touches[stmt[t]] |-> db[x] + 1]]
    /\ UNCHANGED <<stmt, todo, since, cache, l2, jobs, acked, disturbed>>

WriteFails(t) ==
    /\ "dberror" \in Faults
    /\ pc[t] = "writing"
    /\ pc' = [pc EXCEPT ![t] = "failed"]
    /\ UNCHANGED <<stmt, data, todo, since, cache, shared>>

TaggedKeys(p, names) == UNION {tableKeys[p][n] : n \in names}

(* LRUQueryCache.invalidate() and clear() *)
Drop(p, keys) ==
    l1' = [l1 EXCEPT ![p] = [k \in Keys |-> IF k \in keys THEN Nothing ELSE @[k]]]

(* Mutant: the index forgets the keys, L1 keeps them. *)
InvalidateTablesKeepL1(t) ==
    LET p == ProcOf[t]
        names == WriteNames[stmt[t]]
    IN  /\ pc[t] = "committed"
        /\ Precise /\ TaggedKeys(p, names) # {}
        /\ tableKeys' = [tableKeys EXCEPT ![p] =
              [n \in Names |-> IF n \in names THEN {} ELSE @[n]]]
        /\ todo' = [todo EXCEPT ![t] = names]
        /\ pc' = [pc EXCEPT ![t] = "deleting"]
        /\ UNCHANGED <<stmt, data, since, l1, leader, cancelled, shared>>

(* invalidate_tables(): the tagged keys leave L1 and the popped names the  *)
(* index; the L2 rows follow name by name.                                 *)
InvalidateTables(t) ==
    LET p == ProcOf[t]
        names == WriteNames[stmt[t]]
    IN  /\ pc[t] = "committed"
        /\ Precise /\ TaggedKeys(p, names) # {}
        /\ tableKeys' = [tableKeys EXCEPT ![p] =
              [n \in Names |-> IF n \in names THEN {} ELSE @[n]]]
        /\ Drop(p, TaggedKeys(p, names))
        /\ todo' = [todo EXCEPT ![t] = names]
        /\ pc' = [pc EXCEPT ![t] = "deleting"]
        /\ UNCHANGED <<stmt, data, since, leader, cancelled, shared>>

(* clear_all(), also when nothing tagged was found. *)
ClearAll(t) ==
    LET p == ProcOf[t] IN
    /\ pc[t] = "committed"
    /\ ~Precise \/ TaggedKeys(p, WriteNames[stmt[t]]) = {}
    /\ tableKeys' = [tableKeys EXCEPT ![p] = [n \in Names |-> {}]]
    /\ Drop(p, Keys)
    /\ pc' = [pc EXCEPT ![t] = "clearing"]
    /\ UNCHANGED <<stmt, data, todo, since, leader, cancelled, shared>>

(* The write is answered: from here on no read should return older rows. *)
Answer(t) ==
    /\ pc' = [pc EXCEPT ![t] = "done"]
    /\ data' = [data EXCEPT ![t] = Nothing]
    /\ acked' = [x \in Tables |->
          IF x \in Touches[stmt[t]] /\ acked[x] < data[t][x]
          THEN data[t][x] ELSE acked[x]]

DeletedL2(keys) == [k \in Keys |-> IF k \in keys THEN Nothing ELSE l2[k]]

(* clear_all() and invalidate_cache() of L2 log an error and return 0: the *)
(* write is answered as if the rows were gone.                             *)
DeleteFromL2(keys) ==
    \/ l2' = DeletedL2(keys) /\ UNCHANGED disturbed
    \/ "l2error" \in Faults /\ l2' = l2 /\ disturbed' = TRUE

(* Mutant: clear_all() leaves the rows of L2. *)
ClearL2Not(t) ==
    /\ pc[t] = "clearing"
    /\ Answer(t)
    /\ UNCHANGED <<stmt, todo, since, cache, l2, jobs, db, disturbed>>

ClearL2(t) ==
    /\ pc[t] = "clearing"
    /\ DeleteFromL2(Keys)
    /\ Answer(t)
    /\ UNCHANGED <<stmt, todo, since, cache, jobs, db>>

(* DELETE ... WHERE query_sql LIKE '%name%' *)
DeleteL2(t) ==
    /\ pc[t] = "deleting"
    /\ \E n \in todo[t] :
          /\ DeleteFromL2({k \in Keys : n \in KeyNames[k]})
          /\ todo' = [todo EXCEPT ![t] = @ \ {n}]
          /\ IF todo[t] = {n} THEN Answer(t) ELSE UNCHANGED <<pc, data, acked>>
    /\ UNCHANGED <<stmt, since, cache, jobs, db>>

(* CancelledError is no Exception: the invalidation is given up where it   *)
(* is, and a statement in a thread may still run to its end.               *)
CancelWriter(t) ==
    /\ "cancel" \in Faults
    /\ Writing(t)
    /\ pc' = [pc EXCEPT ![t] = "failed"]
    /\ todo' = [todo EXCEPT ![t] = {}]
    /\ \/ UNCHANGED <<db, l2>>
       \/ pc[t] = "writing" /\ MayBump(stmt[t]) /\ db' = Bumped(stmt[t]) /\ UNCHANGED l2
       \/ pc[t] = "clearing" /\ l2' = DeletedL2(Keys) /\ UNCHANGED db
       \/ /\ \E n \in todo[t] : l2' = DeletedL2({k \in Keys : n \in KeyNames[k]})
          /\ UNCHANGED db
    /\ UNCHANGED <<stmt, data, since, cache, jobs, acked, disturbed>>

-----------------------------------------------------------------------------
(* The response leaves; the task serves another request. *)
Respond(t) ==
    /\ pc[t] \in EndPCs
    /\ pc' = [pc EXCEPT ![t] = "idle"]
    /\ stmt' = [stmt EXCEPT ![t] = Nothing]
    /\ data' = [data EXCEPT ![t] = Nothing]
    /\ since' = [since EXCEPT ![t] = NoVersions]
    /\ UNCHANGED <<todo, cache, shared>>

(* cache_result(): an upsert, which logs an error. *)
Upserted(job) ==
    {[l2 EXCEPT ![job.key] = job.rows]} \cup (IF "l2error" \in Faults THEN {l2} ELSE {})

(* A worker of CachePersistenceQueue runs a job.  The workers and their    *)
(* threads run jobs in any order.                                          *)
PersistL2(job) ==
    /\ job \in jobs
    /\ jobs' = jobs \ {job}
    /\ l2' \in Upserted(job)
    /\ UNCHANGED <<requests, cache, db, acked, disturbed>>

(* CacheEntry.is_expired(), query_cache.expires_at, cleanup_expired_cache() *)
ExpireL1(p, k) ==
    /\ l1[p][k] # Nothing
    /\ l1' = [l1 EXCEPT ![p][k] = Nothing]
    /\ UNCHANGED <<requests, tableKeys, leader, cancelled, shared>>

ExpireL2(k) ==
    /\ l2[k] # Nothing
    /\ l2' = [l2 EXCEPT ![k] = Nothing]
    /\ UNCHANGED <<requests, cache, jobs, db, acked, disturbed>>

(* A worker process dies and is started again: L2 is all that is left. *)
Crash(p) ==
    LET mine == {t \in Tasks : ProcOf[t] = p} IN
    /\ "crash" \in Faults
    /\ pc' = [t \in Tasks |-> IF t \in mine THEN "idle" ELSE pc[t]]
    /\ stmt' = [t \in Tasks |-> IF t \in mine THEN Nothing ELSE stmt[t]]
    /\ data' = [t \in Tasks |-> IF t \in mine THEN Nothing ELSE data[t]]
    /\ todo' = [t \in Tasks |-> IF t \in mine THEN {} ELSE todo[t]]
    /\ since' = [t \in Tasks |-> IF t \in mine THEN NoVersions ELSE since[t]]
    /\ l1' = [l1 EXCEPT ![p] = [k \in Keys |-> Nothing]]
    /\ tableKeys' = [tableKeys EXCEPT ![p] = [n \in Names |-> {}]]
    /\ leader' = [leader EXCEPT ![p] = [k \in Keys |-> Nothing]]
    /\ cancelled' = {c \in cancelled : c[1] # p}
    /\ jobs' = {j \in jobs : j.proc # p}
    /\ UNCHANGED <<l2, db, acked, disturbed>>

-----------------------------------------------------------------------------
Lead(t) ==
    \/ L2Read(t) \/ L2ReadFails(t) \/ RunQuery(t)
    \/ FinishL2Hit(t) \/ FinishMiss(t) \/ QueryFails(t)

Write(t) ==
    \/ Commit(t) \/ WriteFails(t) \/ InvalidateTables(t) \/ ClearAll(t)
    \/ ClearL2(t) \/ DeleteL2(t)

Next ==
    \/ \E t \in Tasks :
          \/ \E k \in Keys : StartRead(t, k)
          \/ \E w \in Writes : StartWrite(t, w)
          \/ Lead(t) \/ Write(t) \/ Respond(t)
          \/ CancelLeader(t) \/ CancelFollower(t) \/ CancelWriter(t)
    \/ \E job \in jobs : PersistL2(job)
    \/ \E p \in Procs, k \in Keys : ExpireL1(p, k)
    \/ \E k \in Keys : ExpireL2(k)
    \/ \E p \in Procs : Crash(p)

Spec == Init /\ [][Next]_vars

-----------------------------------------------------------------------------
(* Properties *)

(* query_cache_coordinator.py:20-25: for a key that is not in L1 only one  *)
(* request per process checks L2 or runs the query at a time, whoever is   *)
(* cancelled or fails meanwhile.                                           *)
SingleFlight ==
    \A t, u \in Tasks :
        /\ pc[t] \in LeadingPCs /\ pc[u] \in LeadingPCs
        /\ ProcOf[t] = ProcOf[u] /\ stmt[t] = stmt[u]
        => t = u

(* invalidate_tables() finds what to drop through the reverse index only,  *)
(* so every L1 entry must be under each name its statement was tagged      *)
(* with, through evictions, expiry, earlier invalidations and refills.     *)
L1EntriesAreIndexed ==
    \A p \in Procs, k \in Keys : l1[p][k] # Nothing =>
        \A n \in KeyNames[k] : k \in tableKeys[p][n]

(* Whoever waits on a single-flight future waits for a request that is     *)
(* still working on it, and through a future that can still be settled, so *)
(* that nobody waits for ever: also when leaders and followers are         *)
(* cancelled, fail, or a new leader takes over.                            *)
FollowersHaveLeader ==
    \A t \in Tasks : pc[t] = "following" =>
        LET p == ProcOf[t]
            k == stmt[t]
        IN  /\ leader[p][k] # Nothing /\ <<p, k>> \notin cancelled
            /\ pc[leader[p][k]] \in LeadingPCs /\ stmt[leader[p][k]] = k

Fresh(t) ==
    pc[t] = "done" /\ stmt[t] \in Keys =>
        \A x \in Reads[stmt[t]] : data[t][x] >= since[t][x]

(* run() invalidates the cache after a write: as long as writes do not run *)
(* beside reads or pending L2 writes and the deletions from L2 succeed, a  *)
(* read started after a write was answered never returns rows from before  *)
(* it, from L1, from L2 or from rows an earlier life of the process or a   *)
(* cancelled write left in L2.                                             *)
FreshUnlessDisturbed == ~disturbed => \A t \in Tasks : Fresh(t)

(* query_result_cache.py:193-195: "avoid stale data after mutations --     *)
(* correctness over precision", with no condition on concurrency.          *)
FreshAfterWrite == \A t \in Tasks : Fresh(t)

(* query_cache_coordinator.py:23-25: the followers "get the same result"   *)
(* as their leader; none of them sees a cancellation that was neither its  *)
(* own nor the leader's.                                                   *)
FollowersShareLeader == \A t \in Tasks : pc[t] # "aborted"
=============================================================================
