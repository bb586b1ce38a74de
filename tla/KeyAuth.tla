------------------------------ MODULE KeyAuth ------------------------------
(***************************************************************************)
(* Requests that come with an API key: enforce_auth() validates the key    *)
(* through APIKeyService's cache, then looks its owner up through the      *)
(* user cache (core/auth/middleware.py, api_key_service.py).  Both caches  *)
(* are per process, have a TTL and let one leader per key ask the state    *)
(* store while the followers await its future.  Beside them, keys are      *)
(* created, revoked and deleted, and roles change, in any process.         *)
(*                                                                         *)
(* A coroutine runs undisturbed between awaits: an action is one such      *)
(* stretch, or what a thread of the state executor does meanwhile.  The    *)
(* asyncio locks are held for dict operations only and never suspend.      *)
(***************************************************************************)
EXTENDS Naturals, FiniteSets

CONSTANTS
    Procs,      \* worker processes
    Tasks,      \* requests, each handled by one process
    ProcOf,     \* [Tasks -> Procs]
    Keys,       \* API keys
    Users,
    Owner,      \* [Keys -> Users]
    Roles,
    ExpiresAt,  \* [Keys -> Nat], the last moment a key is valid
    Nothing,    \* no entry, no flight, no value
    KeyTTL,     \* APIKeyService._CACHE_TTL_SECONDS
    UserTTL,    \* _USER_CACHE_TTL_SECONDS
    MaxTime,    \* bound: the last moment
    Faults      \* which events of FaultKinds happen

FaultKinds == {"cancel", "dberror"}

ASSUME KeyAuthAssumption ==
    /\ ProcOf \in [Tasks -> Procs] /\ Owner \in [Keys -> Users]
    /\ ExpiresAt \in [Keys -> Nat]
    /\ KeyTTL \in Nat \ {0} /\ UserTTL \in Nat \ {0} /\ MaxTime \in Nat
    /\ Nothing \notin Tasks \cup Keys \cup Users \cup Roles \cup BOOLEAN
    /\ Nothing \notin [leader : Tasks, live : BOOLEAN]
    /\ Faults \subseteq FaultKinds

VARIABLES
    now,         \* the clock
    dbKey,       \* api_keys: the status of each key
    dbRole,      \* users.roles
    keyCache,    \* per process, until when a key is taken as valid
    userCache,   \* per process, the cached role of each user
    keyFlight,   \* per process and key, the registered future
    userFlight,  \* per process and user, the registered future
    task,        \* what each request is doing
    deadAt,      \* ghost: when a key was revoked or deleted
    excused      \* ghost: cache entries an eviction cannot have reached

db == <<dbKey, dbRole, deadAt>>
keySide == <<keyCache, keyFlight>>
userSide == <<userCache, userFlight>>
vars == <<now, db, keySide, userSide, task, excused>>

Never == MaxTime + 1

(* `key` is the API key, `user` the account whose role is being changed,   *)
(* `got` what the store, a cache or a future gave, `how` where the key's   *)
(* validation came from.                                                   *)
Idle == [pc |-> "idle", key |-> Nothing, user |-> Nothing, start |-> 0,
         got |-> Nothing, how |-> Nothing]

(* A request that was refused or failed, or a write that is done, leaves   *)
(* nothing behind: its task is idle again.                                 *)
EndPCs == {"idle", "admitted"}
PCs == EndPCs \cup {"key_reading", "key_read", "key_waiting", "key_told",
                    "user_reading", "user_read", "user_waiting",
                    "key_evicting", "user_evicting"}

Init ==
    /\ now = 0
    /\ dbKey \in [Keys -> {"none", "active"}]
    /\ dbRole \in [Users -> Roles]
    /\ keyCache = [p \in Procs |-> [k \in Keys |-> Nothing]]
    /\ userCache = [p \in Procs |-> [u \in Users |-> Nothing]]
    /\ keyFlight = [p \in Procs |-> [k \in Keys |-> Nothing]]
    /\ userFlight = [p \in Procs |-> [u \in Users |-> Nothing]]
    /\ task = [t \in Tasks |-> Idle]
    /\ deadAt = [k \in Keys |-> Never]
    /\ excused = {}

Fresh(entry) == entry # Nothing /\ now < entry.until

-----------------------------------------------------------------------------
(* The owner's record: _get_user_with_single_flight() *)

(* In one stretch: a cache hit admits the request, a miss registers the    *)
(* future or awaits the one that is registered; one that was cancelled     *)
(* raises CancelledError at once.  `ts` are the tasks so far.              *)
LookUpUser(t, ts) ==
    LET p == ProcOf[t]
        u == Owner[ts[t].key]
        cached == userCache[p][u]
        flight == userFlight[p][u]
        Goes(pc, got) == task' = [ts EXCEPT ![t].pc = pc, ![t].got = got]
        Fails == task' = [ts EXCEPT ![t] = Idle]
    IN  \/ /\ Fresh(cached)
           /\ Goes("admitted", cached.role)
           /\ UNCHANGED userSide
        \/ /\ ~Fresh(cached)
           /\ userCache' = [userCache EXCEPT ![p][u] = Nothing]
           /\ \/ /\ flight = Nothing
                 /\ userFlight' = [userFlight EXCEPT ![p][u] = [leader |-> t, live |-> TRUE]]
                 /\ Goes("user_reading", Nothing)
              \/ /\ flight # Nothing
                 /\ IF flight.live THEN Goes("user_waiting", Nothing) ELSE Fails
                 /\ UNCHANGED userFlight

(* users.get_by_id() in a thread *)
ReadUser(t) ==
    /\ task[t].pc = "user_reading"
    /\ task' = [task EXCEPT ![t].pc = "user_read", ![t].got = dbRole[Owner[task[t].key]]]
    /\ UNCHANGED <<now, db, keySide, userSide, excused>>

KeyFollowers(t) ==
    {x \in Tasks : ProcOf[x] = ProcOf[t] /\ task[x].pc = "key_waiting" /\ task[x].key = task[t].key}
UserFollowers(t) ==
    {x \in Tasks : ProcOf[x] = ProcOf[t] /\ task[x].pc = "user_waiting"
                   /\ Owner[task[x].key] = Owner[task[t].key]}

Settled(xs, pc, got) ==
    [x \in Tasks |-> IF x \in xs THEN [task[x] EXCEPT !.pc = pc, !.got = got] ELSE task[x]]

Failed(xs) == [x \in Tasks |-> IF x \in xs THEN Idle ELSE task[x]]

(* Mutant: the leader unregisters and settles nobody. *)
FinishUserAlone(t) ==
    LET p == ProcOf[t]
        u == Owner[task[t].key]
    IN  /\ task[t].pc = "user_read"
        /\ userCache' = [userCache EXCEPT ![p][u] = [role |-> task[t].got, until |-> now + UserTTL]]
        /\ userFlight' = [userFlight EXCEPT ![p][u] = Nothing]
        /\ task' = Settled({t}, "admitted", task[t].got)
        /\ UNCHANGED <<now, db, keySide, excused>>

(* The leader resumes: the record is cached from now on, the followers get *)
(* it, the registration ends.                                              *)
FinishUser(t) ==
    LET p == ProcOf[t]
        u == Owner[task[t].key]
    IN  /\ task[t].pc = "user_read"
        /\ userCache' = [userCache EXCEPT ![p][u] = [role |-> task[t].got, until |-> now + UserTTL]]
        /\ userFlight' = [userFlight EXCEPT ![p][u] = Nothing]
        /\ task' = Settled({t} \cup UserFollowers(t), "admitted", task[t].got)
        /\ UNCHANGED <<now, db, keySide, excused>>

(* The store fails or the leader is cancelled: its exception is theirs. *)
UserLookupFails(t) ==
    /\ \/ "dberror" \in Faults /\ task[t].pc = "user_reading"
       \/ "cancel" \in Faults /\ task[t].pc \in {"user_reading", "user_read"}
    /\ userFlight' = [userFlight EXCEPT ![ProcOf[t]][Owner[task[t].key]] = Nothing]
    /\ task' = Failed({t} \cup UserFollowers(t))
    /\ UNCHANGED <<now, db, keySide, userCache, excused>>

(* `await fut` is not shielded: the shared future is cancelled with the    *)
(* follower, and with it all who await it.                                 *)
CancelUserFollower(t) ==
    /\ "cancel" \in Faults
    /\ task[t].pc = "user_waiting"
    /\ userFlight' = [userFlight EXCEPT ![ProcOf[t]][Owner[task[t].key]].live = FALSE]
    /\ task' = Failed(UserFollowers(t))
    /\ UNCHANGED <<now, db, keySide, userCache, excused>>

-----------------------------------------------------------------------------
(* The key: APIKeyService.validate_api_key() *)

Started(t, k) ==
    [task EXCEPT ![t] = [Idle EXCEPT !.pc = "key_reading", !.key = k, !.start = now]]

(* A cached validation is good whatever the table says meanwhile. *)
ValidateHit(t, k) ==
    /\ task[t].pc \in EndPCs
    /\ Fresh(keyCache[ProcOf[t]][k])
    /\ LookUpUser(t, [Started(t, k) EXCEPT ![t].how = "hit"])
    /\ UNCHANGED <<now, db, keySide, excused>>

ValidateMiss(t, k) ==
    LET p == ProcOf[t]
        flight == keyFlight[p][k]
    IN  /\ task[t].pc \in EndPCs
        /\ ~Fresh(keyCache[p][k])
        /\ keyCache' = [keyCache EXCEPT ![p][k] = Nothing]
        /\ \/ /\ flight = Nothing
              /\ keyFlight' = [keyFlight EXCEPT ![p][k] = [leader |-> t, live |-> TRUE]]
              /\ task' = [Started(t, k) EXCEPT ![t].how = "led"]
           \/ /\ flight # Nothing
              /\ task' = IF flight.live
                         THEN [Started(t, k) EXCEPT ![t].how = "followed", ![t].pc = "key_waiting"]
                         ELSE Failed({t})
              /\ UNCHANGED keyFlight
        /\ UNCHANGED <<now, db, userSide, excused>>

Valid(k, asof) == dbKey[k] = "active" /\ asof <= ExpiresAt[k]

(* APIKeyRepository.validate() in a thread: the row as it is then, its     *)
(* end compared with the time that was taken before the thread started.    *)
ReadKey(t) ==
    /\ task[t].pc = "key_reading"
    /\ task' = [task EXCEPT ![t].pc = "key_read",
                            ![t].got = Valid(task[t].key, task[t].start)]
    /\ UNCHANGED <<now, db, keySide, userSide, excused>>

(* Mutant: the entry's life is counted from the moment it is stored. *)
CachedFromNow(t) ==
    IF task[t].got THEN [keyCache EXCEPT ![ProcOf[t]][task[t].key] = [until |-> now + KeyTTL]]
    ELSE keyCache

(* Only a valid key is cached, and its life is counted from the moment the *)
(* call began, not from the moment the answer came.                        *)
CachedFromStart(t) ==
    IF task[t].got
    THEN [keyCache EXCEPT ![ProcOf[t]][task[t].key] = [until |-> task[t].start + KeyTTL]]
    ELSE keyCache

(* The leader resumes, and goes on to the owner or to the 401 with no      *)
(* await in between.                                                       *)
FinishKey(t) ==
    LET p == ProcOf[t]
        k == task[t].key
        told == Settled(KeyFollowers(t), "key_told", task[t].got)
    IN  /\ task[t].pc = "key_read"
        /\ keyCache' = CachedFromStart(t)
        /\ keyFlight' = [keyFlight EXCEPT ![p][k] = Nothing]
        /\ IF task[t].got THEN LookUpUser(t, told)
           ELSE task' = [told EXCEPT ![t] = Idle] /\ UNCHANGED userSide
        /\ UNCHANGED <<now, db, excused>>

(* A follower resumes with its leader's answer. *)
FollowKey(t) ==
    /\ task[t].pc = "key_told"
    /\ IF task[t].got THEN LookUpUser(t, task)
       ELSE task' = [task EXCEPT ![t] = Idle] /\ UNCHANGED userSide
    /\ UNCHANGED <<now, db, keySide, excused>>

KeyLookupFails(t) ==
    /\ \/ "dberror" \in Faults /\ task[t].pc = "key_reading"
       \/ "cancel" \in Faults /\ task[t].pc \in {"key_reading", "key_read"}
    /\ keyFlight' = [keyFlight EXCEPT ![ProcOf[t]][task[t].key] = Nothing]
    /\ task' = Failed({t} \cup KeyFollowers(t))
    /\ UNCHANGED <<now, db, keyCache, userSide, excused>>

CancelKeyFollower(t) ==
    /\ "cancel" \in Faults
    /\ task[t].pc = "key_waiting"
    /\ keyFlight' = [keyFlight EXCEPT ![ProcOf[t]][task[t].key].live = FALSE]
    /\ task' = Failed(KeyFollowers(t))
    /\ UNCHANGED <<now, db, keyCache, userSide, excused>>

-----------------------------------------------------------------------------
(* Writes.  Each is one statement in a thread, then the eviction when the  *)
(* coroutine resumes; the other processes are not told.                    *)

Others(p) == Procs \ {p}

(* APIKeyRepository.create(); revoke() and delete(): the row is inactive   *)
(* or gone, which nothing here tells apart, and stays so however often.    *)
Created(k) == [dbKey EXCEPT ![k] = "active"]
Ended(k) == [dbKey EXCEPT ![k] = "dead"]

CreateKey(t, k) ==
    /\ task[t].pc \in EndPCs
    /\ dbKey[k] = "none"
    /\ dbKey' = Created(k)
    /\ task' = [task EXCEPT ![t] = Idle]
    /\ UNCHANGED <<now, dbRole, deadAt, keySide, userSide, excused>>

(* revoke_api_key() and delete_api_key() as far as the statement. *)
EndKey(t, k) ==
    /\ task[t].pc \in EndPCs
    /\ dbKey[k] # "none"
    /\ dbKey' = Ended(k)
    /\ deadAt' = [deadAt EXCEPT ![k] = IF @ = Never THEN now ELSE @]
    /\ task' = [task EXCEPT ![t] = [Idle EXCEPT !.pc = "key_evicting", !.key = k]]
    /\ excused' = excused \cup (Others(ProcOf[t]) \X {k})
    /\ UNCHANGED <<now, dbRole, keySide, userSide>>

(* Either of them for somebody else's key: no row matches, which is        *)
(* reported as success too, and the entry is evicted.                      *)
EndOthersKey(t, k) ==
    /\ task[t].pc \in EndPCs
    /\ dbKey[k] # "none"
    /\ keyCache' = [keyCache EXCEPT ![ProcOf[t]][k] = Nothing]
    /\ task' = [task EXCEPT ![t] = Idle]
    /\ UNCHANGED <<now, db, keyFlight, userSide, excused>>

(* A validation that read the key while it was valid and has not resumed   *)
(* yet caches it after the eviction.                                       *)
LateKeyFill(p, k) ==
    \E x \in Tasks : ProcOf[x] = p /\ task[x].key = k /\ task[x].pc = "key_read" /\ task[x].got = TRUE

(* Mutant: revoke and delete leave the cache alone. *)
EvictKeyNot(t) ==
    /\ task[t].pc = "key_evicting"
    /\ task' = [task EXCEPT ![t] = Idle]
    /\ UNCHANGED <<now, db, keySide, userSide, excused>>

(* _evict_by_key_id() *)
EvictKey(t) ==
    LET p == ProcOf[t]
        k == task[t].key
    IN  /\ task[t].pc = "key_evicting"
        /\ keyCache' = [keyCache EXCEPT ![p][k] = Nothing]
        /\ excused' = IF LateKeyFill(p, k) THEN excused \cup {<<p, k>>} ELSE excused
        /\ task' = [task EXCEPT ![t] = Idle]
        /\ UNCHANGED <<now, db, keyFlight, userSide>>

(* AuthenticationService.update_role() as far as these caches go: the      *)
(* statement, a second read, then invalidate_user_cache().                 *)
ChangeRole(t, u, r) ==
    /\ task[t].pc \in EndPCs
    /\ r # dbRole[u]
    /\ dbRole' = [dbRole EXCEPT ![u] = r]
    /\ task' = [task EXCEPT ![t] = [Idle EXCEPT !.pc = "user_evicting", !.user = u]]
    /\ excused' = excused \cup (Others(ProcOf[t]) \X {u})
    /\ UNCHANGED <<now, dbKey, deadAt, keySide, userSide>>

LateUserFill(p, u) ==
    \E x \in Tasks : /\ ProcOf[x] = p /\ task[x].pc = "user_read"
                     /\ Owner[task[x].key] = u /\ task[x].got # dbRole[u]

(* Mutant: the entry is blanked instead of removed. *)
EvictUserBlank(t) ==
    LET p == ProcOf[t]
        u == task[t].user
    IN  /\ task[t].pc = "user_evicting"
        /\ userCache' = [userCache EXCEPT ![p][u] = [role |-> Nothing, until |-> now + UserTTL]]
        /\ task' = [task EXCEPT ![t] = Idle]
        /\ UNCHANGED <<now, db, keySide, userFlight, excused>>

(* invalidate_user_cache() *)
EvictUser(t) ==
    LET p == ProcOf[t]
        u == task[t].user
    IN  /\ task[t].pc = "user_evicting"
        /\ userCache' = [userCache EXCEPT ![p][u] = Nothing]
        /\ excused' = IF LateUserFill(p, u) THEN excused \cup {<<p, u>>} ELSE excused
        /\ task' = [task EXCEPT ![t] = Idle]
        /\ UNCHANGED <<now, db, keySide, userFlight>>

(* Cancelled, or the second read fails, after the statement: the eviction  *)
(* is given up.                                                            *)
EvictionLost(t) ==
    /\ Faults # {}
    /\ task[t].pc \in {"key_evicting", "user_evicting"}
    /\ excused' = excused \cup
          {<<ProcOf[t], IF task[t].pc = "key_evicting" THEN task[t].key ELSE task[t].user>>}
    /\ task' = [task EXCEPT ![t] = Idle]
    /\ UNCHANGED <<now, db, keySide, userSide>>

Tick ==
    /\ now < MaxTime
    /\ now' = now + 1
    /\ UNCHANGED <<db, keySide, userSide, task, excused>>

-----------------------------------------------------------------------------
(* A request shows its key as x-api-key, or as a bearer token that is not  *)
(* a JWT.  One that shows both is validated a second time, from the start, *)
(* when the first is refused.                                              *)
ShowKey(t) == \E k \in Keys : ValidateHit(t, k) \/ ValidateMiss(t, k)

Validation(t) ==
    \/ ShowKey(t)
    \/ ReadKey(t) \/ FinishKey(t) \/ FollowKey(t) \/ KeyLookupFails(t) \/ CancelKeyFollower(t)

OwnerLookup(t) ==
    ReadUser(t) \/ FinishUser(t) \/ UserLookupFails(t) \/ CancelUserFollower(t)

Administration(t) ==
    \/ \E k \in Keys : CreateKey(t, k) \/ EndKey(t, k) \/ EndOthersKey(t, k)
    \/ \E u \in Users, r \in Roles : ChangeRole(t, u, r)
    \/ EvictKey(t) \/ EvictUser(t) \/ EvictionLost(t)

Next == Tick \/ \E t \in Tasks : Validation(t) \/ OwnerLookup(t) \/ Administration(t)

Spec == Init /\ [][Next]_vars

-----------------------------------------------------------------------------
(* Properties *)

Entries(fields) == {Nothing} \cup fields
Flights == Entries([leader : Tasks, live : BOOLEAN])

TypeOK ==
    /\ now \in 0..MaxTime
    /\ dbKey \in [Keys -> {"none", "active", "dead"}]
    /\ dbRole \in [Users -> Roles]
    /\ keyCache \in [Procs -> [Keys -> Entries([until : 0..(MaxTime + KeyTTL)])]]
    /\ userCache \in [Procs -> [Users -> Entries([role : Roles, until : 0..(MaxTime + UserTTL)])]]
    /\ keyFlight \in [Procs -> [Keys -> Flights]]
    /\ userFlight \in [Procs -> [Users -> Flights]]
    /\ task \in [Tasks -> [pc : PCs, key : Keys \cup {Nothing}, user : Users \cup {Nothing},
                           start : 0..MaxTime, got : BOOLEAN \cup Roles \cup {Nothing},
                           how : {"hit", "led", "followed", Nothing}]]
    /\ deadAt \in [Keys -> 0..Never]
    /\ excused \subseteq Procs \X (Keys \cup Users)

(* api_key_service.py:61-70, "TTL bounds the window in which a revoked/    *)
(* deleted key would still authenticate": a request that arrives KeyTTL or *)
(* more after its key was revoked, was deleted or ran out is not admitted  *)
(* in any process, however long reads of the store take and whatever       *)
(* evictions are lost -- unless it joined a lookup that was under way.  A  *)
(* key that runs out while its lookup is under way is still admitted, and  *)
(* cached; that entry's life counts from before the lookup too.            *)
DeadSince(k) == IF deadAt[k] <= ExpiresAt[k] THEN deadAt[k] ELSE ExpiresAt[k] + 1

RevocationTakesEffect ==
    \A t \in Tasks :
        task[t].pc \in {"admitted", "user_reading", "user_read", "user_waiting"} =>
            \/ task[t].how = "followed"
            \/ task[t].start < DeadSince(task[t].key) + KeyTTL

(* _evict_by_key_id() and invalidate_user_cache() leave nothing of the old *)
(* state in their own process, although lookups lead, follow, fail and     *)
(* refill around them; the exceptions are a lookup that had read the store *)
(* before the write and not resumed at the eviction, and an eviction that  *)
(* never ran.                                                              *)
EvictionHolds ==
    /\ \A p \in Procs, k \in Keys :
          keyCache[p][k] # Nothing /\ dbKey[k] # "active" =>
              \/ <<p, k>> \in excused
              \/ \E t \in Tasks : ProcOf[t] = p /\ task[t].pc = "key_evicting" /\ task[t].key = k
    /\ \A p \in Procs, u \in Users :
          userCache[p][u] # Nothing /\ userCache[p][u].role # dbRole[u] =>
              \/ <<p, u>> \in excused
              \/ \E t \in Tasks : ProcOf[t] = p /\ task[t].pc = "user_evicting" /\ task[t].user = u

(* Nobody waits for ever on a future of either registry: its leader is     *)
(* still at work and the future can still be settled, also after           *)
(* followers or leaders were cancelled and others took over.               *)
WaitersHaveLeader ==
    \A t \in Tasks :
        /\ task[t].pc = "key_waiting" =>
              LET f == keyFlight[ProcOf[t]][task[t].key] IN
              /\ f # Nothing /\ f.live
              /\ task[f.leader].pc \in {"key_reading", "key_read"}
              /\ task[f.leader].key = task[t].key
        /\ task[t].pc = "user_waiting" =>
              LET f == userFlight[ProcOf[t]][Owner[task[t].key]] IN
              /\ f # Nothing /\ f.live
              /\ task[f.leader].pc \in {"user_reading", "user_read"}
              /\ Owner[task[f.leader].key] = Owner[task[t].key]
=============================================================================
