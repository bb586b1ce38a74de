--------------------------- MODULE KeyAuthProofs ---------------------------
(***************************************************************************)
(* Proofs about KeyAuth, for any number of processes, requests, keys and   *)
(* users: its types, both single-flight registries, how long a revoked key *)
(* can still be admitted, and what evictions leave behind.                 *)
(***************************************************************************)
EXTENDS KeyAuth, TLAPS

-----------------------------------------------------------------------------
(* The inductive invariants *)

KeyLeading == {"key_reading", "key_read"}
UserLeading == {"user_reading", "user_read"}
WithKey == KeyLeading \cup UserLeading \cup
    {"key_waiting", "key_told", "user_waiting", "admitted", "key_evicting"}

(* A request's record, and what it holds at each place. *)
TaskRecords == [pc : PCs, key : Keys \cup {Nothing}, user : Users \cup {Nothing},
                start : 0..MaxTime, got : BOOLEAN \cup Roles \cup {Nothing},
                how : {"hit", "led", "followed", Nothing}]
GoodTasks == {r \in TaskRecords :
    /\ r.pc \in WithKey => r.key \in Keys
    /\ r.pc = "user_evicting" => r.user \in Users
    /\ r.pc \in {"key_read", "key_told"} => r.got \in BOOLEAN
    /\ r.pc = "user_read" => r.got \in Roles}

TypeInv == TypeOK /\ task \in [Tasks -> GoodTasks]

(* A registry names exactly the leaders, whoever waits has one of them,    *)
(* and through a future that can be settled.  `of` is what a task is       *)
(* looking up, `names` what can be looked up.                              *)
FlightsInStep(leading, waiting, of, flights, names) ==
    /\ \A t \in leading : flights[ProcOf[t]][of[t]] # Nothing
                          /\ flights[ProcOf[t]][of[t]].leader = t
    /\ \A p \in Procs, n \in names : flights[p][n] # Nothing =>
          /\ flights[p][n].leader \in leading
          /\ ProcOf[flights[p][n].leader] = p /\ of[flights[p][n].leader] = n
    /\ \A t \in waiting : flights[ProcOf[t]][of[t]] # Nothing /\ flights[ProcOf[t]][of[t]].live

At(ts, pcs) == {t \in Tasks : ts[t].pc \in pcs}
KeyOf(ts) == [t \in Tasks |-> ts[t].key]
UserOf(ts) == [t \in Tasks |-> Owner[ts[t].key]]
KeyFlights(ts, flights) ==
    FlightsInStep(At(ts, KeyLeading), At(ts, {"key_waiting"}), KeyOf(ts), flights, Keys)
UserFlights(ts, flights) ==
    FlightsInStep(At(ts, UserLeading), At(ts, {"user_waiting"}), UserOf(ts), flights, Users)
FlightsInv == KeyFlights(task, keyFlight) /\ UserFlights(task, userFlight)

(* A validation that found the key valid had begun before the key's end,   *)
(* and what it caches runs out KeyTTL after its beginning.                 *)
RunsOut(entry, k) ==
    entry # Nothing => entry.until <= now + KeyTTL /\ entry.until <= DeadSince(k) + KeyTTL

InTime(r) ==
    /\ r.start <= now
    /\ r.pc = "key_read" /\ r.got = TRUE => r.start <= DeadSince(r.key)
    /\ r.pc \in {"key_waiting", "key_told"} => r.how = "followed"
    /\ r.pc \in {"admitted", "user_reading", "user_read", "user_waiting"} =>
          r.how = "followed" \/ r.start < DeadSince(r.key) + KeyTTL

TimelyInv ==
    /\ \A k \in Keys : dbKey[k] # "dead" => deadAt[k] = Never
    /\ \A p \in Procs, k \in Keys : RunsOut(keyCache[p][k], k)
    /\ \A t \in Tasks : InTime(task[t])

(* What is cached, or read and about to be cached, is what the store says, *)
(* or an eviction is on its way, or is excused.                            *)
KeyExcused(p, k) ==
    \/ <<p, k>> \in excused
    \/ \E t \in Tasks : ProcOf[t] = p /\ task[t].pc = "key_evicting" /\ task[t].key = k
UserExcused(p, u) ==
    \/ <<p, u>> \in excused
    \/ \E t \in Tasks : ProcOf[t] = p /\ task[t].pc = "user_evicting" /\ task[t].user = u
(* Nothing is cached or about to be: what needs no excuse. *)
KeyGone(p, k) == keyCache[p][k] = Nothing /\ ~LateKeyFill(p, k)
UserGone(p, u) == userCache[p][u] = Nothing /\ ~LateUserFill(p, u)

FillsAreExcused ==
    \A t \in Tasks :
        /\ task[t].pc = "key_read" /\ task[t].got = TRUE /\ dbKey[task[t].key] # "active" =>
              KeyExcused(ProcOf[t], task[t].key)
        /\ task[t].pc = "user_read" /\ task[t].got # dbRole[Owner[task[t].key]] =>
              UserExcused(ProcOf[t], Owner[task[t].key])

EvictInv == EvictionHolds /\ FillsAreExcused

-----------------------------------------------------------------------------
(* Records *)

LEMMA TaskUpdated ==
    ASSUME NEW ts \in [Tasks -> GoodTasks], NEW t \in Tasks, NEW pc \in PCs,
           NEW got \in BOOLEAN \cup Roles \cup {Nothing},
           pc \in WithKey => ts[t].key \in Keys,
           pc # "user_evicting",
           pc \in {"key_read", "key_told"} => got \in BOOLEAN,
           pc = "user_read" => got \in Roles,
           NEW new, new = [ts EXCEPT ![t].pc = pc, ![t].got = got]
    PROVE  /\ new \in [Tasks -> GoodTasks]
           /\ \A x \in Tasks \ {t} : new[x] = ts[x]
           /\ new[t].pc = pc /\ new[t].got = got /\ new[t].key = ts[t].key
           /\ new[t].user = ts[t].user /\ new[t].start = ts[t].start /\ new[t].how = ts[t].how
BY DEF GoodTasks, TaskRecords

LEMMA IdleIsGood == Idle \in GoodTasks /\ Idle.pc = "idle" /\ Idle.start = 0 /\ Idle.how = Nothing
BY KeyAuthAssumption DEF Idle, GoodTasks, TaskRecords, PCs, EndPCs, WithKey, KeyLeading, UserLeading

(* One stretch of the owner's lookup: the request is admitted, leads,      *)
(* waits or fails, and nobody else moves.                                  *)
LEMMA LookUpEffect ==
    ASSUME TypeOK, NEW ts \in [Tasks -> GoodTasks], NEW t \in Tasks, ts[t].key \in Keys,
           LookUpUser(t, ts)
    PROVE  LET p == ProcOf[t]
               u == Owner[ts[t].key]
           IN  /\ task' \in [Tasks -> GoodTasks]
               /\ \A x \in Tasks \ {t} : task'[x] = ts[x]
               /\ \/ task'[t] = Idle
                  \/ /\ task'[t].pc \in {"admitted", "user_reading", "user_waiting"}
                     /\ task'[t].key = ts[t].key /\ task'[t].user = ts[t].user
                     /\ task'[t].start = ts[t].start /\ task'[t].how = ts[t].how
               /\ userCache' = userCache \/ userCache' = [userCache EXCEPT ![p][u] = Nothing]
               /\ \/ /\ userFlight[p][u] = Nothing /\ task'[t].pc = "user_reading"
                     /\ userFlight' = [userFlight EXCEPT ![p][u] = [leader |-> t, live |-> TRUE]]
                  \/ /\ userFlight[p][u] # Nothing /\ userFlight[p][u].live
                     /\ task'[t].pc = "user_waiting" /\ userFlight' = userFlight
                  \/ task'[t].pc \in {"idle", "admitted"} /\ userFlight' = userFlight
<1> DEFINE p == ProcOf[t]
           u == Owner[ts[t].key]
<1>1. p \in Procs /\ u \in Users
    BY KeyAuthAssumption
<1>2. ASSUME NEW pc \in {"admitted", "user_reading", "user_waiting"},
             NEW got \in Roles \cup {Nothing},
             task' = [ts EXCEPT ![t].pc = pc, ![t].got = got]
      PROVE  /\ task' \in [Tasks -> GoodTasks]
             /\ \A x \in Tasks \ {t} : task'[x] = ts[x]
             /\ task'[t].pc = pc
             /\ task'[t].key = ts[t].key /\ task'[t].user = ts[t].user
             /\ task'[t].start = ts[t].start /\ task'[t].how = ts[t].how
    <2>1. /\ pc \in PCs /\ pc \in WithKey /\ got \in BOOLEAN \cup Roles \cup {Nothing}
          /\ pc # "user_evicting" /\ pc # "user_read" /\ pc \notin {"key_read", "key_told"}
        BY DEF PCs, EndPCs, WithKey, UserLeading
    <2> QED
        BY <1>2, <2>1 DEF GoodTasks, TaskRecords
<1>3. ASSUME task' = [ts EXCEPT ![t] = Idle]
      PROVE  /\ task' \in [Tasks -> GoodTasks] /\ task'[t] = Idle /\ task'[t].pc = "idle"
             /\ \A x \in Tasks \ {t} : task'[x] = ts[x]
    BY <1>3, IdleIsGood
<1>4. CASE Fresh(userCache[p][u])
    <2>1. userCache[p][u].role \in Roles
        BY <1>1, <1>4 DEF Fresh, TypeOK, Entries
    <2>2. /\ task' = [ts EXCEPT ![t].pc = "admitted", ![t].got = userCache[p][u].role]
          /\ UNCHANGED userSide
        BY <1>4 DEF LookUpUser
    <2> QED
        BY <1>2, <2>1, <2>2 DEF userSide
<1>5. CASE ~Fresh(userCache[p][u]) /\ userFlight[p][u] = Nothing
    <2>1. /\ task' = [ts EXCEPT ![t].pc = "user_reading", ![t].got = Nothing]
          /\ userCache' = [userCache EXCEPT ![p][u] = Nothing]
          /\ userFlight' = [userFlight EXCEPT ![p][u] = [leader |-> t, live |-> TRUE]]
        BY <1>5 DEF LookUpUser
    <2> QED
        BY <1>2, <1>5, <2>1
<1>6. CASE ~Fresh(userCache[p][u]) /\ userFlight[p][u] # Nothing
    <2>1. /\ userCache' = [userCache EXCEPT ![p][u] = Nothing]
          /\ IF userFlight[p][u].live
             THEN task' = [ts EXCEPT ![t].pc = "user_waiting", ![t].got = Nothing]
             ELSE task' = [ts EXCEPT ![t] = Idle]
          /\ UNCHANGED userFlight
        BY <1>6 DEF LookUpUser
    <2>2. CASE userFlight[p][u].live
        BY <1>2, <1>6, <2>1, <2>2
    <2>3. CASE ~userFlight[p][u].live
        BY <1>3, <2>1, <2>3
    <2> QED
        BY <2>2, <2>3
<1> QED
    BY <1>4, <1>5, <1>6

(* What a step makes of the requests' records, action by action.           *)
LEMMA StartedIsGood ==
    ASSUME TypeInv, NEW t \in Tasks, NEW k \in Keys
    PROVE  /\ Started(t, k) \in [Tasks -> GoodTasks]
           /\ \A x \in Tasks \ {t} : Started(t, k)[x] = task[x]
           /\ Started(t, k)[t] = [Idle EXCEPT !.pc = "key_reading", !.key = k, !.start = now]
BY DEF TypeInv, TypeOK, Started, Idle, GoodTasks, TaskRecords, PCs, EndPCs, WithKey, KeyLeading,
    UserLeading

LEMMA FailedEffect ==
    ASSUME TypeInv, NEW xs, task' = Failed(xs)
    PROVE  /\ task' \in [Tasks -> GoodTasks]
           /\ \A x \in Tasks : task'[x] = IF x \in xs THEN Idle ELSE task[x]
BY IdleIsGood DEF TypeInv, Failed

LEMMA ToldEffect ==
    ASSUME TypeInv, NEW xs, NEW got \in BOOLEAN,
           \A x \in Tasks : x \in xs => task[x].pc \in WithKey,
           NEW new, new = Settled(xs, "key_told", got)
    PROVE  /\ new \in [Tasks -> GoodTasks]
           /\ \A x \in Tasks : x \notin xs => new[x] = task[x]
           /\ \A x \in Tasks : x \in xs =>
                 /\ new[x].pc = "key_told" /\ new[x].got = got /\ new[x].key = task[x].key
                 /\ new[x].user = task[x].user
                 /\ new[x].start = task[x].start /\ new[x].how = task[x].how
<1>1. /\ "key_told" \in PCs /\ "key_told" \in WithKey
      /\ got \in BOOLEAN \cup Roles \cup {Nothing}
    BY DEF PCs, EndPCs, WithKey
<1>2. task \in [Tasks -> GoodTasks]
    BY DEF TypeInv
<1>3. ASSUME NEW x \in Tasks, x \in xs
      PROVE  /\ new[x] \in GoodTasks
             /\ new[x].pc = "key_told" /\ new[x].got = got /\ new[x].key = task[x].key
             /\ new[x].user = task[x].user
             /\ new[x].start = task[x].start /\ new[x].how = task[x].how
    BY <1>1, <1>2, <1>3 DEF Settled, GoodTasks, TaskRecords
<1>4. \A x \in Tasks : x \notin xs => new[x] = task[x]
    BY DEF Settled
<1>5. new = [x \in Tasks |-> new[x]]
    BY DEF Settled
<1> QED
    BY <1>2, <1>3, <1>4, <1>5

LEMMA ReadEffect ==
    ASSUME TypeInv, NEW t \in Tasks, ReadKey(t) \/ ReadUser(t)
    PROVE  /\ task' \in [Tasks -> GoodTasks]
           /\ \A x \in Tasks \ {t} : task'[x] = task[x]
           /\ task'[t].key = task[t].key /\ task'[t].user = task[t].user
           /\ task'[t].start = task[t].start /\ task'[t].how = task[t].how
           /\ ReadKey(t) => task'[t].pc = "key_read" /\ task'[t].got = Valid(task[t].key, task[t].start)
           /\ ReadUser(t) => task'[t].pc = "user_read" /\ task'[t].got = dbRole[Owner[task[t].key]]
<1>1. task \in [Tasks -> GoodTasks]
    BY DEF TypeInv
<1>2. CASE ReadKey(t)
    <2>1. /\ task[t].pc = "key_reading"
          /\ task' = [task EXCEPT ![t].pc = "key_read", ![t].got = Valid(task[t].key, task[t].start)]
        BY <1>2 DEF ReadKey
    <2>2. task[t].key \in Keys /\ Valid(task[t].key, task[t].start) \in BOOLEAN /\ "key_read" \in PCs
        BY <1>1, <2>1 DEF GoodTasks, WithKey, KeyLeading, Valid, PCs
    <2>3. ~ReadUser(t)
        BY <2>1 DEF ReadUser
    <2> QED
        BY <1>1, <2>1, <2>2, <2>3 DEF GoodTasks, TaskRecords
<1>3. CASE ReadUser(t)
    <2>1. /\ task[t].pc = "user_reading"
          /\ task' = [task EXCEPT ![t].pc = "user_read", ![t].got = dbRole[Owner[task[t].key]]]
        BY <1>3 DEF ReadUser
    <2>2. /\ task[t].key \in Keys /\ dbRole[Owner[task[t].key]] \in Roles /\ "user_read" \in PCs
        BY <1>1, <2>1, KeyAuthAssumption DEF GoodTasks, WithKey, UserLeading, PCs, TypeInv, TypeOK
    <2>3. ~ReadKey(t)
        BY <2>1 DEF ReadKey
    <2> QED
        BY <1>1, <2>1, <2>2, <2>3 DEF GoodTasks, TaskRecords
<1> QED
    BY <1>2, <1>3

LEMMA FinishUserEffect ==
    ASSUME TypeInv, NEW t \in Tasks, FinishUser(t)
    PROVE  LET xs == {t} \cup UserFollowers(t) IN
           /\ task' \in [Tasks -> GoodTasks] /\ task[t].got \in Roles
           /\ \A x \in Tasks : x \notin xs => task'[x] = task[x]
           /\ \A x \in Tasks : x \in xs =>
                 /\ task'[x].pc = "admitted" /\ task'[x].key = task[x].key
                 /\ task'[x].start = task[x].start /\ task'[x].how = task[x].how
<1> DEFINE xs == {t} \cup UserFollowers(t)
<1>1. task[t].pc = "user_read" /\ task' = Settled(xs, "admitted", task[t].got)
    BY DEF FinishUser
<1>2. task[t].got \in Roles /\ task \in [Tasks -> GoodTasks]
    BY <1>1 DEF TypeInv, GoodTasks
<1>3. \A x \in Tasks : x \in xs => task[x].pc \in WithKey
    BY <1>1 DEF UserFollowers, WithKey, UserLeading
<1>4. "admitted" \in PCs /\ "admitted" \in WithKey
    BY DEF PCs, EndPCs, WithKey
<1> HIDE DEF xs
<1>5. ASSUME NEW x \in Tasks, x \in xs
      PROVE  /\ task'[x] \in GoodTasks
             /\ task'[x].pc = "admitted" /\ task'[x].key = task[x].key
             /\ task'[x].start = task[x].start /\ task'[x].how = task[x].how
    BY <1>1, <1>2, <1>3, <1>4, <1>5 DEF Settled, GoodTasks, TaskRecords
<1>6. \A x \in Tasks : x \notin xs => task'[x] = task[x]
    BY <1>1 DEF Settled
<1>7. task' = [x \in Tasks |-> task'[x]]
    BY <1>1 DEF Settled
<1>8. task' \in [Tasks -> GoodTasks]
    BY <1>2, <1>5, <1>6, <1>7
<1> QED
    BY <1>2, <1>5, <1>6, <1>8 DEF xs

LEMMA ValidateHitEffect ==
    ASSUME TypeInv, NEW t \in Tasks, NEW k \in Keys, ValidateHit(t, k)
    PROVE  \E ts \in [Tasks -> GoodTasks] :
              /\ \A x \in Tasks \ {t} : ts[x] = task[x]
              /\ ts[t].pc = "key_reading" /\ ts[t].key = k /\ ts[t].start = now /\ ts[t].how = "hit"
              /\ LookUpUser(t, ts)
<1> DEFINE ts == [Started(t, k) EXCEPT ![t].how = "hit"]
<1>1. LookUpUser(t, ts)
    BY DEF ValidateHit
<1>2. /\ Started(t, k) \in [Tasks -> GoodTasks]
      /\ \A x \in Tasks \ {t} : Started(t, k)[x] = task[x]
      /\ Started(t, k)[t] = [Idle EXCEPT !.pc = "key_reading", !.key = k, !.start = now]
    BY StartedIsGood
<1>3. /\ ts \in [Tasks -> GoodTasks]
      /\ \A x \in Tasks \ {t} : ts[x] = task[x]
      /\ ts[t].pc = "key_reading" /\ ts[t].key = k /\ ts[t].start = now /\ ts[t].how = "hit"
    BY <1>2 DEF GoodTasks, TaskRecords, Idle
<1> HIDE DEF ts
<1> QED
    BY <1>1, <1>3

LEMMA ValidateMissEffect ==
    ASSUME TypeInv, NEW t \in Tasks, NEW k \in Keys, ValidateMiss(t, k)
    PROVE  LET p == ProcOf[t] IN
           /\ task' \in [Tasks -> GoodTasks]
           /\ \A x \in Tasks \ {t} : task'[x] = task[x]
           /\ \/ /\ keyFlight[p][k] = Nothing
                 /\ keyFlight' = [keyFlight EXCEPT ![p][k] = [leader |-> t, live |-> TRUE]]
                 /\ task'[t].pc = "key_reading" /\ task'[t].key = k /\ task'[t].start = now
              \/ /\ keyFlight[p][k] # Nothing /\ keyFlight[p][k].live /\ keyFlight' = keyFlight
                 /\ task'[t].pc = "key_waiting" /\ task'[t].key = k /\ task'[t].start = now
                 /\ task'[t].how = "followed"
              \/ task'[t] = Idle /\ keyFlight' = keyFlight
<1> DEFINE p == ProcOf[t]
<1>1. /\ Started(t, k) \in [Tasks -> GoodTasks]
      /\ \A x \in Tasks \ {t} : Started(t, k)[x] = task[x]
      /\ Started(t, k)[t] = [Idle EXCEPT !.pc = "key_reading", !.key = k, !.start = now]
    BY StartedIsGood
<1>2. Started(t, k)[t].pc = "key_reading" /\ Started(t, k)[t].key = k /\ Started(t, k)[t].start = now
    BY <1>1 DEF Idle
<1>3. CASE keyFlight[p][k] = Nothing
    <2>1. /\ keyFlight' = [keyFlight EXCEPT ![p][k] = [leader |-> t, live |-> TRUE]]
          /\ task' = [Started(t, k) EXCEPT ![t].how = "led"]
        BY <1>3 DEF ValidateMiss
    <2>2. /\ task' \in [Tasks -> GoodTasks]
          /\ \A x \in Tasks \ {t} : task'[x] = Started(t, k)[x]
          /\ task'[t].pc = Started(t, k)[t].pc /\ task'[t].key = Started(t, k)[t].key
          /\ task'[t].start = Started(t, k)[t].start
        BY <1>1, <2>1 DEF GoodTasks, TaskRecords, Idle
    <2> QED
        BY <1>1, <1>2, <1>3, <2>1, <2>2
<1>4. CASE keyFlight[p][k] # Nothing /\ keyFlight[p][k].live
    <2>1. /\ keyFlight' = keyFlight
          /\ task' = [Started(t, k) EXCEPT ![t].how = "followed", ![t].pc = "key_waiting"]
        BY <1>4 DEF ValidateMiss
    <2>2. "key_waiting" \in PCs /\ "key_waiting" \in WithKey
        BY DEF PCs, WithKey
    <2>3. /\ task' \in [Tasks -> GoodTasks]
          /\ \A x \in Tasks \ {t} : task'[x] = Started(t, k)[x]
          /\ task'[t].pc = "key_waiting" /\ task'[t].key = Started(t, k)[t].key
          /\ task'[t].start = Started(t, k)[t].start /\ task'[t].how = "followed"
        BY <1>1, <1>2, <2>1, <2>2 DEF GoodTasks, TaskRecords, Idle
    <2> QED
        BY <1>1, <1>2, <1>4, <2>1, <2>3
<1>5. CASE keyFlight[p][k] # Nothing /\ ~keyFlight[p][k].live
    <2>1. keyFlight' = keyFlight /\ task' = Failed({t})
        BY <1>5 DEF ValidateMiss
    <2> QED
        BY <2>1, FailedEffect
<1> QED
    BY <1>3, <1>4, <1>5

(* `told` are the records once the followers have the leader's answer.     *)
LEMMA FinishKeyEffect ==
    ASSUME TypeInv, NEW t \in Tasks, FinishKey(t)
    PROVE  \E ts \in [Tasks -> GoodTasks] :
              /\ \A x \in Tasks : x \notin KeyFollowers(t) => ts[x] = task[x]
              /\ \A x \in Tasks : x \in KeyFollowers(t) =>
                    /\ ts[x].pc = "key_told" /\ ts[x].key = task[x].key
                    /\ ts[x].start = task[x].start /\ ts[x].how = task[x].how
              /\ t \notin KeyFollowers(t)
              /\ \/ task[t].got = TRUE /\ LookUpUser(t, ts)
                 \/ /\ task[t].got = FALSE /\ task'[t] = Idle /\ task' \in [Tasks -> GoodTasks]
                    /\ \A x \in Tasks \ {t} : task'[x] = ts[x]
                    /\ UNCHANGED userSide
<1> DEFINE ts == Settled(KeyFollowers(t), "key_told", task[t].got)
<1>1. task[t].pc = "key_read" /\ task[t].got \in BOOLEAN /\ t \notin KeyFollowers(t)
    BY DEF FinishKey, TypeInv, GoodTasks, KeyFollowers
<1>2. \A x \in Tasks : x \in KeyFollowers(t) => task[x].pc \in WithKey
    BY DEF KeyFollowers, WithKey
<1>3. IF task[t].got THEN LookUpUser(t, ts)
      ELSE task' = [ts EXCEPT ![t] = Idle] /\ UNCHANGED userSide
    BY DEF FinishKey
<1>4. PICK new : new = ts
    OBVIOUS
<1>8. new = Settled(KeyFollowers(t), "key_told", task[t].got)
    BY <1>1, <1>4
<1> HIDE DEF ts
<1>5. /\ new \in [Tasks -> GoodTasks]
      /\ \A x \in Tasks : x \notin KeyFollowers(t) => new[x] = task[x]
      /\ \A x \in Tasks : x \in KeyFollowers(t) =>
            /\ new[x].pc = "key_told" /\ new[x].key = task[x].key
            /\ new[x].start = task[x].start /\ new[x].how = task[x].how
    BY <1>1, <1>2, <1>8, ToldEffect
<1>6. \/ task[t].got = TRUE /\ LookUpUser(t, new)
      \/ /\ task[t].got = FALSE /\ task' = [new EXCEPT ![t] = Idle]
         /\ UNCHANGED userSide
    BY <1>1, <1>3, <1>4
<1>7. task' = [new EXCEPT ![t] = Idle] =>
         /\ task'[t] = Idle /\ task' \in [Tasks -> GoodTasks]
         /\ \A x \in Tasks \ {t} : task'[x] = new[x]
    BY <1>5, IdleIsGood
<1> QED
    BY <1>1, <1>5, <1>6, <1>7

LEMMA AdministrationEffect ==
    ASSUME TypeInv, NEW t \in Tasks, Administration(t)
    PROVE  /\ task' \in [Tasks -> GoodTasks]
           /\ \A x \in Tasks \ {t} : task'[x] = task[x]
           /\ task[t].pc \in EndPCs \cup {"key_evicting", "user_evicting"}
           /\ task'[t].start = 0
           /\ \A k \in Keys : EndKey(t, k) => task'[t].pc = "key_evicting" /\ task'[t].key = k
           /\ \A u \in Users, r \in Roles :
                 ChangeRole(t, u, r) => task'[t].pc = "user_evicting" /\ task'[t].user = u
           /\ task'[t].pc \in {"idle", "key_evicting", "user_evicting"}
<1>1. task \in [Tasks -> GoodTasks]
    BY DEF TypeInv
<1>2. ASSUME NEW k \in Keys, EndKey(t, k)
      PROVE  /\ task' = [task EXCEPT ![t] = [Idle EXCEPT !.pc = "key_evicting", !.key = k]]
             /\ task[t].pc \in EndPCs
    BY <1>2 DEF EndKey
<1>3. ASSUME NEW u \in Users, NEW r \in Roles, ChangeRole(t, u, r)
      PROVE  /\ task' = [task EXCEPT ![t] = [Idle EXCEPT !.pc = "user_evicting", !.user = u]]
             /\ task[t].pc \in EndPCs
    BY <1>3 DEF ChangeRole
<1>4. ASSUME \/ \E k \in Keys : CreateKey(t, k) \/ EndOthersKey(t, k)
             \/ EvictKey(t) \/ EvictUser(t) \/ EvictionLost(t)
      PROVE  /\ task' = [task EXCEPT ![t] = Idle]
             /\ task[t].pc \in EndPCs \cup {"key_evicting", "user_evicting"}
    BY <1>4 DEF CreateKey, EndOthersKey, EvictKey, EvictUser, EvictionLost
<1>5. ASSUME NEW k \in Keys
      PROVE  LET r == [Idle EXCEPT !.pc = "key_evicting", !.key = k] IN
             r \in GoodTasks /\ r.pc = "key_evicting" /\ r.key = k /\ r.start = 0
    BY IdleIsGood DEF Idle, GoodTasks, TaskRecords, PCs
<1>6. ASSUME NEW u \in Users
      PROVE  LET r == [Idle EXCEPT !.pc = "user_evicting", !.user = u] IN
             r \in GoodTasks /\ r.pc = "user_evicting" /\ r.user = u /\ r.start = 0
    BY IdleIsGood DEF Idle, GoodTasks, TaskRecords, PCs, WithKey, KeyLeading, UserLeading
<1>7. \/ \E k \in Keys : EndKey(t, k)
      \/ \E u \in Users, r \in Roles : ChangeRole(t, u, r)
      \/ \E k \in Keys : CreateKey(t, k) \/ EndOthersKey(t, k)
      \/ EvictKey(t) \/ EvictUser(t) \/ EvictionLost(t)
    BY DEF Administration
<1>8. ASSUME NEW k \in Keys, EndKey(t, k)
      PROVE  /\ task' \in [Tasks -> GoodTasks]
             /\ \A x \in Tasks \ {t} : task'[x] = task[x]
             /\ task'[t].pc = "key_evicting" /\ task'[t].key = k /\ task'[t].start = 0
    BY <1>1, <1>2, <1>5, <1>8, ZenonT(60)
<1>9. ASSUME NEW u \in Users, NEW r \in Roles, ChangeRole(t, u, r)
      PROVE  /\ task' \in [Tasks -> GoodTasks]
             /\ \A x \in Tasks \ {t} : task'[x] = task[x]
             /\ task'[t].pc = "user_evicting" /\ task'[t].user = u /\ task'[t].start = 0
    BY <1>1, <1>3, <1>6, <1>9, ZenonT(60)
<1>10. task' = [task EXCEPT ![t] = Idle] =>
         /\ task' \in [Tasks -> GoodTasks]
         /\ \A x \in Tasks \ {t} : task'[x] = task[x]
         /\ task'[t].pc = "idle" /\ task'[t].start = 0
    BY <1>1, IdleIsGood
<1>11. /\ task' \in [Tasks -> GoodTasks]
       /\ \A x \in Tasks \ {t} : task'[x] = task[x]
       /\ task[t].pc \in EndPCs \cup {"key_evicting", "user_evicting"}
       /\ task'[t].pc \in {"idle", "key_evicting", "user_evicting"} /\ task'[t].start = 0
    BY <1>2, <1>3, <1>4, <1>7, <1>8, <1>9, <1>10
<1> QED
    BY <1>8, <1>9, <1>11

-----------------------------------------------------------------------------
(* Types *)

LEMMA EntrySet ==
    ASSUME NEW P, NEW N, NEW S, NEW f \in [P -> [N -> S]], NEW p \in P, NEW n \in N, NEW v \in S,
           NEW g, g = [f EXCEPT ![p][n] = v]
    PROVE  /\ g \in [P -> [N -> S]]
           /\ \A q \in P, m \in N : g[q][m] = IF q = p /\ m = n THEN v ELSE f[q][m]
OBVIOUS

LEMMA TypeInit == Init => TypeInv
<1> SUFFICES ASSUME Init PROVE TypeInv
    OBVIOUS
<1>1. task \in [Tasks -> GoodTasks]
    BY IdleIsGood DEF Init
<1>2. task \in [Tasks -> TaskRecords]
    BY <1>1 DEF GoodTasks
<1>3. /\ keyCache \in [Procs -> [Keys -> Entries([until : 0..(MaxTime + KeyTTL)])]]
      /\ userCache \in [Procs -> [Users -> Entries([role : Roles, until : 0..(MaxTime + UserTTL)])]]
      /\ keyFlight \in [Procs -> [Keys -> Flights]]
      /\ userFlight \in [Procs -> [Users -> Flights]]
    BY DEF Init, Entries, Flights
<1>4. /\ now \in 0..MaxTime
      /\ dbKey \in [Keys -> {"none", "active", "dead"}] /\ dbRole \in [Users -> Roles]
      /\ deadAt \in [Keys -> 0..Never] /\ excused \subseteq Procs \X (Keys \cup Users)
    BY KeyAuthAssumption DEF Init, Never
<1> QED
    BY <1>1, <1>2, <1>3, <1>4 DEF TypeInv, TypeOK, TaskRecords

(* The types of the entries that are made. *)
LEMMA EntryTypes ==
    ASSUME TypeOK
    PROVE  /\ \A r \in Roles : [role |-> r, until |-> now + UserTTL] \in
                 Entries([role : Roles, until : 0..(MaxTime + UserTTL)])
           /\ \A start \in 0..MaxTime : [until |-> start + KeyTTL] \in
                 Entries([until : 0..(MaxTime + KeyTTL)])
           /\ \A t \in Tasks : [leader |-> t, live |-> TRUE] \in Flights
           /\ Nothing \in Entries([role : Roles, until : 0..(MaxTime + UserTTL)])
           /\ Nothing \in Entries([until : 0..(MaxTime + KeyTTL)]) /\ Nothing \in Flights
BY KeyAuthAssumption DEF TypeOK, Entries, Flights

LEMMA LookUpTypes ==
    ASSUME TypeOK, NEW ts \in [Tasks -> GoodTasks], NEW t \in Tasks, ts[t].key \in Keys,
           LookUpUser(t, ts)
    PROVE  /\ task' \in [Tasks -> GoodTasks]
           /\ userCache' \in [Procs -> [Users -> Entries([role : Roles, until : 0..(MaxTime + UserTTL)])]]
           /\ userFlight' \in [Procs -> [Users -> Flights]]
<1> DEFINE p == ProcOf[t]
           u == Owner[ts[t].key]
<1>1. p \in Procs /\ u \in Users
    BY KeyAuthAssumption
<1>2. /\ task' \in [Tasks -> GoodTasks]
      /\ userCache' = userCache \/ userCache' = [userCache EXCEPT ![p][u] = Nothing]
      /\ \/ userFlight' = userFlight
         \/ userFlight' = [userFlight EXCEPT ![p][u] = [leader |-> t, live |-> TRUE]]
    BY LookUpEffect
<1> HIDE DEF p, u
<1>3. userCache' \in [Procs -> [Users -> Entries([role : Roles, until : 0..(MaxTime + UserTTL)])]]
    <2> DEFINE S == Entries([role : Roles, until : 0..(MaxTime + UserTTL)])
    <2>1. userCache \in [Procs -> [Users -> S]] /\ Nothing \in S
        BY EntryTypes DEF TypeOK
    <2> HIDE DEF S
    <2>2. userCache' \in [Procs -> [Users -> S]]
        <3>1. CASE userCache' = userCache
            BY <2>1, <3>1
        <3>2. CASE userCache' = [userCache EXCEPT ![p][u] = Nothing]
            BY <1>1, <2>1, <3>2, EntrySet
        <3> QED
            BY <1>2, <3>1, <3>2
    <2> QED
        BY <2>2 DEF S
<1>4. userFlight' \in [Procs -> [Users -> Flights]]
    <2>1. userFlight \in [Procs -> [Users -> Flights]] /\ [leader |-> t, live |-> TRUE] \in Flights
        BY EntryTypes DEF TypeOK
    <2>2. CASE userFlight' = userFlight
        BY <2>1, <2>2
    <2>3. CASE userFlight' = [userFlight EXCEPT ![p][u] = [leader |-> t, live |-> TRUE]]
        BY <1>1, <2>1, <2>3, EntrySet
    <2> QED
        BY <1>2, <2>2, <2>3
<1> QED
    BY <1>2, <1>3, <1>4

LEMMA TypeStep == TypeInv /\ FlightsInv /\ [Next]_vars => TypeInv'
<1> SUFFICES ASSUME TypeInv, FlightsInv, [Next]_vars PROVE TypeInv'
    OBVIOUS
<1>0. TypeOK /\ task \in [Tasks -> GoodTasks]
    BY DEF TypeInv
<1>1. ASSUME now' \in 0..MaxTime,
             dbKey' \in [Keys -> {"none", "active", "dead"}], dbRole' \in [Users -> Roles],
             keyCache' \in [Procs -> [Keys -> Entries([until : 0..(MaxTime + KeyTTL)])]],
             userCache' \in [Procs -> [Users -> Entries([role : Roles, until : 0..(MaxTime + UserTTL)])]],
             keyFlight' \in [Procs -> [Keys -> Flights]],
             userFlight' \in [Procs -> [Users -> Flights]],
             task' \in [Tasks -> GoodTasks], deadAt' \in [Keys -> 0..Never],
             excused' \subseteq Procs \X (Keys \cup Users)
      PROVE  TypeInv'
    <2>1. task' \in [Tasks -> TaskRecords]
        BY <1>1 DEF GoodTasks
    <2> QED
        BY <1>1, <2>1 DEF TypeInv, TypeOK, TaskRecords
<1>2. CASE Tick
    <2>1. now' \in 0..MaxTime
        BY <1>0, <1>2, KeyAuthAssumption DEF Tick, TypeOK
    <2> QED
        BY <1>0, <1>1, <1>2, <2>1 DEF Tick, TypeOK, db, keySide, userSide
<1>3. ASSUME NEW t \in Tasks, NEW k \in Keys, ValidateHit(t, k) PROVE TypeInv'
    <2>1. /\ task' \in [Tasks -> GoodTasks]
          /\ userCache' \in [Procs -> [Users -> Entries([role : Roles, until : 0..(MaxTime + UserTTL)])]]
          /\ userFlight' \in [Procs -> [Users -> Flights]]
        <3>1. PICK ts \in [Tasks -> GoodTasks] : ts[t].key = k /\ LookUpUser(t, ts)
            BY <1>3, ValidateHitEffect
        <3> QED
            BY <1>0, <3>1, LookUpTypes
    <2> QED
        BY <1>0, <1>1, <1>3, <2>1 DEF ValidateHit, TypeOK, db, keySide
<1>4. ASSUME NEW t \in Tasks, NEW k \in Keys, ValidateMiss(t, k) PROVE TypeInv'
    <2> DEFINE p == ProcOf[t]
    <2>1. /\ task' \in [Tasks -> GoodTasks]
          /\ keyFlight' = keyFlight \/ keyFlight' = [keyFlight EXCEPT ![p][k] = [leader |-> t, live |-> TRUE]]
        BY <1>4, ValidateMissEffect
    <2>2. p \in Procs
        BY KeyAuthAssumption
    <2> HIDE DEF p
    <2>3. keyFlight' \in [Procs -> [Keys -> Flights]]
        <3>1. keyFlight \in [Procs -> [Keys -> Flights]] /\ [leader |-> t, live |-> TRUE] \in Flights
            BY <1>0, EntryTypes DEF TypeOK
        <3>2. CASE keyFlight' = keyFlight
            BY <3>1, <3>2
        <3>3. CASE keyFlight' = [keyFlight EXCEPT ![p][k] = [leader |-> t, live |-> TRUE]]
            BY <2>2, <3>1, <3>3, EntrySet
        <3> QED
            BY <2>1, <3>2, <3>3
    <2>4. keyCache' = [keyCache EXCEPT ![p][k] = Nothing] /\ UNCHANGED <<now, db, userSide, excused>>
        BY <1>4 DEF ValidateMiss, p
    <2>5. keyCache' \in [Procs -> [Keys -> Entries([until : 0..(MaxTime + KeyTTL)])]]
        BY <1>0, <2>2, <2>4, EntryTypes DEF TypeOK
    <2> QED
        BY <1>0, <1>1, <2>1, <2>3, <2>4, <2>5 DEF TypeOK, db, userSide
<1>5. ASSUME NEW t \in Tasks, ReadKey(t) \/ ReadUser(t) PROVE TypeInv'
    <2>1. UNCHANGED <<now, db, keySide, userSide, excused>>
        BY <1>5 DEF ReadKey, ReadUser
    <2> QED
        BY <1>0, <1>1, <1>5, <2>1, ReadEffect DEF TypeOK, db, keySide, userSide
<1>6. ASSUME NEW t \in Tasks, FinishKey(t) PROVE TypeInv'
    <2> DEFINE p == ProcOf[t]
               k == task[t].key
    <2>1. task[t].pc = "key_read" /\ p \in Procs /\ k \in Keys /\ task[t].start \in 0..MaxTime
        BY <1>0, <1>6, KeyAuthAssumption DEF FinishKey, GoodTasks, TaskRecords, WithKey, KeyLeading
    <2>2. PICK ts \in [Tasks -> GoodTasks] :
             /\ ts[t] = task[t]
             /\ \/ LookUpUser(t, ts)
                \/ task' \in [Tasks -> GoodTasks] /\ UNCHANGED userSide
        BY <1>6, FinishKeyEffect
    <2>3. /\ task' \in [Tasks -> GoodTasks]
          /\ userCache' \in [Procs -> [Users -> Entries([role : Roles, until : 0..(MaxTime + UserTTL)])]]
          /\ userFlight' \in [Procs -> [Users -> Flights]]
        <3>1. CASE LookUpUser(t, ts)
            BY <1>0, <2>1, <2>2, <3>1, LookUpTypes
        <3>2. CASE task' \in [Tasks -> GoodTasks] /\ UNCHANGED userSide
            BY <1>0, <3>2 DEF userSide, TypeOK
        <3> QED
            BY <2>2, <3>1, <3>2
    <2> DEFINE start == task[t].start
    <2>4. /\ \/ keyCache' = keyCache
             \/ keyCache' = [keyCache EXCEPT ![p][k] = [until |-> start + KeyTTL]]
          /\ keyFlight' = [keyFlight EXCEPT ![p][k] = Nothing]
          /\ UNCHANGED <<now, db, excused>>
        BY <1>6 DEF FinishKey, CachedFromStart
    <2> HIDE DEF p, k, start
    <2>5. keyFlight' \in [Procs -> [Keys -> Flights]]
        BY <1>0, <2>1, <2>4, EntryTypes DEF TypeOK
    <2>6. [until |-> start + KeyTTL] \in Entries([until : 0..(MaxTime + KeyTTL)])
        BY <1>0, <2>1, EntryTypes DEF start
    <2>7. keyCache' \in [Procs -> [Keys -> Entries([until : 0..(MaxTime + KeyTTL)])]]
        <3>1. keyCache \in [Procs -> [Keys -> Entries([until : 0..(MaxTime + KeyTTL)])]]
            BY <1>0 DEF TypeOK
        <3>2. CASE keyCache' = keyCache
            BY <3>1, <3>2
        <3>3. CASE keyCache' = [keyCache EXCEPT ![p][k] = [until |-> start + KeyTTL]]
            BY <2>1, <2>6, <3>1, <3>3, EntrySet
        <3> QED
            BY <2>4, <3>2, <3>3
    <2> QED
        BY <1>0, <1>1, <2>3, <2>4, <2>5, <2>7 DEF TypeOK, db
<1>7. ASSUME NEW t \in Tasks, FollowKey(t) PROVE TypeInv'
    <2>1. task[t].pc = "key_told" /\ task[t].key \in Keys
        BY <1>0, <1>7 DEF FollowKey, GoodTasks, WithKey
    <2>2. \/ LookUpUser(t, task)
          \/ task' = [task EXCEPT ![t] = Idle] /\ UNCHANGED userSide
        BY <1>7 DEF FollowKey
    <2>3. /\ task' \in [Tasks -> GoodTasks]
          /\ userCache' \in [Procs -> [Users -> Entries([role : Roles, until : 0..(MaxTime + UserTTL)])]]
          /\ userFlight' \in [Procs -> [Users -> Flights]]
        <3>1. CASE LookUpUser(t, task)
            BY <1>0, <2>1, <3>1, LookUpTypes
        <3>2. CASE task' = [task EXCEPT ![t] = Idle] /\ UNCHANGED userSide
            BY <1>0, <3>2, IdleIsGood DEF userSide, TypeOK
        <3> QED
            BY <2>2, <3>1, <3>2
    <2> QED
        BY <1>0, <1>1, <1>7, <2>3 DEF FollowKey, TypeOK, db, keySide
<1>8. ASSUME NEW t \in Tasks, KeyLookupFails(t) \/ CancelKeyFollower(t) PROVE TypeInv'
    <2> DEFINE p == ProcOf[t]
               k == task[t].key
    <2>1. p \in Procs /\ k \in Keys
        BY <1>0, <1>8, KeyAuthAssumption
        DEF KeyLookupFails, CancelKeyFollower, GoodTasks, WithKey, KeyLeading
    <2>2. /\ \/ keyFlight' = [keyFlight EXCEPT ![p][k] = Nothing]
             \/ keyFlight' = [keyFlight EXCEPT ![p][k].live = FALSE]
          /\ UNCHANGED <<now, db, keyCache, userSide, excused>>
          /\ \E xs : task' = Failed(xs)
        BY <1>8 DEF KeyLookupFails, CancelKeyFollower
    <2> HIDE DEF p, k
    <2>3. task' \in [Tasks -> GoodTasks]
        BY <2>2, FailedEffect
    <2>4. keyFlight' \in [Procs -> [Keys -> Flights]]
        <3>1. CASE keyFlight' = [keyFlight EXCEPT ![p][k] = Nothing]
            BY <1>0, <2>1, <3>1, EntryTypes, EntrySet DEF TypeOK
        <3>2. CASE CancelKeyFollower(t) /\ keyFlight' = [keyFlight EXCEPT ![p][k].live = FALSE]
            <4>1. keyFlight[p][k] # Nothing
                BY <3>2 DEF CancelKeyFollower, FlightsInv, KeyFlights, FlightsInStep, At, KeyOf, p, k
            <4>2. keyFlight[p][k] \in [leader : Tasks, live : BOOLEAN]
                BY <1>0, <2>1, <4>1 DEF TypeOK, Flights, Entries
            <4>3. [keyFlight[p][k] EXCEPT !.live = FALSE] \in Flights
                BY <4>2 DEF Flights, Entries
            <4>4. keyFlight' = [keyFlight EXCEPT ![p][k] = [keyFlight[p][k] EXCEPT !.live = FALSE]]
                BY <3>2
            <4> QED
                BY <1>0, <2>1, <4>3, <4>4, EntrySet DEF TypeOK
        <3>3. KeyLookupFails(t) => keyFlight' = [keyFlight EXCEPT ![p][k] = Nothing]
            BY DEF KeyLookupFails, p, k
        <3> QED
            BY <1>8, <2>2, <3>1, <3>2, <3>3
    <2> QED
        BY <1>0, <1>1, <2>2, <2>3, <2>4 DEF TypeOK, db, userSide
<1>9. ASSUME NEW t \in Tasks, FinishUser(t) PROVE TypeInv'
    <2> DEFINE p == ProcOf[t]
               u == Owner[task[t].key]
               r == task[t].got
    <2>1. p \in Procs /\ u \in Users
        BY <1>0, <1>9, KeyAuthAssumption DEF FinishUser, GoodTasks, WithKey, UserLeading
    <2>2. task' \in [Tasks -> GoodTasks] /\ r \in Roles
        BY <1>9, FinishUserEffect
    <2>3. /\ userCache' = [userCache EXCEPT ![p][u] = [role |-> r, until |-> now + UserTTL]]
          /\ userFlight' = [userFlight EXCEPT ![p][u] = Nothing]
          /\ UNCHANGED <<now, db, keySide, excused>>
        BY <1>9 DEF FinishUser
    <2> HIDE DEF p, u, r
    <2>4. [role |-> r, until |-> now + UserTTL] \in
             Entries([role : Roles, until : 0..(MaxTime + UserTTL)])
        BY <1>0, <2>2, EntryTypes
    <2>5. userCache' \in [Procs -> [Users -> Entries([role : Roles, until : 0..(MaxTime + UserTTL)])]]
        BY <1>0, <2>1, <2>3, <2>4 DEF TypeOK
    <2>6. userFlight' \in [Procs -> [Users -> Flights]]
        BY <1>0, <2>1, <2>3, EntryTypes DEF TypeOK
    <2> QED
        BY <1>0, <1>1, <2>2, <2>3, <2>5, <2>6 DEF TypeOK, db, keySide
<1>10. ASSUME NEW t \in Tasks, UserLookupFails(t) \/ CancelUserFollower(t) PROVE TypeInv'
    <2> DEFINE p == ProcOf[t]
               u == Owner[task[t].key]
    <2>1. p \in Procs /\ u \in Users
        BY <1>0, <1>10, KeyAuthAssumption
        DEF UserLookupFails, CancelUserFollower, GoodTasks, WithKey, UserLeading
    <2>2. /\ \/ userFlight' = [userFlight EXCEPT ![p][u] = Nothing]
             \/ userFlight' = [userFlight EXCEPT ![p][u].live = FALSE]
          /\ UNCHANGED <<now, db, keySide, userCache, excused>>
          /\ \E xs : task' = Failed(xs)
        BY <1>10 DEF UserLookupFails, CancelUserFollower
    <2> HIDE DEF p, u
    <2>3. task' \in [Tasks -> GoodTasks]
        BY <2>2, FailedEffect
    <2>4. userFlight' \in [Procs -> [Users -> Flights]]
        <3>1. CASE userFlight' = [userFlight EXCEPT ![p][u] = Nothing]
            BY <1>0, <2>1, <3>1, EntryTypes, EntrySet DEF TypeOK
        <3>2. CASE CancelUserFollower(t) /\ userFlight' = [userFlight EXCEPT ![p][u].live = FALSE]
            <4>1. userFlight[p][u] # Nothing
                BY <3>2 DEF CancelUserFollower, FlightsInv, UserFlights, FlightsInStep, At, UserOf, p, u
            <4>2. userFlight[p][u] \in [leader : Tasks, live : BOOLEAN]
                BY <1>0, <2>1, <4>1 DEF TypeOK, Flights, Entries
            <4>3. [userFlight[p][u] EXCEPT !.live = FALSE] \in Flights
                BY <4>2 DEF Flights, Entries
            <4>4. userFlight' = [userFlight EXCEPT ![p][u] = [userFlight[p][u] EXCEPT !.live = FALSE]]
                BY <3>2
            <4> QED
                BY <1>0, <2>1, <4>3, <4>4, EntrySet DEF TypeOK
        <3>3. UserLookupFails(t) => userFlight' = [userFlight EXCEPT ![p][u] = Nothing]
            BY DEF UserLookupFails, p, u
        <3> QED
            BY <1>10, <2>2, <3>1, <3>2, <3>3
    <2> QED
        BY <1>0, <1>1, <2>2, <2>3, <2>4 DEF TypeOK, db, keySide
<1>11. ASSUME NEW t \in Tasks, Administration(t) PROVE TypeInv'
    <2>1. task' \in [Tasks -> GoodTasks] /\ ProcOf[t] \in Procs
        BY <1>11, KeyAuthAssumption, AdministrationEffect
    <2>2. /\ task[t].pc = "key_evicting" => task[t].key \in Keys
          /\ task[t].pc = "user_evicting" => task[t].user \in Users
        BY <1>0 DEF GoodTasks, WithKey
    <2>3. ASSUME NEW k \in Keys, CreateKey(t, k) PROVE TypeInv'
        BY <1>0, <1>1, <2>1, <2>3 DEF CreateKey, Created, TypeOK, keySide, userSide
    <2>4. ASSUME NEW k \in Keys, EndKey(t, k) PROVE TypeInv'
        <3>1. /\ dbKey' = [dbKey EXCEPT ![k] = "dead"]
              /\ deadAt' = [deadAt EXCEPT ![k] = IF @ = Never THEN now ELSE @]
              /\ excused' = excused \cup (Others(ProcOf[t]) \X {k})
              /\ UNCHANGED <<now, dbRole, keySide, userSide>>
            BY <2>4 DEF EndKey, Ended
        <3>2. deadAt' \in [Keys -> 0..Never]
            BY <1>0, <3>1, KeyAuthAssumption DEF TypeOK, Never
        <3>3. excused' \subseteq Procs \X (Keys \cup Users)
            BY <1>0, <3>1 DEF TypeOK, Others
        <3> QED
            BY <1>0, <1>1, <2>1, <3>1, <3>2, <3>3 DEF TypeOK, keySide, userSide
    <2>5. ASSUME NEW k \in Keys, EndOthersKey(t, k) PROVE TypeInv'
        BY <1>0, <1>1, <2>1, <2>5, EntryTypes DEF EndOthersKey, TypeOK, db, userSide
    <2>6. ASSUME NEW u \in Users, NEW r \in Roles, ChangeRole(t, u, r) PROVE TypeInv'
        <3>1. excused' \subseteq Procs \X (Keys \cup Users)
            BY <1>0, <2>6 DEF ChangeRole, TypeOK, Others
        <3> QED
            BY <1>0, <1>1, <2>1, <2>6, <3>1 DEF ChangeRole, TypeOK, keySide, userSide
    <2>7. CASE EvictKey(t)
        <3>1. task[t].key \in Keys
            BY <2>2, <2>7 DEF EvictKey
        <3>2. excused' \subseteq Procs \X (Keys \cup Users)
            BY <1>0, <2>1, <2>7, <3>1 DEF EvictKey, TypeOK
        <3> QED
            BY <1>0, <1>1, <2>1, <2>7, <3>1, <3>2, EntryTypes DEF EvictKey, TypeOK, db, userSide
    <2>8. CASE EvictUser(t)
        <3>1. task[t].user \in Users
            BY <2>2, <2>8 DEF EvictUser
        <3>2. excused' \subseteq Procs \X (Keys \cup Users)
            BY <1>0, <2>1, <2>8, <3>1 DEF EvictUser, TypeOK
        <3> QED
            BY <1>0, <1>1, <2>1, <2>8, <3>1, <3>2, EntryTypes DEF EvictUser, TypeOK, db, keySide
    <2>9. CASE EvictionLost(t)
        <3>1. excused' \subseteq Procs \X (Keys \cup Users)
            BY <1>0, <2>1, <2>2, <2>9 DEF EvictionLost, TypeOK
        <3> QED
            BY <1>0, <1>1, <2>1, <2>9, <3>1 DEF EvictionLost, TypeOK, db, keySide, userSide
    <2> QED
        BY <1>11, <2>3, <2>4, <2>5, <2>6, <2>7, <2>8, <2>9 DEF Administration
<1>12. CASE UNCHANGED vars
    BY <1>0, <1>1, <1>12 DEF vars, db, keySide, userSide, TypeOK
<1> QED
    BY <1>2, <1>3, <1>4, <1>5, <1>6, <1>7, <1>8, <1>9, <1>10, <1>11, <1>12
    DEF Next, Validation, ShowKey, OwnerLookup

-----------------------------------------------------------------------------
(* The registries.  What may happen to one: nothing, a new leader, a new   *)
(* follower, a leader that leaves with its followers, and followers that   *)
(* leave with the future.  `leading2` ... are what it is afterwards.       *)

Typed(leading, waiting, of, flights, names) ==
    /\ flights \in [Procs -> [names -> Flights]]
    /\ leading \subseteq Tasks /\ waiting \subseteq Tasks
    /\ \A x \in leading \cup waiting : of[x] \in names

Leads(t, n, leading, waiting, of, flights, leading2, waiting2, of2, flights2) ==
    /\ t \in Tasks /\ t \notin leading /\ flights[ProcOf[t]][n] = Nothing
    /\ leading2 = leading \cup {t} /\ waiting2 \subseteq waiting
    /\ of2[t] = n /\ \A x \in leading \cup waiting : of2[x] = of[x]
    /\ flights2 = [flights EXCEPT ![ProcOf[t]][n] = [leader |-> t, live |-> TRUE]]

Joins(t, n, leading, waiting, of, flights, waiting2, of2) ==
    /\ t \notin leading /\ flights[ProcOf[t]][n] # Nothing /\ flights[ProcOf[t]][n].live
    /\ waiting2 \subseteq waiting \cup {t}
    /\ of2[t] = n /\ \A x \in leading \cup waiting : of2[x] = of[x]

Leave(t, leading, waiting, of, leading2, waiting2, of2) ==
    /\ leading2 \subseteq leading
    /\ \A x \in waiting2 : x \in waiting /\ ~(ProcOf[x] = ProcOf[t] /\ of[x] = of[t])
    /\ \A x \in leading2 \cup waiting2 : of2[x] = of[x]

LEMMA FlightsSame ==
    ASSUME NEW leading, NEW waiting, NEW of, NEW flights, NEW names,
           FlightsInStep(leading, waiting, of, flights, names),
           NEW waiting2, waiting2 \subseteq waiting,
           NEW of2, \A t \in leading \cup waiting2 : of2[t] = of[t]
    PROVE  FlightsInStep(leading, waiting2, of2, flights, names)
BY DEF FlightsInStep

LEMMA FlightsLead ==
    ASSUME NEW t, NEW n, NEW leading, NEW waiting, NEW of, NEW flights, NEW names,
           NEW leading2, NEW waiting2, NEW of2, NEW flights2,
           FlightsInStep(leading, waiting, of, flights, names),
           Typed(leading, waiting, of, flights, names), n \in names,
           Leads(t, n, leading, waiting, of, flights, leading2, waiting2, of2, flights2)
    PROVE  FlightsInStep(leading2, waiting2, of2, flights2, names)
<1> DEFINE new == [leader |-> t, live |-> TRUE]
           p == ProcOf[t]
<1>0. /\ t \in Tasks /\ t \notin leading /\ flights[p][n] = Nothing
      /\ flights \in [Procs -> [names -> Flights]]
      /\ leading \subseteq Tasks /\ waiting \subseteq Tasks /\ waiting2 \subseteq waiting
      /\ \A x \in leading \cup waiting : of[x] \in names /\ of2[x] = of[x]
      /\ leading2 = leading \cup {t} /\ of2[t] = n
      /\ flights2 = [flights EXCEPT ![p][n] = new]
    BY DEF Typed, Leads
<1>1. new # Nothing /\ new.leader = t
    <2>1. new \in [leader : Tasks, live : BOOLEAN]
        BY <1>0
    <2> HIDE DEF new
    <2>2. new # Nothing
        BY <2>1, KeyAuthAssumption
    <2> QED
        BY <2>2 DEF new
<1>2. p \in Procs /\ \A x \in Tasks : ProcOf[x] \in Procs
    BY <1>0, KeyAuthAssumption
<1>3. \A q \in Procs, m \in names : flights2[q][m] = IF q = p /\ m = n THEN new ELSE flights[q][m]
    BY <1>0, <1>2
<1> HIDE DEF new
<1>7. \A x \in leading : /\ flights[ProcOf[x]][of[x]] # Nothing
                         /\ flights[ProcOf[x]][of[x]].leader = x
    BY DEF FlightsInStep
<1>8. \A x \in leading : /\ ~(ProcOf[x] = p /\ of[x] = n) /\ of2[x] = of[x]
                         /\ ProcOf[x] \in Procs /\ of[x] \in names
    BY <1>0, <1>2, <1>7
<1>4. \A x \in leading2 : flights2[ProcOf[x]][of2[x]] # Nothing
                          /\ flights2[ProcOf[x]][of2[x]].leader = x
    <2>1. flights2[ProcOf[t]][of2[t]] = new
        BY <1>0, <1>2, <1>3
    <2>2. \A x \in leading : flights2[ProcOf[x]][of2[x]] = flights[ProcOf[x]][of[x]]
        BY <1>3, <1>8
    <2> QED
        BY <1>0, <1>1, <1>7, <2>1, <2>2
<1>5. \A q \in Procs, m \in names : flights2[q][m] # Nothing =>
          /\ flights2[q][m].leader \in leading2
          /\ ProcOf[flights2[q][m].leader] = q /\ of2[flights2[q][m].leader] = m
    BY <1>0, <1>1, <1>2, <1>3 DEF FlightsInStep
<1>6. \A x \in waiting2 : flights2[ProcOf[x]][of2[x]] # Nothing /\ flights2[ProcOf[x]][of2[x]].live
    BY <1>0, <1>1, <1>2, <1>3 DEF FlightsInStep
<1> QED
    BY <1>4, <1>5, <1>6 DEF FlightsInStep

LEMMA FlightsJoin ==
    ASSUME NEW t, NEW n, NEW leading, NEW waiting, NEW of, NEW flights, NEW names,
           NEW waiting2, NEW of2,
           FlightsInStep(leading, waiting, of, flights, names),
           Joins(t, n, leading, waiting, of, flights, waiting2, of2)
    PROVE  FlightsInStep(leading, waiting2, of2, flights, names)
BY DEF FlightsInStep, Joins

LEMMA FlightsSettle ==
    ASSUME NEW t, NEW leading, NEW waiting, NEW of, NEW flights, NEW names,
           NEW leading2, NEW waiting2, NEW of2, NEW flights2,
           FlightsInStep(leading, waiting, of, flights, names),
           Typed(leading, waiting, of, flights, names), t \in leading, t \notin leading2,
           Leave(t, leading, waiting, of, leading2, waiting2, of2),
           leading \ {t} \subseteq leading2,
           flights2 = [flights EXCEPT ![ProcOf[t]][of[t]] = Nothing]
    PROVE  FlightsInStep(leading2, waiting2, of2, flights2, names)
<1> DEFINE p == ProcOf[t]
           n == of[t]
<1>0. /\ flights \in [Procs -> [names -> Flights]]
      /\ leading \subseteq Tasks /\ waiting \subseteq Tasks
      /\ \A x \in leading \cup waiting : of[x] \in names
      /\ leading2 = leading \ {t}
      /\ \A x \in waiting2 : x \in waiting /\ ~(ProcOf[x] = p /\ of[x] = n)
      /\ \A x \in leading2 \cup waiting2 : of2[x] = of[x]
    BY DEF Typed, Leave
<1>1. p \in Procs /\ n \in names /\ \A x \in Tasks : ProcOf[x] \in Procs
    BY <1>0, KeyAuthAssumption
<1>2. flights[p][n] # Nothing /\ flights[p][n].leader = t
    BY DEF FlightsInStep
<1>3. \A q \in Procs, m \in names : flights2[q][m] = IF q = p /\ m = n THEN Nothing ELSE flights[q][m]
    BY <1>0, <1>1
<1>4. \A x \in leading2 : ~(ProcOf[x] = p /\ of[x] = n)
    BY <1>0, <1>2 DEF FlightsInStep
<1>5. \A x \in leading2 \cup waiting2 : ProcOf[x] \in Procs /\ of[x] \in names
    BY <1>0, <1>1
<1>6. \A x \in leading2 \cup waiting2 :
         flights2[ProcOf[x]][of2[x]] = flights[ProcOf[x]][of[x]]
    BY <1>0, <1>3, <1>4, <1>5
<1>7. \A q \in Procs, m \in names : flights2[q][m] # Nothing =>
          /\ flights2[q][m] = flights[q][m] /\ flights[q][m].leader # t
    BY <1>0, <1>1, <1>2, <1>3 DEF FlightsInStep
<1>8. /\ \A x \in leading2 : flights[ProcOf[x]][of[x]] # Nothing
                             /\ flights[ProcOf[x]][of[x]].leader = x
      /\ \A q \in Procs, m \in names : flights[q][m] # Nothing =>
            /\ flights[q][m].leader \in leading
            /\ ProcOf[flights[q][m].leader] = q /\ of[flights[q][m].leader] = m
      /\ \A x \in waiting2 : flights[ProcOf[x]][of[x]] # Nothing /\ flights[ProcOf[x]][of[x]].live
    BY <1>0 DEF FlightsInStep
<1> HIDE DEF p, n
<1> QED
    BY <1>0, <1>6, <1>7, <1>8 DEF FlightsInStep

LEMMA FlightsCancel ==
    ASSUME NEW t, NEW leading, NEW waiting, NEW of, NEW flights, NEW names,
           NEW waiting2, NEW of2, NEW dead \in [leader : Tasks, live : BOOLEAN], NEW flights2,
           FlightsInStep(leading, waiting, of, flights, names),
           Typed(leading, waiting, of, flights, names), t \in waiting,
           Leave(t, leading, waiting, of, leading, waiting2, of2),
           dead.leader = flights[ProcOf[t]][of[t]].leader,
           flights2 = [flights EXCEPT ![ProcOf[t]][of[t]] = dead]
    PROVE  FlightsInStep(leading, waiting2, of2, flights2, names)
<1> DEFINE p == ProcOf[t]
           n == of[t]
           old == flights[p][n]
<1>0. /\ flights \in [Procs -> [names -> Flights]]
      /\ leading \subseteq Tasks /\ waiting \subseteq Tasks
      /\ \A x \in leading \cup waiting : of[x] \in names
      /\ \A x \in waiting2 : x \in waiting /\ ~(ProcOf[x] = p /\ of[x] = n)
      /\ \A x \in leading \cup waiting2 : of2[x] = of[x]
    BY DEF Typed, Leave
<1>1. p \in Procs /\ n \in names /\ \A x \in Tasks : ProcOf[x] \in Procs
    BY <1>0, KeyAuthAssumption
<1>3. dead.leader = old.leader /\ old # Nothing
    BY DEF FlightsInStep
<1>4. dead # Nothing
    BY KeyAuthAssumption
<1>5. flights2 = [flights EXCEPT ![p][n] = dead]
    OBVIOUS
<1> HIDE DEF old
<1>6. \A q \in Procs, m \in names : flights2[q][m] = IF q = p /\ m = n THEN dead ELSE flights[q][m]
    BY <1>0, <1>1, <1>5
<1>7. \A q \in Procs, m \in names :
         /\ flights2[q][m] = Nothing <=> flights[q][m] = Nothing
         /\ flights2[q][m].leader = flights[q][m].leader
         /\ ~(q = p /\ m = n) => flights2[q][m] = flights[q][m]
    BY <1>1, <1>3, <1>4, <1>6 DEF old
<1>8. \A x \in leading \cup waiting : ProcOf[x] \in Procs /\ of[x] \in names
    BY <1>0, <1>1
<1>9. \A x \in leading : flights2[ProcOf[x]][of2[x]] # Nothing
                          /\ flights2[ProcOf[x]][of2[x]].leader = x
    BY <1>0, <1>7, <1>8 DEF FlightsInStep
<1>10. \A q \in Procs, m \in names : flights2[q][m] # Nothing =>
          /\ flights2[q][m].leader \in leading
          /\ ProcOf[flights2[q][m].leader] = q /\ of2[flights2[q][m].leader] = m
    BY <1>0, <1>7, <1>8 DEF FlightsInStep
<1>11. \A x \in waiting2 : flights2[ProcOf[x]][of2[x]] # Nothing /\ flights2[ProcOf[x]][of2[x]].live
    BY <1>0, <1>7, <1>8 DEF FlightsInStep
<1> QED
    BY <1>9, <1>10, <1>11 DEF FlightsInStep

(* Whoever leads or waits is looking something up. *)
LEMMA LookingUp ==
    ASSUME NEW ts \in [Tasks -> GoodTasks]
    PROVE  /\ \A pcs : At(ts, pcs) \subseteq Tasks
           /\ \A x \in At(ts, KeyLeading) \cup At(ts, {"key_waiting"}) : KeyOf(ts)[x] \in Keys
           /\ \A x \in At(ts, UserLeading) \cup At(ts, {"user_waiting"}) : UserOf(ts)[x] \in Users
<1>1. \A x \in Tasks : ts[x].pc \in WithKey => ts[x].key \in Keys
    BY DEF GoodTasks
<1>2. \A x \in At(ts, KeyLeading) \cup At(ts, {"key_waiting"}) \cup At(ts, UserLeading)
                 \cup At(ts, {"user_waiting"}) :
         x \in Tasks /\ ts[x].pc \in WithKey
    BY DEF At, WithKey
<1> QED
    BY <1>1, <1>2, KeyAuthAssumption DEF At, KeyOf, UserOf

LEMMA LookUpFlights ==
    ASSUME TypeOK, NEW ts \in [Tasks -> GoodTasks], NEW t \in Tasks, ts[t].key \in Keys,
           ts[t].pc \notin UserLeading \cup {"user_waiting"},
           UserFlights(ts, userFlight), LookUpUser(t, ts)
    PROVE  UserFlights(task', userFlight')
<1> DEFINE p == ProcOf[t]
           u == Owner[ts[t].key]
           leading == At(ts, UserLeading)
           waiting == At(ts, {"user_waiting"})
<1>1. /\ FlightsInStep(leading, waiting, UserOf(ts), userFlight, Users)
      /\ userFlight \in [Procs -> [Users -> Flights]]
      /\ u \in Users /\ t \notin leading
    BY KeyAuthAssumption DEF UserFlights, TypeOK, At
<1>2. /\ task' \in [Tasks -> GoodTasks]
      /\ \A x \in Tasks \ {t} : task'[x] = ts[x]
      /\ task'[t] = Idle \/ task'[t].key = ts[t].key
      /\ \/ /\ userFlight[p][u] = Nothing /\ task'[t].pc = "user_reading"
            /\ userFlight' = [userFlight EXCEPT ![p][u] = [leader |-> t, live |-> TRUE]]
         \/ /\ userFlight[p][u] # Nothing /\ userFlight[p][u].live
            /\ task'[t].pc = "user_waiting" /\ userFlight' = userFlight
         \/ task'[t].pc \in {"idle", "admitted"} /\ userFlight' = userFlight
    BY LookUpEffect
<1>3. /\ leading \subseteq Tasks /\ waiting \subseteq Tasks
      /\ \A x \in leading \cup waiting : UserOf(ts)[x] \in Users
    BY LookingUp
<1>4. /\ \A x \in leading \cup waiting : x # t /\ UserOf(task')[x] = UserOf(ts)[x]
      /\ Typed(leading, waiting, UserOf(ts), userFlight, Users)
    BY <1>1, <1>2, <1>3 DEF At, UserOf, Typed
<1>5. CASE /\ userFlight[p][u] = Nothing /\ task'[t].pc = "user_reading"
           /\ userFlight' = [userFlight EXCEPT ![p][u] = [leader |-> t, live |-> TRUE]]
    <2>1. UserOf(task')[t] = u
        BY <1>2, <1>5, IdleIsGood DEF UserOf
    <2>2. /\ At(task', UserLeading) = leading \cup {t}
          /\ At(task', {"user_waiting"}) \subseteq waiting
        BY <1>2, <1>5 DEF At, UserLeading
    <2>4. Leads(t, u, leading, waiting, UserOf(ts), userFlight,
                At(task', UserLeading), At(task', {"user_waiting"}), UserOf(task'), userFlight')
        BY <1>1, <1>4, <1>5, <2>1, <2>2 DEF Leads
    <2> HIDE DEF u, leading, waiting
    <2>3. FlightsInStep(At(task', UserLeading), At(task', {"user_waiting"}), UserOf(task'),
                        userFlight', Users)
        BY <1>1, <1>4, <2>4, FlightsLead
    <2> QED
        BY <2>3 DEF UserFlights
<1>6. CASE /\ userFlight[p][u] # Nothing /\ userFlight[p][u].live
           /\ task'[t].pc = "user_waiting" /\ userFlight' = userFlight
    <2>1. UserOf(task')[t] = u
        BY <1>2, <1>6, IdleIsGood DEF UserOf
    <2>2. /\ At(task', UserLeading) = leading
          /\ At(task', {"user_waiting"}) \subseteq waiting \cup {t}
        BY <1>1, <1>2, <1>6 DEF At, UserLeading
    <2>4. Joins(t, u, leading, waiting, UserOf(ts), userFlight,
                At(task', {"user_waiting"}), UserOf(task'))
        BY <1>1, <1>4, <1>6, <2>1, <2>2 DEF Joins
    <2> HIDE DEF u, leading, waiting
    <2>3. FlightsInStep(leading, At(task', {"user_waiting"}), UserOf(task'), userFlight, Users)
        BY <1>1, <2>4, FlightsJoin
    <2> QED
        BY <1>6, <2>2, <2>3 DEF UserFlights
<1>7. CASE task'[t].pc \in {"idle", "admitted"} /\ userFlight' = userFlight
    <2>2. /\ At(task', UserLeading) = leading
          /\ At(task', {"user_waiting"}) \subseteq waiting
        BY <1>1, <1>2, <1>7 DEF At, UserLeading
    <2>4. \A x \in leading \cup At(task', {"user_waiting"}) : UserOf(task')[x] = UserOf(ts)[x]
        BY <1>4, <2>2
    <2> HIDE DEF u, leading, waiting
    <2>3. FlightsInStep(leading, At(task', {"user_waiting"}), UserOf(task'), userFlight, Users)
        BY <1>1, <2>2, <2>4, FlightsSame
    <2> QED
        BY <1>7, <2>2, <2>3 DEF UserFlights
<1> QED
    BY <1>2, <1>5, <1>6, <1>7

(* A side of which nobody leads or waits otherwise than before. *)
LEMMA KeySideSame ==
    ASSUME NEW ts, NEW ts2, NEW flights, KeyFlights(ts, flights),
           \A x \in Tasks : ts2[x].pc \in KeyLeading <=> ts[x].pc \in KeyLeading,
           \A x \in Tasks : ts2[x].pc = "key_waiting" => ts[x].pc = "key_waiting",
           \A x \in Tasks : ts2[x].pc \in KeyLeading \cup {"key_waiting"} => ts2[x].key = ts[x].key
    PROVE  KeyFlights(ts2, flights)
<1>1. /\ At(ts2, KeyLeading) = At(ts, KeyLeading)
      /\ At(ts2, {"key_waiting"}) \subseteq At(ts, {"key_waiting"})
      /\ \A x \in At(ts, KeyLeading) \cup At(ts2, {"key_waiting"}) : KeyOf(ts2)[x] = KeyOf(ts)[x]
    BY DEF At, KeyOf
<1> QED
    BY <1>1, FlightsSame DEF KeyFlights

LEMMA UserSideSame ==
    ASSUME NEW ts, NEW ts2, NEW flights, UserFlights(ts, flights),
           \A x \in Tasks : ts2[x].pc \in UserLeading <=> ts[x].pc \in UserLeading,
           \A x \in Tasks : ts2[x].pc = "user_waiting" => ts[x].pc = "user_waiting",
           \A x \in Tasks : ts2[x].pc \in UserLeading \cup {"user_waiting"} => ts2[x].key = ts[x].key
    PROVE  UserFlights(ts2, flights)
<1>1. /\ At(ts2, UserLeading) = At(ts, UserLeading)
      /\ At(ts2, {"user_waiting"}) \subseteq At(ts, {"user_waiting"})
      /\ \A x \in At(ts, UserLeading) \cup At(ts2, {"user_waiting"}) : UserOf(ts2)[x] = UserOf(ts)[x]
    BY DEF At, UserOf
<1> QED
    BY <1>1, FlightsSame DEF UserFlights

(* A leader and its followers go on, or fail. *)
LEMMA KeySettled ==
    ASSUME TypeInv, NEW ts \in [Tasks -> GoodTasks], NEW t \in Tasks, KeyFlights(task, keyFlight),
           task[t].pc \in KeyLeading, ts[t].pc \notin KeyLeading \cup {"key_waiting"},
           \A x \in Tasks : x # t => (ts[x].pc \in KeyLeading <=> task[x].pc \in KeyLeading),
           \A x \in Tasks : ts[x].pc = "key_waiting" =>
               task[x].pc = "key_waiting" /\ x \notin KeyFollowers(t),
           \A x \in Tasks : ts[x].pc \in KeyLeading \cup {"key_waiting"} => ts[x].key = task[x].key,
           NEW flights2, flights2 = [keyFlight EXCEPT ![ProcOf[t]][task[t].key] = Nothing]
    PROVE  KeyFlights(ts, flights2)
<1> DEFINE leading == At(task, KeyLeading)
           waiting == At(task, {"key_waiting"})
           of == KeyOf(task)
<1>1. /\ FlightsInStep(leading, waiting, of, keyFlight, Keys)
      /\ keyFlight \in [Procs -> [Keys -> Flights]]
      /\ leading \subseteq Tasks /\ waiting \subseteq Tasks
      /\ \A x \in leading \cup waiting : of[x] \in Keys
    BY LookingUp DEF KeyFlights, TypeInv, TypeOK
<1>2. /\ t \in leading /\ t \notin At(ts, KeyLeading) /\ leading \ {t} \subseteq At(ts, KeyLeading)
      /\ Typed(leading, waiting, of, keyFlight, Keys)
    BY <1>1 DEF At, Typed
<1>3. Leave(t, leading, waiting, of, At(ts, KeyLeading), At(ts, {"key_waiting"}), KeyOf(ts))
    BY DEF At, KeyFollowers, KeyOf, Leave
<1>5. flights2 = [keyFlight EXCEPT ![ProcOf[t]][of[t]] = Nothing]
    BY DEF KeyOf
<1> HIDE DEF leading, waiting, of
<1>6. FlightsInStep(At(ts, KeyLeading), At(ts, {"key_waiting"}), KeyOf(ts), flights2, Keys)
    BY <1>1, <1>2, <1>3, <1>5, FlightsSettle
<1> QED
    BY <1>6 DEF KeyFlights

LEMMA UserSettled ==
    ASSUME TypeInv, NEW ts \in [Tasks -> GoodTasks], NEW t \in Tasks, UserFlights(task, userFlight),
           task[t].pc \in UserLeading, ts[t].pc \notin UserLeading \cup {"user_waiting"},
           \A x \in Tasks : x # t => (ts[x].pc \in UserLeading <=> task[x].pc \in UserLeading),
           \A x \in Tasks : ts[x].pc = "user_waiting" =>
               task[x].pc = "user_waiting" /\ x \notin UserFollowers(t),
           \A x \in Tasks : ts[x].pc \in UserLeading \cup {"user_waiting"} => ts[x].key = task[x].key,
           NEW flights2, flights2 = [userFlight EXCEPT ![ProcOf[t]][Owner[task[t].key]] = Nothing]
    PROVE  UserFlights(ts, flights2)
<1> DEFINE leading == At(task, UserLeading)
           waiting == At(task, {"user_waiting"})
           of == UserOf(task)
<1>1. /\ FlightsInStep(leading, waiting, of, userFlight, Users)
      /\ userFlight \in [Procs -> [Users -> Flights]]
      /\ leading \subseteq Tasks /\ waiting \subseteq Tasks
      /\ \A x \in leading \cup waiting : of[x] \in Users
    BY LookingUp DEF UserFlights, TypeInv, TypeOK
<1>2. /\ t \in leading /\ t \notin At(ts, UserLeading) /\ leading \ {t} \subseteq At(ts, UserLeading)
      /\ Typed(leading, waiting, of, userFlight, Users)
    BY <1>1 DEF At, Typed
<1>3. Leave(t, leading, waiting, of, At(ts, UserLeading), At(ts, {"user_waiting"}), UserOf(ts))
    BY DEF At, UserFollowers, UserOf, Leave
<1>5. flights2 = [userFlight EXCEPT ![ProcOf[t]][of[t]] = Nothing]
    BY DEF UserOf
<1> HIDE DEF leading, waiting, of
<1>6. FlightsInStep(At(ts, UserLeading), At(ts, {"user_waiting"}), UserOf(ts), flights2, Users)
    BY <1>1, <1>2, <1>3, <1>5, FlightsSettle
<1> QED
    BY <1>6 DEF UserFlights

(* A follower is cancelled. *)

LEMMA KeyCancelled ==
    ASSUME TypeInv, KeyFlights(task, keyFlight), NEW t \in Tasks, CancelKeyFollower(t)
    PROVE  KeyFlights(task', keyFlight')
<1> DEFINE leading == At(task, KeyLeading)
           waiting == At(task, {"key_waiting"})
           of == KeyOf(task)
           p == ProcOf[t]
           n == of[t]
           dead == [keyFlight[p][n] EXCEPT !.live = FALSE]
<1>1. /\ FlightsInStep(leading, waiting, of, keyFlight, Keys)
      /\ Typed(leading, waiting, of, keyFlight, Keys)
    BY LookingUp DEF KeyFlights, TypeInv, TypeOK, Typed
<1>2. t \in waiting /\ task' = Failed(KeyFollowers(t))
    BY DEF CancelKeyFollower, At
<1>3. \A x \in Tasks : task'[x] = IF x \in KeyFollowers(t) THEN Idle ELSE task[x]
    BY <1>2, FailedEffect
<1>4. /\ At(task', KeyLeading) = leading
      /\ Leave(t, leading, waiting, of, leading, At(task', {"key_waiting"}), KeyOf(task'))
    BY <1>3, IdleIsGood DEF At, KeyOf, Leave, KeyFollowers, KeyLeading
<1>5. p \in Procs /\ n \in Keys /\ keyFlight[p][n] # Nothing
    BY <1>1, <1>2, KeyAuthAssumption DEF FlightsInStep, Typed
<1>6. keyFlight[p][n] \in [leader : Tasks, live : BOOLEAN]
    BY <1>1, <1>5 DEF Typed, Flights, Entries
<1>7. dead \in [leader : Tasks, live : BOOLEAN] /\ dead.leader = keyFlight[p][n].leader
    BY <1>6
<1>8. keyFlight' = [keyFlight EXCEPT ![p][n] = dead]
    BY DEF CancelKeyFollower, KeyOf
<1> HIDE DEF leading, waiting, of, dead
<1>9. FlightsInStep(leading, At(task', {"key_waiting"}), KeyOf(task'), keyFlight', Keys)
    BY <1>1, <1>2, <1>4, <1>7, <1>8, FlightsCancel, ZenonT(60)
<1> QED
    BY <1>4, <1>9 DEF KeyFlights

LEMMA UserCancelled ==
    ASSUME TypeInv, UserFlights(task, userFlight), NEW t \in Tasks, CancelUserFollower(t)
    PROVE  UserFlights(task', userFlight')
<1> DEFINE leading == At(task, UserLeading)
           waiting == At(task, {"user_waiting"})
           of == UserOf(task)
           p == ProcOf[t]
           n == of[t]
           dead == [userFlight[p][n] EXCEPT !.live = FALSE]
<1>1. /\ FlightsInStep(leading, waiting, of, userFlight, Users)
      /\ Typed(leading, waiting, of, userFlight, Users)
    BY LookingUp DEF UserFlights, TypeInv, TypeOK, Typed
<1>2. t \in waiting /\ task' = Failed(UserFollowers(t))
    BY DEF CancelUserFollower, At
<1>3. \A x \in Tasks : task'[x] = IF x \in UserFollowers(t) THEN Idle ELSE task[x]
    BY <1>2, FailedEffect
<1>4. /\ At(task', UserLeading) = leading
      /\ Leave(t, leading, waiting, of, leading, At(task', {"user_waiting"}), UserOf(task'))
    BY <1>3, IdleIsGood DEF At, UserOf, Leave, UserFollowers, UserLeading
<1>5. p \in Procs /\ n \in Users /\ userFlight[p][n] # Nothing
    BY <1>1, <1>2, KeyAuthAssumption DEF FlightsInStep, Typed
<1>6. userFlight[p][n] \in [leader : Tasks, live : BOOLEAN]
    BY <1>1, <1>5 DEF Typed, Flights, Entries
<1>7. dead \in [leader : Tasks, live : BOOLEAN] /\ dead.leader = userFlight[p][n].leader
    BY <1>6
<1>8. userFlight' = [userFlight EXCEPT ![p][n] = dead]
    BY DEF CancelUserFollower, UserOf
<1> HIDE DEF leading, waiting, of, dead
<1>9. FlightsInStep(leading, At(task', {"user_waiting"}), UserOf(task'), userFlight', Users)
    BY <1>1, <1>2, <1>4, <1>7, <1>8, FlightsCancel, ZenonT(60)
<1> QED
    BY <1>4, <1>9 DEF UserFlights

LEMMA FlightsInit == Init => FlightsInv
<1> SUFFICES ASSUME Init PROVE FlightsInv
    OBVIOUS
<1>1. \A t \in Tasks : task[t].pc = "idle"
    BY IdleIsGood DEF Init
<1>2. /\ At(task, KeyLeading) = {} /\ At(task, {"key_waiting"}) = {}
      /\ At(task, UserLeading) = {} /\ At(task, {"user_waiting"}) = {}
    BY <1>1 DEF At, KeyLeading, UserLeading
<1>3. \A p \in Procs : /\ \A k \in Keys : keyFlight[p][k] = Nothing
                       /\ \A u \in Users : userFlight[p][u] = Nothing
    BY DEF Init
<1> QED
    BY <1>2, <1>3 DEF FlightsInv, KeyFlights, UserFlights, FlightsInStep

LEMMA FlightsStep == TypeInv /\ FlightsInv /\ [Next]_vars => FlightsInv'
<1> SUFFICES ASSUME TypeInv, FlightsInv, [Next]_vars PROVE FlightsInv'
    OBVIOUS
<1>0. /\ TypeOK /\ task \in [Tasks -> GoodTasks]
      /\ KeyFlights(task, keyFlight) /\ UserFlights(task, userFlight)
    BY DEF TypeInv, FlightsInv
<1>1. ASSUME KeyFlights(task', keyFlight'), UserFlights(task', userFlight') PROVE FlightsInv'
    BY <1>1 DEF FlightsInv
<1>2. CASE Tick \/ UNCHANGED vars
    BY <1>0, <1>1, <1>2 DEF Tick, vars, keySide, userSide
<1>3. ASSUME NEW t \in Tasks, NEW k \in Keys, ValidateHit(t, k) PROVE FlightsInv'
    <2>1. PICK ts \in [Tasks -> GoodTasks] :
             /\ \A x \in Tasks \ {t} : ts[x] = task[x]
             /\ ts[t].pc = "key_reading" /\ ts[t].key = k
             /\ LookUpUser(t, ts)
        BY <1>3, ValidateHitEffect
    <2>2. task[t].pc \in EndPCs /\ UNCHANGED keySide
        BY <1>3 DEF ValidateHit
    <2>3. UserFlights(ts, userFlight)
        <3>1. task[t].pc \notin UserLeading /\ ts[t].pc \notin UserLeading \cup {"user_waiting"}
            BY <2>1, <2>2 DEF EndPCs, UserLeading
        <3> QED
            BY <1>0, <2>1, <3>1, UserSideSame
    <2>4. UserFlights(task', userFlight')
        BY <1>0, <2>1, <2>3, LookUpFlights DEF UserLeading
    <2>5. /\ \A x \in Tasks \ {t} : task'[x] = ts[x]
          /\ task'[t] = Idle \/ task'[t].pc \in {"admitted", "user_reading", "user_waiting"}
        BY <1>0, <2>1, LookUpEffect
    <2>6. KeyFlights(task', keyFlight)
        <3>1. /\ task[t].pc \notin KeyLeading \cup {"key_waiting"}
              /\ task'[t].pc \notin KeyLeading \cup {"key_waiting"}
            BY <2>2, <2>5, IdleIsGood DEF EndPCs, KeyLeading
        <3> QED
            BY <1>0, <2>1, <2>5, <3>1, KeySideSame
    <2> QED
        BY <1>1, <2>2, <2>4, <2>6 DEF keySide
<1>4. ASSUME NEW t \in Tasks, NEW k \in Keys, ValidateMiss(t, k) PROVE FlightsInv'
    <2> DEFINE p == ProcOf[t]
               leading == At(task, KeyLeading)
               waiting == At(task, {"key_waiting"})
               leading2 == At(task', KeyLeading)
               waiting2 == At(task', {"key_waiting"})
    <2>1. task[t].pc \in EndPCs /\ UNCHANGED userSide
        BY <1>4 DEF ValidateMiss
    <2>2. /\ task' \in [Tasks -> GoodTasks]
          /\ \A x \in Tasks \ {t} : task'[x] = task[x]
          /\ \/ /\ keyFlight[p][k] = Nothing
                /\ keyFlight' = [keyFlight EXCEPT ![p][k] = [leader |-> t, live |-> TRUE]]
                /\ task'[t].pc = "key_reading" /\ task'[t].key = k
             \/ /\ keyFlight[p][k] # Nothing /\ keyFlight[p][k].live /\ keyFlight' = keyFlight
                /\ task'[t].pc = "key_waiting" /\ task'[t].key = k
             \/ task'[t] = Idle /\ keyFlight' = keyFlight
        BY <1>4, ValidateMissEffect
    <2>3. /\ task[t].pc \notin KeyLeading \cup UserLeading \cup {"key_waiting", "user_waiting"}
          /\ task'[t].pc \notin UserLeading \cup {"user_waiting"}
        BY <2>1, <2>2, IdleIsGood DEF EndPCs, KeyLeading, UserLeading
    <2>4. UserFlights(task', userFlight)
        BY <1>0, <2>2, <2>3, UserSideSame
    <2>5. /\ FlightsInStep(leading, waiting, KeyOf(task), keyFlight, Keys)
          /\ Typed(leading, waiting, KeyOf(task), keyFlight, Keys)
          /\ t \notin leading
        BY <1>0, <2>3, LookingUp DEF KeyFlights, Typed, TypeOK, At
    <2>6. /\ \A x \in leading \cup waiting : KeyOf(task')[x] = KeyOf(task)[x]
          /\ KeyOf(task')[t] = task'[t].key
        BY <2>2, <2>3 DEF At, KeyOf
    <2>7. CASE /\ keyFlight[p][k] = Nothing
               /\ keyFlight' = [keyFlight EXCEPT ![p][k] = [leader |-> t, live |-> TRUE]]
               /\ task'[t].pc = "key_reading" /\ task'[t].key = k
        <3>1. Leads(t, k, leading, waiting, KeyOf(task), keyFlight,
                    leading2, waiting2, KeyOf(task'), keyFlight')
            BY <2>2, <2>3, <2>5, <2>6, <2>7 DEF Leads, At, KeyLeading
        <3> HIDE DEF leading, waiting, leading2, waiting2
        <3>2. FlightsInStep(leading2, waiting2, KeyOf(task'), keyFlight', Keys)
            BY <2>5, <3>1, FlightsLead
        <3>3. KeyFlights(task', keyFlight')
            BY <3>2 DEF KeyFlights, leading2, waiting2
        <3> QED
            BY <1>1, <2>1, <2>4, <3>3 DEF userSide
    <2>8. CASE /\ keyFlight[p][k] # Nothing /\ keyFlight[p][k].live /\ keyFlight' = keyFlight
               /\ task'[t].pc = "key_waiting" /\ task'[t].key = k
        <3>1. /\ Joins(t, k, leading, waiting, KeyOf(task), keyFlight, waiting2, KeyOf(task'))
              /\ leading2 = leading
            BY <2>2, <2>3, <2>5, <2>6, <2>8 DEF Joins, At, KeyLeading
        <3> HIDE DEF leading, waiting, leading2, waiting2
        <3>2. FlightsInStep(leading2, waiting2, KeyOf(task'), keyFlight, Keys)
            BY <2>5, <3>1, FlightsJoin
        <3>3. KeyFlights(task', keyFlight')
            BY <2>8, <3>2 DEF KeyFlights, leading2, waiting2
        <3> QED
            BY <1>1, <2>1, <2>4, <3>3 DEF userSide
    <2>9. CASE task'[t] = Idle /\ keyFlight' = keyFlight
        <3>1. task'[t].pc \notin KeyLeading \cup {"key_waiting"}
            BY <2>9, IdleIsGood DEF KeyLeading
        <3>2. KeyFlights(task', keyFlight)
            BY <1>0, <2>2, <2>3, <3>1, KeySideSame
        <3> QED
            BY <1>1, <2>1, <2>4, <2>9, <3>2 DEF userSide
    <2> QED
        BY <2>2, <2>7, <2>8, <2>9
<1>5. ASSUME NEW t \in Tasks, ReadKey(t) \/ ReadUser(t) PROVE FlightsInv'
    <2>1. UNCHANGED <<now, db, keySide, userSide, excused>>
        BY <1>5 DEF ReadKey, ReadUser
    <2>2. /\ \A x \in Tasks \ {t} : task'[x] = task[x]
          /\ task'[t].key = task[t].key
          /\ \/ task[t].pc = "key_reading" /\ task'[t].pc = "key_read"
             \/ task[t].pc = "user_reading" /\ task'[t].pc = "user_read"
        BY <1>5, ReadEffect DEF ReadKey, ReadUser
    <2>3. KeyFlights(task', keyFlight)
        BY <1>0, <2>2, KeySideSame DEF KeyLeading
    <2>4. UserFlights(task', userFlight)
        BY <1>0, <2>2, UserSideSame DEF UserLeading
    <2> QED
        BY <1>1, <2>1, <2>3, <2>4 DEF keySide, userSide
<1>6. ASSUME NEW t \in Tasks, FinishKey(t) PROVE FlightsInv'
    <2> DEFINE followers == KeyFollowers(t)
    <2>1. /\ task[t].pc = "key_read"
          /\ keyFlight' = [keyFlight EXCEPT ![ProcOf[t]][task[t].key] = Nothing]
        BY <1>6 DEF FinishKey
    <2>2. task[t].key \in Keys
        BY <1>0, <2>1 DEF GoodTasks, WithKey, KeyLeading
    <2>3. PICK ts \in [Tasks -> GoodTasks] :
             /\ \A x \in Tasks : x \notin followers => ts[x] = task[x]
             /\ \A x \in Tasks : x \in followers => ts[x].pc = "key_told" /\ ts[x].key = task[x].key
             /\ t \notin followers
             /\ \/ task[t].got = TRUE /\ LookUpUser(t, ts)
                \/ /\ task[t].got = FALSE /\ task'[t] = Idle /\ task' \in [Tasks -> GoodTasks]
                   /\ \A x \in Tasks \ {t} : task'[x] = ts[x]
                   /\ UNCHANGED userSide
        BY <1>6, FinishKeyEffect
    <2>4. \A x \in followers : task[x].pc = "key_waiting"
        BY DEF KeyFollowers
    <2> HIDE DEF followers
    <2>5. UserFlights(ts, userFlight)
        BY <1>0, <2>3, <2>4, UserSideSame DEF UserLeading
    <2>6. /\ task' \in [Tasks -> GoodTasks]
          /\ \A x \in Tasks \ {t} : task'[x] = ts[x]
          /\ task'[t].pc \in {"idle", "admitted", "user_reading", "user_waiting"}
        <3>1. CASE LookUpUser(t, ts)
            BY <1>0, <2>2, <2>3, <3>1, LookUpEffect, IdleIsGood, ZenonT(60)
        <3> QED
            BY <2>3, <3>1, IdleIsGood
    <2>7. UserFlights(task', userFlight')
        <3>1. CASE LookUpUser(t, ts)
            BY <1>0, <2>1, <2>2, <2>3, <2>5, <3>1, LookUpFlights DEF UserLeading
        <3>2. CASE task'[t] = Idle /\ UNCHANGED userSide
            <4>1. ts[t].pc = "key_read" /\ task'[t].pc = "idle"
                BY <2>1, <2>3, <3>2, IdleIsGood
            <4>2. UserFlights(task', userFlight)
                BY <2>5, <2>6, <4>1, UserSideSame DEF UserLeading
            <4> QED
                BY <3>2, <4>2 DEF userSide
        <3> QED
            BY <2>3, <3>1, <3>2
    <2>8. KeyFlights(task', keyFlight')
        <3>1. /\ task[t].pc \in KeyLeading /\ task'[t].pc \notin KeyLeading \cup {"key_waiting"}
              /\ \A x \in Tasks : x # t => (task'[x].pc \in KeyLeading <=> task[x].pc \in KeyLeading)
              /\ \A x \in Tasks : task'[x].pc = "key_waiting" =>
                    task[x].pc = "key_waiting" /\ x \notin followers
              /\ \A x \in Tasks : task'[x].pc \in KeyLeading \cup {"key_waiting"} =>
                    task'[x].key = task[x].key
            BY <2>1, <2>3, <2>4, <2>6 DEF KeyLeading
        <3> QED
            BY <1>0, <2>1, <2>6, <3>1, KeySettled DEF followers
    <2> QED
        BY <1>1, <2>7, <2>8
<1>7. ASSUME NEW t \in Tasks, FollowKey(t) PROVE FlightsInv'
    <2>1. /\ task[t].pc = "key_told" /\ UNCHANGED keySide
          /\ \/ LookUpUser(t, task)
             \/ task' = [task EXCEPT ![t] = Idle] /\ UNCHANGED userSide
        BY <1>7 DEF FollowKey
    <2>2. task[t].key \in Keys
        BY <1>0, <2>1 DEF GoodTasks, WithKey
    <2>3. /\ \A x \in Tasks \ {t} : task'[x] = task[x]
          /\ task'[t].pc \in {"idle", "admitted", "user_reading", "user_waiting"}
        <3>1. CASE LookUpUser(t, task)
            BY <1>0, <2>2, <3>1, LookUpEffect, IdleIsGood
        <3>2. CASE task' = [task EXCEPT ![t] = Idle]
            BY <1>0, <3>2, IdleIsGood
        <3> QED
            BY <2>1, <3>1, <3>2
    <2>4. KeyFlights(task', keyFlight)
        BY <1>0, <2>1, <2>3, KeySideSame DEF KeyLeading
    <2>5. UserFlights(task', userFlight')
        <3>1. CASE LookUpUser(t, task)
            BY <1>0, <2>1, <2>2, <3>1, LookUpFlights DEF UserLeading
        <3>2. CASE task' = [task EXCEPT ![t] = Idle] /\ UNCHANGED userSide
            <4>1. task'[t].pc = "idle"
                BY <1>0, <3>2, IdleIsGood
            <4>2. UserFlights(task', userFlight)
                BY <1>0, <2>1, <2>3, <4>1, UserSideSame DEF UserLeading
            <4> QED
                BY <3>2, <4>2 DEF userSide
        <3> QED
            BY <2>1, <3>1, <3>2
    <2> QED
        BY <1>1, <2>1, <2>4, <2>5 DEF keySide
<1>8. ASSUME NEW t \in Tasks, KeyLookupFails(t) PROVE FlightsInv'
    <2> DEFINE xs == {t} \cup KeyFollowers(t)
    <2>1. /\ task[t].pc \in KeyLeading /\ UNCHANGED userSide /\ task' = Failed(xs)
          /\ keyFlight' = [keyFlight EXCEPT ![ProcOf[t]][task[t].key] = Nothing]
        BY <1>8 DEF KeyLookupFails, KeyLeading
    <2>2. \A x \in xs : task[x].pc \in KeyLeading \cup {"key_waiting"}
        BY <2>1 DEF KeyFollowers
    <2>3. t \in xs /\ KeyFollowers(t) \subseteq xs /\ \A x \in xs : x # t => task[x].pc = "key_waiting"
        BY DEF KeyFollowers
    <2> HIDE DEF xs
    <2>4. /\ task' \in [Tasks -> GoodTasks]
          /\ \A x \in Tasks : x \notin xs => task'[x] = task[x]
          /\ \A x \in Tasks : x \in xs => task'[x].pc = "idle"
        BY <2>1, FailedEffect, IdleIsGood
    <2>5. UserFlights(task', userFlight)
        BY <1>0, <2>2, <2>4, UserSideSame DEF UserLeading, KeyLeading
    <2>6. KeyFlights(task', keyFlight')
        <3>1. /\ task'[t].pc \notin KeyLeading \cup {"key_waiting"}
              /\ \A x \in Tasks : x # t => (task'[x].pc \in KeyLeading <=> task[x].pc \in KeyLeading)
              /\ \A x \in Tasks : task'[x].pc = "key_waiting" =>
                    task[x].pc = "key_waiting" /\ x \notin KeyFollowers(t)
              /\ \A x \in Tasks : task'[x].pc \in KeyLeading \cup {"key_waiting"} =>
                    task'[x].key = task[x].key
            BY <2>3, <2>4 DEF KeyLeading
        <3> QED
            BY <1>0, <2>1, <2>4, <3>1, KeySettled
    <2> QED
        BY <1>1, <2>1, <2>5, <2>6 DEF userSide
<1>9. ASSUME NEW t \in Tasks, CancelKeyFollower(t) PROVE FlightsInv'
    <2>1. UNCHANGED userSide /\ task' = Failed(KeyFollowers(t))
        BY <1>9 DEF CancelKeyFollower
    <2>2. \A x \in Tasks : task'[x] = IF x \in KeyFollowers(t) THEN Idle ELSE task[x]
        BY <2>1, FailedEffect
    <2>3. UserFlights(task', userFlight)
        BY <1>0, <2>2, IdleIsGood, UserSideSame DEF UserLeading, KeyFollowers
    <2> QED
        BY <1>0, <1>1, <1>9, <2>1, <2>3, KeyCancelled DEF userSide
<1>10. ASSUME NEW t \in Tasks, FinishUser(t) \/ UserLookupFails(t) PROVE FlightsInv'
    <2> DEFINE xs == {t} \cup UserFollowers(t)
    <2>1. /\ task[t].pc \in UserLeading /\ UNCHANGED keySide
          /\ userFlight' = [userFlight EXCEPT ![ProcOf[t]][Owner[task[t].key]] = Nothing]
        BY <1>10 DEF UserLookupFails, FinishUser, UserLeading
    <2>2. \A x \in xs : task[x].pc \in UserLeading \cup {"user_waiting"}
        BY <2>1 DEF UserFollowers
    <2>3. t \in xs /\ UserFollowers(t) \subseteq xs /\ \A x \in xs : x # t => task[x].pc = "user_waiting"
        BY DEF UserFollowers
    <2>4. /\ task' \in [Tasks -> GoodTasks]
          /\ \A x \in Tasks : x \notin xs => task'[x] = task[x]
          /\ \A x \in Tasks : x \in xs => task'[x].pc \in {"idle", "admitted"}
        <3>1. CASE FinishUser(t)
            BY <3>1, FinishUserEffect
        <3>2. CASE UserLookupFails(t)
            <4>1. task' = Failed(xs)
                BY <3>2 DEF UserLookupFails
            <4> HIDE DEF xs
            <4> QED
                BY <4>1, FailedEffect, IdleIsGood
        <3> QED
            BY <1>10, <3>1, <3>2
    <2> HIDE DEF xs
    <2>5. KeyFlights(task', keyFlight)
        BY <1>0, <2>2, <2>4, KeySideSame DEF UserLeading, KeyLeading
    <2>6. UserFlights(task', userFlight')
        <3>1. /\ task'[t].pc \notin UserLeading \cup {"user_waiting"}
              /\ \A x \in Tasks : x # t => (task'[x].pc \in UserLeading <=> task[x].pc \in UserLeading)
              /\ \A x \in Tasks : task'[x].pc = "user_waiting" =>
                    task[x].pc = "user_waiting" /\ x \notin UserFollowers(t)
              /\ \A x \in Tasks : task'[x].pc \in UserLeading \cup {"user_waiting"} =>
                    task'[x].key = task[x].key
            BY <2>3, <2>4 DEF UserLeading
        <3> QED
            BY <1>0, <2>1, <2>4, <3>1, UserSettled
    <2> QED
        BY <1>1, <2>1, <2>5, <2>6 DEF keySide
<1>11. ASSUME NEW t \in Tasks, CancelUserFollower(t) PROVE FlightsInv'
    <2>1. UNCHANGED keySide /\ task' = Failed(UserFollowers(t))
        BY <1>11 DEF CancelUserFollower
    <2>2. \A x \in Tasks : task'[x] = IF x \in UserFollowers(t) THEN Idle ELSE task[x]
        BY <2>1, FailedEffect
    <2>3. KeyFlights(task', keyFlight)
        BY <1>0, <2>2, IdleIsGood, KeySideSame DEF KeyLeading, UserFollowers
    <2> QED
        BY <1>0, <1>1, <1>11, <2>1, <2>3, UserCancelled DEF keySide
<1>12. ASSUME NEW t \in Tasks, Administration(t) PROVE FlightsInv'
    <2>1. /\ \A x \in Tasks \ {t} : task'[x] = task[x]
          /\ task[t].pc \in EndPCs \cup {"key_evicting", "user_evicting"}
          /\ task'[t].pc \in {"idle", "key_evicting", "user_evicting"}
        BY <1>12, AdministrationEffect
    <2>2. keyFlight' = keyFlight /\ userFlight' = userFlight
        BY <1>12 DEF Administration, CreateKey, EndKey, EndOthersKey, ChangeRole, EvictKey,
            EvictUser, EvictionLost, keySide, userSide
    <2>3. KeyFlights(task', keyFlight)
        BY <1>0, <2>1, KeySideSame DEF KeyLeading, EndPCs
    <2>4. UserFlights(task', userFlight)
        BY <1>0, <2>1, UserSideSame DEF UserLeading, EndPCs
    <2> QED
        BY <1>1, <2>2, <2>3, <2>4
<1> QED
    BY <1>2, <1>3, <1>4, <1>5, <1>6, <1>7, <1>8, <1>9, <1>10, <1>11, <1>12
    DEF Next, Validation, ShowKey, OwnerLookup

-----------------------------------------------------------------------------
(* How long a key is good for *)

LEMMA DeadSinceNat ==
    ASSUME TypeOK, NEW k \in Keys
    PROVE  DeadSince(k) \in Nat
BY KeyAuthAssumption DEF DeadSince, TypeOK, Never

LEMMA IdleInTime == TypeOK => InTime(Idle)
BY IdleIsGood, KeyAuthAssumption DEF InTime, TypeOK

(* Where the clock and the table stand still, what did not change is fine. *)
LEMMA StillInTime ==
    ASSUME TypeInv, TimelyInv, UNCHANGED <<now, dbKey, deadAt>>,
           \A t \in Tasks : task'[t] = task[t] \/ InTime(task'[t]),
           \A p \in Procs, k \in Keys :
               keyCache'[p][k] \in {keyCache[p][k], Nothing} \/ RunsOut(keyCache'[p][k], k)
    PROVE  TimelyInv'
<1>1. \A k \in Keys : DeadSince(k)' = DeadSince(k)
    BY DEF DeadSince
<1>2. \A r : InTime(r) => r.start <= now
    BY DEF InTime
<1>3. ASSUME NEW t \in Tasks PROVE InTime(task[t])'
    <2>1. InTime(task'[t])
        BY DEF TimelyInv
    <2> QED
        BY <2>1 DEF InTime, DeadSince
<1>4. ASSUME NEW p \in Procs, NEW k \in Keys PROVE RunsOut(keyCache[p][k], k)'
    <2>1. RunsOut(keyCache'[p][k], k)
        BY DEF TimelyInv, RunsOut
    <2> QED
        BY <2>1 DEF RunsOut, DeadSince
<1> QED
    BY <1>3, <1>4 DEF TimelyInv

(* A request that goes on to the owner with what it has.                   *)
LEMMA LookUpInTime ==
    ASSUME TypeOK, NEW ts \in [Tasks -> GoodTasks], NEW t \in Tasks, ts[t].key \in Keys,
           LookUpUser(t, ts), ts[t].start <= now,
           ts[t].how = "followed" \/ ts[t].start < DeadSince(ts[t].key) + KeyTTL
    PROVE  InTime(task'[t])
<1>1. \/ task'[t] = Idle
      \/ /\ task'[t].pc \in {"admitted", "user_reading", "user_waiting"}
         /\ task'[t].key = ts[t].key
         /\ task'[t].start = ts[t].start /\ task'[t].how = ts[t].how
    BY LookUpEffect
<1> QED
    BY <1>1, IdleInTime DEF InTime

LEMMA TimelyInit == Init => TimelyInv
<1> SUFFICES ASSUME Init PROVE TimelyInv
    OBVIOUS
<1>1. \A k \in Keys : deadAt[k] = Never
    BY DEF Init
<1>2. \A p \in Procs, k \in Keys : keyCache[p][k] = Nothing
    BY DEF Init
<1>3. \A t \in Tasks : task[t] = Idle
    BY DEF Init
<1>4. TypeOK
    BY TypeInit DEF TypeInv
<1> QED
    BY <1>1, <1>2, <1>3, <1>4, IdleInTime DEF TimelyInv, RunsOut

LEMMA TimelyStep == TypeInv /\ TimelyInv /\ [Next]_vars => TimelyInv'
<1> SUFFICES ASSUME TypeInv, TimelyInv, [Next]_vars PROVE TimelyInv'
    OBVIOUS
<1>0. TypeOK /\ task \in [Tasks -> GoodTasks]
    BY DEF TypeInv
<1>1. /\ now \in Nat /\ KeyTTL \in Nat \ {0} /\ \A x \in Tasks : task[x].start \in Nat
      /\ \A k \in Keys : DeadSince(k) \in Nat
    <2>1. now \in Nat /\ KeyTTL \in Nat \ {0}
        BY <1>0, KeyAuthAssumption DEF TypeOK
    <2>2. \A x \in Tasks : task[x].start \in Nat
        BY <1>0, KeyAuthAssumption DEF GoodTasks, TaskRecords
    <2>3. \A k \in Keys : DeadSince(k) \in Nat
        BY <1>0, DeadSinceNat
    <2> QED
        BY <2>1, <2>2, <2>3
<1>13. \A x \in Tasks : InTime(task[x])
    BY DEF TimelyInv
<1>14. \A p \in Procs, k \in Keys : RunsOut(keyCache[p][k], k)
    BY DEF TimelyInv
<1>15. \A p \in Procs, k \in Keys : keyCache[p][k] # Nothing => keyCache[p][k].until \in Nat
    BY <1>0, KeyAuthAssumption DEF TypeOK, Entries
<1>2. CASE Tick
    <2>1. now' = now + 1 /\ UNCHANGED <<dbKey, deadAt, keyCache, task>>
        BY <1>2 DEF Tick, db, keySide
    <2>2. \A k \in Keys : DeadSince(k)' = DeadSince(k)
        BY <2>1 DEF DeadSince
    <2>3. ASSUME NEW x \in Tasks PROVE InTime(task[x])'
        <3>1. task[x].start <= now + 1
            BY <1>1, <1>13 DEF InTime
        <3> QED
            BY <1>13, <2>1, <2>2, <3>1 DEF InTime, DeadSince
    <2>4. ASSUME NEW p \in Procs, NEW k \in Keys PROVE RunsOut(keyCache[p][k], k)'
        BY <1>1, <1>14, <1>15, <2>1, <2>2 DEF RunsOut
    <2> QED
        BY <2>1, <2>3, <2>4 DEF TimelyInv
<1>3. ASSUME NEW t \in Tasks, NEW k \in Keys, ValidateHit(t, k) PROVE TimelyInv'
    <2>1. PICK ts \in [Tasks -> GoodTasks] :
             /\ \A x \in Tasks \ {t} : ts[x] = task[x]
             /\ ts[t].pc = "key_reading" /\ ts[t].key = k /\ ts[t].start = now
             /\ LookUpUser(t, ts)
        BY <1>3, ValidateHitEffect
    <2>2. ProcOf[t] \in Procs /\ Fresh(keyCache[ProcOf[t]][k]) /\ UNCHANGED <<now, dbKey, deadAt, keyCache>>
        BY <1>3, KeyAuthAssumption DEF ValidateHit, db, keySide
    <2>3. now < DeadSince(k) + KeyTTL
        BY <1>1, <1>14, <1>15, <2>2 DEF Fresh, RunsOut
    <2>4. InTime(task'[t])
        BY <1>0, <1>1, <2>1, <2>3, LookUpInTime
    <2>6. \A x \in Tasks \ {t} : task'[x] = ts[x]
        BY <1>0, <2>1, LookUpEffect
    <2>5. \A x \in Tasks \ {t} : task'[x] = task[x]
        BY <2>1, <2>6
    <2> QED
        BY <2>2, <2>4, <2>5, StillInTime
<1>4. ASSUME NEW t \in Tasks, NEW k \in Keys, ValidateMiss(t, k) PROVE TimelyInv'
    <2>1. /\ \A x \in Tasks \ {t} : task'[x] = task[x]
          /\ \/ task'[t].pc = "key_reading" /\ task'[t].start = now
             \/ task'[t].pc = "key_waiting" /\ task'[t].start = now /\ task'[t].how = "followed"
             \/ task'[t] = Idle
        BY <1>4, ValidateMissEffect
    <2>2. InTime(task'[t])
        BY <1>0, <1>1, <2>1, IdleInTime DEF InTime
    <2>3. keyCache' = [keyCache EXCEPT ![ProcOf[t]][k] = Nothing] /\ UNCHANGED <<now, dbKey, deadAt>>
        BY <1>4 DEF ValidateMiss, db
    <2>4. \A q \in Procs, j \in Keys : keyCache'[q][j] \in {keyCache[q][j], Nothing}
        BY <1>0, <2>3 DEF TypeOK
    <2> QED
        BY <2>1, <2>2, <2>3, <2>4, StillInTime
<1>5. ASSUME NEW t \in Tasks, ReadKey(t) \/ ReadUser(t) PROVE TimelyInv'
    <2>1. UNCHANGED <<now, dbKey, deadAt, keyCache>>
        BY <1>5 DEF ReadKey, ReadUser, db, keySide
    <2>2. /\ \A x \in Tasks \ {t} : task'[x] = task[x]
          /\ task'[t].key = task[t].key /\ task'[t].start = task[t].start /\ task'[t].how = task[t].how
          /\ ReadKey(t) => task'[t].pc = "key_read" /\ task'[t].got = Valid(task[t].key, task[t].start)
          /\ ReadUser(t) => task'[t].pc = "user_read"
        BY <1>5, ReadEffect
    <2>3. CASE ReadKey(t)
        <3>1. task[t].key \in Keys
            BY <1>0, <2>3 DEF ReadKey, GoodTasks, WithKey, KeyLeading
        <3>4. task[t].start \in 0..MaxTime /\ deadAt[task[t].key] \in 0..Never
            BY <1>0, <3>1 DEF GoodTasks, TaskRecords, TypeOK
        <3>5. dbKey[task[t].key] = "active" => deadAt[task[t].key] = Never
            BY <1>0, <3>1 DEF TimelyInv
        <3>6. MaxTime \in Nat /\ ExpiresAt[task[t].key] \in Nat
            BY <3>1, KeyAuthAssumption
        <3>2. Valid(task[t].key, task[t].start) => task[t].start <= DeadSince(task[t].key)
            BY <3>4, <3>5, <3>6 DEF Valid, DeadSince, Never
        <3>3. InTime(task'[t])
            BY <1>1, <1>13, <2>2, <2>3, <3>1, <3>2 DEF InTime
        <3> QED
            BY <2>1, <2>2, <3>3, StillInTime
    <2>4. CASE ReadUser(t)
        <3>1. task[t].pc = "user_reading"
            BY <2>4 DEF ReadUser
        <3>2. InTime(task'[t])
            BY <1>13, <2>2, <2>4, <3>1 DEF InTime
        <3> QED
            BY <2>1, <2>2, <3>2, StillInTime
    <2> QED
        BY <1>5, <2>3, <2>4
<1>6. ASSUME NEW t \in Tasks, FinishKey(t) PROVE TimelyInv'
    <2> DEFINE followers == KeyFollowers(t)
               p == ProcOf[t]
               k == task[t].key
               start == task[t].start
    <2>1. task[t].pc = "key_read" /\ UNCHANGED <<now, dbKey, deadAt>> /\ keyCache' = CachedFromStart(t)
        BY <1>6 DEF FinishKey, db
    <2>2. k \in Keys /\ p \in Procs
        BY <1>0, <2>1, KeyAuthAssumption DEF GoodTasks, WithKey, KeyLeading
    <2>3. PICK ts \in [Tasks -> GoodTasks] :
             /\ \A x \in Tasks : x \notin followers => ts[x] = task[x]
             /\ \A x \in Tasks : x \in followers =>
                   /\ ts[x].pc = "key_told" /\ ts[x].key = task[x].key
                   /\ ts[x].start = task[x].start /\ ts[x].how = task[x].how
             /\ t \notin followers
             /\ \/ task[t].got = TRUE /\ LookUpUser(t, ts)
                \/ /\ task[t].got = FALSE /\ task'[t] = Idle /\ task' \in [Tasks -> GoodTasks]
                   /\ \A x \in Tasks \ {t} : task'[x] = ts[x]
                   /\ UNCHANGED userSide
        BY <1>6, FinishKeyEffect
    <2>4. \A x \in followers : task[x].pc = "key_waiting"
        BY DEF KeyFollowers
    <2> HIDE DEF followers
    <2>5. task[t].got = TRUE => start <= DeadSince(k) /\ start <= now
        BY <1>13, <2>1 DEF InTime
    <2>6. \A x \in Tasks \ {t} : task'[x] = ts[x]
        BY <1>0, <2>2, <2>3, LookUpEffect
    <2>7. InTime(task'[t])
        <3>1. CASE task[t].got = TRUE /\ LookUpUser(t, ts)
            <4>1. ts[t].start <= now /\ ts[t].start < DeadSince(ts[t].key) + KeyTTL /\ ts[t].key \in Keys
                BY <1>1, <2>2, <2>3, <2>5, <3>1
            <4> QED
                BY <1>0, <3>1, <4>1, LookUpInTime
        <3>2. CASE task'[t] = Idle
            BY <1>0, <3>2, IdleInTime
        <3> QED
            BY <2>3, <3>1, <3>2
    <2>8. \A x \in Tasks \ {t} : task'[x] = task[x] \/ InTime(task'[x])
        BY <1>13, <2>3, <2>4, <2>6 DEF InTime
    <2>9. ASSUME NEW q \in Procs, NEW j \in Keys
          PROVE  keyCache'[q][j] = keyCache[q][j] \/ RunsOut(keyCache'[q][j], j)
        <3>1. CASE task[t].got # TRUE
            BY <2>1, <3>1, <1>0 DEF CachedFromStart, GoodTasks
        <3>2. CASE task[t].got = TRUE
            <4>1. keyCache' = [keyCache EXCEPT ![p][k] = [until |-> start + KeyTTL]]
                BY <2>1, <3>2 DEF CachedFromStart
            <4>2. keyCache'[q][j] = IF q = p /\ j = k THEN [until |-> start + KeyTTL] ELSE keyCache[q][j]
                BY <1>0, <2>2, <4>1 DEF TypeOK
            <4>3. RunsOut([until |-> start + KeyTTL], k)
                BY <1>1, <2>2, <2>5, <3>2 DEF RunsOut
            <4> QED
                BY <4>2, <4>3
        <3> QED
            BY <3>1, <3>2
    <2> QED
        BY <2>1, <2>7, <2>8, <2>9, StillInTime
<1>7. ASSUME NEW t \in Tasks, FollowKey(t) PROVE TimelyInv'
    <2>1. /\ task[t].pc = "key_told" /\ UNCHANGED <<now, dbKey, deadAt, keyCache>>
          /\ \/ LookUpUser(t, task)
             \/ task' = [task EXCEPT ![t] = Idle]
        BY <1>7 DEF FollowKey, db, keySide
    <2>2. task[t].key \in Keys /\ task[t].start <= now /\ task[t].how = "followed"
        BY <1>0, <1>13, <2>1 DEF GoodTasks, WithKey, InTime
    <2>3. CASE LookUpUser(t, task)
        <3>1. InTime(task'[t])
            BY <1>0, <2>2, <2>3, LookUpInTime
        <3>2. \A x \in Tasks \ {t} : task'[x] = task[x]
            BY <1>0, <2>2, <2>3, LookUpEffect
        <3> QED
            BY <2>1, <3>1, <3>2, StillInTime
    <2>4. CASE task' = [task EXCEPT ![t] = Idle]
        <3>1. \A x \in Tasks : task'[x] \in {task[x], Idle}
            BY <1>0, <2>4
        <3> QED
            BY <1>0, <2>1, <3>1, IdleInTime, StillInTime
    <2> QED
        BY <2>1, <2>3, <2>4
<1>8. ASSUME NEW t \in Tasks, \/ KeyLookupFails(t) \/ CancelKeyFollower(t)
                              \/ UserLookupFails(t) \/ CancelUserFollower(t)
      PROVE  TimelyInv'
    <2>1. UNCHANGED <<now, dbKey, deadAt, keyCache>> /\ \E xs : task' = Failed(xs)
        BY <1>8 DEF KeyLookupFails, CancelKeyFollower, UserLookupFails, CancelUserFollower, db, keySide
    <2>2. \A x \in Tasks : task'[x] \in {task[x], Idle}
        BY <2>1 DEF Failed
    <2> QED
        BY <1>0, <2>1, <2>2, IdleInTime, StillInTime
<1>9. ASSUME NEW t \in Tasks, FinishUser(t) PROVE TimelyInv'
    <2> DEFINE xs == {t} \cup UserFollowers(t)
    <2>1. UNCHANGED <<now, dbKey, deadAt, keyCache>> /\ task[t].pc = "user_read"
        BY <1>9 DEF FinishUser, db, keySide
    <2>2. \A x \in xs : task[x].pc \in {"user_read", "user_waiting"}
        BY <2>1 DEF UserFollowers
    <2>3. /\ \A x \in Tasks : x \notin xs => task'[x] = task[x]
          /\ \A x \in Tasks : x \in xs =>
                /\ task'[x].pc = "admitted" /\ task'[x].key = task[x].key
                /\ task'[x].start = task[x].start /\ task'[x].how = task[x].how
        BY <1>9, FinishUserEffect
    <2> HIDE DEF xs
    <2>4. \A x \in Tasks : task'[x] = task[x] \/ InTime(task'[x])
        BY <1>13, <2>2, <2>3 DEF InTime
    <2> QED
        BY <2>1, <2>4, StillInTime
<1>10. ASSUME NEW t \in Tasks, Administration(t) PROVE TimelyInv'
    <2>1. /\ \A x \in Tasks \ {t} : task'[x] = task[x]
          /\ task'[t].start = 0 /\ task'[t].pc \in {"idle", "key_evicting", "user_evicting"}
        BY <1>10, AdministrationEffect
    <2>2. InTime(task'[t])
        BY <1>1, <2>1 DEF InTime
    <2>3. ASSUME NEW k \in Keys, EndKey(t, k) PROVE TimelyInv'
        <3>1. /\ dbKey' = [dbKey EXCEPT ![k] = "dead"] /\ UNCHANGED <<now, keyCache>>
              /\ deadAt' = [deadAt EXCEPT ![k] = IF @ = Never THEN now ELSE @]
            BY <2>3 DEF EndKey, Ended, keySide
        <3>2. ASSUME NEW j \in Keys
              PROVE  \/ DeadSince(j)' = DeadSince(j)
                     \/ DeadSince(j)' = now
            <4>1. deadAt'[j] = deadAt[j] \/ (deadAt[j] = Never /\ deadAt'[j] = now)
                BY <1>0, <3>1 DEF TypeOK
            <4>2. now < Never /\ now \in Nat /\ Never \in Nat /\ ExpiresAt[j] \in Nat
                BY <1>0, KeyAuthAssumption DEF TypeOK, Never
            <4> QED
                BY <4>1, <4>2 DEF DeadSince
        <3>3. \A j \in Keys : dbKey'[j] # "dead" => deadAt'[j] = Never
            BY <1>0, <3>1 DEF TypeOK, TimelyInv
        <3>4. ASSUME NEW q \in Procs, NEW j \in Keys PROVE RunsOut(keyCache[q][j], j)'
            BY <1>14, <3>1, <3>2 DEF RunsOut
        <3>5. ASSUME NEW x \in Tasks PROVE InTime(task[x])'
            <4>1. /\ task'[x].start <= now
                  /\ task'[x].pc \in {"key_waiting", "key_told"} => task'[x].how = "followed"
                BY <1>13, <2>1, <2>2, <3>1 DEF InTime
            <4>2. CASE task'[x] = task[x]
                <5>1. task[x].pc \in WithKey => task[x].key \in Keys
                    BY <1>0 DEF GoodTasks
                <5>2. /\ "key_read" \in WithKey
                      /\ {"admitted", "user_reading", "user_read", "user_waiting"} \subseteq WithKey
                    BY DEF WithKey, KeyLeading, UserLeading
                <5>3. task[x].start < now + KeyTTL
                    BY <1>1, <4>1, <4>2
                <5> QED
                    BY <1>13, <3>1, <3>2, <4>1, <4>2, <5>1, <5>2, <5>3 DEF InTime
            <4>3. CASE x = t
                BY <1>1, <2>1, <3>1, <4>3 DEF InTime
            <4> QED
                BY <2>1, <4>2, <4>3
        <3> QED
            BY <3>3, <3>4, <3>5 DEF TimelyInv
    <2>4. ASSUME NEW k \in Keys, CreateKey(t, k) PROVE TimelyInv'
        <3>1. dbKey' = [dbKey EXCEPT ![k] = "active"] /\ dbKey[k] = "none" /\ UNCHANGED <<now, deadAt, keyCache>>
            BY <2>4 DEF CreateKey, Created, keySide
        <3>2. \A j \in Keys : dbKey'[j] # "dead" => deadAt'[j] = Never
            BY <1>0, <3>1 DEF TypeOK, TimelyInv
        <3>3. \A j \in Keys : DeadSince(j)' = DeadSince(j)
            BY <3>1 DEF DeadSince
        <3>4. ASSUME NEW q \in Procs, NEW j \in Keys PROVE RunsOut(keyCache[q][j], j)'
            BY <1>14, <3>1, <3>3 DEF RunsOut
        <3>5. ASSUME NEW x \in Tasks PROVE InTime(task[x])'
            BY <1>13, <2>1, <2>2, <3>1 DEF InTime, DeadSince
        <3> QED
            BY <3>2, <3>4, <3>5 DEF TimelyInv
    <2>5. ASSUME \/ \E k \in Keys : EndOthersKey(t, k)
                 \/ \E u \in Users, r \in Roles : ChangeRole(t, u, r)
                 \/ EvictKey(t) \/ EvictUser(t) \/ EvictionLost(t)
          PROVE  TimelyInv'
        <3>1. UNCHANGED <<now, dbKey, deadAt>>
            BY <2>5 DEF EndOthersKey, ChangeRole, EvictKey, EvictUser, EvictionLost, db
        <3>2. keyCache' = keyCache \/ \E q, j : keyCache' = [keyCache EXCEPT ![q][j] = Nothing]
            BY <2>5 DEF EndOthersKey, ChangeRole, EvictKey, EvictUser, EvictionLost, keySide
        <3>4. ASSUME NEW p, NEW k, keyCache' = [keyCache EXCEPT ![p][k] = Nothing]
              PROVE  \A q \in Procs, j \in Keys : keyCache'[q][j] \in {keyCache[q][j], Nothing}
            BY <1>0, <3>4 DEF TypeOK
        <3>3. \A q \in Procs, j \in Keys : keyCache'[q][j] \in {keyCache[q][j], Nothing}
            BY <3>2, <3>4
        <3> QED
            BY <2>1, <2>2, <3>1, <3>3, StillInTime
    <2> QED
        BY <1>10, <2>3, <2>4, <2>5 DEF Administration
<1>11. CASE UNCHANGED vars
    BY <1>11, StillInTime DEF vars, db, keySide
<1> QED
    BY <1>2, <1>3, <1>4, <1>5, <1>6, <1>7, <1>8, <1>9, <1>10, <1>11
    DEF Next, Validation, ShowKey, OwnerLookup

-----------------------------------------------------------------------------
(* What evictions leave behind *)

(* Excuses are kept as long as no eviction ends. *)
LEMMA ExcusesStay ==
    ASSUME excused \subseteq excused',
           \A x \in Tasks : task[x].pc \in {"key_evicting", "user_evicting"} => task'[x] = task[x]
    PROVE  /\ \A p, k : KeyExcused(p, k) => KeyExcused(p, k)'
           /\ \A p, u : UserExcused(p, u) => UserExcused(p, u)'
BY DEF KeyExcused, UserExcused

(* A step that keeps the excuses that are needed, and makes no entry and   *)
(* no read that is neither true nor excused.                               *)
LEMMA StillEvicted ==
    ASSUME TypeInv, task' \in [Tasks -> GoodTasks], EvictInv,
           \A p \in Procs, k \in Keys : KeyExcused(p, k) => KeyExcused(p, k)' \/ KeyGone(p, k)',
           \A p \in Procs, u \in Users : UserExcused(p, u) => UserExcused(p, u)' \/ UserGone(p, u)',
           \A p \in Procs, k \in Keys :
               dbKey'[k] = dbKey[k] \/ dbKey'[k] = "active" \/ KeyExcused(p, k)',
           \A p \in Procs, u \in Users : dbRole'[u] = dbRole[u] \/ UserExcused(p, u)',
           \A p \in Procs, k \in Keys :
               \/ keyCache'[p][k] \in {keyCache[p][k], Nothing}
               \/ dbKey'[k] = "active" \/ KeyExcused(p, k)',
           \A p \in Procs, u \in Users :
               \/ userCache'[p][u] \in {userCache[p][u], Nothing}
               \/ userCache'[p][u].role = dbRole'[u] \/ UserExcused(p, u)',
           \A x \in Tasks : task'[x].pc = "key_read" /\ task'[x].got = TRUE =>
               task'[x] = task[x] \/ dbKey'[task'[x].key] = "active",
           \A x \in Tasks : task'[x].pc = "user_read" =>
               task'[x] = task[x] \/ task'[x].got = dbRole'[Owner[task'[x].key]]
    PROVE  EvictInv'
<1>1. ASSUME NEW p \in Procs, NEW k \in Keys, keyCache'[p][k] # Nothing, dbKey'[k] # "active"
      PROVE  KeyExcused(p, k)'
    BY <1>1 DEF EvictInv, EvictionHolds, KeyExcused, KeyGone
<1>2. ASSUME NEW p \in Procs, NEW u \in Users, userCache'[p][u] # Nothing,
             userCache'[p][u].role # dbRole'[u]
      PROVE  UserExcused(p, u)'
    BY <1>2 DEF EvictInv, EvictionHolds, UserExcused, UserGone
<1>3. \A x \in Tasks : task'[x].pc \in WithKey =>
         ProcOf[x] \in Procs /\ task'[x].key \in Keys /\ Owner[task'[x].key] \in Users
    BY KeyAuthAssumption DEF GoodTasks
<1>4. ASSUME NEW x \in Tasks, NEW p, NEW k, p = ProcOf[x], k = task'[x].key,
             task'[x].pc = "key_read", task'[x].got = TRUE, dbKey'[k] # "active"
      PROVE  KeyExcused(p, k)'
    <2>1. p \in Procs /\ k \in Keys /\ task'[x] = task[x]
        BY <1>3, <1>4 DEF WithKey, KeyLeading
    <2>2. dbKey'[k] = dbKey[k] => KeyExcused(p, k)
        BY <1>4, <2>1 DEF EvictInv, FillsAreExcused
    <2>3. ~KeyGone(p, k)'
        BY <1>4 DEF KeyGone, LateKeyFill
    <2> QED
        BY <1>4, <2>1, <2>2, <2>3
<1>5. ASSUME NEW x \in Tasks, NEW p, NEW u, p = ProcOf[x], u = Owner[task'[x].key],
             task'[x].pc = "user_read", task'[x].got # dbRole'[u]
      PROVE  UserExcused(p, u)'
    <2>1. p \in Procs /\ u \in Users /\ task'[x] = task[x]
        BY <1>3, <1>5 DEF WithKey, UserLeading
    <2>2. dbRole'[u] = dbRole[u] => UserExcused(p, u)
        BY <1>5, <2>1 DEF EvictInv, FillsAreExcused
    <2>3. ~UserGone(p, u)'
        BY <1>5 DEF UserGone, LateUserFill
    <2> QED
        BY <1>5, <2>1, <2>2, <2>3
<1>6. EvictionHolds'
    BY <1>1, <1>2 DEF EvictionHolds, KeyExcused, UserExcused
<1>7. FillsAreExcused'
    <2>1. ASSUME NEW x \in Tasks, task'[x].pc = "key_read", task'[x].got = TRUE,
                 dbKey'[task'[x].key] # "active"
          PROVE  KeyExcused(ProcOf[x], task[x].key)'
        <3>1. PICK p, k : p = ProcOf[x] /\ k = task'[x].key
            OBVIOUS
        <3>2. KeyExcused(p, k)'
            BY <1>4, <2>1, <3>1
        <3> QED
            BY <3>1, <3>2 DEF KeyExcused
    <2>2. ASSUME NEW x \in Tasks, task'[x].pc = "user_read",
                 task'[x].got # dbRole'[Owner[task'[x].key]]
          PROVE  UserExcused(ProcOf[x], Owner[task[x].key])'
        <3>1. PICK p, u : p = ProcOf[x] /\ u = Owner[task'[x].key]
            OBVIOUS
        <3>2. UserExcused(p, u)'
            BY <1>5, <2>2, <3>1
        <3> QED
            BY <3>1, <3>2 DEF UserExcused
    <2> QED
        BY <2>1, <2>2 DEF FillsAreExcused
<1> QED
    BY <1>6, <1>7 DEF EvictInv

(* The same, for a step that ends no eviction and writes nothing. *)
LEMMA StillQuiet ==
    ASSUME TypeInv, TypeInv', EvictInv, UNCHANGED <<db, excused>>,
           \A x \in Tasks : task[x].pc \in {"key_evicting", "user_evicting"} => task'[x] = task[x],
           \A p \in Procs, k \in Keys :
               \/ keyCache'[p][k] \in {keyCache[p][k], Nothing}
               \/ dbKey[k] = "active" \/ KeyExcused(p, k),
           \A p \in Procs, u \in Users :
               \/ userCache'[p][u] \in {userCache[p][u], Nothing}
               \/ userCache'[p][u].role = dbRole[u] \/ UserExcused(p, u),
           \A x \in Tasks : task'[x].pc = "key_read" /\ task'[x].got = TRUE =>
               task'[x] = task[x] \/ dbKey[task'[x].key] = "active",
           \A x \in Tasks : task'[x].pc = "user_read" =>
               task'[x] = task[x] \/ task'[x].got = dbRole[Owner[task'[x].key]]
    PROVE  EvictInv'
<1>1. dbKey' = dbKey /\ dbRole' = dbRole /\ excused \subseteq excused'
    BY DEF db
<1>2. task' \in [Tasks -> GoodTasks]
    BY DEF TypeInv
<1>3. /\ \A p \in Procs, k \in Keys : KeyExcused(p, k) => KeyExcused(p, k)'
      /\ \A p \in Procs, u \in Users : UserExcused(p, u) => UserExcused(p, u)'
    BY <1>1, ExcusesStay
<1>4. \A p \in Procs, k \in Keys :
          \/ keyCache'[p][k] \in {keyCache[p][k], Nothing}
          \/ dbKey'[k] = "active" \/ KeyExcused(p, k)'
    BY <1>1, <1>3
<1>5. \A p \in Procs, u \in Users :
          \/ userCache'[p][u] \in {userCache[p][u], Nothing}
          \/ userCache'[p][u].role = dbRole'[u] \/ UserExcused(p, u)'
    BY <1>1, <1>3
<1> QED
    BY <1>1, <1>2, <1>3, <1>4, <1>5, StillEvicted

(* The owner's lookup only ever drops an entry. *)
LEMMA LookUpDrops ==
    ASSUME TypeOK, NEW ts \in [Tasks -> GoodTasks], NEW t \in Tasks, ts[t].key \in Keys,
           LookUpUser(t, ts)
    PROVE  \A q \in Procs, u \in Users : userCache'[q][u] \in {userCache[q][u], Nothing}
<1> DEFINE p == ProcOf[t]
           n == Owner[ts[t].key]
<1>1. /\ task' \in [Tasks -> GoodTasks]
      /\ userCache' = userCache \/ userCache' = [userCache EXCEPT ![p][n] = Nothing]
    BY LookUpEffect
<1> HIDE DEF p, n
<1>2. CASE userCache' = [userCache EXCEPT ![p][n] = Nothing]
    BY <1>2 DEF TypeOK
<1> QED
    BY <1>1, <1>2

LEMMA EvictInit == Init => EvictInv
<1> SUFFICES ASSUME Init PROVE EvictInv
    OBVIOUS
<1>1. /\ \A p \in Procs, k \in Keys : keyCache[p][k] = Nothing
      /\ \A p \in Procs, u \in Users : userCache[p][u] = Nothing
    BY DEF Init
<1>2. \A t \in Tasks : task[t].pc = "idle"
    BY IdleIsGood DEF Init
<1> QED
    BY <1>1, <1>2 DEF EvictInv, EvictionHolds, FillsAreExcused

LEMMA EvictStep == TypeInv /\ TypeInv' /\ EvictInv /\ [Next]_vars => EvictInv'
<1> SUFFICES ASSUME TypeInv, TypeInv', EvictInv, [Next]_vars PROVE EvictInv'
    OBVIOUS
<1> DEFINE evicting == {"key_evicting", "user_evicting"}
<1>0. /\ TypeOK /\ task \in [Tasks -> GoodTasks] /\ task' \in [Tasks -> GoodTasks]
      /\ \A x \in Tasks : ProcOf[x] \in Procs
      /\ \A x \in Tasks : task[x].pc \in WithKey =>
            task[x].key \in Keys /\ Owner[task[x].key] \in Users
    BY KeyAuthAssumption DEF TypeInv, GoodTasks
<1>1. CASE Tick \/ UNCHANGED vars
    <2>1. UNCHANGED <<db, excused, keyCache, userCache, task>>
        BY <1>1 DEF Tick, vars, keySide, userSide
    <2> QED
        BY <2>1, StillQuiet
<1>2. ASSUME NEW t \in Tasks, NEW k \in Keys, ValidateHit(t, k) PROVE EvictInv'
    <2>1. PICK ts \in [Tasks -> GoodTasks] :
             /\ \A x \in Tasks \ {t} : ts[x] = task[x]
             /\ ts[t].key = k
             /\ LookUpUser(t, ts)
        BY <1>2, ValidateHitEffect
    <2>2. task[t].pc \in EndPCs /\ UNCHANGED <<db, excused, keyCache>>
        BY <1>2 DEF ValidateHit, keySide
    <2>3. /\ \A x \in Tasks \ {t} : task'[x] = ts[x]
          /\ task'[t] = Idle \/ task'[t].pc \in {"admitted", "user_reading", "user_waiting"}
        BY <1>0, <2>1, LookUpEffect
    <2>4. \A q \in Procs, u \in Users : userCache'[q][u] \in {userCache[q][u], Nothing}
        BY <1>0, <2>1, LookUpDrops
    <2> QED
        BY <2>1, <2>2, <2>3, <2>4, IdleIsGood, StillQuiet DEF EndPCs
<1>3. ASSUME NEW t \in Tasks, NEW k \in Keys, ValidateMiss(t, k) PROVE EvictInv'
    <2>1. /\ \A x \in Tasks \ {t} : task'[x] = task[x]
          /\ task'[t].pc \in {"key_reading", "key_waiting", "idle"}
        BY <1>3, ValidateMissEffect, IdleIsGood
    <2>2. /\ keyCache' = [keyCache EXCEPT ![ProcOf[t]][k] = Nothing]
          /\ task[t].pc \in EndPCs /\ UNCHANGED <<db, excused, userCache>>
        BY <1>3 DEF ValidateMiss, userSide
    <2>3. \A q \in Procs, j \in Keys : keyCache'[q][j] \in {keyCache[q][j], Nothing}
        BY <1>0, <2>2 DEF TypeOK
    <2> QED
        BY <2>1, <2>2, <2>3, StillQuiet DEF EndPCs
<1>4. ASSUME NEW t \in Tasks, ReadKey(t) \/ ReadUser(t) PROVE EvictInv'
    <2>1. /\ UNCHANGED <<db, excused, keyCache, userCache>>
          /\ task[t].pc \in {"key_reading", "user_reading"}
        BY <1>4 DEF ReadKey, ReadUser, keySide, userSide
    <2>2. /\ \A x \in Tasks \ {t} : task'[x] = task[x]
          /\ task'[t].key = task[t].key
          /\ ReadKey(t) => task'[t].pc = "key_read" /\ task'[t].got = Valid(task[t].key, task[t].start)
          /\ ReadUser(t) => task'[t].pc = "user_read" /\ task'[t].got = dbRole[Owner[task[t].key]]
        BY <1>4, ReadEffect
    <2>3. /\ task'[t].pc = "key_read" /\ task'[t].got = TRUE => dbKey[task'[t].key] = "active"
          /\ task'[t].pc = "user_read" => task'[t].got = dbRole[Owner[task'[t].key]]
        BY <1>4, <2>2 DEF Valid
    <2> QED
        BY <2>1, <2>2, <2>3, StillQuiet
<1>5. ASSUME NEW t \in Tasks, FinishKey(t) PROVE EvictInv'
    <2> DEFINE followers == KeyFollowers(t)
               p == ProcOf[t]
               k == task[t].key
    <2>1. /\ task[t].pc = "key_read" /\ UNCHANGED <<db, excused>>
          /\ keyCache' = CachedFromStart(t)
        BY <1>5 DEF FinishKey
    <2>2. k \in Keys /\ p \in Procs
        BY <1>0, <2>1 DEF WithKey, KeyLeading
    <2>3. PICK ts \in [Tasks -> GoodTasks] :
             /\ \A x \in Tasks : x \notin followers => ts[x] = task[x]
             /\ \A x \in Tasks : x \in followers => ts[x].pc = "key_told"
             /\ t \notin followers
             /\ \/ task[t].got = TRUE /\ LookUpUser(t, ts)
                \/ /\ task[t].got = FALSE /\ task'[t] = Idle
                   /\ \A x \in Tasks \ {t} : task'[x] = ts[x]
                   /\ UNCHANGED userSide
        BY <1>5, FinishKeyEffect
    <2>4. \A x \in followers : task[x].pc = "key_waiting"
        BY DEF KeyFollowers
    <2> HIDE DEF followers
    <2>5. /\ \A x \in Tasks \ {t} : task'[x] = ts[x]
          /\ task'[t].pc \in {"idle", "admitted", "user_reading", "user_waiting"}
          /\ \A q \in Procs, u \in Users : userCache'[q][u] \in {userCache[q][u], Nothing}
        <3>1. CASE LookUpUser(t, ts)
            <4>1. ts[t].key \in Keys
                BY <2>2, <2>3
            <4>2. \A q \in Procs, u \in Users : userCache'[q][u] \in {userCache[q][u], Nothing}
                BY <1>0, <3>1, <4>1, LookUpDrops
            <4>3. /\ \A x \in Tasks \ {t} : task'[x] = ts[x]
                  /\ \/ task'[t] = Idle
                     \/ task'[t].pc \in {"admitted", "user_reading", "user_waiting"}
                BY <1>0, <3>1, <4>1, LookUpEffect
            <4> QED
                BY <4>2, <4>3, IdleIsGood
        <3> QED
            BY <2>3, <3>1, IdleIsGood DEF userSide
    <2>7. ASSUME NEW q \in Procs, NEW j \in Keys
          PROVE  keyCache'[q][j] = keyCache[q][j] \/ dbKey[j] = "active" \/ KeyExcused(q, j)
        <3> DEFINE e == [until |-> task[t].start + KeyTTL]
        <3>1. keyCache' = keyCache \/ (task[t].got = TRUE /\ keyCache' = [keyCache EXCEPT ![p][k] = e])
            BY <1>0, <2>1 DEF CachedFromStart, GoodTasks
        <3> HIDE DEF e, p, k
        <3>4. ASSUME keyCache' = [keyCache EXCEPT ![p][k] = e], ~(q = p /\ j = k)
              PROVE  keyCache'[q][j] = keyCache[q][j]
            BY <1>0, <2>2, <3>4 DEF TypeOK
        <3>2. ~(q = p /\ j = k) => keyCache'[q][j] = keyCache[q][j]
            BY <3>1, <3>4
        <3> USE DEF p, k
        <3>3. task[t].got = TRUE => dbKey[k] = "active" \/ KeyExcused(p, k)
            BY <2>1 DEF EvictInv, FillsAreExcused
        <3> QED
            BY <3>1, <3>2, <3>3
    <2>8. \A x \in Tasks : task[x].pc \in evicting => task'[x] = task[x]
        BY <2>1, <2>3, <2>4, <2>5
    <2>9. \A x \in Tasks : task'[x].pc \in {"key_read", "user_read"} => task'[x] = task[x]
        BY <2>1, <2>3, <2>4, <2>5
    <2> QED
        BY <2>1, <2>5, <2>7, <2>8, <2>9, StillQuiet
<1>6. ASSUME NEW t \in Tasks, FollowKey(t) PROVE EvictInv'
    <2>1. /\ task[t].pc = "key_told" /\ UNCHANGED <<db, excused, keyCache>>
          /\ \/ LookUpUser(t, task)
             \/ task' = [task EXCEPT ![t] = Idle] /\ UNCHANGED userSide
        BY <1>6 DEF FollowKey, keySide
    <2>2. task[t].key \in Keys
        BY <1>0, <2>1 DEF WithKey
    <2>3. /\ \A x \in Tasks \ {t} : task'[x] = task[x]
          /\ task'[t].pc \in {"idle", "admitted", "user_reading", "user_waiting"}
          /\ \A q \in Procs, u \in Users : userCache'[q][u] \in {userCache[q][u], Nothing}
        <3>1. CASE LookUpUser(t, task)
            BY <1>0, <2>2, <3>1, LookUpEffect, LookUpDrops, IdleIsGood, ZenonT(60)
        <3>2. CASE task' = [task EXCEPT ![t] = Idle] /\ UNCHANGED userSide
            BY <1>0, <3>2, IdleIsGood DEF userSide
        <3> QED
            BY <2>1, <3>1, <3>2
    <2> QED
        BY <2>1, <2>3, StillQuiet
<1>7. ASSUME NEW t \in Tasks, \/ KeyLookupFails(t) \/ CancelKeyFollower(t)
                              \/ UserLookupFails(t) \/ CancelUserFollower(t)
      PROVE  EvictInv'
    <2>1. /\ UNCHANGED <<db, excused, keyCache, userCache>>
          /\ \E xs : /\ task' = Failed(xs)
                     /\ \A x \in Tasks : x \in xs => task[x].pc \notin evicting
        <3>1. CASE KeyLookupFails(t)
            BY <3>1 DEF KeyLookupFails, userSide, KeyFollowers
        <3>2. CASE CancelKeyFollower(t)
            BY <3>2 DEF CancelKeyFollower, userSide, KeyFollowers
        <3>3. CASE UserLookupFails(t)
            <4>1. UNCHANGED <<db, excused, keyCache, userCache>>
                BY <3>3 DEF UserLookupFails, keySide
            <4>2. task' = Failed({t} \cup UserFollowers(t))
                BY <3>3 DEF UserLookupFails
            <4>3. \A x \in {t} \cup UserFollowers(t) : task[x].pc \notin evicting
                BY <3>3 DEF UserLookupFails, UserFollowers
            <4> QED
                BY <4>1, <4>2, <4>3
        <3>4. CASE CancelUserFollower(t)
            <4>1. UNCHANGED <<db, excused, keyCache, userCache>>
                BY <3>4 DEF CancelUserFollower, keySide
            <4>2. task' = Failed(UserFollowers(t))
                BY <3>4 DEF CancelUserFollower
            <4>3. \A x \in UserFollowers(t) : task[x].pc \notin evicting
                BY <3>4 DEF CancelUserFollower, UserFollowers
            <4> QED
                BY <4>1, <4>2, <4>3
        <3> QED
            BY <1>7, <3>1, <3>2, <3>3, <3>4
    <2>2. \A x \in Tasks : \/ task'[x] = task[x]
                           \/ task'[x].pc = "idle" /\ task[x].pc \notin evicting
        BY <2>1, FailedEffect, IdleIsGood
    <2> QED
        BY <2>1, <2>2, StillQuiet
<1>8. ASSUME NEW t \in Tasks, FinishUser(t) PROVE EvictInv'
    <2> DEFINE xs == {t} \cup UserFollowers(t)
               p == ProcOf[t]
               u == Owner[task[t].key]
    <2>1. /\ UNCHANGED <<db, excused, keyCache>> /\ task[t].pc = "user_read"
          /\ userCache' = [userCache EXCEPT ![p][u] = [role |-> task[t].got, until |-> now + UserTTL]]
        BY <1>8 DEF FinishUser, keySide
    <2>2. \A x \in xs : task[x].pc \in {"user_read", "user_waiting"}
        BY <2>1 DEF UserFollowers
    <2>3. /\ \A x \in Tasks : x \notin xs => task'[x] = task[x]
          /\ \A x \in Tasks : x \in xs => task'[x].pc = "admitted"
        BY <1>8, FinishUserEffect
    <2> HIDE DEF xs
    <2>4. ASSUME NEW q \in Procs, NEW v \in Users
          PROVE  \/ userCache'[q][v] = userCache[q][v]
                 \/ userCache'[q][v].role = dbRole[v] \/ UserExcused(q, v)
        <3>1. p \in Procs /\ u \in Users
            BY <1>0, <2>1 DEF WithKey, UserLeading
        <3>2. \/ userCache'[q][v] = userCache[q][v]
              \/ q = p /\ v = u /\ userCache'[q][v].role = task[t].got
            BY <1>0, <2>1, <3>1 DEF TypeOK
        <3>3. task[t].got = dbRole[u] \/ UserExcused(p, u)
            BY <2>1 DEF EvictInv, FillsAreExcused
        <3> QED
            BY <3>2, <3>3
    <2>5. /\ \A x \in Tasks : task[x].pc \in evicting => task'[x] = task[x]
          /\ \A x \in Tasks : task'[x].pc \in {"key_read", "user_read"} => task'[x] = task[x]
        BY <2>2, <2>3
    <2> QED
        BY <2>1, <2>4, <2>5, StillQuiet
<1>9. ASSUME NEW t \in Tasks, Administration(t) PROVE EvictInv'
    <2>1. /\ \A x \in Tasks \ {t} : task'[x] = task[x]
          /\ task'[t].pc \in {"idle", "key_evicting", "user_evicting"}
        BY <1>9, AdministrationEffect
    <2>2. \A x \in Tasks : task'[x].pc \in {"key_read", "user_read"} => task'[x] = task[x]
        BY <2>1
    <2>3. task[t].pc \in EndPCs => \A x \in Tasks : task[x].pc \in evicting => task'[x] = task[x]
        BY <2>1 DEF EndPCs
    <2>4. ASSUME NEW k \in Keys, CreateKey(t, k) PROVE EvictInv'
        <3>1. /\ dbKey' = [dbKey EXCEPT ![k] = "active"] /\ task[t].pc \in EndPCs
              /\ UNCHANGED <<dbRole, excused, keyCache, userCache>>
            BY <2>4 DEF CreateKey, Created, keySide, userSide
        <3>2. /\ \A q \in Procs, j \in Keys : KeyExcused(q, j) => KeyExcused(q, j)'
              /\ \A q \in Procs, u \in Users : UserExcused(q, u) => UserExcused(q, u)'
            BY <2>3, <3>1, ExcusesStay
        <3>3. \A j \in Keys : dbKey'[j] = dbKey[j] \/ dbKey'[j] = "active"
            BY <1>0, <3>1 DEF TypeOK
        <3> QED
            BY <1>0, <2>2, <3>1, <3>2, <3>3, StillEvicted
    <2>5. ASSUME NEW k \in Keys, EndKey(t, k) PROVE EvictInv'
        <3>1. /\ dbKey' = [dbKey EXCEPT ![k] = "dead"] /\ task[t].pc \in EndPCs
              /\ excused' = excused \cup (Others(ProcOf[t]) \X {k})
              /\ UNCHANGED <<dbRole, keyCache, userCache>>
            BY <2>5 DEF EndKey, Ended, keySide, userSide
        <3>2. /\ \A q \in Procs, j \in Keys : KeyExcused(q, j) => KeyExcused(q, j)'
              /\ \A q \in Procs, u \in Users : UserExcused(q, u) => UserExcused(q, u)'
            BY <2>3, <3>1, ExcusesStay
        <3>3. task'[t].pc = "key_evicting" /\ task'[t].key = k
            BY <1>9, <2>5, AdministrationEffect
        <3>4. \A q \in Procs : KeyExcused(q, k)'
            BY <3>1, <3>3 DEF KeyExcused, Others
        <3>5. \A q \in Procs, j \in Keys : dbKey'[j] = dbKey[j] \/ KeyExcused(q, j)'
            BY <1>0, <3>1, <3>4 DEF TypeOK
        <3> QED
            BY <1>0, <2>2, <3>1, <3>2, <3>5, StillEvicted
    <2>6. ASSUME NEW k \in Keys, EndOthersKey(t, k) PROVE EvictInv'
        <3>1. /\ keyCache' = [keyCache EXCEPT ![ProcOf[t]][k] = Nothing] /\ task[t].pc \in EndPCs
              /\ UNCHANGED <<db, excused, userCache>>
            BY <2>6 DEF EndOthersKey, userSide
        <3>2. \A q \in Procs, j \in Keys : keyCache'[q][j] \in {keyCache[q][j], Nothing}
            BY <1>0, <3>1 DEF TypeOK
        <3> QED
            BY <2>2, <2>3, <3>1, <3>2, StillQuiet
    <2>7. ASSUME NEW u \in Users, NEW r \in Roles, ChangeRole(t, u, r) PROVE EvictInv'
        <3>1. /\ dbRole' = [dbRole EXCEPT ![u] = r] /\ task[t].pc \in EndPCs
              /\ excused' = excused \cup (Others(ProcOf[t]) \X {u})
              /\ UNCHANGED <<dbKey, keyCache, userCache>>
            BY <2>7 DEF ChangeRole, keySide, userSide
        <3>2. /\ \A q \in Procs, j \in Keys : KeyExcused(q, j) => KeyExcused(q, j)'
              /\ \A q \in Procs, v \in Users : UserExcused(q, v) => UserExcused(q, v)'
            BY <2>3, <3>1, ExcusesStay
        <3>3. task'[t].pc = "user_evicting" /\ task'[t].user = u
            BY <1>9, <2>7, AdministrationEffect
        <3>4. \A q \in Procs : UserExcused(q, u)'
            BY <3>1, <3>3 DEF UserExcused, Others
        <3>5. \A q \in Procs, v \in Users : dbRole'[v] = dbRole[v] \/ UserExcused(q, v)'
            BY <1>0, <3>1, <3>4 DEF TypeOK
        <3> QED
            BY <1>0, <2>2, <3>1, <3>2, <3>5, StillEvicted
    <2>8. CASE EvictKey(t)
        <3>0. PICK p, k : p = ProcOf[t] /\ k = task[t].key
            OBVIOUS
        <3>1. /\ task[t].pc = "key_evicting" /\ task' = [task EXCEPT ![t] = Idle]
              /\ keyCache' = [keyCache EXCEPT ![p][k] = Nothing]
              /\ excused' = IF LateKeyFill(p, k) THEN excused \cup {<<p, k>>} ELSE excused
              /\ UNCHANGED <<db, userCache>>
            BY <2>8, <3>0 DEF EvictKey, userSide
        <3>2. p \in Procs /\ k \in Keys
            BY <1>0, <3>0, <3>1 DEF WithKey
        <3>3. /\ \A q \in Procs, j \in Keys : keyCache'[q][j] \in {keyCache[q][j], Nothing}
              /\ keyCache'[p][k] = Nothing
            BY <1>0, <3>1, <3>2 DEF TypeOK
        <3>4. \A q \in Procs, u \in Users : UserExcused(q, u) => UserExcused(q, u)'
            BY <2>1, <3>1 DEF UserExcused
        <3>5. \A q \in Procs, j \in Keys : ~(q = p /\ j = k) /\ KeyExcused(q, j) => KeyExcused(q, j)'
            BY <2>1, <3>0, <3>1 DEF KeyExcused
        <3>6. LateKeyFill(p, k)' => KeyExcused(p, k)'
            <4>1. LateKeyFill(p, k)' => LateKeyFill(p, k)
                BY <2>2 DEF LateKeyFill
            <4> QED
                BY <3>1, <4>1 DEF KeyExcused
        <3>7. \A q \in Procs, j \in Keys : KeyExcused(q, j) => KeyExcused(q, j)' \/ KeyGone(q, j)'
            BY <3>3, <3>5, <3>6 DEF KeyGone
        <3> QED
            BY <1>0, <2>2, <3>1, <3>3, <3>4, <3>7, StillEvicted DEF db
    <2>9. CASE EvictUser(t)
        <3>0. PICK p, u : p = ProcOf[t] /\ u = task[t].user
            OBVIOUS
        <3>1. /\ task[t].pc = "user_evicting" /\ task' = [task EXCEPT ![t] = Idle]
              /\ userCache' = [userCache EXCEPT ![p][u] = Nothing]
              /\ excused' = IF LateUserFill(p, u) THEN excused \cup {<<p, u>>} ELSE excused
              /\ UNCHANGED <<db, keyCache>>
            BY <2>9, <3>0 DEF EvictUser, keySide
        <3>2. p \in Procs /\ u \in Users
            BY <1>0, <3>0, <3>1 DEF GoodTasks
        <3>3. /\ \A q \in Procs, v \in Users : userCache'[q][v] \in {userCache[q][v], Nothing}
              /\ userCache'[p][u] = Nothing
            BY <1>0, <3>1, <3>2 DEF TypeOK
        <3>4. \A q \in Procs, j \in Keys : KeyExcused(q, j) => KeyExcused(q, j)'
            BY <2>1, <3>1 DEF KeyExcused
        <3>5. \A q \in Procs, v \in Users : ~(q = p /\ v = u) /\ UserExcused(q, v) => UserExcused(q, v)'
            BY <2>1, <3>0, <3>1 DEF UserExcused
        <3>6. LateUserFill(p, u)' => UserExcused(p, u)'
            <4>1. LateUserFill(p, u)' => LateUserFill(p, u)
                BY <2>2, <3>1 DEF LateUserFill, db
            <4> QED
                BY <3>1, <4>1 DEF UserExcused
        <3>7. \A q \in Procs, v \in Users : UserExcused(q, v) => UserExcused(q, v)' \/ UserGone(q, v)'
            BY <3>3, <3>5, <3>6 DEF UserGone
        <3> QED
            BY <1>0, <2>2, <3>1, <3>3, <3>4, <3>7, StillEvicted DEF db
    <2>10. CASE EvictionLost(t)
        <3>1. /\ task[t].pc \in evicting
              /\ excused' = excused \cup {<<ProcOf[t],
                    IF task[t].pc = "key_evicting" THEN task[t].key ELSE task[t].user>>}
              /\ UNCHANGED <<db, keyCache, userCache>>
            BY <2>10 DEF EvictionLost, keySide, userSide
        <3>2. \A q \in Procs, j \in Keys : KeyExcused(q, j) => KeyExcused(q, j)'
            BY <2>1, <3>1 DEF KeyExcused
        <3>3. \A q \in Procs, v \in Users : UserExcused(q, v) => UserExcused(q, v)'
            BY <2>1, <3>1 DEF UserExcused
        <3> QED
            BY <1>0, <2>2, <3>1, <3>2, <3>3, StillEvicted DEF db
    <2> QED
        BY <1>9, <2>4, <2>5, <2>6, <2>7, <2>8, <2>9, <2>10 DEF Administration
<1> QED
    BY <1>1, <1>2, <1>3, <1>4, <1>5, <1>6, <1>7, <1>8, <1>9
    DEF Next, Validation, ShowKey, OwnerLookup

-----------------------------------------------------------------------------
(* Theorems *)

LEMMA KeyAuthInvariant == Spec => [](TypeInv /\ FlightsInv /\ TimelyInv /\ EvictInv)
<1> DEFINE Inv == TypeInv /\ FlightsInv /\ TimelyInv /\ EvictInv
<1>1. Init => Inv
    BY TypeInit, FlightsInit, TimelyInit, EvictInit
<1>2. Inv /\ [Next]_vars => Inv'
    <2>1. Inv /\ [Next]_vars => TypeInv'
        BY TypeStep
    <2> QED
        BY <2>1, FlightsStep, TimelyStep, EvictStep
<1> QED
    BY <1>1, <1>2, PTL DEF Spec

(* The model's state has its types: what a request holds, both caches of   *)
(* every process and both registries of flights.                           *)
THEOREM KeyAuthTypeCorrect == Spec => []TypeOK
<1>1. TypeInv => TypeOK
    BY DEF TypeInv
<1> QED
    BY <1>1, KeyAuthInvariant, PTL

(* api_key_service.py:61-70: KeyTTL bounds how long a revoked, deleted or  *)
(* expired key authenticates, in every process, whatever evictions are     *)
(* lost and however long reads of the store take; only a request that      *)
(* joined a lookup under way can be later.                                 *)
THEOREM KeysEndInTime == Spec => []RevocationTakesEffect
<1>1. TimelyInv => RevocationTakesEffect
    BY DEF TimelyInv, InTime, RevocationTakesEffect
<1> QED
    BY <1>1, KeyAuthInvariant, PTL

(* _evict_by_key_id() and invalidate_user_cache() leave nothing old in     *)
(* their process but what a late fill or a lost eviction explains.         *)
THEOREM EvictionsHold == Spec => []EvictionHolds
<1>1. EvictInv => EvictionHolds
    BY DEF EvictInv
<1> QED
    BY <1>1, KeyAuthInvariant, PTL

(* Whoever awaits a future of either registry has a leader at work, and    *)
(* the future can be settled.                                              *)
THEOREM LookupsAreSettled == Spec => []WaitersHaveLeader
<1>1. TypeInv /\ FlightsInv => WaitersHaveLeader
    <2> SUFFICES ASSUME TypeInv, FlightsInv PROVE WaitersHaveLeader
        OBVIOUS
    <2>1. /\ KeyFlights(task, keyFlight) /\ UserFlights(task, userFlight)
          /\ task \in [Tasks -> GoodTasks] /\ \A x \in Tasks : ProcOf[x] \in Procs
        BY KeyAuthAssumption DEF FlightsInv, TypeInv
    <2>2. ASSUME NEW t \in Tasks, task[t].pc = "key_waiting"
          PROVE  LET f == keyFlight[ProcOf[t]][task[t].key] IN
                 /\ f # Nothing /\ f.live
                 /\ task[f.leader].pc \in {"key_reading", "key_read"}
                 /\ task[f.leader].key = task[t].key
        <3>1. task[t].key \in Keys
            BY <2>1, <2>2 DEF GoodTasks, WithKey
        <3> DEFINE f == keyFlight[ProcOf[t]][task[t].key]
        <3>2. f # Nothing /\ f.live
            BY <2>1, <2>2 DEF KeyFlights, FlightsInStep, At, KeyOf
        <3>3. f.leader \in At(task, KeyLeading) /\ KeyOf(task)[f.leader] = task[t].key
            BY <2>1, <3>1, <3>2 DEF KeyFlights, FlightsInStep
        <3> QED
            BY <3>2, <3>3 DEF At, KeyOf, KeyLeading
    <2>3. ASSUME NEW t \in Tasks, task[t].pc = "user_waiting"
          PROVE  LET f == userFlight[ProcOf[t]][Owner[task[t].key]] IN
                 /\ f # Nothing /\ f.live
                 /\ task[f.leader].pc \in {"user_reading", "user_read"}
                 /\ Owner[task[f.leader].key] = Owner[task[t].key]
        <3>1. Owner[task[t].key] \in Users
            BY <2>1, <2>3, KeyAuthAssumption DEF GoodTasks, WithKey
        <3> DEFINE f == userFlight[ProcOf[t]][Owner[task[t].key]]
        <3>2. f # Nothing /\ f.live
            BY <2>1, <2>3 DEF UserFlights, FlightsInStep, At, UserOf
        <3>3. /\ f.leader \in At(task, UserLeading)
              /\ UserOf(task)[f.leader] = Owner[task[t].key]
            BY <2>1, <3>1, <3>2 DEF UserFlights, FlightsInStep
        <3> QED
            BY <3>2, <3>3 DEF At, UserOf, UserLeading
    <2> QED
        BY <2>2, <2>3 DEF WaitersHaveLeader
<1> QED
    BY <1>1, KeyAuthInvariant, PTL
=============================================================================
