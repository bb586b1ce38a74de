-------------------------- MODULE QueryCacheProofs --------------------------
(***************************************************************************)
(* Proofs about QueryCache, for any number of processes, requests,         *)
(* statements and tables: its types, the single-flight registry, the table *)
(* index of L1, and, in one process, that reads are fresh.                 *)
(***************************************************************************)
EXTENDS QueryCache, TLAPS

-----------------------------------------------------------------------------
(* The inductive invariants *)

AllData == AllRows \cup {Nothing} \cup UNION {Written(w) : w \in Writes}

(* What TypeOK says entry by entry, as functions. *)
Shapes ==
    /\ l1 \in [Procs -> [Keys -> AllRows \cup {Nothing}]]
    /\ l2 \in [Keys -> AllRows \cup {Nothing}]
    /\ data \in [Tasks -> AllData]

(* Which statement a request is at, and of what its data is.               *)
StatementsInStep ==
    \A t \in Tasks :
        /\ pc[t] \in LeadingPCs \cup {"following"} => stmt[t] \in Keys
        /\ pc[t] \in {"l2_got", "fetched"} => data[t] \in Rows(stmt[t])
        /\ pc[t] = "done" /\ stmt[t] \in Keys => data[t] \in Rows(stmt[t])
        /\ pc[t] \in WritingPCs => stmt[t] \in Writes
        /\ pc[t] \in {"committed", "clearing", "deleting"} => data[t] \in Written(stmt[t])

TypeInv == TypeOK /\ Shapes /\ StatementsInStep

(* The registry of each process names exactly the requests that lead, a    *)
(* follower's leader among them; a cancelled future is still registered,   *)
(* and nobody follows it.                                                  *)
RegistryInStep ==
    /\ \A t \in Tasks : pc[t] \in LeadingPCs => leader[ProcOf[t]][stmt[t]] = t
    /\ \A p \in Procs, k \in Keys : leader[p][k] # Nothing =>
          /\ pc[leader[p][k]] \in LeadingPCs
          /\ ProcOf[leader[p][k]] = p /\ stmt[leader[p][k]] = k
    /\ \A t \in Tasks : pc[t] = "following" =>
          /\ leader[ProcOf[t]][stmt[t]] # Nothing
          /\ <<ProcOf[t], stmt[t]>> \notin cancelled
    /\ \A p \in Procs, k \in Keys : <<p, k>> \in cancelled => leader[p][k] # Nothing

CacheInv == TypeInv /\ RegistryInStep /\ L1EntriesAreIndexed

(* A write leaves the L1 of other processes alone, and finds the entries   *)
(* of its tables by the names in its text: freshness holds of one process  *)
(* whose statements name a table they share alike.                         *)
OneProcess == \A p, q \in Procs : p = q
NamesMatch ==
    \A k \in Keys, w \in Writes : Reads[k] \cap Touches[w] # {} =>
        WriteNames[w] = {} \/ WriteNames[w] \cap KeyNames[k] # {}

(* Rows of the statement k that are not older than `versions`.             *)
NotOlder(rows, k, versions) == \A x \in Reads[k] : rows[x] >= versions[x]

(* No row anywhere is older than what has been answered. *)
NothingOld ==
    /\ \A p \in Procs, k \in Keys : l1[p][k] # Nothing => NotOlder(l1[p][k], k, acked)
    /\ \A k \in Keys : l2[k] # Nothing => NotOlder(l2[k], k, acked)
    /\ \A j \in jobs : NotOlder(j.rows, j.key, acked)
    /\ \A t \in Tasks : pc[t] \in {"l2_got", "fetched"} => NotOlder(data[t], stmt[t], acked)

(* What writers know is not newer than the database, and what readers have *)
(* begun with is not newer than what has been answered.                    *)
ClocksInStep ==
    /\ \A x \in Tables : acked[x] <= db[x]
    /\ \A t \in Tasks, x \in Tables : Reading(t) => since[t][x] <= acked[x]
    /\ \A t \in Tasks : pc[t] \in {"committed", "clearing", "deleting"} =>
          \A x \in Touches[stmt[t]] : data[t][x] <= db[x]

(* A writer that has invalidated L1 finds no entry of its tables there,    *)
(* and none in L2 but under names it has still to delete.                  *)
Gone(t, k) ==
    /\ l1[ProcOf[t]][k] = Nothing
    /\ pc[t] = "deleting" => l2[k] = Nothing \/ KeyNames[k] \cap todo[t] # {}
Invalidated(t) ==
    pc[t] \in {"clearing", "deleting"} =>
        \A k \in Keys : Reads[k] \cap Touches[stmt[t]] # {} => Gone(t, k)

WritesAlone ==
    (\E t \in Tasks : Writing(t)) => jobs = {} /\ \A t \in Tasks : ~Reading(t)

FreshInv ==
    /\ ClocksInStep
    /\ ~disturbed =>
          /\ WritesAlone /\ NothingOld
          /\ \A t \in Tasks : Invalidated(t) /\ Fresh(t)

-----------------------------------------------------------------------------
(* Types *)

LEMMA RowsTypes ==
    /\ \A k \in Keys : Rows(k) \subseteq AllRows /\ Rows(k) \subseteq AllData
    /\ AllRows \subseteq AllData /\ Nothing \in AllData
    /\ \A w \in Writes : Written(w) \subseteq AllData
BY DEF AllRows, AllData

LEMMA TypeInit == Init => TypeInv
<1> SUFFICES ASSUME Init PROVE TypeInv
    OBVIOUS
<1>1. NoVersions \in Versions
    BY CacheAssumption DEF NoVersions, Versions
<1>2. TypeOK
    BY <1>1 DEF Init, TypeOK
<1>3. Shapes
    BY DEF Init, Shapes, AllData
<1>4. StatementsInStep
    BY DEF Init, StatementsInStep, LeadingPCs, WritingPCs
<1> QED
    BY <1>2, <1>3, <1>4 DEF TypeInv

(* One entry of L1 becomes rows of its statement, another may go. *)
LEMMA PutL1Types ==
    ASSUME TypeInv, NEW p \in Procs, NEW k \in Keys, NEW rows \in Rows(k), PutL1(p, k, rows)
    PROVE  /\ l1' \in [Procs -> [Keys -> AllRows \cup {Nothing}]]
           /\ \A q \in Procs, j \in Keys : l1'[q][j] \in Rows(j) \cup {Nothing}
           /\ tableKeys' \in [Procs -> [Names -> SUBSET Keys]]
<1>1. rows \in AllRows
    BY RowsTypes
<1>2. /\ l1 \in [Procs -> [Keys -> AllRows \cup {Nothing}]]
      /\ \A q \in Procs, j \in Keys : l1[q][j] \in Rows(j) \cup {Nothing}
      /\ tableKeys \in [Procs -> [Names -> SUBSET Keys]]
    BY DEF TypeInv, TypeOK, Shapes
<1>3. ASSUME l1' = [l1 EXCEPT ![p][k] = rows]
      PROVE  /\ l1' \in [Procs -> [Keys -> AllRows \cup {Nothing}]]
             /\ \A q \in Procs, j \in Keys : l1'[q][j] \in Rows(j) \cup {Nothing}
    BY <1>1, <1>2, <1>3
<1>4. ASSUME NEW victim \in Keys, l1' = [l1 EXCEPT ![p][victim] = Nothing, ![p][k] = rows]
      PROVE  /\ l1' \in [Procs -> [Keys -> AllRows \cup {Nothing}]]
             /\ \A q \in Procs, j \in Keys : l1'[q][j] \in Rows(j) \cup {Nothing}
    BY <1>1, <1>2, <1>4
<1>5. tableKeys' \in [Procs -> [Names -> SUBSET Keys]]
    BY <1>2 DEF PutL1
<1> QED
    BY <1>2, <1>3, <1>4, <1>5 DEF PutL1

LEMMA SettleTypes ==
    ASSUME TypeInv, NEW t \in Tasks, pc[t] \in LeadingPCs, NEW outcome \in {"done", "failed"},
           NEW rows \in Rows(stmt[t]) \cup {Nothing}, outcome = "done" => rows \in Rows(stmt[t]),
           Settle(t, outcome, rows), stmt' = stmt
    PROVE  /\ pc' \in [Tasks -> {"idle", "following"} \cup LeadingPCs \cup WritingPCs \cup EndPCs]
           /\ data' \in [Tasks -> AllData]
           /\ leader' \in [Procs -> [Keys -> Tasks \cup {Nothing}]]
           /\ cancelled' \subseteq Procs \X Keys
           /\ StatementsInStep'
<1>1. stmt[t] \in Keys
    BY DEF TypeInv, StatementsInStep
<1>2. rows \in AllData
    BY <1>1, RowsTypes
<1>3. outcome \in EndPCs \ LeadingPCs /\ outcome \notin WritingPCs
    BY DEF EndPCs, LeadingPCs, WritingPCs
<1> DEFINE all == {t} \cup Followers(ProcOf[t], stmt[t])
<1>4. /\ pc' = [u \in Tasks |-> IF u \in all THEN outcome ELSE pc[u]]
      /\ data' = [u \in Tasks |-> IF u \in all THEN rows ELSE data[u]]
      /\ leader' = [leader EXCEPT ![ProcOf[t]][stmt[t]] = Nothing]
      /\ cancelled' \subseteq cancelled
    BY DEF Settle
<1>5. /\ pc' \in [Tasks -> {"idle", "following"} \cup LeadingPCs \cup WritingPCs \cup EndPCs]
      /\ data' \in [Tasks -> AllData]
    BY <1>2, <1>3, <1>4 DEF TypeInv, TypeOK, Shapes
<1>6. /\ leader' \in [Procs -> [Keys -> Tasks \cup {Nothing}]]
      /\ cancelled' \subseteq Procs \X Keys
    BY <1>4 DEF TypeInv, TypeOK
<1>7. StatementsInStep'
    <2>1. \A u \in all : stmt[u] = stmt[t]
        BY DEF Followers
    <2>2. \A u \in Tasks : u \in all => pc'[u] = outcome /\ data'[u] = rows
        BY <1>4
    <2>3. \A u \in Tasks : u \notin all => pc'[u] = pc[u] /\ data'[u] = data[u]
        BY <1>4
    <2>4. outcome \notin {"following", "l2_got", "fetched", "committed", "clearing", "deleting"}
        OBVIOUS
    <2> QED
        BY <1>3, <2>1, <2>2, <2>3, <2>4 DEF TypeInv, StatementsInStep
<1> QED
    BY <1>5, <1>6, <1>7

LEMMA BumpTypes ==
    ASSUME db \in Versions, NEW w \in Writes, MayBump(w)
    PROVE  /\ Bumped(w) \in Versions
           /\ [x \in Touches[w] |-> db[x] + 1] \in Written(w)
           /\ \A x \in Tables : Bumped(w)[x] >= db[x]
           /\ \A x \in Touches[w] : x \in Tables /\ Bumped(w)[x] = db[x] + 1
<1>1. \A x \in Touches[w] : x \in Tables /\ db[x] \in 0 .. MaxVersion /\ db[x] < MaxVersion
    BY CacheAssumption DEF MayBump, Versions
<1>2. \A x \in Tables : db[x] \in 0 .. MaxVersion
    BY DEF Versions
<1> QED
    BY <1>1, <1>2, CacheAssumption DEF Bumped, Versions, Written

LEMMA AnswerTypes ==
    ASSUME TypeInv, NEW t \in Tasks, pc[t] \in {"clearing", "deleting"}, Answer(t)
    PROVE  /\ acked' \in Versions
           /\ data' = [data EXCEPT ![t] = Nothing] /\ pc' = [pc EXCEPT ![t] = "done"]
           /\ \A x \in Tables : acked'[x] = IF x \in Touches[stmt[t]] /\ acked[x] < data[t][x]
                                            THEN data[t][x] ELSE acked[x]
<1>1. stmt[t] \in Writes /\ data[t] \in Written(stmt[t]) /\ acked \in Versions
    BY DEF TypeInv, TypeOK, StatementsInStep, WritingPCs
<1>2. acked' = [x \in Tables |-> IF x \in Touches[stmt[t]] /\ acked[x] < data[t][x]
                                 THEN data[t][x] ELSE acked[x]]
    BY DEF Answer
<1> QED
    BY <1>1, <1>2 DEF Answer, Written, Versions

LEMMA DeletedTypes ==
    ASSUME TypeInv, NEW keys
    PROVE  /\ DeletedL2(keys) \in [Keys -> AllRows \cup {Nothing}]
           /\ \A k \in Keys : DeletedL2(keys)[k] \in Rows(k) \cup {Nothing}
           /\ \A k \in Keys : DeletedL2(keys)[k] \in {l2[k], Nothing}
           /\ \A k \in Keys : k \in keys => DeletedL2(keys)[k] = Nothing
BY DEF TypeInv, TypeOK, Shapes, DeletedL2

LEMMA DropTypes ==
    ASSUME TypeInv, NEW p \in Procs, NEW keys, NEW names, Drop(p, keys),
           tableKeys' = [tableKeys EXCEPT ![p] =
              [n \in Names |-> IF n \in names THEN {} ELSE @[n]]]
    PROVE  /\ l1' \in [Procs -> [Keys -> AllRows \cup {Nothing}]]
           /\ \A q \in Procs, j \in Keys : l1'[q][j] \in Rows(j) \cup {Nothing}
           /\ tableKeys' \in [Procs -> [Names -> SUBSET Keys]]
BY DEF TypeInv, TypeOK, Shapes, Drop

LEMMA TypeStep == TypeInv /\ [Next]_vars => TypeInv'
<1> SUFFICES ASSUME TypeInv, [Next]_vars PROVE TypeInv'
    OBVIOUS
<1> USE CacheAssumption
<1> DEFINE PCs == {"idle", "following"} \cup LeadingPCs \cup WritingPCs \cup EndPCs
<1>1. ASSUME NEW t \in Tasks, NEW k \in Keys, StartRead(t, k) PROVE TypeInv'
    <2> DEFINE p == ProcOf[t]
    <2>1. p \in Procs /\ l1[p][k] \in Rows(k) \cup {Nothing}
        BY DEF TypeInv, TypeOK
    <2>2. l1[p][k] \in AllData
        BY <2>1, RowsTypes
    <2>3. /\ pc' \in [Tasks -> PCs] /\ leader' \in [Procs -> [Keys -> Tasks \cup {Nothing}]]
          /\ stmt' = [stmt EXCEPT ![t] = k] /\ data' = [data EXCEPT ![t] = l1[p][k]]
          /\ \A u \in Tasks \ {t} : pc'[u] = pc[u]
          /\ pc'[t] \in {"done", "l2_read", "aborted", "following"}
          /\ pc'[t] = "done" => l1[p][k] # Nothing
          /\ since' = [since EXCEPT ![t] = acked]
          /\ UNCHANGED <<todo, l1, tableKeys, cancelled, l2, jobs, db, acked>>
        <3>1. \/ pc' = [pc EXCEPT ![t] = "done"] /\ leader' = leader /\ l1[p][k] # Nothing
              \/ pc' = [pc EXCEPT ![t] = "l2_read"] /\ leader' = [leader EXCEPT ![p][k] = t]
              \/ pc' = [pc EXCEPT ![t] = "aborted"] /\ leader' = leader
              \/ pc' = [pc EXCEPT ![t] = "following"] /\ leader' = leader
            <4>1. CASE <<p, k>> \in cancelled
                BY <1>1, <4>1 DEF StartRead, InL1
            <4>2. CASE <<p, k>> \notin cancelled
                BY <1>1, <4>2 DEF StartRead, InL1
            <4> QED
                BY <4>1, <4>2
        <3>2. /\ pc' \in [Tasks -> PCs] /\ leader' \in [Procs -> [Keys -> Tasks \cup {Nothing}]]
              /\ \A u \in Tasks \ {t} : pc'[u] = pc[u]
              /\ pc'[t] \in {"done", "l2_read", "aborted", "following"}
              /\ pc'[t] = "done" => l1[p][k] # Nothing
            <4>1. /\ pc \in [Tasks -> PCs] /\ leader \in [Procs -> [Keys -> Tasks \cup {Nothing}]]
                  /\ {"done", "l2_read", "aborted", "following"} \subseteq PCs
                BY DEF TypeInv, TypeOK, LeadingPCs, EndPCs
            <4> HIDE DEF PCs
            <4>2. PICK next \in {"done", "l2_read", "aborted", "following"} :
                    pc' = [pc EXCEPT ![t] = next] /\ (next = "done" => l1[p][k] # Nothing)
                BY <3>1
            <4>3. leader' \in [Procs -> [Keys -> Tasks \cup {Nothing}]]
                <5>1. leader' = leader \/ leader' = [leader EXCEPT ![p][k] = t]
                    BY <3>1
                <5>2. ASSUME NEW q \in Procs PROVE
                        [leader EXCEPT ![q][k] = t] \in [Procs -> [Keys -> Tasks \cup {Nothing}]]
                    BY <4>1
                <5> QED
                    BY <2>1, <4>1, <5>1, <5>2, ZenonT(60)
            <4> QED
                BY <4>1, <4>2, <4>3
        <3> QED
            BY <1>1, <3>2 DEF StartRead
    <2>4. StatementsInStep'
        BY <2>1, <2>3 DEF TypeInv, TypeOK, Shapes, StatementsInStep, LeadingPCs, WritingPCs
    <2>5. disturbed' \in BOOLEAN
        BY <1>1 DEF StartRead
    <2>6. TypeOK' /\ Shapes'
        BY <2>2, <2>3, <2>5 DEF TypeInv, TypeOK, Shapes, AllData
    <2> QED
        BY <2>4, <2>6 DEF TypeInv
<1>2. ASSUME NEW t \in Tasks, NEW w \in Writes, StartWrite(t, w) PROVE TypeInv'
    <2>1. /\ pc' = [pc EXCEPT ![t] = "writing"] /\ stmt' = [stmt EXCEPT ![t] = w]
          /\ UNCHANGED <<data, todo, since, l1, tableKeys, leader, cancelled, l2, jobs, db, acked>>
        BY <1>2 DEF StartWrite, cache
    <2>4. disturbed' \in BOOLEAN
        BY <1>2 DEF StartWrite
    <2>2. TypeOK' /\ Shapes'
        BY <2>1, <2>4 DEF TypeInv, TypeOK, Shapes, WritingPCs
    <2>3. StatementsInStep'
        BY <2>1 DEF TypeInv, TypeOK, StatementsInStep, LeadingPCs, WritingPCs
    <2> QED
        BY <2>2, <2>3 DEF TypeInv
<1>3. ASSUME NEW t \in Tasks, Lead(t) PROVE TypeInv'
    <2>1. pc[t] \in LeadingPCs
        BY <1>3 DEF Lead, L2Read, L2ReadFails, RunQuery, FinishL2Hit, FinishMiss, QueryFails,
            LeadingPCs
    <2>2. /\ ProcOf[t] \in Procs /\ stmt[t] \in Keys
          /\ pc[t] \in {"l2_got", "fetched"} => data[t] \in Rows(stmt[t])
        BY <2>1 DEF TypeInv, StatementsInStep
    <2>3. CASE L2Read(t)
        <3>1. l2[stmt[t]] \in Rows(stmt[t]) \cup {Nothing} /\ l2[stmt[t]] \in AllData
            BY <2>2, RowsTypes DEF TypeInv, TypeOK
        <3>2. /\ pc' = [pc EXCEPT ![t] = IF l2[stmt[t]] = Nothing THEN "running" ELSE "l2_got"]
              /\ data' = [data EXCEPT ![t] = l2[stmt[t]]]
              /\ UNCHANGED <<stmt, todo, since, l1, tableKeys, leader, cancelled,
                             l2, jobs, db, acked, disturbed>>
            BY <2>3 DEF L2Read, cache, shared
        <3>3. TypeOK' /\ Shapes'
            BY <3>1, <3>2 DEF TypeInv, TypeOK, Shapes, LeadingPCs, AllData
        <3>4. StatementsInStep'
            BY <2>2, <3>1, <3>2 DEF TypeInv, TypeOK, Shapes, StatementsInStep, LeadingPCs, WritingPCs
        <3> QED
            BY <3>3, <3>4 DEF TypeInv
    <2>4. CASE L2ReadFails(t)
        <3>1. /\ pc' = [pc EXCEPT ![t] = "running"]
              /\ UNCHANGED <<stmt, data, todo, since, l1, tableKeys, leader, cancelled,
                             l2, jobs, db, acked, disturbed>>
            BY <2>4 DEF L2ReadFails, cache, shared
        <3>2. TypeOK' /\ Shapes'
            BY <3>1 DEF TypeInv, TypeOK, Shapes, LeadingPCs
        <3>3. StatementsInStep'
            BY <2>2, <3>1 DEF TypeInv, TypeOK, StatementsInStep, LeadingPCs, WritingPCs
        <3> QED
            BY <3>2, <3>3 DEF TypeInv
    <2>5. CASE RunQuery(t)
        <3> DEFINE rows == [x \in Reads[stmt[t]] |-> db[x]]
        <3>1. rows \in Rows(stmt[t]) /\ rows \in AllData
            BY <2>2, RowsTypes DEF TypeInv, TypeOK, Rows, Versions
        <3>2. /\ pc' = [pc EXCEPT ![t] = "fetched"] /\ data' = [data EXCEPT ![t] = rows]
              /\ UNCHANGED <<stmt, todo, since, l1, tableKeys, leader, cancelled,
                             l2, jobs, db, acked, disturbed>>
            BY <2>5 DEF RunQuery, cache, shared
        <3> HIDE DEF rows
        <3>3. TypeOK' /\ Shapes'
            BY <3>1, <3>2 DEF TypeInv, TypeOK, Shapes, LeadingPCs, AllData
        <3>4. StatementsInStep'
            BY <2>2, <3>1, <3>2 DEF TypeInv, TypeOK, Shapes, StatementsInStep, LeadingPCs, WritingPCs
        <3> QED
            BY <3>3, <3>4 DEF TypeInv
    <2>6. CASE FinishL2Hit(t) \/ FinishMiss(t)
        <3>1. data[t] \in Rows(stmt[t])
            BY <2>2, <2>6 DEF FinishL2Hit, FinishMiss
        <3>2. /\ PutL1(ProcOf[t], stmt[t], data[t]) /\ Settle(t, "done", data[t])
              /\ UNCHANGED <<stmt, todo, since, l2, db, acked, disturbed>>
              /\ jobs' \in {jobs, jobs \cup {Job(t)}}
            BY <2>6 DEF FinishL2Hit, FinishMiss, shared, Submitted
        <3>3. \A j \in jobs' : j.proc \in Procs /\ j.key \in Keys /\ j.rows \in Rows(j.key)
            BY <2>2, <3>1, <3>2 DEF TypeInv, TypeOK, Job
        <3>4. /\ pc' \in [Tasks -> PCs] /\ data' \in [Tasks -> AllData]
              /\ leader' \in [Procs -> [Keys -> Tasks \cup {Nothing}]]
              /\ cancelled' \subseteq Procs \X Keys /\ StatementsInStep'
            BY <2>1, <3>1, <3>2, SettleTypes
        <3>5. /\ l1' \in [Procs -> [Keys -> AllRows \cup {Nothing}]]
              /\ \A q \in Procs, j \in Keys : l1'[q][j] \in Rows(j) \cup {Nothing}
              /\ tableKeys' \in [Procs -> [Names -> SUBSET Keys]]
            BY <2>2, <3>1, <3>2, PutL1Types
        <3> QED
            BY <3>2, <3>3, <3>4, <3>5 DEF TypeInv, TypeOK, Shapes, AllData
    <2>7. CASE QueryFails(t)
        <3>1. /\ Settle(t, "failed", Nothing)
              /\ UNCHANGED <<stmt, todo, since, l1, tableKeys, l2, jobs, db, acked, disturbed>>
            BY <2>7 DEF QueryFails, shared
        <3>2. /\ pc' \in [Tasks -> PCs] /\ data' \in [Tasks -> AllData]
              /\ leader' \in [Procs -> [Keys -> Tasks \cup {Nothing}]]
              /\ cancelled' \subseteq Procs \X Keys /\ StatementsInStep'
            BY <2>1, <3>1, SettleTypes
        <3> QED
            BY <3>1, <3>2 DEF TypeInv, TypeOK, Shapes, AllData
    <2> QED
        BY <1>3, <2>3, <2>4, <2>5, <2>6, <2>7 DEF Lead
<1>4. ASSUME NEW t \in Tasks, Write(t) PROVE TypeInv'
    <2>1. ProcOf[t] \in Procs /\ pc[t] \in WritingPCs /\ stmt[t] \in Writes /\ stmt[t] \notin Keys
        BY <1>4 DEF Write, Commit, WriteFails, InvalidateTables, ClearAll, ClearL2, DeleteL2,
            WritingPCs, TypeInv, StatementsInStep
    <2>2. CASE Commit(t)
        <3> DEFINE new == [x \in Touches[stmt[t]] |-> db[x] + 1]
        <3>1. /\ pc' = [pc EXCEPT ![t] = "committed"] /\ db' = Bumped(stmt[t])
              /\ data' = [data EXCEPT ![t] = new] /\ MayBump(stmt[t])
              /\ UNCHANGED <<stmt, todo, since, l1, tableKeys, leader, cancelled,
                             l2, jobs, acked, disturbed>>
            BY <2>2 DEF Commit, cache
        <3>2. db' \in Versions /\ new \in Written(stmt[t])
            BY <2>1, <3>1, BumpTypes DEF TypeInv, TypeOK
        <3>3. new \in AllData
            BY <2>1, <3>2, RowsTypes
        <3> HIDE DEF new
        <3>4. TypeOK' /\ Shapes'
            BY <3>1, <3>2, <3>3 DEF TypeInv, TypeOK, Shapes, WritingPCs, AllData
        <3>5. StatementsInStep'
            BY <2>1, <3>1, <3>2 DEF TypeInv, TypeOK, Shapes, StatementsInStep, LeadingPCs, WritingPCs
        <3> QED
            BY <3>4, <3>5 DEF TypeInv
    <2>3. CASE WriteFails(t)
        <3>1. /\ pc' = [pc EXCEPT ![t] = "failed"]
              /\ UNCHANGED <<stmt, data, todo, since, l1, tableKeys, leader, cancelled,
                             l2, jobs, db, acked, disturbed>>
            BY <2>3 DEF WriteFails, cache, shared
        <3>2. TypeOK' /\ Shapes'
            BY <3>1 DEF TypeInv, TypeOK, Shapes, EndPCs
        <3>3. StatementsInStep'
            BY <3>1 DEF TypeInv, TypeOK, StatementsInStep, LeadingPCs, WritingPCs
        <3> QED
            BY <3>2, <3>3 DEF TypeInv
    <2>4. CASE InvalidateTables(t) \/ ClearAll(t)
        <3>2. /\ l1' \in [Procs -> [Keys -> AllRows \cup {Nothing}]]
              /\ \A q \in Procs, j \in Keys : l1'[q][j] \in Rows(j) \cup {Nothing}
              /\ tableKeys' \in [Procs -> [Names -> SUBSET Keys]]
            <4>1. CASE InvalidateTables(t)
                BY <2>1, <4>1, DropTypes DEF InvalidateTables
            <4>2. CASE ClearAll(t)
                <5>1. tableKeys' = [tableKeys EXCEPT ![ProcOf[t]] =
                          [n \in Names |-> IF n \in Names THEN {} ELSE @[n]]]
                    BY <4>2 DEF ClearAll
                <5>2. Drop(ProcOf[t], Keys)
                    BY <4>2 DEF ClearAll
                <5> QED
                    BY <2>1, <5>1, <5>2, DropTypes
            <4> QED
                BY <2>4, <4>1, <4>2
        <3>3. /\ \/ pc' = [pc EXCEPT ![t] = "deleting"]
                 \/ pc' = [pc EXCEPT ![t] = "clearing"]
              /\ pc[t] = "committed" /\ todo' \in [Tasks -> SUBSET Names]
              /\ UNCHANGED <<stmt, data, since, leader, cancelled, l2, jobs, db, acked, disturbed>>
            BY <2>1, <2>4 DEF InvalidateTables, ClearAll, shared, TypeInv, TypeOK
        <3>4. TypeOK' /\ Shapes'
            BY <3>2, <3>3 DEF TypeInv, TypeOK, Shapes, WritingPCs
        <3>5. StatementsInStep'
            BY <2>1, <3>3 DEF TypeInv, TypeOK, StatementsInStep, LeadingPCs, WritingPCs
        <3> QED
            BY <3>4, <3>5 DEF TypeInv
    <2>5. CASE ClearL2(t) \/ DeleteL2(t)
        <3>1. PICK keys : DeleteFromL2(keys)
            BY <2>5 DEF ClearL2, DeleteL2
        <3>2. /\ l2' \in [Keys -> AllRows \cup {Nothing}]
              /\ \A k \in Keys : l2'[k] \in Rows(k) \cup {Nothing}
              /\ disturbed' \in BOOLEAN
            BY <3>1, DeletedTypes DEF DeleteFromL2, TypeInv, TypeOK, Shapes
        <3>3. /\ pc[t] \in {"clearing", "deleting"}
              /\ UNCHANGED <<stmt, since, l1, tableKeys, leader, cancelled, jobs, db>>
              /\ todo' \in [Tasks -> SUBSET Names]
              /\ Answer(t) \/ UNCHANGED <<pc, data, acked>>
            <4>1. CASE ClearL2(t)
                BY <4>1 DEF ClearL2, cache, TypeInv, TypeOK
            <4>2. CASE DeleteL2(t)
                BY <4>2 DEF DeleteL2, cache, TypeInv, TypeOK
            <4> QED
                BY <2>5, <4>1, <4>2
        <3>4. CASE Answer(t)
            <4>1. /\ acked' \in Versions /\ data' = [data EXCEPT ![t] = Nothing]
                  /\ pc' = [pc EXCEPT ![t] = "done"]
                BY <3>3, <3>4, AnswerTypes
            <4>2. TypeOK' /\ Shapes'
                BY <3>2, <3>3, <4>1 DEF TypeInv, TypeOK, Shapes, EndPCs, AllData
            <4>3. StatementsInStep'
                BY <2>1, <3>3, <4>1 DEF TypeInv, TypeOK, Shapes, StatementsInStep,
                    LeadingPCs, WritingPCs
            <4> QED
                BY <4>2, <4>3 DEF TypeInv
        <3>5. CASE UNCHANGED <<pc, data, acked>>
            <4>1. TypeOK' /\ Shapes'
                BY <3>2, <3>3, <3>5 DEF TypeInv, TypeOK, Shapes
            <4>2. StatementsInStep'
                BY <3>3, <3>5 DEF TypeInv, StatementsInStep
            <4> QED
                BY <4>1, <4>2 DEF TypeInv
        <3> QED
            BY <3>3, <3>4, <3>5
    <2> QED
        BY <1>4, <2>2, <2>3, <2>4, <2>5 DEF Write
<1>5. ASSUME NEW t \in Tasks, Respond(t) PROVE TypeInv'
    <2>1. NoVersions \in Versions
        BY DEF NoVersions, Versions
    <2>2. TypeOK' /\ Shapes'
        BY <1>5, <2>1 DEF Respond, TypeInv, TypeOK, Shapes, cache, shared, AllData
    <2>3. StatementsInStep'
        BY <1>5 DEF Respond, TypeInv, TypeOK, Shapes, StatementsInStep, LeadingPCs, WritingPCs
    <2> QED
        BY <2>2, <2>3 DEF TypeInv
<1>6. ASSUME NEW t \in Tasks, CancelLeader(t) PROVE TypeInv'
    <2>1. /\ pc[t] \in LeadingPCs /\ Settle(t, "failed", Nothing)
          /\ UNCHANGED <<stmt, todo, since, l1, tableKeys, l2, jobs, db, acked, disturbed>>
        BY <1>6 DEF CancelLeader, shared
    <2>2. /\ pc' \in [Tasks -> PCs] /\ data' \in [Tasks -> AllData]
          /\ leader' \in [Procs -> [Keys -> Tasks \cup {Nothing}]]
          /\ cancelled' \subseteq Procs \X Keys /\ StatementsInStep'
        BY <2>1, SettleTypes
    <2> QED
        BY <2>1, <2>2 DEF TypeInv, TypeOK, Shapes, AllData
<1>7. ASSUME NEW t \in Tasks, CancelFollower(t) PROVE TypeInv'
    <2>1. ProcOf[t] \in Procs /\ stmt[t] \in Keys
        BY <1>7 DEF CancelFollower, TypeInv, StatementsInStep
    <2>2. /\ pc' \in [Tasks -> PCs]
          /\ \A u \in Tasks : pc'[u] \in {pc[u], "failed", "aborted"}
        BY <1>7 DEF CancelFollower, TypeInv, TypeOK, EndPCs
    <2>3. TypeOK' /\ Shapes'
        BY <1>7, <2>1, <2>2 DEF CancelFollower, TypeInv, TypeOK, Shapes, shared
    <2>4. StatementsInStep'
        BY <1>7, <2>2 DEF CancelFollower, TypeInv, StatementsInStep, LeadingPCs, WritingPCs
    <2> QED
        BY <2>3, <2>4 DEF TypeInv
<1>8. ASSUME NEW t \in Tasks, CancelWriter(t) PROVE TypeInv'
    <2>1. pc[t] \in WritingPCs /\ stmt[t] \in Writes
        BY <1>8 DEF CancelWriter, Writing, TypeInv, StatementsInStep
    <2>2. db' \in Versions
        <3>1. \/ db' = db
              \/ MayBump(stmt[t]) /\ db' = Bumped(stmt[t])
            BY <1>8 DEF CancelWriter
        <3>2. db \in Versions
            BY DEF TypeInv, TypeOK
        <3>3. MayBump(stmt[t]) => Bumped(stmt[t]) \in Versions
            BY <2>1, <3>2, BumpTypes
        <3> QED
            BY <3>1, <3>2, <3>3
    <2>3. /\ l2' \in [Keys -> AllRows \cup {Nothing}]
          /\ \A k \in Keys : l2'[k] \in Rows(k) \cup {Nothing}
        <3>1. l2' = l2 \/ \E keys : l2' = DeletedL2(keys)
            BY <1>8 DEF CancelWriter
        <3> QED
            BY <3>1, DeletedTypes DEF TypeInv, TypeOK, Shapes
    <2>4. /\ pc' = [pc EXCEPT ![t] = "failed"] /\ todo' = [todo EXCEPT ![t] = {}]
          /\ UNCHANGED <<stmt, data, since, l1, tableKeys, leader, cancelled, jobs,
                         acked, disturbed>>
        BY <1>8 DEF CancelWriter, cache
    <2>5. TypeOK' /\ Shapes'
        BY <2>2, <2>3, <2>4 DEF TypeInv, TypeOK, Shapes, EndPCs
    <2>6. StatementsInStep'
        BY <2>4 DEF TypeInv, TypeOK, StatementsInStep, LeadingPCs, WritingPCs
    <2> QED
        BY <2>5, <2>6 DEF TypeInv
<1>9. ASSUME NEW job \in jobs, PersistL2(job) PROVE TypeInv'
    <2>1. job.key \in Keys /\ job.rows \in Rows(job.key) /\ job.rows \in AllRows
        BY RowsTypes DEF TypeInv, TypeOK
    <2>2. l2' = l2 \/ l2' = [l2 EXCEPT ![job.key] = job.rows]
        BY <1>9 DEF PersistL2, Upserted
    <2>3. /\ l2' \in [Keys -> AllRows \cup {Nothing}]
          /\ \A k \in Keys : l2'[k] \in Rows(k) \cup {Nothing}
        BY <2>1, <2>2 DEF TypeInv, TypeOK, Shapes
    <2>4. /\ jobs' \subseteq jobs
          /\ UNCHANGED <<pc, stmt, data, todo, since, l1, tableKeys, leader, cancelled,
                         db, acked, disturbed>>
        BY <1>9 DEF PersistL2, requests, cache
    <2>5. TypeOK' /\ Shapes'
        BY <2>3, <2>4 DEF TypeInv, TypeOK, Shapes
    <2>6. StatementsInStep'
        BY <2>4 DEF TypeInv, StatementsInStep
    <2> QED
        BY <2>5, <2>6 DEF TypeInv
<1>10. ASSUME NEW p \in Procs, NEW k \in Keys, ExpireL1(p, k) PROVE TypeInv'
    <2>1. /\ l1' = [l1 EXCEPT ![p][k] = Nothing]
          /\ UNCHANGED <<pc, stmt, data, todo, since, tableKeys, leader, cancelled,
                         l2, jobs, db, acked, disturbed>>
        BY <1>10 DEF ExpireL1, requests, shared
    <2>2. TypeOK' /\ Shapes'
        BY <2>1 DEF TypeInv, TypeOK, Shapes
    <2>3. StatementsInStep'
        BY <2>1 DEF TypeInv, StatementsInStep
    <2> QED
        BY <2>2, <2>3 DEF TypeInv
<1>11. ASSUME NEW k \in Keys, ExpireL2(k) PROVE TypeInv'
    <2>1. /\ l2' = [l2 EXCEPT ![k] = Nothing]
          /\ UNCHANGED <<pc, stmt, data, todo, since, l1, tableKeys, leader, cancelled,
                         jobs, db, acked, disturbed>>
        BY <1>11 DEF ExpireL2, requests, cache
    <2>2. TypeOK' /\ Shapes'
        BY <2>1 DEF TypeInv, TypeOK, Shapes
    <2>3. StatementsInStep'
        BY <2>1 DEF TypeInv, StatementsInStep
    <2> QED
        BY <2>2, <2>3 DEF TypeInv
<1>12. ASSUME NEW p \in Procs, Crash(p) PROVE TypeInv'
    <2>1. NoVersions \in Versions
        BY DEF NoVersions, Versions
    <2>2. TypeOK'
        <3>1. /\ pc' \in [Tasks -> PCs]
              /\ stmt' \in [Tasks -> Keys \cup Writes \cup {Nothing}]
              /\ todo' \in [Tasks -> SUBSET Names]
              /\ since' \in [Tasks -> Versions]
            BY <1>12, <2>1 DEF Crash, TypeInv, TypeOK
        <3>2. /\ \A t \in Tasks : data'[t] \in AllData
              /\ \A q \in Procs, k \in Keys : l1'[q][k] \in Rows(k) \cup {Nothing}
              /\ tableKeys' \in [Procs -> [Names -> SUBSET Keys]]
            BY <1>12 DEF Crash, TypeInv, TypeOK, Shapes, AllData
        <3>3. /\ leader' \in [Procs -> [Keys -> Tasks \cup {Nothing}]]
              /\ cancelled' \subseteq Procs \X Keys
              /\ jobs' \subseteq jobs /\ UNCHANGED <<l2, db, acked, disturbed>>
            BY <1>12 DEF Crash, TypeInv, TypeOK
        <3> QED
            BY <3>1, <3>2, <3>3 DEF TypeInv, TypeOK, AllData
    <2>3. Shapes'
        BY <1>12 DEF Crash, TypeInv, Shapes, AllData
    <2>4. StatementsInStep'
        BY <1>12 DEF Crash, TypeInv, StatementsInStep, LeadingPCs, WritingPCs
    <2> QED
        BY <2>2, <2>3, <2>4 DEF TypeInv
<1>13. CASE UNCHANGED vars
    BY <1>13 DEF vars, TypeInv, TypeOK, Shapes, StatementsInStep
<1> QED
    BY <1>1, <1>2, <1>3, <1>4, <1>5, <1>6, <1>7, <1>8, <1>9, <1>10, <1>11, <1>12, <1>13 DEF Next

-----------------------------------------------------------------------------
(* The single-flight registry *)

(* A step that neither starts nor ends a leader, and adds no follower. *)
LEMMA RegistrySame ==
    ASSUME TypeInv, RegistryInStep, leader' = leader, cancelled' = cancelled,
           \A t \in Tasks : pc'[t] \in LeadingPCs <=> pc[t] \in LeadingPCs,
           \A t \in Tasks : pc'[t] = "following" => pc[t] = "following",
           \A t \in Tasks : pc[t] \in LeadingPCs \cup {"following"} => stmt'[t] = stmt[t]
    PROVE  RegistryInStep'
<1>1. \A p \in Procs, k \in Keys : leader[p][k] # Nothing => leader[p][k] \in Tasks
    BY DEF TypeInv, TypeOK
<1> QED
    BY <1>1 DEF RegistryInStep

(* A leader that ends leaves no follower and no future. *)
LEMMA RegistrySettled ==
    ASSUME TypeInv, RegistryInStep, NEW t \in Tasks, pc[t] \in LeadingPCs,
           NEW outcome \in {"done", "failed"}, NEW rows, Settle(t, outcome, rows), stmt' = stmt
    PROVE  RegistryInStep'
<1> DEFINE p == ProcOf[t]
           k == stmt[t]
           all == {t} \cup Followers(p, k)
<1>1. p \in Procs /\ k \in Keys /\ leader[p][k] = t /\ t # Nothing
    BY CacheAssumption DEF TypeInv, StatementsInStep, RegistryInStep
<1>2. /\ \A u \in Tasks : u \in all => pc'[u] = outcome
      /\ \A u \in Tasks : u \notin all => pc'[u] = pc[u]
      /\ outcome \notin LeadingPCs /\ outcome # "following"
    BY DEF Settle, LeadingPCs
<1>3. /\ leader'[p][k] = Nothing
      /\ \A q \in Procs, j \in Keys : q # p \/ j # k => leader'[q][j] = leader[q][j]
    BY <1>1 DEF Settle, TypeInv, TypeOK
<1>4. cancelled' = cancelled \ {<<p, k>>}
    BY DEF Settle
<1>5. \A u \in Tasks : pc[u] \in LeadingPCs \cup {"following"} =>
          ProcOf[u] \in Procs /\ stmt[u] \in Keys
    BY CacheAssumption DEF TypeInv, StatementsInStep
<1>6. \A u \in Tasks : pc[u] \in LeadingPCs /\ ProcOf[u] = p /\ stmt[u] = k => u = t
    BY <1>1 DEF RegistryInStep
<1>7. \A u \in Tasks : pc[u] = "following" /\ ProcOf[u] = p /\ stmt[u] = k => u \in all
    BY DEF Followers
<1>8. \A u \in Tasks : u \in all => u = t \/ pc[u] = "following"
    BY DEF Followers
<1> HIDE DEF all, p, k
<1>9. \A u \in Tasks : pc'[u] \in LeadingPCs => leader'[ProcOf[u]][stmt'[u]] = u
    BY <1>2, <1>3, <1>5, <1>6, <1>8 DEF RegistryInStep, all
<1>10. ASSUME NEW q \in Procs, NEW j \in Keys, leader'[q][j] # Nothing
       PROVE  /\ pc'[leader'[q][j]] \in LeadingPCs
              /\ ProcOf[leader'[q][j]] = q /\ stmt'[leader'[q][j]] = j
    <2> DEFINE u == leader[q][j]
    <2>1. leader'[q][j] = u /\ (q # p \/ j # k) /\ u # Nothing
        BY <1>3, <1>10
    <2>2. u \in Tasks /\ pc[u] \in LeadingPCs /\ ProcOf[u] = q /\ stmt[u] = j
        BY <2>1 DEF RegistryInStep, TypeInv, TypeOK
    <2>3. u # t
        BY <2>1, <2>2 DEF p, k
    <2>4. pc[u] # "following"
        BY <2>2 DEF LeadingPCs
    <2> QED
        BY <1>2, <1>8, <2>1, <2>2, <2>3, <2>4
<1>11. \A u \in Tasks : pc'[u] = "following" =>
          leader'[ProcOf[u]][stmt'[u]] # Nothing /\ <<ProcOf[u], stmt'[u]>> \notin cancelled'
    BY <1>2, <1>3, <1>4, <1>5, <1>7 DEF RegistryInStep
<1>12. \A q \in Procs, j \in Keys : <<q, j>> \in cancelled' => leader'[q][j] # Nothing
    BY <1>3, <1>4 DEF RegistryInStep
<1> QED
    BY <1>9, <1>10, <1>11, <1>12 DEF RegistryInStep

LEMMA RegistryStarted ==
    ASSUME TypeInv, RegistryInStep, NEW t \in Tasks, NEW k \in Keys, StartRead(t, k)
    PROVE  RegistryInStep'
<1> DEFINE p == ProcOf[t]
<1>1. p \in Procs /\ pc[t] = "idle" /\ t # Nothing
    BY CacheAssumption DEF StartRead
<1>2. /\ stmt'[t] = k /\ \A u \in Tasks \ {t} : stmt'[u] = stmt[u]
      /\ cancelled' = cancelled
    BY DEF StartRead, TypeInv, TypeOK
<1>3. \A u \in Tasks : pc[u] \in LeadingPCs \cup {"following"} =>
          u # t /\ ProcOf[u] \in Procs /\ stmt[u] \in Keys
    BY <1>1, CacheAssumption DEF TypeInv, StatementsInStep, LeadingPCs
<1>4. CASE /\ leader' = leader
           /\ pc' = [pc EXCEPT ![t] = "done"] \/ pc' = [pc EXCEPT ![t] = "aborted"]
    <2>1. \A u \in Tasks : pc'[u] \in LeadingPCs <=> pc[u] \in LeadingPCs
        BY <1>1, <1>4 DEF TypeInv, TypeOK, LeadingPCs
    <2>2. \A u \in Tasks : pc'[u] = "following" => pc[u] = "following"
        BY <1>4 DEF TypeInv, TypeOK
    <2> QED
        BY <1>2, <1>3, <1>4, <2>1, <2>2, RegistrySame
<1>5. CASE /\ pc' = [pc EXCEPT ![t] = "l2_read"] /\ leader[p][k] = Nothing
           /\ leader' = [leader EXCEPT ![p][k] = t]
    <2>1. /\ pc'[t] = "l2_read" /\ \A u \in Tasks \ {t} : pc'[u] = pc[u]
          /\ leader'[p][k] = t
          /\ \A q \in Procs, j \in Keys : q # p \/ j # k => leader'[q][j] = leader[q][j]
        BY <1>1, <1>5 DEF TypeInv, TypeOK
    <2>2. \A u \in Tasks : pc[u] \in LeadingPCs \cup {"following"} =>
              ProcOf[u] # p \/ stmt[u] # k
        <3>1. \A u \in Tasks : pc[u] \in LeadingPCs \cup {"following"} =>
                  leader[ProcOf[u]][stmt[u]] # Nothing
            <4>1. \A u \in Tasks : u # Nothing
                BY CacheAssumption
            <4>2. \A u \in Tasks : pc[u] \in LeadingPCs => leader[ProcOf[u]][stmt[u]] = u
                BY DEF RegistryInStep
            <4>3. \A u \in Tasks : pc[u] = "following" => leader[ProcOf[u]][stmt[u]] # Nothing
                BY DEF RegistryInStep
            <4> QED
                BY <4>1, <4>2, <4>3
        <3> QED
            BY <1>5, <3>1
    <2>3. \A u \in Tasks : pc'[u] \in LeadingPCs => leader'[ProcOf[u]][stmt'[u]] = u
        BY <1>2, <1>3, <2>1, <2>2 DEF RegistryInStep
    <2>4. \A q \in Procs, j \in Keys : leader[q][j] # Nothing => leader[q][j] \in Tasks \ {t}
        BY <1>3 DEF TypeInv, TypeOK, RegistryInStep
    <2>5. "l2_read" \in LeadingPCs
        BY DEF LeadingPCs
    <2>6. \A q \in Procs, j \in Keys : leader'[q][j] # Nothing =>
              /\ pc'[leader'[q][j]] \in LeadingPCs
              /\ ProcOf[leader'[q][j]] = q /\ stmt'[leader'[q][j]] = j
        BY <1>2, <2>1, <2>4, <2>5 DEF RegistryInStep
    <2>7. \A u \in Tasks : pc'[u] = "following" =>
              leader'[ProcOf[u]][stmt'[u]] # Nothing /\ <<ProcOf[u], stmt'[u]>> \notin cancelled'
        BY <1>2, <1>3, <2>1, <2>2 DEF RegistryInStep
    <2>8. \A q \in Procs, j \in Keys : <<q, j>> \in cancelled' => leader'[q][j] # Nothing
        BY <1>1, <1>2, <2>1 DEF RegistryInStep
    <2> QED
        BY <2>3, <2>6, <2>7, <2>8 DEF RegistryInStep
<1>6. CASE /\ pc' = [pc EXCEPT ![t] = "following"] /\ leader' = leader
           /\ leader[p][k] # Nothing /\ <<p, k>> \notin cancelled
    <2>1. /\ pc'[t] = "following" /\ \A u \in Tasks \ {t} : pc'[u] = pc[u]
          /\ \A q \in Procs, j \in Keys : leader[q][j] # Nothing => leader[q][j] \in Tasks \ {t}
        BY <1>3, <1>6 DEF TypeInv, TypeOK, RegistryInStep
    <2>2. "following" \notin LeadingPCs
        BY DEF LeadingPCs
    <2> QED
        BY <1>2, <1>3, <1>6, <2>1, <2>2 DEF RegistryInStep
<1> QED
    <2>1. CASE InL1(p, k)
        BY <2>1, <1>4 DEF StartRead
    <2>2. CASE leader[p][k] = Nothing
        BY <2>2, <1>4, <1>5 DEF StartRead
    <2>3. CASE leader[p][k] # Nothing /\ <<p, k>> \in cancelled
        BY <2>3, <1>4 DEF StartRead
    <2>4. CASE leader[p][k] # Nothing /\ <<p, k>> \notin cancelled
        BY <2>4, <1>4, <1>6 DEF StartRead
    <2> QED
        BY <2>1, <2>2, <2>3, <2>4

LEMMA RegistryCancelled ==
    ASSUME TypeInv, RegistryInStep, NEW t \in Tasks, CancelFollower(t)
    PROVE  RegistryInStep'
<1> DEFINE p == ProcOf[t]
           k == stmt[t]
<1>1. p \in Procs /\ k \in Keys /\ pc[t] = "following" /\ leader[p][k] # Nothing
    BY CacheAssumption DEF CancelFollower, TypeInv, StatementsInStep, RegistryInStep
<1>2. /\ stmt' = stmt /\ leader' = leader /\ cancelled' = cancelled \cup {<<p, k>>}
      /\ \A u \in Tasks : pc'[u] = IF u = t THEN "failed"
                                   ELSE IF u \in Followers(p, k) THEN "aborted" ELSE pc[u]
    BY DEF CancelFollower
<1>3. \A u \in Tasks : pc[u] \in LeadingPCs => pc'[u] = pc[u]
    BY <1>1, <1>2 DEF Followers, LeadingPCs
<1>4. \A u \in Tasks : pc'[u] \in LeadingPCs \cup {"following"} => pc'[u] = pc[u]
    BY <1>2 DEF LeadingPCs
<1>5. \A u \in Tasks : pc'[u] = "following" =>
          pc[u] = "following" /\ (ProcOf[u] # p \/ stmt[u] # k)
    BY <1>2 DEF Followers
<1>6. \A q \in Procs, j \in Keys : leader[q][j] # Nothing => leader[q][j] \in Tasks
    BY DEF TypeInv, TypeOK
<1> HIDE DEF p, k
<1> QED
    BY <1>1, <1>2, <1>3, <1>4, <1>5, <1>6 DEF RegistryInStep

LEMMA RegistryCrashed ==
    ASSUME TypeInv, RegistryInStep, NEW p \in Procs, Crash(p)
    PROVE  RegistryInStep'
<1>1. \A t \in Tasks : /\ ProcOf[t] = p => pc'[t] = "idle"
                       /\ ProcOf[t] # p => pc'[t] = pc[t] /\ stmt'[t] = stmt[t]
    BY DEF Crash
<1>2. \A q \in Procs, k \in Keys : leader'[q][k] = IF q = p THEN Nothing ELSE leader[q][k]
    BY DEF Crash, TypeInv, TypeOK
<1>3. \A q \in Procs, k \in Keys : <<q, k>> \in cancelled' => q # p /\ <<q, k>> \in cancelled
    BY DEF Crash
<1>4. cancelled' \subseteq cancelled
    BY DEF Crash
<1>5. \A q \in Procs, k \in Keys : leader[q][k] # Nothing => leader[q][k] \in Tasks
    BY DEF TypeInv, TypeOK
<1>6. \A t \in Tasks : pc[t] \in LeadingPCs \cup {"following"} =>
          ProcOf[t] \in Procs /\ stmt[t] \in Keys
    BY CacheAssumption DEF TypeInv, StatementsInStep
<1>7. "idle" \notin LeadingPCs \cup {"following"}
    BY DEF LeadingPCs
<1> QED
    BY <1>1, <1>2, <1>3, <1>4, <1>5, <1>6, <1>7 DEF RegistryInStep

LEMMA RegistryStep == TypeInv /\ RegistryInStep /\ [Next]_vars => RegistryInStep'
<1> SUFFICES ASSUME TypeInv, RegistryInStep, [Next]_vars PROVE RegistryInStep'
    OBVIOUS
<1>1. ASSUME NEW t \in Tasks,
             Write(t) \/ Respond(t) \/ CancelWriter(t) \/ \E w \in Writes : StartWrite(t, w)
      PROVE  RegistryInStep'
    <2>1. leader' = leader /\ cancelled' = cancelled
        BY <1>1 DEF Write, Commit, WriteFails, InvalidateTables, ClearAll, ClearL2, DeleteL2,
            Respond, CancelWriter, StartWrite, cache
    <2>2. /\ pc[t] \notin LeadingPCs \cup {"following"} /\ pc'[t] \notin LeadingPCs \cup {"following"}
          /\ \A u \in Tasks \ {t} : pc'[u] = pc[u] /\ stmt'[u] = stmt[u]
        BY <1>1 DEF Write, Commit, WriteFails, InvalidateTables, ClearAll, ClearL2, DeleteL2,
            Answer, Respond, CancelWriter, StartWrite, Writing, WritingPCs, LeadingPCs, EndPCs,
            TypeInv, TypeOK
    <2> QED
        BY <2>1, <2>2, RegistrySame
<1>2. ASSUME NEW t \in Tasks, L2Read(t) \/ L2ReadFails(t) \/ RunQuery(t) PROVE RegistryInStep'
    <2>1. leader' = leader /\ cancelled' = cancelled /\ stmt' = stmt
        BY <1>2 DEF L2Read, L2ReadFails, RunQuery, cache
    <2>2. /\ pc[t] \in LeadingPCs /\ pc'[t] \in LeadingPCs
          /\ \A u \in Tasks \ {t} : pc'[u] = pc[u]
        BY <1>2 DEF L2Read, L2ReadFails, RunQuery, LeadingPCs, TypeInv, TypeOK
    <2>3. "following" \notin LeadingPCs
        BY DEF LeadingPCs
    <2> QED
        BY <2>1, <2>2, <2>3, RegistrySame
<1>3. ASSUME NEW t \in Tasks,
             FinishL2Hit(t) \/ FinishMiss(t) \/ QueryFails(t) \/ CancelLeader(t)
      PROVE  RegistryInStep'
    <2>1. pc[t] \in LeadingPCs /\ stmt' = stmt
        BY <1>3 DEF FinishL2Hit, FinishMiss, QueryFails, CancelLeader, LeadingPCs
    <2>2. \E outcome \in {"done", "failed"}, rows \in {data[t], Nothing} : Settle(t, outcome, rows)
        BY <1>3 DEF FinishL2Hit, FinishMiss, QueryFails, CancelLeader
    <2> QED
        BY <2>1, <2>2, RegistrySettled
<1>4. ASSUME UNCHANGED <<pc, stmt, leader, cancelled>> PROVE RegistryInStep'
    BY <1>4 DEF RegistryInStep
<1>5. CASE \E job \in jobs : PersistL2(job)
    BY <1>4, <1>5 DEF PersistL2, requests, cache
<1>6. CASE \E p \in Procs, k \in Keys : ExpireL1(p, k)
    BY <1>4, <1>6 DEF ExpireL1, requests
<1>7. CASE \E k \in Keys : ExpireL2(k)
    BY <1>4, <1>7 DEF ExpireL2, requests, cache
<1>8. CASE UNCHANGED vars
    BY <1>4, <1>8 DEF vars
<1> QED
    BY <1>1, <1>2, <1>3, <1>5, <1>6, <1>7, <1>8, RegistryStarted, RegistryCancelled,
        RegistryCrashed DEF Next, Lead

-----------------------------------------------------------------------------
(* The table index of L1 *)

(* Every entry put is tagged in the same step; what leaves L1 needs no tag. *)
LEMMA IndexedPut ==
    ASSUME TypeInv, L1EntriesAreIndexed, NEW p \in Procs, NEW k \in Keys, NEW rows,
           PutL1(p, k, rows)
    PROVE  L1EntriesAreIndexed'
<1>1. \A q \in Procs, j \in Keys : l1'[q][j] # Nothing => l1[q][j] # Nothing \/ (q = p /\ j = k)
    <2>1. l1 \in [Procs -> [Keys -> AllRows \cup {Nothing}]]
        BY DEF TypeInv, Shapes
    <2>2. ASSUME l1' = [l1 EXCEPT ![p][k] = rows]
          PROVE  \A q \in Procs, j \in Keys :
                    l1'[q][j] # Nothing => l1[q][j] # Nothing \/ (q = p /\ j = k)
        BY <2>1, <2>2
    <2>3. ASSUME NEW victim \in Keys, l1' = [l1 EXCEPT ![p][victim] = Nothing, ![p][k] = rows]
          PROVE  \A q \in Procs, j \in Keys :
                    l1'[q][j] # Nothing => l1[q][j] # Nothing \/ (q = p /\ j = k)
        BY <2>1, <2>3
    <2> QED
        BY <2>2, <2>3 DEF PutL1
<1>2. \A q \in Procs, n \in Names : tableKeys[q][n] \subseteq tableKeys'[q][n]
    BY DEF PutL1, TypeInv, TypeOK
<1>3. \A n \in KeyNames[k] : n \in Names /\ k \in tableKeys'[p][n]
    BY CacheAssumption DEF PutL1, TypeInv, TypeOK
<1>4. \A j \in Keys : KeyNames[j] \subseteq Names
    BY CacheAssumption
<1> QED
    BY <1>1, <1>2, <1>3, <1>4 DEF L1EntriesAreIndexed

(* The index forgets names whose tagged keys leave L1 in the same step.    *)
LEMMA IndexedDrop ==
    ASSUME TypeInv, L1EntriesAreIndexed, NEW p \in Procs, NEW names, NEW keys, Drop(p, keys),
           \A n \in Names, k \in Keys : n \in names /\ k \in tableKeys[p][n] => k \in keys,
           tableKeys' = [tableKeys EXCEPT ![p] =
              [n \in Names |-> IF n \in names THEN {} ELSE @[n]]]
    PROVE  L1EntriesAreIndexed'
<1>1. \A q \in Procs, k \in Keys : l1'[q][k] # Nothing =>
          l1[q][k] # Nothing /\ (q = p => k \notin keys)
    BY DEF Drop, TypeInv, Shapes
<1>2. \A q \in Procs, n \in Names :
          tableKeys'[q][n] = IF q = p /\ n \in names THEN {} ELSE tableKeys[q][n]
    BY DEF TypeInv, TypeOK
<1>3. \A k \in Keys : KeyNames[k] \subseteq Names
    BY CacheAssumption
<1> QED
    BY <1>1, <1>2, <1>3 DEF L1EntriesAreIndexed

LEMMA IndexedStep == TypeInv /\ L1EntriesAreIndexed /\ [Next]_vars => L1EntriesAreIndexed'
<1> SUFFICES ASSUME TypeInv, L1EntriesAreIndexed, [Next]_vars PROVE L1EntriesAreIndexed'
    OBVIOUS
<1>1. ASSUME UNCHANGED <<l1, tableKeys>> PROVE L1EntriesAreIndexed'
    BY <1>1 DEF L1EntriesAreIndexed
<1>2. ASSUME NEW t \in Tasks, FinishL2Hit(t) \/ FinishMiss(t) PROVE L1EntriesAreIndexed'
    <2>1. ProcOf[t] \in Procs /\ stmt[t] \in Keys /\ PutL1(ProcOf[t], stmt[t], data[t])
        BY <1>2, CacheAssumption DEF FinishL2Hit, FinishMiss, TypeInv, StatementsInStep, LeadingPCs
    <2> QED
        BY <2>1, IndexedPut
<1>3. ASSUME NEW t \in Tasks, InvalidateTables(t) PROVE L1EntriesAreIndexed'
    <2> DEFINE p == ProcOf[t]
               names == WriteNames[stmt[t]]
               keys == TaggedKeys(p, names)
    <2>1. /\ p \in Procs /\ Drop(p, keys)
          /\ tableKeys' = [tableKeys EXCEPT ![p] =
                [n \in Names |-> IF n \in names THEN {} ELSE @[n]]]
        BY <1>3, CacheAssumption DEF InvalidateTables
    <2>2. \A n \in Names, k \in Keys : n \in names /\ k \in tableKeys[p][n] => k \in keys
        BY DEF TaggedKeys
    <2> HIDE DEF p, names, keys
    <2> QED
        BY <2>1, <2>2, IndexedDrop
<1>4. ASSUME NEW t \in Tasks, ClearAll(t) PROVE L1EntriesAreIndexed'
    <2>1. /\ ProcOf[t] \in Procs /\ Drop(ProcOf[t], Keys)
          /\ tableKeys' = [tableKeys EXCEPT ![ProcOf[t]] =
                [n \in Names |-> IF n \in Names THEN {} ELSE @[n]]]
        BY <1>4, CacheAssumption DEF ClearAll
    <2> QED
        BY <2>1, IndexedDrop
<1>5. ASSUME NEW p \in Procs, NEW k \in Keys, ExpireL1(p, k) PROVE L1EntriesAreIndexed'
    <2>1. tableKeys' = tableKeys /\ \A q \in Procs, j \in Keys : l1'[q][j] # Nothing => l1[q][j] # Nothing
        BY <1>5 DEF ExpireL1, TypeInv, Shapes
    <2> QED
        BY <2>1 DEF L1EntriesAreIndexed
<1>6. ASSUME NEW p \in Procs, Crash(p) PROVE L1EntriesAreIndexed'
    <2>1. \A q \in Procs : /\ q = p => l1'[q] = [k \in Keys |-> Nothing]
                           /\ q # p => l1'[q] = l1[q] /\ tableKeys'[q] = tableKeys[q]
        BY <1>6 DEF Crash, TypeInv, TypeOK, Shapes
    <2> QED
        BY <2>1 DEF L1EntriesAreIndexed
<1>7. ASSUME NEW t \in Tasks,
             \/ \E k \in Keys : StartRead(t, k)
             \/ \E w \in Writes : StartWrite(t, w)
             \/ L2Read(t) \/ L2ReadFails(t) \/ RunQuery(t) \/ QueryFails(t)
             \/ Commit(t) \/ WriteFails(t) \/ ClearL2(t) \/ DeleteL2(t)
             \/ Respond(t) \/ CancelLeader(t) \/ CancelFollower(t) \/ CancelWriter(t)
      PROVE  UNCHANGED <<l1, tableKeys>>
    BY <1>7 DEF StartRead, StartWrite, L2Read, L2ReadFails, RunQuery, QueryFails, Commit,
        WriteFails, ClearL2, DeleteL2, Respond, CancelLeader, CancelFollower, CancelWriter, cache
<1>8. CASE \/ \E job \in jobs : PersistL2(job)
           \/ \E k \in Keys : ExpireL2(k)
           \/ UNCHANGED vars
    BY <1>1, <1>8 DEF PersistL2, ExpireL2, vars, cache
<1> QED
    BY <1>1, <1>2, <1>3, <1>4, <1>5, <1>6, <1>7, <1>8 DEF Next, Lead, Write

-----------------------------------------------------------------------------
(* The theorems of any number of processes *)

LEMMA CacheInvariant == Spec => []CacheInv
<1>1. Init => CacheInv
    <2>1. Init => RegistryInStep
        BY DEF Init, RegistryInStep, LeadingPCs
    <2>2. Init => L1EntriesAreIndexed
        BY DEF Init, L1EntriesAreIndexed
    <2> QED
        BY <2>1, <2>2, TypeInit DEF CacheInv
<1>2. CacheInv /\ [Next]_vars => CacheInv'
    BY TypeStep, RegistryStep, IndexedStep DEF CacheInv
<1> QED
    BY <1>1, <1>2, PTL DEF Spec

(* Every variable of the coordinator, the shared cache and the requests    *)
(* stays in its type (query_cache_coordinator.py:60-105).                  *)
THEOREM CacheTypeCorrect == Spec => []TypeOK
<1>1. CacheInv => TypeOK
    BY DEF CacheInv, TypeInv
<1> QED
    BY <1>1, CacheInvariant, PTL

(* query_cache_coordinator.py:20-25: per process and statement one request *)
(* at a time reads L2 or runs the query, whoever is cancelled or fails.    *)
THEOREM OneFlightPerKey == Spec => []SingleFlight
<1>1. CacheInv => SingleFlight
    BY DEF CacheInv, RegistryInStep, SingleFlight
<1> QED
    BY <1>1, CacheInvariant, PTL

(* Nobody waits on a future that no request will settle.                   *)
THEOREM NobodyWaitsForNobody == Spec => []FollowersHaveLeader
<1>1. CacheInv => FollowersHaveLeader
    <2> SUFFICES ASSUME CacheInv, NEW t \in Tasks, pc[t] = "following"
                 PROVE  LET p == ProcOf[t]
                            k == stmt[t]
                        IN  /\ leader[p][k] # Nothing /\ <<p, k>> \notin cancelled
                            /\ pc[leader[p][k]] \in LeadingPCs /\ stmt[leader[p][k]] = k
        BY DEF FollowersHaveLeader
    <2>1. ProcOf[t] \in Procs /\ stmt[t] \in Keys
        BY CacheAssumption DEF CacheInv, TypeInv, StatementsInStep
    <2> QED
        BY <2>1 DEF CacheInv, RegistryInStep
<1> QED
    BY <1>1, CacheInvariant, PTL

(* invalidate_tables() finds every L1 entry under each of its names.       *)
THEOREM EntriesAreFound == Spec => []L1EntriesAreIndexed
<1>1. CacheInv => L1EntriesAreIndexed
    BY DEF CacheInv
<1> QED
    BY <1>1, CacheInvariant, PTL

-----------------------------------------------------------------------------
(* Freshness, in one process *)

(* A step that answers nothing, starts no read and commits nothing for a   *)
(* request that goes on.                                                   *)
LEMMA ClocksSame ==
    ASSUME TypeInv, TypeInv', ClocksInStep, acked' = acked, \A x \in Tables : db[x] <= db'[x],
           \A t \in Tasks : Reading(t)' => Reading(t) /\ since'[t] = since[t],
           \A t \in Tasks : pc'[t] \in {"committed", "clearing", "deleting"} =>
              /\ pc[t] \in {"committed", "clearing", "deleting"}
              /\ stmt'[t] = stmt[t] /\ data'[t] = data[t]
    PROVE  ClocksInStep'
<1>1. \A x \in Tables : acked[x] \in Nat /\ db[x] \in Nat /\ db'[x] \in Nat
    BY CacheAssumption DEF TypeInv, TypeOK, Versions
<1>2. \A t \in Tasks : pc[t] \in {"committed", "clearing", "deleting"} =>
          \A x \in Touches[stmt[t]] : x \in Tables /\ data[t][x] \in Nat
    BY CacheAssumption DEF TypeInv, StatementsInStep, Written, WritingPCs
<1>3. \A x \in Tables : acked'[x] <= db'[x]
    BY <1>1 DEF ClocksInStep
<1>4. \A t \in Tasks, x \in Tables : Reading(t)' => since'[t][x] <= acked'[x]
    BY DEF ClocksInStep
<1>5. \A t \in Tasks : pc'[t] \in {"committed", "clearing", "deleting"} =>
          \A x \in Touches[stmt'[t]] : data'[t][x] <= db'[x]
    BY <1>1, <1>2 DEF ClocksInStep
<1> QED
    BY <1>3, <1>4, <1>5 DEF ClocksInStep

LEMMA ClocksStarted ==
    ASSUME TypeInv, TypeInv', ClocksInStep, NEW t \in Tasks, NEW k \in Keys, StartRead(t, k)
    PROVE  ClocksInStep'
<1>1. /\ since'[t] = acked /\ acked' = acked /\ db' = db
      /\ pc'[t] \in {"done", "l2_read", "aborted", "following"}
      /\ \A u \in Tasks \ {t} : /\ pc'[u] = pc[u] /\ since'[u] = since[u]
                                /\ data'[u] = data[u] /\ stmt'[u] = stmt[u]
    BY DEF StartRead, TypeInv, TypeOK, Shapes
<1>2. \A x \in Tables : acked[x] \in Nat
    BY DEF TypeInv, TypeOK, Versions
<1>3. \A u \in Tasks, x \in Tables : Reading(u)' => since'[u][x] <= acked'[x]
    BY <1>1, <1>2 DEF ClocksInStep, Reading
<1> QED
    BY <1>1, <1>3 DEF ClocksInStep

LEMMA ClocksCommitted ==
    ASSUME TypeInv, TypeInv', ClocksInStep, NEW t \in Tasks, Commit(t)
    PROVE  ClocksInStep'
<1> DEFINE w == stmt[t]
<1>1. w \in Writes /\ MayBump(w) /\ db \in Versions
    BY DEF Commit, TypeInv, TypeOK, StatementsInStep, WritingPCs
<1>2. /\ db' = Bumped(w) /\ acked' = acked /\ since' = since /\ stmt' = stmt
      /\ pc'[t] = "committed" /\ data'[t] = [x \in Touches[w] |-> db[x] + 1]
      /\ \A u \in Tasks \ {t} : pc'[u] = pc[u] /\ data'[u] = data[u]
    BY DEF Commit, TypeInv, TypeOK, Shapes
<1>3. /\ \A x \in Tables : acked[x] \in Nat /\ db[x] \in Nat /\ db'[x] \in Nat /\ db[x] <= db'[x]
      /\ \A x \in Touches[w] : x \in Tables /\ db'[x] = db[x] + 1
    <2>1. /\ \A x \in Tables : Bumped(w)[x] >= db[x]
          /\ \A x \in Touches[w] : x \in Tables /\ Bumped(w)[x] = db[x] + 1
        BY <1>1, BumpTypes
    <2>2. \A x \in Tables : acked[x] \in Nat /\ db[x] \in Nat /\ db'[x] \in Nat
        BY DEF TypeInv, TypeOK, Versions
    <2> QED
        BY <1>2, <2>1, <2>2
<1>4. \A u \in Tasks : pc[u] \in {"committed", "clearing", "deleting"} =>
          \A x \in Touches[stmt[u]] : x \in Tables /\ data[u][x] \in Nat
    BY CacheAssumption DEF TypeInv, StatementsInStep, Written, WritingPCs
<1>5. \A x \in Tables : acked'[x] <= db'[x]
    BY <1>2, <1>3 DEF ClocksInStep
<1>6. \A u \in Tasks, x \in Tables : Reading(u)' => since'[u][x] <= acked'[x]
    BY <1>2 DEF ClocksInStep, Reading, LeadingPCs
<1>7. \A x \in Touches[w] : data'[t][x] <= db'[x]
    BY <1>2, <1>3
<1>8. ASSUME NEW u \in Tasks \ {t}, pc'[u] \in {"committed", "clearing", "deleting"},
             NEW x \in Touches[stmt'[u]]
      PROVE  data'[u][x] <= db'[x]
    <2>1. x \in Tables /\ data[u][x] \in Nat /\ data[u][x] <= db[x] /\ data'[u][x] = data[u][x]
        BY <1>2, <1>4, <1>8 DEF ClocksInStep
    <2> QED
        BY <1>3, <2>1
<1> HIDE DEF w
<1> QED
    BY <1>2, <1>5, <1>6, <1>7, <1>8 DEF ClocksInStep, w

(* What is answered had been committed. *)
LEMMA ClocksAnswered ==
    ASSUME TypeInv, TypeInv', ClocksInStep, NEW t \in Tasks, pc[t] \in {"clearing", "deleting"},
           Answer(t), UNCHANGED <<stmt, since, db>>
    PROVE  /\ ClocksInStep'
           /\ \A x \in Tables : acked[x] <= acked'[x]
           /\ \A x \in Tables : x \notin Touches[stmt[t]] => acked'[x] = acked[x]
<1>1. /\ data' = [data EXCEPT ![t] = Nothing] /\ pc' = [pc EXCEPT ![t] = "done"]
      /\ \A x \in Tables : acked'[x] = IF x \in Touches[stmt[t]] /\ acked[x] < data[t][x]
                                       THEN data[t][x] ELSE acked[x]
    BY AnswerTypes
<1>2. /\ pc'[t] = "done" /\ \A u \in Tasks \ {t} : pc'[u] = pc[u] /\ data'[u] = data[u]
    BY <1>1 DEF TypeInv, TypeOK, Shapes
<1>3. \A x \in Tables : acked[x] \in Nat /\ db[x] \in Nat /\ acked'[x] \in Nat
    BY DEF TypeInv, TypeOK, Versions
<1>4. \A x \in Touches[stmt[t]] : data[t][x] \in Nat /\ data[t][x] <= db[x]
    BY CacheAssumption DEF TypeInv, StatementsInStep, Written, WritingPCs, ClocksInStep
<1>5. \A x \in Tables : acked[x] <= acked'[x] /\ acked'[x] <= db[x]
    BY <1>1, <1>3, <1>4 DEF ClocksInStep
<1>6. \A u \in Tasks, x \in Tables : Reading(u) => since[u][x] \in Nat
    BY DEF TypeInv, TypeOK, Versions
<1>7. \A u \in Tasks, x \in Tables : Reading(u)' => since'[u][x] <= acked'[x]
    BY <1>2, <1>3, <1>5, <1>6 DEF ClocksInStep, Reading, LeadingPCs
<1>8. \A u \in Tasks : pc'[u] \in {"committed", "clearing", "deleting"} =>
          \A x \in Touches[stmt'[u]] : data'[u][x] <= db'[x]
    BY <1>2 DEF ClocksInStep
<1> QED
    BY <1>1, <1>5, <1>7, <1>8 DEF ClocksInStep

LEMMA ClocksStep ==
    TypeInv /\ TypeInv' /\ ClocksInStep /\ [Next]_vars => ClocksInStep'
<1> SUFFICES ASSUME TypeInv, TypeInv', ClocksInStep, [Next]_vars PROVE ClocksInStep'
    OBVIOUS
<1>1. /\ LeadingPCs \cap {"committed", "clearing", "deleting"} = {}
      /\ {"committed", "clearing", "deleting"} \subseteq WritingPCs
      /\ EndPCs \cap (LeadingPCs \cup WritingPCs \cup {"following"}) = {}
      /\ {"done", "failed", "aborted"} = EndPCs
      /\ {"idle", "following"} \cap (LeadingPCs \cup WritingPCs) = {}
      /\ \A t \in Tasks : Reading(t) <=> pc[t] \in LeadingPCs \cup {"following"}
      /\ \A t \in Tasks : Reading(t)' <=> pc'[t] \in LeadingPCs \cup {"following"}
    BY DEF LeadingPCs, WritingPCs, EndPCs, Reading
<1>2. \A x \in Tables : db[x] \in Nat
    BY DEF TypeInv, TypeOK, Versions
<1>3. ASSUME UNCHANGED <<acked, db, since, stmt>>, NEW t \in Tasks,
             \/ pc[t] \in LeadingPCs /\ pc'[t] \in LeadingPCs
             \/ pc'[t] \in EndPCs \cup {"idle"}
             \/ pc[t] \in {"committed", "deleting"} /\ pc'[t] \in {"clearing", "deleting"}
                /\ data'[t] = data[t],
             \A u \in Tasks \ {t} : pc'[u] = pc[u] /\ data'[u] = data[u]
      PROVE  ClocksInStep'
    BY <1>1, <1>2, <1>3, ClocksSame
<1>4. ASSUME NEW t \in Tasks, L2Read(t) \/ L2ReadFails(t) \/ RunQuery(t) PROVE ClocksInStep'
    <2>1. UNCHANGED <<acked, db, since, stmt>> /\ pc[t] \in LeadingPCs /\ pc'[t] \in LeadingPCs
        BY <1>4 DEF L2Read, L2ReadFails, RunQuery, shared, LeadingPCs, TypeInv, TypeOK
    <2>2. \A u \in Tasks \ {t} : pc'[u] = pc[u] /\ data'[u] = data[u]
        BY <1>4 DEF L2Read, L2ReadFails, RunQuery, TypeInv, TypeOK, Shapes
    <2> QED
        BY <1>3, <2>1, <2>2
<1>5. ASSUME NEW t \in Tasks,
             FinishL2Hit(t) \/ FinishMiss(t) \/ QueryFails(t) \/ CancelLeader(t)
      PROVE  ClocksInStep'
    <2>1. /\ UNCHANGED <<acked, db, since, stmt>>
          /\ \E outcome \in {"done", "failed"}, rows \in {data[t], Nothing} : Settle(t, outcome, rows)
        BY <1>5 DEF FinishL2Hit, FinishMiss, QueryFails, CancelLeader, shared
    <2>2. \A u \in Tasks : pc'[u] \in EndPCs \/ (pc'[u] = pc[u] /\ data'[u] = data[u])
        BY <1>1, <2>1 DEF Settle
    <2> QED
        BY <1>1, <1>2, <2>1, <2>2, ClocksSame
<1>6. ASSUME NEW t \in Tasks,
             WriteFails(t) \/ InvalidateTables(t) \/ ClearAll(t)
      PROVE  ClocksInStep'
    <2>1. /\ UNCHANGED <<acked, db, since, stmt, data>>
          /\ \A u \in Tasks \ {t} : pc'[u] = pc[u]
          /\ \/ pc'[t] = "failed"
             \/ pc[t] = "committed" /\ pc'[t] \in {"clearing", "deleting"}
        BY <1>6 DEF WriteFails, InvalidateTables, ClearAll, shared, TypeInv, TypeOK
    <2> QED
        BY <1>1, <1>3, <2>1
<1>7. ASSUME NEW t \in Tasks, ClearL2(t) \/ DeleteL2(t) PROVE ClocksInStep'
    <2>1. /\ pc[t] \in {"clearing", "deleting"} /\ UNCHANGED <<stmt, since, db>>
          /\ Answer(t) \/ UNCHANGED <<pc, data, acked>>
        BY <1>7 DEF ClearL2, DeleteL2
    <2>2. CASE Answer(t)
        BY <2>1, <2>2, ClocksAnswered
    <2>3. CASE UNCHANGED <<pc, data, acked>>
        BY <2>1, <2>3 DEF ClocksInStep, Reading
    <2> QED
        BY <2>1, <2>2, <2>3
<1>8. ASSUME NEW t \in Tasks, NEW w \in Writes, StartWrite(t, w) PROVE ClocksInStep'
    <2>1. /\ UNCHANGED <<acked, db, since, data>> /\ pc'[t] = "writing"
          /\ \A u \in Tasks \ {t} : pc'[u] = pc[u] /\ stmt'[u] = stmt[u]
        BY <1>8 DEF StartWrite, TypeInv, TypeOK
    <2>2. "writing" \notin LeadingPCs \cup {"following"}
        BY DEF LeadingPCs
    <2> QED
        BY <1>1, <1>2, <2>1, <2>2, ClocksSame
<1>9. ASSUME NEW t \in Tasks, Respond(t) PROVE ClocksInStep'
    <2>1. /\ UNCHANGED <<acked, db>> /\ pc'[t] = "idle"
          /\ \A u \in Tasks \ {t} : /\ pc'[u] = pc[u] /\ stmt'[u] = stmt[u]
                                    /\ since'[u] = since[u] /\ data'[u] = data[u]
        BY <1>9 DEF Respond, shared, TypeInv, TypeOK, Shapes
    <2> QED
        BY <1>1, <1>2, <2>1, ClocksSame
<1>10. ASSUME NEW t \in Tasks, CancelFollower(t) PROVE ClocksInStep'
    <2>1. /\ UNCHANGED <<acked, db, since, stmt, data>>
          /\ \A u \in Tasks : pc'[u] \in EndPCs \/ pc'[u] = pc[u]
        BY <1>1, <1>10 DEF CancelFollower, shared
    <2> QED
        BY <1>1, <1>2, <2>1, ClocksSame
<1>11. ASSUME NEW t \in Tasks, CancelWriter(t) PROVE ClocksInStep'
    <2>1. /\ UNCHANGED <<acked, since, stmt, data>> /\ pc'[t] \in EndPCs
          /\ \A u \in Tasks \ {t} : pc'[u] = pc[u]
        BY <1>1, <1>11 DEF CancelWriter, TypeInv, TypeOK
    <2>2. \A x \in Tables : db[x] <= db'[x]
        <3>1. pc[t] = "writing" => stmt[t] \in Writes
            BY DEF TypeInv, StatementsInStep, WritingPCs
        <3>2. \/ db' = db
              \/ pc[t] = "writing" /\ MayBump(stmt[t]) /\ db' = Bumped(stmt[t])
            BY <1>11 DEF CancelWriter
        <3>3. ASSUME NEW x \in Tables PROVE db[x] <= Bumped(stmt[t])[x]
            BY <1>2 DEF Bumped
        <3> QED
            BY <1>2, <3>1, <3>2, <3>3
    <2> QED
        BY <1>1, <2>1, <2>2, ClocksSame
<1>12. ASSUME NEW p \in Procs, Crash(p) PROVE ClocksInStep'
    <2>1. /\ UNCHANGED <<acked, db>>
          /\ \A u \in Tasks : pc'[u] = "idle" \/ /\ pc'[u] = pc[u] /\ stmt'[u] = stmt[u]
                                                 /\ since'[u] = since[u] /\ data'[u] = data[u]
        BY <1>12 DEF Crash
    <2> QED
        BY <1>1, <1>2, <2>1, ClocksSame
<1>13. ASSUME UNCHANGED <<acked, db, since, stmt, data, pc>> PROVE ClocksInStep'
    BY <1>13 DEF ClocksInStep, Reading
<1>14. CASE \/ \E job \in jobs : PersistL2(job)
            \/ \E p \in Procs, k \in Keys : ExpireL1(p, k)
            \/ \E k \in Keys : ExpireL2(k)
            \/ UNCHANGED vars
    BY <1>13, <1>14 DEF PersistL2, ExpireL1, ExpireL2, vars, requests, shared
<1> QED
    BY <1>4, <1>5, <1>6, <1>7, <1>8, <1>9, <1>10, <1>11, <1>12, <1>14, ClocksStarted,
        ClocksCommitted DEF Next, Lead, Write

(* A step that puts no rows anywhere, starts no read, and under which      *)
(* nobody begins to write or to invalidate.                                *)
LEMMA FreshSame ==
    ASSUME TypeInv, TypeInv', FreshInv, ClocksInStep', disturbed' = disturbed, acked' = acked,
           jobs' \subseteq jobs,
           \A p \in Procs, k \in Keys : l1'[p][k] \in {l1[p][k], Nothing},
           \A k \in Keys : l2'[k] \in {l2[k], Nothing},
           \A t \in Tasks :
              \/ pc'[t] \in {"idle", "failed", "aborted"}
              \/ pc'[t] = "running" /\ pc[t] = "l2_read"
              \/ pc'[t] = "committed" /\ pc[t] = "writing"
              \/ /\ pc'[t] = pc[t] /\ stmt'[t] = stmt[t] /\ data'[t] = data[t]
                 /\ todo'[t] = todo[t] /\ since'[t] = since[t]
    PROVE  FreshInv'
<1> SUFFICES ASSUME ~disturbed
             PROVE  /\ WritesAlone' /\ NothingOld'
                    /\ \A t \in Tasks : Invalidated(t)' /\ Fresh(t)'
    BY DEF FreshInv
<1>1. WritesAlone /\ NothingOld /\ \A t \in Tasks : Invalidated(t) /\ Fresh(t)
    BY DEF FreshInv
<1>2. \A t \in Tasks : /\ Writing(t)' => Writing(t)
                       /\ Reading(t)' => Reading(t)
    BY DEF Writing, Reading, WritingPCs, LeadingPCs
<1>3. WritesAlone'
    BY <1>1, <1>2 DEF WritesAlone
<1>4. NothingOld'
    <2>1. \A p \in Procs, k \in Keys : l1'[p][k] # Nothing =>
              l1'[p][k] = l1[p][k] /\ NotOlder(l1[p][k], k, acked)
        BY <1>1 DEF NothingOld
    <2>2. \A k \in Keys : l2'[k] # Nothing => l2'[k] = l2[k] /\ NotOlder(l2[k], k, acked)
        BY <1>1 DEF NothingOld
    <2>3. \A j \in jobs' : NotOlder(j.rows, j.key, acked)
        BY <1>1 DEF NothingOld
    <2>4. \A t \in Tasks : pc'[t] \in {"l2_got", "fetched"} =>
              /\ stmt'[t] = stmt[t] /\ data'[t] = data[t]
              /\ NotOlder(data[t], stmt[t], acked)
        BY <1>1 DEF NothingOld
    <2> QED
        BY <2>1, <2>2, <2>3, <2>4 DEF NothingOld, NotOlder
<1>5. ASSUME NEW t \in Tasks PROVE Invalidated(t)'
    <2> SUFFICES ASSUME pc'[t] \in {"clearing", "deleting"}, NEW k \in Keys,
                        Reads[k] \cap Touches[stmt'[t]] # {}
                 PROVE  Gone(t, k)'
        BY DEF Invalidated
    <2>1. pc'[t] = pc[t] /\ stmt'[t] = stmt[t] /\ todo'[t] = todo[t]
        OBVIOUS
    <2>2. Gone(t, k) /\ ProcOf[t] \in Procs
        BY <1>1, <2>1, CacheAssumption DEF Invalidated
    <2> QED
        BY <2>1, <2>2 DEF Gone
<1>6. ASSUME NEW t \in Tasks PROVE Fresh(t)'
    BY <1>1 DEF Fresh
<1> QED
    BY <1>3, <1>4, <1>5, <1>6

(* A read that starts finds nothing in L1 older than what it began with.   *)
LEMMA FreshStarted ==
    ASSUME TypeInv, TypeInv', FreshInv, ClocksInStep', NEW t \in Tasks, NEW k \in Keys,
           StartRead(t, k)
    PROVE  FreshInv'
<1> SUFFICES ASSUME ~disturbed'
             PROVE  /\ WritesAlone' /\ NothingOld'
                    /\ \A u \in Tasks : Invalidated(u)' /\ Fresh(u)'
    BY DEF FreshInv
<1>1. ~disturbed /\ \A u \in Tasks : ~Writing(u)
    BY DEF StartRead
<1>2. NothingOld /\ \A u \in Tasks : Fresh(u)
    BY <1>1 DEF FreshInv
<1>3. /\ \A u \in Tasks \ {t} : /\ pc'[u] = pc[u] /\ stmt'[u] = stmt[u]
                                /\ since'[u] = since[u] /\ data'[u] = data[u]
      /\ stmt'[t] = k /\ since'[t] = acked /\ data'[t] = l1[ProcOf[t]][k]
      /\ UNCHANGED <<l1, l2, jobs, acked>>
    BY DEF StartRead, TypeInv, TypeOK, Shapes
<1>4. /\ pc'[t] \in {"done", "l2_read", "aborted", "following"}
      /\ pc'[t] = "done" => l1[ProcOf[t]][k] # Nothing
    BY DEF StartRead, TypeInv, TypeOK, InL1
<1>5. \A u \in Tasks : ~Writing(u)'
    BY <1>1, <1>3, <1>4 DEF Writing, WritingPCs
<1>6. WritesAlone'
    BY <1>5 DEF WritesAlone
<1>7. NothingOld'
    BY <1>2, <1>3, <1>4 DEF NothingOld
<1>8. \A u \in Tasks : Invalidated(u)'
    BY <1>5 DEF Invalidated, Writing, WritingPCs
<1>9. Fresh(t)'
    <2>1. ProcOf[t] \in Procs
        BY CacheAssumption
    <2>2. pc'[t] = "done" => NotOlder(l1[ProcOf[t]][k], k, acked)
        BY <1>2, <1>4, <2>1 DEF NothingOld
    <2> QED
        BY <1>3, <2>2 DEF Fresh, NotOlder
<1>10. \A u \in Tasks \ {t} : Fresh(u)'
    BY <1>2, <1>3 DEF Fresh
<1> QED
    BY <1>6, <1>7, <1>8, <1>9, <1>10

(* A request that reads rows, from L2 or the database. *)
LEMMA FreshFetched ==
    ASSUME TypeInv, TypeInv', FreshInv, ClocksInStep', NEW t \in Tasks,
           L2Read(t) \/ RunQuery(t)
    PROVE  FreshInv'
<1>1. /\ UNCHANGED <<stmt, todo, since, l1, l2, jobs, db, acked, disturbed>>
      /\ \A u \in Tasks \ {t} : pc'[u] = pc[u] /\ data'[u] = data[u]
      /\ pc[t] \in LeadingPCs /\ pc'[t] \in LeadingPCs
    BY DEF L2Read, RunQuery, cache, shared, LeadingPCs, TypeInv, TypeOK, Shapes
<1> SUFFICES ASSUME ~disturbed
             PROVE  /\ WritesAlone' /\ NothingOld'
                    /\ \A u \in Tasks : Invalidated(u)' /\ Fresh(u)'
    BY <1>1 DEF FreshInv
<1>2. WritesAlone /\ NothingOld /\ \A u \in Tasks : Invalidated(u) /\ Fresh(u)
    BY DEF FreshInv
<1>3. Reading(t) /\ \A u \in Tasks : ~Writing(u)
    BY <1>1, <1>2 DEF WritesAlone, Reading
<1>4. \A u \in Tasks : ~Writing(u)'
    BY <1>1, <1>3 DEF Writing, WritingPCs, LeadingPCs
<1>5. stmt[t] \in Keys
    BY <1>1 DEF TypeInv, StatementsInStep
<1>6. pc'[t] \in {"l2_got", "fetched"} => NotOlder(data'[t], stmt[t], acked)
    <2>1. CASE L2Read(t)
        <3>1. /\ data'[t] = l2[stmt[t]]
              /\ pc'[t] = IF l2[stmt[t]] = Nothing THEN "running" ELSE "l2_got"
            BY <2>1 DEF L2Read, TypeInv, TypeOK, Shapes
        <3> QED
            BY <1>2, <1>5, <3>1 DEF NothingOld
    <2>2. CASE RunQuery(t)
        <3>1. data'[t] = [x \in Reads[stmt[t]] |-> db[x]]
            BY <2>2 DEF RunQuery, TypeInv, Shapes
        <3>2. Reads[stmt[t]] \subseteq Tables
            BY <1>5, CacheAssumption
        <3>3. \A x \in Tables : acked[x] \in Nat /\ db[x] \in Nat /\ acked[x] <= db[x]
            BY DEF TypeInv, TypeOK, Versions, FreshInv, ClocksInStep
        <3> QED
            BY <3>1, <3>2, <3>3 DEF NotOlder
    <2> QED
        BY <2>1, <2>2
<1>7. NothingOld'
    BY <1>1, <1>2, <1>6 DEF NothingOld
<1>8. \A u \in Tasks : Invalidated(u)'
    BY <1>4 DEF Invalidated, Writing, WritingPCs
<1>9. \A u \in Tasks : Fresh(u)'
    BY <1>1, <1>2 DEF Fresh, LeadingPCs
<1> QED
    BY <1>4, <1>7, <1>8, <1>9 DEF WritesAlone

(* The rows go to L1, to L2's queue and to the followers.                  *)
LEMMA FreshFinished ==
    ASSUME TypeInv, TypeInv', FreshInv, ClocksInStep', NEW t \in Tasks,
           FinishL2Hit(t) \/ FinishMiss(t)
    PROVE  FreshInv'
<1> DEFINE p == ProcOf[t]
           k == stmt[t]
           rows == data[t]
<1>1. /\ UNCHANGED <<stmt, since, l2, acked, disturbed>>
      /\ PutL1(p, k, rows) /\ Settle(t, "done", rows)
      /\ pc[t] \in {"l2_got", "fetched"}
      /\ jobs' \in {jobs, jobs \cup {Job(t)}}
    BY DEF FinishL2Hit, FinishMiss, shared, Submitted
<1> SUFFICES ASSUME ~disturbed
             PROVE  /\ WritesAlone' /\ NothingOld'
                    /\ \A u \in Tasks : Invalidated(u)' /\ Fresh(u)'
    BY <1>1 DEF FreshInv
<1>2. WritesAlone /\ NothingOld /\ \A u \in Tasks : Fresh(u)
    BY DEF FreshInv
<1>3. p \in Procs /\ k \in Keys /\ NotOlder(rows, k, acked)
    BY <1>1, <1>2, CacheAssumption DEF TypeInv, StatementsInStep, LeadingPCs, NothingOld
<1>4. Reading(t) /\ \A u \in Tasks : ~Writing(u)
    BY <1>1, <1>2 DEF WritesAlone, Reading, LeadingPCs
<1>5. \A u \in Tasks : \/ pc'[u] = pc[u] /\ data'[u] = data[u]
                       \/ /\ pc'[u] = "done" /\ data'[u] = rows /\ stmt[u] = k
                          /\ Reading(u)
    BY <1>1, <1>4 DEF Settle, Followers, Reading
<1>6. \A u \in Tasks : ~Writing(u)'
    BY <1>4, <1>5 DEF Writing, WritingPCs
<1>7. \A q \in Procs, j \in Keys : \/ l1'[q][j] \in {l1[q][j], Nothing}
                                   \/ q = p /\ j = k /\ l1'[q][j] = rows
    <2>1. l1 \in [Procs -> [Keys -> AllRows \cup {Nothing}]]
        BY DEF TypeInv, Shapes
    <2> HIDE DEF rows, p, k
    <2>2. ASSUME l1' = [l1 EXCEPT ![p][k] = rows]
          PROVE  \A q \in Procs, j \in Keys : \/ l1'[q][j] \in {l1[q][j], Nothing}
                                              \/ q = p /\ j = k /\ l1'[q][j] = rows
        BY <1>3, <2>1, <2>2
    <2>3. ASSUME NEW victim \in Keys, l1' = [l1 EXCEPT ![p][victim] = Nothing, ![p][k] = rows]
          PROVE  \A q \in Procs, j \in Keys : \/ l1'[q][j] \in {l1[q][j], Nothing}
                                              \/ q = p /\ j = k /\ l1'[q][j] = rows
        BY <1>3, <2>1, <2>3
    <2> QED
        BY <1>1, <2>2, <2>3 DEF PutL1
<1>8. NothingOld'
    <2> HIDE DEF rows, p, k
    <2>1. \A q \in Procs, j \in Keys : l1'[q][j] # Nothing => NotOlder(l1'[q][j], j, acked)
        BY <1>2, <1>3, <1>7 DEF NothingOld
    <2>2. \A j \in jobs' : NotOlder(j.rows, j.key, acked)
        BY <1>1, <1>2, <1>3 DEF NothingOld, Job, rows, k
    <2>3. \A u \in Tasks : pc'[u] \in {"l2_got", "fetched"} => NotOlder(data'[u], stmt[u], acked)
        BY <1>2, <1>5 DEF NothingOld
    <2> QED
        BY <1>1, <1>2, <2>1, <2>2, <2>3 DEF NothingOld
<1>9. \A u \in Tasks : Invalidated(u)'
    BY <1>6 DEF Invalidated, Writing, WritingPCs
<1>10. ASSUME NEW u \in Tasks PROVE Fresh(u)'
    <2>1. CASE pc'[u] = pc[u] /\ data'[u] = data[u]
        BY <1>1, <1>2, <2>1 DEF Fresh
    <2>2. CASE data'[u] = rows /\ stmt[u] = k /\ Reading(u)
        <3>1. Reads[k] \subseteq Tables
            BY <1>3, CacheAssumption
        <3>2. \A x \in Tables : since[u][x] \in Nat /\ acked[x] \in Nat /\ since[u][x] <= acked[x]
            BY <2>2 DEF FreshInv, ClocksInStep, TypeInv, TypeOK, Versions
        <3>3. rows \in Rows(k)
            BY <1>1 DEF TypeInv, StatementsInStep
        <3>4. \A x \in Reads[k] : rows[x] \in Nat /\ rows[x] >= acked[x]
            BY <1>3, <3>3 DEF NotOlder, Rows
        <3> HIDE DEF rows, k
        <3> QED
            BY <1>1, <2>2, <3>1, <3>2, <3>4 DEF Fresh
    <2> QED
        BY <1>5, <2>1, <2>2
<1> QED
    BY <1>6, <1>8, <1>9, <1>10 DEF WritesAlone

(* A write that starts finds nobody reading and no rows on their way to L2.*)
LEMMA FreshWriteStarted ==
    ASSUME TypeInv, TypeInv', FreshInv, ClocksInStep', NEW t \in Tasks, NEW w \in Writes,
           StartWrite(t, w)
    PROVE  FreshInv'
<1> SUFFICES ASSUME ~disturbed'
             PROVE  /\ WritesAlone' /\ NothingOld'
                    /\ \A u \in Tasks : Invalidated(u)' /\ Fresh(u)'
    BY DEF FreshInv
<1>1. ~disturbed /\ jobs = {} /\ \A u \in Tasks : ~Reading(u)
    BY DEF StartWrite
<1>2. NothingOld /\ \A u \in Tasks : Invalidated(u) /\ Fresh(u)
    BY <1>1 DEF FreshInv
<1>3. /\ UNCHANGED <<data, todo, since, l1, l2, jobs, acked>>
      /\ pc'[t] = "writing"
      /\ \A u \in Tasks \ {t} : pc'[u] = pc[u] /\ stmt'[u] = stmt[u]
    BY DEF StartWrite, cache, TypeInv, TypeOK
<1>4. \A u \in Tasks : ~Reading(u)'
    BY <1>1, <1>3 DEF Reading, LeadingPCs
<1>5. NothingOld'
    BY <1>2, <1>3 DEF NothingOld
<1>6. \A u \in Tasks : Invalidated(u)' /\ Fresh(u)'
    BY <1>2, <1>3 DEF Invalidated, Gone, Fresh
<1> QED
    BY <1>1, <1>3, <1>4, <1>5, <1>6 DEF WritesAlone

LEMMA FreshCommitted ==
    ASSUME TypeInv, TypeInv', FreshInv, ClocksInStep', NEW t \in Tasks, Commit(t)
    PROVE  FreshInv'
<1>1. /\ UNCHANGED <<stmt, todo, since, l1, l2, jobs, acked, disturbed>>
      /\ \A u \in Tasks \ {t} : pc'[u] = pc[u] /\ data'[u] = data[u]
      /\ pc[t] = "writing" /\ pc'[t] = "committed"
    BY DEF Commit, cache, TypeInv, TypeOK, Shapes
<1>2. \A k \in Keys : l2'[k] \in {l2[k], Nothing}
    BY <1>1
<1>3. \A p \in Procs, k \in Keys : l1'[p][k] \in {l1[p][k], Nothing}
    BY <1>1
<1> QED
    BY <1>1, <1>2, <1>3, FreshSame

(* After invalidate_tables() or clear_all() no entry of the tables that    *)
(* were written is left in the L1 of the process.                          *)
LEMMA FreshInvalidated ==
    ASSUME TypeInv, TypeInv', L1EntriesAreIndexed, NamesMatch, FreshInv, ClocksInStep',
           NEW t \in Tasks, InvalidateTables(t) \/ ClearAll(t)
    PROVE  FreshInv'
<1> DEFINE w == stmt[t]
           p == ProcOf[t]
<1>1. /\ UNCHANGED <<stmt, data, since, l2, jobs, acked, disturbed>>
      /\ pc[t] = "committed" /\ pc'[t] \in {"clearing", "deleting"}
      /\ \A u \in Tasks \ {t} : pc'[u] = pc[u] /\ todo'[u] = todo[u]
    BY DEF InvalidateTables, ClearAll, shared, TypeInv, TypeOK
<1>2. w \in Writes /\ p \in Procs
    BY <1>1, CacheAssumption DEF TypeInv, StatementsInStep, WritingPCs
<1>3. \A q \in Procs, k \in Keys : l1'[q][k] \in {l1[q][k], Nothing}
    <2>1. \E keys : Drop(p, keys)
        BY DEF InvalidateTables, ClearAll
    <2> QED
        BY <2>1 DEF Drop, TypeInv, Shapes
<1> SUFFICES ASSUME ~disturbed
             PROVE  /\ WritesAlone' /\ NothingOld'
                    /\ \A u \in Tasks : Invalidated(u)' /\ Fresh(u)'
    BY <1>1 DEF FreshInv
<1>4. WritesAlone /\ NothingOld /\ \A u \in Tasks : Invalidated(u) /\ Fresh(u)
    BY DEF FreshInv
<1>5. WritesAlone'
    BY <1>1, <1>4 DEF WritesAlone, Writing, WritingPCs, Reading, LeadingPCs
<1>6. NothingOld'
    <2>1. \A q \in Procs, k \in Keys : l1'[q][k] # Nothing => NotOlder(l1'[q][k], k, acked)
        BY <1>3, <1>4 DEF NothingOld
    <2>2. \A u \in Tasks : pc'[u] \in {"l2_got", "fetched"} => NotOlder(data[u], stmt[u], acked)
        BY <1>1, <1>4 DEF NothingOld
    <2> QED
        BY <1>1, <1>4, <2>1, <2>2 DEF NothingOld
<1>7. ASSUME NEW k \in Keys, Reads[k] \cap Touches[w] # {} PROVE Gone(t, k)'
    <2>1. CASE InvalidateTables(t)
        <3> DEFINE names == WriteNames[w]
                   keys == TaggedKeys(p, names)
        <3>1. /\ keys # {} /\ Drop(p, keys) /\ todo'[t] = names /\ pc'[t] = "deleting"
            BY <2>1 DEF InvalidateTables, TypeInv, TypeOK
        <3>2. names # {}
            BY <3>1 DEF TaggedKeys
        <3>3. PICK n \in names : n \in KeyNames[k]
            BY <1>2, <1>7, <3>2 DEF NamesMatch
        <3>4. l1[p][k] # Nothing => k \in keys
            BY <1>2, <3>3 DEF L1EntriesAreIndexed, TaggedKeys
        <3>5. l1'[p][k] = Nothing
            BY <1>2, <3>1, <3>4 DEF Drop, TypeInv, Shapes
        <3> QED
            BY <3>1, <3>3, <3>5 DEF Gone
    <2>2. CASE ClearAll(t)
        <3>1. pc'[t] = "clearing" /\ Drop(p, Keys)
            BY <2>2 DEF ClearAll, TypeInv, TypeOK
        <3>2. l1'[p][k] = Nothing
            BY <1>2, <3>1 DEF Drop, TypeInv, Shapes
        <3> QED
            BY <3>1, <3>2 DEF Gone
    <2> QED
        BY <2>1, <2>2
<1>8. Invalidated(t)'
    BY <1>1, <1>7 DEF Invalidated
<1>9. ASSUME NEW u \in Tasks \ {t} PROVE Invalidated(u)'
    <2> SUFFICES ASSUME pc'[u] \in {"clearing", "deleting"}, NEW k \in Keys,
                        Reads[k] \cap Touches[stmt'[u]] # {}
                 PROVE  Gone(u, k)'
        BY DEF Invalidated
    <2>1. Gone(u, k) /\ ProcOf[u] \in Procs
        BY <1>1, <1>4, CacheAssumption DEF Invalidated
    <2> QED
        BY <1>1, <1>3, <2>1 DEF Gone
<1>10. \A u \in Tasks : Fresh(u)'
    BY <1>1, <1>4 DEF Fresh
<1> QED
    BY <1>5, <1>6, <1>8, <1>9, <1>10

(* Rows leave L2; with the last of them the write is answered, and what is *)
(* then left anywhere is of other tables.                                  *)
LEMMA FreshDeleted ==
    ASSUME OneProcess, TypeInv, TypeInv', FreshInv, ClocksInStep', NEW t \in Tasks,
           ClearL2(t) \/ DeleteL2(t)
    PROVE  FreshInv'
<1> DEFINE w == stmt[t]
<1>1. /\ pc[t] \in {"clearing", "deleting"}
      /\ UNCHANGED <<stmt, since, l1, jobs, db>>
    BY DEF ClearL2, DeleteL2, cache
<1>2. w \in Writes /\ w \notin Keys /\ ProcOf[t] \in Procs
    BY <1>1, CacheAssumption DEF TypeInv, StatementsInStep, WritingPCs
<1> SUFFICES ASSUME ~disturbed'
             PROVE  /\ WritesAlone' /\ NothingOld'
                    /\ \A u \in Tasks : Invalidated(u)' /\ Fresh(u)'
    BY DEF FreshInv
<1>3. PICK keys : /\ disturbed' = disturbed /\ l2' = DeletedL2(keys)
                  /\ \/ ClearL2(t) /\ keys = Keys
                     \/ \E n \in todo[t] :
                           /\ DeleteL2(t) /\ keys = {k \in Keys : n \in KeyNames[k]}
                           /\ todo' = [todo EXCEPT ![t] = @ \ {n}]
                           /\ IF todo[t] = {n} THEN Answer(t) ELSE UNCHANGED <<pc, data, acked>>
    <2>1. CASE ClearL2(t)
        BY <2>1 DEF ClearL2, DeleteFromL2
    <2>2. CASE DeleteL2(t)
        <3>1. PICK n \in todo[t] :
                /\ DeleteFromL2({k \in Keys : n \in KeyNames[k]})
                /\ todo' = [todo EXCEPT ![t] = @ \ {n}]
                /\ IF todo[t] = {n} THEN Answer(t) ELSE UNCHANGED <<pc, data, acked>>
            BY <2>2 DEF DeleteL2
        <3> DEFINE ks == {k \in Keys : n \in KeyNames[k]}
        <3>2. disturbed' = disturbed /\ l2' = DeletedL2(ks)
            BY <3>1 DEF DeleteFromL2
        <3> QED
            BY <2>2, <3>1, <3>2
    <2> QED
        BY <2>1, <2>2
<1>4. WritesAlone /\ NothingOld /\ \A u \in Tasks : Invalidated(u) /\ Fresh(u)
    BY <1>3 DEF FreshInv
<1>5. jobs = {} /\ \A u \in Tasks : ~Reading(u)
    BY <1>1, <1>4 DEF WritesAlone, Writing, WritingPCs
<1>6. /\ \A k \in Keys : l2'[k] \in {l2[k], Nothing}
      /\ \A k \in Keys : k \in keys => l2'[k] = Nothing
    BY <1>3, DeletedTypes
<1>7. CASE Answer(t)
    <2>1. /\ pc'[t] = "done" /\ \A u \in Tasks \ {t} : pc'[u] = pc[u] /\ data'[u] = data[u]
        BY <1>1, <1>7, AnswerTypes DEF TypeInv, TypeOK, Shapes
    <2>2. \A x \in Tables : x \notin Touches[w] => acked'[x] = acked[x]
        BY <1>1, <1>7, ClocksAnswered DEF FreshInv
    <2>3. ASSUME NEW k \in Keys, Reads[k] \cap Touches[w] # {}
          PROVE  l2'[k] = Nothing /\ \A p \in Procs : l1[p][k] = Nothing
        <3>1. Gone(t, k)
            BY <1>1, <1>4, <2>3 DEF Invalidated
        <3>2. \A p \in Procs : l1[p][k] = Nothing
            BY <1>2, <3>1 DEF Gone, OneProcess
        <3>3. CASE ClearL2(t) /\ keys = Keys
            BY <1>6, <3>2, <3>3
        <3>4. ASSUME NEW n \in todo[t], DeleteL2(t), keys = {j \in Keys : n \in KeyNames[j]},
                     IF todo[t] = {n} THEN Answer(t) ELSE UNCHANGED <<pc, data, acked>>
              PROVE  l2'[k] = Nothing
            <4>1. pc[t] = "deleting" /\ todo[t] = {n}
                BY <2>1, <3>4 DEF DeleteL2
            <4>2. l2[k] = Nothing \/ k \in keys
                BY <3>1, <3>4, <4>1 DEF Gone
            <4> QED
                BY <1>6, <4>2
        <3> QED
            BY <1>3, <3>2, <3>3, <3>4
    <2>4. ASSUME NEW k \in Keys, Reads[k] \cap Touches[w] = {}, NEW rows, NotOlder(rows, k, acked)
          PROVE  NotOlder(rows, k, acked')
        <3>1. \A x \in Reads[k] : x \in Tables /\ x \notin Touches[w]
            BY <2>4, CacheAssumption
        <3> QED
            BY <2>2, <2>4, <3>1 DEF NotOlder
    <2>5. NothingOld'
        <3>1. \A p \in Procs, k \in Keys : l1'[p][k] # Nothing => NotOlder(l1'[p][k], k, acked')
            BY <1>1, <1>4, <2>3, <2>4 DEF NothingOld
        <3>2. \A k \in Keys : l2'[k] # Nothing => NotOlder(l2'[k], k, acked')
            <4> SUFFICES ASSUME NEW k \in Keys, l2'[k] # Nothing
                         PROVE  NotOlder(l2'[k], k, acked')
                OBVIOUS
            <4>1. l2'[k] = l2[k] /\ NotOlder(l2[k], k, acked)
                BY <1>4, <1>6 DEF NothingOld
            <4>2. Reads[k] \cap Touches[w] = {}
                BY <2>3
            <4> QED
                BY <2>4, <4>1, <4>2
        <3>3. \A u \in Tasks : pc'[u] \notin {"l2_got", "fetched"}
            BY <1>5, <2>1 DEF Reading, LeadingPCs
        <3> QED
            BY <1>1, <1>5, <3>1, <3>2, <3>3 DEF NothingOld
    <2>6. WritesAlone'
        BY <1>1, <1>5, <2>1 DEF WritesAlone, Reading, LeadingPCs
    <2>7. ASSUME NEW u \in Tasks PROVE Invalidated(u)'
        <3> SUFFICES ASSUME pc'[u] \in {"clearing", "deleting"}, NEW k \in Keys,
                            Reads[k] \cap Touches[stmt'[u]] # {}
                     PROVE  Gone(u, k)'
            BY DEF Invalidated
        <3>1. u # t /\ pc'[u] = pc[u] /\ stmt'[u] = stmt[u]
            BY <1>1, <2>1
        <3>2. Gone(u, k)
            BY <1>4, <3>1 DEF Invalidated
        <3>3. todo'[u] = todo[u]
            BY <1>3, <3>1 DEF ClearL2, TypeInv, TypeOK
        <3> QED
            BY <1>1, <1>6, <3>1, <3>2, <3>3 DEF Gone
    <2>8. \A u \in Tasks : Fresh(u)'
        BY <1>1, <1>2, <1>4, <2>1 DEF Fresh
    <2> QED
        BY <2>5, <2>6, <2>7, <2>8
<1>8. CASE ~Answer(t)
    <2>1. PICK n \in todo[t] :
            /\ DeleteL2(t) /\ keys = {k \in Keys : n \in KeyNames[k]}
            /\ todo' = [todo EXCEPT ![t] = @ \ {n}] /\ UNCHANGED <<pc, data, acked>>
        BY <1>3, <1>8 DEF ClearL2
    <2>2. todo'[t] = todo[t] \ {n} /\ \A u \in Tasks \ {t} : todo'[u] = todo[u]
        BY <2>1 DEF TypeInv, TypeOK
    <2>3. NothingOld'
        BY <1>1, <1>4, <1>6, <2>1 DEF NothingOld
    <2>4. WritesAlone'
        BY <1>1, <1>5, <2>1 DEF WritesAlone, Reading
    <2>5. ASSUME NEW u \in Tasks PROVE Invalidated(u)'
        <3> SUFFICES ASSUME pc'[u] \in {"clearing", "deleting"}, NEW k \in Keys,
                            Reads[k] \cap Touches[stmt'[u]] # {}
                     PROVE  Gone(u, k)'
            BY DEF Invalidated
        <3>1. Gone(u, k)
            BY <1>1, <1>4, <2>1 DEF Invalidated
        <3>2. KeyNames[k] \cap todo[u] # {} =>
                  l2'[k] = Nothing \/ KeyNames[k] \cap todo'[u] # {}
            BY <1>6, <2>1, <2>2
        <3> QED
            BY <1>1, <1>6, <2>1, <3>1, <3>2 DEF Gone
    <2>6. \A u \in Tasks : Fresh(u)'
        BY <1>1, <1>4, <2>1 DEF Fresh
    <2> QED
        BY <2>3, <2>4, <2>5, <2>6
<1> QED
    BY <1>7, <1>8

(* A persisted result is not older than what has been answered, and is     *)
(* written while nobody writes.                                            *)
LEMMA FreshPersisted ==
    ASSUME TypeInv, TypeInv', FreshInv, ClocksInStep', NEW job \in jobs, PersistL2(job)
    PROVE  FreshInv'
<1>1. /\ UNCHANGED <<pc, stmt, data, todo, since, l1, acked, disturbed>>
      /\ jobs' \subseteq jobs
      /\ l2' = l2 \/ l2' = [l2 EXCEPT ![job.key] = job.rows]
    BY DEF PersistL2, Upserted, requests, cache
<1> SUFFICES ASSUME ~disturbed
             PROVE  /\ WritesAlone' /\ NothingOld'
                    /\ \A u \in Tasks : Invalidated(u)' /\ Fresh(u)'
    BY <1>1 DEF FreshInv
<1>2. WritesAlone /\ NothingOld /\ \A u \in Tasks : Fresh(u)
    BY DEF FreshInv
<1>3. \A u \in Tasks : ~Writing(u)
    BY <1>2 DEF WritesAlone
<1>4. \A u \in Tasks : ~Writing(u)'
    BY <1>1, <1>3 DEF Writing
<1>5. \A k \in Keys : l2'[k] = l2[k] \/ (k = job.key /\ l2'[k] = job.rows)
    BY <1>1 DEF TypeInv, Shapes
<1>6. \A k \in Keys : l2'[k] # Nothing => NotOlder(l2'[k], k, acked)
    BY <1>2, <1>5 DEF NothingOld
<1>7. NothingOld'
    BY <1>1, <1>2, <1>6 DEF NothingOld
<1>8. \A u \in Tasks : Invalidated(u)' /\ Fresh(u)'
    BY <1>1, <1>2, <1>4 DEF Invalidated, Fresh, Writing, WritingPCs
<1> QED
    BY <1>4, <1>7, <1>8 DEF WritesAlone

LEMMA FreshStep ==
    ASSUME OneProcess, NamesMatch, TypeInv, TypeInv', L1EntriesAreIndexed, FreshInv, [Next]_vars
    PROVE  FreshInv'
<1>0. ClocksInStep'
    BY ClocksStep DEF FreshInv
<1>1. ASSUME NEW t \in Tasks, L2ReadFails(t) PROVE FreshInv'
    <2>1. /\ UNCHANGED <<stmt, data, todo, since, l1, l2, jobs, acked, disturbed>>
          /\ pc[t] = "l2_read" /\ pc' = [pc EXCEPT ![t] = "running"]
        BY <1>1 DEF L2ReadFails, cache, shared
    <2>2. \A u \in Tasks : pc'[u] = pc[u] \/ (pc'[u] = "running" /\ pc[u] = "l2_read")
        BY <2>1 DEF TypeInv, TypeOK
    <2> QED
        BY <1>0, <2>1, <2>2, FreshSame
<1>2. ASSUME NEW t \in Tasks, QueryFails(t) \/ CancelLeader(t) PROVE FreshInv'
    <2>1. /\ UNCHANGED <<stmt, todo, since, l1, l2, jobs, acked, disturbed>>
          /\ Settle(t, "failed", Nothing)
        BY <1>2 DEF QueryFails, CancelLeader, shared
    <2>2. \A u \in Tasks : pc'[u] = "failed" \/ (pc'[u] = pc[u] /\ data'[u] = data[u])
        BY <2>1 DEF Settle
    <2> QED
        BY <1>0, <2>1, <2>2, FreshSame
<1>3. ASSUME NEW t \in Tasks, CancelFollower(t) PROVE FreshInv'
    <2>1. UNCHANGED <<stmt, data, todo, since, l1, l2, jobs, acked, disturbed>>
        BY <1>3 DEF CancelFollower, shared
    <2>2. \A u \in Tasks : pc'[u] \in {"failed", "aborted"} \/ pc'[u] = pc[u]
        BY <1>3 DEF CancelFollower
    <2> QED
        BY <1>0, <2>1, <2>2, FreshSame
<1>4. ASSUME NEW t \in Tasks, WriteFails(t) PROVE FreshInv'
    <2>1. /\ UNCHANGED <<stmt, data, todo, since, l1, l2, jobs, acked, disturbed>>
          /\ \A u \in Tasks : pc'[u] = "failed" \/ pc'[u] = pc[u]
        BY <1>4 DEF WriteFails, cache, shared, TypeInv, TypeOK
    <2> QED
        BY <1>0, <2>1, FreshSame
<1>5. ASSUME NEW t \in Tasks, CancelWriter(t) PROVE FreshInv'
    <2>1. /\ UNCHANGED <<stmt, data, since, l1, jobs, acked, disturbed>>
          /\ \A u \in Tasks : pc'[u] = "failed" \/ (pc'[u] = pc[u] /\ todo'[u] = todo[u])
        BY <1>5 DEF CancelWriter, cache, TypeInv, TypeOK
    <2>2. l2' = l2 \/ \E keys : l2' = DeletedL2(keys)
        BY <1>5 DEF CancelWriter
    <2>3. \A k \in Keys : l2'[k] \in {l2[k], Nothing}
        BY <2>2, DeletedTypes
    <2> QED
        BY <1>0, <2>1, <2>3, FreshSame
<1>6. ASSUME NEW t \in Tasks, Respond(t) PROVE FreshInv'
    <2>1. /\ UNCHANGED <<todo, l1, l2, jobs, acked, disturbed>>
          /\ \A u \in Tasks : pc'[u] = "idle" \/ /\ pc'[u] = pc[u] /\ stmt'[u] = stmt[u]
                                                 /\ data'[u] = data[u] /\ since'[u] = since[u]
        BY <1>6 DEF Respond, cache, shared, TypeInv, TypeOK, Shapes
    <2> QED
        BY <1>0, <2>1, FreshSame
<1>7. ASSUME NEW p \in Procs, Crash(p) PROVE FreshInv'
    <2>1. /\ UNCHANGED <<l2, acked, disturbed>> /\ jobs' \subseteq jobs
          /\ \A q \in Procs, k \in Keys : l1'[q][k] \in {l1[q][k], Nothing}
        BY <1>7 DEF Crash, TypeInv, Shapes
    <2>2. \A u \in Tasks : pc'[u] = "idle" \/ /\ pc'[u] = pc[u] /\ stmt'[u] = stmt[u]
                                              /\ data'[u] = data[u] /\ since'[u] = since[u]
                                              /\ todo'[u] = todo[u]
        BY <1>7 DEF Crash
    <2> QED
        BY <1>0, <2>1, <2>2, FreshSame
<1>8. CASE \/ \E p \in Procs, k \in Keys : ExpireL1(p, k)
           \/ \E k \in Keys : ExpireL2(k)
           \/ UNCHANGED vars
    <2>1. UNCHANGED <<pc, stmt, data, todo, since, jobs, acked, disturbed>>
        BY <1>8 DEF ExpireL1, ExpireL2, vars, requests, cache, shared
    <2>2. /\ \A q \in Procs, k \in Keys : l1'[q][k] \in {l1[q][k], Nothing}
          /\ \A k \in Keys : l2'[k] \in {l2[k], Nothing}
        BY <1>8 DEF ExpireL1, ExpireL2, vars, cache, shared, TypeInv, Shapes
    <2> QED
        BY <1>0, <2>1, <2>2, FreshSame
<1>9. ASSUME NEW t \in Tasks,
             \/ \E k \in Keys : StartRead(t, k)
             \/ \E w \in Writes : StartWrite(t, w)
      PROVE  FreshInv'
    BY <1>0, <1>9, FreshStarted, FreshWriteStarted
<1>10. ASSUME NEW t \in Tasks, Lead(t) PROVE FreshInv'
    BY <1>0, <1>1, <1>2, <1>10, FreshFetched, FreshFinished DEF Lead
<1>11. ASSUME NEW t \in Tasks, Write(t) PROVE FreshInv'
    BY <1>0, <1>4, <1>11, FreshCommitted, FreshInvalidated, FreshDeleted DEF Write
<1>12. ASSUME NEW job \in jobs, PersistL2(job) PROVE FreshInv'
    BY <1>0, <1>12, FreshPersisted
<1> QED
    BY <1>2, <1>3, <1>5, <1>6, <1>7, <1>8, <1>9, <1>10, <1>11, <1>12 DEF Next

(* query_cache_coordinator.py:245-290 and query_service.py:88-98: in one   *)
(* process, and of statements that name the tables they share alike, a     *)
(* read that starts after a write was answered never returns rows from     *)
(* before it, unless a write ran beside a read or a pending job or a       *)
(* deletion from L2 failed.                                                *)
THEOREM ReadsAreFresh ==
    ASSUME OneProcess, NamesMatch
    PROVE  Spec => []FreshUnlessDisturbed
<1>1. Init => CacheInv /\ FreshInv
    <2>1. Init => TypeInv /\ RegistryInStep /\ L1EntriesAreIndexed
        BY TypeInit DEF Init, RegistryInStep, L1EntriesAreIndexed, LeadingPCs
    <2>2. Init => ClocksInStep
        BY DEF Init, ClocksInStep, NoVersions, Reading, LeadingPCs
    <2>3. Init => WritesAlone /\ NothingOld /\ \A t \in Tasks : Invalidated(t) /\ Fresh(t)
        BY DEF Init, WritesAlone, NothingOld, Invalidated, Fresh, Writing, WritingPCs
    <2> QED
        BY <2>1, <2>2, <2>3 DEF CacheInv, FreshInv
<1>2. CacheInv /\ FreshInv /\ [Next]_vars => CacheInv' /\ FreshInv'
    BY TypeStep, RegistryStep, IndexedStep, FreshStep DEF CacheInv
<1>3. FreshInv => FreshUnlessDisturbed
    BY DEF FreshInv, FreshUnlessDisturbed
<1> QED
    BY <1>1, <1>2, <1>3, PTL DEF Spec
=============================================================================
