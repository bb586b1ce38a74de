-------------------------- MODULE StateStoreProofs --------------------------
(***************************************************************************)
(* Proofs about StateStore and the SyncPool it runs on, for any number of  *)
(* threads, connections, records and faults.  What a step does to the pool *)
(* is summed up in PoolNext, so the pool's invariants and its refinement   *)
(* of ConnectionLease are shown once, whatever the store does beside.      *)
(***************************************************************************)
EXTENDS StateStore, TLAPS, FiniteSetTheorems, SequenceTheorems

-----------------------------------------------------------------------------
(* The pool's inductive invariant *)

(* No connection is in two threads' hands, or in a thread's hands and idle.*)
LeasesExclusive ==
    /\ \A s, t \in Threads : s # t /\ held[s] # NoConn => held[s] # held[t]
    /\ \A t \in Threads : held[t] \notin available
    /\ available \cap inUse = {}

(* Who has a connection, and that _in_use counts exactly those until the   *)
(* pool is closed.                                                         *)
LeasesRecorded ==
    /\ \A t \in Threads : held[t] # NoConn <=> pc[t] = "holding"
    /\ \A c \in inUse : \E t \in Threads : held[t] = c
    /\ open => \A t \in Threads : held[t] # NoConn => held[t] \in inUse

SlotsRecorded ==
    \A t \in Threads :
        /\ t \in slots => pc[t] = "creating"
        /\ open /\ pc[t] = "creating" => t \in slots

CapacityBound == open => Cardinality(available) + Size <= MaxConn

(* Why one notify() per release() is enough: not min(waiting, grantable)   *)
(* threads are woken, but as many as there is to grant.                    *)
WokenForAll ==
    ~silent /\ Waiting # {} =>
        Grantable <= Cardinality({t \in Threads : pc[t] = "woken"})

PoolInv ==
    /\ PoolTypeOK /\ LeasesExclusive /\ LeasesRecorded /\ SlotsRecorded
    /\ CapacityBound /\ WokenForAll

-----------------------------------------------------------------------------
(* The store's inductive invariant *)

Statements(t) == {t} \X {1, 2}

(* What a thread writes: a task its own statements, the two threads of the *)
(* write queue records.                                                    *)
BatchesApart ==
    \A t \in Threads :
        /\ batch[t] \subseteq IF t \in Tasks THEN Statements(t) ELSE Records
        /\ batch[t] # {} <=> op[t] # "none"
        /\ todo[t] \subseteq batch[t]

(* The program counters of the pool and of the driver agree, and before    *)
(* the first driver call nothing has been written or has failed.           *)
CallsInStep ==
    \A t \in Threads :
        /\ op[t] = "none" <=> pc[t] = "out"
        /\ op[t] \notin {"none", "one", "begin"} => pc[t] = "holding"
        /\ op[t] \in {"none", "one", "begin"} => ~failed[t] /\ todo[t] = batch[t]
        /\ op[t] \in {"body", "commit"} => ~failed[t]
        /\ op[t] = "rollback" => failed[t]
        /\ op[t] = "commit" => todo[t] = {}
        /\ op[t] \in {"one", "rollback"} => t \in Tasks

(* A connection that nobody holds and that works is as it was when it was  *)
(* opened; one that is lost has nothing left; and one that is neither idle *)
(* nor held is only a name.                                                *)
NobodyHolds(c) == \A t \in Threads : held[t] # c
UnheldAreFresh ==
    \A c \in Conns :
        /\ ~server[c].alive => server[c] = [Fresh EXCEPT !.alive = FALSE]
        /\ NobodyHolds(c) /\ server[c].alive => server[c] = Fresh
        /\ NobodyHolds(c) /\ c \notin available => server[c].alive

(* The session of a thread that holds a connection, by its driver call.    *)
Session(t) ==
    pc[t] = "holding" /\ Mine(t).alive =>
        /\ op[t] \in {"one", "begin", "release"} => Mine(t) = Fresh
        /\ op[t] = "restore" => Mine(t).txn = "none" /\ Mine(t).pending = {}
        /\ op[t] \in {"body", "commit", "rollback"} =>
              ~Mine(t).auto /\ Mine(t).pending \subseteq batch[t]
        /\ op[t] \in {"body", "commit"} /\ t \in Tasks =>
              /\ Mine(t).pending = batch[t] \ todo[t]
              /\ Mine(t).txn # "failed"
              /\ Mine(t).txn = "none" => todo[t] = batch[t]
SessionsInStep == \A t \in Threads : Session(t)

(* Of a task's statements none is committed before its commit, and after   *)
(* it all or none are.                                                     *)
Together(t) ==
    /\ op[t] \notin {"restore", "release"} => written \cap Statements(t) = {}
    /\ op[t] \in {"restore", "release"} =>
          /\ written \cap Statements(t) \in {{}, batch[t]}
          /\ ~failed[t] => batch[t] \subseteq written
CommittedTogether == \A t \in Tasks : Together(t)

(* Where the records are that one of the queue's threads has taken.        *)
Settling(t) ==
    \A i \in batch[t] :
        \/ i \in written \cup spoiled
        \/ op[t] # "release" /\ pc[t] = "holding" /\ ~Mine(t).alive
        \/ op[t] \in {"one", "begin", "body"} /\ i \in todo[t]
        \/ op[t] \in {"body", "commit"} /\ Mine(t).txn = "open" /\ i \in Mine(t).pending

Queued == {queue[i] : i \in 1 .. Len(queue)}
RecordsAccounted ==
    /\ Settling(Flusher) /\ Settling(Stopper)
    /\ emitted \subseteq
          written \cup spoiled \cup batch[Flusher] \cup batch[Stopper] \cup Queued

(* The two threads of the queue and the shutdown. *)
StopInStep ==
    /\ op[Flusher] # "none" <=> flusher = "flushing"
    /\ op[Stopper] # "none" <=> stage = "flushing"
    /\ stage \in {"flushing", "disconnecting", "closed"} => queue = <<>>
    /\ open <=> stage # "closed"

StoreInv ==
    /\ PoolInv /\ TypeOK /\ BatchesApart /\ CallsInStep /\ UnheldAreFresh
    /\ SessionsInStep /\ CommittedTogether /\ RecordsAccounted /\ StopInStep

-----------------------------------------------------------------------------
(* What a step of the whole does to the pool *)

Enters(t) == Call(t) /\ UNCHANGED poolRest

PoolStep(t) ==
    \/ Enters(t) \/ TakeIdle(t) \/ Reserve(t) \/ Wait(t) \/ TimeOut(t) \/ Exceed(t)
    \/ Create(t) \/ CreateFails(t) \/ Refused(t) \/ Release(t)

PoolNext ==
    \/ \E t \in Threads : PoolStep(t)
    \/ CloseAll \/ Metrics \/ UNCHANGED poolVars

LEMMA ThreadsInPool ==
    ASSUME NEW t \in Threads, Thread(t) \/ Disturb(t)
    PROVE  PoolNext
<1>1. CASE Acquire(t) \/ GiveUp(t) \/ Leave(t)
    BY <1>1 DEF Acquire, GiveUp, Leave, PoolStep, PoolNext
<1>2. CASE One(t) \/ Begin(t) \/ WriteItem(t) \/ EndBody(t) \/ Commit(t) \/ Rollback(t)
           \/ Restore(t) \/ CallOnLost(t)
    BY <1>2 DEF One, Begin, WriteItem, EndBody, Commit, Rollback, Restore, CallOnLost,
        frame, PoolNext
<1>3. CASE Disturb(t)
    BY <1>3 DEF Disturb, StatementFails, RecordFails, PoolStep, PoolNext
<1> QED
    BY <1>1, <1>2, <1>3 DEF Thread

LEMMA PoolSummary == [Next]_vars => PoolNext
<1> SUFFICES ASSUME [Next]_vars PROVE PoolNext
    OBVIOUS
<1>1. Tasks \subseteq Threads /\ Flusher \in Threads /\ Stopper \in Threads
    BY StoreAssumption
<1>2. ASSUME NEW t \in Threads, Thread(t) \/ Disturb(t) PROVE PoolNext
    BY <1>2, ThreadsInPool
<1>3. ASSUME NEW t \in Threads, NEW items, NEW first, Enter(t, items, first) PROVE PoolNext
    BY <1>3 DEF Enter, Enters, PoolStep, PoolNext
<1>4. CASE \E t \in Tasks : RunOne(t) \/ RunTransaction(t)
    BY <1>1, <1>3, <1>4 DEF RunOne, RunTransaction
<1>5. CASE Drain \/ JoinEnds \/ JoinTimesOut
    BY <1>1, <1>3, <1>5 DEF Drain, JoinEnds, JoinTimesOut, FlushRest, PoolNext
<1>6. CASE Disconnect
    BY <1>6 DEF Disconnect, PoolNext
<1>7. CASE \/ \E r \in Records : Enqueue(r)
           \/ Stop
           \/ \E c \in Conns : ConnectionLost(c)
           \/ Metrics /\ UNCHANGED <<storeRest, server, faults>>
    BY <1>7 DEF Enqueue, Stop, ConnectionLost, PoolNext
<1>8. CASE UNCHANGED vars
    BY <1>8 DEF vars, PoolNext
<1> QED
    BY <1>2, <1>4, <1>5, <1>6, <1>7, <1>8 DEF Next

-----------------------------------------------------------------------------
(* Type correctness of the pool *)

LEMMA SizerType ==
    ASSUME NEW s \in Sizers
    PROVE  /\ InitialSizer \in Sizers
           /\ \A pressure \in BOOLEAN : Adjusted(s, pressure) \in Sizers
BY SizerAssumption DEF Sizers, InitialSizer, Adjusted, Grown, Rested, AtMost

LEMMA PoolTypeInit == PoolInit => PoolTypeOK
<1>1. InitialSizer \in Sizers
    BY SizerAssumption DEF Sizers, InitialSizer
<1> QED
    BY <1>1 DEF PoolInit, PoolTypeOK, PCs

LEMMA PoolTypeStep == PoolTypeOK /\ PoolNext => PoolTypeOK'
<1> SUFFICES ASSUME PoolTypeOK, PoolNext PROVE PoolTypeOK'
    OBVIOUS
<1> USE DEF PoolTypeOK
<1>1. ASSUME NEW t \in Threads, NEW there \in PCs, Goto(t, there)
      PROVE  pc' \in [Threads -> PCs] /\ silent' \in BOOLEAN
    BY <1>1 DEF Goto, Still
<1>2. {"out", "wanting", "waiting", "woken", "creating", "holding", "refused"} \subseteq PCs
    BY DEF PCs
<1>3. ASSUME NEW t \in Threads, Enters(t) \/ Wait(t) \/ TimeOut(t) \/ Exceed(t) \/ Refused(t)
      PROVE  PoolTypeOK'
    BY <1>1, <1>2, <1>3 DEF Enters, Call, poolRest, Wait, TimeOut, Exceed, Refused
<1>4. ASSUME NEW t \in Threads, TakeIdle(t) \/ Create(t) PROVE PoolTypeOK'
    BY <1>1, <1>2, <1>4 DEF TakeIdle, Create
<1>5. ASSUME NEW t \in Threads, Reserve(t) PROVE PoolTypeOK'
    BY <1>1, <1>2, <1>5 DEF Reserve
<1>6. ASSUME NEW t \in Threads, CreateFails(t) PROVE PoolTypeOK'
    BY <1>2, <1>6 DEF CreateFails
<1>7. ASSUME NEW t \in Threads, Release(t) PROVE PoolTypeOK'
    <2>1. pc' \in [Threads -> PCs] /\ silent' \in BOOLEAN
        BY <1>1, <1>2, <1>7 DEF Release, Notify, Waiting
    <2>2. available' \subseteq Conns /\ inUse' \subseteq Conns
        BY SyncPoolAssumption, <1>7 DEF Release
    <2> QED
        BY <1>7, <2>1, <2>2 DEF Release
<1>8. CASE CloseAll
    BY <1>8 DEF CloseAll
<1>9. CASE Metrics
    <2>1. sizer' \in Sizers
        BY <1>9, SizerType DEF Metrics
    <2> QED
        BY <1>9, <2>1 DEF Metrics
<1>10. CASE UNCHANGED poolVars
    BY <1>10 DEF poolVars
<1> QED
    BY <1>3, <1>4, <1>5, <1>6, <1>7, <1>8, <1>9, <1>10 DEF PoolNext, PoolStep

-----------------------------------------------------------------------------
(* Leases and placeholders *)

LEMMA LeasesInit == PoolInit => LeasesExclusive /\ LeasesRecorded /\ SlotsRecorded
BY DEF PoolInit, LeasesExclusive, LeasesRecorded, SlotsRecorded

LEMMA LeasesStep ==
    ASSUME PoolTypeOK, LeasesExclusive, LeasesRecorded, PoolNext
    PROVE  LeasesExclusive' /\ LeasesRecorded'
<1> USE SyncPoolAssumption DEF PoolTypeOK, LeasesExclusive, LeasesRecorded
<1>1. ASSUME NEW t \in Threads,
             \/ Enters(t) \/ Reserve(t) \/ Wait(t) \/ TimeOut(t) \/ Exceed(t)
             \/ CreateFails(t) \/ Refused(t)
      PROVE  LeasesExclusive' /\ LeasesRecorded'
    <2>1. UNCHANGED <<held, available, inUse, open>>
        BY <1>1 DEF Enters, poolRest, Reserve, Wait, TimeOut, Exceed, CreateFails, Refused
    <2>2. PICK there \in PCs \ {"holding"} : pc' = [pc EXCEPT ![t] = there] /\ pc[t] # "holding"
        BY <1>1 DEF Enters, Call, Reserve, Wait, TimeOut, Exceed, CreateFails, Refused, Goto,
            Looking, PCs
    <2> QED
        BY <2>1, <2>2
<1>2. ASSUME NEW t \in Threads, TakeIdle(t) \/ Create(t)
      PROVE  LeasesExclusive' /\ LeasesRecorded'
    <2>1. pc[t] # "holding" /\ held[t] = NoConn
        BY <1>2 DEF TakeIdle, Create, Looking
    <2>2. PICK c \in Conns : /\ c \notin inUse /\ \A s \in Threads : held[s] # c
                             /\ available' = available \ {c}
                             /\ inUse' = inUse \cup {c}
                             /\ held' = [held EXCEPT ![t] = c]
        <3>1. CASE TakeIdle(t)
            <4>1. PICK c \in available : /\ available' = available \ {c}
                                         /\ inUse' = inUse \cup {c}
                                         /\ held' = [held EXCEPT ![t] = c]
                BY <3>1 DEF TakeIdle
            <4>2. c \in Conns /\ c \notin inUse /\ \A s \in Threads : held[s] # c
                BY <4>1
            <4> QED
                BY <4>1, <4>2
        <3>2. CASE Create(t)
            <4>1. PICK c \in Conns \ (HeldConns \cup available) :
                      held' = [held EXCEPT ![t] = c] /\ inUse' = inUse \cup {c}
                BY <3>2 DEF Create
            <4>2. c \in Conns /\ c \notin inUse /\ \A s \in Threads : held[s] # c
                BY <4>1 DEF HeldConns
            <4>3. available' = available \ {c}
                BY <3>2, <4>1 DEF Create
            <4> QED
                BY <4>1, <4>2, <4>3
        <3> QED
            BY <1>2, <3>1, <3>2
    <2>3. pc' = [pc EXCEPT ![t] = "holding"] /\ open' = open
        BY <1>2 DEF TakeIdle, Create, Goto
    <2> QED
        BY <2>1, <2>2, <2>3
<1>3. ASSUME NEW t \in Threads, Release(t)
      PROVE  LeasesExclusive' /\ LeasesRecorded'
    <2>1. /\ pc[t] = "holding" /\ held[t] # NoConn /\ open' = open
          /\ held' = [held EXCEPT ![t] = NoConn]
        BY <1>3 DEF Release
    <2>2. \A s \in Threads : pc'[s] = "holding" <=> s # t /\ pc[s] = "holding"
        BY <1>3, <2>1 DEF Release, Notify, Goto, Waiting
    <2>3. \/ /\ held[t] \in inUse
             /\ inUse' = inUse \ {held[t]} /\ available' = available \cup {held[t]}
          \/ held[t] \notin inUse /\ inUse' = inUse /\ available' = available
        BY <1>3 DEF Release
    <2> QED
        BY <2>1, <2>2, <2>3
<1>4. CASE CloseAll \/ Metrics \/ UNCHANGED poolVars
    BY <1>4 DEF CloseAll, Metrics, poolVars
<1> QED
    BY <1>1, <1>2, <1>3, <1>4 DEF PoolNext, PoolStep

LEMMA SlotsStep ==
    ASSUME PoolTypeOK, SlotsRecorded, PoolNext
    PROVE  SlotsRecorded'
<1> USE DEF PoolTypeOK, SlotsRecorded
<1>1. ASSUME NEW t \in Threads,
             \/ Enters(t) \/ TakeIdle(t) \/ Wait(t) \/ TimeOut(t) \/ Exceed(t) \/ Refused(t)
      PROVE  SlotsRecorded'
    <2>1. UNCHANGED <<slots, open>> /\ pc[t] # "creating"
        BY <1>1 DEF Enters, Call, poolRest, TakeIdle, Wait, TimeOut, Exceed, Refused, Looking
    <2>2. PICK there \in PCs \ {"creating"} : pc' = [pc EXCEPT ![t] = there]
        BY <1>1 DEF Enters, Call, TakeIdle, Wait, TimeOut, Exceed, Refused, Goto, PCs
    <2> QED
        BY <2>1, <2>2
<1>2. ASSUME NEW t \in Threads, Reserve(t) \/ Create(t) \/ CreateFails(t)
      PROVE  SlotsRecorded'
    BY <1>2 DEF Reserve, Create, CreateFails, Goto
<1>3. ASSUME NEW t \in Threads, Release(t) PROVE SlotsRecorded'
    <2>1. \A s \in Threads : pc'[s] = "creating" <=> pc[s] = "creating"
        BY <1>3 DEF Release, Notify, Goto, Waiting
    <2> QED
        BY <1>3, <2>1 DEF Release
<1>4. CASE CloseAll \/ Metrics \/ UNCHANGED poolVars
    BY <1>4 DEF CloseAll, Metrics, poolVars
<1> QED
    BY <1>1, <1>2, <1>3, <1>4 DEF PoolNext, PoolStep

-----------------------------------------------------------------------------
(* Counting: the bound, and the threads that are woken *)

LEMMA OneMoreOrLess ==
    ASSUME NEW S, IsFiniteSet(S), NEW x
    PROVE  /\ Cardinality(S) \in Nat
           /\ Cardinality(S \cup {x}) =
                 IF x \in S THEN Cardinality(S) ELSE Cardinality(S) + 1
           /\ Cardinality(S \ {x}) =
                 IF x \in S THEN Cardinality(S) - 1 ELSE Cardinality(S)
BY FS_AddElement, FS_RemoveElement, FS_CardinalityType

Woken == {t \in Threads : pc[t] = "woken"}

LEMMA FiniteParts ==
    ASSUME PoolTypeOK
    PROVE  /\ IsFiniteSet(available) /\ IsFiniteSet(inUse) /\ IsFiniteSet(slots)
           /\ IsFiniteSet(Waiting) /\ IsFiniteSet(Woken)
BY SyncPoolAssumption, FS_Subset DEF PoolTypeOK, Waiting, Woken

(* What a step does to the numbers of idle connections and of entries.     *)
LEMMA PoolCounts ==
    ASSUME PoolTypeOK, LeasesExclusive, LeasesRecorded, SlotsRecorded, NEW t \in Threads
    PROVE  /\ TakeIdle(t) => /\ Cardinality(available') = Cardinality(available) - 1
                             /\ Size' = Size + 1 /\ Cardinality(available) # 0
           /\ Reserve(t) => available' = available /\ Size' = Size + 1
           /\ Create(t) => /\ available' = available
                           /\ Size' = IF t \in slots THEN Size ELSE Size + 1
           /\ CreateFails(t) => /\ available' = available
                                /\ Size' = IF t \in slots THEN Size - 1 ELSE Size
           /\ Release(t) =>
                 \/ /\ held[t] \in inUse
                    /\ Cardinality(available') = Cardinality(available) + 1
                    /\ Size' = Size - 1 /\ Size # 0
                 \/ /\ held[t] \notin inUse /\ available' = available /\ Size' = Size
<1> USE DEF Size
<1>1. /\ IsFiniteSet(available) /\ IsFiniteSet(inUse) /\ IsFiniteSet(slots)
      /\ Cardinality(available) \in Nat /\ Cardinality(inUse) \in Nat
      /\ Cardinality(slots) \in Nat
    BY FiniteParts, FS_CardinalityType
<1>2. ASSUME TakeIdle(t)
      PROVE  /\ Cardinality(available') = Cardinality(available) - 1
             /\ Size' = Size + 1 /\ Cardinality(available) # 0
    <2>1. PICK c \in available : available' = available \ {c} /\ inUse' = inUse \cup {c}
        BY <1>2 DEF TakeIdle
    <2>2. c \notin inUse /\ slots' = slots
        BY <1>2, <2>1 DEF TakeIdle, LeasesExclusive
    <2>3. Cardinality(available') = Cardinality(available) - 1
        BY <1>1, <2>1, OneMoreOrLess
    <2>4. Cardinality(inUse') = Cardinality(inUse) + 1
        BY <1>1, <2>1, <2>2, OneMoreOrLess
    <2>5. Cardinality(available) # 0
        BY <1>1, <2>1, FS_EmptySet
    <2> QED
        BY <1>1, <2>2, <2>3, <2>4, <2>5
<1>3. ASSUME Reserve(t) PROVE available' = available /\ Size' = Size + 1
    <2>1. t \notin slots /\ slots' = slots \cup {t} /\ UNCHANGED <<available, inUse>>
        BY <1>3 DEF Reserve, Looking, SlotsRecorded
    <2> QED
        BY <1>1, <2>1, OneMoreOrLess
<1>4. ASSUME Create(t)
      PROVE  available' = available /\ Size' = IF t \in slots THEN Size ELSE Size + 1
    <2>1. PICK c \in Conns \ (HeldConns \cup available) : inUse' = inUse \cup {c}
        BY <1>4 DEF Create
    <2>2. c \notin inUse
        BY <2>1, SyncPoolAssumption DEF HeldConns, LeasesRecorded, PoolTypeOK
    <2>3. slots' = slots \ {t} /\ available' = available
        BY <1>4 DEF Create
    <2>4. Cardinality(inUse') = Cardinality(inUse) + 1
        BY <1>1, <2>1, <2>2, OneMoreOrLess
    <2>5. Cardinality(slots') = IF t \in slots THEN Cardinality(slots) - 1 ELSE Cardinality(slots)
        BY <1>1, <2>3, OneMoreOrLess
    <2> QED
        BY <1>1, <2>3, <2>4, <2>5
<1>5. ASSUME CreateFails(t)
      PROVE  available' = available /\ Size' = IF t \in slots THEN Size - 1 ELSE Size
    <2>1. slots' = slots \ {t} /\ UNCHANGED <<available, inUse>>
        BY <1>5 DEF CreateFails
    <2>2. Cardinality(slots') = IF t \in slots THEN Cardinality(slots) - 1 ELSE Cardinality(slots)
        BY <1>1, <2>1, OneMoreOrLess
    <2> QED
        BY <1>1, <2>1, <2>2
<1>6. ASSUME Release(t)
      PROVE  \/ /\ held[t] \in inUse
                /\ Cardinality(available') = Cardinality(available) + 1
                /\ Size' = Size - 1 /\ Size # 0
             \/ held[t] \notin inUse /\ available' = available /\ Size' = Size
    <2>1. CASE held[t] \in inUse
        <3>1. /\ inUse' = inUse \ {held[t]} /\ available' = available \cup {held[t]}
              /\ slots' = slots
            BY <1>6, <2>1 DEF Release
        <3>2. held[t] \notin available
            BY DEF LeasesExclusive
        <3>3. Cardinality(inUse') = Cardinality(inUse) - 1 /\ Cardinality(inUse) # 0
            BY <1>1, <2>1, <3>1, OneMoreOrLess, FS_EmptySet
        <3>4. Cardinality(available') = Cardinality(available) + 1
            BY <1>1, <3>1, <3>2, OneMoreOrLess
        <3> QED
            BY <1>1, <2>1, <3>1, <3>3, <3>4
    <2>2. CASE held[t] \notin inUse
        BY <1>6, <2>2 DEF Release
    <2> QED
        BY <2>1, <2>2
<1> QED
    BY <1>2, <1>3, <1>4, <1>5, <1>6

LEMMA CapacityInit == PoolInit => CapacityBound
<1>1. Cardinality({}) = 0
    BY FS_EmptySet
<1> QED
    BY <1>1, SizerAssumption DEF PoolInit, CapacityBound, Size

LEMMA CapacityStep ==
    ASSUME PoolTypeOK, LeasesExclusive, LeasesRecorded, SlotsRecorded, CapacityBound, PoolNext
    PROVE  CapacityBound'
<1>1. /\ Cardinality(available) \in Nat /\ Size \in Nat
      /\ sizer.current \in Nat /\ sizer.current <= MaxConn /\ MaxConn \in Nat
    <2>1. Cardinality(available) \in Nat /\ Size \in Nat
        BY FiniteParts, FS_CardinalityType DEF Size
    <2> QED
        BY <2>1, SizerAssumption DEF PoolTypeOK, Sizers
<1> SUFFICES ASSUME open' PROVE Cardinality(available') + Size' <= MaxConn
    BY DEF CapacityBound
<1>2. open /\ Cardinality(available) + Size <= MaxConn
    BY DEF CapacityBound, PoolNext, PoolStep, Enters, poolRest, TakeIdle, Reserve, Wait,
        TimeOut, Exceed, Create, CreateFails, Refused, Release, CloseAll, Metrics, poolVars
<1>3. ASSUME NEW t \in Threads,
             TakeIdle(t) \/ Reserve(t) \/ Create(t) \/ CreateFails(t) \/ Release(t)
      PROVE  Cardinality(available') + Size' <= MaxConn
    <2>1. CASE TakeIdle(t) \/ CreateFails(t) \/ Release(t)
        BY <1>1, <1>2, <2>1, PoolCounts
    <2>2. CASE Reserve(t)
        <3>1. Cardinality(available) = 0 /\ Size < sizer.current
            BY <2>2, FS_EmptySet DEF Reserve
        <3> QED
            BY <1>1, <2>2, <3>1, PoolCounts
    <2>3. CASE Create(t)
        <3>1. t \in slots
            BY <1>2, <2>3 DEF Create, SlotsRecorded
        <3> QED
            BY <1>2, <2>3, <3>1, PoolCounts
    <2> QED
        BY <1>3, <2>1, <2>2, <2>3
<1>4. CASE UNCHANGED <<available, inUse, slots>>
    BY <1>2, <1>4 DEF Size
<1>5. ASSUME NEW t \in Threads, Enters(t) \/ Wait(t) \/ TimeOut(t) \/ Exceed(t) \/ Refused(t)
      PROVE  UNCHANGED <<available, inUse, slots>>
    BY <1>5 DEF Enters, poolRest, Wait, TimeOut, Exceed, Refused
<1>6. CASE CloseAll
    BY <1>6 DEF CloseAll
<1>7. CASE Metrics \/ UNCHANGED poolVars
    BY <1>4, <1>7 DEF Metrics, poolVars
<1> QED
    BY <1>3, <1>4, <1>5, <1>6, <1>7 DEF PoolNext, PoolStep

LEMMA WokenInit == PoolInit => WokenForAll
BY DEF PoolInit, WokenForAll, Waiting

LEMMA WokenStep ==
    ASSUME PoolTypeOK, PoolTypeOK', LeasesExclusive, LeasesRecorded, SlotsRecorded,
           WokenForAll, PoolNext
    PROVE  WokenForAll'
<1> DEFINE a == Cardinality(available)
           k == Cardinality(Woken)
<1>1. /\ a \in Nat /\ Size \in Nat /\ k \in Nat /\ IsFiniteSet(Woken)
      /\ sizer.current \in Nat /\ sizer'.current \in Nat
    <2>1. a \in Nat /\ Size \in Nat /\ k \in Nat /\ IsFiniteSet(Woken)
        BY FiniteParts, FS_CardinalityType DEF Size
    <2> QED
        BY <2>1, SizerAssumption DEF PoolTypeOK, Sizers
<1>2. a' \in Nat /\ Size' \in Nat /\ k' \in Nat
    <2>1. /\ IsFiniteSet(available') /\ IsFiniteSet(inUse') /\ IsFiniteSet(slots')
          /\ IsFiniteSet(Woken')
        BY SyncPoolAssumption, FS_Subset DEF PoolTypeOK, Woken
    <2> QED
        BY <2>1, FS_CardinalityType DEF Size
<1>3. ~silent /\ Waiting # {} => a <= k /\ sizer.current <= k + Size
    BY <1>1 DEF WokenForAll, Grantable, Woken
<1>4. SUFFICES ASSUME ~silent', Waiting' # {}
               PROVE  a' <= k' /\ sizer'.current <= k' + Size'
    BY <1>1, <1>2 DEF WokenForAll, Grantable, Woken
(* The threads that wait and those that are woken, after a Goto. *)
<1>5. ASSUME NEW t \in Threads, NEW there \in PCs, Goto(t, there)
      PROVE  /\ there # "waiting" => Waiting' = Waiting \ {t}
             /\ Woken' = IF there = "woken" THEN Woken \cup {t} ELSE Woken \ {t}
             /\ ~silent
    <2>1. pc' = [pc EXCEPT ![t] = there] /\ silent' = Still([pc EXCEPT ![t] = there])
        BY <1>5 DEF Goto
    <2>2. \A s \in Threads : pc'[s] = IF s = t THEN there ELSE pc[s]
        BY <2>1 DEF PoolTypeOK
    <2>3. there # "waiting" => Waiting' = Waiting \ {t}
        BY <2>2 DEF Waiting
    <2>4. Woken' = IF there = "woken" THEN Woken \cup {t} ELSE Woken \ {t}
        BY <2>2 DEF Woken
    <2>5. ~silent
        BY <1>4, <2>1 DEF Still, Waiting
    <2> QED
        BY <2>3, <2>4, <2>5
<1>6. PCs = {"out", "wanting", "waiting", "woken", "creating", "holding", "refused"}
    BY DEF PCs
<1>7. ASSUME NEW t \in Threads, Enters(t) \/ Refused(t) \/ Create(t) PROVE k' = k
    <2>1. PICK there \in PCs \ {"woken", "waiting"} : Goto(t, there) /\ t \notin Woken
        BY <1>6, <1>7 DEF Enters, Call, Refused, Create, Woken
    <2>2. Woken' = Woken
        BY <1>5, <2>1
    <2> QED
        BY <2>2
<1>8. ASSUME NEW t \in Threads, TakeIdle(t) \/ Reserve(t) PROVE k' >= k - 1
    <2>1. PICK there \in PCs \ {"woken", "waiting"} : Goto(t, there)
        BY <1>6, <1>8 DEF TakeIdle, Reserve
    <2>2. Woken' = Woken \ {t}
        BY <1>5, <2>1
    <2>3. k' = IF t \in Woken THEN k - 1 ELSE k
        BY <1>1, <2>2, OneMoreOrLess
    <2> QED
        BY <1>1, <2>3
<1>9. ASSUME NEW t \in Threads, Enters(t) \/ Refused(t)
      PROVE  a' <= k' /\ sizer'.current <= k' + Size'
    <2>1. PICK there \in PCs \ {"woken", "waiting"} : Goto(t, there)
        BY <1>6, <1>9 DEF Enters, Call, Refused
    <2>2. ~silent /\ Waiting # {}
        BY <1>4, <1>5, <2>1
    <2>3. UNCHANGED <<available, inUse, slots, sizer>>
        BY <1>9 DEF Enters, poolRest, Refused
    <2> QED
        BY <1>3, <1>7, <1>9, <2>2, <2>3 DEF Size
<1>10. ASSUME NEW t \in Threads, TakeIdle(t) \/ Reserve(t) \/ Create(t)
       PROVE  a' <= k' /\ sizer'.current <= k' + Size'
    <2>1. PICK there \in PCs \ {"woken", "waiting"} : Goto(t, there)
        BY <1>6, <1>10 DEF TakeIdle, Reserve, Create
    <2>2. ~silent /\ Waiting # {}
        BY <1>4, <1>5, <2>1
    <2>3. sizer' = sizer
        BY <1>10 DEF TakeIdle, Reserve, Create
    <2>4. CASE TakeIdle(t)
        BY <1>1, <1>2, <1>3, <1>8, <2>2, <2>3, <2>4, PoolCounts
    <2>5. CASE Reserve(t)
        <3>1. a = 0
            BY <2>5, FS_EmptySet DEF Reserve
        <3> QED
            BY <1>1, <1>2, <1>3, <1>8, <2>2, <2>3, <2>5, <3>1, PoolCounts
    <2>6. CASE Create(t)
        BY <1>1, <1>2, <1>3, <1>7, <2>2, <2>3, <2>6, PoolCounts
    <2> QED
        BY <1>10, <2>4, <2>5, <2>6
<1>11. ASSUME NEW t \in Threads, Wait(t) \/ Exceed(t)
       PROVE  a' <= k' /\ sizer'.current <= k' + Size'
    <2>1. /\ available = {} /\ ~(Size < sizer.current)
          /\ UNCHANGED <<available, inUse, slots, sizer>>
        BY <1>11 DEF Wait, Exceed, Capacity
    <2>2. a' = 0 /\ Size' = Size
        BY <2>1, FS_EmptySet DEF Size
    <2> QED
        BY <1>1, <1>2, <2>1, <2>2
<1>12. ASSUME NEW t \in Threads, TimeOut(t)
       PROVE  a' <= k' /\ sizer'.current <= k' + Size'
    <2>1. t \in Waiting /\ Goto(t, "woken") /\ UNCHANGED <<available, inUse, slots, sizer>>
        BY <1>12 DEF TimeOut, Waiting
    <2>2. ~silent /\ Woken' = Woken \cup {t}
        BY <1>5, <1>6, <2>1
    <2>3. k' = IF t \in Woken THEN k ELSE k + 1
        BY <1>1, <2>2, OneMoreOrLess
    <2> QED
        BY <1>1, <1>2, <1>3, <2>1, <2>2, <2>3 DEF Size
<1>13. ASSUME NEW t \in Threads, Release(t)
       PROVE  a' <= k' /\ sizer'.current <= k' + Size'
    <2>1. pc[t] = "holding" /\ sizer' = sizer /\ t \notin Woken /\ t \notin Waiting
        BY <1>13 DEF Release, Woken, Waiting
    <2>2. CASE held[t] \notin inUse
        <3>1. Goto(t, "out")
            BY <1>13, <2>2 DEF Release
        <3>2. ~silent /\ Waiting' = Waiting /\ Woken' = Woken
            BY <1>5, <1>6, <2>1, <3>1
        <3>3. available' = available /\ Size' = Size
            BY <1>13, <2>2, PoolCounts
        <3> QED
            BY <1>3, <1>4, <2>1, <3>2, <3>3
    <2>3. CASE held[t] \in inUse
        <3>1. PICK w \in Waiting : /\ pc' = [pc EXCEPT ![t] = "out", ![w] = "woken"]
                                   /\ silent' = (silent /\ Cardinality(Waiting) > 1)
            <4>1. Notify(t)
                BY <1>13, <2>3 DEF Release
            <4>2. Goto(t, "out") => Waiting # {}
                BY <1>4, <1>5, <1>6, <2>1
            <4> QED
                BY <4>1, <4>2 DEF Notify
        <3>2. w \in Threads /\ w # t /\ pc[w] = "waiting"
            BY <2>1, <3>1 DEF Waiting
        <3>3. \A s \in Threads : pc'[s] = IF s = t THEN "out"
                                          ELSE IF s = w THEN "woken" ELSE pc[s]
            BY <3>1, <3>2 DEF PoolTypeOK
        <3>4. Woken' = Woken \cup {w} /\ w \notin Woken
            BY <2>1, <3>2, <3>3 DEF Woken
        <3>5. k' = k + 1
            BY <1>1, <3>4, OneMoreOrLess
        <3>6. ~silent
            <4>1. CASE Cardinality(Waiting) > 1
                BY <1>4, <3>1, <4>1
            <4>2. CASE ~(Cardinality(Waiting) > 1)
                <5>1. Waiting' = Waiting \ {w}
                    BY <2>1, <3>2, <3>3 DEF Waiting
                <5>2. IsFiniteSet(Waiting) /\ IsFiniteSet(Waiting \ {w})
                    BY FiniteParts, FS_RemoveElement
                <5>3. /\ Cardinality(Waiting \ {w}) = Cardinality(Waiting) - 1
                      /\ Cardinality(Waiting) \in Nat /\ Cardinality(Waiting \ {w}) \in Nat
                    BY <3>1, <5>2, OneMoreOrLess, FS_CardinalityType
                <5>4. Cardinality(Waiting \ {w}) = 0
                    BY <4>2, <5>3
                <5> QED
                    BY <1>4, <5>1, <5>2, <5>4, FS_EmptySet
            <4> QED
                BY <4>1, <4>2
        <3>7. a' = a + 1 /\ Size' = Size - 1
            BY <1>13, <2>3, PoolCounts
        <3> QED
            BY <1>1, <1>2, <1>3, <2>1, <3>1, <3>5, <3>6, <3>7
    <2> QED
        BY <2>2, <2>3
<1>14. CASE (\E t \in Threads : CreateFails(t)) \/ CloseAll
    <2>1. Waiting' = Waiting
        BY <1>14 DEF CreateFails, CloseAll, Waiting, PoolTypeOK
    <2>2. silent' = (Waiting # {})
        BY <1>14 DEF CreateFails, CloseAll
    <2> QED
        BY <1>4, <2>1, <2>2
<1>15. CASE Metrics
    <2>1. /\ Waiting' = Waiting /\ Woken' = Woken /\ UNCHANGED <<available, inUse, slots>>
          /\ silent' = (Waiting # {} /\ (silent \/ sizer'.current > sizer.current))
        BY <1>15 DEF Metrics, Waiting, Woken
    <2>2. ~silent /\ ~(sizer'.current > sizer.current)
        BY <1>4, <2>1
    <2> QED
        BY <1>1, <1>2, <1>3, <1>4, <2>1, <2>2 DEF Size
<1>16. CASE UNCHANGED poolVars
    <2>1. /\ Waiting' = Waiting /\ Woken' = Woken
          /\ UNCHANGED <<available, inUse, slots, sizer, silent>>
        BY <1>16 DEF poolVars, Waiting, Woken
    <2> QED
        BY <1>3, <1>4, <2>1 DEF Size
<1> QED
    BY <1>9, <1>10, <1>11, <1>12, <1>13, <1>14, <1>15, <1>16 DEF PoolNext, PoolStep

LEMMA PoolInvInductive == (PoolInit => PoolInv) /\ (PoolInv /\ PoolNext => PoolInv')
<1>1. PoolInit => PoolInv
    BY PoolTypeInit, LeasesInit, CapacityInit, WokenInit DEF PoolInv
<1>2. ASSUME PoolInv, PoolNext PROVE PoolInv'
    <2>1. PoolTypeOK'
        BY <1>2, PoolTypeStep DEF PoolInv
    <2> QED
        BY <1>2, <2>1, LeasesStep, SlotsStep, CapacityStep, WokenStep DEF PoolInv
<1> QED
    BY <1>1, <1>2

LEMMA PoolInvHolds == Spec => []PoolInv
<1>1. Init => PoolInv
    BY PoolInvInductive DEF Init
<1>2. PoolInv /\ [Next]_vars => PoolInv'
    BY PoolInvInductive, PoolSummary
<1> QED
    BY <1>1, <1>2, PTL DEF Spec

(* One notify() per release() is enough: no thread waits beside a          *)
(* connection it could have, unless a creation failed or the size grew     *)
(* while it waited (sync_pool.py:85-95, :161-165).                         *)
THEOREM NobodyStranded == Spec => []NoStrandedWaiter
<1>1. PoolInv => NoStrandedWaiter
    <2> SUFFICES ASSUME PoolInv, ~silent
                 PROVE  AtMost(Cardinality(Waiting), Grantable) <= Cardinality(Woken)
        BY DEF NoStrandedWaiter, Woken
    <2>1. /\ Cardinality(Waiting) \in Nat /\ Cardinality(Woken) \in Nat
          /\ Cardinality(available) \in Nat /\ Size \in Nat /\ sizer.current \in Nat
        <3>1. /\ Cardinality(Waiting) \in Nat /\ Cardinality(Woken) \in Nat
              /\ Cardinality(available) \in Nat /\ Size \in Nat
            BY FiniteParts, FS_CardinalityType DEF PoolInv, Size
        <3> QED
            BY <3>1, SizerAssumption DEF PoolInv, PoolTypeOK, Sizers
    <2>2. Grantable \in Nat
        BY <2>1 DEF Grantable
    <2>3. CASE Waiting = {}
        <3>1. Cardinality(Waiting) = 0
            BY <2>3, FS_EmptySet
        <3> QED
            BY <2>1, <2>2, <3>1 DEF AtMost
    <2>4. CASE Waiting # {}
        <3>1. Grantable <= Cardinality(Woken)
            BY <2>4 DEF PoolInv, WokenForAll, Woken
        <3> QED
            BY <2>1, <2>2, <3>1 DEF AtMost
    <2> QED
        BY <2>3, <2>4
<1> QED
    BY <1>1, PoolInvHolds, PTL

-----------------------------------------------------------------------------
(* Refinement: every step is a step of ConnectionLease or leaves it alone *)

LEMMA LeasedIsHeld == Lease!Leased = HeldConns
BY DEF Lease!Leased, HeldConns

(* The instance has its own copy of FiniteSets. *)
LEMMA SameCardinality == ASSUME NEW S PROVE Lease!Cardinality(S) = Cardinality(S)
BY DEF Lease!Cardinality, Cardinality

(* _in_use never names a connection that nobody holds. *)
LEMMA NoStrays == ASSUME LeasesRecorded, PoolTypeOK PROVE inUse \ HeldConns = {}
BY SyncPoolAssumption DEF LeasesRecorded, PoolTypeOK, HeldConns

LEMMA NoStraysNext == ASSUME LeasesRecorded', PoolTypeOK' PROVE (inUse \ HeldConns)' = {}
BY SyncPoolAssumption DEF LeasesRecorded, PoolTypeOK, HeldConns

LEMMA GrantBounded ==
    ASSUME PoolInv'
    PROVE  Lease!Bounded'
<1> SUFFICES ASSUME open'
             PROVE  Cardinality(available' \cup (inUse \ HeldConns)' \cup HeldConns') <= MaxConn
    BY SameCardinality DEF Lease!Bounded, Lease!Leased, HeldConns
<1>1. HeldConns' \subseteq inUse'
    BY DEF PoolInv, HeldConns, LeasesRecorded
<1>2. available' \cup (inUse \ HeldConns)' \cup HeldConns' = available' \cup inUse'
    BY <1>1
<1>3. IsFiniteSet(available') /\ IsFiniteSet(inUse') /\ IsFiniteSet(slots')
    BY SyncPoolAssumption, FS_Subset DEF PoolInv, PoolTypeOK
<1>4. /\ Cardinality(available') \in Nat /\ Cardinality(inUse') \in Nat
      /\ Cardinality(slots') \in Nat /\ Cardinality(available' \cap inUse') \in Nat
      /\ Cardinality(available' \cup inUse')
             = Cardinality(available') + Cardinality(inUse') - Cardinality(available' \cap inUse')
    BY <1>3, FS_Union, FS_Intersection, FS_CardinalityType
<1>5. Cardinality(available') + (Cardinality(inUse') + Cardinality(slots')) <= MaxConn
    BY DEF PoolInv, CapacityBound, Size
<1>6. Cardinality(available' \cup inUse') <= MaxConn
    BY <1>4, <1>5, SizerAssumption
<1> QED
    BY <1>2, <1>6

LEMMA GrantStep ==
    ASSUME PoolInv, PoolInv', NEW t \in Threads, TakeIdle(t) \/ Create(t)
    PROVE  Lease!Grant(t)
<1>1. held[t] = NoConn
    BY DEF TakeIdle, Create, Looking, PoolInv, LeasesRecorded
<1>2. PICK c \in Conns : /\ c \notin HeldConns
                         /\ available' = available \ {c}
                         /\ held' = [held EXCEPT ![t] = c]
    <2>1. CASE TakeIdle(t)
        <3>1. PICK c \in available : /\ available' = available \ {c}
                                     /\ held' = [held EXCEPT ![t] = c]
            BY <2>1 DEF TakeIdle
        <3>2. c \in Conns /\ c \notin HeldConns
            BY DEF PoolInv, PoolTypeOK, LeasesExclusive, HeldConns
        <3> QED
            BY <3>1, <3>2
    <2>2. CASE Create(t)
        <3>1. PICK c \in Conns \ (HeldConns \cup available) : held' = [held EXCEPT ![t] = c]
            BY <2>2 DEF Create
        <3>2. available' = available \ {c}
            BY <2>2, <3>1 DEF Create
        <3> QED
            BY <3>1, <3>2
    <2> QED
        BY <2>1, <2>2
<1>3. inUse \ HeldConns = {} /\ (inUse \ HeldConns)' = {}
    BY NoStrays, NoStraysNext DEF PoolInv
<1>4. open' = open
    BY DEF TakeIdle, Create
<1>5. c \in Conns \ (Lease!Leased \cup (inUse \ HeldConns))
    BY <1>2, <1>3, LeasedIsHeld
<1> QED
    BY <1>1, <1>2, <1>3, <1>4, <1>5, GrantBounded DEF Lease!Grant

LEMMA GiveBackStep ==
    ASSUME PoolInv, PoolInv', NEW t \in Threads, Release(t)
    PROVE  Lease!GiveBack(t)
<1>1. held[t] # NoConn /\ held' = [held EXCEPT ![t] = NoConn] /\ open' = open
    BY DEF Release, PoolInv, LeasesRecorded
<1>2. available' \in {available, available \cup {held[t]}}
    BY DEF Release
<1>3. (inUse \ HeldConns)' = inUse \ HeldConns
    BY NoStrays, NoStraysNext DEF PoolInv
<1> QED
    BY <1>1, <1>2, <1>3 DEF Lease!GiveBack

LEMMA RefinementStep ==
    ASSUME PoolInv, PoolInv', PoolNext
    PROVE  [Lease!LeaseNext]_(Lease!leaseVars)
<1>1. ASSUME NEW t \in Threads, TakeIdle(t) \/ Create(t) PROVE Lease!LeaseNext
    BY <1>1, GrantStep DEF Lease!LeaseNext
<1>2. ASSUME NEW t \in Threads, Release(t) PROVE Lease!LeaseNext
    BY <1>2, GiveBackStep DEF Lease!LeaseNext
<1>3. ASSUME UNCHANGED <<held, available, open>> PROVE UNCHANGED Lease!leaseVars
    BY <1>3, NoStrays, NoStraysNext DEF PoolInv, Lease!leaseVars
<1>4. ASSUME NEW t \in Threads,
             \/ Enters(t) \/ Reserve(t) \/ Wait(t) \/ TimeOut(t) \/ Exceed(t)
             \/ CreateFails(t) \/ Refused(t)
      PROVE  UNCHANGED <<held, available, open>>
    BY <1>4 DEF Enters, poolRest, Reserve, Wait, TimeOut, Exceed, CreateFails, Refused
<1>5. CASE CloseAll
    <2>1. (inUse \ HeldConns)' = {}
        BY NoStraysNext DEF PoolInv
    <2> QED
        BY <1>5, <2>1 DEF CloseAll, Lease!LeaseNext, Lease!Shutdown
<1>6. CASE Metrics \/ UNCHANGED poolVars
    BY <1>3, <1>6 DEF Metrics, poolVars
<1> QED
    BY <1>1, <1>2, <1>3, <1>4, <1>5, <1>6 DEF PoolNext, PoolStep

LEMMA RefinementInit == PoolInit => Lease!LeaseInit
BY SyncPoolAssumption DEF PoolInit, Lease!LeaseInit, HeldConns

(* The sync pool, with everything the store does on it, keeps the promise  *)
(* of ConnectionLease.                                                     *)
THEOREM StoreImplementsLease == Spec => ImplementsLease
<1>1. Spec /\ []PoolInv => Lease!LeaseSpec
    <2>1. Init => Lease!LeaseInit
        BY RefinementInit DEF Init
    <2>2. PoolInv /\ PoolInv' /\ [Next]_vars => [Lease!LeaseNext]_(Lease!leaseVars)
        BY RefinementStep, PoolSummary
    <2> QED
        BY <2>1, <2>2, PTL DEF Spec, Lease!LeaseSpec
<1> QED
    BY <1>1, PoolInvHolds, PTL DEF ImplementsLease

-----------------------------------------------------------------------------
(* Type correctness of the store *)

(* The pool goes on in step with the store. *)
LEMMA PoolGoesOn ==
    ASSUME PoolInv, [Next]_vars
    PROVE  PoolInv' /\ PoolNext
BY PoolSummary, PoolInvInductive

LEMMA HeldIsOwn ==
    ASSUME PoolInv, NEW t \in Threads, pc[t] = "holding"
    PROVE  /\ held[t] \in Conns /\ held[t] \notin available
           /\ \A s \in Threads : s # t => held[s] # held[t]
BY DEF PoolInv, LeasesRecorded, LeasesExclusive, PoolTypeOK

LEMMA ThreadKinds ==
    /\ Tasks \subseteq Threads /\ Flusher \in Threads /\ Stopper \in Threads
    /\ \A t \in Threads : t \in Tasks <=> ~Catches(t)
BY StoreAssumption DEF Catches

StoreTypeOK ==
    /\ op \in [Threads -> Ops]
    /\ todo \in [Threads -> SUBSET Items] /\ batch \in [Threads -> SUBSET Items]
    /\ failed \in [Threads -> BOOLEAN]
    /\ server \in [Conns -> Server]
    /\ queue \in Seq(Records) /\ emitted \subseteq Records
    /\ flusher \in {"asleep", "flushing", "ended"}
    /\ stage \in {"serving", "joining", "flushing", "disconnecting", "closed"}
    /\ written \subseteq Items /\ spoiled \subseteq Items
    /\ faults \in 0 .. MaxFaults

LEMMA TypeParts == TypeOK <=> PoolTypeOK /\ StoreTypeOK
BY DEF TypeOK, StoreTypeOK

LEMMA OpsAre ==
    Ops = {"none", "one", "begin", "body", "commit", "rollback", "restore", "release"}
BY DEF Ops

LEMMA FreshStates == Fresh \in Server /\ [Fresh EXCEPT !.alive = FALSE] \in Server
BY DEF Server, Fresh

LEMMA ServerStates ==
    ASSUME NEW s \in Server, NEW items \in SUBSET Items
    PROVE  /\ [s EXCEPT !.txn = "open", !.pending = @ \cup items] \in Server
           /\ [s EXCEPT !.auto = FALSE] \in Server /\ [s EXCEPT !.auto = TRUE] \in Server
           /\ [s EXCEPT !.txn = "failed"] \in Server
           /\ Ended(s) \in Server
BY DEF Server, Ended

LEMMA ServerRecord ==
    ASSUME NEW s \in Server
    PROVE  /\ s = [auto |-> s.auto, txn |-> s.txn, pending |-> s.pending, alive |-> s.alive]
           /\ s.auto \in BOOLEAN /\ s.alive \in BOOLEAN
BY DEF Server

LEMMA EnterTypes ==
    ASSUME StoreTypeOK, NEW t \in Threads, NEW items \in SUBSET Items, NEW first \in Ops,
           Enter(t, items, first)
    PROVE  /\ op' \in [Threads -> Ops] /\ failed' \in [Threads -> BOOLEAN]
           /\ todo' \in [Threads -> SUBSET Items] /\ batch' \in [Threads -> SUBSET Items]
BY DEF Enter, Do, StoreTypeOK

(* A batch of the queue's first records, and what is left of the queue.    *)
LEMMA QueueParts ==
    ASSUME queue \in Seq(Records), NEW n \in 0 .. Len(queue)
    PROVE  /\ First(n) \subseteq Records
           /\ SubSeq(queue, n + 1, Len(queue)) \in Seq(Records)
           /\ Len(SubSeq(queue, n + 1, Len(queue))) = Len(queue) - n
           /\ \A i \in 1 .. Len(queue) - n : SubSeq(queue, n + 1, Len(queue))[i] = queue[n + i]
<1>1. Len(queue) \in Nat /\ \A i \in 1 .. Len(queue) : queue[i] \in Records
    OBVIOUS
<1>2. First(n) \subseteq Records
    BY <1>1 DEF First
<1>3. \A i \in n + 1 .. Len(queue) : queue[i] \in Records
    BY <1>1
<1> QED
    BY <1>1, <1>2, <1>3, SubSeqProperties

LEMMA DrainCount ==
    ASSUME queue \in Seq(Records)
    PROVE  AtMost(Len(queue), MaxBatch) \in 0 .. Len(queue)
<1>1. Len(queue) \in Nat /\ MaxBatch \in Nat
    BY StoreAssumption
<1> QED
    BY <1>1 DEF AtMost

LEMMA StoreTypeInit == Init => TypeOK
<1>1. Init => PoolTypeOK
    BY PoolTypeInit DEF Init
<1>2. Init => StoreTypeOK
    <2>1. Fresh \in Server
        BY DEF Fresh, Server
    <2>2. 0 \in 0 .. MaxFaults /\ <<>> \in Seq(Records)
        BY StoreAssumption
    <2> QED
        BY <2>1, <2>2 DEF Init, StoreTypeOK, Ops
<1> QED
    BY <1>1, <1>2, TypeParts

LEMMA StoreTypeStep ==
    ASSUME PoolInv, TypeOK, [Next]_vars
    PROVE  TypeOK'
<1>1. PoolTypeOK'
    BY PoolGoesOn DEF PoolInv
<1>2. StoreTypeOK
    BY TypeParts
<1> USE DEF StoreTypeOK
<1>3. StoreTypeOK'
    <2>1. ASSUME NEW t \in Threads, Acquire(t) PROVE StoreTypeOK'
        BY <1>2, <2>1 DEF Acquire, storeRest, threadVars, queueVars
    <2>2. ASSUME NEW t \in Threads, Return(t)
          PROVE  /\ op' \in [Threads -> Ops] /\ failed' \in [Threads -> BOOLEAN]
                 /\ todo' \in [Threads -> SUBSET Items] /\ batch' \in [Threads -> SUBSET Items]
                 /\ flusher' \in {"asleep", "flushing", "ended"}
                 /\ stage' \in {"serving", "joining", "flushing", "disconnecting", "closed"}
                 /\ UNCHANGED <<queue, emitted, faults>>
        BY <1>2, <2>2, OpsAre DEF Return, Do
    <2>3. ASSUME NEW t \in Threads, GiveUp(t) PROVE StoreTypeOK'
        BY <1>2, <2>2, <2>3 DEF GiveUp
    <2>4. ASSUME NEW t \in Threads, Leave(t) PROVE StoreTypeOK'
        <3>1. server' \in [Conns -> Server]
            BY <1>2, <2>4, FreshStates DEF Leave
        <3> QED
            BY <1>2, <2>2, <2>4, <3>1 DEF Leave
    <2>5. ASSUME NEW t \in Threads, pc[t] = "holding"
          PROVE  /\ Mine(t) \in Server /\ Mine(t).pending \subseteq Items
                 /\ batch[t] \in SUBSET Items /\ todo[t] \in SUBSET Items
        BY <1>2, <2>5, HeldIsOwn DEF Mine, Server
    <2>6. ASSUME NEW t \in Threads, NEW s \in Server, Set(t, s)
          PROVE  server' \in [Conns -> Server]
        BY <1>2, <2>6 DEF Set
    <2>7. ASSUME NEW t \in Threads, NEW step \in Ops, Do(t, step)
          PROVE  op' \in [Threads -> Ops]
        BY <1>2, <2>7 DEF Do
    <2>8. ASSUME NEW t \in Threads, Raise(t) PROVE failed' \in [Threads -> BOOLEAN]
        BY <1>2, <2>8 DEF Raise
    <2>9. ASSUME NEW t \in Threads, One(t) \/ Begin(t) \/ Commit(t) \/ Rollback(t) \/ Restore(t)
          PROVE  StoreTypeOK'
        <3>1. pc[t] = "holding" /\ UNCHANGED <<batch, queueVars, faults, todo, spoiled>>
            BY <2>9 DEF One, Begin, Commit, Rollback, Restore, At, frame
        <3>2. server' \in [Conns -> Server]
            BY <1>2, <2>5, <2>6, <2>9, <3>1, ServerStates
            DEF One, Begin, Commit, Rollback, Restore
        <3>3. op' \in [Threads -> Ops] /\ failed' \in [Threads -> BOOLEAN]
            BY <1>2, <2>7, <2>8, <2>9, OpsAre DEF One, Begin, Commit, Rollback, Restore
        <3>4. written' \subseteq Items
            BY <1>2, <2>5, <2>9, <3>1 DEF One, Begin, Commit, Rollback, Restore
        <3> QED
            BY <1>2, <3>1, <3>2, <3>3, <3>4 DEF queueVars
    <2>10. ASSUME NEW t \in Threads, EndBody(t) \/ CallOnLost(t) PROVE StoreTypeOK'
        <3>1. pc[t] = "holding" /\ UNCHANGED <<batch, queueVars, faults, todo, server, written>>
            BY <2>10 DEF EndBody, CallOnLost, At, frame
        <3>2. op' \in [Threads -> Ops] /\ failed' \in [Threads -> BOOLEAN]
            BY <1>2, <2>7, <2>8, <2>10, OpsAre DEF EndBody, CallOnLost
        <3>3. spoiled' \subseteq Items
            BY <1>2, <2>5, <2>10, <3>1 DEF EndBody, CallOnLost
        <3> QED
            BY <1>2, <3>1, <3>2, <3>3 DEF queueVars
    <2>11. ASSUME NEW t \in Threads, WriteItem(t) PROVE StoreTypeOK'
        <3>1. pc[t] = "holding" /\ UNCHANGED <<batch, queueVars, faults, op, failed>>
            BY <2>11 DEF WriteItem, At, frame
        <3>2. PICK i \in todo[t] :
                 /\ todo' = [todo EXCEPT ![t] = @ \ {i}]
                 /\ \/ spoiled' = spoiled \cup {i} /\ UNCHANGED <<server, written>>
                    \/ written' = written \cup {i} /\ UNCHANGED <<server, spoiled>>
                    \/ /\ Set(t, [Mine(t) EXCEPT !.txn = "open", !.pending = @ \cup {i}])
                       /\ UNCHANGED <<written, spoiled>>
            BY <2>11 DEF WriteItem
        <3>3. i \in Items /\ {i} \in SUBSET Items
            BY <2>5, <3>1
        <3>4. server' \in [Conns -> Server]
            BY <1>2, <2>5, <2>6, <3>1, <3>2, <3>3, ServerStates
        <3> QED
            BY <1>2, <3>1, <3>2, <3>3, <3>4 DEF queueVars
    <2>12. ASSUME NEW t \in Threads, Disturb(t) PROVE StoreTypeOK'
        <3>1. faults' \in 0 .. MaxFaults
            BY <1>2, <2>12, StoreAssumption
            DEF Disturb, StatementFails, RecordFails, Fault
        <3>2. CASE StatementFails(t)
            <4>1. pc[t] = "holding" /\ UNCHANGED <<batch, queueVars, written>>
                BY <3>2 DEF StatementFails, At
            <4>2. server' \in [Conns -> Server]
                BY <1>2, <2>5, <2>6, <3>2, <4>1, ServerStates DEF StatementFails
            <4>3. /\ op' \in [Threads -> Ops] /\ failed' \in [Threads -> BOOLEAN]
                  /\ todo' \in [Threads -> SUBSET Items] /\ spoiled' \subseteq Items
                BY <1>2, <2>5, <2>7, <2>8, <3>2, <4>1, OpsAre DEF StatementFails
            <4> QED
                BY <1>2, <3>1, <4>1, <4>2, <4>3 DEF queueVars
        <3>3. CASE RecordFails(t)
            <4>1. pc[t] = "holding" /\ UNCHANGED <<op, failed, batch, server, queueVars, written>>
                BY <3>3 DEF RecordFails, At
            <4> QED
                BY <1>2, <2>5, <3>1, <3>3, <4>1 DEF RecordFails, queueVars
        <3>4. CASE UNCHANGED <<storeRest, server>>
            BY <1>2, <3>1, <3>4 DEF storeRest, threadVars, queueVars
        <3> QED
            BY <2>12, <3>2, <3>3, <3>4 DEF Disturb
    <2>13. ASSUME NEW t \in Tasks, RunOne(t) \/ RunTransaction(t) PROVE StoreTypeOK'
        <3>1. {<<t, 1>>} \in SUBSET Items /\ {t} \X {1, 2} \in SUBSET Items
            BY DEF Items
        <3>2. UNCHANGED <<server, queueVars, written, spoiled, faults>>
            BY <2>13 DEF RunOne, RunTransaction
        <3> QED
            BY <1>2, <2>13, <3>1, <3>2, ThreadKinds, EnterTypes, OpsAre
            DEF RunOne, RunTransaction, queueVars
    <2>14. Records \subseteq Items
        BY DEF Items
    <2>15. CASE Drain
        <3> DEFINE n == AtMost(Len(queue), MaxBatch)
        <3>1. CASE Enter(Flusher, First(n), "begin") /\ queue' = SubSeq(queue, n + 1, Len(queue))
            BY <1>2, <2>14, <2>15, <3>1, ThreadKinds, EnterTypes, QueueParts, DrainCount, OpsAre
            DEF Drain
        <3>2. CASE UNCHANGED <<poolVars, threadVars, queue>>
            BY <1>2, <2>15, <3>2 DEF Drain, threadVars
        <3> QED
            BY <2>15, <3>1, <3>2 DEF Drain
    <2>16. CASE JoinEnds \/ JoinTimesOut
        <3>1. First(Len(queue)) \in SUBSET Items
            BY <1>2, <2>14, QueueParts
        <3>2. faults' \in 0 .. MaxFaults
            BY <1>2, <2>16, StoreAssumption DEF JoinEnds, JoinTimesOut, Fault
        <3>3. CASE Enter(Stopper, First(Len(queue)), "begin") /\ queue' = <<>> /\ stage' = "flushing"
            BY <1>2, <2>16, <3>1, <3>2, <3>3, ThreadKinds, EnterTypes, OpsAre
            DEF JoinEnds, JoinTimesOut
        <3>4. CASE UNCHANGED <<poolVars, threadVars, queue>> /\ stage' = "disconnecting"
            BY <1>2, <2>16, <3>2, <3>4 DEF JoinEnds, JoinTimesOut, threadVars
        <3> QED
            BY <2>16, <3>3, <3>4 DEF JoinEnds, JoinTimesOut, FlushRest
    <2>17. CASE Disconnect
        <3>1. server' \in [Conns -> Server]
            BY <2>17, FreshStates DEF Disconnect
        <3>2. UNION {batch[t] : t \in {u \in Threads : held[u] \in inUse}} \subseteq Items
            BY <1>2
        <3>3. spoiled' \subseteq Items
            BY <1>2, <2>17, <3>2 DEF Disconnect
        <3> QED
            BY <1>2, <2>17, <3>1, <3>3 DEF Disconnect, threadVars
    <2>18. ASSUME NEW c \in Conns, ConnectionLost(c) PROVE StoreTypeOK'
        <3>1. server' \in [Conns -> Server]
            BY <1>2, <2>18, FreshStates DEF ConnectionLost
        <3>2. faults' \in 0 .. MaxFaults
            BY <1>2, <2>18, StoreAssumption DEF ConnectionLost, Fault
        <3> QED
            BY <1>2, <2>18, <3>1, <3>2 DEF ConnectionLost, threadVars, queueVars
    <2>19. CASE Stop \/ \E r \in Records : Enqueue(r)
        <3>1. \A r \in Records : Append(queue, r) \in Seq(Records)
            BY <1>2
        <3> QED
            BY <1>2, <2>19, <3>1 DEF Stop, Enqueue, threadVars
    <2>20. CASE (Metrics /\ UNCHANGED <<storeRest, server, faults>>) \/ UNCHANGED vars
        BY <1>2, <2>20 DEF storeRest, threadVars, queueVars, vars
    <2> QED
        BY <2>1, <2>3, <2>4, <2>9, <2>10, <2>11, <2>12, <2>13, <2>15, <2>16, <2>17, <2>18,
            <2>19, <2>20 DEF Next, Thread
<1> QED
    BY <1>1, <1>3 DEF TypeOK

-----------------------------------------------------------------------------
(* Threads, their driver calls and their batches *)

LEMMA BatchesInit == Init => BatchesApart /\ CallsInStep
BY StoreAssumption DEF Init, PoolInit, BatchesApart, CallsInStep

(* Where a thread may be after a step of its own in the pool, and that the *)
(* others stay where they are but for one that is woken.                   *)
LEMMA PcAfterAcquire ==
    ASSUME PoolTypeOK, NEW t \in Threads, Acquire(t) \/ CreateFails(t)
    PROVE  /\ pc[t] \notin {"out", "holding"} /\ pc'[t] # "out"
           /\ \A s \in Threads : s # t => pc'[s] = pc[s]
BY DEF PoolTypeOK, Acquire, TakeIdle, Reserve, Wait, TimeOut, Exceed, Create, CreateFails,
    Looking, Goto

LEMMA PcAfterRelease ==
    ASSUME PoolTypeOK, NEW t \in Threads, Release(t) \/ Refused(t)
    PROVE  /\ pc'[t] = "out"
           /\ \A s \in Threads : s # t =>
                 pc'[s] = pc[s] \/ (pc[s] = "waiting" /\ pc'[s] = "woken")
BY DEF PoolTypeOK, Release, Refused, Notify, Goto, Waiting

LEMMA EnterStep ==
    ASSUME TypeOK, BatchesApart, CallsInStep, NEW t \in Threads, NEW first \in {"one", "begin"},
           NEW items, items \subseteq IF t \in Tasks THEN Statements(t) ELSE Records,
           items # {}, first = "one" => t \in Tasks, Enter(t, items, first)
    PROVE  BatchesApart' /\ CallsInStep'
<1>1. /\ op' = [op EXCEPT ![t] = first] /\ todo' = [todo EXCEPT ![t] = items]
      /\ batch' = [batch EXCEPT ![t] = items] /\ failed' = failed
      /\ pc' = [pc EXCEPT ![t] = "wanting"] /\ pc[t] = "out"
    BY DEF Enter, Do, Call, Goto
<1>2. BatchesApart'
    BY <1>1 DEF BatchesApart, TypeOK, Statements
<1>3. CallsInStep'
    BY <1>1 DEF CallsInStep, TypeOK, PoolTypeOK
<1> QED
    BY <1>2, <1>3

(* The driver calls: the pool stays as it is, the other threads too. *)
Driver(t) ==
    \/ One(t) \/ Begin(t) \/ WriteItem(t) \/ EndBody(t) \/ Commit(t) \/ Rollback(t)
    \/ Restore(t) \/ CallOnLost(t) \/ StatementFails(t) \/ RecordFails(t)

LEMMA DriverStep ==
    ASSUME TypeOK, BatchesApart, CallsInStep, NEW t \in Threads, Driver(t)
    PROVE  /\ UNCHANGED <<poolVars, batch, queueVars>> /\ pc[t] = "holding"
           /\ \A s \in Threads : s # t =>
                 op'[s] = op[s] /\ todo'[s] = todo[s] /\ failed'[s] = failed[s]
           /\ BatchesApart' /\ CallsInStep'
<1> USE DEF TypeOK, PoolTypeOK
<1>1. UNCHANGED <<poolVars, batch, queueVars>> /\ pc[t] = "holding"
    BY DEF Driver, One, Begin, WriteItem, EndBody, Commit, Rollback, Restore, CallOnLost,
        StatementFails, RecordFails, At, frame
<1>2. \A s \in Threads : s # t =>
          op'[s] = op[s] /\ todo'[s] = todo[s] /\ failed'[s] = failed[s]
    BY DEF Driver, One, Begin, WriteItem, EndBody, Commit, Rollback, Restore, CallOnLost,
        StatementFails, RecordFails, Do, Raise
<1>3. pc'[t] = "holding" /\ op[t] # "none"
    BY <1>1 DEF poolVars, CallsInStep
<1>4. /\ op'[t] # "none" /\ todo'[t] \subseteq todo[t]
      /\ op'[t] \in {"one", "begin"} => FALSE
      /\ op'[t] \in {"body", "commit"} => ~failed'[t]
      /\ op'[t] = "rollback" => failed'[t] /\ t \in Tasks
      /\ op'[t] = "commit" => todo'[t] = {}
    <2>1. CASE One(t)
        BY <1>1, <2>1 DEF One, Do
    <2>2. CASE Begin(t)
        BY <1>1, <2>2 DEF Begin, Do, Raise, At, CallsInStep
    <2>3. CASE WriteItem(t)
        BY <1>1, <2>3 DEF WriteItem, At, CallsInStep
    <2>4. CASE EndBody(t)
        BY <1>1, <2>4 DEF EndBody, Do, At, CallsInStep
    <2>5. CASE Commit(t) \/ Rollback(t) \/ Restore(t) \/ CallOnLost(t)
        BY <1>1, <2>5 DEF Commit, Rollback, Restore, CallOnLost, Do
    <2>6. CASE StatementFails(t)
        BY <1>1, <2>6, ThreadKinds DEF StatementFails, At, Do, Raise, CallsInStep
    <2>7. CASE RecordFails(t)
        BY <1>1, <2>7 DEF RecordFails, At, CallsInStep
    <2> QED
        BY <2>1, <2>2, <2>3, <2>4, <2>5, <2>6, <2>7 DEF Driver
<1>5. BatchesApart'
    BY <1>1, <1>2, <1>3, <1>4 DEF BatchesApart, Statements
<1>6. CallsInStep'
    <2>1. \A s \in Threads : pc'[s] = pc[s] /\ batch'[s] = batch[s]
        BY <1>1 DEF poolVars
    <2> QED
        BY <1>2, <1>3, <1>4, <2>1 DEF CallsInStep
<1> QED
    BY <1>1, <1>2, <1>5, <1>6

-----------------------------------------------------------------------------
(* The steps of the whole, sorted by what they do to threads, connections  *)
(* and items                                                               *)

(* A thread calls the store: what it writes is its own. *)
Starts(t) ==
    /\ \E first \in {"one", "begin"} :
       \E items \in SUBSET (IF t \in Tasks THEN Statements(t) ELSE Records) :
            items # {} /\ (first = "one" => t \in Tasks) /\ Enter(t, items, first)
    /\ UNCHANGED <<server, written, spoiled>>

(* A step within acquire(). *)
Seeks(t) ==
    (Acquire(t) \/ CreateFails(t)) /\ UNCHANGED <<threadVars, server, written, spoiled>>

(* Nothing happens to threads, connections and items. *)
Elsewhere ==
    UNCHANGED <<pc, held, available, inUse, open, threadVars, server, written, spoiled>>

LEMMA FirstRecords ==
    ASSUME queue \in Seq(Records), NEW n \in 1 .. Len(queue)
    PROVE  First(n) \subseteq Records /\ First(n) # {}
<1>1. First(n) \subseteq Records
    BY QueueParts
<1>2. queue[1] \in First(n)
    BY DEF First
<1> QED
    BY <1>1, <1>2

LEMMA ThreadCases ==
    ASSUME NEW t \in Threads, Thread(t) \/ Disturb(t)
    PROVE  (Seeks(t) /\ UNCHANGED queueVars) \/ Driver(t) \/ GiveUp(t) \/ Leave(t)
<1>1. CASE Acquire(t)
    BY <1>1 DEF Acquire, Seeks, storeRest
<1>2. CASE Fault /\ CreateFails(t) /\ UNCHANGED <<storeRest, server>>
    BY <1>2 DEF Seeks, storeRest
<1> QED
    BY <1>1, <1>2 DEF Thread, Disturb, Driver

LEMMA StoreCases ==
    ASSUME TypeOK, [Next]_vars
    PROVE  \/ \E t \in Threads : Starts(t) \/ Seeks(t) \/ Driver(t) \/ GiveUp(t) \/ Leave(t)
           \/ Disconnect
           \/ \E c \in Conns : ConnectionLost(c)
           \/ Elsewhere
<1>1. ASSUME NEW t \in Threads, Thread(t) \/ Disturb(t)
      PROVE  Seeks(t) \/ Driver(t) \/ GiveUp(t) \/ Leave(t)
    BY <1>1, ThreadCases
<1>2. ASSUME NEW t \in Tasks, RunOne(t) \/ RunTransaction(t) PROVE Starts(t)
    <2>1. /\ {<<t, 1>>} \in SUBSET Statements(t) /\ {<<t, 1>>} # {}
          /\ {t} \X {1, 2} = Statements(t) /\ Statements(t) # {}
        BY DEF Statements
    <2> QED
        BY <1>2, <2>1 DEF RunOne, RunTransaction, Starts
<1>3. CASE Drain
    <2> DEFINE n == AtMost(Len(queue), MaxBatch)
    <2>1. CASE n > 0 /\ Enter(Flusher, First(n), "begin")
        <3>1. n \in 1 .. Len(queue)
            BY <2>1, DrainCount DEF TypeOK
        <3> QED
            BY <1>3, <2>1, <3>1, FirstRecords, StoreAssumption DEF TypeOK, Drain, Starts
    <2>2. CASE UNCHANGED <<poolVars, threadVars, queue>>
        BY <1>3, <2>2 DEF Drain, Elsewhere, poolVars
    <2> QED
        BY <1>3, <2>1, <2>2, StoreAssumption DEF Drain
<1>4. CASE JoinEnds \/ JoinTimesOut
    <2>1. CASE queue # <<>> /\ Enter(Stopper, First(Len(queue)), "begin")
        <3>1. Len(queue) \in 1 .. Len(queue)
            BY <2>1 DEF TypeOK
        <3> QED
            BY <1>4, <2>1, <3>1, FirstRecords, StoreAssumption
            DEF TypeOK, JoinEnds, JoinTimesOut, Starts
    <2>2. CASE UNCHANGED <<poolVars, threadVars, queue>>
        BY <1>4, <2>2 DEF JoinEnds, JoinTimesOut, Elsewhere, poolVars
    <2> QED
        BY <1>4, <2>1, <2>2, StoreAssumption DEF JoinEnds, JoinTimesOut, FlushRest
<1>5. CASE \/ Stop \/ \E r \in Records : Enqueue(r)
           \/ Metrics /\ UNCHANGED <<storeRest, server, faults>>
           \/ UNCHANGED vars
    BY <1>5 DEF Stop, Enqueue, Metrics, storeRest, vars, Elsewhere, poolVars
<1>6. Tasks \subseteq Threads /\ Flusher \in Threads /\ Stopper \in Threads
    BY StoreAssumption
<1> QED
    BY <1>1, <1>2, <1>3, <1>4, <1>5, <1>6 DEF Next

LEMMA CallsStep ==
    ASSUME TypeOK, BatchesApart, CallsInStep, [Next]_vars
    PROVE  BatchesApart' /\ CallsInStep'
<1> USE DEF TypeOK, PoolTypeOK
<1>1. ASSUME NEW t \in Threads, Starts(t) PROVE BatchesApart' /\ CallsInStep'
    BY <1>1, EnterStep DEF Starts
<1>2. ASSUME NEW t \in Threads, Seeks(t) PROVE BatchesApart' /\ CallsInStep'
    BY <1>2, PcAfterAcquire DEF Seeks, threadVars, BatchesApart, CallsInStep, Statements
<1>3. ASSUME NEW t \in Threads, Driver(t) PROVE BatchesApart' /\ CallsInStep'
    BY <1>3, DriverStep
<1>4. ASSUME NEW t \in Threads, GiveUp(t) \/ Leave(t) PROVE BatchesApart' /\ CallsInStep'
    <2>1. /\ op' = [op EXCEPT ![t] = "none"] /\ todo' = [todo EXCEPT ![t] = {}]
          /\ batch' = [batch EXCEPT ![t] = {}] /\ failed' = [failed EXCEPT ![t] = FALSE]
        BY <1>4 DEF GiveUp, Leave, Return, Do
    <2>2. pc'[t] = "out" /\ \A s \in Threads : s # t =>
              pc'[s] = pc[s] \/ (pc[s] = "waiting" /\ pc'[s] = "woken")
        BY <1>4, PcAfterRelease DEF GiveUp, Leave
    <2>3. BatchesApart'
        BY <2>1 DEF BatchesApart, Statements
    <2>4. CallsInStep'
        BY <2>1, <2>2 DEF CallsInStep
    <2> QED
        BY <2>3, <2>4
<1>5. CASE Disconnect \/ Elsewhere \/ \E c \in Conns : ConnectionLost(c)
    <2>1. UNCHANGED <<pc, op, todo, batch, failed>>
        BY <1>5 DEF Disconnect, CloseAll, Elsewhere, ConnectionLost, threadVars, poolVars
    <2> QED
        BY <2>1 DEF BatchesApart, CallsInStep, Statements
<1> QED
    BY <1>1, <1>2, <1>3, <1>4, <1>5, StoreCases

-----------------------------------------------------------------------------
(* Connections and sessions *)

LEMMA SessionsInit == Init => UnheldAreFresh /\ SessionsInStep
BY DEF Init, PoolInit, UnheldAreFresh, SessionsInStep, Session, Fresh

(* A session is as it was if neither its thread nor its connection moved.  *)
LEMMA SameSession ==
    ASSUME NEW s \in Threads, Session(s),
           op'[s] = op[s], todo'[s] = todo[s], batch'[s] = batch[s],
           pc'[s] = "holding" => /\ pc[s] = "holding" /\ held'[s] = held[s]
                                 /\ server'[held[s]] = server[held[s]]
    PROVE  Session(s)'
BY DEF Session, Mine

(* What a driver call leaves of the session of its thread. *)
LEMMA DriverSession ==
    ASSUME PoolInv, TypeOK, BatchesApart, CallsInStep, UnheldAreFresh, SessionsInStep,
           NEW t \in Threads, Driver(t)
    PROVE  /\ \A c \in Conns : c # held[t] => server'[c] = server[c]
           /\ server'[held[t]].alive <=> Mine(t).alive
           /\ ~Mine(t).alive => server' = server
           /\ Session(t)'
<1> DEFINE c == held[t]
<1>1. /\ UNCHANGED <<poolVars, batch>> /\ pc[t] = "holding" /\ c \in Conns
      /\ Mine(t) = server[c] /\ server[c] \in Server
    BY DriverStep, HeldIsOwn DEF Mine, TypeOK
<1>2. held' = held /\ pc' = pc /\ Mine(t)' = server'[c]
    BY <1>1 DEF poolVars, Mine
<1>3. Session(t) /\ todo[t] \subseteq batch[t]
    BY DEF SessionsInStep, BatchesApart
<1>4. CASE UNCHANGED server /\ op'[t] = "release" /\ ~Mine(t).alive
    BY <1>1, <1>2, <1>4 DEF Session
<1>5. ASSUME Mine(t).alive, NEW s, Set(t, s) \/ (server' = server /\ s = server[c]),
             s.alive
      PROVE  /\ \A d \in Conns : d # c => server'[d] = server[d]
             /\ server'[c] = s
             /\ server'[c].alive <=> Mine(t).alive
             /\ ~Mine(t).alive => server' = server
    BY <1>1, <1>5 DEF Set, TypeOK
<1> DEFINE Rest == /\ \A d \in Conns : d # c => server'[d] = server[d]
                   /\ server'[c].alive <=> Mine(t).alive
                   /\ ~Mine(t).alive => server' = server
<1>6. ASSUME One(t) PROVE Rest /\ Session(t)'
    <2>1. Mine(t) = Fresh /\ Mine(t).alive
        BY <1>1, <1>3, <1>6 DEF One, At, Session
    <2>2. server' = server /\ op'[t] = "release"
        BY <1>6, <2>1 DEF One, Fresh, Do, TypeOK
    <2> QED
        BY <1>1, <1>2, <2>1, <2>2 DEF Session
<1>7. ASSUME Begin(t) PROVE Rest /\ Session(t)'
    <2>1. Mine(t) = Fresh /\ Mine(t).alive /\ todo[t] = batch[t]
        BY <1>1, <1>3, <1>7 DEF Begin, At, Session, CallsInStep
    <2>2. Set(t, [Mine(t) EXCEPT !.auto = FALSE]) /\ op'[t] = "body" /\ todo' = todo
        BY <1>7, <2>1 DEF Begin, Fresh, Do, TypeOK
    <2>3. Rest /\ server'[c] = [Fresh EXCEPT !.auto = FALSE]
        BY <1>1, <1>5, <2>1, <2>2 DEF Fresh
    <2> QED
        BY <1>1, <1>2, <2>1, <2>2, <2>3 DEF Session, Fresh
<1>8. ASSUME WriteItem(t) PROVE Rest /\ Session(t)'
    <2>1. Mine(t).alive /\ op[t] = "body" /\ ~Mine(t).auto /\ op' = op
        BY <1>1, <1>3, <1>8 DEF WriteItem, At, Session
    <2>2. PICK i \in todo[t] :
             /\ todo' = [todo EXCEPT ![t] = @ \ {i}]
             /\ \/ Mine(t).txn = "failed" /\ UNCHANGED server
                \/ /\ Mine(t).txn # "failed"
                   /\ Set(t, [Mine(t) EXCEPT !.txn = "open", !.pending = @ \cup {i}])
        BY <1>8, <2>1 DEF WriteItem
    <2>3. todo'[t] = todo[t] \ {i}
        BY <2>2 DEF TypeOK
    <2>4. CASE Mine(t).txn = "failed" /\ UNCHANGED server
        BY <1>1, <1>2, <1>3, <1>5, <2>1, <2>3, <2>4 DEF Session
    <2>5. CASE /\ Mine(t).txn # "failed"
               /\ Set(t, [Mine(t) EXCEPT !.txn = "open", !.pending = @ \cup {i}])
        <3>1. /\ [Mine(t) EXCEPT !.txn = "open", !.pending = @ \cup {i}].alive
              /\ [Mine(t) EXCEPT !.txn = "open", !.pending = @ \cup {i}].txn = "open"
              /\ [Mine(t) EXCEPT !.txn = "open", !.pending = @ \cup {i}].auto = Mine(t).auto
              /\ [Mine(t) EXCEPT !.txn = "open", !.pending = @ \cup {i}].pending
                     = Mine(t).pending \cup {i}
            BY <1>1, <2>1 DEF Server
        <3>2. Rest /\ server'[c] = [Mine(t) EXCEPT !.txn = "open", !.pending = @ \cup {i}]
            BY <1>5, <2>1, <2>5, <3>1
        <3> QED
            BY <1>1, <1>2, <1>3, <2>1, <2>2, <2>3, <3>1, <3>2 DEF Session
    <2> QED
        BY <2>2, <2>4, <2>5
<1>9. ASSUME EndBody(t) \/ RecordFails(t) PROVE Rest /\ Session(t)'
    <2>1. Mine(t).alive /\ op[t] = "body" /\ server' = server
        BY <1>9 DEF EndBody, RecordFails, At
    <2>2. op'[t] \in {"body", "commit"} /\ (t \in Tasks => todo'[t] = todo[t])
        BY <1>9, <2>1, ThreadKinds DEF EndBody, RecordFails, Do, TypeOK
    <2> QED
        BY <1>1, <1>2, <1>3, <2>1, <2>2 DEF Session
<1>10. ASSUME Commit(t) \/ Rollback(t) PROVE Rest /\ Session(t)'
    <2>1. Mine(t).alive /\ Set(t, Ended(Mine(t))) /\ op'[t] = "restore"
        BY <1>10 DEF Commit, Rollback, At, Do, TypeOK
    <2>2. /\ Ended(Mine(t)).alive /\ Ended(Mine(t)).txn = "none"
          /\ Ended(Mine(t)).pending = {}
        BY <1>1, <2>1 DEF Ended, Server
    <2>3. Rest /\ server'[c] = Ended(Mine(t))
        BY <1>5, <2>1, <2>2
    <2> QED
        BY <1>1, <1>2, <2>1, <2>2, <2>3 DEF Session
<1>11. ASSUME Restore(t) PROVE Rest /\ Session(t)'
    <2>1. /\ Mine(t).alive /\ Mine(t).txn = "none" /\ Mine(t).pending = {}
          /\ Set(t, [Mine(t) EXCEPT !.auto = TRUE]) /\ op'[t] = "release"
        BY <1>1, <1>3, <1>11 DEF Restore, At, Session, Do, TypeOK
    <2>2. [Mine(t) EXCEPT !.auto = TRUE] = Fresh /\ Fresh.alive
        <3> DEFINE s == [Mine(t) EXCEPT !.auto = TRUE]
        <3>1. s \in Server
            BY <1>1, ServerStates
        <3>2. s.auto = TRUE /\ s.txn = "none" /\ s.pending = {} /\ s.alive = TRUE
            BY <1>1, <2>1, ServerRecord DEF Server
        <3> HIDE DEF s
        <3>3. s = [auto |-> TRUE, txn |-> "none", pending |-> {}, alive |-> TRUE]
            BY <3>1, <3>2, ServerRecord
        <3> QED
            BY <3>3 DEF Fresh, s
    <2>3. Rest /\ server'[c] = Fresh
        BY <1>5, <2>1, <2>2
    <2> QED
        BY <1>1, <1>2, <2>1, <2>3 DEF Session
<1>12. ASSUME CallOnLost(t) PROVE Rest /\ Session(t)'
    BY <1>1, <1>4, <1>12 DEF CallOnLost, Do, TypeOK
<1>13. ASSUME StatementFails(t) PROVE Rest /\ Session(t)'
    <2> DEFINE s == IF Mine(t).auto THEN Mine(t) ELSE [Mine(t) EXCEPT !.txn = "failed"]
    <2>1. Mine(t).alive /\ op[t] \in {"body", "one"} /\ Set(t, s)
        BY <1>13 DEF StatementFails, At
    <2>2. s.alive /\ s.auto = Mine(t).auto /\ s.pending = Mine(t).pending
        BY <1>1, <2>1 DEF Server
    <2>3. Rest /\ server'[c] = s
        BY <1>5, <2>1, <2>2
    <2>4. CASE Catches(t)
        <3>1. op' = op /\ t \notin Tasks /\ op[t] = "body"
            BY <1>13, <2>1, <2>4, ThreadKinds DEF StatementFails, CallsInStep
        <3> QED
            BY <1>1, <1>2, <1>3, <2>1, <2>2, <2>3, <3>1 DEF Session
    <2>5. CASE ~Catches(t) /\ op[t] = "one"
        <3>1. op'[t] = "release" /\ Mine(t) = Fresh /\ s = Fresh
            BY <1>1, <1>3, <1>13, <2>1, <2>5 DEF StatementFails, Do, TypeOK, Session, Fresh
        <3> QED
            BY <1>1, <1>2, <2>3, <3>1 DEF Session
    <2>6. CASE ~Catches(t) /\ op[t] = "body"
        <3>1. op'[t] = "rollback"
            BY <1>13, <2>6 DEF StatementFails, Do, TypeOK
        <3> QED
            BY <1>1, <1>2, <1>3, <2>1, <2>2, <2>3, <2>6, <3>1 DEF Session
    <2> QED
        BY <2>1, <2>4, <2>5, <2>6
<1> QED
    BY <1>6, <1>7, <1>8, <1>9, <1>10, <1>11, <1>12, <1>13 DEF Driver

LEMMA SeeksHeld ==
    ASSUME PoolInv, NEW t \in Threads, Seeks(t)
    PROVE  /\ pc[t] \notin {"out", "holding"}
           /\ \A s \in Threads : s # t => pc'[s] = pc[s] /\ held'[s] = held[s]
           /\ \/ held' = held /\ available' = available /\ pc'[t] # "holding"
              \/ \E c \in Conns : /\ NobodyHolds(c)
                                  /\ held' = [held EXCEPT ![t] = c]
                                  /\ available' = available \ {c}
<1> USE DEF PoolInv, PoolTypeOK
<1>1. pc[t] \notin {"out", "holding"} /\ \A s \in Threads : s # t => pc'[s] = pc[s]
    BY PcAfterAcquire DEF Seeks
<1>2. CASE TakeIdle(t)
    <2>1. PICK c \in available : held' = [held EXCEPT ![t] = c] /\ available' = available \ {c}
        BY <1>2 DEF TakeIdle
    <2>2. c \in Conns /\ NobodyHolds(c)
        BY <2>1 DEF LeasesExclusive, NobodyHolds
    <2> QED
        BY <1>1, <2>1, <2>2
<1>3. CASE Create(t)
    <2>1. PICK c \in Conns \ (HeldConns \cup available) : held' = [held EXCEPT ![t] = c]
        BY <1>3 DEF Create
    <2>2. NobodyHolds(c)
        BY <2>1, SyncPoolAssumption DEF HeldConns, NobodyHolds
    <2>3. available' = available \ {c}
        BY <1>3, <2>1 DEF Create
    <2> QED
        BY <1>1, <2>1, <2>2, <2>3
<1>4. CASE Reserve(t) \/ Wait(t) \/ TimeOut(t) \/ Exceed(t) \/ CreateFails(t)
    BY <1>1, <1>4 DEF Reserve, Wait, TimeOut, Exceed, CreateFails, Goto
<1> QED
    BY <1>2, <1>3, <1>4 DEF Seeks, Acquire

LEMMA LeaveHeld ==
    ASSUME PoolInv, NEW t \in Threads, Leave(t)
    PROVE  /\ pc[t] = "holding" /\ held' = [held EXCEPT ![t] = NoConn]
           /\ available \subseteq available' /\ available' \subseteq available \cup {held[t]}
           /\ \/ server' = server /\ held[t] \in available'
              \/ server' = [server EXCEPT ![held[t]] = Fresh]
BY DEF Leave, Release

LEMMA UnheldStep ==
    ASSUME PoolInv, TypeOK, BatchesApart, CallsInStep, UnheldAreFresh, SessionsInStep,
           [Next]_vars
    PROVE  UnheldAreFresh'
<1> USE SyncPoolAssumption DEF TypeOK, PoolTypeOK, UnheldAreFresh, NobodyHolds
<1>1. ASSUME UNCHANGED <<held, available, server>> PROVE UnheldAreFresh'
    BY <1>1
<1>2. ASSUME NEW t \in Threads, Starts(t) \/ GiveUp(t)
      PROVE  UNCHANGED <<held, available, server>>
    BY <1>2 DEF Starts, Enter, poolRest, GiveUp, Refused
<1>3. ASSUME NEW t \in Threads, Seeks(t) PROVE UnheldAreFresh'
    <2>1. server' = server
        BY <1>3 DEF Seeks
    <2>2. CASE held' = held /\ available' = available
        BY <1>1, <2>1, <2>2
    <2>3. CASE \E c \in Conns : /\ NobodyHolds(c)
                                /\ held' = [held EXCEPT ![t] = c]
                                /\ available' = available \ {c}
        <3>1. PICK c \in Conns : /\ NobodyHolds(c)
                                 /\ held' = [held EXCEPT ![t] = c]
                                 /\ available' = available \ {c}
            BY <2>3
        <3>2. /\ \A d \in Conns : NobodyHolds(d)' => NobodyHolds(d) /\ d # c
              /\ \A d \in Conns : d # c => (d \in available' <=> d \in available)
            <4>1. held[t] = NoConn
                BY <1>3, SeeksHeld DEF PoolInv, LeasesRecorded
            <4> QED
                BY <3>1, <4>1
        <3> QED
            BY <2>1, <3>2
    <2> QED
        BY <1>3, <2>2, <2>3, SeeksHeld
<1>4. ASSUME NEW t \in Threads, Driver(t) PROVE UnheldAreFresh'
    <2>1. UNCHANGED <<held, available>> /\ held[t] \in Conns
        BY <1>4, DriverStep, HeldIsOwn DEF poolVars
    <2>2. /\ \A c \in Conns : c # held[t] => server'[c] = server[c]
          /\ server'[held[t]].alive <=> server[held[t]].alive
          /\ ~server[held[t]].alive => server' = server
        BY <1>4, DriverSession DEF Mine
    <2> QED
        BY <2>1, <2>2
<1>5. ASSUME NEW t \in Threads, Leave(t) PROVE UnheldAreFresh'
    <2> DEFINE c == held[t]
    <2>1. /\ c \in Conns /\ \A s \in Threads : s # t => held[s] # c
          /\ held' = [held EXCEPT ![t] = NoConn] /\ c # NoConn
          /\ available \subseteq available' /\ available' \subseteq available \cup {c}
        BY <1>5, LeaveHeld, HeldIsOwn
    <2>2. \A d \in Conns : d # c => (NobodyHolds(d)' => NobodyHolds(d)) /\ server'[d] = server[d]
        BY <1>5, <2>1, LeaveHeld
    <2>3. server[c].alive => server[c] = Fresh
        BY <1>5, LeaveHeld DEF Leave, SessionsInStep, Session, Mine
    <2>4. \/ server'[c] = server[c] /\ c \in available'
          \/ server'[c] = Fresh
        BY <1>5, <2>1, LeaveHeld
    <2>5. Fresh.alive
        BY DEF Fresh
    <2>6. \A d \in Conns : d # c =>
              /\ ~server'[d].alive => server'[d] = [Fresh EXCEPT !.alive = FALSE]
              /\ NobodyHolds(d)' /\ server'[d].alive => server'[d] = Fresh
              /\ NobodyHolds(d)' /\ d \notin available' => server'[d].alive
        BY <2>1, <2>2
    <2>7. /\ ~server'[c].alive => server'[c] = [Fresh EXCEPT !.alive = FALSE]
          /\ server'[c].alive => server'[c] = Fresh
          /\ c \notin available' => server'[c].alive
        BY <2>1, <2>3, <2>4, <2>5
    <2> QED
        BY <2>6, <2>7
<1>6. CASE Disconnect
    <2>1. /\ server' = [c \in Conns |-> IF c \in inUse THEN [Fresh EXCEPT !.alive = FALSE]
                                        ELSE Fresh]
          /\ held' = held /\ available' = {}
        BY <1>6 DEF Disconnect, CloseAll
    <2>2. Fresh.alive /\ ~[Fresh EXCEPT !.alive = FALSE].alive
        BY DEF Fresh
    <2>3. \A c \in inUse : ~NobodyHolds(c)
        BY DEF PoolInv, LeasesRecorded
    <2> QED
        BY <2>1, <2>2, <2>3
<1>7. ASSUME NEW c \in Conns, ConnectionLost(c) PROVE UnheldAreFresh'
    <2>1. /\ server' = [server EXCEPT ![c] = [Fresh EXCEPT !.alive = FALSE]]
          /\ held' = held /\ available' = available /\ c \in available \cup inUse
        BY <1>7 DEF ConnectionLost, poolVars
    <2>2. ~[Fresh EXCEPT !.alive = FALSE].alive
        BY DEF Fresh
    <2>3. c \in inUse => ~NobodyHolds(c)
        BY DEF PoolInv, LeasesRecorded
    <2> QED
        BY <2>1, <2>2, <2>3
<1>8. CASE Elsewhere
    BY <1>1, <1>8 DEF Elsewhere
<1> QED
    BY <1>1, <1>2, <1>3, <1>4, <1>5, <1>6, <1>7, <1>8, StoreCases

LEMMA SessionsStep ==
    ASSUME PoolInv, TypeOK, BatchesApart, CallsInStep, UnheldAreFresh, SessionsInStep,
           [Next]_vars
    PROVE  SessionsInStep'
<1> USE DEF TypeOK, PoolTypeOK
<1>1. \A s \in Threads : Session(s)
    BY DEF SessionsInStep
<1>2. SUFFICES ASSUME NEW s \in Threads PROVE Session(s)'
    BY DEF SessionsInStep
<1>3. ASSUME NEW t \in Threads, Starts(t) PROVE Session(s)'
    <2>1. /\ held' = held /\ server' = server
          /\ \A u \in Threads : u # t => /\ pc'[u] = pc[u] /\ op'[u] = op[u]
                                         /\ todo'[u] = todo[u] /\ batch'[u] = batch[u]
          /\ pc'[t] = "wanting"
        BY <1>3 DEF Starts, Enter, Do, Call, Goto, poolRest
    <2> QED
        BY <1>1, <2>1, SameSession DEF Session
<1>4. ASSUME NEW t \in Threads, Seeks(t) PROVE Session(s)'
    <2>1. UNCHANGED <<op, todo, batch, server>>
        BY <1>4 DEF Seeks, threadVars
    <2>2. CASE s # t
        BY <1>1, <1>4, <2>1, <2>2, SeeksHeld, SameSession
    <2>3. CASE s = t
        <3>1. CASE pc'[t] # "holding"
            BY <2>3, <3>1 DEF Session
        <3>2. CASE pc'[t] = "holding"
            <4>1. PICK c \in Conns : NobodyHolds(c) /\ held' = [held EXCEPT ![t] = c]
                BY <1>4, <3>2, SeeksHeld
            <4>2. op[t] \in {"one", "begin"}
                BY <1>4, SeeksHeld DEF CallsInStep
            <4>3. Mine(t)' = server[c] /\ (server[c].alive => server[c] = Fresh)
                BY <2>1, <4>1 DEF Mine, UnheldAreFresh
            <4> QED
                BY <2>1, <2>3, <4>2, <4>3 DEF Session
        <3> QED
            BY <3>1, <3>2
    <2> QED
        BY <2>2, <2>3
<1>5. ASSUME NEW t \in Threads, Driver(t) PROVE Session(s)'
    <2>1. CASE s = t
        BY <1>5, <2>1, DriverSession
    <2>2. CASE s # t
        <3>1. pc' = pc /\ held' = held /\ batch' = batch /\ op'[s] = op[s] /\ todo'[s] = todo[s]
            BY <1>5, <2>2, DriverStep DEF poolVars
        <3>2. pc[s] = "holding" => server'[held[s]] = server[held[s]]
            <4>1. pc[s] = "holding" => held[s] \in Conns /\ held[s] # held[t]
                BY <1>5, <2>2, HeldIsOwn
            <4> QED
                BY <1>5, <4>1, DriverSession
        <3> QED
            BY <1>1, <3>1, <3>2, SameSession
    <2> QED
        BY <2>1, <2>2
<1>6. ASSUME NEW t \in Threads, GiveUp(t) \/ Leave(t) PROVE Session(s)'
    <2>1. CASE s = t
        BY <1>6, <2>1, PcAfterRelease DEF GiveUp, Leave, Session
    <2>2. CASE s # t
        <3>1. op'[s] = op[s] /\ todo'[s] = todo[s] /\ batch'[s] = batch[s]
            BY <1>6, <2>2 DEF GiveUp, Leave, Return, Do
        <3>2. pc'[s] = "holding" => pc[s] = "holding"
            BY <1>6, <2>2, PcAfterRelease DEF GiveUp, Leave
        <3>3. held'[s] = held[s]
            BY <1>6, <2>2 DEF GiveUp, Leave, Refused, Release
        <3>4. pc[s] = "holding" => server'[held[s]] = server[held[s]]
            <4>1. pc[s] = "holding" => held[s] \in Conns /\ held[s] # held[t]
                BY <1>6, <2>2, HeldIsOwn
            <4> QED
                BY <1>6, <4>1 DEF GiveUp, Leave
        <3> QED
            BY <1>1, <3>1, <3>2, <3>3, <3>4, SameSession
    <2> QED
        BY <2>1, <2>2
<1>7. CASE Disconnect
    <2>1. pc[s] = "holding" => held[s] \in inUse
        BY <1>7 DEF Disconnect, CloseAll, PoolInv, LeasesRecorded
    <2>2. pc' = pc /\ held' = held
        BY <1>7 DEF Disconnect, CloseAll
    <2>3. pc[s] = "holding" => ~server'[held[s]].alive
        BY <1>7, <2>1 DEF Disconnect, Fresh
    <2> QED
        BY <2>2, <2>3 DEF Session, Mine
<1>8. ASSUME NEW c \in Conns, ConnectionLost(c) PROVE Session(s)'
    <2>1. UNCHANGED <<pc, held, op, todo, batch>>
        BY <1>8 DEF ConnectionLost, poolVars, threadVars
    <2>2. CASE held[s] = c
        BY <1>8, <2>1, <2>2 DEF ConnectionLost, Session, Mine, Fresh
    <2>3. CASE held[s] # c
        BY <1>1, <1>8, <2>1, <2>3, SameSession DEF ConnectionLost
    <2> QED
        BY <2>2, <2>3
<1>9. CASE Elsewhere
    BY <1>1, <1>9, SameSession DEF Elsewhere, threadVars
<1> QED
    BY <1>3, <1>4, <1>5, <1>6, <1>7, <1>8, <1>9, StoreCases

-----------------------------------------------------------------------------
(* What is committed *)

LEMMA StatementsApart ==
    /\ \A s, t \in Threads : s # t => Statements(s) \cap Statements(t) = {}
    /\ \A t \in Threads : Statements(t) \cap Records = {}
<1>1. \A t \in Threads : Statements(t) \subseteq Threads \X {1, 2}
    BY DEF Statements
<1> QED
    BY <1>1, StoreAssumption DEF Statements

(* A driver call commits what is its thread's own, and forgets nothing. *)
LEMMA DriverWrites ==
    ASSUME TypeOK, BatchesApart, CallsInStep, SessionsInStep, NEW t \in Threads, Driver(t)
    PROVE  /\ written \subseteq written' /\ written' \subseteq written \cup batch[t]
           /\ spoiled \subseteq spoiled'
<1>1. CASE Commit(t)
    <2>1. Mine(t).pending \subseteq batch[t]
        BY <1>1 DEF Commit, At, SessionsInStep, Session
    <2> QED
        BY <1>1, <2>1 DEF Commit
<1>2. CASE WriteItem(t)
    BY <1>2 DEF WriteItem, BatchesApart
<1>3. CASE \/ One(t) \/ Begin(t) \/ EndBody(t) \/ Rollback(t) \/ Restore(t) \/ CallOnLost(t)
           \/ StatementFails(t) \/ RecordFails(t)
    BY <1>3 DEF One, Begin, EndBody, Rollback, Restore, CallOnLost, StatementFails, RecordFails
<1> QED
    BY <1>1, <1>2, <1>3 DEF Driver

(* What a task's own driver call does to its batch. *)
LEMMA DriverTogether ==
    ASSUME PoolInv, TypeOK, BatchesApart, CallsInStep, SessionsInStep, NEW t \in Tasks, Together(t),
           Driver(t)
    PROVE  Together(t)'
<1> USE DEF TypeOK, PoolTypeOK
<1>1. t \in Threads /\ batch[t] \subseteq Statements(t) /\ batch' = batch
    BY ThreadKinds, DriverStep DEF BatchesApart
<1>2. Statements(t)' = Statements(t)
    BY DEF Statements
<1>3. Session(t)
    BY <1>1 DEF SessionsInStep
<1>4. CASE One(t)
    <2>1. op[t] = "one" /\ op'[t] = "release" /\ failed[t] = FALSE /\ Mine(t) = Fresh
        BY <1>1, <1>3, <1>4 DEF One, At, Do, CallsInStep, Session
    <2>2. written' = written \cup batch[t]
        BY <1>4, <2>1 DEF One, Fresh
    <2> QED
        BY <1>1, <1>2, <2>1, <2>2 DEF Together
<1>5. CASE Commit(t)
    <2>1. op[t] = "commit" /\ op'[t] = "restore" /\ todo[t] = {} /\ batch[t] # {}
        BY <1>1, <1>5 DEF Commit, At, Do, CallsInStep, BatchesApart
    <2>2. Mine(t).pending = batch[t] /\ Mine(t).txn # "failed" /\ Mine(t).txn # "none"
        BY <1>1, <1>3, <1>5, <2>1 DEF Commit, At, Session
    <2>3. Mine(t) \in Server
        BY <1>1, <1>5, HeldIsOwn DEF Commit, At, Mine
    <2>4. written' = written \cup batch[t]
        BY <1>5, <2>2, <2>3 DEF Commit, Server
    <2> QED
        BY <1>1, <1>2, <2>1, <2>4 DEF Together
<1>6. CASE WriteItem(t)
    <2>1. op[t] = "body" /\ op' = op /\ ~Mine(t).auto /\ Mine(t).txn # "failed"
        BY <1>1, <1>3, <1>6 DEF WriteItem, At, Session
    <2>2. written' = written
        BY <1>6, <2>1 DEF WriteItem
    <2> QED
        BY <1>2, <2>1, <2>2 DEF Together
<1>7. CASE Begin(t) \/ EndBody(t) \/ RecordFails(t)
    <2>1. written' = written /\ op[t] \in {"begin", "body"}
        BY <1>7 DEF Begin, EndBody, RecordFails, At
    <2>2. op'[t] \in {"body", "commit"}
        BY <1>1, <1>3, <1>7 DEF Begin, EndBody, RecordFails, At, Do, Session, Fresh
    <2> QED
        BY <1>2, <2>1, <2>2 DEF Together
<1>8. CASE Restore(t)
    BY <1>1, <1>2, <1>8 DEF Restore, At, Do, Together
<1>9. CASE Rollback(t)
    <2>1. op[t] = "rollback" /\ op'[t] = "restore" /\ failed'[t] /\ written' = written
        BY <1>1, <1>9 DEF Rollback, At, Do, CallsInStep
    <2> QED
        BY <1>1, <1>2, <2>1 DEF Together
<1>10. CASE CallOnLost(t)
    <2>1. op'[t] = "release" /\ failed'[t] /\ written' = written
        BY <1>1, <1>10 DEF CallOnLost, Do, Raise
    <2> QED
        BY <1>1, <1>2, <2>1 DEF Together
<1>11. CASE StatementFails(t)
    <2>1. op[t] \in {"body", "one"} /\ op'[t] \in {"release", "rollback"} /\ failed'[t]
          /\ written' = written
        BY <1>1, <1>11, ThreadKinds DEF StatementFails, At, Do, Raise
    <2> QED
        BY <1>1, <1>2, <2>1 DEF Together
<1> QED
    BY <1>4, <1>5, <1>6, <1>7, <1>8, <1>9, <1>10, <1>11 DEF Driver

LEMMA TogetherStep ==
    ASSUME PoolInv, TypeOK, BatchesApart, CallsInStep, UnheldAreFresh, SessionsInStep,
           CommittedTogether, [Next]_vars
    PROVE  CommittedTogether'
<1> USE DEF TypeOK, PoolTypeOK
<1>1. SUFFICES ASSUME NEW t \in Tasks PROVE Together(t)'
    BY DEF CommittedTogether
<1>2. Together(t) /\ t \in Threads /\ Statements(t)' = Statements(t)
      /\ batch[t] \subseteq Statements(t)
    BY ThreadKinds DEF CommittedTogether, Statements, BatchesApart
<1>3. ASSUME /\ op'[t] = op[t] /\ failed'[t] = failed[t] /\ batch'[t] = batch[t]
             /\ written' \cap Statements(t) = written \cap Statements(t)
      PROVE  Together(t)'
    BY <1>2, <1>3 DEF Together
<1>4. ASSUME NEW u \in Threads, Starts(u) PROVE Together(t)'
    <2>1. written' = written /\ pc[u] = "out" /\ failed' = failed
        BY <1>4 DEF Starts, Enter, Call
    <2>2. CASE u = t
        <3>1. op[t] = "none" /\ op'[t] \in {"one", "begin"}
            BY <1>2, <1>4, <2>1, <2>2 DEF Starts, Enter, Do, CallsInStep
        <3> QED
            BY <1>2, <2>1, <3>1 DEF Together
    <2>3. CASE u # t
        BY <1>2, <1>3, <1>4, <2>1, <2>3 DEF Starts, Enter, Do
    <2> QED
        BY <2>2, <2>3
<1>5. ASSUME NEW u \in Threads, Driver(u) PROVE Together(t)'
    <2>1. CASE u = t
        BY <1>2, <1>5, <2>1, DriverTogether
    <2>2. CASE u # t
        <3>1. op'[t] = op[t] /\ failed'[t] = failed[t] /\ batch' = batch
            BY <1>2, <1>5, <2>2, DriverStep
        <3>2. batch[u] \cap Statements(t) = {}
            BY <1>2, <2>2, StatementsApart DEF BatchesApart
        <3>3. written' \cap Statements(t) = written \cap Statements(t)
            BY <1>5, <3>2, DriverWrites
        <3> QED
            BY <1>3, <3>1, <3>3
    <2> QED
        BY <2>1, <2>2
<1>6. ASSUME NEW u \in Threads, GiveUp(u) PROVE Together(t)'
    <2>1. written' = written /\ pc[u] = "refused" /\ Return(u)
        BY <1>6 DEF GiveUp, Refused
    <2>2. CASE u = t
        <3>1. op[t] \in {"one", "begin"} /\ op'[t] = "none"
            BY <1>2, <2>1, <2>2 DEF Return, Do, CallsInStep
        <3> QED
            BY <1>2, <2>1, <3>1 DEF Together
    <2>3. CASE u # t
        BY <1>2, <1>3, <2>1, <2>3 DEF Return, Do
    <2> QED
        BY <2>2, <2>3
<1>7. ASSUME NEW u \in Threads, Leave(u) PROVE Together(t)'
    <2>1. written' = written \ Statements(u) /\ Return(u)
        BY <1>7 DEF Leave, Statements
    <2>2. CASE u = t
        <3>1. op'[t] = "none"
            BY <1>2, <2>1, <2>2 DEF Return, Do
        <3> QED
            BY <1>2, <2>1, <2>2, <3>1 DEF Together
    <2>3. CASE u # t
        <3>1. written' \cap Statements(t) = written \cap Statements(t)
            BY <1>2, <2>1, <2>3, StatementsApart
        <3> QED
            BY <1>2, <1>3, <2>1, <2>3, <3>1 DEF Return, Do
    <2> QED
        BY <2>2, <2>3
<1>8. CASE \/ \E u \in Threads : Seeks(u)
           \/ Disconnect \/ Elsewhere \/ \E c \in Conns : ConnectionLost(c)
    <2>1. UNCHANGED <<op, failed, batch, written>>
        BY <1>8 DEF Seeks, Disconnect, Elsewhere, ConnectionLost, threadVars
    <2> QED
        BY <1>3, <2>1
<1> QED
    BY <1>4, <1>5, <1>6, <1>7, <1>8, StoreCases

-----------------------------------------------------------------------------
(* Where the records are *)

LEMMA SettlingStep ==
    ASSUME PoolInv, TypeOK, BatchesApart, CallsInStep, UnheldAreFresh, SessionsInStep,
           NEW t \in Threads \ Tasks, Settling(t), [Next]_vars
    PROVE  Settling(t)'
<1> USE DEF TypeOK, PoolTypeOK
<1>1. batch[t] \subseteq Records /\ t \in Threads /\ t \notin Tasks /\ Session(t)
    BY DEF BatchesApart, SessionsInStep
<1>2. SUFFICES ASSUME NEW i \in batch'[t]
               PROVE  \/ i \in written' \cup spoiled'
                      \/ op'[t] # "release" /\ pc'[t] = "holding" /\ ~Mine(t)'.alive
                      \/ op'[t] \in {"one", "begin", "body"} /\ i \in todo'[t]
                      \/ /\ op'[t] \in {"body", "commit"} /\ Mine(t)'.txn = "open"
                         /\ i \in Mine(t)'.pending
    BY DEF Settling
<1>3. i \in batch[t] =>
          \/ i \in written \cup spoiled
          \/ op[t] # "release" /\ pc[t] = "holding" /\ ~Mine(t).alive
          \/ op[t] \in {"one", "begin", "body"} /\ i \in todo[t]
          \/ op[t] \in {"body", "commit"} /\ Mine(t).txn = "open" /\ i \in Mine(t).pending
    BY DEF Settling
<1> DEFINE Settled ==
        \/ i \in written' \cup spoiled'
        \/ op'[t] # "release" /\ pc'[t] = "holding" /\ ~Mine(t)'.alive
        \/ op'[t] \in {"one", "begin", "body"} /\ i \in todo'[t]
        \/ op'[t] \in {"body", "commit"} /\ Mine(t)'.txn = "open" /\ i \in Mine(t)'.pending
(* Nothing of its own moved, and no record was forgotten. *)
<1>4. ASSUME op'[t] = op[t], todo'[t] = todo[t], batch'[t] = batch[t],
             pc[t] = "holding" => /\ pc'[t] = "holding" /\ held'[t] = held[t]
                                  /\ server'[held[t]] = server[held[t]],
             i \in written \cup spoiled => i \in written' \cup spoiled'
      PROVE  Settled
    <2>1. op[t] \in {"body", "commit"} => pc[t] = "holding"
        BY <1>1 DEF CallsInStep
    <2>2. pc[t] = "holding" => Mine(t)' = Mine(t)
        BY <1>4 DEF Mine
    <2> QED
        BY <1>2, <1>3, <1>4, <2>1, <2>2
<1>5. ASSUME NEW u \in Threads, Starts(u) PROVE Settled
    <2>1. CASE u = t
        BY <1>2, <1>5, <2>1 DEF Starts, Enter, Do
    <2>2. CASE u # t
        <3>1. /\ op'[t] = op[t] /\ todo'[t] = todo[t] /\ batch'[t] = batch[t] /\ pc'[t] = pc[t]
              /\ UNCHANGED <<held, server, written, spoiled>>
            BY <1>5, <2>2 DEF Starts, Enter, Do, Call, Goto, poolRest
        <3> QED
            BY <1>4, <3>1
    <2> QED
        BY <2>1, <2>2
<1>6. ASSUME NEW u \in Threads, Seeks(u) PROVE Settled
    <2>1. UNCHANGED <<op, todo, batch, server, written, spoiled>>
        BY <1>6 DEF Seeks, threadVars
    <2>2. u = t => pc[t] # "holding"
        BY <1>6, SeeksHeld
    <2>3. u # t => pc'[t] = pc[t] /\ held'[t] = held[t]
        BY <1>6, SeeksHeld
    <2> QED
        BY <1>4, <2>1, <2>2, <2>3
<1>7. ASSUME NEW u \in Threads, Driver(u), u # t PROVE Settled
    <2>1. /\ UNCHANGED <<poolVars, batch>> /\ pc[u] = "holding"
          /\ op'[t] = op[t] /\ todo'[t] = todo[t]
        BY <1>7, DriverStep
    <2>2. pc[t] = "holding" => server'[held[t]] = server[held[t]]
        <3>1. pc[t] = "holding" => held[t] \in Conns /\ held[t] # held[u]
            BY <1>7, HeldIsOwn
        <3> QED
            BY <1>7, <3>1, DriverSession
    <2>3. written \subseteq written' /\ spoiled \subseteq spoiled'
        BY <1>7, DriverWrites
    <2> QED
        BY <1>4, <2>1, <2>2, <2>3 DEF poolVars
<1>8. ASSUME Driver(t) PROVE Settled
    <2>1. /\ UNCHANGED <<poolVars, batch>> /\ pc[t] = "holding" /\ i \in batch[t]
          /\ written \subseteq written' /\ spoiled \subseteq spoiled'
          /\ held[t] \in Conns /\ Mine(t) \in Server
        BY <1>2, <1>8, DriverStep, DriverWrites, HeldIsOwn DEF Mine
    <2>2. pc' = pc /\ held' = held
        BY <2>1 DEF poolVars
    <2>3. CASE One(t) \/ Rollback(t)
        BY <1>1, <2>3 DEF One, Rollback, At, CallsInStep
    <2>4. CASE Begin(t)
        <3>1. Mine(t) = Fresh /\ todo[t] = batch[t] /\ op[t] = "begin"
            BY <1>1, <2>1, <2>4 DEF Begin, At, Session, CallsInStep
        <3>2. op'[t] = "body" /\ todo' = todo
            BY <2>4, <3>1 DEF Begin, Fresh, Do
        <3> QED
            BY <2>1, <3>1, <3>2
    <2>5. CASE WriteItem(t)
        <3>1. op[t] = "body" /\ op' = op /\ Mine(t).alive /\ ~Mine(t).auto
            BY <1>1, <2>5 DEF WriteItem, At, Session
        <3>2. PICK j \in todo[t] :
                 /\ todo' = [todo EXCEPT ![t] = @ \ {j}]
                 /\ \/ spoiled' = spoiled \cup {j} /\ UNCHANGED server
                    \/ Set(t, [Mine(t) EXCEPT !.txn = "open", !.pending = @ \cup {j}])
            BY <2>5, <3>1 DEF WriteItem
        <3>3. i # j /\ i \in todo[t] => i \in todo'[t]
            BY <3>2
        <3>4. CASE spoiled' = spoiled \cup {j} /\ UNCHANGED server
            <4>1. Mine(t)' = Mine(t)
                BY <2>2, <3>4 DEF Mine
            <4> QED
                BY <1>3, <2>1, <2>2, <3>1, <3>3, <3>4, <4>1
        <3>5. CASE Set(t, [Mine(t) EXCEPT !.txn = "open", !.pending = @ \cup {j}])
            <4>1. Mine(t)' = [Mine(t) EXCEPT !.txn = "open", !.pending = @ \cup {j}]
                BY <2>1, <2>2, <3>5 DEF Set, Mine
            <4>2. Mine(t)'.txn = "open" /\ Mine(t)'.pending = Mine(t).pending \cup {j}
                BY <2>1, <4>1 DEF Server
            <4> QED
                BY <1>3, <2>1, <2>2, <3>1, <3>3, <4>2
        <3> QED
            BY <3>2, <3>4, <3>5
    <2>6. CASE EndBody(t)
        <3>1. /\ op[t] = "body" /\ op'[t] = "commit" /\ Mine(t).alive /\ todo[t] = {}
              /\ server' = server
            BY <2>6 DEF EndBody, At, Do
        <3>2. Mine(t)' = Mine(t)
            BY <2>2, <3>1 DEF Mine
        <3> QED
            BY <1>3, <2>1, <3>1, <3>2
    <2>7. CASE Commit(t)
        <3>1. op[t] = "commit" /\ Mine(t).alive
            BY <2>7 DEF Commit, At
        <3>2. i \in written \cup spoiled \/ (Mine(t).txn = "open" /\ i \in Mine(t).pending)
            BY <1>3, <2>1, <3>1
        <3> QED
            BY <2>1, <2>7, <3>2 DEF Commit
    <2>8. CASE Restore(t)
        <3>1. i \in written \cup spoiled
            BY <1>3, <2>1, <2>8 DEF Restore, At
        <3> QED
            BY <2>1, <3>1
    <2>9. CASE CallOnLost(t) \/ StatementFails(t)
        BY <2>1, <2>9 DEF CallOnLost, StatementFails
    <2>10. CASE RecordFails(t)
        <3>1. op[t] = "body" /\ Mine(t).alive /\ op' = op /\ server' = server
            BY <2>10 DEF RecordFails, At
        <3>2. PICK j \in todo[t] :
                 todo' = [todo EXCEPT ![t] = @ \ {j}] /\ spoiled' = spoiled \cup {j}
            BY <2>10 DEF RecordFails
        <3>3. Mine(t)' = Mine(t)
            BY <2>2, <3>1 DEF Mine
        <3>4. i # j /\ i \in todo[t] => i \in todo'[t]
            BY <3>2
        <3> QED
            BY <1>3, <2>1, <3>1, <3>2, <3>3, <3>4
    <2> QED
        BY <1>8, <2>3, <2>4, <2>5, <2>6, <2>7, <2>8, <2>9, <2>10 DEF Driver
<1>9. ASSUME NEW u \in Threads, GiveUp(u) \/ Leave(u) PROVE Settled
    <2>1. Return(u)
        BY <1>9 DEF GiveUp, Leave
    <2>2. u # t
        BY <1>2, <2>1 DEF Return
    <2>3. op'[t] = op[t] /\ todo'[t] = todo[t] /\ batch'[t] = batch[t]
        BY <2>1, <2>2 DEF Return, Do
    <2>4. pc[t] = "holding" => /\ pc'[t] = "holding" /\ held'[t] = held[t]
                               /\ server'[held[t]] = server[held[t]]
        <3>1. pc[t] = "holding" => pc'[t] = "holding"
            BY <1>9, <2>2, PcAfterRelease DEF GiveUp, Leave
        <3>2. held'[t] = held[t]
            BY <1>9, <2>2 DEF GiveUp, Leave, Refused, Release
        <3>3. pc[t] = "holding" => held[t] \in Conns /\ held[t] # held[u]
            BY <2>2, HeldIsOwn
        <3> QED
            BY <1>9, <3>1, <3>2, <3>3 DEF GiveUp, Leave
    <2>5. i \in written \cup spoiled => i \in written' \cup spoiled'
        <3>1. i \notin Statements(u)
            BY <1>1, <1>2, <2>3, StatementsApart
        <3> QED
            BY <1>9, <3>1 DEF GiveUp, Leave, Statements
    <2> QED
        BY <1>4, <2>3, <2>4, <2>5
<1>10. CASE Disconnect
    <2>1. /\ UNCHANGED <<pc, held, op, todo, batch, written>> /\ spoiled \subseteq spoiled'
          /\ open
        BY <1>10 DEF Disconnect, CloseAll, threadVars
    <2>2. CASE pc[t] # "holding"
        BY <1>4, <2>1, <2>2
    <2>3. CASE pc[t] = "holding"
        <3>1. held[t] \in inUse
            BY <2>1, <2>3 DEF PoolInv, LeasesRecorded
        <3>2. ~Mine(t)'.alive
            BY <1>10, <2>1, <3>1 DEF Disconnect, Mine, Fresh
        <3>3. op[t] = "release" => i \in written \cup spoiled
            BY <1>2, <1>3, <2>1
        <3> QED
            BY <2>1, <2>3, <3>2, <3>3
    <2> QED
        BY <2>2, <2>3
<1>11. ASSUME NEW c \in Conns, ConnectionLost(c) PROVE Settled
    <2>1. UNCHANGED <<pc, held, op, todo, batch, written, spoiled>>
        BY <1>11 DEF ConnectionLost, threadVars, poolVars
    <2>2. CASE held[t] # c \/ pc[t] # "holding"
        BY <1>4, <1>11, <2>1, <2>2 DEF ConnectionLost
    <2>3. CASE held[t] = c /\ pc[t] = "holding"
        <3>1. ~Mine(t)'.alive
            BY <1>11, <2>1, <2>3 DEF ConnectionLost, Mine, Fresh
        <3>2. op[t] = "release" => i \in written \cup spoiled
            BY <1>2, <1>3, <1>11, <2>1, <2>3 DEF ConnectionLost, Mine
        <3> QED
            BY <2>1, <2>3, <3>1, <3>2
    <2> QED
        BY <2>2, <2>3
<1>12. CASE Elsewhere
    BY <1>4, <1>12 DEF Elsewhere, threadVars
<1> QED
    BY <1>5, <1>6, <1>7, <1>8, <1>9, <1>10, <1>11, <1>12, StoreCases

(* A flush divides the queue: what is not in the batch is still in it. *)
LEMMA QueueDivided ==
    ASSUME queue \in Seq(Records), NEW n \in 0 .. Len(queue)
    PROVE  /\ queue' = SubSeq(queue, n + 1, Len(queue)) => Queued \subseteq First(n) \cup Queued'
           /\ queue' = <<>> => Queued' = {}
           /\ First(Len(queue)) = Queued
           /\ \A r \in Records : queue' = Append(queue, r) => Queued' = Queued \cup {r}
<1>1. Len(queue) \in Nat
    OBVIOUS
<1>2. ASSUME queue' = SubSeq(queue, n + 1, Len(queue)) PROVE Queued \subseteq First(n) \cup Queued'
    <2>1. /\ Len(queue') = Len(queue) - n
          /\ \A i \in 1 .. Len(queue) - n : queue'[i] = queue[n + i]
        BY <1>2, QueueParts
    <2>2. \A i \in n + 1 .. Len(queue) : i - n \in 1 .. Len(queue) - n /\ n + (i - n) = i
        BY <1>1
    <2>3. \A i \in 1 .. Len(queue) : queue[i] \in First(n) \cup Queued'
        <3>1. SUFFICES ASSUME NEW i \in 1 .. Len(queue), i \notin 1 .. n PROVE queue[i] \in Queued'
            BY DEF First
        <3>2. i - n \in 1 .. Len(queue') /\ queue'[i - n] = queue[i]
            BY <1>1, <2>1, <2>2, <3>1
        <3> QED
            BY <3>2 DEF Queued
    <2> QED
        BY <2>3 DEF Queued
<1>3. queue' = <<>> => Queued' = {}
    BY DEF Queued
<1>4. First(Len(queue)) = Queued
    BY DEF First, Queued
<1>5. ASSUME NEW r \in Records, queue' = Append(queue, r) PROVE Queued' = Queued \cup {r}
    <2>1. /\ Len(queue') = Len(queue) + 1 /\ queue'[Len(queue) + 1] = r
          /\ \A i \in 1 .. Len(queue) : queue'[i] = queue[i]
        BY <1>1, <1>5
    <2>2. \A i \in 1 .. Len(queue) + 1 : i \in 1 .. Len(queue) \/ i = Len(queue) + 1
        BY <1>1
    <2>3. 1 .. Len(queue) \subseteq 1 .. Len(queue) + 1 /\ Len(queue) + 1 \in 1 .. Len(queue) + 1
        BY <1>1
    <2> QED
        BY <2>1, <2>2, <2>3 DEF Queued
<1> QED
    BY <1>2, <1>3, <1>4, <1>5

LEMMA RecordsStep ==
    ASSUME PoolInv, TypeOK, BatchesApart, CallsInStep, UnheldAreFresh, SessionsInStep,
           RecordsAccounted, [Next]_vars
    PROVE  RecordsAccounted'
<1> USE DEF TypeOK, PoolTypeOK
<1>1. /\ Flusher \in Threads \ Tasks /\ Stopper \in Threads \ Tasks /\ Flusher # Stopper
      /\ Tasks \subseteq Threads
    BY StoreAssumption
<1>2. Settling(Flusher)' /\ Settling(Stopper)'
    BY <1>1, SettlingStep DEF RecordsAccounted
<1> DEFINE Taken == batch[Flusher] \cup batch[Stopper]
           Places == written \cup spoiled \cup Taken \cup Queued
<1>3. emitted \subseteq Places
    BY DEF RecordsAccounted
<1>4. SUFFICES emitted' \subseteq Places'
    BY <1>2 DEF RecordsAccounted
<1>5. ASSUME emitted' = emitted,
             (written \cup spoiled) \cap Records \subseteq written' \cup spoiled',
             Taken \subseteq Taken' \cup written' \cup spoiled', queue' = queue
      PROVE  emitted' \subseteq Places'
    <2>1. Queued' = Queued
        BY <1>5 DEF Queued
    <2>2. emitted \subseteq Records
        OBVIOUS
    <2> QED
        BY <1>3, <1>5, <2>1, <2>2
<1>6. ASSUME NEW t \in Threads, Thread(t) \/ Disturb(t) PROVE emitted' \subseteq Places'
    <2>1. CASE Seeks(t) /\ UNCHANGED queueVars
        BY <1>5, <2>1 DEF Seeks, queueVars, threadVars
    <2>2. CASE Driver(t)
        BY <1>5, <2>2, DriverStep, DriverWrites DEF queueVars
    <2>3. CASE GiveUp(t) \/ Leave(t)
        <3>1. Return(t)
            BY <2>3 DEF GiveUp, Leave
        <3>2. (written \cup spoiled) \cap Records \subseteq written' \cup spoiled'
            BY <2>3, StatementsApart DEF GiveUp, Leave, Statements
        <3>3. batch[t] \cap Records \subseteq written' \cup spoiled' \/ t \in Tasks
            <4>1. CASE GiveUp(t)
                BY <4>1, ThreadKinds DEF GiveUp
            <4>2. CASE Leave(t) /\ t \notin Tasks
                <5>1. op[t] = "release" /\ Settling(t)
                    BY <1>1, <4>2, StoreAssumption DEF Leave, RecordsAccounted
                <5>2. batch[t] \subseteq written \cup spoiled
                    BY <5>1 DEF Settling
                <5> QED
                    BY <3>2, <5>2
            <4> QED
                BY <2>3, <4>1, <4>2
        <3>4. \A u \in Threads : u # t => batch'[u] = batch[u]
            BY <3>1 DEF Return
        <3>5. batch[Flusher] \subseteq Records /\ batch[Stopper] \subseteq Records
            BY <1>1 DEF BatchesApart
        <3>6. Taken \subseteq Taken' \cup written' \cup spoiled'
            BY <1>1, <3>3, <3>4, <3>5
        <3> QED
            BY <1>5, <3>1, <3>2, <3>6 DEF Return
    <2> QED
        BY <1>6, <2>1, <2>2, <2>3, ThreadCases
<1>7. ASSUME NEW t \in Tasks, RunOne(t) \/ RunTransaction(t) PROVE emitted' \subseteq Places'
    <2>1. \A u \in Threads : u # t => batch'[u] = batch[u]
        BY <1>7 DEF RunOne, RunTransaction, Enter
    <2>2. UNCHANGED <<queueVars, written, spoiled>>
        BY <1>7 DEF RunOne, RunTransaction
    <2> QED
        BY <1>1, <1>5, <2>1, <2>2 DEF queueVars
<1>8. ASSUME NEW r \in Records, Enqueue(r) PROVE emitted' \subseteq Places'
    <2>1. Queued' = Queued \cup {r}
        BY <1>8, QueueDivided DEF Enqueue
    <2> QED
        BY <1>3, <1>8, <2>1 DEF Enqueue, threadVars
<1>9. ASSUME NEW t \in {Flusher, Stopper}, NEW n \in 0 .. Len(queue),
             Enter(t, First(n), "begin"), UNCHANGED <<emitted, written, spoiled>>,
             Queued \subseteq First(n) \cup Queued'
      PROVE  emitted' \subseteq Places'
    <2>1. batch[t] = {} /\ batch' = [batch EXCEPT ![t] = First(n)]
        BY <1>1, <1>9 DEF Enter, Call, BatchesApart, CallsInStep
    <2>2. Taken \cup First(n) \subseteq Taken'
        BY <1>1, <2>1
    <2> QED
        BY <1>3, <1>9, <2>2
<1>10. CASE Drain
    <2> DEFINE n == AtMost(Len(queue), MaxBatch)
    <2>1. CASE Enter(Flusher, First(n), "begin") /\ queue' = SubSeq(queue, n + 1, Len(queue))
        <3>1. n \in 0 .. Len(queue)
            BY DrainCount
        <3> HIDE DEF n
        <3>2. Queued \subseteq First(n) \cup Queued'
            BY <2>1, <3>1, QueueDivided
        <3>3. UNCHANGED <<emitted, written, spoiled>>
            BY <1>10 DEF Drain
        <3> QED
            BY <1>9, <2>1, <3>1, <3>2, <3>3
    <2>2. CASE UNCHANGED <<poolVars, threadVars, queue>>
        BY <1>5, <1>10, <2>2 DEF Drain, threadVars
    <2> QED
        BY <1>10, <2>1, <2>2 DEF Drain
<1>11. CASE JoinEnds \/ JoinTimesOut
    <2>1. CASE Enter(Stopper, First(Len(queue)), "begin")
        BY <1>9, <1>11, <2>1, QueueDivided DEF JoinEnds, JoinTimesOut
    <2>2. CASE UNCHANGED <<poolVars, threadVars, queue>>
        BY <1>5, <1>11, <2>2 DEF JoinEnds, JoinTimesOut, threadVars
    <2> QED
        BY <1>11, <2>1, <2>2 DEF JoinEnds, JoinTimesOut, FlushRest
<1>12. CASE \/ Stop \/ Disconnect \/ \E c \in Conns : ConnectionLost(c)
            \/ Metrics /\ UNCHANGED <<storeRest, server, faults>>
            \/ UNCHANGED vars
    BY <1>5, <1>12 DEF Stop, Disconnect, ConnectionLost, storeRest, vars, threadVars, queueVars
<1> QED
    BY <1>6, <1>7, <1>8, <1>10, <1>11, <1>12 DEF Next

LEMMA StopStep ==
    ASSUME PoolInv, TypeOK, BatchesApart, BatchesApart', CallsInStep, SessionsInStep,
           StopInStep, [Next]_vars
    PROVE  StopInStep'
<1> USE DEF TypeOK, PoolTypeOK, StopInStep
<1>1. /\ Flusher \in Threads \ Tasks /\ Stopper \in Threads \ Tasks /\ Flusher # Stopper
      /\ Tasks \subseteq Threads
    BY StoreAssumption
<1>2. ASSUME \A t \in {Flusher, Stopper} : op'[t] # "none" <=> op[t] # "none",
             UNCHANGED <<queue, flusher, stage, open>>
      PROVE  StopInStep'
    BY <1>2
<1>3. ASSUME NEW t \in Threads, Thread(t) \/ Disturb(t) PROVE StopInStep'
    <2>1. CASE Seeks(t) /\ UNCHANGED queueVars
        <3>1. op' = op /\ open' = open
            BY <2>1 DEF Seeks, threadVars, Acquire, TakeIdle, Reserve, Wait, TimeOut, Exceed,
                Create, CreateFails
        <3> QED
            BY <1>2, <2>1, <3>1 DEF queueVars
    <2>2. CASE Driver(t)
        <3>1. UNCHANGED <<poolVars, batch, queueVars>>
            BY <2>2, DriverStep
        <3>2. \A u \in Threads : op'[u] # "none" <=> op[u] # "none"
            BY <3>1 DEF BatchesApart
        <3> QED
            BY <1>1, <1>2, <3>1, <3>2 DEF poolVars, queueVars
    <2>3. CASE GiveUp(t) \/ Leave(t)
        <3>1. Return(t) /\ open' = open /\ pc[t] # "out"
            BY <2>3 DEF GiveUp, Leave, Refused, Release
        <3>2. op[t] # "none" /\ op' = [op EXCEPT ![t] = "none"] /\ queue' = queue
            BY <3>1 DEF Return, Do, CallsInStep
        <3>3. CASE t = Flusher
            BY <1>1, <3>1, <3>2, <3>3 DEF Return
        <3>4. CASE t = Stopper
            BY <1>1, <3>1, <3>2, <3>4 DEF Return
        <3>5. CASE t \notin {Flusher, Stopper}
            BY <1>1, <1>2, <3>1, <3>2, <3>5 DEF Return
        <3> QED
            BY <3>3, <3>4, <3>5
    <2> QED
        BY <1>3, <2>1, <2>2, <2>3, ThreadCases
<1>4. ASSUME NEW t \in Tasks, RunOne(t) \/ RunTransaction(t) PROVE StopInStep'
    BY <1>1, <1>2, <1>4 DEF RunOne, RunTransaction, Enter, Do, poolRest, queueVars
<1>5. CASE Drain
    <2> DEFINE n == AtMost(Len(queue), MaxBatch)
    <2>1. CASE /\ n > 0 /\ Enter(Flusher, First(n), "begin")
               /\ queue' = SubSeq(queue, n + 1, Len(queue)) /\ flusher' = "flushing"
        <3>1. queue # <<>>
            BY <2>1, DrainCount
        <3> QED
            BY <1>1, <1>5, <2>1, <3>1 DEF Drain, Enter, Do, poolRest
    <2>2. CASE flusher' = "ended" /\ UNCHANGED <<poolVars, threadVars, queue>>
        BY <1>5, <2>2 DEF Drain, poolVars, threadVars
    <2> QED
        BY <1>5, <2>1, <2>2 DEF Drain
<1>6. CASE JoinEnds \/ JoinTimesOut
    BY <1>1, <1>6 DEF JoinEnds, JoinTimesOut, FlushRest, Enter, Do, poolRest, poolVars,
        threadVars
<1>7. CASE Stop \/ Disconnect \/ \E r \in Records : Enqueue(r)
    BY <1>7 DEF Stop, Disconnect, Enqueue, CloseAll, poolVars, threadVars
<1>8. CASE \/ \E c \in Conns : ConnectionLost(c)
           \/ Metrics /\ UNCHANGED <<storeRest, server, faults>>
           \/ UNCHANGED vars
    BY <1>2, <1>8 DEF ConnectionLost, Metrics, storeRest, vars, poolVars, threadVars, queueVars
<1> QED
    BY <1>3, <1>4, <1>5, <1>6, <1>7, <1>8 DEF Next

-----------------------------------------------------------------------------
(* The theorems *)

LEMMA StoreInvInductive == (Init => StoreInv) /\ (StoreInv /\ [Next]_vars => StoreInv')
<1>1. ASSUME Init PROVE StoreInv
    <2>1. PoolInv /\ TypeOK
        BY <1>1, PoolInvInductive, StoreTypeInit DEF Init
    <2>2. BatchesApart /\ CallsInStep /\ UnheldAreFresh /\ SessionsInStep
        BY <1>1, BatchesInit, SessionsInit
    <2>3. CommittedTogether /\ StopInStep /\ RecordsAccounted
        BY <1>1, StoreAssumption DEF Init, PoolInit, CommittedTogether, Together, StopInStep,
            RecordsAccounted, Settling
    <2> QED
        BY <2>1, <2>2, <2>3 DEF StoreInv
<1>2. ASSUME StoreInv, [Next]_vars PROVE StoreInv'
    <2>1. PoolInv' /\ TypeOK'
        BY <1>2, PoolGoesOn, StoreTypeStep DEF StoreInv
    <2>2. BatchesApart' /\ CallsInStep'
        BY <1>2, CallsStep DEF StoreInv
    <2>3. UnheldAreFresh' /\ SessionsInStep'
        BY <1>2, UnheldStep, SessionsStep DEF StoreInv
    <2>4. CommittedTogether' /\ RecordsAccounted' /\ StopInStep'
        BY <1>2, <2>2, TogetherStep, RecordsStep, StopStep DEF StoreInv
    <2> QED
        BY <2>1, <2>2, <2>3, <2>4 DEF StoreInv
<1> QED
    BY <1>1, <1>2

LEMMA StoreInvHolds == Spec => []StoreInv
<1> QED
    BY StoreInvInductive, PTL DEF Spec

(* The store, the write queue and the shutdown keep their types. *)
THEOREM StoreTypeCorrect == Spec => []TypeOK
<1>1. StoreInv => TypeOK
    BY DEF StoreInv
<1> QED
    BY <1>1, StoreInvHolds, PTL

(* A connection the pool hands out is in autocommit and out of any         *)
(* transaction, whatever failed or was lost while others had it            *)
(* (application_state_store.py:383-388).                                   *)
THEOREM IdleAreClean == Spec => []IdleInAutocommit
<1>1. StoreInv => IdleInAutocommit
    <2> SUFFICES ASSUME StoreInv, NEW c \in available, server[c].alive
                 PROVE  server[c].auto /\ server[c].txn = "none"
        BY DEF IdleInAutocommit
    <2>1. c \in Conns /\ NobodyHolds(c)
        BY DEF StoreInv, PoolInv, PoolTypeOK, LeasesExclusive, NobodyHolds
    <2>2. server[c] = Fresh
        BY <2>1 DEF StoreInv, UnheldAreFresh
    <2> QED
        BY <2>2 DEF Fresh
<1> QED
    BY <1>1, StoreInvHolds, PTL

(* A transaction's statements are committed together or not at all, and    *)
(* what returned without an exception is committed                         *)
(* (application_state_store.py:340-352).                                   *)
THEOREM TransactionsAreAtomic == Spec => []AllOrNothing
<1>1. StoreInv => AllOrNothing
    <2> SUFFICES ASSUME StoreInv, NEW t \in Tasks
                 PROVE  /\ op[t] # "none" => written \cap batch[t] \in {{}, batch[t]}
                        /\ op[t] = "release" /\ ~failed[t] => batch[t] \subseteq written
        BY DEF AllOrNothing
    <2>1. Together(t) /\ batch[t] \subseteq Statements(t)
        BY ThreadKinds DEF StoreInv, CommittedTogether, BatchesApart
    <2>2. written \cap Statements(t) = {} => written \cap batch[t] = {}
        BY <2>1
    <2>3. written \cap Statements(t) = batch[t] => written \cap batch[t] = batch[t]
        BY <2>1
    <2> QED
        BY <2>1, <2>2, <2>3 DEF Together
<1> QED
    BY <1>1, StoreInvHolds, PTL

(* stop() and the flusher divide the queue between them: after the         *)
(* shutdown every record is written or its batch met a fault               *)
(* (application_state.py:204-208).                                         *)
THEOREM NothingLeftUnflushed == Spec => []StopFlushesAll
<1>1. StoreInv => StopFlushesAll
    <2> SUFFICES ASSUME StoreInv, stage = "closed", flusher = "ended"
                 PROVE  emitted \subseteq written \cup spoiled
        BY DEF StopFlushesAll
    <2>1. batch[Flusher] = {} /\ batch[Stopper] = {}
        BY ThreadKinds DEF StoreInv, StopInStep, BatchesApart
    <2>2. Queued = {}
        BY DEF StoreInv, StopInStep, Queued
    <2> QED
        BY <2>1, <2>2 DEF StoreInv, RecordsAccounted
<1> QED
    BY <1>1, StoreInvHolds, PTL
=============================================================================
