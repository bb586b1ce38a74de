-------------------------- MODULE AsyncPoolProofs --------------------------
(***************************************************************************)
(* Proofs about AsyncPool, for any number of tasks and connections, any    *)
(* sizes and any subset of the faults: its state stays well typed, no      *)
(* connection is leased twice, an open pool stays within max_conn, and the *)
(* pool implements ConnectionLease.  Its queue lists live calls only, and, *)
(* where only connections break, strands nobody.                           *)
(***************************************************************************)
EXTENDS AsyncPool, TLAPS, FiniteSetTheorems, SequenceTheorems

-----------------------------------------------------------------------------
(* The helpers *)

LEMMA WithoutType ==
    ASSUME NEW S, NEW s \in Seq(S), NEW x
    PROVE  Without(s, x) \in Seq(S)
<1>1. CASE \E i \in 1 .. Len(s) : s[i] = x
    <2> DEFINE i == CHOOSE i \in 1 .. Len(s) : s[i] = x
    <2>1. i \in 1 .. Len(s)
        BY <1>1
    <2>2. Len(s) \in Nat /\ \A j \in 1 .. Len(s) : s[j] \in S
        OBVIOUS
    <2>3. SubSeq(s, 1, i - 1) \in Seq(S)
        <3>1. \A j \in 1 .. i - 1 : s[j] \in S
            BY <2>1, <2>2
        <3> QED
            BY <2>1, <2>2, <3>1, SubSeqProperties
    <2>4. SubSeq(s, i + 1, Len(s)) \in Seq(S)
        <3>1. \A j \in i + 1 .. Len(s) : s[j] \in S
            BY <2>1, <2>2
        <3> QED
            BY <2>1, <2>2, <3>1, SubSeqProperties
    <2>5. Without(s, x) = SubSeq(s, 1, i - 1) \o SubSeq(s, i + 1, Len(s))
        BY <1>1 DEF Without
    <2> HIDE DEF i
    <2> QED
        BY <2>3, <2>4, <2>5, ConcatProperties
<1>2. CASE ~ \E i \in 1 .. Len(s) : s[i] = x
    BY <1>2 DEF Without
<1> QED
    BY <1>1, <1>2

LEMMA WokenType ==
    ASSUME NEW S, NEW s \in Seq(S)
    PROVE  Woken(s) \in Seq(S)
BY HeadTailProperties DEF Woken

LEMMA SizerType ==
    ASSUME NEW s \in Sizers
    PROVE  /\ InitialSizer \in Sizers
           /\ \A pressure \in BOOLEAN : Adjusted(s, pressure) \in Sizers
           /\ \A target \in MinConn .. MaxConn : Warmed(s, target) \in Sizers
BY SizerAssumption DEF Sizers, InitialSizer, Adjusted, Grown, Rested, Warmed, AtMost

-----------------------------------------------------------------------------
(* Type correctness *)

LEMMA TypeInit == Init => TypeOK
<1> SUFFICES ASSUME Init PROVE TypeOK
    OBVIOUS
<1>1. InitialSizer \in Sizers
    BY SizerAssumption DEF InitialSizer, Sizers
<1> QED
    BY <1>1 DEF Init, TypeOK, PCs

LEMMA TypeStep == TypeOK /\ [Next]_vars => TypeOK'
<1> SUFFICES ASSUME TypeOK, [Next]_vars PROVE TypeOK'
    OBVIOUS
<1> USE DEF TypeOK, PCs, Goto
<1>1. ASSUME NEW t \in Tasks, Acquire(t) PROVE TypeOK'
    <2>1. CASE AcquirePark(t)
        BY <2>1 DEF AcquirePark, Park
    <2>2. CASE AcquireIdle(t)
        BY <2>2 DEF AcquireIdle
    <2>3. CASE AcquireReserve(t)
        BY <2>3 DEF AcquireReserve
    <2>4. CASE AcquireEnqueue(t)
        BY <2>4, AppendProperties DEF AcquireEnqueue
    <2>5. CASE GiveUpParked(t)
        BY <2>5, WithoutType DEF GiveUpParked, LeaveQueue
    <2>6. CASE FinishCreate(t)
        BY <2>6 DEF FinishCreate, Checkin, Park
    <2>7. CASE UnreserveParked(t)
        BY <2>7 DEF UnreserveParked, Unreserve
    <2> QED
        BY <1>1, <2>1, <2>2, <2>3, <2>4, <2>5, <2>6, <2>7 DEF Acquire
<1>2. ASSUME NEW t \in Tasks, Release(t) PROVE TypeOK'
    <2>1. CASE ReleaseUnknown(t)
        BY <2>1 DEF ReleaseUnknown
    <2>2. CASE Return(t)
        BY <2>2, WokenType DEF Return
    <2>3. CASE Discard(t)
        BY <2>3 DEF Discard
    <2>4. CASE ReleasePark(t)
        BY <2>4 DEF ReleasePark, Park
    <2>5. CASE FinishDiscard(t)
        BY <2>5, WokenType DEF FinishDiscard
    <2> QED
        BY <1>2, <2>1, <2>2, <2>3, <2>4, <2>5 DEF Release
<1>3. ASSUME NEW t \in Tasks, TimeOut(t) \/ CreateFails(t) PROVE TypeOK'
    BY <1>3, WithoutType DEF TimeOut, CreateFails, LeaveQueue, Unreserve, Park
<1>4. ASSUME NEW t \in Tasks, Cancel(t) PROVE TypeOK'
    <2>1. CASE CancelWaiting(t)
        BY <2>1, WithoutType DEF CancelWaiting, LeaveQueue, Park
    <2>2. CASE CancelTwice(t)
        <3>1. waiters' \in Seq(Tasks \cup {Dead})
            BY <2>2 DEF CancelTwice
        <3> QED
            BY <2>2, <3>1 DEF CancelTwice
    <2>3. CASE CancelCreating(t)
        BY <2>3 DEF CancelCreating, Unreserve, Park
    <2>4. CASE CancelReserved(t)
        <3>1. Cardinality(slots \cap {t}) \in Nat
            BY FS_Singleton, FS_Subset, FS_CardinalityType
        <3> QED
            BY <2>4, <3>1 DEF CancelReserved
    <2>5. CASE CancelElsewhere(t)
        BY <2>5 DEF CancelElsewhere
    <2> QED
        BY <1>4, <2>1, <2>2, <2>3, <2>4, <2>5 DEF Cancel
<1>5. CASE Metrics \/ WarmupBump
    BY <1>5, SizerType DEF Metrics, WarmupBump
<1>6. CASE CloseAll \/ Detach
    BY <1>6 DEF CloseAll, Detach
<1>7. CASE UNCHANGED vars
    BY <1>7 DEF vars
<1> QED
    BY <1>1, <1>2, <1>3, <1>4, <1>5, <1>6, <1>7 DEF Next

(* Every variable keeps its type whatever the environment does. *)
THEOREM TypeCorrect == Spec => []TypeOK
BY TypeInit, TypeStep, PTL DEF Spec

-----------------------------------------------------------------------------
(* Leases: a connection has one holder, and the pool knows it *)

LEMMA LeaseInit == Init => ExclusiveLease /\ LeasesRecorded
BY PoolAssumption DEF Init, ExclusiveLease, LeasesRecorded, Holders

LEMMA LeaseStep ==
    ASSUME TypeOK, ExclusiveLease, LeasesRecorded, [Next]_vars
    PROVE  ExclusiveLease' /\ LeasesRecorded'
<1> USE PoolAssumption DEF TypeOK, PCs, Goto, ExclusiveLease, LeasesRecorded, Holders
<1>1. ASSUME NEW t \in Tasks, Acquire(t) PROVE ExclusiveLease' /\ LeasesRecorded'
    <2>1. CASE AcquirePark(t)
        BY <2>1 DEF AcquirePark, Park
    <2>2. CASE AcquireIdle(t)
        <3>1. PICK c \in available :
                  /\ available' = available \ {c}
                  /\ inUse' = inUse \cup {c}
                  /\ held' = [held EXCEPT ![t] = c]
            BY <2>2 DEF AcquireIdle
        <3>2. c # NoConn /\ c \notin inUse /\ \A s \in Tasks : held[s] # c
            BY <3>1
        <3>3. pc' = [pc EXCEPT ![t] = "holding"] /\ phase' = phase
            BY <2>2 DEF AcquireIdle
        <3>4. ExclusiveLease'
            BY <3>1, <3>2
        <3>5. LeasesRecorded'
            BY <3>1, <3>2, <3>3
        <3> QED
            BY <3>4, <3>5
    <2>3. CASE AcquireReserve(t)
        BY <2>3 DEF AcquireReserve, Calling
    <2>4. CASE AcquireEnqueue(t)
        BY <2>4 DEF AcquireEnqueue, Calling
    <2>5. CASE GiveUpParked(t)
        BY <2>5 DEF GiveUpParked, LeaveQueue
    <2>6. CASE Checkin(t)
        <3>1. PICK c \in Conns \ (available \cup inUse \cup HeldConns) :
                  /\ inUse' = inUse \cup {c}
                  /\ held' = [held EXCEPT ![t] = c]
            BY <2>6 DEF Checkin
        <3>2. c # NoConn /\ c \notin inUse /\ \A s \in Tasks : held[s] # c
            BY <3>1 DEF HeldConns
        <3>3. /\ pc' = [pc EXCEPT ![t] = "holding"] /\ phase' = phase
              /\ available' = available
            BY <2>6 DEF Checkin
        <3>4. ExclusiveLease'
            BY <3>1, <3>2, <3>3
        <3>5. LeasesRecorded'
            BY <3>1, <3>2, <3>3
        <3> QED
            BY <3>4, <3>5
    <2>7. CASE Park(t, "creating", "created")
        BY <2>7 DEF Park
    <2>8. CASE UnreserveParked(t)
        BY <2>8 DEF UnreserveParked, Unreserve
    <2> QED
        BY <1>1, <2>1, <2>2, <2>3, <2>4, <2>5, <2>6, <2>7, <2>8
        DEF Acquire, FinishCreate
<1>2. ASSUME NEW t \in Tasks, Release(t) PROVE ExclusiveLease' /\ LeasesRecorded'
    <2>1. CASE ReleaseUnknown(t)
        BY <2>1 DEF ReleaseUnknown
    <2>2. CASE Return(t)
        <3>1. /\ held[t] \in inUse /\ held[t] # NoConn
              /\ inUse' = inUse \ {held[t]}
              /\ available' = available \cup {held[t]}
              /\ held' = [held EXCEPT ![t] = NoConn]
              /\ pc' = [pc EXCEPT ![t] = "out"]
              /\ phase' = phase
            BY <2>2 DEF Return
        <3>2. \A s \in Tasks : s # t => held[s] # held[t]
            BY <3>1
        <3>3. ExclusiveLease'
            BY <3>1, <3>2
        <3>4. LeasesRecorded'
            BY <3>1, <3>2
        <3> QED
            BY <3>3, <3>4
    <2>3. CASE Discard(t)
        BY <2>3 DEF Discard
    <2>4. CASE ReleasePark(t)
        BY <2>4 DEF ReleasePark, Park
    <2>5. CASE FinishDiscard(t)
        BY <2>5 DEF FinishDiscard
    <2> QED
        BY <1>2, <2>1, <2>2, <2>3, <2>4, <2>5 DEF Release
<1>3. ASSUME NEW t \in Tasks, TimeOut(t) \/ CreateFails(t)
      PROVE  ExclusiveLease' /\ LeasesRecorded'
    BY <1>3 DEF TimeOut, CreateFails, LeaveQueue, Unreserve, Park
<1>4. ASSUME NEW t \in Tasks, Cancel(t) PROVE ExclusiveLease' /\ LeasesRecorded'
    <2>1. CASE CancelWaiting(t)
        BY <2>1 DEF CancelWaiting, LeaveQueue, Park
    <2>2. CASE CancelTwice(t)
        BY <2>2 DEF CancelTwice
    <2>3. CASE CancelCreating(t)
        BY <2>3 DEF CancelCreating, Unreserve, Park
    <2>4. CASE CancelReserved(t)
        BY <2>4 DEF CancelReserved
    <2>5. CASE CancelElsewhere(t)
        BY <2>5 DEF CancelElsewhere
    <2> QED
        BY <1>4, <2>1, <2>2, <2>3, <2>4, <2>5 DEF Cancel
<1>5. CASE Metrics \/ WarmupBump
    BY <1>5 DEF Metrics, WarmupBump
<1>6. CASE CloseAll \/ Detach
    BY <1>6 DEF CloseAll, Detach
<1>7. CASE UNCHANGED vars
    BY <1>7 DEF vars
<1> QED
    BY <1>1, <1>2, <1>3, <1>4, <1>5, <1>6, <1>7 DEF Next

(* No connection is leased to two tasks, or leased and idle. *)
THEOREM LeasesExclusive == Spec => []ExclusiveLease
<1>1. TypeOK /\ (ExclusiveLease /\ LeasesRecorded) /\ [Next]_vars
      => (ExclusiveLease /\ LeasesRecorded)'
    BY LeaseStep
<1> QED
    BY <1>1, LeaseInit, TypeInit, TypeStep, PTL DEF Spec

-----------------------------------------------------------------------------
(* Reservations: while the pool is open every creation under way is counted *)

LEMMA SlotsInit == Init => SlotsRecorded
BY DEF Init, SlotsRecorded, Reservers

LEMMA SlotsStep ==
    ASSUME TypeOK, SlotsRecorded, [Next]_vars
    PROVE  SlotsRecorded'
<1> USE DEF TypeOK, PCs, Goto, SlotsRecorded, Reservers
<1>1. ASSUME NEW t \in Tasks, Acquire(t) PROVE SlotsRecorded'
    <2>1. CASE AcquirePark(t)
        BY <2>1 DEF AcquirePark, Park
    <2>2. CASE AcquireIdle(t)
        BY <2>2 DEF AcquireIdle, Calling
    <2>3. CASE AcquireReserve(t)
        BY <2>3 DEF AcquireReserve
    <2>4. CASE AcquireEnqueue(t)
        BY <2>4 DEF AcquireEnqueue, Calling
    <2>5. CASE GiveUpParked(t)
        BY <2>5 DEF GiveUpParked, LeaveQueue
    <2>6. CASE FinishCreate(t)
        BY <2>6 DEF FinishCreate, Checkin, Park
    <2>7. CASE UnreserveParked(t)
        BY <2>7 DEF UnreserveParked, Unreserve
    <2> QED
        BY <1>1, <2>1, <2>2, <2>3, <2>4, <2>5, <2>6, <2>7 DEF Acquire
<1>2. ASSUME NEW t \in Tasks, Release(t) PROVE SlotsRecorded'
    BY <1>2 DEF Release, ReleaseUnknown, Return, Discard, ReleasePark, Park, FinishDiscard
<1>3. ASSUME NEW t \in Tasks, TimeOut(t) \/ CreateFails(t) PROVE SlotsRecorded'
    BY <1>3 DEF TimeOut, CreateFails, LeaveQueue, Unreserve, Park
<1>4. ASSUME NEW t \in Tasks, Cancel(t) PROVE SlotsRecorded'
    <2>1. CASE CancelWaiting(t) \/ CancelTwice(t)
        BY <2>1 DEF CancelWaiting, CancelTwice, LeaveQueue, Park
    <2>2. CASE CancelCreating(t) \/ CancelReserved(t)
        BY <2>2 DEF CancelCreating, CancelReserved, Unreserve, Park
    <2>3. CASE CancelElsewhere(t)
        BY <2>3 DEF CancelElsewhere
    <2> QED
        BY <1>4, <2>1, <2>2, <2>3 DEF Cancel
<1>5. CASE Metrics \/ WarmupBump \/ CloseAll \/ Detach \/ UNCHANGED vars
    BY <1>5 DEF Metrics, WarmupBump, CloseAll, Detach, vars
<1> QED
    BY <1>1, <1>2, <1>3, <1>4, <1>5 DEF Next

-----------------------------------------------------------------------------
(* Capacity *)

(* How a step that adds or removes one element changes a cardinality. *)
LEMMA OneMoreOrLess ==
    ASSUME NEW S, IsFiniteSet(S), NEW x
    PROVE  /\ Cardinality(S) \in Nat
           /\ Cardinality(S \cup {x}) \in Nat
           /\ Cardinality(S \ {x}) \in Nat
           /\ Cardinality(S \cup {x}) <= Cardinality(S) + 1
           /\ Cardinality(S \ {x}) <= Cardinality(S)
           /\ x \in S => Cardinality(S \ {x}) = Cardinality(S) - 1
           /\ Cardinality(S \cap {x}) = Cardinality(S) - Cardinality(S \ {x})
<1>1. /\ Cardinality(S) \in Nat
      /\ Cardinality(S \ {x}) = IF x \in S THEN Cardinality(S) - 1 ELSE Cardinality(S)
      /\ Cardinality(S \cup {x}) = IF x \in S THEN Cardinality(S) ELSE Cardinality(S) + 1
      /\ IsFiniteSet(S \ {x}) /\ IsFiniteSet(S \cup {x})
    BY FS_AddElement, FS_RemoveElement, FS_CardinalityType
<1>2. Cardinality(S \ {x}) \in Nat /\ Cardinality(S \cup {x}) \in Nat
    BY <1>1, FS_CardinalityType
<1>3. Cardinality(S \cap {x}) = IF x \in S THEN 1 ELSE 0
    <2>1. CASE x \in S
        <3>1. S \cap {x} = {x}
            BY <2>1
        <3> QED
            BY <2>1, <3>1, FS_Singleton
    <2>2. CASE x \notin S
        <3>1. S \cap {x} = {}
            BY <2>2
        <3> QED
            BY <2>2, <3>1, FS_EmptySet
    <2> QED
        BY <2>1, <2>2
<1> QED
    BY <1>1, <1>2, <1>3

LEMMA FiniteParts ==
    ASSUME TypeOK
    PROVE  IsFiniteSet(available) /\ IsFiniteSet(inUse) /\ IsFiniteSet(slots)
BY PoolAssumption, FS_Subset DEF TypeOK

LEMMA CapacityInit == Init => CapacityBound
<1>1. Cardinality({}) = 0
    BY FS_EmptySet
<1> QED
    BY <1>1, SizerAssumption DEF Init, CapacityBound, Entries, Size

LEMMA CapacityStep ==
    ASSUME TypeOK, SlotsRecorded, CapacityBound, [Next]_vars
    PROVE  CapacityBound'
<1> DEFINE a == Cardinality(available)
           u == Cardinality(inUse)
           r == Cardinality(slots)
<1>1. /\ IsFiniteSet(available) /\ IsFiniteSet(inUse) /\ IsFiniteSet(slots)
      /\ a \in Nat /\ u \in Nat /\ r \in Nat /\ orphans \in Nat
    BY FiniteParts, FS_CardinalityType DEF TypeOK
<1>2. phase = "open" => a + (u + r + orphans) <= MaxConn
    BY DEF CapacityBound, Entries, Size
<1>3. sizer.current \in Nat /\ sizer.current <= MaxConn /\ MaxConn \in Nat
    BY SizerAssumption DEF TypeOK, Sizers
<1>4. SUFFICES ASSUME phase' = "open"
               PROVE  Cardinality(available') + (Cardinality(inUse')
                          + Cardinality(slots') + orphans') <= MaxConn
    BY DEF CapacityBound, Entries, Size
<1>5. ASSUME UNCHANGED <<available, inUse, slots, orphans, phase>>
      PROVE  Cardinality(available') + (Cardinality(inUse')
                 + Cardinality(slots') + orphans') <= MaxConn
    BY <1>2, <1>4, <1>5
<1>6. ASSUME NEW t \in Tasks,
             UNCHANGED <<available, inUse, orphans, phase>>, slots' = slots \ {t}
      PROVE  Cardinality(available') + (Cardinality(inUse')
                 + Cardinality(slots') + orphans') <= MaxConn
    <2>1. Cardinality(slots \ {t}) \in Nat /\ Cardinality(slots \ {t}) <= r
        BY <1>1, OneMoreOrLess
    <2> QED
        BY <1>1, <1>2, <1>3, <1>4, <1>6, <2>1
<1>7. ASSUME NEW t \in Tasks, Acquire(t)
      PROVE  Cardinality(available') + (Cardinality(inUse')
                 + Cardinality(slots') + orphans') <= MaxConn
    <2>1. CASE AcquirePark(t)
        BY <1>5, <2>1 DEF AcquirePark, Park
    <2>2. CASE AcquireIdle(t)
        <3>1. PICK c \in available : available' = available \ {c} /\ inUse' = inUse \cup {c}
            BY <2>2 DEF AcquireIdle
        <3>2. Cardinality(available') = a - 1
            BY <1>1, <3>1, OneMoreOrLess
        <3>3. Cardinality(inUse') \in Nat /\ Cardinality(inUse') <= u + 1
            BY <1>1, <3>1, OneMoreOrLess
        <3>4. slots' = slots /\ orphans' = orphans /\ phase' = phase
            BY <2>2 DEF AcquireIdle
        <3> QED
            BY <1>1, <1>2, <1>3, <1>4, <3>2, <3>3, <3>4
    <2>3. CASE AcquireReserve(t)
        <3>1. /\ a = 0 /\ u + r + orphans < sizer.current
              /\ slots' = slots \cup {t}
              /\ UNCHANGED <<available, inUse, orphans, phase>>
            BY <2>3, FS_EmptySet DEF AcquireReserve, Size
        <3>2. Cardinality(slots') \in Nat /\ Cardinality(slots') <= r + 1
            BY <1>1, <3>1, OneMoreOrLess
        <3> QED
            BY <1>1, <1>3, <3>1, <3>2
    <2>4. CASE AcquireEnqueue(t)
        BY <1>5, <2>4 DEF AcquireEnqueue
    <2>5. CASE GiveUpParked(t)
        BY <1>5, <2>5 DEF GiveUpParked, LeaveQueue
    <2>6. CASE Checkin(t)
        <3>1. PICK c \in Conns : inUse' = inUse \cup {c}
            BY <2>6 DEF Checkin
        <3>2. Cardinality(inUse') \in Nat /\ Cardinality(inUse') <= u + 1
            BY <1>1, <3>1, OneMoreOrLess
        <3>3. /\ slots' = slots \ {t} /\ phase' = phase
              /\ UNCHANGED <<available, orphans>>
            BY <2>6 DEF Checkin
        <3>4. t \in slots
            BY <1>4, <2>6, <3>3 DEF Checkin, SlotsRecorded, Reservers
        <3>5. Cardinality(slots') = r - 1
            BY <1>1, <3>3, <3>4, OneMoreOrLess
        <3> QED
            BY <1>1, <1>2, <1>3, <1>4, <3>2, <3>3, <3>5
    <2>7. CASE Park(t, "creating", "created")
        BY <1>5, <2>7 DEF Park
    <2>8. CASE UnreserveParked(t)
        BY <1>6, <2>8 DEF UnreserveParked, Unreserve
    <2> QED
        BY <1>7, <2>1, <2>2, <2>3, <2>4, <2>5, <2>6, <2>7, <2>8
        DEF Acquire, FinishCreate
<1>8. ASSUME NEW t \in Tasks, Release(t)
      PROVE  Cardinality(available') + (Cardinality(inUse')
                 + Cardinality(slots') + orphans') <= MaxConn
    <2>1. CASE ReleaseUnknown(t)
        BY <1>5, <2>1 DEF ReleaseUnknown
    <2>2. CASE Return(t)
        <3>1. /\ held[t] \in inUse
              /\ inUse' = inUse \ {held[t]}
              /\ available' = available \cup {held[t]}
              /\ UNCHANGED <<slots, orphans, phase>>
            BY <2>2 DEF Return
        <3>2. Cardinality(inUse') = u - 1
            BY <1>1, <3>1, OneMoreOrLess
        <3>3. Cardinality(available') \in Nat /\ Cardinality(available') <= a + 1
            BY <1>1, <3>1, OneMoreOrLess
        <3> QED
            BY <1>1, <1>2, <1>3, <1>4, <3>1, <3>2, <3>3
    <2>3. CASE Discard(t)
        <3>1. inUse' = inUse \ {held[t]} /\ UNCHANGED <<available, slots, orphans, phase>>
            BY <2>3 DEF Discard
        <3>2. Cardinality(inUse') \in Nat /\ Cardinality(inUse') <= u
            BY <1>1, <3>1, OneMoreOrLess
        <3> QED
            BY <1>1, <1>2, <1>3, <1>4, <3>1, <3>2
    <2>4. CASE ReleasePark(t)
        BY <1>5, <2>4 DEF ReleasePark, Park
    <2>5. CASE FinishDiscard(t)
        BY <1>5, <2>5 DEF FinishDiscard
    <2> QED
        BY <1>8, <2>1, <2>2, <2>3, <2>4, <2>5 DEF Release
<1>9. ASSUME NEW t \in Tasks, TimeOut(t) \/ CreateFails(t)
      PROVE  Cardinality(available') + (Cardinality(inUse')
                 + Cardinality(slots') + orphans') <= MaxConn
    BY <1>5, <1>6, <1>9 DEF TimeOut, CreateFails, LeaveQueue, Unreserve, Park
<1>10. ASSUME NEW t \in Tasks, Cancel(t)
       PROVE  Cardinality(available') + (Cardinality(inUse')
                  + Cardinality(slots') + orphans') <= MaxConn
    <2>1. CASE CancelWaiting(t) \/ CancelTwice(t)
        BY <1>5, <2>1 DEF CancelWaiting, CancelTwice, LeaveQueue, Park
    <2>2. CASE CancelCreating(t)
        BY <1>5, <1>6, <2>2 DEF CancelCreating, Unreserve, Park
    <2>3. CASE CancelReserved(t)
        <3>1. /\ slots' = slots \ {t}
              /\ orphans' = orphans + Cardinality(slots \cap {t})
              /\ UNCHANGED <<available, inUse, phase>>
            BY <2>3 DEF CancelReserved
        <3>2. /\ Cardinality(slots') \in Nat
              /\ Cardinality(slots \cap {t}) = r - Cardinality(slots')
            BY <1>1, <3>1, OneMoreOrLess
        <3> QED
            BY <1>1, <1>2, <1>3, <1>4, <3>1, <3>2
    <2>4. CASE CancelElsewhere(t)
        BY <1>5, <2>4 DEF CancelElsewhere
    <2> QED
        BY <1>10, <2>1, <2>2, <2>3, <2>4 DEF Cancel
<1>11. CASE Metrics \/ WarmupBump \/ UNCHANGED vars
    BY <1>5, <1>11 DEF Metrics, WarmupBump, vars
<1>12. CASE CloseAll \/ Detach
    BY <1>4, <1>12 DEF CloseAll, Detach
<1> QED
    BY <1>7, <1>8, <1>9, <1>10, <1>11, <1>12 DEF Next

(* The conjunction of the above is inductive. *)
LEMMA PoolInvInductive == (Init => PoolInv) /\ (PoolInv /\ [Next]_vars => PoolInv')
<1>1. Init => PoolInv
    BY TypeInit, LeaseInit, SlotsInit, CapacityInit DEF PoolInv
<1>2. ASSUME PoolInv, [Next]_vars PROVE PoolInv'
    BY <1>2, TypeStep, LeaseStep, SlotsStep, CapacityStep DEF PoolInv
<1> QED
    BY <1>1, <1>2

(* An open pool never answers for more than max_conn connections. *)
THEOREM CapacityRespected == Spec => []CapacityBound
<1>1. PoolInv => CapacityBound
    BY DEF PoolInv
<1> QED
    BY <1>1, PoolInvInductive, PTL DEF Spec

-----------------------------------------------------------------------------
(* Refinement: every step is a step of ConnectionLease or leaves it alone *)

LEMMA LeasedIsHeld == Lease!Leased = HeldConns
BY DEF Lease!Leased, HeldConns

(* The instance has its own copy of FiniteSets. *)
LEMMA SameCardinality == ASSUME NEW S PROVE Lease!Cardinality(S) = Cardinality(S)
BY DEF Lease!Cardinality, Cardinality

(* A grant stays within the bound: with nobody closing, whatever is idle,  *)
(* stray or leased is one of the pool's entries.                           *)
LEMMA GrantBounded ==
    ASSUME TypeOK', LeasesRecorded', CapacityBound', ~Locked'
    PROVE  Lease!Bounded'
<1> SUFFICES ASSUME phase' = "open"
             PROVE  Cardinality(available' \cup (inUse \ HeldConns)' \cup HeldConns') <= MaxConn
    BY SameCardinality DEF Lease!Bounded, Lease!Leased, HeldConns
<1>1. HeldConns' \subseteq inUse'
    BY DEF HeldConns, LeasesRecorded, Holders, Locked
<1>2. available' \cup (inUse \ HeldConns)' \cup HeldConns' = available' \cup inUse'
    BY <1>1
<1>3. IsFiniteSet(available') /\ IsFiniteSet(inUse') /\ IsFiniteSet(slots')
    BY PoolAssumption, FS_Subset DEF TypeOK
<1>4. Cardinality(available' \cup inUse') <= Cardinality(available') + Cardinality(inUse')
    <2>1. /\ IsFiniteSet(available' \cap inUse')
          /\ Cardinality(available' \cup inUse')
               = Cardinality(available') + Cardinality(inUse')
                 - Cardinality(available' \cap inUse')
        BY <1>3, FS_Union, FS_Intersection
    <2>2. Cardinality(available' \cap inUse') \in Nat
        BY <2>1, FS_CardinalityType
    <2>3. Cardinality(available') \in Nat /\ Cardinality(inUse') \in Nat
        BY <1>3, FS_CardinalityType
    <2> QED
        BY <2>1, <2>2, <2>3
<1>5. Cardinality(available') + (Cardinality(inUse') + Cardinality(slots') + orphans')
        <= MaxConn
    BY DEF CapacityBound, Entries, Size
<1>6. /\ Cardinality(slots') \in Nat /\ orphans' \in Nat
      /\ Cardinality(available') \in Nat /\ Cardinality(inUse') \in Nat
    BY <1>3, FS_CardinalityType DEF TypeOK
<1>7. MaxConn \in Nat /\ Cardinality(available' \cup inUse') \in Nat
    <2>1. IsFiniteSet(available' \cup inUse')
        BY <1>3, FS_Union
    <2> QED
        BY <2>1, FS_CardinalityType, SizerAssumption
<1>8. Cardinality(available' \cup inUse') <= MaxConn
    BY <1>4, <1>5, <1>6, <1>7
<1> QED
    BY <1>2, <1>8

LEMMA LeaseStutter ==
    ASSUME UNCHANGED <<held, available, inUse, phase>>
    PROVE  UNCHANGED Lease!leaseVars
BY DEF Lease!leaseVars, HeldConns

LEMMA HeldAfterGrant ==
    ASSUME TypeOK, NEW t \in Tasks, held[t] = NoConn,
           NEW c \in Conns, held' = [held EXCEPT ![t] = c]
    PROVE  HeldConns' = HeldConns \cup {c}
<1> USE PoolAssumption DEF TypeOK, HeldConns
<1>1. \A s \in Tasks : held'[s] = IF s = t THEN c ELSE held[s]
    OBVIOUS
<1>2. HeldConns' \subseteq HeldConns \cup {c}
    BY <1>1
<1>3. HeldConns \cup {c} \subseteq HeldConns'
    BY <1>1
<1> QED
    BY <1>2, <1>3

LEMMA HeldAfterRelease ==
    ASSUME TypeOK, ExclusiveLease, NEW t \in Tasks, held[t] # NoConn,
           held' = [held EXCEPT ![t] = NoConn]
    PROVE  HeldConns' = HeldConns \ {held[t]}
<1> USE PoolAssumption DEF TypeOK, HeldConns, ExclusiveLease
<1>1. \A s \in Tasks : held'[s] = IF s = t THEN NoConn ELSE held[s]
    OBVIOUS
<1>2. HeldConns' \subseteq HeldConns \ {held[t]}
    BY <1>1
<1>3. HeldConns \ {held[t]} \subseteq HeldConns'
    BY <1>1
<1> QED
    BY <1>2, <1>3

LEMMA GrantStep ==
    ASSUME PoolInv, PoolInv', NEW t \in Tasks, AcquireIdle(t) \/ Checkin(t)
    PROVE  Lease!Grant(t)
<1> USE PoolAssumption
<1>1. held[t] = NoConn
    BY DEF AcquireIdle, Checkin, Calling, PoolInv, LeasesRecorded, Holders
<1>2. PICK c \in Conns : /\ c \notin inUse /\ c \notin HeldConns
                         /\ available' = available \ {c}
                         /\ inUse' = inUse \cup {c}
                         /\ held' = [held EXCEPT ![t] = c]
    <2>1. CASE AcquireIdle(t)
        <3>1. PICK c \in available : /\ available' = available \ {c}
                                     /\ inUse' = inUse \cup {c}
                                     /\ held' = [held EXCEPT ![t] = c]
            BY <2>1 DEF AcquireIdle
        <3>2. c \in Conns /\ c \notin inUse /\ c \notin HeldConns
            BY DEF PoolInv, TypeOK, ExclusiveLease, HeldConns
        <3> QED
            BY <3>1, <3>2
    <2>2. CASE Checkin(t)
        BY <2>2, ZenonT(60) DEF Checkin
    <2> QED
        BY <2>1, <2>2
<1>3. HeldConns' = HeldConns \cup {c}
    BY <1>1, <1>2, HeldAfterGrant DEF PoolInv
<1>4. (inUse \ HeldConns)' = inUse \ HeldConns
    BY <1>2, <1>3
<1>5. ~Locked' /\ phase' = phase
    BY DEF AcquireIdle, Checkin, Locked, Goto, PoolInv, TypeOK
<1>6. Lease!Bounded'
    BY <1>5, GrantBounded DEF PoolInv
<1>7. c \in Conns \ (Lease!Leased \cup (inUse \ HeldConns))
    BY <1>2, LeasedIsHeld
<1> QED
    BY <1>1, <1>2, <1>4, <1>5, <1>6, <1>7 DEF Lease!Grant

(* Every way a task parts with its connection. *)
LEMMA GiveBackStep ==
    ASSUME PoolInv, NEW t \in Tasks, held[t] # NoConn,
           ReleaseUnknown(t) \/ Return(t) \/ FinishDiscard(t) \/ CancelElsewhere(t)
    PROVE  Lease!GiveBack(t)
<1>1. held' = [held EXCEPT ![t] = NoConn] /\ phase' = phase
    BY DEF ReleaseUnknown, Return, FinishDiscard, CancelElsewhere
<1>2. HeldConns' = HeldConns \ {held[t]} /\ held[t] \in HeldConns
    BY <1>1, HeldAfterRelease DEF PoolInv, HeldConns
<1>3. CASE Return(t)
    <2>1. (inUse \ HeldConns)' = inUse \ HeldConns
        BY <1>2, <1>3 DEF Return
    <2>2. available' = available \cup {held[t]}
        BY <1>3 DEF Return
    <2> QED
        BY <1>1, <2>1, <2>2 DEF Lease!GiveBack
<1>4. CASE ReleaseUnknown(t) \/ FinishDiscard(t) \/ CancelElsewhere(t)
    <2>1. available' = available /\ inUse' = inUse
        BY <1>4 DEF ReleaseUnknown, FinishDiscard, CancelElsewhere
    <2>2. (inUse \ HeldConns)' \in {inUse \ HeldConns, (inUse \ HeldConns) \cup {held[t]}}
        <3>1. CASE held[t] \in inUse
            BY <1>2, <2>1, <3>1
        <3>2. CASE held[t] \notin inUse
            BY <1>2, <2>1, <3>2
        <3> QED
            BY <3>1, <3>2
    <2> QED
        BY <1>1, <2>1, <2>2 DEF Lease!GiveBack
<1> QED
    BY <1>3, <1>4

LEMMA RefinementStep ==
    ASSUME PoolInv, PoolInv', [Next]_vars
    PROVE  [Lease!LeaseNext]_(Lease!leaseVars)
<1>1. ASSUME NEW t \in Tasks, Acquire(t) PROVE [Lease!LeaseNext]_(Lease!leaseVars)
    <2>1. CASE AcquireIdle(t) \/ Checkin(t)
        BY <2>1, GrantStep DEF Lease!LeaseNext
    <2>2. CASE ~(AcquireIdle(t) \/ Checkin(t))
        <3>1. UNCHANGED <<held, available, inUse, phase>>
            BY <1>1, <2>2 DEF Acquire, AcquirePark, AcquireReserve, AcquireEnqueue,
                GiveUpParked, LeaveQueue, FinishCreate, UnreserveParked, Unreserve, Park
        <3> QED
            BY <3>1, LeaseStutter
    <2> QED
        BY <2>1, <2>2
<1>2. ASSUME NEW t \in Tasks, Release(t) PROVE [Lease!LeaseNext]_(Lease!leaseVars)
    <2>1. CASE ReleaseUnknown(t) \/ Return(t) \/ FinishDiscard(t)
        <3>1. held[t] # NoConn
            BY <2>1 DEF ReleaseUnknown, Return, FinishDiscard, PoolInv, LeasesRecorded, Holders
        <3> QED
            BY <2>1, <3>1, GiveBackStep DEF Lease!LeaseNext
    <2>2. CASE Discard(t)
        <3>1. /\ inUse' = inUse \ {held[t]} /\ held[t] \in inUse
              /\ UNCHANGED <<held, available, phase>>
            BY <2>2 DEF Discard
        <3>2. held[t] \in HeldConns
            BY <3>1, PoolAssumption DEF HeldConns, PoolInv, TypeOK
        <3>3. HeldConns' = HeldConns
            BY <3>1 DEF HeldConns
        <3>4. (inUse \ HeldConns)' = inUse \ HeldConns
            BY <3>1, <3>2, <3>3
        <3> QED
            BY <3>1, <3>4 DEF Lease!leaseVars
    <2>3. CASE ReleasePark(t)
        BY <2>3, LeaseStutter DEF ReleasePark, Park
    <2> QED
        BY <1>2, <2>1, <2>2, <2>3 DEF Release
<1>3. ASSUME NEW t \in Tasks, TimeOut(t) \/ CreateFails(t)
      PROVE  [Lease!LeaseNext]_(Lease!leaseVars)
    BY <1>3, LeaseStutter DEF TimeOut, CreateFails, LeaveQueue, Unreserve, Park
<1>4. ASSUME NEW t \in Tasks, Cancel(t) PROVE [Lease!LeaseNext]_(Lease!leaseVars)
    <2>1. CASE CancelElsewhere(t) /\ held[t] # NoConn
        BY <2>1, GiveBackStep DEF Lease!LeaseNext
    <2>2. CASE CancelElsewhere(t) /\ held[t] = NoConn
        <3>1. held' = held
            BY <2>2 DEF CancelElsewhere, PoolInv, TypeOK
        <3> QED
            BY <2>2, <3>1, LeaseStutter DEF CancelElsewhere
    <2>3. CASE ~CancelElsewhere(t)
        <3>1. UNCHANGED <<held, available, inUse, phase>>
            BY <1>4, <2>3 DEF Cancel, CancelWaiting, CancelTwice, CancelCreating,
                CancelReserved, LeaveQueue, Unreserve, Park
        <3> QED
            BY <3>1, LeaseStutter
    <2> QED
        BY <2>1, <2>2, <2>3
<1>5. CASE Metrics \/ WarmupBump \/ UNCHANGED vars
    BY <1>5, LeaseStutter DEF Metrics, WarmupBump, vars
<1>6. CASE CloseAll
    BY <1>6 DEF CloseAll, Lease!LeaseNext, Lease!Shutdown
<1>7. CASE Detach
    <2>1. /\ (phase = "open") = (phase = "open")'
          /\ UNCHANGED <<held, available, inUse>>
        BY <1>7 DEF Detach
    <2> QED
        BY <2>1 DEF Lease!leaseVars, HeldConns
<1> QED
    BY <1>1, <1>2, <1>3, <1>4, <1>5, <1>6, <1>7 DEF Next

LEMMA RefinementInit == Init => Lease!LeaseInit
BY PoolAssumption DEF Init, Lease!LeaseInit, HeldConns

(* The pool keeps the promise of ConnectionLease. *)
THEOREM PoolImplementsLease == Spec => ImplementsLease
<1>1. Spec => []PoolInv
    BY PoolInvInductive, PTL DEF Spec
<1>2. Spec /\ []PoolInv => Lease!LeaseSpec
    BY RefinementInit, RefinementStep, PTL DEF Spec, Lease!LeaseSpec
<1> QED
    BY <1>1, <1>2, PTL DEF ImplementsLease

-----------------------------------------------------------------------------
(* The queue: who is in it *)

(* Without() takes one entry out, and that is all of them for a task that  *)
(* has one.                                                                *)
LEMMA WithoutEntries ==
    ASSUME NEW S, NEW s \in Seq(S), NEW x, NEW r, r = Without(s, x)
    PROVE  \/ r = s /\ \A i \in 1 .. Len(s) : s[i] # x
           \/ \E i \in 1 .. Len(s) :
                 /\ s[i] = x /\ Len(r) = Len(s) - 1
                 /\ \A j \in 1 .. Len(s) - 1 : r[j] = IF j < i THEN s[j] ELSE s[j + 1]
<1>1. CASE \E i \in 1 .. Len(s) : s[i] = x
    <2> DEFINE i == CHOOSE i \in 1 .. Len(s) : s[i] = x
               head == SubSeq(s, 1, i - 1)
               tail == SubSeq(s, i + 1, Len(s))
    <2>1. i \in 1 .. Len(s) /\ s[i] = x
        BY <1>1
    <2>2. Len(s) \in Nat /\ \A j \in 1 .. Len(s) : s[j] \in S
        OBVIOUS
    <2>3. r = head \o tail
        BY <1>1 DEF Without
    <2> HIDE DEF i
    <2>4. /\ head \in Seq(S) /\ Len(head) = i - 1
          /\ \A j \in 1 .. i - 1 : head[j] = s[j]
        <3>1. \A j \in 1 .. i - 1 : s[j] \in S
            BY <2>1, <2>2
        <3>2. /\ SubSeq(s, 1, i - 1) \in Seq(S)
              /\ Len(SubSeq(s, 1, i - 1)) = IF 1 <= i - 1 THEN (i - 1) - 1 + 1 ELSE 0
              /\ \A j \in 1 .. (i - 1) - 1 + 1 : SubSeq(s, 1, i - 1)[j] = s[1 + j - 1]
            BY <2>1, <2>2, <3>1, SubSeqProperties
        <3> QED
            BY <2>1, <2>2, <3>2
    <2>5. /\ tail \in Seq(S) /\ Len(tail) = Len(s) - i
          /\ \A j \in 1 .. Len(s) - i : tail[j] = s[i + j]
        <3>1. \A j \in i + 1 .. Len(s) : s[j] \in S
            BY <2>1, <2>2
        <3>2. /\ SubSeq(s, i + 1, Len(s)) \in Seq(S)
              /\ Len(SubSeq(s, i + 1, Len(s)))
                     = IF i + 1 <= Len(s) THEN Len(s) - (i + 1) + 1 ELSE 0
              /\ \A j \in 1 .. Len(s) - (i + 1) + 1 :
                     SubSeq(s, i + 1, Len(s))[j] = s[(i + 1) + j - 1]
            BY <2>1, <2>2, <3>1, SubSeqProperties
        <3> QED
            BY <2>1, <2>2, <3>2
    <2> HIDE DEF head, tail
    <2>6. /\ Len(r) = Len(head) + Len(tail)
          /\ \A j \in 1 .. Len(head) + Len(tail) :
                 r[j] = IF j <= Len(head) THEN head[j] ELSE tail[j - Len(head)]
        <3>1. head \in Seq(S) /\ tail \in Seq(S)
            BY <2>4, <2>5
        <3> QED
            BY <2>3, <3>1, ConcatProperties
    <2>7. Len(r) = Len(s) - 1
        BY <2>1, <2>2, <2>4, <2>5, <2>6
    <2>8. ASSUME NEW j \in 1 .. Len(s) - 1
          PROVE  r[j] = IF j < i THEN s[j] ELSE s[j + 1]
        <3>1. r[j] = IF j <= i - 1 THEN head[j] ELSE tail[j - (i - 1)]
            BY <2>1, <2>2, <2>4, <2>5, <2>6
        <3>2. CASE j < i
            BY <2>1, <2>2, <2>4, <3>1, <3>2
        <3>3. CASE ~(j < i)
            <4>1. j - (i - 1) \in 1 .. Len(s) - i /\ i + (j - (i - 1)) = j + 1
                BY <2>1, <2>2, <3>3
            <4>2. r[j] = tail[j - (i - 1)]
                BY <2>1, <2>2, <3>1, <3>3
            <4> QED
                BY <2>5, <3>3, <4>1, <4>2
        <3> QED
            BY <3>2, <3>3
    <2> QED
        BY <2>1, <2>7, <2>8
<1>2. CASE ~ \E i \in 1 .. Len(s) : s[i] = x
    BY <1>2 DEF Without
<1> QED
    BY <1>1, <1>2

InWait == {"waiting", "timing_out", "cancelling"}

LEMMA QueueSame ==
    ASSUME WaitersAreInAcquire, waiters' = waiters,
           \A t \in Tasks : pc[t] \in InWait => pc'[t] \in InWait, TypeOK
    PROVE  WaitersAreInAcquire'
<1>1. \A i \in 1 .. Len(waiters) : waiters[i] \in Tasks \cup {Dead}
    BY DEF TypeOK
<1> QED
    BY <1>1 DEF WaitersAreInAcquire, InWait

LEMMA QueueLeft ==
    ASSUME TypeOK, WaitersAreInAcquire, NEW t \in Tasks, LeaveQueue(t)
    PROVE  WaitersAreInAcquire' /\ \A i \in 1 .. Len(waiters') : waiters'[i] # t
<1>1. /\ waiters \in Seq(Tasks \cup {Dead}) /\ Len(waiters) \in Nat
      /\ waiters' = Without(waiters, t) /\ pc' = [pc EXCEPT ![t] = "out"]
      /\ \A i \in 1 .. Len(waiters) : waiters[i] \in Tasks \cup {Dead}
    BY DEF TypeOK, LeaveQueue, Goto
<1>2. \A q \in Tasks \ {t} : pc'[q] = pc[q]
    BY <1>1 DEF TypeOK
<1>3. CASE waiters' = waiters /\ \A i \in 1 .. Len(waiters) : waiters[i] # t
    BY <1>1, <1>2, <1>3, PoolAssumption DEF WaitersAreInAcquire
<1>4. CASE \E i \in 1 .. Len(waiters) :
              /\ waiters[i] = t /\ Len(waiters') = Len(waiters) - 1
              /\ \A j \in 1 .. Len(waiters) - 1 :
                    waiters'[j] = IF j < i THEN waiters[j] ELSE waiters[j + 1]
    <2>1. PICK i \in 1 .. Len(waiters) :
              /\ waiters[i] = t /\ Len(waiters') = Len(waiters) - 1
              /\ \A j \in 1 .. Len(waiters) - 1 :
                    waiters'[j] = IF j < i THEN waiters[j] ELSE waiters[j + 1]
        BY <1>4
    <2>2. ASSUME NEW j \in 1 .. Len(waiters')
          PROVE  \E k \in 1 .. Len(waiters) :
                    waiters'[j] = waiters[k] /\ k # i /\ k = IF j < i THEN j ELSE j + 1
        BY <1>1, <2>1
    <2>3. \A j \in 1 .. Len(waiters) : waiters[j] = t => j = i
        BY <1>1, <2>1, PoolAssumption DEF WaitersAreInAcquire
    <2>4. ASSUME NEW j \in 1 .. Len(waiters'), waiters'[j] # Dead
          PROVE  /\ waiters'[j] # t /\ pc'[waiters'[j]] \in InWait
                 /\ \A m \in 1 .. Len(waiters') : waiters'[j] = waiters'[m] => j = m
        <3>1. PICK k \in 1 .. Len(waiters) :
                 waiters'[j] = waiters[k] /\ k # i /\ k = IF j < i THEN j ELSE j + 1
            BY <2>2
        <3>2. waiters[k] # t /\ waiters[k] \in Tasks /\ pc[waiters[k]] \in InWait
            BY <1>1, <2>3, <2>4, <3>1 DEF WaitersAreInAcquire, InWait
        <3>3. ASSUME NEW m \in 1 .. Len(waiters'), waiters'[j] = waiters'[m] PROVE j = m
            <4>1. PICK l \in 1 .. Len(waiters) :
                     waiters'[m] = waiters[l] /\ l # i /\ l = IF m < i THEN m ELSE m + 1
                BY <2>2
            <4>2. k = l
                BY <2>4, <3>1, <3>3, <4>1 DEF WaitersAreInAcquire
            <4> QED
                BY <1>1, <2>1, <3>1, <4>1, <4>2
        <3> QED
            BY <1>2, <3>1, <3>2, <3>3
    <2> QED
        BY <2>4, PoolAssumption DEF WaitersAreInAcquire, InWait
<1> QED
    BY <1>1, <1>3, <1>4, WithoutEntries

LEMMA QueueJoined ==
    ASSUME TypeOK, WaitersAreInAcquire, NEW t \in Tasks, AcquireEnqueue(t)
    PROVE  WaitersAreInAcquire'
<1>1. /\ waiters \in Seq(Tasks \cup {Dead}) /\ Len(waiters) \in Nat
      /\ waiters' = Append(waiters, t) /\ pc' = [pc EXCEPT ![t] = "waiting"] /\ Calling(t)
      /\ \A i \in 1 .. Len(waiters) : waiters[i] \in Tasks \cup {Dead}
    BY DEF TypeOK, AcquireEnqueue, Goto
<1>2. pc'[t] = "waiting" /\ \A q \in Tasks \ {t} : pc'[q] = pc[q]
    BY <1>1 DEF TypeOK
<1>3. \A i \in 1 .. Len(waiters) : waiters[i] # t
    BY <1>1, PoolAssumption DEF Calling, Queued, WaitersAreInAcquire
<1>4. /\ Len(waiters') = Len(waiters) + 1 /\ waiters'[Len(waiters) + 1] = t
      /\ \A i \in 1 .. Len(waiters) : waiters'[i] = waiters[i]
    BY <1>1, AppendProperties
<1>5. \A i \in 1 .. Len(waiters') : i \in 1 .. Len(waiters) \/ i = Len(waiters) + 1
    BY <1>1, <1>4
<1> QED
    BY <1>1, <1>2, <1>3, <1>4, <1>5, PoolAssumption DEF WaitersAreInAcquire

(* A release() takes the first entry. *)
LEMMA WokenEntries ==
    ASSUME NEW S, NEW s \in Seq(S), s # <<>>
    PROVE  /\ Len(Woken(s)) = Len(s) - 1 /\ 1 \in 1 .. Len(s)
           /\ \A i \in 1 .. Len(s) - 1 : Woken(s)[i] = s[i + 1]
BY HeadTailProperties, EmptySeq DEF Woken

LEMMA QueueWoken ==
    ASSUME TypeOK, WaitersAreInAcquire, NEW t \in Tasks, pc[t] \notin InWait,
           pc' = [pc EXCEPT ![t] = "out"], waiters' = Woken(waiters)
    PROVE  WaitersAreInAcquire'
<1>1. /\ waiters \in Seq(Tasks \cup {Dead}) /\ Len(waiters) \in Nat
      /\ \A i \in 1 .. Len(waiters) : waiters[i] \in Tasks \cup {Dead}
    BY DEF TypeOK
<1>2. \A q \in Tasks : pc[q] \in InWait => pc'[q] = pc[q]
    BY DEF TypeOK
<1>3. CASE waiters = <<>>
    BY <1>2, <1>3, QueueSame DEF Woken
<1>4. CASE waiters # <<>>
    <2>1. Len(waiters') = Len(waiters) - 1
          /\ \A i \in 1 .. Len(waiters) - 1 : waiters'[i] = waiters[i + 1]
        BY <1>1, <1>4, WokenEntries
    <2>2. \A i \in 1 .. Len(waiters') : i + 1 \in 1 .. Len(waiters) /\ waiters'[i] = waiters[i + 1]
        BY <1>1, <2>1
    <2>3. ASSUME NEW i \in 1 .. Len(waiters'), waiters'[i] # Dead
          PROVE  /\ pc'[waiters'[i]] \in InWait
                 /\ \A j \in 1 .. Len(waiters') : waiters'[i] = waiters'[j] => i = j
        <3>1. /\ pc[waiters[i + 1]] \in InWait /\ waiters[i + 1] \in Tasks
              /\ \A j \in 1 .. Len(waiters) : waiters[i + 1] = waiters[j] => i + 1 = j
            BY <1>1, <2>2, <2>3 DEF WaitersAreInAcquire, InWait
        <3>2. ASSUME NEW j \in 1 .. Len(waiters'), waiters'[i] = waiters'[j] PROVE i = j
            <4>1. i + 1 = j + 1
                BY <2>2, <3>1, <3>2
            <4> QED
                BY <1>1, <2>1, <4>1
        <3> QED
            BY <1>2, <2>2, <3>1, <3>2
    <2> QED
        BY <2>3 DEF WaitersAreInAcquire, InWait
<1> QED
    BY <1>3, <1>4

LEMMA QueueStep == TypeOK /\ WaitersAreInAcquire /\ [Next]_vars => WaitersAreInAcquire'
<1> SUFFICES ASSUME TypeOK, WaitersAreInAcquire, [Next]_vars PROVE WaitersAreInAcquire'
    OBVIOUS
<1>1. ASSUME NEW t \in Tasks, NEW there \in PCs, waiters' = waiters,
             pc' = [pc EXCEPT ![t] = there], pc[t] \notin InWait \/ there \in InWait
      PROVE  WaitersAreInAcquire'
    BY <1>1, QueueSame DEF TypeOK
<1>2. ASSUME NEW t \in Tasks, NEW from, NEW place \in PCs, Park(t, from, place),
             from \notin InWait \/ place \in InWait
      PROVE  WaitersAreInAcquire'
    BY <1>1, <1>2 DEF Park, Goto
<1>3. ASSUME NEW t \in Tasks, Acquire(t) PROVE WaitersAreInAcquire'
    <2>1. CASE AcquirePark(t) \/ AcquireIdle(t) \/ AcquireReserve(t)
        (* A task that was woken and goes on is no longer listed. *)
        <3>1. /\ waiters' = waiters /\ Calling(t)
              /\ \E there \in PCs : pc' = [pc EXCEPT ![t] = there]
            BY <2>1 DEF AcquirePark, AcquireIdle, AcquireReserve, Park, Goto, PCs
        <3>2. \A i \in 1 .. Len(waiters) : waiters[i] # t
            BY <3>1, PoolAssumption DEF Calling, Queued, WaitersAreInAcquire
        <3>3. \A i \in 1 .. Len(waiters) : waiters[i] \in Tasks \cup {Dead}
            BY DEF TypeOK
        <3> QED
            BY <3>1, <3>2, <3>3 DEF TypeOK, WaitersAreInAcquire
    <2>2. CASE AcquireEnqueue(t)
        BY <2>2, QueueJoined
    <2>3. CASE GiveUpParked(t)
        BY <2>3, QueueLeft DEF GiveUpParked
    <2>4. CASE FinishCreate(t)
        BY <1>1, <1>2, <2>4 DEF FinishCreate, Checkin, Goto, PCs, InWait
    <2>5. CASE UnreserveParked(t)
        BY <1>1, <2>5 DEF UnreserveParked, Unreserve, Goto, PCs, InWait
    <2> QED
        BY <1>3, <2>1, <2>2, <2>3, <2>4, <2>5 DEF Acquire
<1>4. ASSUME NEW t \in Tasks, Release(t) PROVE WaitersAreInAcquire'
    <2>1. CASE Return(t) \/ FinishDiscard(t)
        BY <2>1, QueueWoken DEF Return, FinishDiscard, Goto, InWait
    <2>2. CASE ReleaseUnknown(t) \/ Discard(t)
        BY <1>1, <2>2 DEF ReleaseUnknown, Discard, Goto, PCs, InWait
    <2>3. CASE ReleasePark(t)
        BY <1>2, <2>3 DEF ReleasePark, PCs, InWait
    <2> QED
        BY <1>4, <2>1, <2>2, <2>3 DEF Release
<1>5. ASSUME NEW t \in Tasks, TimeOut(t) PROVE WaitersAreInAcquire'
    BY <1>2, <1>5, QueueLeft DEF TimeOut, PCs, InWait
<1>6. ASSUME NEW t \in Tasks, CreateFails(t) PROVE WaitersAreInAcquire'
    BY <1>1, <1>2, <1>6 DEF CreateFails, Unreserve, Goto, PCs, InWait
<1>7. ASSUME NEW t \in Tasks, Cancel(t) PROVE WaitersAreInAcquire'
    <2>1. CASE CancelWaiting(t)
        BY <1>2, <2>1, QueueLeft DEF CancelWaiting, PCs, InWait
    <2>2. CASE CancelTwice(t)
        <3>1. /\ pc' = [pc EXCEPT ![t] = "out"] /\ Len(waiters) \in Nat
              /\ waiters' = [i \in 1 .. Len(waiters) |-> IF waiters[i] = t THEN Dead ELSE waiters[i]]
              /\ \A i \in 1 .. Len(waiters) : waiters[i] \in Tasks \cup {Dead}
            BY <2>2 DEF CancelTwice, Goto, TypeOK
        <3>2. Len(waiters') = Len(waiters)
            BY <3>1
        <3>3. \A i \in 1 .. Len(waiters) : waiters'[i] # Dead => waiters[i] # t /\ waiters'[i] = waiters[i]
            BY <3>1
        <3> QED
            BY <3>1, <3>2, <3>3 DEF TypeOK, WaitersAreInAcquire
    <2>3. CASE CancelCreating(t) \/ CancelReserved(t) \/ CancelElsewhere(t)
        BY <1>1, <1>2, <2>3
        DEF CancelCreating, CancelReserved, CancelElsewhere, Unreserve, Goto, PCs, InWait
    <2> QED
        BY <1>7, <2>1, <2>2, <2>3 DEF Cancel
<1>8. CASE Metrics \/ WarmupBump \/ CloseAll \/ Detach \/ UNCHANGED vars
    BY <1>8, QueueSame DEF Metrics, WarmupBump, CloseAll, Detach, vars
<1> QED
    BY <1>3, <1>4, <1>5, <1>6, <1>7, <1>8 DEF Next

(* Whatever times out, fails or is cancelled, an entry of the queue is a   *)
(* task inside acquire(), once, or the event of a task that was cancelled  *)
(* a second time (async_pool.py:26-29).                                    *)
THEOREM QueueIsLive == Spec => []WaitersAreInAcquire
<1>1. Init => WaitersAreInAcquire
    BY DEF Init, WaitersAreInAcquire
<1> QED
    BY <1>1, TypeInit, TypeStep, QueueStep, PTL DEF Spec

-----------------------------------------------------------------------------
(* The queue: nobody in it is forgotten *)

(* Where only broken connections disturb, nobody times out or is           *)
(* cancelled, no creation fails and the pool stays open.                   *)
Calm ==
    /\ phase = "open"
    /\ \A t \in Tasks : pc[t] \notin {"timing_out", "cancelling", "unreserving"}
    /\ \A i \in 1 .. Len(waiters) : waiters[i] # Dead

(* Every connection that could be granted has its taker under way as long  *)
(* as somebody is queued: a wakeup is owed for each, not only for as many  *)
(* as are queued now.                                                      *)
Owed == waiters # <<>> => Grantable <= Cardinality(OnTheirWay)

QueueInv == PoolInv /\ WaitersAreInAcquire /\ Calm /\ Owed

LEMMA CalmStep ==
    ASSUME TypeOK, Calm, Faults \subseteq {"broken"}, [Next]_vars
    PROVE  Calm' /\ sizer' = sizer
<1>1. /\ "timeout" \notin Faults /\ "cancel" \notin Faults /\ "fail" \notin Faults
      /\ "resize" \notin Faults /\ "close" \notin Faults /\ phase = "open"
    BY DEF Calm
<1>2. /\ waiters \in Seq(Tasks \cup {Dead}) /\ Len(waiters) \in Nat
      /\ \A i \in 1 .. Len(waiters) : waiters[i] # Dead
    BY DEF TypeOK, Calm
<1>3. \A s : s = Woken(waiters) => \A i \in 1 .. Len(s) : s[i] # Dead
    <2>1. CASE waiters = <<>>
        BY <1>2, <2>1 DEF Woken
    <2>2. CASE waiters # <<>>
        BY <1>2, <2>2, WokenEntries
    <2> QED
        BY <2>1, <2>2
<1>4. ASSUME NEW t \in Tasks, NEW there, pc' = [pc EXCEPT ![t] = there],
             there \notin {"timing_out", "cancelling", "unreserving"}
      PROVE  \A q \in Tasks : pc'[q] \notin {"timing_out", "cancelling", "unreserving"}
    BY <1>4 DEF TypeOK, Calm
<1>5. ASSUME NEW t \in Tasks, Acquire(t) PROVE Calm' /\ sizer' = sizer
    <2>1. CASE AcquirePark(t) \/ AcquireIdle(t) \/ AcquireReserve(t) \/ FinishCreate(t)
        BY <1>1, <1>2, <1>4, <2>1
        DEF AcquirePark, AcquireIdle, AcquireReserve, FinishCreate, Checkin, Park, Goto, Calm
    <2>2. CASE AcquireEnqueue(t)
        <3>1. /\ waiters' = Append(waiters, t) /\ pc' = [pc EXCEPT ![t] = "waiting"]
              /\ phase' = phase /\ sizer' = sizer
            BY <2>2 DEF AcquireEnqueue, Goto
        <3>2. /\ Len(waiters') = Len(waiters) + 1 /\ waiters'[Len(waiters) + 1] = t
              /\ \A i \in 1 .. Len(waiters) : waiters'[i] = waiters[i]
            BY <1>2, <3>1, AppendProperties
        <3>3. \A i \in 1 .. Len(waiters') : i \in 1 .. Len(waiters) \/ i = Len(waiters) + 1
            BY <1>2, <3>2
        <3>4. \A i \in 1 .. Len(waiters') : waiters'[i] # Dead
            BY <1>2, <3>2, <3>3, PoolAssumption
        <3> QED
            BY <1>1, <1>4, <3>1, <3>4 DEF Calm
    <2>3. CASE GiveUpParked(t) \/ UnreserveParked(t)
        BY <2>3 DEF GiveUpParked, UnreserveParked, Calm
    <2> QED
        BY <1>5, <2>1, <2>2, <2>3 DEF Acquire
<1>6. ASSUME NEW t \in Tasks, Release(t) PROVE Calm' /\ sizer' = sizer
    BY <1>1, <1>2, <1>3, <1>4, <1>6
    DEF Release, ReleaseUnknown, Return, Discard, ReleasePark, FinishDiscard, Park, Goto, Calm
<1>7. ~ \E t \in Tasks : TimeOut(t) \/ CreateFails(t) \/ Cancel(t)
    BY <1>1 DEF TimeOut, CreateFails, Cancel
<1>8. ~Metrics /\ ~WarmupBump /\ ~CloseAll /\ ~Detach
    BY <1>1 DEF Metrics, WarmupBump, CloseAll, Detach
<1>9. CASE UNCHANGED vars
    BY <1>9 DEF vars, Calm
<1> QED
    BY <1>5, <1>6, <1>7, <1>8, <1>9 DEF Next

(* How what can be granted changes with the connections. *)
LEMMA GrantableChange ==
    ASSUME NEW a \in Nat, NEW s \in Nat, NEW b \in Nat, NEW r \in Nat, NEW current \in Nat,
           NEW g, g = (IF (IF s < current THEN current - s ELSE 0) > a
                       THEN (IF s < current THEN current - s ELSE 0) ELSE a),
           NEW h, h = (IF (IF r < current THEN current - r ELSE 0) > b
                       THEN (IF r < current THEN current - r ELSE 0) ELSE b)
    PROVE  /\ g \in Nat /\ h \in Nat
           /\ r = s /\ b = a => h = g
           /\ r >= s - 1 /\ b <= a + 1 => h <= g + 1
           /\ r >= s + 1 /\ g > 0 /\ (b = 0 \/ b <= a - 1) => h <= g - 1
           /\ a > 0 \/ s < current => g > 0
           /\ a = 0 /\ s >= current => g = 0
OBVIOUS

LEMMA SizeType == TypeOK => Size \in Nat /\ Cardinality(available) \in Nat /\ sizer.current \in Nat
<1> SUFFICES ASSUME TypeOK PROVE Size \in Nat /\ Cardinality(available) \in Nat /\ sizer.current \in Nat
    OBVIOUS
<1>1. Cardinality(available) \in Nat /\ Cardinality(inUse) \in Nat /\ Cardinality(slots) \in Nat
    BY FiniteParts, FS_CardinalityType
<1> QED
    BY <1>1, SizerAssumption DEF TypeOK, Size, Sizers

LEMMA GrantableStep ==
    ASSUME TypeOK, TypeOK', sizer' = sizer
    PROVE  /\ Grantable \in Nat /\ Grantable' \in Nat
           /\ Size' = Size /\ Cardinality(available') = Cardinality(available) => Grantable' = Grantable
           /\ Size' >= Size - 1 /\ Cardinality(available') <= Cardinality(available) + 1 =>
                 Grantable' <= Grantable + 1
           /\ /\ Size' >= Size + 1 /\ Grantable > 0
              /\ Cardinality(available') = 0 \/ Cardinality(available') <= Cardinality(available) - 1
              => Grantable' <= Grantable - 1
           /\ Cardinality(available) > 0 \/ Size < sizer.current => Grantable > 0
           /\ Cardinality(available) = 0 /\ Size >= sizer.current => Grantable = 0
<1> DEFINE a == Cardinality(available)
           b == Cardinality(available')
           s == Size
           r == Size'
           current == sizer.current
<1>1. a \in Nat /\ b \in Nat /\ s \in Nat /\ r \in Nat /\ current \in Nat
    <2>1. b \in Nat /\ Cardinality(inUse') \in Nat /\ Cardinality(slots') \in Nat
        BY PoolAssumption, FS_Subset, FS_CardinalityType DEF TypeOK
    <2>2. r \in Nat
        BY <2>1 DEF TypeOK, Size
    <2> QED
        BY <2>1, <2>2, SizeType
<1>2. Grantable = (IF (IF s < current THEN current - s ELSE 0) > a
                   THEN (IF s < current THEN current - s ELSE 0) ELSE a)
    BY DEF Grantable
<1>3. Grantable' = (IF (IF r < current THEN current - r ELSE 0) > b
                    THEN (IF r < current THEN current - r ELSE 0) ELSE b)
    BY DEF Grantable
<1> HIDE DEF a, b, s, r, current
<1>4. /\ Grantable \in Nat /\ Grantable' \in Nat
      /\ r = s /\ b = a => Grantable' = Grantable
      /\ r >= s - 1 /\ b <= a + 1 => Grantable' <= Grantable + 1
      /\ r >= s + 1 /\ Grantable > 0 /\ (b = 0 \/ b <= a - 1) => Grantable' <= Grantable - 1
      /\ a > 0 \/ s < current => Grantable > 0
      /\ a = 0 /\ s >= current => Grantable = 0
    BY <1>1, <1>2, <1>3, GrantableChange
<1> QED
    BY <1>4 DEF a, b, s, r, current

(* How the tasks on their way change with one that leaves or joins. *)
LEMMA OnTheirWayChange ==
    ASSUME NEW P, NEW Q, IsFiniteSet(P), IsFiniteSet(Q), NEW t, P \ {t} \subseteq Q
    PROVE  /\ Cardinality(P) \in Nat /\ Cardinality(Q) \in Nat
           /\ Cardinality(P) <= Cardinality(Q) + 1
           /\ t \notin P => Cardinality(P) <= Cardinality(Q)
           /\ t \in Q => Cardinality(P) <= Cardinality(Q)
           /\ \A x \in Q \ P : Cardinality(P) <= Cardinality(Q)
           /\ \A x \in Q \ P : t \notin P => Cardinality(P) + 1 <= Cardinality(Q)
<1>1. /\ IsFiniteSet(P \ {t}) /\ Cardinality(P) \in Nat /\ Cardinality(Q) \in Nat
      /\ Cardinality(P \ {t}) \in Nat
      /\ Cardinality(P \ {t}) = IF t \in P THEN Cardinality(P) - 1 ELSE Cardinality(P)
      /\ Cardinality(P \ {t}) <= Cardinality(Q)
    BY FS_RemoveElement, FS_Subset, FS_CardinalityType
<1>2. ASSUME NEW x \in Q \ P PROVE Cardinality(P \ {t}) + 1 <= Cardinality(Q)
    <2>1. Cardinality((P \ {t}) \cup {x}) = Cardinality(P \ {t}) + 1
        BY <1>1, FS_AddElement
    <2>2. Cardinality((P \ {t}) \cup {x}) <= Cardinality(Q)
        BY FS_Subset
    <2> QED
        BY <2>1, <2>2
<1>3. t \in Q => Cardinality(P) <= Cardinality(Q)
    BY <1>1, FS_Subset
<1> QED
    BY <1>1, <1>2, <1>3

LEMMA OnTheirWayFinite == IsFiniteSet(OnTheirWay) /\ IsFiniteSet(OnTheirWay')
BY PoolAssumption, FS_Subset DEF OnTheirWay

(* Who is on his way after p has moved, where the queue is as it was. *)
LEMMA OthersOnTheirWay ==
    ASSUME TypeOK, NEW t \in Tasks, NEW there, pc' = [pc EXCEPT ![t] = there],
           \A q \in Tasks \ {t} : Queued(q)' => Queued(q)
    PROVE  OnTheirWay \ {t} \subseteq OnTheirWay'
BY DEF TypeOK, OnTheirWay

(* The first of the queue is on his way once he is woken. *)
LEMMA FirstIsWoken ==
    ASSUME TypeOK, WaitersAreInAcquire, Calm, NEW t \in Tasks, pc[t] \notin InWait,
           pc' = [pc EXCEPT ![t] = "out"], waiters' = Woken(waiters)
    PROVE  /\ \A q \in Tasks : Queued(q)' => Queued(q)
           /\ waiters # <<>> => \E x \in Tasks : x \in OnTheirWay' \ OnTheirWay
<1>1. /\ waiters \in Seq(Tasks \cup {Dead}) /\ Len(waiters) \in Nat
      /\ \A i \in 1 .. Len(waiters) : waiters[i] \in Tasks
    BY DEF TypeOK, Calm
<1>2. CASE waiters = <<>>
    BY <1>2 DEF Woken, Queued
<1>3. CASE waiters # <<>>
    <2>1. /\ Len(waiters') = Len(waiters) - 1 /\ 1 \in 1 .. Len(waiters)
          /\ \A i \in 1 .. Len(waiters) - 1 : waiters'[i] = waiters[i + 1]
        BY <1>1, <1>3, WokenEntries
    <2>2. \A i \in 1 .. Len(waiters') : i + 1 \in 1 .. Len(waiters) /\ i + 1 # 1 /\ waiters'[i] = waiters[i + 1]
        BY <1>1, <2>1
    <2>3. \A q \in Tasks : Queued(q)' => Queued(q)
        BY <2>2 DEF Queued
    <2>8. PICK x \in Tasks : x = waiters[1]
        BY <1>1, <2>1
    <2>4. /\ x \in Tasks /\ pc[x] = "waiting" /\ Queued(x)
          /\ \A j \in 1 .. Len(waiters) : x = waiters[j] => 1 = j
        BY <1>1, <2>1, <2>8 DEF Calm, WaitersAreInAcquire, Queued
    <2>5. ~Queued(x)'
        BY <2>2, <2>4 DEF Queued
    <2>6. pc'[x] = "waiting"
        BY <2>4 DEF TypeOK, InWait
    <2>7. x \in OnTheirWay' /\ x \notin OnTheirWay
        BY <2>4, <2>5, <2>6 DEF OnTheirWay
    <2> QED
        BY <2>3, <2>4, <2>7
<1> QED
    BY <1>2, <1>3

LEMMA OwedStep ==
    ASSUME QueueInv, TypeOK', sizer' = sizer, Faults \subseteq {"broken"}, [Next]_vars
    PROVE  Owed'
<1>1. /\ TypeOK /\ WaitersAreInAcquire /\ Calm /\ Owed /\ PoolInv /\ phase = "open"
      /\ SlotsRecorded /\ LeasesRecorded
    BY DEF QueueInv, PoolInv, Calm
<1>2. /\ IsFiniteSet(available) /\ IsFiniteSet(inUse) /\ IsFiniteSet(slots)
      /\ Cardinality(available) \in Nat /\ Cardinality(inUse) \in Nat
      /\ Cardinality(slots) \in Nat /\ orphans \in Nat
    BY <1>1, FiniteParts, FS_CardinalityType DEF TypeOK
<1>3. /\ Grantable \in Nat /\ Grantable' \in Nat
      /\ Cardinality(OnTheirWay) \in Nat /\ Cardinality(OnTheirWay') \in Nat
    BY <1>1, GrantableStep, OnTheirWayFinite, FS_CardinalityType
(* The pool's connections are the same, and nobody on his way leaves it.   *)
<1>4. ASSUME NEW t \in Tasks, NEW there, pc' = [pc EXCEPT ![t] = there],
             UNCHANGED <<available, inUse, slots, orphans, waiters>>,
             t \in OnTheirWay => t \in OnTheirWay'
      PROVE  Owed'
    <2>1. Grantable' = Grantable
        BY <1>1, <1>4, GrantableStep DEF Size
    <2>2. OnTheirWay \subseteq OnTheirWay'
        BY <1>1, <1>4, OthersOnTheirWay DEF Queued
    <2>3. Cardinality(OnTheirWay) <= Cardinality(OnTheirWay')
        BY <2>2, OnTheirWayFinite, FS_Subset
    <2> QED
        BY <1>1, <1>3, <1>4, <2>1, <2>3 DEF Owed
(* Somebody takes a connection, or reserves one.                           *)
<1>5. ASSUME NEW t \in Tasks, NEW there, pc' = [pc EXCEPT ![t] = there], waiters' = waiters,
             Size' >= Size + 1, Grantable > 0,
             Cardinality(available') = 0 \/ Cardinality(available') <= Cardinality(available) - 1
      PROVE  Owed'
    <2>1. Grantable' <= Grantable - 1
        BY <1>1, <1>5, GrantableStep
    <2>2. OnTheirWay \ {t} \subseteq OnTheirWay'
        BY <1>1, <1>5, OthersOnTheirWay DEF Queued
    <2>3. Cardinality(OnTheirWay) <= Cardinality(OnTheirWay') + 1
        BY <2>2, OnTheirWayFinite, OnTheirWayChange
    <2> QED
        BY <1>1, <1>3, <1>5, <2>1, <2>3 DEF Owed
<1>6. ASSUME NEW t \in Tasks, Acquire(t) PROVE Owed'
    <2>1. CASE AcquirePark(t)
        <3>1. /\ pc' = [pc EXCEPT ![t] = "acquire"]
              /\ UNCHANGED <<available, inUse, slots, orphans, waiters>>
            BY <2>1 DEF AcquirePark, Park, Goto
        <3>2. t \in OnTheirWay'
            BY <1>1, <3>1 DEF OnTheirWay, TypeOK
        <3> QED
            BY <1>4, <3>1, <3>2
    <2>2. CASE AcquireIdle(t)
        <3>1. PICK c \in available : available' = available \ {c} /\ inUse' = inUse \cup {c}
            BY <2>2 DEF AcquireIdle
        <3>2. /\ UNCHANGED <<slots, orphans, waiters>> /\ pc' = [pc EXCEPT ![t] = "holding"]
            BY <2>2 DEF AcquireIdle, Goto
        <3>3. Cardinality(available') = Cardinality(available) - 1
            BY <1>2, <3>1, OneMoreOrLess
        <3>4. c \notin inUse
            BY <1>1 DEF PoolInv, ExclusiveLease
        <3>5. Cardinality(inUse') = Cardinality(inUse) + 1
            BY <1>2, <3>1, <3>4, FS_AddElement
        <3>6. Size' = Size + 1
            BY <1>2, <3>2, <3>5 DEF Size
        <3>7. Cardinality(available) > 0 /\ Size \in Nat
            BY <1>1, <1>2, <3>1, SizeType, FS_EmptySet
        <3>9. Size' >= Size + 1
            BY <3>6, <3>7
        <3>10. Cardinality(available') <= Cardinality(available) - 1
            BY <1>2, <3>3
        <3>8. Grantable > 0
            BY <1>1, <3>7, GrantableStep
        <3> QED
            BY <1>5, <3>2, <3>8, <3>9, <3>10
    <2>3. CASE AcquireReserve(t)
        <3>1. /\ available = {} /\ Size < sizer.current /\ slots' = slots \cup {t} /\ Calling(t)
              /\ UNCHANGED <<available, inUse, orphans, waiters>> /\ pc' = [pc EXCEPT ![t] = "creating"]
            BY <2>3 DEF AcquireReserve, Goto
        <3>2. t \notin slots
            BY <1>1, <3>1 DEF SlotsRecorded, Reservers, Calling
        <3>3. Cardinality(slots') = Cardinality(slots) + 1
            BY <1>2, <3>1, <3>2, FS_AddElement
        <3>4. Size' = Size + 1 /\ Size \in Nat
            BY <1>1, <1>2, <3>1, <3>3, SizeType DEF Size
        <3>5. Grantable > 0
            BY <1>1, <3>1, GrantableStep
        <3>6. Cardinality(available') = 0
            BY <3>1, FS_EmptySet
        <3>7. Size' >= Size + 1
            BY <3>4
        <3> QED
            BY <1>5, <3>1, <3>5, <3>6, <3>7
    <2>4. CASE AcquireEnqueue(t)
        <3>1. available = {} /\ Size >= sizer.current /\ UNCHANGED <<available, inUse, slots, orphans>>
            BY <2>4 DEF AcquireEnqueue
        <3>2. Cardinality(available) = 0
            BY <3>1, FS_EmptySet
        <3>3. Grantable' = 0
            BY <1>1, <3>1, <3>2, GrantableStep DEF Size
        <3> QED
            BY <1>3, <3>3 DEF Owed
    <2>5. CASE Checkin(t)
        <3>1. PICK c \in Conns \ (available \cup inUse \cup HeldConns) : inUse' = inUse \cup {c}
            BY <2>5 DEF Checkin
        <3>2. /\ slots' = slots \ {t} /\ pc' = [pc EXCEPT ![t] = "holding"]
              /\ pc[t] \in {"creating", "created"} /\ UNCHANGED <<available, orphans, waiters>>
            BY <2>5 DEF Checkin, Goto
        <3>3. t \in slots
            BY <1>1, <3>2 DEF SlotsRecorded, Reservers
        <3>4. Cardinality(slots') = Cardinality(slots) - 1
            BY <1>2, <3>2, <3>3, OneMoreOrLess
        <3>5. Cardinality(inUse') = Cardinality(inUse) + 1
            BY <1>2, <3>1, FS_AddElement
        <3>6. Size' = Size
            BY <1>2, <3>2, <3>4, <3>5 DEF Size
        <3>7. Grantable' = Grantable
            BY <1>1, <3>2, <3>6, GrantableStep
        <3>8. OnTheirWay \ {t} \subseteq OnTheirWay' /\ t \notin OnTheirWay
            BY <1>1, <3>2, OthersOnTheirWay DEF Queued, OnTheirWay
        <3>9. Cardinality(OnTheirWay) <= Cardinality(OnTheirWay')
            BY <3>8, OnTheirWayFinite, OnTheirWayChange
        <3> QED
            BY <1>1, <1>3, <3>2, <3>7, <3>9 DEF Owed
    <2>6. CASE Park(t, "creating", "created")
        BY <1>4, <2>6 DEF Park, Goto, OnTheirWay
    <2>7. ~GiveUpParked(t) /\ ~UnreserveParked(t)
        BY <1>1 DEF GiveUpParked, UnreserveParked, Calm
    <2> QED
        BY <1>6, <2>1, <2>2, <2>3, <2>4, <2>5, <2>6, <2>7 DEF Acquire, FinishCreate
<1>7. ASSUME NEW t \in Tasks, Release(t) PROVE Owed'
    <2>1. ~ReleaseUnknown(t)
        BY <1>1 DEF ReleaseUnknown, LeasesRecorded, Holders
    <2>2. CASE Return(t)
        <3>1. /\ held[t] \in inUse /\ inUse' = inUse \ {held[t]}
              /\ available' = available \cup {held[t]} /\ waiters' = Woken(waiters)
              /\ UNCHANGED <<slots, orphans>> /\ pc' = [pc EXCEPT ![t] = "out"]
              /\ pc[t] \in {"holding", "returning"}
            BY <2>2 DEF Return, Goto
        <3>2. Cardinality(inUse') = Cardinality(inUse) - 1
            BY <1>2, <3>1, OneMoreOrLess
        <3>3. Cardinality(available') <= Cardinality(available) + 1
            BY <1>2, <3>1, OneMoreOrLess
        <3>4. Size' = Size - 1 /\ Size \in Nat
            BY <1>1, <1>2, <3>1, <3>2, SizeType DEF Size
        <3>5. Grantable' <= Grantable + 1
            BY <1>1, <3>3, <3>4, GrantableStep
        <3>6. /\ \A q \in Tasks : Queued(q)' => Queued(q)
              /\ waiters # <<>> => \E x \in Tasks : x \in OnTheirWay' \ OnTheirWay
            BY <1>1, <3>1, FirstIsWoken DEF InWait
        <3>7. OnTheirWay \ {t} \subseteq OnTheirWay' /\ t \notin OnTheirWay
            BY <1>1, <3>1, <3>6, OthersOnTheirWay DEF OnTheirWay
        <3>8. waiters # <<>> => Cardinality(OnTheirWay) + 1 <= Cardinality(OnTheirWay')
            BY <3>6, <3>7, OnTheirWayFinite, OnTheirWayChange
        <3>9. waiters' # <<>> => waiters # <<>>
            BY <3>1 DEF Woken
        <3> QED
            BY <1>1, <1>3, <3>5, <3>8, <3>9 DEF Owed
    <2>3. CASE Discard(t)
        <3>1. /\ held[t] \in inUse /\ inUse' = inUse \ {held[t]}
              /\ UNCHANGED <<available, slots, orphans, waiters>> /\ pc' = [pc EXCEPT ![t] = "closing"]
              /\ pc[t] \in {"holding", "discarding"}
            BY <2>3 DEF Discard, Goto
        <3>2. Cardinality(inUse') = Cardinality(inUse) - 1
            BY <1>2, <3>1, OneMoreOrLess
        <3>3. Size' = Size - 1 /\ Size \in Nat
            BY <1>1, <1>2, <3>1, <3>2, SizeType DEF Size
        <3>4. Grantable' <= Grantable + 1
            BY <1>1, <1>2, <3>1, <3>3, GrantableStep
        <3>5. OnTheirWay \ {t} \subseteq OnTheirWay' /\ t \notin OnTheirWay /\ t \in OnTheirWay'
            BY <1>1, <3>1, OthersOnTheirWay DEF Queued, OnTheirWay, TypeOK
        <3>6. Cardinality(OnTheirWay) + 1 <= Cardinality(OnTheirWay')
            BY <3>5, OnTheirWayFinite, OnTheirWayChange
        <3> QED
            BY <1>1, <1>3, <3>1, <3>4, <3>6 DEF Owed
    <2>4. CASE ReleasePark(t)
        BY <1>4, <2>4 DEF ReleasePark, Park, Goto, OnTheirWay
    <2>5. CASE FinishDiscard(t)
        <3>1. /\ waiters' = Woken(waiters) /\ pc[t] = "closing" /\ pc' = [pc EXCEPT ![t] = "out"]
              /\ UNCHANGED <<available, inUse, slots, orphans>>
            BY <2>5 DEF FinishDiscard, Goto
        <3>2. Grantable' = Grantable
            BY <1>1, <3>1, GrantableStep DEF Size
        <3>3. /\ \A q \in Tasks : Queued(q)' => Queued(q)
              /\ waiters # <<>> => \E x \in Tasks : x \in OnTheirWay' \ OnTheirWay
            BY <1>1, <3>1, FirstIsWoken DEF InWait
        <3>4. OnTheirWay \ {t} \subseteq OnTheirWay'
            BY <1>1, <3>1, <3>3, OthersOnTheirWay
        <3>5. waiters # <<>> => Cardinality(OnTheirWay) <= Cardinality(OnTheirWay')
            BY <3>3, <3>4, OnTheirWayFinite, OnTheirWayChange
        <3>6. waiters' # <<>> => waiters # <<>>
            BY <3>1 DEF Woken
        <3> QED
            BY <1>1, <1>3, <3>2, <3>5, <3>6 DEF Owed
    <2> QED
        BY <1>7, <2>1, <2>2, <2>3, <2>4, <2>5 DEF Release
<1>8. ASSUME UNCHANGED <<pc, available, inUse, slots, orphans, waiters>> PROVE Owed'
    <2>1. Grantable' = Grantable /\ OnTheirWay' = OnTheirWay
        BY <1>1, <1>8, GrantableStep DEF Size, OnTheirWay, Queued
    <2> QED
        BY <1>1, <1>8, <2>1 DEF Owed
<1>9. ~ \E t \in Tasks : TimeOut(t) \/ CreateFails(t) \/ Cancel(t)
    BY DEF TimeOut, CreateFails, Cancel
<1>10. CASE Metrics \/ WarmupBump \/ UNCHANGED vars
    BY <1>8, <1>10 DEF Metrics, WarmupBump, vars
<1>11. ~CloseAll /\ ~Detach
    BY <1>1 DEF CloseAll, Detach
<1> QED
    BY <1>6, <1>7, <1>9, <1>10, <1>11 DEF Next

(* Where connections may break and nothing else happens to the calls       *)
(* (`Faults` of at most "broken"), nobody stays queued beside a connection *)
(* he could have: release() owes a wakeup for each one, and pays it, the   *)
(* slot of a broken one included (async_pool.py:202-209).                  *)
THEOREM PoolStrandsNobody ==
    ASSUME Faults \subseteq {"broken"}
    PROVE  Spec => []NoStrandedWaiter
<1>1. Init => QueueInv
    <2> SUFFICES ASSUME Init PROVE QueueInv
        OBVIOUS
    <2>1. PoolInv
        BY PoolInvInductive
    <2>2. WaitersAreInAcquire /\ Calm /\ Owed
        BY DEF Init, WaitersAreInAcquire, Calm, Owed
    <2> QED
        BY <2>1, <2>2 DEF QueueInv
<1>2. QueueInv /\ [Next]_vars => QueueInv'
    <2> SUFFICES ASSUME QueueInv, [Next]_vars PROVE QueueInv'
        OBVIOUS
    <2>1. PoolInv /\ TypeOK /\ WaitersAreInAcquire /\ Calm
        BY DEF QueueInv, PoolInv
    <2>2. PoolInv' /\ TypeOK' /\ WaitersAreInAcquire' /\ Calm' /\ sizer' = sizer
        BY <2>1, PoolInvInductive, TypeStep, QueueStep, CalmStep
    <2>3. Owed'
        BY <2>2, OwedStep
    <2> QED
        BY <2>2, <2>3 DEF QueueInv
<1>3. QueueInv => NoStrandedWaiter
    <2> SUFFICES ASSUME QueueInv PROVE NoStrandedWaiter
        OBVIOUS
    <2>1. TypeOK /\ Owed
        BY DEF QueueInv, PoolInv
    <2>2. /\ Cardinality(OnTheirWay) \in Nat /\ Len(waiters) \in Nat
          /\ Cardinality(available) \in Nat /\ Size \in Nat /\ sizer.current \in Nat
        BY <2>1, OnTheirWayFinite, FS_CardinalityType, SizeType DEF TypeOK
    <2>3. Grantable \in Nat
        BY <2>2 DEF Grantable
    <2>4. CASE waiters = <<>>
        BY <2>2, <2>3, <2>4 DEF NoStrandedWaiter, AtMost
    <2>5. CASE waiters # <<>>
        BY <2>1, <2>2, <2>3, <2>5 DEF NoStrandedWaiter, AtMost, Owed
    <2> QED
        BY <2>4, <2>5
<1> QED
    BY <1>1, <1>2, <1>3, PTL DEF Spec
=============================================================================
