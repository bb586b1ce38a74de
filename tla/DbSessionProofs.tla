-------------------------- MODULE DbSessionProofs --------------------------
(***************************************************************************)
(* Proofs about DbSession, for any number of requests, connections,        *)
(* threads, faults and cancellations: its types, what comes back to the    *)
(* pool, why a request fails, and what a request that succeeded has        *)
(* committed.                                                              *)
(***************************************************************************)
EXTENDS DbSession, TLAPS, FiniteSetTheorems

-----------------------------------------------------------------------------
(* The inductive invariant *)

Runs(t) == MainRuns(t) \/ UndoRuns(t)

StepsOf(k) ==
    CASE k = "stream" -> Steps \ {"statement"}
      [] k = "query" -> {"begin", "declare", "rollback", "restore"}
      [] k = "execute" -> {"statement", "commit", "rollback"}
      [] OTHER -> {"statement"}

(* Where a request's jobs are while its coroutine is at each place. *)
InPlace(t) ==
    /\ kind[t] = "tables" <=> conn[t] = Shared
    /\ kind[t] = "tables" => undo[t] = "none"
    /\ conn[t] = Nobody => main[t] = "none" /\ undo[t] = "none"
    /\ MainRuns(t) => main[t] \in StepsOf(kind[t])
    /\ pc[t] \in {"idle", "permit", "pool"} => conn[t] = Nobody /\ result[t] = "none"
    /\ pc[t] = "permit" => kind[t] = "query"
    /\ pc[t] = "awaiting" =>
        conn[t] # Nobody /\ undo[t] = "none" /\ main[t] \notin {"none", "raised"}
    /\ pc[t] \in {"undoing", "cancelled"} =>
        conn[t] \in Conns /\ undo[t] # "none" /\ main[t] # "queued"
    /\ pc[t] = "undoing" => main[t] = "over"
    /\ pc[t] = "answered" => main[t] # "queued" /\ undo[t] # "queued"

(* A request holds a connection of the pool from acquire() to release(). *)
Holds(t) == pc[t] \in {"awaiting", "undoing", "cancelled"} /\ conn[t] \in Conns

(* Nobody but its holder uses a connection that is not tangled. *)
LeaseInv ==
    /\ \A t \in Tasks : Holds(t) => conn[t] \in opened \ idle
    /\ \A t, u \in Tasks : Holds(t) /\ Holds(u) /\ conn[t] = conn[u] => t = u
    /\ \A t \in Tasks : pc[t] = "answered" /\ conn[t] \in opened \ tangled => ~Runs(t)

Clean(s) == s.auto /\ s.txn = "none"

(* What fetch_bounded() has changed and not yet put back. *)
Between == Steps \ {"begin", "statement"}

(* However the rollback's thread and the statement's take turns, what the  *)
(* request has changed on its connection can still be undone.              *)
Tidy(k, m, s) ==
    /\ s.auto => s.txn = "none"
    /\ k \notin Bounded \/ m \notin Between => s.auto
    /\ m = "restore" => s.txn = "none"

(* While nothing interferes, fetch_bounded() finds its transaction as it   *)
(* left it.                                                                *)
InStep(t, k, m, s) ==
    k \in Bounded =>
        /\ m \in {"declare", "fetch", "close", "commit"} => ~s.auto
        /\ m = "declare" => s.txn = "none"
        /\ m \in {"fetch", "close", "commit"} => Valid(t, s)

Sound(t) ==
    /\ Tidy(kind[t], main[t], server[conn[t]])
    /\ pc[t] = "awaiting" => InStep(t, kind[t], main[t], server[conn[t]])

ServerInv ==
    /\ server[Shared].alive => Clean(server[Shared])
    /\ \A c \in idle \ tangled : server[c].alive => Clean(server[c])
    /\ \A t \in Tasks : Holds(t) /\ conn[t] \notin tangled /\ server[conn[t]].alive =>
        Sound(t)

(* What the coroutine will be told, and what that will mean: failures of   *)
(* the service's queries mean nothing.                                     *)
Means(k, m, r, hasCause, isCommitted) ==
    /\ m = "rollback" => k = "query" \/ hasCause
    /\ k = "execute" /\ m = "commit" => isCommitted
    /\ m = "over" => r # "none" /\ r # "cancelled"
    /\ m \notin {"restore", "over"} => r = "none"
    /\ r = "ok" /\ k # "tables" => isCommitted
    /\ m = "restore" \/ r = "error" => r = "ok" \/ k = "query" \/ hasCause

Told(t) == Means(kind[t], main[t], result[t], t \in excused, t \in written)

Answers(t) ==
    /\ pc[t] = "awaiting" /\ conn[t] \notin tangled => Told(t)
    /\ pc[t] = "undoing" => kind[t] = "query" \/ t \in excused
    /\ pc[t] = "answered" /\ result[t] = "error" => kind[t] = "query" \/ t \in excused
    /\ pc[t] = "answered" /\ result[t] = "ok" /\ kind[t] # "tables" =>
        t \in written \cup excused

AnswerInv == \A t \in Tasks : Answers(t)

(* Every permit is in the semaphore or with a query that is under way. *)
Permitted(t) == kind[t] = "query" /\ pc[t] \in {"pool", "awaiting", "undoing", "cancelled"}
PermitInv == permits + Cardinality({t \in Tasks : Permitted(t)}) = Permits

SessionInv ==
    /\ TypeOK
    /\ \A t \in Tasks : InPlace(t)
    /\ LeaseInv
    /\ ServerInv
    /\ AnswerInv
    /\ PermitInv

-----------------------------------------------------------------------------
(* The initial state *)

LEMMA InitHolds == Init => SessionInv
<1> SUFFICES ASSUME Init PROVE SessionInv
    OBVIOUS
<1>1. TypeOK
    BY SessionAssumption DEF Init, TypeOK, PCs, Kinds, Results, Settled, Steps, Connected, Server
<1>2. \A t \in Tasks : InPlace(t)
    BY SessionAssumption DEF Init, InPlace, MainRuns, Steps
<1>3. LeaseInv /\ ServerInv /\ AnswerInv
    BY SessionAssumption DEF Init, LeaseInv, Holds, ServerInv, Clean, Connected, AnswerInv, Answers
<1>4. {t \in Tasks : Permitted(t)} = {}
    BY DEF Init, Permitted
<1>5. PermitInv
    BY <1>4, FS_EmptySet, SessionAssumption DEF Init, PermitInv
<1> QED
    BY <1>1, <1>2, <1>3, <1>5 DEF SessionInv

-----------------------------------------------------------------------------
(* Permits *)

LEMMA PermitsSame ==
    ASSUME SessionInv, permits' = permits, \A u \in Tasks : Permitted(u)' <=> Permitted(u)
    PROVE  PermitInv' /\ permits' \in 0 .. Permits
<1>1. {u \in Tasks : Permitted(u)'} = {u \in Tasks : Permitted(u)}
    OBVIOUS
<1> QED
    BY <1>1 DEF SessionInv, TypeOK, PermitInv

LEMMA PermitGiven ==
    ASSUME SessionInv, NEW t \in Tasks, permits' = permits + 1, Permitted(t), ~Permitted(t)',
           \A u \in Tasks \ {t} : Permitted(u)' <=> Permitted(u)
    PROVE  PermitInv' /\ permits' \in 0 .. Permits
<1> DEFINE before == {u \in Tasks : Permitted(u)}
           after == {u \in Tasks : Permitted(u)'}
<1>1. after = before \ {t} /\ t \in before /\ before \subseteq Tasks
    OBVIOUS
<1>2. IsFiniteSet(before)
    BY <1>1, FS_Subset, SessionAssumption
<1>3. Cardinality(after) = Cardinality(before) - 1 /\ Cardinality(before) \in Nat
      /\ Cardinality(after) \in Nat
    BY <1>1, <1>2, FS_RemoveElement, FS_CardinalityType, FS_Subset
<1>4. permits \in 0 .. Permits /\ Permits \in Nat /\ permits + Cardinality(before) = Permits
    BY SessionAssumption DEF SessionInv, TypeOK, PermitInv
<1> HIDE DEF before, after
<1>5. permits' + Cardinality(after) = Permits /\ permits' \in 0 .. Permits
    BY <1>3, <1>4
<1> QED
    BY <1>5 DEF PermitInv, after

LEMMA PermitTaken ==
    ASSUME SessionInv, NEW t \in Tasks, permits > 0, permits' = permits - 1,
           ~Permitted(t), Permitted(t)',
           \A u \in Tasks \ {t} : Permitted(u)' <=> Permitted(u)
    PROVE  PermitInv' /\ permits' \in 0 .. Permits
<1> DEFINE before == {u \in Tasks : Permitted(u)}
           after == {u \in Tasks : Permitted(u)'}
<1>1. after = before \cup {t} /\ t \notin before /\ before \subseteq Tasks
    OBVIOUS
<1>2. IsFiniteSet(before)
    BY <1>1, FS_Subset, SessionAssumption
<1>3. Cardinality(after) = Cardinality(before) + 1 /\ Cardinality(before) \in Nat
    BY <1>1, <1>2, FS_AddElement, FS_CardinalityType
<1>4. permits \in 0 .. Permits /\ Permits \in Nat /\ permits + Cardinality(before) = Permits
    BY SessionAssumption DEF SessionInv, TypeOK, PermitInv
<1> HIDE DEF before, after
<1>5. permits' + Cardinality(after) = Permits /\ permits' \in 0 .. Permits
    BY <1>3, <1>4
<1> QED
    BY <1>5 DEF PermitInv, after

-----------------------------------------------------------------------------
(* What the driver's calls make of a connection's state *)

LEMMA ServerFields ==
    ASSUME NEW s \in Server
    PROVE  /\ s.auto \in BOOLEAN /\ s.txn \in {"none", "open", "failed"}
           /\ s.pending \in SUBSET Tasks /\ s.alive \in BOOLEAN
BY DEF Server

LEMMA EndedIs ==
    ASSUME NEW s \in Server
    PROVE  /\ Ended(s) \in Server
           /\ Ended(s).auto = s.auto /\ Ended(s).txn = "none"
           /\ Ended(s).alive = s.alive
BY DEF Server, Ended

LEMMA AbortedIs ==
    ASSUME NEW s \in Server
    PROVE  /\ Aborted(s) \in Server
           /\ Aborted(s).auto = s.auto /\ Aborted(s).alive = s.alive
           /\ s.auto => Aborted(s) = s
           /\ ~s.auto => Aborted(s).txn = "failed"
BY DEF Server, Aborted

LEMMA ConnectedIs ==
    /\ Connected \in Server /\ Clean(Connected)
    /\ [Connected EXCEPT !.alive = FALSE] \in Server
    /\ [Connected EXCEPT !.alive = FALSE].alive = FALSE
BY DEF Connected, Server, Clean

LEMMA SetIs ==
    ASSUME TypeOK, NEW t \in Tasks, conn[t] # Nobody, NEW s \in Server, Set(t, s)
    PROVE  /\ server' \in [Conns \cup {Shared} -> Server]
           /\ server'[conn[t]] = s
           /\ \A c \in (Conns \cup {Shared}) \ {conn[t]} : server'[c] = server[c]
BY DEF TypeOK, Set

-----------------------------------------------------------------------------
(* The threads *)

LEMMA WhoRuns ==
    ASSUME SessionInv, NEW t \in Tasks, Runs(t)
    PROVE  /\ conn[t] \in Conns \cup {Shared} /\ conn[t] # Nobody
           /\ server[conn[t]] \in Server
           /\ pc[t] \in {"awaiting", "undoing", "cancelled", "answered"}
           /\ UndoRuns(t) => pc[t] # "awaiting" /\ conn[t] \in Conns
           /\ MainRuns(t) => pc[t] # "undoing" /\ main[t] \in StepsOf(kind[t])
<1>1. InPlace(t) /\ TypeOK
    BY DEF SessionInv
<1>2. conn[t] # Nobody
    BY <1>1 DEF InPlace, Runs, MainRuns, UndoRuns, Steps
<1>3. conn[t] \in Conns \cup {Shared} /\ server[conn[t]] \in Server
    BY <1>1, <1>2 DEF TypeOK
<1>4. pc[t] \in {"awaiting", "undoing", "cancelled", "answered"}
    BY <1>1, <1>2 DEF InPlace, TypeOK, PCs
<1>5. UndoRuns(t) => pc[t] # "awaiting" /\ conn[t] \in Conns
    BY <1>1, <1>3 DEF InPlace, UndoRuns
<1> QED
    BY <1>1, <1>2, <1>3, <1>4, <1>5 DEF InPlace, MainRuns, Steps

(* A thread of t at work: the coroutines and the pool stand still. *)
Work(t) ==
    /\ Runs(t)
    /\ UNCHANGED <<pc, kind, conn, permits, pool>>
    /\ \A u \in Tasks \ {t} : main'[u] = main[u] /\ undo'[u] = undo[u] /\ result'[u] = result[u]
    /\ \A c \in (Conns \cup {Shared}) \ {conn[t]} : server'[c] = server[c]
    /\ written \subseteq written' /\ excused \subseteq excused'
    /\ pc[t] # "awaiting" => result'[t] = result[t]

(* What its thread owes to the request itself. *)
Kept(t) ==
    /\ InPlace(t)
    /\ conn[t] = Shared /\ server[Shared].alive => Clean(server[Shared])
    /\ Holds(t) /\ conn[t] \notin tangled /\ server[conn[t]].alive =>
        Sound(t)
    /\ pc[t] = "awaiting" /\ conn[t] \notin tangled => Told(t)

LEMMA IsKept == ASSUME SessionInv, NEW t \in Tasks PROVE Kept(t)
BY DEF SessionInv, Kept, ServerInv, AnswerInv, Answers

LEMMA WorkKeeps ==
    ASSUME SessionInv, NEW t \in Tasks, Work(t), TypeOK', Kept(t)'
    PROVE  SessionInv'
<1> USE DEF SessionInv, pool
<1>1. /\ conn[t] \in Conns \cup {Shared}
      /\ pc[t] \in {"awaiting", "undoing", "cancelled", "answered"}
    BY WhoRuns DEF Work
<1>2. \A u \in Tasks : InPlace(u)'
    BY DEF Work, Kept, InPlace, MainRuns
<1>3. \A u \in Tasks : Holds(u)' <=> Holds(u)
    BY DEF Work, Holds
<1>4. LeaseInv'
    <2>1. \A u \in Tasks : pc'[u] = "answered" /\ conn'[u] \in opened' \ tangled' => ~Runs(u)'
        BY DEF LeaseInv, Work, Runs, MainRuns, UndoRuns
    <2> QED
        BY <1>3, <2>1 DEF LeaseInv, Work
<1>5. conn[t] \in opened \ tangled => Holds(t)
    BY <1>1, SessionAssumption DEF LeaseInv, Work, Holds, TypeOK
<1>6. ServerInv'
    <2>1. server'[Shared].alive => Clean(server'[Shared])
        BY DEF ServerInv, Work, Kept
    <2>2. ASSUME NEW c \in idle' \ tangled', server'[c].alive PROVE Clean(server'[c])
        <3>1. c \in idle \ tangled /\ c \in opened /\ c \in Conns
            BY <2>2 DEF Work, TypeOK
        <3>2. c # conn[t]
            BY <3>1, <1>5 DEF LeaseInv
        <3> QED
            BY <2>2, <3>1, <3>2 DEF Work, ServerInv
    <2>3. ASSUME NEW u \in Tasks, Holds(u)', conn'[u] \notin tangled', server'[conn'[u]].alive
          PROVE  Sound(u)'
        <3>1. CASE u = t
            BY <2>3, <3>1 DEF Kept
        <3>2. CASE u # t
            <4>1. Holds(u) /\ conn[u] \in opened \ tangled /\ conn[u] \in Conns
                BY <1>3, <2>3 DEF Work, LeaseInv, Holds
            <4>2. conn[u] # conn[t]
                BY <1>5, <3>2, <4>1 DEF LeaseInv
            <4>3. server'[conn[u]] = server[conn[u]]
                BY <4>1, <4>2 DEF Work
            <4>4. Sound(u)
                BY <2>3, <4>1, <4>3 DEF ServerInv, Work
            <4> QED
                BY <3>2, <4>3, <4>4 DEF Work, Sound
        <3> QED
            BY <3>1, <3>2
    <2> QED
        BY <2>1, <2>2, <2>3 DEF ServerInv
<1>7. AnswerInv'
    <2> SUFFICES ASSUME NEW u \in Tasks PROVE Answers(u)'
        BY DEF AnswerInv
    <2>1. Answers(u)
        BY DEF AnswerInv
    <2>2. pc'[u] = "awaiting" /\ conn'[u] \notin tangled' => Told(u)'
        <3>1. CASE u = t
            BY <3>1 DEF Kept
        <3>2. CASE u # t
            BY <2>1, <3>2 DEF Work, Answers, Told, Means
        <3> QED
            BY <3>1, <3>2
    <2>3. pc'[u] = pc[u] /\ kind'[u] = kind[u] /\ (pc[u] = "answered" => result'[u] = result[u])
        BY DEF Work
    <2>4. (u \in written => u \in written') /\ (u \in excused => u \in excused')
        BY DEF Work
    <2> QED
        BY <2>1, <2>2, <2>3, <2>4 DEF Answers
<1>8. PermitInv'
    <2>1. permits' = permits /\ \A u \in Tasks : Permitted(u)' <=> Permitted(u)
        BY DEF Work, Permitted
    <2> QED
        BY <2>1, PermitsSame
<1> QED
    BY <1>2, <1>4, <1>6, <1>7, <1>8

(* One driver call of the statement's job: it leaves the connection as s,  *)
(* goes on to m, and tells r to whoever still waits for it.                *)
LEMMA MainKeeps ==
    ASSUME SessionInv, NEW t \in Tasks, MainRuns(t),
           NEW m \in StepsOf(kind[t]) \cup {"over"}, Main(t, m),
           NEW s \in Server, Set(t, s) \/ (s = Mine(t) /\ UNCHANGED server),
           NEW r \in Results,
           \/ pc[t] = "awaiting" /\ result' = [result EXCEPT ![t] = r]
           \/ pc[t] # "awaiting" /\ UNCHANGED result
           \/ r = result[t] /\ UNCHANGED result,
           UNCHANGED <<pc, kind, conn, undo, permits, pool, cancels>>,
           faults' \in 0 .. MaxFaults,
           written' \in SUBSET Tasks, written \subseteq written',
           excused' \in SUBSET Tasks, excused \subseteq excused',
           conn[t] = Shared /\ s.alive => Clean(s),
           Holds(t) /\ conn[t] \notin tangled /\ s.alive =>
             Tidy(kind[t], m, s) /\ (pc[t] = "awaiting" => InStep(t, kind[t], m, s)),
           pc[t] = "awaiting" /\ conn[t] \notin tangled =>
             Means(kind[t], m, r, t \in excused', t \in written')
    PROVE  SessionInv'
<1>1. /\ Runs(t) /\ conn[t] # Nobody /\ conn[t] \in Conns \cup {Shared}
      /\ pc[t] \in {"awaiting", "undoing", "cancelled", "answered"} /\ pc[t] # "undoing"
      /\ TypeOK /\ InPlace(t)
    BY WhoRuns DEF Runs, SessionInv
<1>2. /\ server' \in [Conns \cup {Shared} -> Server] /\ server'[conn[t]] = s
      /\ \A c \in (Conns \cup {Shared}) \ {conn[t]} : server'[c] = server[c]
    BY <1>1, SetIs DEF TypeOK, Mine
<1>3. m \in Steps \cup {"over"} /\ m \notin {"none", "raised", "queued"}
    BY DEF StepsOf, Steps
<1>4. main' \in [Tasks -> Steps \cup Settled \cup {"queued"}] /\ main'[t] = m
      /\ \A u \in Tasks \ {t} : main'[u] = main[u]
    BY <1>1, <1>3 DEF TypeOK, Main, Settled
<1>5. /\ result' \in [Tasks -> Results]
      /\ \A u \in Tasks \ {t} : result'[u] = result[u]
      /\ pc[t] = "awaiting" => result'[t] = r
      /\ pc[t] # "awaiting" => result'[t] = result[t]
    BY <1>1 DEF TypeOK
<1>6. TypeOK'
    BY <1>1, <1>2, <1>4, <1>5 DEF TypeOK, pool
<1>7. Work(t)
    BY <1>1, <1>2, <1>4, <1>5 DEF Work
<1>8. InPlace(t)'
    BY <1>1, <1>3, <1>4, <1>5 DEF InPlace, MainRuns, Steps
<1>9. Kept(t)'
    BY <1>1, <1>2, <1>4, <1>5, <1>8 DEF Kept, Sound, Told, Holds, pool
<1> QED
    BY <1>6, <1>7, <1>9, WorkKeeps

(* What holds of a request whose job makes a driver call. *)
LEMMA Caller ==
    ASSUME SessionInv, NEW t \in Tasks, NEW step \in Steps, Calls(t, step)
    PROVE  /\ MainRuns(t) /\ main[t] = step /\ step \in StepsOf(kind[t])
           /\ Mine(t) \in Server /\ Mine(t).alive /\ conn[t] \in Conns \cup {Shared}
           /\ kind[t] = "tables" <=> conn[t] = Shared
           /\ result[t] \in Results /\ kind[t] \in Kinds
           /\ pc[t] = "awaiting" /\ kind[t] # "tables" => Holds(t)
           /\ conn[t] = Shared => Clean(Mine(t))
           /\ Holds(t) /\ conn[t] \notin tangled =>
                /\ Tidy(kind[t], step, Mine(t))
                /\ pc[t] = "awaiting" => InStep(t, kind[t], step, Mine(t))
           /\ pc[t] = "awaiting" /\ conn[t] \notin tangled =>
                Means(kind[t], step, result[t], t \in excused, t \in written)
           /\ faults \in 0 .. MaxFaults /\ excused \in SUBSET Tasks /\ written \in SUBSET Tasks
<1>1. MainRuns(t) /\ main[t] = step /\ Mine(t).alive
    BY DEF Calls, MainRuns, Mine
<1>2. /\ step \in StepsOf(kind[t]) /\ Mine(t) \in Server /\ conn[t] \in Conns \cup {Shared}
    BY <1>1, WhoRuns DEF Runs, Mine
<1>3. Kept(t)
    BY IsKept
<1>4. InPlace(t) /\ TypeOK
    BY DEF SessionInv
<1> QED
    BY <1>1, <1>2, <1>3, <1>4 DEF Kept, Sound, Told, InPlace, Holds, Mine, TypeOK

LEMMA BeginKeeps ==
    ASSUME SessionInv, NEW t \in Tasks, Begin(t) PROVE SessionInv'
<1> DEFINE step == "begin"
<1>0. step \in Steps /\ Calls(t, step)
    BY DEF Begin, Steps
<1>1. /\ MainRuns(t) /\ main[t] = "begin" /\ kind[t] \in Bounded /\ conn[t] # Shared
      /\ pc[t] = "awaiting" => Holds(t)
    BY <1>0, Caller DEF StepsOf, Bounded
<1>2. CASE Mine(t).txn = "none"
    <2> DEFINE s == [Mine(t) EXCEPT !.auto = FALSE]
    <2>1. s \in Server /\ s.auto = FALSE /\ s.txn = "none" /\ s.alive = Mine(t).alive
        <3>1. Mine(t) \in Server
            BY <1>0, Caller
        <3> QED
            BY <1>2, <3>1 DEF Server
    <2>2. "declare" \in StepsOf(kind[t]) /\ Main(t, "declare") /\ Set(t, s)
        BY <1>1, <1>2 DEF Begin, StepsOf, Steps, Bounded
    <2>3. Holds(t) /\ conn[t] \notin tangled => Tidy(kind[t], "declare", s)
                                                /\ InStep(t, kind[t], "declare", s)
        BY <1>0, <1>1, <2>1, Caller DEF Tidy, InStep, Between, Steps
    <2>4. pc[t] = "awaiting" /\ conn[t] \notin tangled =>
            Means(kind[t], "declare", result[t], t \in excused, t \in written)
        BY <1>0, <1>1, Caller DEF Means
    <2> HIDE DEF s
    <2> QED
        BY <1>0, <1>1, <1>2, <2>1, <2>2, <2>3, <2>4, Caller, MainKeeps DEF Begin, threadFrame
<1>3. CASE Mine(t).txn # "none"
    <2>1. ~(Holds(t) /\ conn[t] \notin tangled)
        BY <1>0, <1>3, Caller DEF Tidy, Between
    <2> QED
        BY <1>0, <1>1, <1>3, <2>1, Caller, MainKeeps DEF Begin, EndMain, threadFrame, Results
<1> QED
    BY <1>2, <1>3

(* A stream's cursor is declared; a query's takes the transaction with it. *)
LEMMA DeclareKeeps ==
    ASSUME SessionInv, NEW t \in Tasks, Declare(t) PROVE SessionInv'
<1> DEFINE step == "declare"
<1>0. step \in Steps /\ Calls(t, step)
    BY DEF Declare, Steps
<1>1. /\ MainRuns(t) /\ main[t] = "declare" /\ kind[t] \in Bounded /\ conn[t] # Shared
      /\ pc[t] = "awaiting" => Holds(t)
    BY <1>0, Caller DEF StepsOf, Bounded
<1>2. CASE kind[t] = "stream" /\ Usable(Mine(t))
    <2> DEFINE s == [Mine(t) EXCEPT !.txn = "open", !.pending = @ \cup {t}]
    <2>1. /\ s \in Server /\ s.auto = FALSE /\ Valid(t, s) /\ s.alive = Mine(t).alive
        <3>1. Mine(t) \in Server /\ Mine(t).pending \cup {t} \in SUBSET Tasks
            BY <1>0, Caller, ServerFields
        <3> QED
            BY <1>2, <3>1 DEF Server, Usable, Valid
    <2>2. "fetch" \in StepsOf(kind[t]) /\ Main(t, "fetch") /\ Set(t, s)
        BY <1>1, <1>2 DEF Declare, StepsOf, Steps
    <2>3. Holds(t) /\ conn[t] \notin tangled =>
            Tidy(kind[t], "fetch", s) /\ InStep(t, kind[t], "fetch", s)
        BY <1>0, <1>1, <2>1, Caller DEF Tidy, InStep, Between, Steps
    <2>4. pc[t] = "awaiting" /\ conn[t] \notin tangled =>
            Means(kind[t], "fetch", result[t], t \in excused, t \in written)
        BY <1>0, <1>1, Caller DEF Means
    <2> HIDE DEF s
    <2> QED
        BY <1>0, <1>1, <1>2, <2>1, <2>2, <2>3, <2>4, Caller, MainKeeps DEF Declare, threadFrame
<1>3. CASE ~(kind[t] = "stream" /\ Usable(Mine(t)))
    <2>1. /\ Aborted(Mine(t)) \in Server /\ Set(t, Aborted(Mine(t)))
          /\ Aborted(Mine(t)).alive = Mine(t).alive
        BY <1>0, <1>3, Caller, AbortedIs DEF Declare
    <2>2. "rollback" \in StepsOf(kind[t]) /\ Main(t, "rollback")
        BY <1>1, <1>3 DEF Declare, StepsOf, Steps, Bounded
    <2>3. Holds(t) /\ conn[t] \notin tangled /\ pc[t] = "awaiting" => kind[t] = "query"
        BY <1>0, <1>1, <1>3, Caller DEF Usable, InStep, Bounded
    <2>4. Holds(t) /\ conn[t] \notin tangled =>
            /\ Tidy(kind[t], "rollback", Aborted(Mine(t)))
            /\ InStep(t, kind[t], "rollback", Aborted(Mine(t)))
        BY <1>0, <1>1, Caller, AbortedIs DEF Tidy, InStep, Between, Steps
    <2>5. pc[t] = "awaiting" /\ conn[t] \notin tangled =>
            Means(kind[t], "rollback", result[t], t \in excused, t \in written)
        BY <1>0, <1>1, <2>3, Caller DEF Means
    <2> QED
        BY <1>0, <1>1, <1>3, <2>1, <2>2, <2>4, <2>5, Caller, MainKeeps DEF Declare, threadFrame
<1> QED
    BY <1>2, <1>3

(* fetchmany() and close() leave the server as it is; whoever still waits  *)
(* for them finds its cursor valid.                                        *)
LEMMA FetchKeeps ==
    ASSUME SessionInv, NEW t \in Tasks, Fetch(t) \/ Close(t) PROVE SessionInv'
<1> DEFINE step == main[t]
           next == IF step = "fetch" THEN "close" ELSE "commit"
<1>0. step \in Steps /\ Calls(t, step) /\ step \in {"fetch", "close"}
    BY DEF Fetch, Close, Steps, Calls
<1>1. /\ MainRuns(t) /\ kind[t] = "stream" /\ conn[t] # Shared
      /\ pc[t] = "awaiting" => Holds(t)
    BY <1>0, Caller DEF StepsOf
<1>2. UNCHANGED <<threadFrame, server, result, written>>
    BY DEF Fetch, Close
<1>3. PICK m \in {next, "rollback"} : Main(t, m) /\ (Valid(t, Mine(t)) => m = next)
    BY DEF Fetch, Close, Calls
<1>4. m \in StepsOf(kind[t]) /\ m \in {"close", "commit", "rollback"}
    BY <1>0, <1>1, <1>3 DEF StepsOf, Steps
<1>5. Holds(t) /\ conn[t] \notin tangled =>
        /\ Tidy(kind[t], m, Mine(t))
        /\ pc[t] = "awaiting" => InStep(t, kind[t], m, Mine(t)) /\ Valid(t, Mine(t))
    <2>1. Holds(t) /\ conn[t] \notin tangled =>
            /\ Tidy(kind[t], step, Mine(t))
            /\ pc[t] = "awaiting" => InStep(t, kind[t], step, Mine(t))
        BY <1>0, Caller
    <2> QED
        BY <1>0, <1>1, <1>4, <2>1 DEF Tidy, InStep, Between, Steps, Bounded
<1>6. pc[t] = "awaiting" /\ conn[t] \notin tangled =>
        Means(kind[t], m, result[t], t \in excused, t \in written)
    <2>1. pc[t] = "awaiting" /\ conn[t] \notin tangled =>
            Means(kind[t], step, result[t], t \in excused, t \in written)
        BY <1>0, Caller
    <2> QED
        BY <1>0, <1>1, <1>3, <1>5, <2>1 DEF Means
<1> HIDE DEF next
<1> QED
    BY <1>0, <1>1, <1>2, <1>4, <1>3, <1>5, <1>6, Caller, MainKeeps DEF threadFrame

LEMMA StatementKeeps ==
    ASSUME SessionInv, NEW t \in Tasks, Statement(t) PROVE SessionInv'
<1> DEFINE step == "statement"
<1>0. step \in Steps /\ Calls(t, step)
    BY DEF Statement, Steps
<1>1. /\ MainRuns(t) /\ main[t] = "statement" /\ kind[t] \notin Bounded
      /\ "over" \in StepsOf(kind[t]) \cup {"over"}
      /\ kind[t] = "execute" => "commit" \in StepsOf(kind[t]) /\ "rollback" \in StepsOf(kind[t])
    BY <1>0, Caller DEF StepsOf, Bounded
<1>2. /\ Holds(t) /\ conn[t] \notin tangled => Clean(Mine(t))
      /\ conn[t] = Shared => Clean(Mine(t))
    BY <1>0, <1>1, Caller DEF Tidy, Clean
<1>3. ~Clean(Mine(t)) /\ pc[t] = "awaiting" => conn[t] \in tangled
    BY <1>0, <1>2, Caller
<1>4. UNCHANGED <<pc, kind, conn, undo, permits, pool, cancels, faults, excused>>
    BY DEF Statement, threadFrame
<1>5. CASE Mine(t).txn = "failed"
    <2>1. ~Clean(Mine(t)) /\ UNCHANGED <<server, written>>
        BY <1>5 DEF Statement, Clean
    <2>2. CASE kind[t] = "execute"
        <3>1. Main(t, "rollback") /\ UNCHANGED result
            BY <1>5, <2>2 DEF Statement
        <3> QED
            BY <1>0, <1>1, <1>2, <1>3, <1>4, <2>1, <2>2, <3>1, Caller, MainKeeps
    <2>3. CASE kind[t] # "execute"
        <3>1. EndMain(t, "error")
            BY <1>5, <2>3 DEF Statement
        <3> QED
            BY <1>0, <1>1, <1>2, <1>3, <1>4, <2>1, <3>1, Caller, MainKeeps DEF EndMain, Results
    <2> QED
        BY <2>2, <2>3
<1>6. CASE Mine(t).txn # "failed" /\ Mine(t).auto
    <2>1. UNCHANGED server /\ written' = written \cup {t}
        BY <1>6 DEF Statement
    <2>2. \A m \in Steps \cup {"over"} : Holds(t) /\ conn[t] \notin tangled =>
            Tidy(kind[t], m, Mine(t)) /\ InStep(t, kind[t], m, Mine(t))
        BY <1>1, <1>2 DEF Clean, Tidy, InStep
    <2>3. pc[t] = "awaiting" /\ conn[t] \notin tangled =>
            Means(kind[t], step, result[t], t \in excused, t \in written)
        BY <1>0, Caller
    <2>4. CASE kind[t] = "execute"
        <3>1. Main(t, "commit") /\ UNCHANGED result
            BY <1>6, <2>4 DEF Statement
        <3>2. pc[t] = "awaiting" /\ conn[t] \notin tangled =>
                Means(kind[t], "commit", result[t], t \in excused', t \in written')
            BY <2>1, <2>3, <2>4 DEF Means
        <3>3. "commit" \in Steps
            BY DEF Steps
        <3> QED
            BY <1>0, <1>1, <1>2, <1>4, <2>1, <2>2, <2>4, <3>1, <3>2, <3>3, Caller, MainKeeps
    <2>5. CASE kind[t] # "execute"
        <3>1. EndMain(t, "ok")
            BY <1>6, <2>5 DEF Statement
        <3>2. Means(kind[t], "over", "ok", t \in excused', t \in written')
            BY <2>1 DEF Means
        <3> QED
            BY <1>0, <1>1, <1>2, <1>4, <2>1, <2>2, <3>1, <3>2, Caller, MainKeeps
            DEF EndMain, Results
    <2> QED
        BY <2>4, <2>5
<1>7. CASE Mine(t).txn # "failed" /\ ~Mine(t).auto
    <2> DEFINE s == [Mine(t) EXCEPT !.txn = "open", !.pending = @ \cup {t}]
    <2>1. ~Clean(Mine(t)) /\ Set(t, s) /\ UNCHANGED written
        BY <1>7 DEF Statement, Clean
    <2>2. s \in Server
        <3>1. Mine(t) \in Server /\ Mine(t).pending \cup {t} \in SUBSET Tasks
            BY <1>0, Caller, ServerFields
        <3> QED
            BY <3>1 DEF Server
    <2> HIDE DEF s
    <2>3. CASE kind[t] = "execute"
        <3>1. Main(t, "commit") /\ UNCHANGED result
            BY <1>7, <2>3 DEF Statement
        <3> QED
            BY <1>0, <1>1, <1>2, <1>3, <1>4, <2>1, <2>2, <2>3, <3>1, Caller, MainKeeps
    <2>4. CASE kind[t] # "execute"
        <3>1. EndMain(t, "ok")
            BY <1>7, <2>4 DEF Statement
        <3> QED
            BY <1>0, <1>1, <1>2, <1>3, <1>4, <2>1, <2>2, <3>1, Caller, MainKeeps
            DEF EndMain, Results
    <2> QED
        BY <2>3, <2>4
<1> QED
    BY <1>5, <1>6, <1>7

LEMMA CommitKeeps ==
    ASSUME SessionInv, NEW t \in Tasks, Commit(t) PROVE SessionInv'
<1> DEFINE step == "commit"
           s == Ended(Mine(t))
<1>0. step \in Steps /\ Calls(t, step)
    BY DEF Commit, Steps
<1>1. /\ MainRuns(t) /\ kind[t] \in {"stream", "execute"} /\ conn[t] # Shared
      /\ pc[t] = "awaiting" => Holds(t)
    BY <1>0, Caller DEF StepsOf
<1>2. /\ s \in Server /\ s.auto = Mine(t).auto /\ s.txn = "none" /\ Set(t, s)
    BY <1>0, Caller, EndedIs DEF Commit
<1>3. written' = IF Mine(t).txn = "open" THEN written \cup Mine(t).pending ELSE written
    BY DEF Commit
<1>4. Mine(t).pending \in SUBSET Tasks
    BY <1>0, Caller DEF Server
<1>5. Holds(t) /\ conn[t] \notin tangled =>
        /\ Tidy(kind[t], step, Mine(t))
        /\ pc[t] = "awaiting" => InStep(t, kind[t], step, Mine(t))
                                 /\ Means(kind[t], step, result[t], t \in excused, t \in written)
    BY <1>0, Caller
<1>6. UNCHANGED <<pc, kind, conn, undo, permits, pool, cancels, faults, excused>>
    BY DEF Commit, threadFrame
<1>7. CASE kind[t] = "execute"
    <2>1. EndMain(t, "ok")
        BY <1>7 DEF Commit
    <2>2. Holds(t) /\ conn[t] \notin tangled =>
            Tidy(kind[t], "over", s) /\ InStep(t, kind[t], "over", s)
        BY <1>2, <1>5, <1>7 DEF Tidy, InStep, Bounded
    <2>3. pc[t] = "awaiting" /\ conn[t] \notin tangled =>
            Means(kind[t], "over", "ok", t \in excused', t \in written')
        BY <1>1, <1>3, <1>5, <1>7 DEF Means
    <2> HIDE DEF s
    <2> QED
        BY <1>0, <1>1, <1>2, <1>3, <1>4, <1>6, <2>1, <2>2, <2>3, Caller, MainKeeps
        DEF EndMain, Results
<1>8. CASE kind[t] = "stream"
    <2>1. /\ Main(t, "restore") /\ "restore" \in StepsOf(kind[t])
          /\ result' = IF pc[t] = "awaiting" THEN [result EXCEPT ![t] = "ok"] ELSE result
        BY <1>8 DEF Commit, StepsOf, Steps
    <2>2. Holds(t) /\ conn[t] \notin tangled =>
            Tidy(kind[t], "restore", s) /\ InStep(t, kind[t], "restore", s)
        BY <1>2, <1>5, <1>8 DEF Tidy, InStep, Between, Steps, Bounded
    <2>3. pc[t] = "awaiting" /\ conn[t] \notin tangled =>
            Means(kind[t], "restore", "ok", t \in excused', t \in written')
        BY <1>1, <1>3, <1>5, <1>8 DEF Means, InStep, Bounded, Valid
    <2> HIDE DEF s
    <2> QED
        BY <1>0, <1>1, <1>2, <1>3, <1>4, <1>6, <2>1, <2>2, <2>3, Caller, MainKeeps DEF Results
<1> QED
    BY <1>1, <1>7, <1>8

LEMMA RollbackKeeps ==
    ASSUME SessionInv, NEW t \in Tasks, Rollback(t) PROVE SessionInv'
<1> DEFINE step == "rollback"
           s == Ended(Mine(t))
<1>0. step \in Steps /\ Calls(t, step)
    BY DEF Rollback, Steps
<1>1. /\ MainRuns(t) /\ kind[t] \in Bounded \cup {"execute"} /\ conn[t] # Shared
      /\ pc[t] = "awaiting" => Holds(t)
    BY <1>0, Caller DEF StepsOf, Bounded
<1>2. /\ s \in Server /\ s.auto = Mine(t).auto /\ s.txn = "none" /\ Set(t, s)
    BY <1>0, Caller, EndedIs DEF Rollback
<1>3. Holds(t) /\ conn[t] \notin tangled =>
        /\ Tidy(kind[t], step, Mine(t))
        /\ pc[t] = "awaiting" => Means(kind[t], step, result[t], t \in excused, t \in written)
    BY <1>0, Caller
<1>4. UNCHANGED <<pc, kind, conn, undo, permits, pool, cancels, faults, excused, written>>
    BY DEF Rollback, threadFrame
<1>5. CASE kind[t] = "execute"
    <2>1. EndMain(t, "error")
        BY <1>5 DEF Rollback
    <2>2. Holds(t) /\ conn[t] \notin tangled =>
            Tidy(kind[t], "over", s) /\ InStep(t, kind[t], "over", s)
        BY <1>2, <1>3, <1>5 DEF Tidy, InStep, Bounded
    <2>3. pc[t] = "awaiting" /\ conn[t] \notin tangled =>
            Means(kind[t], "over", "error", t \in excused', t \in written')
        BY <1>1, <1>3, <1>4 DEF Means
    <2> HIDE DEF s
    <2> QED
        BY <1>0, <1>1, <1>2, <1>4, <2>1, <2>2, <2>3, Caller, MainKeeps DEF EndMain, Results
<1>6. CASE kind[t] \in Bounded
    <2>1. Main(t, "restore") /\ "restore" \in StepsOf(kind[t]) /\ UNCHANGED result
        BY <1>6 DEF Rollback, StepsOf, Steps, Bounded
    <2>2. Holds(t) /\ conn[t] \notin tangled =>
            Tidy(kind[t], "restore", s) /\ InStep(t, kind[t], "restore", s)
        BY <1>2, <1>3, <1>6 DEF Tidy, InStep, Between, Steps
    <2>3. pc[t] = "awaiting" /\ conn[t] \notin tangled =>
            Means(kind[t], "restore", result[t], t \in excused', t \in written')
        BY <1>1, <1>3, <1>4 DEF Means
    <2> HIDE DEF s
    <2> QED
        BY <1>0, <1>1, <1>2, <1>4, <2>1, <2>2, <2>3, Caller, MainKeeps
<1> QED
    BY <1>1, <1>5, <1>6

LEMMA RestoreKeeps ==
    ASSUME SessionInv, NEW t \in Tasks, Restore(t) PROVE SessionInv'
<1> DEFINE step == "restore"
           r == IF result[t] = "ok" THEN "ok" ELSE "error"
<1>0. step \in Steps /\ Calls(t, step)
    BY DEF Restore, Steps
<1>1. /\ MainRuns(t) /\ kind[t] \in Bounded /\ conn[t] # Shared
      /\ pc[t] = "awaiting" => Holds(t)
    BY <1>0, Caller DEF StepsOf, Bounded
<1>2. Holds(t) /\ conn[t] \notin tangled =>
        /\ Tidy(kind[t], step, Mine(t))
        /\ pc[t] = "awaiting" => Means(kind[t], step, result[t], t \in excused, t \in written)
    BY <1>0, Caller
<1>3. UNCHANGED <<pc, kind, conn, undo, permits, pool, cancels, faults, excused, written>>
    BY DEF Restore, threadFrame
<1>4. CASE Mine(t).txn = "none"
    <2> DEFINE s == [Mine(t) EXCEPT !.auto = TRUE]
    <2>1. /\ s \in Server /\ s.auto /\ s.txn = "none"
        <3>1. Mine(t) \in Server
            BY <1>0, Caller
        <3> QED
            BY <1>4, <3>1 DEF Server
    <2>2. Set(t, s) /\ EndMain(t, r)
        BY <1>4 DEF Restore
    <2>3. Holds(t) /\ conn[t] \notin tangled =>
            Tidy(kind[t], "over", s) /\ InStep(t, kind[t], "over", s)
        BY <1>2, <1>4, <2>1 DEF Tidy, InStep
    <2>4. pc[t] = "awaiting" /\ conn[t] \notin tangled =>
            Means(kind[t], "over", r, t \in excused', t \in written')
        BY <1>1, <1>2, <1>3 DEF Means
    <2>5. r \in Results
        BY DEF Results
    <2> HIDE DEF s, r
    <2> QED
        BY <1>0, <1>1, <1>3, <2>1, <2>2, <2>3, <2>4, <2>5, Caller, MainKeeps DEF EndMain
<1>5. CASE Mine(t).txn # "none"
    <2>1. ~(Holds(t) /\ conn[t] \notin tangled)
        BY <1>2, <1>5 DEF Tidy
    <2>2. UNCHANGED server /\ EndMain(t, "error")
        BY <1>5 DEF Restore
    <2> QED
        BY <1>0, <1>1, <1>3, <2>1, <2>2, Caller, MainKeeps DEF EndMain, Results
<1> QED
    BY <1>4, <1>5

(* The request's own statement raises: the same for its handlers as an     *)
(* error they meet, but for the request's cause.                           *)
LEMMA StatementFailsKeeps ==
    ASSUME SessionInv, NEW t \in Tasks, StatementFails(t) PROVE SessionInv'
<1> DEFINE step == main[t]
           s == Aborted(Mine(t))
<1>0. step \in Steps /\ Calls(t, step) /\ step \in {"declare", "fetch", "statement"}
    BY DEF StatementFails, Steps, Calls
<1>1. /\ MainRuns(t) /\ kind[t] \in Kinds \ {"query"}
      /\ step \in {"declare", "fetch"} <=> kind[t] = "stream"
    BY <1>0, Caller DEF StepsOf, StatementFails
<1>2. /\ s \in Server /\ Set(t, s) /\ s.auto = Mine(t).auto
      /\ Mine(t).auto => s = Mine(t)
      /\ ~Mine(t).auto => s.txn = "failed"
    BY <1>0, Caller, AbortedIs DEF StatementFails
<1>3. /\ Holds(t) /\ conn[t] \notin tangled => Tidy(kind[t], step, Mine(t))
      /\ conn[t] = Shared => Clean(Mine(t))
      /\ pc[t] = "awaiting" /\ conn[t] \notin tangled =>
           Means(kind[t], step, result[t], t \in excused, t \in written)
    BY <1>0, Caller
<1>4. /\ UNCHANGED <<pc, kind, conn, undo, permits, pool, cancels, written>>
      /\ excused' = excused \cup {t} /\ faults' \in 0 .. MaxFaults
    <2>1. faults < MaxFaults /\ faults' = faults + 1 /\ faults \in 0 .. MaxFaults
        BY <1>0, Caller DEF StatementFails
    <2> QED
        BY <2>1, SessionAssumption DEF StatementFails
<1>5. conn[t] = Shared => Clean(s)
    BY <1>2, <1>3 DEF Clean
<1> HIDE DEF s
<1>6. CASE kind[t] \in {"fetch", "tables"}
    <2>1. EndMain(t, "error")
        BY <1>6 DEF StatementFails
    <2>2. Holds(t) /\ conn[t] \notin tangled =>
            Tidy(kind[t], "over", s) /\ InStep(t, kind[t], "over", s)
        BY <1>2, <1>3, <1>6 DEF Tidy, InStep, Bounded
    <2>3. pc[t] = "awaiting" /\ conn[t] \notin tangled =>
            Means(kind[t], "over", "error", t \in excused', t \in written')
        BY <1>4 DEF Means
    <2>4. /\ Main(t, "over") /\ "error" \in Results
          /\ result' = IF pc[t] = "awaiting" THEN [result EXCEPT ![t] = "error"] ELSE result
        BY <2>1 DEF EndMain, Results
    <2> QED
        BY <1>0, <1>1, <1>2, <1>4, <1>5, <2>2, <2>3, <2>4, Caller, MainKeeps
<1>7. CASE kind[t] \in {"stream", "execute"}
    <2>1. Main(t, "rollback") /\ "rollback" \in StepsOf(kind[t]) /\ UNCHANGED result
        BY <1>7 DEF StatementFails, StepsOf, Steps
    <2>2. Holds(t) /\ conn[t] \notin tangled =>
            Tidy(kind[t], "rollback", s) /\ InStep(t, kind[t], "rollback", s)
        BY <1>0, <1>1, <1>2, <1>3, <1>7 DEF Tidy, InStep, Between, Steps, Bounded
    <2>3. pc[t] = "awaiting" /\ conn[t] \notin tangled =>
            Means(kind[t], "rollback", result[t], t \in excused', t \in written')
        BY <1>0, <1>3, <1>4 DEF Means
    <2> QED
        BY <1>0, <1>1, <1>2, <1>4, <1>5, <2>1, <2>2, <2>3, Caller, MainKeeps
<1> QED
    BY <1>1, <1>6, <1>7 DEF Kinds, Bounded

(* One driver call of the rollback's job. *)
LEMMA UndoKeeps ==
    ASSUME SessionInv, NEW t \in Tasks, UndoRuns(t),
           NEW u \in {"restore", "over", "raised"}, Undo(t, u),
           NEW s \in Server, Set(t, s) \/ (s = Mine(t) /\ UNCHANGED server),
           Holds(t) /\ conn[t] \notin tangled /\ s.alive => Tidy(kind[t], main[t], s),
           UNCHANGED <<coroutine, main, permits, pool, written, faults, cancels>>
    PROVE  SessionInv'
<1>1. /\ Runs(t) /\ conn[t] # Nobody /\ conn[t] \in Conns
      /\ pc[t] \in {"undoing", "cancelled", "answered"} /\ TypeOK /\ InPlace(t)
    BY WhoRuns DEF Runs, SessionInv
<1>2. /\ server' \in [Conns \cup {Shared} -> Server] /\ server'[conn[t]] = s
      /\ \A c \in (Conns \cup {Shared}) \ {conn[t]} : server'[c] = server[c]
    BY <1>1, SetIs DEF TypeOK, Mine
<1>3. /\ undo' \in [Tasks -> {"rollback", "restore", "queued"} \cup Settled] /\ undo'[t] = u
      /\ \A v \in Tasks \ {t} : undo'[v] = undo[v]
    BY <1>1 DEF TypeOK, Undo, Settled
<1>4. TypeOK'
    BY <1>1, <1>2, <1>3 DEF TypeOK, pool, coroutine
<1>5. Work(t)
    BY <1>1, <1>2, <1>3 DEF Work, coroutine
<1>6. InPlace(t)'
    BY <1>1, <1>3 DEF InPlace, MainRuns, coroutine, UndoRuns
<1>7. Kept(t)'
    BY <1>1, <1>2, <1>6, SessionAssumption DEF Kept, Sound, Holds, pool, coroutine
<1> QED
    BY <1>4, <1>5, <1>7, WorkKeeps

LEMMA UndoCaller ==
    ASSUME SessionInv, NEW t \in Tasks, UndoRuns(t), Mine(t).alive
    PROVE  /\ Mine(t) \in Server
           /\ Holds(t) /\ conn[t] \notin tangled => Tidy(kind[t], main[t], Mine(t))
BY WhoRuns, IsKept DEF Runs, Mine, Kept, Sound, Holds

LEMMA UndoRollbackKeeps ==
    ASSUME SessionInv, NEW t \in Tasks, UndoRollback(t) PROVE SessionInv'
<1>1. UndoRuns(t) /\ Mine(t).alive /\ Set(t, Ended(Mine(t))) /\ Undo(t, "restore")
    BY DEF UndoRollback, UndoRuns
<1>2. Ended(Mine(t)) \in Server
    BY <1>1, UndoCaller, EndedIs
<1>3. Holds(t) /\ conn[t] \notin tangled => Tidy(kind[t], main[t], Ended(Mine(t)))
    BY <1>1, UndoCaller, EndedIs DEF Tidy
<1> QED
    BY <1>1, <1>2, <1>3, UndoKeeps DEF UndoRollback

LEMMA UndoRestoreKeeps ==
    ASSUME SessionInv, NEW t \in Tasks, UndoRestore(t) PROVE SessionInv'
<1>1. UndoRuns(t) /\ Mine(t).alive /\ Mine(t) \in Server
    BY UndoCaller DEF UndoRestore, UndoRuns
<1>2. CASE Mine(t).txn = "none"
    <2> DEFINE s == [Mine(t) EXCEPT !.auto = TRUE]
    <2>1. s \in Server /\ s.auto /\ s.txn = "none"
        BY <1>1, <1>2 DEF Server
    <2>2. Set(t, s) /\ Undo(t, "over")
        BY <1>2 DEF UndoRestore
    <2>3. Holds(t) /\ conn[t] \notin tangled => Tidy(kind[t], main[t], s)
        BY <1>1, <1>2, <2>1, UndoCaller DEF Tidy
    <2> HIDE DEF s
    <2> QED
        BY <1>1, <2>1, <2>2, <2>3, UndoKeeps DEF UndoRestore
<1>3. CASE Mine(t).txn # "none"
    BY <1>1, <1>3, UndoCaller, UndoKeeps DEF UndoRestore
<1> QED
    BY <1>2, <1>3

LEMMA CallOnLostKeeps ==
    ASSUME SessionInv, NEW t \in Tasks, CallOnLost(t) PROVE SessionInv'
<1>1. /\ UNCHANGED <<pc, kind, conn, excused, permits, pool, server, written, faults, cancels>>
      /\ Runs(t) /\ ~Mine(t).alive
    BY DEF CallOnLost, Runs
<1>2. Mine(t) \in Server /\ TypeOK
    BY <1>1, WhoRuns DEF Mine, SessionInv
<1>3. CASE MainRuns(t) /\ EndMain(t, "lost") /\ UNCHANGED undo
    <2>1. conn[t] = Shared /\ Mine(t).alive => Clean(Mine(t))
        BY <1>1
    <2>2. Means(kind[t], "over", "lost", t \in excused', t \in written')
        BY DEF Means
    <2>3. faults' \in 0 .. MaxFaults /\ written' \in SUBSET Tasks /\ excused' \in SUBSET Tasks
        BY <1>1, <1>2 DEF TypeOK
    <2> QED
        BY <1>1, <1>2, <1>3, <2>1, <2>2, <2>3, MainKeeps DEF EndMain, Results
<1>4. CASE UndoRuns(t) /\ Undo(t, "raised") /\ UNCHANGED <<main, result>>
    BY <1>1, <1>2, <1>4, UndoKeeps DEF coroutine
<1> QED
    BY <1>3, <1>4 DEF CallOnLost

-----------------------------------------------------------------------------
(* The coroutines *)

(* Nothing of the other requests changes. *)
OthersStand(t) ==
    /\ \A u \in Tasks \ {t} :
        /\ pc'[u] = pc[u] /\ kind'[u] = kind[u] /\ conn'[u] = conn[u]
        /\ main'[u] = main[u] /\ undo'[u] = undo[u] /\ result'[u] = result[u]
    /\ \A u \in Tasks \ {t} : u \in excused => u \in excused'
    /\ \A u \in Tasks \ {t} : u \in written => u \in written'

(* t gives its connection back: closed, with a thread at work, or clean. *)
GaveBack(t) ==
    /\ Holds(t) /\ pc'[t] = "answered" /\ conn'[t] = conn[t]
    /\ \/ /\ idle' = idle /\ opened' = opened \ {conn[t]} /\ tangled' = tangled \ {conn[t]}
       \/ /\ idle' = idle \cup {conn[t]} /\ opened' = opened
          /\ tangled' = tangled \cup {conn[t]}
       \/ /\ idle' = idle \cup {conn[t]} /\ opened' = opened /\ tangled' = tangled
          /\ ~Runs(t)'
          /\ conn[t] \notin tangled /\ server[conn[t]].alive => Clean(server[conn[t]])

(* t keeps what it holds, if anything. *)
KeptHold(t) ==
    /\ UNCHANGED pool
    /\ Holds(t)' => Holds(t) /\ conn'[t] = conn[t]
    /\ pc'[t] = "answered" /\ conn'[t] \in opened \ tangled => ~Runs(t)'

LEMMA CoroutineKeeps ==
    ASSUME SessionInv, NEW t \in Tasks, OthersStand(t), UNCHANGED server,
           KeptHold(t) \/ GaveBack(t), TypeOK', InPlace(t)', Answers(t)',
           Holds(t)' /\ conn'[t] \notin tangled' /\ server[conn'[t]].alive => Sound(t)',
           PermitInv'
    PROVE  SessionInv'
<1> USE DEF SessionInv, pool
<1>1. \A u \in Tasks : InPlace(u)'
    BY DEF OthersStand, InPlace, MainRuns
<1>2. \A u \in Tasks \ {t} : (Holds(u)' <=> Holds(u)) /\ (Runs(u)' <=> Runs(u))
    BY DEF OthersStand, Holds, Runs, MainRuns, UndoRuns
<1>3. GaveBack(t) => /\ conn[t] \in opened \ idle /\ ~Holds(t)'
                     /\ \A u \in Tasks \ {t} : Holds(u) => conn[u] # conn[t]
    BY DEF GaveBack, LeaseInv, Holds
<1>4. LeaseInv'
    <2>1. ASSUME NEW u \in Tasks, Holds(u)' PROVE conn'[u] \in opened' \ idle'
        <3>1. CASE u = t
            BY <1>3, <2>1, <3>1 DEF KeptHold, LeaseInv
        <3>2. CASE u # t
            <4>1. Holds(u) /\ conn[u] \in opened \ idle /\ conn'[u] = conn[u]
                BY <1>2, <2>1, <3>2 DEF LeaseInv, OthersStand
            <4> QED
                BY <1>3, <3>2, <4>1 DEF KeptHold, GaveBack
        <3> QED
            BY <3>1, <3>2
    <2>2. ASSUME NEW u \in Tasks, NEW v \in Tasks, Holds(u)', Holds(v)', conn'[u] = conn'[v]
          PROVE  u = v
        <3>1. Holds(u) /\ Holds(v) /\ conn'[u] = conn[u] /\ conn'[v] = conn[v]
            BY <1>2, <1>3, <2>2 DEF OthersStand, KeptHold
        <3> QED
            BY <2>2, <3>1 DEF LeaseInv
    <2>3. ASSUME NEW u \in Tasks, pc'[u] = "answered", conn'[u] \in opened' \ tangled'
          PROVE  ~Runs(u)'
        <3>1. CASE u = t
            BY <2>3, <3>1 DEF KeptHold, GaveBack
        <3>2. CASE u # t
            <4>1. pc[u] = "answered" /\ conn[u] \in opened \ tangled
                BY <2>3, <3>2 DEF KeptHold, GaveBack, OthersStand
            <4> QED
                BY <1>2, <3>2, <4>1 DEF LeaseInv
        <3> QED
            BY <3>1, <3>2
    <2> QED
        BY <2>1, <2>2, <2>3 DEF LeaseInv
<1>5. ServerInv'
    <2>1. ASSUME NEW c \in idle' \ tangled', server[c].alive PROVE Clean(server[c])
        BY <1>3, <2>1 DEF KeptHold, GaveBack, ServerInv
    <2>2. ASSUME NEW u \in Tasks, Holds(u)', conn'[u] \notin tangled', server[conn'[u]].alive
          PROVE  Sound(u)'
        <3>1. CASE u = t
            BY <2>2, <3>1
        <3>2. CASE u # t
            <4>1. Holds(u) /\ conn'[u] = conn[u] /\ conn[u] \notin tangled
                BY <1>2, <1>3, <2>2, <3>2 DEF OthersStand, KeptHold, GaveBack
            <4>2. Sound(u)
                BY <2>2, <4>1 DEF ServerInv
            <4> QED
                BY <3>2, <4>2 DEF OthersStand, Sound
        <3> QED
            BY <3>1, <3>2
    <2> QED
        BY <2>1, <2>2 DEF ServerInv
<1>6. AnswerInv'
    <2> SUFFICES ASSUME NEW u \in Tasks, u # t PROVE Answers(u)'
        BY DEF AnswerInv
    <2>1. Answers(u)
        BY DEF AnswerInv
    <2>2. pc[u] = "awaiting" /\ conn[u] \notin tangled' => conn[u] \notin tangled
        <3>1. CASE KeptHold(t)
            BY <3>1 DEF KeptHold
        <3>2. CASE GaveBack(t)
            <4>1. pc[u] = "awaiting" => conn[u] # conn[t]
                BY <1>3, <3>2, SessionAssumption DEF Holds, GaveBack, TypeOK
            <4> QED
                BY <3>2, <4>1 DEF GaveBack
        <3> QED
            BY <3>1, <3>2
    <2> QED
        BY <2>1, <2>2 DEF OthersStand, Answers, Told, Means
<1> QED
    BY <1>1, <1>4, <1>5, <1>6

LEMMA GivenBack ==
    ASSUME SessionInv, NEW t \in Tasks, NEW outcome, GiveBack(t, outcome),
           pc[t] \in {"pool", "awaiting", "undoing", "cancelled"}, pc'[t] = "answered",
           \A u \in Tasks \ {t} : pc'[u] = pc[u], UNCHANGED kind
    PROVE  PermitInv' /\ permits' \in 0 .. Permits
<1>1. ~Permitted(t)' /\ \A u \in Tasks \ {t} : Permitted(u)' <=> Permitted(u)
    BY DEF Permitted
<1>2. CASE kind[t] = "query"
    <2>1. Permitted(t) /\ permits' = permits + 1
        BY <1>2 DEF Permitted, GiveBack
    <2> QED
        BY <1>1, <2>1, PermitGiven
<1>3. CASE kind[t] # "query"
    <2>1. ~Permitted(t) /\ permits' = permits
        BY <1>3 DEF Permitted, GiveBack
    <2> QED
        BY <1>1, <2>1, PermitsSame
<1> QED
    BY <1>2, <1>3

(* The ways out of a session that has its connection. *)
LEMMA FinishKeeps ==
    ASSUME SessionInv, NEW t \in Tasks, pc[t] \in {"awaiting", "undoing", "cancelled"},
           NEW outcome \in Results, NEW broken,
           NEW m \in Steps \cup Settled, m = main[t] \/ (main[t] = "queued" /\ m = "none"),
           NEW u \in {"rollback", "restore"} \cup Settled,
           conn[t] = Shared => u = "none",
           Finish(t, outcome, broken, m, u),
           main' = [main EXCEPT ![t] = m], undo' = [undo EXCEPT ![t] = u],
           UNCHANGED <<kind, conn, server, written>>,
           excused \subseteq excused', excused' \in SUBSET Tasks,
           faults' \in 0 .. MaxFaults, cancels' \in 0 .. MaxCancels,
           outcome = "error" => kind[t] = "query" \/ t \in excused',
           outcome = "ok" /\ kind[t] # "tables" => t \in written \cup excused'
    PROVE  SessionInv'
<1>1. /\ TypeOK /\ InPlace(t) /\ conn[t] \in Conns \cup {Shared}
      /\ Holds(t) <=> conn[t] # Shared
    BY SessionAssumption DEF SessionInv, InPlace, TypeOK, Holds
<1>2. /\ pc' = [pc EXCEPT ![t] = "answered"] /\ result' = [result EXCEPT ![t] = outcome]
      /\ Release(t, broken, m, u) /\ GiveBack(t, outcome)
    BY DEF Finish, Answer, Goto
<1>3. /\ pc'[t] = "answered" /\ result'[t] = outcome /\ main'[t] = m /\ undo'[t] = u
      /\ OthersStand(t)
    BY <1>1, <1>2 DEF TypeOK, OthersStand
<1>4. PermitInv' /\ permits' \in 0 .. Permits
    BY <1>3, <1>2, GivenBack DEF OthersStand
<1>5. KeptHold(t) \/ GaveBack(t)
    <2>1. CASE conn[t] = Shared
        <3>1. UNCHANGED pool /\ conn[t] \notin opened
            BY <1>1, <1>2, <2>1, SessionAssumption DEF Release, TypeOK
        <3> QED
            BY <1>1, <1>3, <2>1, <3>1 DEF KeptHold, Holds
    <2>2. CASE conn[t] # Shared
        <3>1. Holds(t) /\ pc'[t] = "answered" /\ conn'[t] = conn[t]
            BY <1>1, <1>3, <2>2
        <3>2. CASE broken
            BY <1>2, <2>2, <3>1, <3>2 DEF Release, GaveBack
        <3>3. CASE ~broken /\ (m \in Steps \/ u \in {"rollback", "restore"})
            BY <1>2, <2>2, <3>1, <3>3 DEF Release, GaveBack
        <3>4. CASE ~broken /\ ~(m \in Steps \/ u \in {"rollback", "restore"})
            <4>1. idle' = idle \cup {conn[t]} /\ opened' = opened /\ tangled' = tangled
                BY <1>2, <2>2, <3>4 DEF Release
            <4>2. ~Runs(t)'
                BY <1>3, <3>4 DEF Runs, MainRuns, UndoRuns
            <4>3. main[t] \notin Between
                BY <3>4 DEF Between, Steps
            <4>4. conn[t] \notin tangled /\ server[conn[t]].alive => Clean(server[conn[t]])
                BY <3>1, <4>3 DEF SessionInv, ServerInv, Sound, Tidy, Clean
            <4> QED
                BY <3>1, <4>1, <4>2, <4>4 DEF GaveBack
        <3> QED
            BY <3>2, <3>3, <3>4
    <2> QED
        BY <2>1, <2>2
<1>6. TypeOK'
    <2>1. opened' \subseteq Conns /\ idle' \subseteq opened' /\ tangled' \subseteq opened'
        <3>1. Holds(t) => conn[t] \in opened \ idle
            BY DEF SessionInv, LeaseInv
        <3> QED
            BY <1>1, <1>5, <3>1 DEF KeptHold, GaveBack, TypeOK, pool
    <2>2. pc' \in [Tasks -> PCs] /\ result' \in [Tasks -> Results]
        BY <1>1, <1>2 DEF TypeOK, PCs
    <2>3. main' \in [Tasks -> Steps \cup Settled \cup {"queued"}]
          /\ undo' \in [Tasks -> {"rollback", "restore", "queued"} \cup Settled]
        BY <1>1 DEF TypeOK
    <2> QED
        BY <1>1, <1>4, <2>1, <2>2, <2>3 DEF TypeOK
<1>7. InPlace(t)'
    BY <1>1, <1>3, SessionAssumption DEF InPlace, MainRuns, Settled, Steps
<1>8. Answers(t)'
    BY <1>3 DEF Answers
<1>9. ~Holds(t)'
    BY <1>3 DEF Holds
<1> QED
    BY <1>3, <1>4, <1>5, <1>6, <1>7, <1>8, <1>9, CoroutineKeeps

LEMMA RequestKeeps ==
    ASSUME SessionInv, NEW t \in Tasks, Request(t) PROVE SessionInv'
<1>1. /\ TypeOK /\ InPlace(t) /\ pc[t] = "idle" /\ conn[t] = Nobody /\ result[t] = "none"
      /\ main[t] = "none" /\ undo[t] = "none"
    BY DEF SessionInv, Request, InPlace
<1>2. PICK k \in Kinds :
        /\ kind' = [kind EXCEPT ![t] = k]
        /\ IF k = "tables"
           THEN /\ Goto(t, "awaiting") /\ Main(t, "queued")
                /\ conn' = [conn EXCEPT ![t] = Shared]
           ELSE /\ Goto(t, IF k = "query" THEN "permit" ELSE "pool")
                /\ UNCHANGED <<conn, main>>
    BY DEF Request
<1>3. UNCHANGED <<undo, result, excused, permits, pool, server, written, faults, cancels>>
    BY DEF Request
<1>4. /\ pc' \in [Tasks -> PCs] /\ kind' \in [Tasks -> Kinds]
      /\ conn' \in [Tasks -> Conns \cup {Shared, Nobody}]
      /\ main' \in [Tasks -> Steps \cup Settled \cup {"queued"}]
    BY <1>1, <1>2 DEF TypeOK, Goto, Main, PCs
<1>5. /\ OthersStand(t) /\ kind'[t] = k
      /\ k = "tables" => pc'[t] = "awaiting" /\ conn'[t] = Shared /\ main'[t] = "queued"
      /\ k # "tables" => /\ pc'[t] = (IF k = "query" THEN "permit" ELSE "pool")
                         /\ conn'[t] = Nobody /\ main'[t] = "none"
    BY <1>1, <1>2, <1>3 DEF TypeOK, OthersStand, Goto, Main
<1>6. TypeOK'
    BY <1>1, <1>3, <1>4 DEF TypeOK, pool
<1>7. InPlace(t)'
    BY <1>1, <1>3, <1>5, SessionAssumption DEF InPlace, MainRuns, Steps
<1>8. ~Holds(t)' /\ KeptHold(t)
    BY <1>3, <1>5, SessionAssumption DEF Holds, KeptHold
<1>9. Answers(t)'
    BY <1>1, <1>3, <1>5 DEF Answers, Told, Means
<1>10. PermitInv'
    <2>1. ~Permitted(t) /\ ~Permitted(t)'
        BY <1>1, <1>5 DEF Permitted
    <2>2. \A u \in Tasks : Permitted(u)' <=> Permitted(u)
        BY <1>5, <2>1 DEF OthersStand, Permitted
    <2> QED
        BY <1>3, <2>2, PermitsSame
<1> QED
    BY <1>3, <1>5, <1>6, <1>7, <1>8, <1>9, <1>10, CoroutineKeeps

LEMMA EnterSemaphoreKeeps ==
    ASSUME SessionInv, NEW t \in Tasks, EnterSemaphore(t) PROVE SessionInv'
<1>1. /\ TypeOK /\ InPlace(t) /\ pc[t] = "permit" /\ conn[t] = Nobody /\ kind[t] = "query"
      /\ permits > 0 /\ permits' = permits - 1
      /\ pc' = [pc EXCEPT ![t] = "pool"]
      /\ UNCHANGED <<kind, conn, result, excused, jobs, pool, server, written, faults, cancels>>
    BY DEF SessionInv, EnterSemaphore, InPlace, Goto
<1>2. pc'[t] = "pool" /\ pc' \in [Tasks -> PCs] /\ OthersStand(t)
    BY <1>1 DEF TypeOK, PCs, OthersStand, jobs
<1>3. PermitInv' /\ permits' \in 0 .. Permits
    <2>1. /\ ~Permitted(t) /\ Permitted(t)'
          /\ \A u \in Tasks \ {t} : Permitted(u)' <=> Permitted(u)
        BY <1>1, <1>2 DEF Permitted, OthersStand
    <2> QED
        BY <1>1, <2>1, PermitTaken
<1>4. TypeOK'
    BY <1>1, <1>2, <1>3 DEF TypeOK, jobs, pool
<1>5. InPlace(t)'
    BY <1>1, <1>2, SessionAssumption DEF InPlace, MainRuns, jobs
<1>6. ~Holds(t)' /\ KeptHold(t) /\ Answers(t)'
    BY <1>1, <1>2 DEF Holds, KeptHold, Answers
<1> QED
    BY <1>1, <1>2, <1>3, <1>4, <1>5, <1>6, CoroutineKeeps

(* A request that ends before it has a connection. *)
LEMMA EndsWaiting ==
    ASSUME SessionInv, NEW t \in Tasks, pc[t] \in {"permit", "pool"},
           NEW outcome \in Results, Answer(t, outcome),
           IF pc[t] = "pool" THEN GiveBack(t, outcome) ELSE UNCHANGED permits,
           UNCHANGED <<kind, conn, jobs, pool, server, written>>,
           excused \subseteq excused', excused' \in SUBSET Tasks,
           outcome = "error" => t \in excused', outcome # "ok",
           faults' \in 0 .. MaxFaults, cancels' \in 0 .. MaxCancels
    PROVE  SessionInv'
<1>1. /\ TypeOK /\ InPlace(t) /\ conn[t] = Nobody /\ main[t] = "none" /\ undo[t] = "none"
    BY DEF SessionInv, InPlace
<1>2. /\ pc' \in [Tasks -> PCs] /\ pc'[t] = "answered"
      /\ result' \in [Tasks -> Results] /\ result'[t] = outcome
      /\ OthersStand(t)
    BY <1>1 DEF TypeOK, PCs, OthersStand, Answer, Goto, jobs
<1>3. PermitInv' /\ permits' \in 0 .. Permits
    <2>1. CASE pc[t] = "pool"
        BY <1>2, <2>1, GivenBack DEF OthersStand
    <2>2. CASE pc[t] = "permit"
        <3>1. ~Permitted(t) /\ ~Permitted(t)'
            BY <1>2, <2>2 DEF Permitted
        <3>2. \A u \in Tasks : Permitted(u)' <=> Permitted(u)
            BY <1>2, <3>1 DEF OthersStand, Permitted
        <3> QED
            BY <2>2, <3>2, PermitsSame
    <2> QED
        BY <2>1, <2>2
<1>4. TypeOK'
    BY <1>1, <1>2, <1>3 DEF TypeOK, jobs, pool
<1>5. InPlace(t)'
    BY <1>1, <1>2, SessionAssumption DEF InPlace, MainRuns, jobs
<1>6. ~Holds(t)' /\ KeptHold(t) /\ Answers(t)'
    BY <1>1, <1>2 DEF Holds, KeptHold, Answers, jobs, Runs, MainRuns, UndoRuns, Steps
<1> QED
    BY <1>2, <1>3, <1>4, <1>5, <1>6, CoroutineKeeps

LEMMA AcquireFailsKeeps ==
    ASSUME SessionInv, NEW t \in Tasks, AcquireFails(t) PROVE SessionInv'
<1>1. TypeOK
    BY DEF SessionInv
<1>2. faults' \in 0 .. MaxFaults /\ cancels' \in 0 .. MaxCancels
    BY <1>1, SessionAssumption DEF TypeOK, AcquireFails
<1>3. excused' = excused \cup {t} /\ excused' \in SUBSET Tasks
    BY <1>1 DEF TypeOK, AcquireFails
<1> QED
    BY <1>2, <1>3, EndsWaiting DEF AcquireFails, Results

(* Whichever connection it gets is nobody's, and clean if it can be.       *)
LEMMA AcquireKeeps ==
    ASSUME SessionInv, NEW t \in Tasks, Acquire(t) PROVE SessionInv'
<1> USE DEF SessionInv
<1>1. /\ TypeOK /\ InPlace(t) /\ pc[t] = "pool" /\ conn[t] = Nobody /\ result[t] = "none"
      /\ main[t] = "none" /\ undo[t] = "none" /\ kind[t] # "tables"
    BY SessionAssumption DEF Acquire, InPlace
<1>2. PICK c \in Conns :
        /\ \/ /\ c \in idle
              /\ UNCHANGED <<opened, server>>
           \/ /\ idle = {} /\ c \notin opened
              /\ ~\E u \in Tasks : conn[u] = c
              /\ opened' = opened \cup {c}
              /\ server' = [server EXCEPT ![c] = Connected]
        /\ idle' = idle \ {c}
        /\ conn' = [conn EXCEPT ![t] = c]
    BY DEF Acquire
<1>3. /\ UNCHANGED <<kind, result, excused, undo, permits, tangled, written, faults, cancels>>
      /\ pc' = [pc EXCEPT ![t] = "awaiting"] /\ main' = [main EXCEPT ![t] = "queued"]
    BY DEF Acquire, Goto, Main
<1>4. /\ pc'[t] = "awaiting" /\ main'[t] = "queued" /\ conn'[t] = c /\ OthersStand(t)
      /\ c # Shared /\ c # Nobody
    BY <1>1, <1>2, <1>3, SessionAssumption DEF TypeOK, OthersStand
<1>5. /\ server' \in [Conns \cup {Shared} -> Server]
      /\ \A d \in (Conns \cup {Shared}) \ {c} : server'[d] = server[d]
      /\ c \notin tangled /\ server'[c].alive => Clean(server'[c])
    BY <1>1, <1>2, ConnectedIs DEF TypeOK, ServerInv
<1>6. TypeOK'
    BY <1>1, <1>2, <1>3, <1>5 DEF TypeOK, PCs
<1>7. \A u \in Tasks : InPlace(u)'
    <2>1. InPlace(t)'
        BY <1>1, <1>3, <1>4 DEF InPlace, MainRuns, Steps
    <2>2. \A u \in Tasks \ {t} : InPlace(u)'
        BY <1>4 DEF OthersStand, InPlace, MainRuns
    <2> QED
        BY <2>1, <2>2
<1>8. \A u \in Tasks \ {t} : (Holds(u)' <=> Holds(u)) /\ (Runs(u)' <=> Runs(u))
    BY <1>4 DEF OthersStand, Holds, Runs, MainRuns, UndoRuns
<1>9. \A u \in Tasks : Holds(u) => conn[u] # c
    BY <1>2 DEF LeaseInv
<1>10. LeaseInv'
    <2>1. \A u \in Tasks : Holds(u)' => conn'[u] \in opened' \ idle'
        BY <1>1, <1>2, <1>4, <1>8 DEF OthersStand, LeaseInv, TypeOK
    <2>2. \A u, v \in Tasks : Holds(u)' /\ Holds(v)' /\ conn'[u] = conn'[v] => u = v
        BY <1>4, <1>8, <1>9 DEF OthersStand, LeaseInv
    <2>3. \A u \in Tasks : pc'[u] = "answered" /\ conn'[u] \in opened' \ tangled' => ~Runs(u)'
        BY <1>2, <1>3, <1>4, <1>8 DEF OthersStand, LeaseInv
    <2> QED
        BY <2>1, <2>2, <2>3 DEF LeaseInv
<1>11. ServerInv'
    <2>1. server'[Shared].alive => Clean(server'[Shared])
        BY <1>4, <1>5 DEF ServerInv
    <2>2. \A d \in idle' \ tangled' : server'[d].alive => Clean(server'[d])
        BY <1>1, <1>2, <1>3, <1>5 DEF ServerInv, TypeOK
    <2>3. ASSUME NEW u \in Tasks, Holds(u)', conn'[u] \notin tangled', server'[conn'[u]].alive
          PROVE  Sound(u)'
        <3>1. CASE u = t
            <4>1. Clean(server'[c])
                BY <1>3, <1>4, <1>5, <2>3, <3>1
            <4> QED
                BY <1>4, <3>1, <4>1 DEF Sound, Tidy, InStep, Clean, Between, Steps
        <3>2. CASE u # t
            <4>1. Holds(u) /\ conn'[u] = conn[u] /\ conn[u] \in Conns
                BY <1>4, <1>8, <2>3, <3>2 DEF OthersStand, Holds
            <4>2. server'[conn[u]] = server[conn[u]]
                BY <1>5, <1>9, <4>1
            <4>3. Sound(u)
                BY <1>3, <2>3, <4>1, <4>2 DEF ServerInv
            <4> QED
                BY <1>4, <3>2, <4>1, <4>2, <4>3 DEF OthersStand, Sound
        <3> QED
            BY <3>1, <3>2
    <2> QED
        BY <2>1, <2>2, <2>3 DEF ServerInv
<1>12. AnswerInv'
    <2>1. Answers(t)'
        BY <1>1, <1>3, <1>4 DEF Answers, Told, Means
    <2>2. \A u \in Tasks \ {t} : Answers(u)'
        BY <1>3, <1>4 DEF OthersStand, AnswerInv, Answers, Told, Means
    <2> QED
        BY <2>1, <2>2 DEF AnswerInv
<1>13. PermitInv'
    <2>1. \A u \in Tasks : Permitted(u)' <=> Permitted(u)
        BY <1>1, <1>3, <1>4 DEF OthersStand, Permitted
    <2> QED
        BY <1>3, <2>1, PermitsSame
<1> QED
    BY <1>6, <1>7, <1>10, <1>11, <1>12, <1>13

(* A step of t that moves it on and keeps its permit and its connection.   *)
LEMMA MovesOn ==
    ASSUME SessionInv, NEW t \in Tasks, pc[t] \in {"awaiting", "undoing", "cancelled"},
           NEW p \in {"awaiting", "undoing", "cancelled"}, pc' = [pc EXCEPT ![t] = p],
           NEW m \in Steps \cup Settled, main' = [main EXCEPT ![t] = m],
           NEW u \in {"rollback", "queued"} \cup Settled, undo' = [undo EXCEPT ![t] = u],
           UNCHANGED <<kind, conn, result, permits, pool, server, written, faults>>,
           cancels' \in 0 .. MaxCancels,
           excused \subseteq excused', excused' \in SUBSET Tasks,
           InPlace(t)', Answers(t)',
           main[t] \in Between \/ m \in Between => m = main[t],
           p = "awaiting" => pc[t] = "awaiting" /\ m \in {"begin", "statement"}
    PROVE  SessionInv'
<1>1. TypeOK /\ permits' = permits
    BY DEF SessionInv
<1>2. /\ pc'[t] = p /\ main'[t] = m /\ undo'[t] = u /\ OthersStand(t)
    BY <1>1 DEF TypeOK, OthersStand
<1>3. KeptHold(t) /\ (Holds(t)' => Holds(t))
    BY <1>2 DEF KeptHold, Holds
<1>4. TypeOK'
    BY <1>1 DEF TypeOK, PCs, pool
<1>5. ASSUME Holds(t)', conn'[t] \notin tangled', server[conn'[t]].alive PROVE Sound(t)'
    <2>1. Sound(t)
        BY <1>3, <1>5 DEF SessionInv, ServerInv, pool
    <2>2. Tidy(kind[t], m, server[conn[t]])
        BY <2>1 DEF Sound, Tidy, Between, Steps
    <2>3. p = "awaiting" => InStep(t, kind[t], m, server[conn[t]])
        BY DEF InStep
    <2> QED
        BY <1>2, <2>2, <2>3 DEF Sound
<1>6. PermitInv'
    <2>1. \A v \in Tasks : Permitted(v)' <=> Permitted(v)
        BY <1>2 DEF OthersStand, Permitted
    <2> QED
        BY <1>1, <2>1, PermitsSame
<1> QED
    BY <1>2, <1>3, <1>4, <1>5, <1>6, CoroutineKeeps

LEMMA StartMainKeeps ==
    ASSUME SessionInv, NEW t \in Tasks, StartMain(t) PROVE SessionInv'
<1> DEFINE m == First(kind[t])
<1>1. /\ TypeOK /\ InPlace(t) /\ Answers(t) /\ main[t] = "queued"
      /\ main' = [main EXCEPT ![t] = m]
      /\ UNCHANGED <<coroutine, undo, permits, pool, server, written, faults, cancels>>
    BY DEF SessionInv, AnswerInv, StartMain, Main
<1>2. pc[t] = "awaiting" /\ undo[t] = "none" /\ pc' = [pc EXCEPT ![t] = "awaiting"]
      /\ undo' = [undo EXCEPT ![t] = "none"]
    BY <1>1, SessionAssumption DEF InPlace, TypeOK, PCs, coroutine
<1>3. m \in {"begin", "statement"} /\ m \in StepsOf(kind[t]) /\ m \in Steps
    BY <1>1 DEF First, StepsOf, Steps, TypeOK, Kinds, Bounded
<1>4. main'[t] = m
    BY <1>1 DEF TypeOK
<1> HIDE DEF m
<1>5. InPlace(t)'
    BY <1>1, <1>2, <1>3, <1>4 DEF InPlace, MainRuns, coroutine
<1>6. Answers(t)'
    BY <1>1, <1>2, <1>3, <1>4 DEF Answers, Told, Means, coroutine, pool
<1>7. main[t] \notin Between /\ m \notin Between
    BY <1>1, <1>3 DEF Between, Steps
<1>8. cancels' \in 0 .. MaxCancels /\ excused' \in SUBSET Tasks
    BY <1>1 DEF TypeOK, coroutine
<1> QED
    BY <1>1, <1>2, <1>3, <1>5, <1>6, <1>7, <1>8, MovesOn DEF coroutine, Settled

LEMMA StartUndoKeeps ==
    ASSUME SessionInv, NEW t \in Tasks, StartUndo(t) PROVE SessionInv'
<1>1. /\ TypeOK /\ InPlace(t) /\ Answers(t) /\ undo[t] = "queued"
      /\ undo' = [undo EXCEPT ![t] = "rollback"]
      /\ UNCHANGED <<coroutine, main, permits, pool, server, written, faults, cancels>>
    BY DEF SessionInv, AnswerInv, StartUndo, Undo
<1>2. /\ pc[t] \in {"undoing", "cancelled"} /\ main[t] \in Steps \cup Settled
      /\ pc' = [pc EXCEPT ![t] = pc[t]] /\ main' = [main EXCEPT ![t] = main[t]]
    BY <1>1, SessionAssumption DEF InPlace, TypeOK, PCs, coroutine
<1>3. undo'[t] = "rollback"
    BY <1>1 DEF TypeOK
<1>4. InPlace(t)'
    BY <1>1, <1>2, <1>3 DEF InPlace, MainRuns, coroutine
<1>5. Answers(t)'
    BY <1>1, <1>2 DEF Answers, coroutine
<1>6. cancels' \in 0 .. MaxCancels /\ excused' \in SUBSET Tasks
    BY <1>1 DEF TypeOK, coroutine
<1> QED
    BY <1>1, <1>2, <1>4, <1>5, <1>6, MovesOn DEF coroutine, Settled

LEMMA ResumeKeeps ==
    ASSUME SessionInv, NEW t \in Tasks, Resume(t) PROVE SessionInv'
<1>1. /\ TypeOK /\ InPlace(t) /\ Answers(t) /\ pc[t] = "awaiting" /\ main[t] = "over"
      /\ undo[t] = "none"
      /\ UNCHANGED <<kind, conn, main, server, written, faults, cancels>>
    BY DEF SessionInv, AnswerInv, Resume, InPlace
<1>2. /\ excused \subseteq excused' /\ excused' \in SUBSET Tasks
      /\ conn[t] \in tangled \/ result[t] = "lost" => t \in excused'
    BY <1>1 DEF Resume, TypeOK
<1>3. conn[t] \notin tangled =>
        Means(kind[t], "over", result[t], t \in excused, t \in written)
    BY <1>1 DEF Answers, Told
<1>4. /\ result[t] = "error" => kind[t] = "query" \/ t \in excused'
      /\ result[t] = "ok" /\ kind[t] # "tables" => t \in written \cup excused'
      /\ kind[t] = "tables" /\ result[t] # "ok" => t \in excused'
    <2>1. conn[t] \in tangled \/ result[t] \in {"ok", "error", "lost"}
        BY <1>1, <1>3 DEF Means, TypeOK, Results
    <2> QED
        BY <1>2, <1>3, <2>1 DEF Means
<1>5. main' = [main EXCEPT ![t] = "over"]
    BY <1>1 DEF TypeOK
<1>6. faults' \in 0 .. MaxFaults /\ cancels' \in 0 .. MaxCancels
    BY <1>1 DEF TypeOK
<1>7. ASSUME NEW outcome \in {"ok", "error"}, NEW broken,
             Finish(t, outcome, broken, "over", "none"), UNCHANGED undo,
             outcome = "ok" => result[t] = "ok",
             outcome = "error" =>
               (kind[t] = "tables" /\ result[t] # "ok") \/ result[t] = "lost"
      PROVE  SessionInv'
    <2>1. undo' = [undo EXCEPT ![t] = "none"]
        BY <1>1, <1>7 DEF TypeOK
    <2>2. /\ outcome = "error" => kind[t] = "query" \/ t \in excused'
          /\ outcome = "ok" /\ kind[t] # "tables" => t \in written \cup excused'
        BY <1>2, <1>4, <1>7
    <2>3. "over" \in Steps \cup Settled /\ "none" \in {"rollback", "restore"} \cup Settled
          /\ outcome \in Results
        BY <1>7 DEF Settled, Results
    <2> QED
        BY <1>1, <1>2, <1>5, <1>6, <1>7, <2>1, <2>2, <2>3, FinishKeeps
<1>8. CASE /\ result[t] = "ok" \/ kind[t] = "tables"
           /\ Finish(t, IF result[t] = "ok" THEN "ok" ELSE "error", FALSE, "over", "none")
           /\ UNCHANGED undo
    BY <1>7, <1>8
<1>9. CASE /\ result[t] = "lost" /\ kind[t] # "tables"
           /\ Finish(t, "error", TRUE, "over", "none")
           /\ UNCHANGED undo
    BY <1>7, <1>9
<1>10. CASE /\ result[t] = "error" /\ kind[t] # "tables"
            /\ Goto(t, "undoing") /\ Undo(t, "queued")
            /\ UNCHANGED <<result, permits, pool>>
    <2>1. /\ pc' = [pc EXCEPT ![t] = "undoing"] /\ pc'[t] = "undoing"
          /\ undo' = [undo EXCEPT ![t] = "queued"] /\ undo'[t] = "queued"
        BY <1>1, <1>10 DEF Goto, Undo, TypeOK
    <2>2. InPlace(t)' /\ Answers(t)'
        BY <1>1, <1>4, <1>10, <2>1, SessionAssumption
        DEF InPlace, Answers, MainRuns, Steps, TypeOK
    <2>3. "over" \in Steps \cup Settled
        BY DEF Settled
    <2> QED
        BY <1>1, <1>2, <1>5, <1>6, <1>10, <2>1, <2>2, <2>3, MovesOn
<1> QED
    BY <1>8, <1>9, <1>10 DEF Resume

LEMMA UndoneKeeps ==
    ASSUME SessionInv, NEW t \in Tasks, Undone(t) PROVE SessionInv'
<1> DEFINE outcome == IF pc[t] = "undoing" THEN "error" ELSE "cancelled"
           broken == undo[t] = "raised"
<1>1. /\ TypeOK /\ InPlace(t) /\ Answers(t) /\ pc[t] \in {"undoing", "cancelled"}
      /\ undo[t] \in {"over", "raised"}
      /\ Finish(t, outcome, broken, main[t], undo[t])
      /\ UNCHANGED <<kind, conn, jobs, server, excused, written, faults, cancels>>
    BY DEF SessionInv, AnswerInv, Undone
<1>2. /\ main[t] \in Steps \cup Settled /\ undo[t] \in {"rollback", "restore"} \cup Settled
      /\ main' = [main EXCEPT ![t] = main[t]] /\ undo' = [undo EXCEPT ![t] = undo[t]]
      /\ conn[t] # Shared
    BY <1>1, SessionAssumption DEF TypeOK, InPlace, jobs, Settled
<1>3. /\ outcome \in Results /\ outcome # "ok"
      /\ outcome = "error" => kind[t] = "query" \/ t \in excused'
      /\ excused' \in SUBSET Tasks /\ faults' \in 0 .. MaxFaults /\ cancels' \in 0 .. MaxCancels
    BY <1>1 DEF Results, Answers, TypeOK
<1> HIDE DEF outcome, broken
<1> QED
    BY <1>1, <1>2, <1>3, FinishKeeps

(* A request whose threads are through leaves its name; what the server    *)
(* keeps of it is forgotten with it.                                       *)
LEMMA ForgetKeeps ==
    ASSUME SessionInv, NEW t \in Tasks, Forget(t) PROVE SessionInv'
<1> USE DEF SessionInv
<1>1. /\ TypeOK /\ pc[t] = "answered"
      /\ pc' = [pc EXCEPT ![t] = "idle"] /\ main' = [main EXCEPT ![t] = "none"]
      /\ undo' = [undo EXCEPT ![t] = "none"] /\ kind' = [kind EXCEPT ![t] = "fetch"]
      /\ conn' = [conn EXCEPT ![t] = Nobody] /\ result' = [result EXCEPT ![t] = "none"]
      /\ excused' = excused \ {t} /\ written' = written \ {t}
      /\ UNCHANGED <<permits, opened, idle, tangled, faults, cancels>>
    BY DEF Forget, Goto, Main, Undo, pool
<1>2. /\ pc'[t] = "idle" /\ main'[t] = "none" /\ undo'[t] = "none" /\ kind'[t] = "fetch"
      /\ conn'[t] = Nobody /\ result'[t] = "none" /\ OthersStand(t)
    BY <1>1 DEF TypeOK, OthersStand
<1>3. server' = [c \in Conns \cup {Shared} |->
                   [server[c] EXCEPT !.pending = @ \ {t}]]
    BY <1>1 DEF Forget, TypeOK
<1>4. \A c \in Conns \cup {Shared} :
        /\ server'[c] \in Server
        /\ server'[c].auto = server[c].auto /\ server'[c].txn = server[c].txn
        /\ server'[c].alive = server[c].alive
        /\ \A u \in Tasks \ {t} : u \in server[c].pending => u \in server'[c].pending
    <2> TAKE c \in Conns \cup {Shared}
    <2>1. server[c] \in Server
        BY <1>1 DEF TypeOK
    <2> QED
        BY <1>3, <2>1 DEF Server
<1>5. TypeOK'
    <2>1. server' \in [Conns \cup {Shared} -> Server]
        BY <1>3, <1>4
    <2> QED
        BY <1>1, <2>1 DEF TypeOK, PCs, Kinds, Results, Settled
<1>6. \A u \in Tasks : InPlace(u)'
    <2>1. InPlace(t)'
        BY <1>2, SessionAssumption DEF InPlace, MainRuns, Steps
    <2>2. \A u \in Tasks \ {t} : InPlace(u)'
        BY <1>2 DEF OthersStand, InPlace, MainRuns
    <2> QED
        BY <2>1, <2>2
<1>7. \A u \in Tasks : (Holds(u)' <=> Holds(u)) /\ (Holds(u) => u # t)
    BY <1>1, <1>2 DEF OthersStand, Holds
<1>8. LeaseInv'
    <2>1. \A u \in Tasks : pc'[u] = "answered" /\ conn'[u] \in opened' \ tangled' => ~Runs(u)'
        BY <1>1, <1>2 DEF OthersStand, LeaseInv, Runs, MainRuns, UndoRuns
    <2> QED
        BY <1>1, <1>2, <1>7, <2>1 DEF OthersStand, LeaseInv
<1>9. ServerInv'
    <2>1. \A c \in Conns \cup {Shared} : Clean(server[c]) => Clean(server'[c])
        BY <1>4 DEF Clean
    <2>2. ASSUME NEW u \in Tasks, Holds(u)', conn'[u] \notin tangled', server'[conn'[u]].alive
          PROVE  Sound(u)'
        <3>1. Holds(u) /\ u # t /\ conn'[u] = conn[u] /\ conn[u] \in Conns
            BY <1>2, <1>7, <2>2 DEF OthersStand, Holds
        <3>2. Sound(u)
            BY <1>1, <1>4, <2>2, <3>1 DEF ServerInv
        <3>3. pc'[u] = pc[u] /\ kind'[u] = kind[u] /\ main'[u] = main[u]
            BY <1>2, <3>1 DEF OthersStand
        <3>4. Tidy(kind[u], main[u], server'[conn[u]])
            BY <1>4, <3>1, <3>2 DEF Sound, Tidy
        <3>5. pc[u] = "awaiting" => InStep(u, kind[u], main[u], server'[conn[u]])
            BY <1>4, <3>1, <3>2 DEF Sound, InStep, Valid
        <3> QED
            BY <3>1, <3>3, <3>4, <3>5 DEF Sound
    <2> QED
        BY <1>1, <1>4, <2>1, <2>2 DEF ServerInv, TypeOK
<1>10. AnswerInv'
    <2>1. Answers(t)'
        BY <1>2 DEF Answers
    <2>2. \A u \in Tasks \ {t} : Answers(u)'
        BY <1>1, <1>2 DEF OthersStand, AnswerInv, Answers, Told, Means
    <2> QED
        BY <2>1, <2>2 DEF AnswerInv
<1>11. PermitInv'
    <2>1. \A u \in Tasks : Permitted(u)' <=> Permitted(u)
        BY <1>1, <1>2 DEF OthersStand, Permitted
    <2> QED
        BY <1>1, <2>1, PermitsSame
<1> QED
    BY <1>5, <1>6, <1>8, <1>9, <1>10, <1>11

LEMMA CancelKeeps ==
    ASSUME SessionInv, NEW t \in Tasks, Cancel(t) PROVE SessionInv'
<1>1. /\ TypeOK /\ InPlace(t) /\ Answers(t)
      /\ UNCHANGED <<kind, conn, excused, server, written, faults>>
      /\ cancels < MaxCancels /\ cancels' = cancels + 1
    BY DEF SessionInv, AnswerInv, Cancel
<1>2. /\ cancels' \in 0 .. MaxCancels /\ faults' \in 0 .. MaxFaults /\ excused' \in SUBSET Tasks
      /\ excused \subseteq excused' /\ "cancelled" \in Results
    BY <1>1, SessionAssumption DEF TypeOK, Results
<1>3. CASE CancelWaiting(t)
    BY <1>1, <1>2, <1>3, EndsWaiting DEF CancelWaiting
<1>4. CASE CancelAwaiting(t)
    <2> DEFINE left == IF main[t] = "queued" THEN "none" ELSE main[t]
    <2>1. /\ pc[t] = "awaiting" /\ main' = [main EXCEPT ![t] = left] /\ main'[t] = left
          /\ undo[t] = "none" /\ left \in Steps \cup Settled
          /\ left = main[t] \/ (main[t] = "queued" /\ left = "none")
        BY <1>1, <1>4 DEF CancelAwaiting, Main, TypeOK, InPlace, Settled
    <2>2. CASE kind[t] = "tables"
        <3>1. Finish(t, "cancelled", FALSE, left, "none") /\ UNCHANGED undo
            BY <1>4, <2>2 DEF CancelAwaiting
        <3>2. undo' = [undo EXCEPT ![t] = "none"] /\ "none" \in Settled
            BY <1>1, <2>1, <3>1 DEF TypeOK, Settled
        <3> HIDE DEF left
        <3> QED
            BY <1>1, <1>2, <2>1, <3>1, <3>2, FinishKeeps
    <2>3. CASE kind[t] # "tables"
        <3>1. /\ pc' = [pc EXCEPT ![t] = "cancelled"] /\ pc'[t] = "cancelled"
              /\ undo' = [undo EXCEPT ![t] = "queued"] /\ undo'[t] = "queued"
              /\ UNCHANGED <<result, permits, pool>>
            BY <1>1, <1>4, <2>3 DEF CancelAwaiting, Goto, Undo, TypeOK
        <3>2. InPlace(t)'
            BY <1>1, <2>1, <2>3, <3>1, SessionAssumption
            DEF InPlace, MainRuns, TypeOK, Steps
        <3>3. Answers(t)'
            BY <3>1 DEF Answers
        <3>4. main[t] \in Between \/ left \in Between => left = main[t]
            BY DEF Between, Steps
        <3> HIDE DEF left
        <3> QED
            BY <1>1, <1>2, <2>1, <3>1, <3>2, <3>3, <3>4, MovesOn
    <2> QED
        BY <2>2, <2>3
<1>5. CASE CancelUndoing(t)
    <2> DEFINE left == IF undo[t] = "queued" THEN "none" ELSE undo[t]
    <2>1. /\ pc[t] \in {"undoing", "cancelled"} /\ Finish(t, "cancelled", FALSE, main[t], left)
          /\ undo' = [undo EXCEPT ![t] = left] /\ UNCHANGED main
        BY <1>5 DEF CancelUndoing, Undo
    <2>2. /\ main[t] \in Steps \cup Settled /\ left \in {"rollback", "restore"} \cup Settled
          /\ main' = [main EXCEPT ![t] = main[t]] /\ conn[t] # Shared
        BY <1>1, <2>1, SessionAssumption DEF TypeOK, InPlace, Settled
    <2> HIDE DEF left
    <2> QED
        BY <1>1, <1>2, <2>1, <2>2, FinishKeeps
<1> QED
    BY <1>3, <1>4, <1>5 DEF Cancel

LEMMA ConnectionLostKeeps ==
    ASSUME SessionInv, NEW c \in Conns \cup {Shared}, ConnectionLost(c) PROVE SessionInv'
<1> USE DEF SessionInv
<1>1. /\ TypeOK /\ UNCHANGED <<coroutine, jobs, permits, pool, written, cancels>>
      /\ server' = [server EXCEPT ![c] = [Connected EXCEPT !.alive = FALSE]]
      /\ faults' \in 0 .. MaxFaults
    BY SessionAssumption DEF ConnectionLost, TypeOK
<1>2. /\ server' \in [Conns \cup {Shared} -> Server] /\ ~server'[c].alive
      /\ \A d \in (Conns \cup {Shared}) \ {c} : server'[d] = server[d]
    BY <1>1, ConnectedIs DEF TypeOK
<1>3. TypeOK' /\ \A t \in Tasks : InPlace(t)'
    BY <1>1, <1>2 DEF TypeOK, InPlace, MainRuns, coroutine, jobs, pool
<1>4. LeaseInv' /\ AnswerInv'
    BY <1>1 DEF LeaseInv, Holds, Runs, MainRuns, UndoRuns, AnswerInv, Answers, Told,
                coroutine, jobs, pool
<1>5. ServerInv'
    BY <1>1, <1>2 DEF ServerInv, Holds, Sound, TypeOK, coroutine, jobs, pool
<1>6. PermitInv'
    BY <1>1, PermitsSame DEF Permitted, coroutine
<1> QED
    BY <1>3, <1>4, <1>5, <1>6

-----------------------------------------------------------------------------
(* The invariant holds, and what it says *)

LEMMA NextKeeps == SessionInv /\ [Next]_vars => SessionInv'
<1> SUFFICES ASSUME SessionInv, [Next]_vars PROVE SessionInv'
    OBVIOUS
<1>1. CASE \E t \in Tasks : Request(t) \/ Waits(t) \/ AcquireFails(t) \/ Cancel(t)
    BY <1>1, RequestKeeps, EnterSemaphoreKeeps, AcquireKeeps, StartMainKeeps, StartUndoKeeps,
       AcquireFailsKeeps, CancelKeeps DEF Waits
<1>2. CASE \E t \in Tasks : Thread(t) \/ StatementFails(t)
    BY <1>2, BeginKeeps, DeclareKeeps, FetchKeeps, StatementKeeps, CommitKeeps,
       RollbackKeeps, RestoreKeeps, UndoRollbackKeeps, UndoRestoreKeeps, CallOnLostKeeps,
       StatementFailsKeeps DEF Thread
<1>3. CASE \E t \in Tasks : Coroutine(t)
    BY <1>3, ResumeKeeps, UndoneKeeps, ForgetKeeps DEF Coroutine
<1>4. CASE \E c \in Conns \cup {Shared} : ConnectionLost(c)
    BY <1>4, ConnectionLostKeeps
<1>5. CASE UNCHANGED vars
    <2> USE <1>5 DEF SessionInv, vars, coroutine, jobs, pool
    <2>1. TypeOK' /\ \A t \in Tasks : InPlace(t)'
        BY DEF TypeOK, InPlace, MainRuns
    <2>2. LeaseInv' /\ AnswerInv' /\ ServerInv'
        BY DEF LeaseInv, Holds, Runs, MainRuns, UndoRuns, AnswerInv, Answers, Told, ServerInv,
               Sound
    <2>3. PermitInv'
        BY PermitsSame DEF Permitted
    <2> QED
        BY <2>1, <2>2, <2>3
<1> QED
    BY <1>1, <1>2, <1>3, <1>4, <1>5 DEF Next

LEMMA SessionInvHolds == Spec => []SessionInv
BY InitHolds, NextKeeps, PTL DEF Spec

(* Every variable keeps its type; the permits of a cost class are never    *)
(* more than it has (query_service.py:214-216).                            *)
THEOREM SessionTypeCorrect == Spec => []TypeOK
<1>1. SessionInv => TypeOK
    BY DEF SessionInv
<1> QED
    BY <1>1, SessionInvHolds, PTL

(* A connection comes back as connect() made it, however its request was   *)
(* cut short, unless one of its threads is still at work on it             *)
(* (session.py:568-592).                                                   *)
THEOREM CleanConnections == Spec => []IdleIsClean
<1>1. SessionInv => IdleIsClean
    BY DEF SessionInv, ServerInv, Clean, IdleIsClean
<1> QED
    BY <1>1, SessionInvHolds, PTL

(* A request that fails has a cause of its own; it does not pay for what   *)
(* an earlier one left on its connection (pool/base.py:11-15).  The        *)
(* service's queries are not among them: they always fail.                 *)
THEOREM FailuresAreOwn == Spec => []FailsOnlyForCause
<1>1. SessionInv => FailsOnlyForCause
    BY DEF SessionInv, AnswerInv, Answers, FailsOnlyForCause
<1> QED
    BY <1>1, SessionInvHolds, PTL

(* A request that was told it succeeded has its effect committed           *)
(* (postgresql.py:221-244).                                                *)
THEOREM SuccessIsCommitted == Spec => []AckedIsCommitted
<1>1. SessionInv => AckedIsCommitted
    BY DEF SessionInv, AnswerInv, Answers, AckedIsCommitted
<1> QED
    BY <1>1, SessionInvHolds, PTL
=============================================================================
