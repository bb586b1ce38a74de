----------------------------- MODULE StateStore -----------------------------
(***************************************************************************)
(* ApplicationStateStore over its pool (core/storage/                      *)
(* application_state_store.py), the thread that flushes observability      *)
(* records through it (core/observability/write_queue.py), and the         *)
(* shutdown that stops the one and disconnects the other (core/app/        *)
(* lifecycle/application_state.py).                                        *)
(*                                                                         *)
(* Request threads, the maintenance thread and the snapshot publisher are  *)
(* Tasks: they run single statements and transactions, and some of them    *)
(* may still do so after disconnect().  Flusher is the background thread,  *)
(* Stopper the thread that shuts down.  An item is what one statement or   *)
(* one record writes.                                                      *)
(***************************************************************************)
EXTENDS SyncPool, Sequences

CONSTANTS
    Tasks, Flusher, Stopper,
    Records,    \* what requests emit, each once
    MaxBatch,   \* records of one flush
    MaxFaults   \* bound: failing statements, records, creations, lost connections

ASSUME StoreAssumption ==
    /\ Threads = Tasks \cup {Flusher, Stopper}
    /\ Flusher \notin Tasks /\ Stopper \notin Tasks /\ Flusher # Stopper
    /\ Records \cap (Threads \X {1, 2}) = {}
    /\ MaxBatch \in Nat \ {0} /\ MaxFaults \in Nat

VARIABLES
    op,       \* the driver call a thread is at
    todo,     \* items it has still to write
    batch,    \* all items of its call
    failed,   \* whether an exception is on its way up
    server,   \* each connection: autocommit, transaction, items in it
    queue,    \* _queue
    emitted,  \* records that were enqueued
    flusher,  \* the background thread
    stage,    \* the shutdown
    written,  \* ghost: items committed
    spoiled,  \* ghost: items whose call met a fault
    faults

threadVars == <<op, todo, batch, failed>>
queueVars == <<queue, emitted, flusher, stage>>
vars == <<poolVars, threadVars, server, queueVars, written, spoiled, faults>>

Items == (Tasks \X {1, 2}) \cup Records
Ops == {"none", "one", "begin", "body", "commit", "rollback", "restore", "release"}
Server == [auto : BOOLEAN, txn : {"none", "open", "failed"},
           pending : SUBSET Items, alive : BOOLEAN]
Fresh == [auto |-> TRUE, txn |-> "none", pending |-> {}, alive |-> TRUE]

TypeOK ==
    /\ PoolTypeOK
    /\ op \in [Threads -> Ops]
    /\ todo \in [Threads -> SUBSET Items] /\ batch \in [Threads -> SUBSET Items]
    /\ failed \in [Threads -> BOOLEAN]
    /\ server \in [Conns -> Server]
    /\ queue \in Seq(Records) /\ emitted \subseteq Records
    /\ flusher \in {"asleep", "flushing", "ended"}
    /\ stage \in {"serving", "joining", "flushing", "disconnecting", "closed"}
    /\ written \subseteq Items /\ spoiled \subseteq Items
    /\ faults \in 0 .. MaxFaults

Init ==
    /\ PoolInit
    /\ op = [t \in Threads |-> "none"]
    /\ todo = [t \in Threads |-> {}] /\ batch = [t \in Threads |-> {}]
    /\ failed = [t \in Threads |-> FALSE]
    /\ server = [c \in Conns |-> Fresh]
    /\ queue = <<>> /\ emitted = {}
    /\ flusher = "asleep" /\ stage = "serving"
    /\ written = {} /\ spoiled = {} /\ faults = 0

Do(t, step) == op' = [op EXCEPT ![t] = step]
Fault == faults < MaxFaults /\ faults' = faults + 1
poolRest == <<held, available, inUse, slots, sizer, open>>

(* A thread calls the store to write `items`, by a single statement or in  *)
(* a transaction.                                                          *)
Enter(t, items, first) ==
    /\ Call(t)
    /\ Do(t, first)
    /\ todo' = [todo EXCEPT ![t] = items]
    /\ batch' = [batch EXCEPT ![t] = items]
    /\ UNCHANGED <<poolRest, failed>>

-----------------------------------------------------------------------------
(* Requests and records *)

(* execute(), fetch_one() or fetch_all() *)
RunOne(t) ==
    /\ Enter(t, {<<t, 1>>}, "one")
    /\ UNCHANGED <<server, queueVars, written, spoiled, faults>>

(* transaction() *)
RunTransaction(t) ==
    /\ Enter(t, {t} \X {1, 2}, "begin")
    /\ UNCHANGED <<server, queueVars, written, spoiled, faults>>

(* emit_request_observability(), log_audit_event(): requests are over      *)
(* before the shutdown begins.                                             *)
Enqueue(r) ==
    /\ stage = "serving" /\ r \notin emitted
    /\ queue' = Append(queue, r)
    /\ emitted' = emitted \cup {r}
    /\ UNCHANGED <<poolVars, threadVars, server, flusher, stage, written, spoiled, faults>>

First(n) == {queue[i] : i \in 1 .. n}

(* One round of _run(): sleep, _drain(), _flush_batch(). *)
Drain ==
    /\ flusher = "asleep"
    /\ LET n == AtMost(Len(queue), MaxBatch)
       IN  \/ /\ n > 0
              /\ Enter(Flusher, First(n), "begin")
              /\ queue' = SubSeq(queue, n + 1, Len(queue))
              /\ flusher' = "flushing"
           \/ /\ n = 0 /\ stage # "serving"
              /\ flusher' = "ended"
              /\ UNCHANGED <<poolVars, threadVars, queue>>
    /\ UNCHANGED <<server, emitted, stage, written, spoiled, faults>>

(* stop(): the event is set, and the thread joined for five seconds. *)
Stop ==
    /\ stage = "serving"
    /\ stage' = "joining"
    /\ UNCHANGED <<poolVars, threadVars, server, queue, emitted, flusher, written,
                   spoiled, faults>>

(* Mutant: what is left in the queue is not drained. *)
FlushRestNot ==
    /\ stage' = "disconnecting"
    /\ UNCHANGED <<poolVars, threadVars, queue>>

(* _drain(unlimited=True), then _flush_batch() *)
FlushRest ==
    \/ /\ queue # <<>>
       /\ Enter(Stopper, First(Len(queue)), "begin")
       /\ queue' = <<>>
       /\ stage' = "flushing"
    \/ /\ queue = <<>>
       /\ stage' = "disconnecting"
       /\ UNCHANGED <<poolVars, threadVars, queue>>

JoinEnds ==
    /\ stage = "joining" /\ flusher = "ended"
    /\ FlushRest
    /\ UNCHANGED <<server, emitted, flusher, written, spoiled, faults>>

JoinTimesOut ==
    /\ Fault
    /\ stage = "joining" /\ flusher # "ended"
    /\ FlushRest
    /\ UNCHANGED <<server, emitted, flusher, written, spoiled>>

(* disconnect(): close_all() closes what threads still use, too. *)
Disconnect ==
    /\ stage = "disconnecting"
    /\ stage' = "closed"
    /\ CloseAll
    /\ server' = [c \in Conns |-> IF c \in inUse THEN [Fresh EXCEPT !.alive = FALSE]
                                  ELSE Fresh]
    /\ spoiled' = spoiled \cup UNION {batch[t] : t \in {u \in Threads : held[u] \in inUse}}
    /\ UNCHANGED <<threadVars, queue, emitted, flusher, written, faults>>

-----------------------------------------------------------------------------
(* Driver calls of the thread that holds the connection *)

Mine(t) == server[held[t]]
At(t, step) == pc[t] = "holding" /\ op[t] = step /\ Mine(t).alive
Set(t, state) == server' = [server EXCEPT ![held[t]] = state]
Raise(t) == failed' = [failed EXCEPT ![t] = TRUE]
(* _flush_batch() catches what one record raises; other callers do not. *)
Catches(t) == t \in {Flusher, Stopper}
frame == <<poolVars, batch, queueVars, faults>>

(* The statement of execute() and the fetches; its commit() changes        *)
(* nothing in autocommit.                                                  *)
One(t) ==
    /\ At(t, "one")
    /\ IF Mine(t).txn = "failed" THEN Raise(t) /\ UNCHANGED <<server, written>>
       ELSE IF Mine(t).auto
       THEN written' = written \cup batch[t] /\ UNCHANGED <<failed, server>>
       ELSE /\ Set(t, [Mine(t) EXCEPT !.txn = "open", !.pending = @ \cup batch[t]])
            /\ UNCHANGED <<failed, written>>
    /\ Do(t, "release")
    /\ UNCHANGED <<frame, todo, spoiled>>

(* Mutant: transaction() leaves autocommit on. *)
BeginInAutocommit(t) ==
    /\ At(t, "begin")
    /\ Do(t, "body")
    /\ UNCHANGED <<frame, todo, failed, server, written, spoiled>>

(* autocommit = False, outside the try: it raises in a transaction. *)
Begin(t) ==
    /\ At(t, "begin")
    /\ IF Mine(t).txn = "none"
       THEN Set(t, [Mine(t) EXCEPT !.auto = FALSE]) /\ Do(t, "body") /\ UNCHANGED failed
       ELSE Raise(t) /\ Do(t, "release") /\ UNCHANGED server
    /\ UNCHANGED <<frame, todo, written, spoiled>>

(* execute_on(), write_observability_record() *)
WriteItem(t) ==
    /\ At(t, "body")
    /\ \E i \in todo[t] :
        /\ todo' = [todo EXCEPT ![t] = @ \ {i}]
        /\ \/ /\ Mine(t).txn = "failed"
              /\ spoiled' = spoiled \cup {i}
              /\ UNCHANGED <<server, written>>
           \/ /\ Mine(t).txn # "failed" /\ Mine(t).auto
              /\ written' = written \cup {i}
              /\ UNCHANGED <<server, spoiled>>
           \/ /\ Mine(t).txn # "failed" /\ ~Mine(t).auto
              /\ Set(t, [Mine(t) EXCEPT !.txn = "open", !.pending = @ \cup {i}])
              /\ UNCHANGED <<written, spoiled>>
    /\ UNCHANGED <<frame, op, failed>>

(* A statement raises: the server aborts the transaction.  _flush_batch()  *)
(* goes on with its other records, which fail too.                         *)
StatementFails(t) ==
    /\ Fault
    /\ At(t, "body") \/ At(t, "one")
    /\ Set(t, IF Mine(t).auto THEN Mine(t) ELSE [Mine(t) EXCEPT !.txn = "failed"])
    /\ spoiled' = spoiled \cup batch[t]
    /\ IF Catches(t)
       THEN \E i \in todo[t] : todo' = [todo EXCEPT ![t] = @ \ {i}] /\ UNCHANGED <<op, failed>>
       ELSE Do(t, IF op[t] = "one" THEN "release" ELSE "rollback") /\ Raise(t) /\ UNCHANGED todo
    /\ UNCHANGED <<poolVars, batch, queueVars, written>>

(* A record that never reaches the server: only that one is lost. *)
RecordFails(t) ==
    /\ Fault
    /\ Catches(t) /\ At(t, "body")
    /\ \E i \in todo[t] :
        /\ todo' = [todo EXCEPT ![t] = @ \ {i}]
        /\ spoiled' = spoiled \cup {i}
    /\ UNCHANGED <<poolVars, op, failed, batch, server, queueVars, written>>

EndBody(t) ==
    /\ At(t, "body") /\ todo[t] = {}
    /\ Do(t, "commit")
    /\ UNCHANGED <<frame, todo, failed, server, written, spoiled>>

Ended(s) == [s EXCEPT !.txn = "none", !.pending = {}]

(* commit(): of an aborted transaction it is a rollback that says nothing. *)
Commit(t) ==
    /\ At(t, "commit")
    /\ written' = IF Mine(t).txn = "open" THEN written \cup Mine(t).pending ELSE written
    /\ Set(t, Ended(Mine(t)))
    /\ Do(t, "restore")
    /\ UNCHANGED <<frame, todo, failed, spoiled>>

Rollback(t) ==
    /\ At(t, "rollback")
    /\ Set(t, Ended(Mine(t)))
    /\ Do(t, "restore")
    /\ UNCHANGED <<frame, todo, failed, written, spoiled>>

(* Mutant: autocommit is restored after a commit only. *)
RestoreAfterCommit(t) ==
    /\ At(t, "restore")
    /\ IF failed[t] THEN UNCHANGED server ELSE Set(t, [Mine(t) EXCEPT !.auto = TRUE])
    /\ Do(t, "release")
    /\ UNCHANGED <<frame, todo, failed, written, spoiled>>

(* finally: autocommit = True *)
Restore(t) ==
    /\ At(t, "restore")
    /\ Set(t, [Mine(t) EXCEPT !.auto = TRUE])
    /\ Do(t, "release")
    /\ UNCHANGED <<frame, todo, failed, written, spoiled>>

(* On a lost connection every call raises, and so do the handlers. *)
CallOnLost(t) ==
    /\ pc[t] = "holding" /\ op[t] # "release" /\ ~Mine(t).alive
    /\ Do(t, "release") /\ Raise(t)
    /\ spoiled' = spoiled \cup batch[t]
    /\ UNCHANGED <<frame, todo, server, written>>

(* The thread is back from the store: the next round of _run(), the end of *)
(* stop(), or the end of the request, whose items are forgotten.           *)
Return(t) ==
    /\ Do(t, "none")
    /\ todo' = [todo EXCEPT ![t] = {}] /\ batch' = [batch EXCEPT ![t] = {}]
    /\ failed' = [failed EXCEPT ![t] = FALSE]
    /\ flusher' = IF t # Flusher THEN flusher
                  ELSE IF stage = "serving" THEN "asleep" ELSE "ended"
    /\ stage' = IF t = Stopper THEN "disconnecting" ELSE stage
    /\ UNCHANGED <<queue, emitted, faults>>

Leave(t) ==
    /\ op[t] = "release"
    /\ Release(t)
    /\ Return(t)
    /\ written' = written \ ({t} \X {1, 2}) /\ spoiled' = spoiled \ ({t} \X {1, 2})
    /\ server' = IF held[t] \in inUse THEN server ELSE [server EXCEPT ![held[t]] = Fresh]

(* acquire() raised: for _flush_batch() the batch is lost. *)
GiveUp(t) ==
    /\ Refused(t)
    /\ Return(t)
    /\ spoiled' = IF Catches(t) THEN spoiled \cup batch[t] ELSE spoiled
    /\ UNCHANGED <<server, written>>

ConnectionLost(c) ==
    /\ Fault
    /\ c \in available \cup inUse /\ server[c].alive
    /\ server' = [server EXCEPT ![c] = [Fresh EXCEPT !.alive = FALSE]]
    /\ UNCHANGED <<poolVars, threadVars, queueVars, written, spoiled>>

-----------------------------------------------------------------------------

storeRest == <<threadVars, queueVars, written, spoiled>>

Acquire(t) ==
    /\ TakeIdle(t) \/ Reserve(t) \/ Wait(t) \/ TimeOut(t) \/ Exceed(t) \/ Create(t)
    /\ UNCHANGED <<storeRest, server, faults>>

(* The last look of an acquire(). *)
LastLook(t) ==
    /\ TakeIdle(t) \/ Reserve(t) \/ Exceed(t)
    /\ UNCHANGED <<storeRest, server, faults>>

Thread(t) ==
    \/ Acquire(t) \/ GiveUp(t) \/ One(t) \/ Begin(t) \/ WriteItem(t) \/ EndBody(t)
    \/ Commit(t) \/ Rollback(t) \/ Restore(t) \/ CallOnLost(t) \/ Leave(t)

Disturb(t) ==
    \/ StatementFails(t) \/ RecordFails(t)
    \/ Fault /\ CreateFails(t) /\ UNCHANGED <<storeRest, server>>

Next ==
    \/ \E t \in Threads : Thread(t) \/ Disturb(t)
    \/ \E t \in Tasks : RunOne(t) \/ RunTransaction(t)
    \/ \E r \in Records : Enqueue(r)
    \/ Drain \/ Stop \/ JoinEnds \/ JoinTimesOut \/ Disconnect
    \/ \E c \in Conns : ConnectionLost(c)
    \/ Metrics /\ UNCHANGED <<storeRest, server, faults>>

(* The operating system runs every thread that can run, and an acquire()   *)
(* has a deadline: it cannot look for a connection time and again without  *)
(* a last look.  Nobody has to call, enqueue or stop.                      *)
Fairness ==
    /\ \A t \in Threads : WF_vars(Thread(t)) /\ SF_vars(LastLook(t))
    /\ WF_vars(Drain) /\ WF_vars(JoinEnds) /\ WF_vars(Disconnect)

Spec == Init /\ [][Next]_vars
FairSpec == Spec /\ Fairness

-----------------------------------------------------------------------------

(* An idle connection is in autocommit and out of any transaction, as      *)
(* every other method assumes (application_state_store.py:383-388).        *)
IdleInAutocommit ==
    \A c \in available : server[c].alive => server[c].auto /\ server[c].txn = "none"

(* Of a transaction()'s statements all are committed or none, and all of   *)
(* them once it has returned without an exception; what execute() returned *)
(* from is committed (application_state_store.py:340-352).                 *)
AllOrNothing ==
    \A t \in Tasks :
        /\ op[t] # "none" => written \cap batch[t] \in {{}, batch[t]}
        /\ op[t] = "release" /\ ~failed[t] => batch[t] \subseteq written

(* After the shutdown every record that was emitted is written, unless a   *)
(* fault hit its batch or disconnect() did: stop() and the flusher divide  *)
(* the queue between them (application_state.py:204-208).                  *)
StopFlushesAll ==
    stage = "closed" /\ flusher = "ended" => emitted \subseteq written \cup spoiled

(* The queue is emptied again and again, and a shutdown comes to its end   *)
(* (write_queue.py:81-93, :110-115).                                       *)
QueueEmpties ==
    /\ queue # <<>> ~> queue = <<>>
    /\ stage = "joining" ~> stage = "closed"

=============================================================================
