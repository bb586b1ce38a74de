------------------------------ MODULE DbSession ------------------------------
(***************************************************************************)
(* A request's database call from coroutine to server: the semaphore of    *)
(* its cost class (QueryService._execute_gated), get_async_session() of    *)
(* core/db/session.py, the application-data executor, and the statements   *)
(* that PostgreSQLAdapter issues in a worker thread.                       *)
(*                                                                         *)
(* The driver serialises the calls made on one connection, so a thread's   *)
(* step is one driver call.  Cancelling a coroutine takes its job off the  *)
(* executor's queue, but a job that runs goes on in its thread: then the   *)
(* rollback runs in a second thread beside it, and the connection may go   *)
(* back to the pool, and to another request, while the first still uses    *)
(* it.  Such a connection is `tangled`.                                    *)
(*                                                                         *)
(* Every query of the service carries a statement_timeout, which           *)
(* fetch_bounded() sets through its named cursor: psycopg2 sends DECLARE   *)
(* ... CURSOR FOR SET, a syntax error.  So no timeout is ever set, and the *)
(* server's state needs no place for one.                                  *)
(*                                                                         *)
(* The pool is reduced to what it promises (ConnectionLease); AsyncPool    *)
(* models it.  get_tables() and get_schema() go past it, to a connection   *)
(* of their own that all requests share.                                   *)
(***************************************************************************)
EXTENDS Naturals, FiniteSets

CONSTANTS
    Tasks,      \* requests; a name is used again once its threads are through
    Conns,      \* the pool's connections
    Shared,     \* DatabaseSession._adapter, the connection of the metadata calls
    Nobody,
    Permits,    \* permits of the cost class
    Workers,    \* threads of the application-data executor
    MaxFaults,  \* bound: failing statements, lost connections, exhausted pool
    MaxCancels  \* bound: cancellations

ASSUME SessionAssumption ==
    /\ IsFiniteSet(Tasks) /\ IsFiniteSet(Conns)
    /\ Nobody \notin Tasks \cup Conns \cup {Shared} /\ Shared \notin Conns
    /\ Permits \in Nat \ {0} /\ Workers \in Nat \ {0}
    /\ MaxFaults \in Nat /\ MaxCancels \in Nat

VARIABLES
    pc,       \* where each coroutine is
    kind,     \* what it asks of the database
    conn,     \* its connection, kept while a thread of it runs
    main,     \* the driver call its job is at
    undo,     \* the driver call its rollback job is at
    result,   \* what the job ended with, then the request
    permits,  \* Semaphore._value
    opened,   \* the pool's connections
    idle,     \* those of _available
    server,   \* the state of each connection, the driver's and the server's
    tangled,  \* ghost: given back with a thread still using it
    excused,  \* ghost: requests with a fault of their own, or tangled
    written,  \* ghost: requests whose effect is committed
    faults, cancels

coroutine == <<pc, kind, conn, result, excused>>
jobs == <<main, undo>>
pool == <<opened, idle, tangled>>
vars == <<coroutine, jobs, permits, pool, server, written, faults, cancels>>

(* "query" is fetch_bounded() as QueryService calls it, "stream" the same  *)
(* without a timeout (its default).  "execute" commits itself, and "fetch" *)
(* is fetch_one() or fetch_all(), which leave that to autocommit.          *)
Bounded == {"query", "stream"}
Kinds == Bounded \cup {"execute", "fetch", "tables"}
PCs == {"idle", "permit", "pool", "awaiting", "undoing", "cancelled", "answered"}
Steps == {"begin", "declare", "fetch", "close", "commit", "rollback", "restore",
          "statement"}
Settled == {"none", "over", "raised"}
Results == {"none", "ok", "error", "lost", "cancelled"}

(* autocommit; the transaction; and whose statements, or named cursors,    *)
(* are in it.                                                              *)
Server == [auto : BOOLEAN, txn : {"none", "open", "failed"}, pending : SUBSET Tasks,
           alive : BOOLEAN]

TypeOK ==
    /\ pc \in [Tasks -> PCs] /\ kind \in [Tasks -> Kinds]
    /\ conn \in [Tasks -> Conns \cup {Shared, Nobody}]
    /\ main \in [Tasks -> Steps \cup Settled \cup {"queued"}]
    /\ undo \in [Tasks -> {"rollback", "restore", "queued"} \cup Settled]
    /\ result \in [Tasks -> Results]
    /\ permits \in 0 .. Permits
    /\ idle \subseteq opened /\ opened \subseteq Conns /\ tangled \subseteq opened
    /\ server \in [Conns \cup {Shared} -> Server]
    /\ excused \subseteq Tasks /\ written \subseteq Tasks
    /\ faults \in 0 .. MaxFaults /\ cancels \in 0 .. MaxCancels

(* Mutant: psycopg2's default, autocommit off. *)
ConnectedManual == [auto |-> FALSE, txn |-> "none", pending |-> {}, alive |-> TRUE]

(* connect() *)
Connected == [auto |-> TRUE, txn |-> "none", pending |-> {}, alive |-> TRUE]

Init ==
    /\ pc = [t \in Tasks |-> "idle"] /\ kind = [t \in Tasks |-> "fetch"]
    /\ conn = [t \in Tasks |-> Nobody]
    /\ main = [t \in Tasks |-> "none"] /\ undo = [t \in Tasks |-> "none"]
    /\ result = [t \in Tasks |-> "none"]
    /\ permits = Permits
    /\ opened = {} /\ idle = {} /\ tangled = {}
    /\ server = [c \in Conns \cup {Shared} |-> Connected]
    /\ excused = {} /\ written = {}
    /\ faults = 0 /\ cancels = 0

Goto(t, there) == pc' = [pc EXCEPT ![t] = there]
Main(t, step) == main' = [main EXCEPT ![t] = step]
Undo(t, step) == undo' = [undo EXCEPT ![t] = step]

MainRuns(t) == main[t] \in Steps
UndoRuns(t) == undo[t] \in {"rollback", "restore"}
Running == Cardinality({t \in Tasks : MainRuns(t)}) + Cardinality({t \in Tasks : UndoRuns(t)})

-----------------------------------------------------------------------------
(* The coroutine: service or repository call, semaphore, session *)

Request(t) ==
    /\ pc[t] = "idle"
    /\ \E k \in Kinds :
        /\ kind' = [kind EXCEPT ![t] = k]
        /\ IF k = "tables"
           THEN /\ Goto(t, "awaiting") /\ Main(t, "queued")
                /\ conn' = [conn EXCEPT ![t] = Shared]
           ELSE /\ Goto(t, IF k = "query" THEN "permit" ELSE "pool")
                /\ UNCHANGED <<conn, main>>
    /\ UNCHANGED <<undo, result, excused, permits, pool, server, written, faults, cancels>>

EnterSemaphore(t) ==
    /\ pc[t] = "permit"
    /\ permits > 0
    /\ permits' = permits - 1
    /\ Goto(t, "pool")
    /\ UNCHANGED <<kind, conn, result, excused, jobs, pool, server, written, faults, cancels>>

(* acquire(), then the adapter call: an idle connection or a new one. *)
Acquire(t) ==
    /\ pc[t] = "pool"
    /\ \E c \in Conns :
        /\ \/ /\ c \in idle
              /\ UNCHANGED <<opened, server>>
           \/ /\ idle = {} /\ c \notin opened
              /\ ~\E u \in Tasks : conn[u] = c
              /\ opened' = opened \cup {c}
              /\ server' = [server EXCEPT ![c] = Connected]
        /\ idle' = idle \ {c}
        /\ conn' = [conn EXCEPT ![t] = c]
    /\ Goto(t, "awaiting") /\ Main(t, "queued")
    /\ UNCHANGED <<kind, result, excused, undo, permits, tangled, written, faults, cancels>>

(* Mutants: a permit that only a successful call gives back; one given     *)
(* back by the handler and by the context manager.                         *)
GiveBackOnSuccess(t, outcome) ==
    permits' = IF kind[t] = "query" /\ outcome = "ok" THEN permits + 1 ELSE permits
GiveBackTwice(t, outcome) ==
    permits' = IF kind[t] # "query" THEN permits
               ELSE IF outcome = "error" THEN permits + 2 ELSE permits + 1

(* Leaving `async with semaphore`, however the call ended. *)
GiveBack(t, outcome) ==
    permits' = IF kind[t] = "query" THEN permits + 1 ELSE permits

Answer(t, outcome) ==
    /\ Goto(t, "answered")
    /\ result' = [result EXCEPT ![t] = outcome]

(* The pool cannot give a connection: its wait timed out or it could not   *)
(* connect.                                                                *)
AcquireFails(t) ==
    /\ faults < MaxFaults /\ faults' = faults + 1
    /\ pc[t] = "pool" /\ idle = {}
    /\ Answer(t, "error")
    /\ excused' = excused \cup {t}
    /\ GiveBack(t, "error")
    /\ UNCHANGED <<kind, conn, jobs, pool, server, written, cancels>>

(* release(session, broken) and what is around it; m and u are what the    *)
(* request's threads are doing then.                                       *)
Release(t, broken, m, u) ==
    LET c == conn[t]
        used == m \in Steps \/ u \in {"rollback", "restore"}
    IN  IF c = Shared THEN UNCHANGED pool
        ELSE /\ idle' = IF broken THEN idle ELSE idle \cup {c}
             /\ opened' = IF broken THEN opened \ {c} ELSE opened
             /\ tangled' = IF broken THEN tangled \ {c}
                           ELSE IF used THEN tangled \cup {c} ELSE tangled

Finish(t, outcome, broken, m, u) ==
    /\ Release(t, broken, m, u)
    /\ GiveBack(t, outcome)
    /\ Answer(t, outcome)

(* The job's result reaches the coroutine.  A connection-level error       *)
(* (is_connection_level_error) discards the connection, any other error    *)
(* rolls it back in a job of its own.                                      *)
Resume(t) ==
    /\ pc[t] = "awaiting" /\ main[t] = "over"
    /\ excused' = IF conn[t] \in tangled \/ result[t] = "lost"
                  THEN excused \cup {t} ELSE excused
    /\ \/ /\ result[t] = "ok" \/ kind[t] = "tables"
          /\ Finish(t, IF result[t] = "ok" THEN "ok" ELSE "error", FALSE, "over", "none")
          /\ UNCHANGED undo
       \/ /\ result[t] = "lost" /\ kind[t] # "tables"
          /\ Finish(t, "error", TRUE, "over", "none")
          /\ UNCHANGED undo
       \/ /\ result[t] = "error" /\ kind[t] # "tables"
          /\ Goto(t, "undoing") /\ Undo(t, "queued")
          /\ UNCHANGED <<result, permits, pool>>
    /\ UNCHANGED <<kind, conn, main, server, written, faults, cancels>>

(* The rollback job's result: one that raised marks the connection broken. *)
Undone(t) ==
    /\ pc[t] \in {"undoing", "cancelled"} /\ undo[t] \in {"over", "raised"}
    /\ Finish(t, IF pc[t] = "undoing" THEN "error" ELSE "cancelled",
              undo[t] = "raised", main[t], undo[t])
    /\ UNCHANGED <<kind, conn, jobs, server, excused, written, faults, cancels>>

(* The request is over for its client; its threads may still run. *)
Forget(t) ==
    /\ pc[t] = "answered"
    /\ main[t] \in Settled /\ undo[t] \in Settled
    /\ Goto(t, "idle") /\ Main(t, "none") /\ Undo(t, "none")
    /\ kind' = [kind EXCEPT ![t] = "fetch"]
    /\ conn' = [conn EXCEPT ![t] = Nobody]
    /\ result' = [result EXCEPT ![t] = "none"]
    /\ excused' = excused \ {t} /\ written' = written \ {t}
    /\ server' = [c \in DOMAIN server |-> [server[c] EXCEPT !.pending = @ \ {t}]]
    /\ UNCHANGED <<permits, pool, faults, cancels>>

-----------------------------------------------------------------------------
(* Cancellation *)

CancelWaiting(t) ==
    /\ pc[t] \in {"permit", "pool"}
    /\ Answer(t, "cancelled")
    /\ IF pc[t] = "pool" THEN GiveBack(t, "cancelled") ELSE UNCHANGED permits
    /\ UNCHANGED <<jobs, pool>>

(* While the job is queued or runs: the CancelledError branch of           *)
(* get_async_session() rolls back in another thread.                       *)
CancelAwaiting(t) ==
    /\ pc[t] = "awaiting"
    /\ LET left == IF main[t] = "queued" THEN "none" ELSE main[t]
       IN  /\ Main(t, left)
           /\ IF kind[t] = "tables"
              THEN Finish(t, "cancelled", FALSE, left, "none") /\ UNCHANGED undo
              ELSE /\ Goto(t, "cancelled") /\ Undo(t, "queued")
                   /\ UNCHANGED <<result, permits, pool>>

(* While the rollback is queued or runs: the second CancelledError is not  *)
(* an Exception, and the connection goes back as a healthy one.            *)
CancelUndoing(t) ==
    /\ pc[t] \in {"undoing", "cancelled"}
    /\ LET left == IF undo[t] = "queued" THEN "none" ELSE undo[t]
       IN  /\ Undo(t, left)
           /\ Finish(t, "cancelled", FALSE, main[t], left)
    /\ UNCHANGED main

Cancel(t) ==
    /\ cancels < MaxCancels /\ cancels' = cancels + 1
    /\ CancelWaiting(t) \/ CancelAwaiting(t) \/ CancelUndoing(t)
    /\ UNCHANGED <<kind, conn, excused, server, written, faults>>

-----------------------------------------------------------------------------
(* The worker threads: one driver call each *)

First(k) == IF k \in Bounded THEN "begin" ELSE "statement"

StartMain(t) ==
    /\ main[t] = "queued" /\ Running < Workers
    /\ Main(t, First(kind[t]))
    /\ UNCHANGED <<coroutine, undo, permits, pool, server, written, faults, cancels>>

StartUndo(t) ==
    /\ undo[t] = "queued" /\ Running < Workers
    /\ Undo(t, "rollback")
    /\ UNCHANGED <<coroutine, main, permits, pool, server, written, faults, cancels>>

(* The job ends: its result is the coroutine's if that still waits for it. *)
EndMain(t, with) ==
    /\ Main(t, "over")
    /\ result' = IF pc[t] = "awaiting" THEN [result EXCEPT ![t] = with] ELSE result

Calls(t, step) == main[t] = step /\ server[conn[t]].alive
Mine(t) == server[conn[t]]
Set(t, state) == server' = [server EXCEPT ![conn[t]] = state]

(* COMMIT and ROLLBACK; of an aborted transaction COMMIT is a ROLLBACK. *)
Ended(s) == [s EXCEPT !.txn = "none", !.pending = {}]
(* A statement that raises aborts the transaction it runs in. *)
Aborted(s) == IF s.auto THEN s ELSE [s EXCEPT !.txn = "failed"]
Usable(s) == ~s.auto /\ s.txn # "failed"   \* for a named cursor
(* psycopg2 takes a named cursor for valid until the next COMMIT or        *)
(* ROLLBACK, and refuses it itself from then on.                           *)
Valid(t, s) == s.txn = "open" /\ t \in s.pending

threadFrame == <<pc, kind, conn, excused, undo, permits, pool, faults, cancels>>

(* fetch_bounded(): autocommit = False, which raises in a transaction. *)
Begin(t) ==
    /\ Calls(t, "begin")
    /\ IF Mine(t).txn = "none"
       THEN Set(t, [Mine(t) EXCEPT !.auto = FALSE]) /\ Main(t, "declare") /\ UNCHANGED result
       ELSE EndMain(t, "error") /\ UNCHANGED server
    /\ UNCHANGED <<threadFrame, written>>

(* The first execute() of the named cursor.  A query's is the SET of its   *)
(* timeout, which the server refuses and the transaction does not survive; *)
(* closing the cursor then does nothing more.                              *)
Declare(t) ==
    /\ Calls(t, "declare")
    /\ IF kind[t] = "stream" /\ Usable(Mine(t))
       THEN /\ Set(t, [Mine(t) EXCEPT !.txn = "open", !.pending = @ \cup {t}])
            /\ Main(t, "fetch")
       ELSE Set(t, Aborted(Mine(t))) /\ Main(t, "rollback")
    /\ UNCHANGED <<threadFrame, result, written>>

(* The batches of rows. *)
Fetch(t) ==
    /\ Calls(t, "fetch")
    /\ Main(t, IF Valid(t, Mine(t)) THEN "close" ELSE "rollback")
    /\ UNCHANGED <<threadFrame, server, result, written>>

(* Mutant: autocommit is turned on before the commit. *)
CloseThenRestore(t) ==
    /\ Calls(t, "close")
    /\ Main(t, "restore")
    /\ UNCHANGED <<threadFrame, server, result, written>>

(* Leaving `with` closes the cursor; psycopg2 skips that in an aborted     *)
(* transaction.                                                            *)
Close(t) ==
    /\ Calls(t, "close")
    /\ Main(t, IF Valid(t, Mine(t)) \/ Mine(t).txn = "failed" THEN "commit" ELSE "rollback")
    /\ UNCHANGED <<threadFrame, server, result, written>>

(* execute(), fetch_one(), fetch_all(): the statement. *)
Statement(t) ==
    /\ Calls(t, "statement")
    /\ LET s == Mine(t)
       IN  IF s.txn = "failed"
           THEN /\ IF kind[t] = "execute" THEN Main(t, "rollback") /\ UNCHANGED result
                   ELSE EndMain(t, "error")
                /\ UNCHANGED <<server, written>>
           ELSE /\ IF s.auto
                   THEN written' = written \cup {t} /\ UNCHANGED server
                   ELSE /\ Set(t, [s EXCEPT !.txn = "open", !.pending = @ \cup {t}])
                        /\ UNCHANGED written
                /\ IF kind[t] = "execute" THEN Main(t, "commit") /\ UNCHANGED result
                   ELSE EndMain(t, "ok")
    /\ UNCHANGED threadFrame

(* connection.commit() *)
Commit(t) ==
    /\ Calls(t, "commit")
    /\ LET s == Mine(t)
       IN  /\ written' = IF s.txn = "open" THEN written \cup s.pending ELSE written
           /\ Set(t, Ended(s))
    /\ IF kind[t] = "execute" THEN EndMain(t, "ok")
       ELSE /\ Main(t, "restore")
            /\ result' = IF pc[t] = "awaiting" THEN [result EXCEPT ![t] = "ok"] ELSE result
    /\ UNCHANGED threadFrame

(* except Exception: connection.rollback() *)
Rollback(t) ==
    /\ Calls(t, "rollback")
    /\ Set(t, Ended(Mine(t)))
    /\ IF kind[t] = "execute" THEN EndMain(t, "error") ELSE Main(t, "restore") /\ UNCHANGED result
    /\ UNCHANGED <<threadFrame, written>>

(* Mutant: restored where the error is handled, not in `finally`. *)
RestoreOnError(t) ==
    /\ Calls(t, "restore")
    /\ IF result[t] # "ok" /\ Mine(t).txn = "none"
       THEN Set(t, [Mine(t) EXCEPT !.auto = TRUE]) /\ EndMain(t, "error")
       ELSE EndMain(t, IF result[t] = "ok" THEN "ok" ELSE "error") /\ UNCHANGED server
    /\ UNCHANGED <<threadFrame, written>>

(* finally: autocommit = True, which raises in a transaction. *)
Restore(t) ==
    /\ Calls(t, "restore")
    /\ IF Mine(t).txn = "none"
       THEN /\ Set(t, [Mine(t) EXCEPT !.auto = TRUE])
            /\ EndMain(t, IF result[t] = "ok" THEN "ok" ELSE "error")
       ELSE EndMain(t, "error") /\ UNCHANGED server
    /\ UNCHANGED <<threadFrame, written>>

(* _rollback_transaction() *)
UndoRollback(t) ==
    /\ undo[t] = "rollback" /\ Mine(t).alive
    /\ Set(t, Ended(Mine(t)))
    /\ Undo(t, "restore")
    /\ UNCHANGED <<coroutine, main, permits, pool, written, faults, cancels>>

UndoRestore(t) ==
    /\ undo[t] = "restore" /\ Mine(t).alive
    /\ IF Mine(t).txn = "none"
       THEN Set(t, [Mine(t) EXCEPT !.auto = TRUE]) /\ Undo(t, "over")
       ELSE Undo(t, "raised") /\ UNCHANGED server
    /\ UNCHANGED <<coroutine, main, permits, pool, written, faults, cancels>>

(* On a lost connection every call raises, the handlers' own included. *)
CallOnLost(t) ==
    /\ MainRuns(t) \/ UndoRuns(t)
    /\ ~Mine(t).alive
    /\ \/ MainRuns(t) /\ EndMain(t, "lost") /\ UNCHANGED undo
       \/ UndoRuns(t) /\ Undo(t, "raised") /\ UNCHANGED <<main, result>>
    /\ UNCHANGED <<pc, kind, conn, excused, permits, pool, server, written, faults, cancels>>

-----------------------------------------------------------------------------
(* Faults *)

(* The request's own statement raises: an error in it, a constraint, a     *)
(* cancellation on the server.  A query's own is never sent.               *)
StatementFails(t) ==
    /\ faults < MaxFaults /\ faults' = faults + 1
    /\ kind[t] # "query"
    /\ \E step \in {"declare", "fetch", "statement"} : Calls(t, step)
    /\ Set(t, Aborted(Mine(t)))
    /\ IF kind[t] \in {"fetch", "tables"} THEN EndMain(t, "error")
       ELSE Main(t, "rollback") /\ UNCHANGED result
    /\ excused' = excused \cup {t}
    /\ UNCHANGED <<pc, kind, conn, undo, permits, pool, written, cancels>>

ConnectionLost(c) ==
    /\ faults < MaxFaults /\ faults' = faults + 1
    /\ c \in opened \cup {Shared} /\ server[c].alive
    /\ server' = [server EXCEPT ![c] = [Connected EXCEPT !.alive = FALSE]]
    /\ UNCHANGED <<coroutine, jobs, permits, pool, written, cancels>>

-----------------------------------------------------------------------------

Waits(t) == EnterSemaphore(t) \/ Acquire(t) \/ StartMain(t) \/ StartUndo(t)

Thread(t) ==
    \/ Begin(t) \/ Declare(t) \/ Fetch(t) \/ Close(t) \/ Statement(t) \/ Commit(t)
    \/ Rollback(t) \/ Restore(t) \/ UndoRollback(t) \/ UndoRestore(t) \/ CallOnLost(t)

Coroutine(t) == Resume(t) \/ Undone(t) \/ Forget(t)

Next ==
    \/ \E t \in Tasks :
        \/ Request(t) \/ Waits(t) \/ Thread(t) \/ Coroutine(t)
        \/ AcquireFails(t) \/ Cancel(t) \/ StatementFails(t)
    \/ \E c \in Conns \cup {Shared} : ConnectionLost(c)

(* PostgreSQL is taken to answer every statement in the end: what reaches  *)
(* it are the program's own short ones, no timeout bounds them.  The event *)
(* loop runs what is ready, and the semaphore, the pool and the executor   *)
(* serve who waits first come first served.  Clients need not come.  Of    *)
(* one request's steps only finitely many come before it waits, so         *)
(* fairness to their disjunction is fairness to each.                      *)
Fairness ==
    \A t \in Tasks : WF_vars(Coroutine(t) \/ Thread(t)) /\ SF_vars(Waits(t))

Spec == Init /\ [][Next]_vars
FairSpec == Spec /\ Fairness

-----------------------------------------------------------------------------

(* A connection goes back to the pool as connect() made it: in autocommit, *)
(* out of any transaction (session.py:568-584, postgresql.py:463-467).     *)
(* Not so when its threads still use it.                                   *)
IdleIsClean ==
    \A c \in idle \ tangled : server[c].alive => server[c].auto /\ server[c].txn = "none"

(* No request fails for a reason that has nothing to do with its own       *)
(* statement (pool/base.py:11-15): that failed, its connection was lost,   *)
(* the pool had none, or it was given a tangled one.  The service's        *)
(* queries are left out: each of them fails, at Declare.                   *)
FailsOnlyForCause ==
    \A t \in Tasks :
        pc[t] = "answered" /\ result[t] = "error" /\ kind[t] # "query" => t \in excused

(* What a request was told is done is committed, through fetch_one()'s     *)
(* writes too (postgresql.py:221-244).                                     *)
AckedIsCommitted ==
    \A t \in Tasks :
        pc[t] = "answered" /\ result[t] = "ok" /\ kind[t] # "tables" =>
            t \in written \cup excused

(* Every request ends, whatever fails or is cancelled: no permit, no       *)
(* connection and no worker thread is lost for good.                       *)
RequestsEnd == \A t \in Tasks : pc[t] # "idle" ~> pc[t] \in {"idle", "answered"}

=============================================================================
