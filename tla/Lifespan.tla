------------------------------- MODULE Lifespan -------------------------------
(***************************************************************************)
(* The life of a process from its start (Startup) to its end               *)
(* (core/app/lifecycle/manager.py and its steps, run_api.py's lifespan()). *)
(* A worker that serves has three kinds of background job, each a task of  *)
(* the event loop that awaits a thread: the cache persistence queue's      *)
(* writes to L2, the hourly maintenance, and the performance snapshot,     *)
(* which it publishes through the store.  When it is told to stop it shuts *)
(* its steps down one by one, the last started first.  Cancelling a task   *)
(* does not stop its thread: the job goes on as an "orphan".               *)
(***************************************************************************)
EXTENDS Startup, Sequences

VARIABLES
    turn,   \* how many of its steps a worker has yet to shut down
    closed, \* what the steps it shut down have closed
    jobs    \* what becomes of each kind of background job

lifespanVars == <<turn, closed, jobs>>
vars == <<migrationVars, startupVars, lifespanVars>>

(* Mutant: the executors started after the pool that needs them to close. *)
OrderExecutorsLater ==
    <<"performance", "data", "executors", "state", "queue">>

(* ApplicationLifespan._steps, in start order. *)
Order == <<"performance", "executors", "data", "state", "queue">>

Jobs == {"persist", "maintain", "publish"}
JobStates == {"idle", "running", "orphan", "over"}
Serving == [j \in Jobs |-> "idle"]

TypeOK ==
    /\ StartupTypeOK
    /\ turn \in [Procs -> 0..Len(Order)]
    /\ closed \in [Procs -> SUBSET {"store", "pool", "executors"}]
    /\ jobs \in [Procs -> [Jobs -> JobStates]]
    /\ \A p \in Procs : step[p] # "stopping" => turn[p] = Len(Order) /\ closed[p] = {}

Init ==
    /\ StartupInit
    /\ turn = [p \in Procs |-> Len(Order)]
    /\ closed = [p \in Procs |-> {}]
    /\ jobs = [p \in Procs |-> Serving]

Become(p, j, state) == jobs' = [jobs EXCEPT ![p][j] = state]

(* Jobs whose blocking calls go to core.concurrency.executors; a snapshot  *)
(* is published with asyncio.to_thread(), on the loop's default executor.  *)
OnExecutors == {"persist", "maintain"}

(* The event loop runs: ExecutorsStep has no shutdown_async() of its own,  *)
(* so shutdown_all_executors(wait=True) blocks it.                         *)
LoopRuns(p) ==
    \/ step[p] = "up"
    \/ step[p] = "stopping" /\ turn[p] > 0 /\ Order[turn[p]] # "executors"

(* A worker of the persistence queue takes a job, the maintenance interval *)
(* or the publishing interval is over.  The queue works on while stop()    *)
(* drains it; its job is over, or an orphan, from StopQueue on.            *)
Dispatch(p, j) ==
    /\ Program[p] = "worker" /\ LoopRuns(p)
    /\ jobs[p][j] = "idle"
    /\ ~(j \in OnExecutors /\ "executors" \in closed[p])
    /\ Become(p, j, "running")
    /\ UNCHANGED <<migrationVars, startupVars, turn, closed>>

(* The thread of a job comes to its end. *)
EndJob(p, j) ==
    /\ \/ jobs[p][j] = "running" /\ LoopRuns(p) /\ Become(p, j, "idle")
       \/ jobs[p][j] = "orphan" /\ Become(p, j, "over")
    /\ UNCHANGED <<migrationVars, startupVars, turn, closed>>

(* Cancelling the task of a job that may be in its thread. *)
Cancelled(state) == IF state = "running" THEN "orphan" ELSE "over"

(* The code after `yield` in lifespan(): uvicorn has ended the requests. *)
BeginShutdown(p) ==
    /\ step[p] = "up" /\ Program[p] = "worker"
    /\ Advance(p, "stopping")
    /\ UNCHANGED <<migrationVars, admin, cause, lifespanVars>>

ShuttingDown(p, name) ==
    step[p] = "stopping" /\ turn[p] > 0 /\ Order[turn[p]] = name

NextTurn(p, what) ==
    /\ turn' = [turn EXCEPT ![p] = @ - 1]
    /\ closed' = [closed EXCEPT ![p] = @ \cup what]
    /\ UNCHANGED <<migrationVars, startupVars>>

(* CachePersistenceQueue.stop(): queue.join() returns, or its time is over *)
(* and the workers are cancelled inside their jobs; what they had not      *)
(* begun is dropped.                                                       *)
StopQueue(p) ==
    /\ ShuttingDown(p, "queue")
    /\ Become(p, "persist", Cancelled(jobs[p]["persist"]))
    /\ NextTurn(p, {})

(* ApplicationStateStep.shutdown_async(): first the maintenance task ... *)
StopMaintenance(p) ==
    /\ ShuttingDown(p, "state") /\ jobs[p]["maintain"] \in {"idle", "running"}
    /\ Become(p, "maintain", Cancelled(jobs[p]["maintain"]))
    /\ UNCHANGED <<migrationVars, startupVars, turn, closed>>

(* ... then the write queue (StateStore), and the store's pool. *)
Disconnect(p) ==
    /\ ShuttingDown(p, "state") /\ jobs[p]["maintain"] \notin {"idle", "running"}
    /\ NextTurn(p, {"store"}) /\ UNCHANGED jobs

(* DatabaseSession.close(): the pool, then the metadata connection, closed *)
(* by a thread of the application-data executor.                           *)
CloseData(p) ==
    /\ ShuttingDown(p, "data") /\ "executors" \notin closed[p]
    /\ NextTurn(p, {"pool"}) /\ UNCHANGED jobs

(* The close of that connection raises, or the executor is shut down and   *)
(* takes no work: shutdown_async() ends there.                             *)
CloseFails(p) ==
    /\ ShuttingDown(p, "data")
    /\ \/ "executors" \in closed[p] /\ UNCHANGED faults
       \/ faults < MaxFaults /\ faults' = faults + 1
    /\ Fail(p, "close")
    /\ turn' = [turn EXCEPT ![p] = Len(Order)]
    /\ closed' = [closed EXCEPT ![p] = {}]
    /\ jobs' = [jobs EXCEPT ![p] = Serving]
    /\ UNCHANGED <<db, lock, files, badName, phase, kind, plan, seen, version, ran,
                   outcome, txn, creator, deploys, admin>>

(* shutdown_all_executors(wait=True) waits for the orphans, too. *)
JoinExecutors(p) ==
    /\ ShuttingDown(p, "executors")
    /\ \A j \in OnExecutors : jobs[p][j] \notin {"running", "orphan"}
    /\ NextTurn(p, {"executors"}) /\ UNCHANGED jobs

(* PerformanceStep.shutdown_async(). *)
StopPublishing(p) ==
    /\ ShuttingDown(p, "performance")
    /\ Become(p, "publish", Cancelled(jobs[p]["publish"]))
    /\ NextTurn(p, {})

ShutDown(p) ==
    \/ StopQueue(p) \/ StopMaintenance(p) \/ Disconnect(p) \/ CloseData(p)
    \/ JoinExecutors(p) \/ StopPublishing(p)

(* The process is gone, when its threads are. *)
Gone(p) ==
    /\ Leave(p)
    /\ turn' = [turn EXCEPT ![p] = Len(Order)]
    /\ closed' = [closed EXCEPT ![p] = {}]
    /\ jobs' = [jobs EXCEPT ![p] = Serving]

Exit(p) ==
    /\ \/ step[p] = "failed"
       \/ step[p] = "up" /\ Program[p] # "worker"
       \/ step[p] = "stopping" /\ turn[p] = 0 /\ jobs[p]["publish"] = "over"
    /\ Gone(p)
    /\ UNCHANGED faults

Crash(p) ==
    /\ step[p] \in Starting \cup {"up", "stopping"}
    /\ faults < MaxFaults /\ faults' = faults + 1
    /\ Gone(p)

Starts(p) ==
    \/ Start(p) \/ Migrate(p) \/ Sequence(p)
    \/ ConnectFails(p) \/ AdminFails(p) \/ Disturb(p)

Background(p) == \E j \in Jobs : Dispatch(p, j) \/ EndJob(p, j)

Next ==
    \/ \E p \in Procs :
          \/ Starts(p) /\ UNCHANGED lifespanVars
          \/ Background(p) \/ BeginShutdown(p) \/ ShutDown(p) \/ CloseFails(p)
          \/ Crash(p) \/ Exit(p)
    \/ Deploy /\ UNCHANGED <<startupVars, lifespanVars>>

(* A process that started goes on, PostgreSQL queues the sessions that     *)
(* wait for an advisory lock first come first served, a process whose      *)
(* startup failed exits, a shutdown that began goes on, and the statements *)
(* of a job return.  Nobody has to start, stop or deploy.                  *)
Fairness ==
    \A p \in Procs :
        /\ SF_vars(Lock(p) /\ UNCHANGED <<startupVars, lifespanVars>>)
        /\ WF_vars(Proceed(p) /\ UNCHANGED <<startupVars, lifespanVars>>)
        /\ WF_vars(Sequence(p) /\ UNCHANGED lifespanVars)
        /\ WF_vars(ShutDown(p) \/ CloseFails(p))
        /\ \A j \in Jobs : WF_vars(EndJob(p, j))
        /\ WF_vars(step[p] \in {"failed", "stopping"} /\ Exit(p))

Spec == Init /\ [][Next]_vars
FairSpec == Spec /\ Fairness

-----------------------------------------------------------------------------

(* A worker closes nothing another part of it still counts on              *)
(* (manager.py:129-150): the store closes when no task will use it any     *)
(* more, the executors when the pool and the store have closed and none of *)
(* their threads is at work.  The publisher alone outlives the store, and  *)
(* gets a new connection from its closed pool (sync_pool.py:167).          *)
ShutdownInOrder ==
    \A p \in Procs : step[p] = "stopping" =>
        /\ "store" \in closed[p] =>
              \A j \in Jobs \ {"publish"} : jobs[p][j] \in {"orphan", "over"}
        /\ "executors" \in closed[p] =>
              /\ {"store", "pool"} \subseteq closed[p]
              /\ \A j \in OnExecutors : jobs[p][j] = "over"

(* Whoever starts comes up or goes down again, whatever fails meanwhile in *)
(* itself or in another process: no failure leaves the lock taken for good *)
(* (migrations.py:289-292).  And a worker told to stop goes down           *)
(* (persistence_queue.py:123-127).                                         *)
StartEnds ==
    \A p \in Procs :
        step[p] \in Starting \cup {"stopping"} ~> step[p] \in {"up", "down"}

=============================================================================
