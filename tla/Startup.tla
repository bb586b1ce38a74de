------------------------------- MODULE Startup -------------------------------
(***************************************************************************)
(* How processes come up (core/app/lifecycle/manager.py and its steps,     *)
(* core/storage/schema.py, core/auth/admin_bootstrap.py, run_api.py,       *)
(* bootstrap_admin.py).  A "worker" runs ApplicationLifespan's steps in    *)
(* order: the application-data step opens its pool and makes an async      *)
(* migration pass, the application-state step opens the store, makes a     *)
(* sync pass and seeds the admin.  A "sync" worker (mode="sync") makes the *)
(* sync pass only, and so does a "script" (bootstrap_admin.py), which then *)
(* creates or promotes the admin itself.  A step that raises ends the      *)
(* startup, and the process exits; nothing shuts down what had started.    *)
(* Lifespan adds how a worker goes down again.                             *)
(***************************************************************************)
EXTENDS Migrations

CONSTANTS
    Program,        \* [Procs -> {"worker", "sync", "script"}]
    AdminPassword   \* whether AppSettings.initial_admin_password is usable

ASSUME StartupAssumption ==
    /\ Program \in [Procs -> {"worker", "sync", "script"}]
    /\ AdminPassword \in BOOLEAN

VARIABLES
    step,   \* the startup step a process is at
    admin,  \* whether users has a row of the admin's name ("admin"), or none,
            \* but one with his e-mail ("other"), or neither ("absent")
    cause   \* why a process failed to start, or "none"

startupVars == <<step, admin, cause>>

AdminSteps == {"seed", "seeding", "lookup", "create", "promote"}
Starting == {"data", "state"} \cup AdminSteps
Steps == {"down", "up", "stopping", "failed"} \cup Starting

StartupTypeOK ==
    /\ MigrationTypeOK
    /\ step \in [Procs -> Steps]
    /\ admin \in {"absent", "admin", "other"}
    /\ cause \in [Procs -> Outcomes \cup {"none", "refused", "duplicate", "close"}]

StartupInit ==
    /\ MigrationInit
    /\ step = [p \in Procs |-> "down"]
    /\ admin \in {"absent", "other"} /\ (admin = "other" => db = Legacy)
    /\ cause = [p \in Procs |-> "none"]

Advance(p, there) == step' = [step EXCEPT ![p] = there]
Fail(p, why) == Advance(p, "failed") /\ cause' = [cause EXCEPT ![p] = why]

(* startup_async(), startup_sync() or main(): the steps before the first   *)
(* database step start no more than tasks of the process itself.           *)
Start(p) ==
    /\ step[p] = "down"
    /\ Advance(p, IF Program[p] = "worker" THEN "data" ELSE "state")
    /\ BeginPass(p, IF Program[p] = "worker" THEN "async" ELSE "sync")
    /\ UNCHANGED <<admin, cause>>

(* A pool or the store cannot open its connection. *)
ConnectFails(p) ==
    /\ faults < MaxFaults /\ faults' = faults + 1
    /\ step[p] = "down"
    /\ Fail(p, "lost")
    /\ UNCHANGED <<db, lock, files, badName, pass, txn, creator, deploys, admin>>

Forget(p, there) ==
    /\ Goto(p, there)
    /\ outcome' = [outcome EXCEPT ![p] = "ok"]
    /\ seen' = [seen EXCEPT ![p] = NoRows]
    /\ version' = [version EXCEPT ![p] = 0]
    /\ ran' = [ran EXCEPT ![p] = 0]

(* ApplicationDataStep is done; ApplicationStateStep connects the store    *)
(* and brings the schema up to date a second time.                         *)
EndDataStep(p) ==
    /\ step[p] = "data" /\ phase[p] = "over" /\ outcome[p] = "ok"
    /\ Advance(p, "state")
    /\ Forget(p, "locking")
    /\ kind' = [kind EXCEPT ![p] = "sync"]
    /\ UNCHANGED <<db, lock, files, badName, plan, txn, creator, faults, deploys,
                   admin, cause>>

(* ApplicationStateSchema.create() returns. *)
EndSchema(p) ==
    /\ step[p] = "state" /\ phase[p] = "over" /\ outcome[p] = "ok"
    /\ Advance(p, IF Program[p] = "script" THEN "lookup" ELSE "seed")
    /\ Forget(p, "none")
    /\ UNCHANGED <<db, lock, files, badName, kind, plan, txn, creator, faults,
                   deploys, admin, cause>>

(* Mutant: the error is logged and the process comes up without its schema. *)
PassFailsIgnored(p) ==
    /\ phase[p] = "over" /\ outcome[p] # "ok"
    /\ Advance(p, "up")
    /\ Forget(p, "none")
    /\ UNCHANGED <<db, lock, files, badName, kind, plan, txn, creator, faults,
                   deploys, admin, cause>>

PassFails(p) ==
    /\ phase[p] = "over" /\ outcome[p] # "ok"
    /\ Fail(p, outcome[p])
    /\ Forget(p, "none")
    /\ UNCHANGED <<db, lock, files, badName, kind, plan, txn, creator, faults,
                   deploys, admin>>

(* AdminBootstrapService.initialize(): without a usable password it only   *)
(* looks for an admin.  With one, INSERT ... ON CONFLICT (username) DO     *)
(* NOTHING looks for a row of that name first.  The other steps of the     *)
(* worker start nothing another process can see.                           *)
SeedAdmin(p) ==
    /\ step[p] = "seed"
    /\ Advance(p, IF AdminPassword /\ admin # "admin" THEN "seeding" ELSE "up")
    /\ UNCHANGED <<migrationVars, admin, cause>>

(* Then the row goes into the table and its indexes.  The only conflict it *)
(* yields to is one of the username; users_pkey (`user_admin_` and the     *)
(* second) and the e-mail raise, whether the other row has come meanwhile  *)
(* or the e-mail belongs to another account.                               *)
InsertAdmin(p) ==
    /\ step[p] = "seeding"
    /\ \/ /\ admin \in {"absent", "admin"}
          /\ admin' = "admin"
          /\ Advance(p, "up") /\ UNCHANGED cause
       \/ /\ admin \in {"admin", "other"}
          /\ Fail(p, "duplicate")
          /\ UNCHANGED admin
    /\ UNCHANGED migrationVars

(* bootstrap_admin.py: get_by_username(), then create() with an e-mail of  *)
(* its own, or, when it was called with --promote-existing, update_role(). *)
LookUpAdmin(p) ==
    /\ step[p] = "lookup"
    /\ \/ /\ admin = "admin"
          /\ Fail(p, "refused")
       \/ /\ admin = "admin"
          /\ Advance(p, "promote") /\ UNCHANGED cause
       \/ /\ admin # "admin"
          /\ Advance(p, "create") /\ UNCHANGED cause
    /\ UNCHANGED <<migrationVars, admin>>

CreateAdmin(p) ==
    /\ step[p] = "create"
    /\ \/ /\ admin # "admin"
          /\ admin' = "admin"
          /\ Advance(p, "up") /\ UNCHANGED cause
       \/ /\ admin # "absent"
          /\ Fail(p, "duplicate")
          /\ UNCHANGED admin
    /\ UNCHANGED migrationVars

PromoteAdmin(p) ==
    /\ step[p] = "promote"
    /\ admin' = "admin"
    /\ Advance(p, "up")
    /\ UNCHANGED <<migrationVars, cause>>

(* One of these statements fails, or loses its connection, before or after *)
(* its effect; or the API key that the script issues next cannot be.       *)
AdminFails(p) ==
    /\ faults < MaxFaults /\ faults' = faults + 1
    /\ step[p] \in AdminSteps
    /\ \/ UNCHANGED admin
       \/ /\ step[p] \in {"seeding", "create", "promote"}
          /\ step[p] = "seeding" => admin = "absent"
          /\ admin' = "admin"
    /\ Fail(p, "lost")
    /\ UNCHANGED <<db, lock, files, badName, pass, txn, creator, deploys>>

(* A process ends: after serving, by a failed startup, or by a crash.  Its *)
(* sessions end with it, among them one that still holds the lock.         *)
Leave(p) ==
    /\ Advance(p, "down")
    /\ cause' = [cause EXCEPT ![p] = "none"]
    /\ EndSession(p)
    /\ Forget(p, "none")
    /\ kind' = [kind EXCEPT ![p] = "async"]
    /\ plan' = [plan EXCEPT ![p] = NoRows]
    /\ UNCHANGED <<db, files, badName, creator, deploys, admin>>

(* A step of a starting process that waits for nothing but the lock and    *)
(* other transactions.                                                     *)
Proceed(p) ==
    \/ TrackTable(p) \/ RaceEnds(p) \/ TrackColumn(p) \/ ReadApplied(p)
    \/ CheckApplied(p) \/ RunStatement(p) \/ Record(p) \/ LoopEnds(p)
    \/ Unlock(p) \/ Commit(p)

Migrate(p) == (Lock(p) \/ Proceed(p)) /\ UNCHANGED startupVars

Sequence(p) ==
    \/ EndDataStep(p) \/ EndSchema(p) \/ PassFails(p)
    \/ SeedAdmin(p) \/ InsertAdmin(p)
    \/ LookUpAdmin(p) \/ CreateAdmin(p) \/ PromoteAdmin(p)

Disturb(p) == (StatementFails(p) \/ ConnectionLost(p)) /\ UNCHANGED startupVars

-----------------------------------------------------------------------------

(* A startup fails only of something that happened: of a lost race for the *)
(* tracking table only when a sync pass created it, and not that of a      *)
(* worker, whose async pass came before (migrations.py:273-292), of an     *)
(* edited file only when it differs from what was applied (:204-238), and  *)
(* of the admin's row only when a row with his name or e-mail is there and *)
(* the process was to create one (admin_bootstrap.py:46-75).               *)
FailuresHaveCause ==
    \A p \in Procs : step[p] = "failed" =>
        /\ cause[p] = "raced" => creator = "sync"
        /\ cause[p] = "edited" =>
              \E v \in Versions : db.rows[v] \notin {plan[p][v], "absent", "null"}
        /\ cause[p] = "duplicate" =>
              admin # "absent" /\ (Program[p] = "script" \/ AdminPassword)
        /\ cause[p] = "refused" => admin = "admin" /\ Program[p] = "script"

(* A process that is up runs on the schema of its own files: each of them  *)
(* is recorded, complete and with the checksum it was loaded with          *)
(* (migrations.py:190-202).                                                *)
UpOnItsSchema ==
    \A p \in Procs : step[p] = "up" =>
        \A v \in Versions : plan[p][v] # "absent" => db.rows[v] = plan[p][v]

=============================================================================
