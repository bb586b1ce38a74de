----------------------------- MODULE Migrations -----------------------------
(***************************************************************************)
(* The SQL migration runner (core/db/migrations.py): every process that    *)
(* starts makes one or more passes over the numbered migration files,      *)
(* under one session-level advisory lock of the shared database.           *)
(*                                                                         *)
(* An "async" pass (apply_migrations_async) commits every statement by     *)
(* itself.  A "sync" pass (apply_migrations_sync) runs inside one          *)
(* transaction() of the state store: autocommit is off, so that nothing is *)
(* visible to others before the commit, a failed statement aborts what     *)
(* follows, and the lock is given back before the commit.                  *)
(*                                                                         *)
(* PostgreSQL is modelled by what the runner meets: the ALTER TABLE of the *)
(* tracking table keeps it locked until its transaction ends, and of two   *)
(* sessions that create a table at once the second waits and then fails.   *)
(***************************************************************************)
EXTENDS Naturals, FiniteSets

CONSTANTS
    Procs,        \* processes that apply migrations
    Nobody,       \* the lock is free, no transaction is open
    LastVersion,  \* migration files are numbered 1 .. LastVersion
    Statements,   \* statements of a migration file
    MaxFaults,    \* bound: failing statements, lost connections, crashes
    MaxDeploys    \* bound: files added, edited or misnamed

Versions == 1 .. LastVersion
Checksums == {"first", "edited"}
(* A file is absent or has a checksum; a row of schema_migrations is       *)
(* absent, or has a checksum, or none (it was written before there were).  *)
Files == [Versions -> Checksums \cup {"absent"}]
Rows == [Versions -> Checksums \cup {"absent", "null"}]
Database == [track : {"none", "table", "column"}, rows : Rows,
             schema : SUBSET (Versions \X (1 .. Statements))]

ASSUME MigrationAssumption ==
    /\ Nobody \notin Procs \cup Database /\ IsFiniteSet(Procs)
    /\ LastVersion \in Nat \ {0} /\ Statements \in Nat \ {0}
    /\ MaxFaults \in Nat /\ MaxDeploys \in Nat

VARIABLES
    db,       \* what is committed: tracking table, its rows, the statements run
    lock,     \* the process whose session holds _MIGRATION_LOCK_KEY
    files,    \* migrations/postgresql/ on disk
    badName,  \* a file there does not match NNNN_description.sql
    phase,    \* where a process is in its pass
    kind,     \* "async" or "sync"
    outcome,  \* "ok", or what its pass failed of
    seen,     \* applied_checksums
    plan,     \* load_migrations()
    version,  \* the migration it applies, 0 before the first
    ran,      \* how many statements of it have run
    txn,      \* the database as its open transaction sees it, or Nobody
    creator,  \* ghost: the kind of pass that created the tracking table
    faults, deploys

pass == <<phase, kind, outcome, seen, plan, version, ran>>
migrationVars == <<db, lock, files, badName, pass, txn, creator, faults, deploys>>

Phases == {"none", "locking", "tracking", "racing", "column", "reading",
           "applying", "unlocking", "committing", "over"}
(* "failed": a statement; "lost": the connection; "raced": the tracking    *)
(* table was created by another session meanwhile.                         *)
Outcomes == {"ok", "failed", "lost", "raced", "edited", "misnamed"}
NoRows == [v \in Versions |-> "absent"]
Fresh == [track |-> "none", rows |-> NoRows, schema |-> {}]

MigrationTypeOK ==
    /\ db \in Database
    /\ lock \in Procs \cup {Nobody}
    /\ files \in Files /\ badName \in BOOLEAN
    /\ phase \in [Procs -> Phases]
    /\ kind \in [Procs -> {"async", "sync"}]
    /\ outcome \in [Procs -> Outcomes]
    /\ seen \in [Procs -> Rows] /\ plan \in [Procs -> Files]
    /\ version \in [Procs -> Versions \cup {0}]
    /\ ran \in [Procs -> 0 .. Statements]
    /\ txn \in [Procs -> Database \cup {Nobody}]
    /\ creator \in {"none", "async", "sync"}
    /\ faults \in 0 .. MaxFaults /\ deploys \in 0 .. MaxDeploys

(* The first start, or an upgrade of a deployment that has applied file 1  *)
(* with a runner that kept no checksums.                                   *)
Legacy == [track |-> "table", rows |-> [NoRows EXCEPT ![1] = "null"],
           schema |-> {1} \X (1 .. Statements)]

MigrationInit ==
    /\ db \in {Fresh, Legacy}
    /\ lock = Nobody
    /\ files = [NoRows EXCEPT ![1] = "first"] /\ badName = FALSE
    /\ phase = [p \in Procs |-> "none"]
    /\ kind = [p \in Procs |-> "async"]
    /\ outcome = [p \in Procs |-> "ok"]
    /\ seen = [p \in Procs |-> NoRows]
    /\ plan = [p \in Procs |-> NoRows]
    /\ version = [p \in Procs |-> 0]
    /\ ran = [p \in Procs |-> 0]
    /\ txn = [p \in Procs |-> Nobody]
    /\ creator = "none"
    /\ faults = 0 /\ deploys = 0

View(p) == IF txn[p] = Nobody THEN db ELSE txn[p]

(* A statement's effect: committed at once, or kept in the transaction. *)
Write(p, new) ==
    IF kind[p] = "sync"
    THEN txn' = [txn EXCEPT ![p] = new] /\ UNCHANGED db
    ELSE db' = new /\ UNCHANGED txn

Goto(p, there) == phase' = [phase EXCEPT ![p] = there]

(* Whether another session's transaction has created the tracking table,   *)
(* or has altered it.                                                      *)
Creating(q) == txn[q] # Nobody /\ db.track = "none"
Altered(q) == txn[q] # Nobody /\ txn[q].track = "column"

-----------------------------------------------------------------------------

(* A process begins a pass; the session is its own until the pass is over. *)
BeginPass(p, k) ==
    /\ phase[p] = "none"
    /\ Goto(p, "locking")
    /\ kind' = [kind EXCEPT ![p] = k]
    /\ UNCHANGED <<db, lock, files, badName, outcome, seen, plan, version, ran,
                   txn, creator, faults, deploys>>

(* Mutant: the lock is only asked for, as by pg_try_advisory_lock(). *)
LockTried(p) ==
    /\ phase[p] = "locking"
    /\ lock' = IF lock = Nobody THEN p ELSE lock
    /\ Goto(p, "tracking")
    /\ UNCHANGED <<db, files, badName, kind, outcome, seen, plan, version, ran,
                   txn, creator, faults, deploys>>

(* SELECT pg_advisory_lock(...) *)
Lock(p) ==
    /\ phase[p] = "locking"
    /\ lock = Nobody
    /\ lock' = p
    /\ Goto(p, "tracking")
    /\ UNCHANGED <<db, files, badName, kind, outcome, seen, plan, version, ran,
                   txn, creator, faults, deploys>>

(* CREATE TABLE IF NOT EXISTS schema_migrations *)
CreateTable(p) ==
    /\ Write(p, [db EXCEPT !.track = "table"])
    /\ creator' = kind[p]
    /\ Goto(p, "column")

TrackTable(p) ==
    /\ phase[p] = "tracking"
    /\ \/ /\ db.track = "none" /\ ~\E q \in Procs \ {p} : Creating(q)
          /\ CreateTable(p)
       \/ /\ db.track = "none" /\ \E q \in Procs \ {p} : Creating(q)
          /\ Goto(p, "racing")
          /\ UNCHANGED <<db, txn, creator>>
       \/ /\ db.track # "none"
          /\ Goto(p, "column")
          /\ UNCHANGED <<db, txn, creator>>
    /\ UNCHANGED <<lock, files, badName, kind, outcome, seen, plan, version, ran,
                   faults, deploys>>

(* The other transaction ends: its table exists and this CREATE violates   *)
(* a unique index of the catalogue, or it does not and this one goes on.   *)
RaceEnds(p) ==
    /\ phase[p] = "racing"
    /\ ~\E q \in Procs \ {p} : Creating(q)
    /\ \/ /\ db.track # "none"
          /\ outcome' = [outcome EXCEPT ![p] = "raced"]
          /\ Goto(p, "unlocking")
          /\ UNCHANGED <<db, txn, creator>>
       \/ /\ db.track = "none"
          /\ CreateTable(p)
          /\ UNCHANGED outcome
    /\ UNCHANGED <<lock, files, badName, kind, seen, plan, version, ran, faults, deploys>>

(* ALTER TABLE schema_migrations ADD COLUMN IF NOT EXISTS checksum *)
TrackColumn(p) ==
    /\ phase[p] = "column"
    /\ ~\E q \in Procs \ {p} : Altered(q)
    /\ Write(p, [View(p) EXCEPT !.track = "column"])
    /\ Goto(p, "reading")
    /\ UNCHANGED <<lock, files, badName, kind, outcome, seen, plan, version, ran,
                   creator, faults, deploys>>

(* SELECT version, checksum, then load_migrations() of the directory. *)
ReadApplied(p) ==
    /\ phase[p] = "reading"
    /\ seen' = [seen EXCEPT ![p] = View(p).rows]
    /\ \/ /\ badName
          /\ outcome' = [outcome EXCEPT ![p] = "misnamed"]
          /\ Goto(p, "unlocking")
          /\ UNCHANGED plan
       \/ /\ ~badName
          /\ plan' = [plan EXCEPT ![p] = files]
          /\ Goto(p, "applying")
          /\ UNCHANGED outcome
    /\ UNCHANGED <<db, lock, files, badName, kind, version, ran, txn, creator,
                   faults, deploys>>

(* Versions of the plan still ahead of the loop; they are taken in order. *)
Ahead(p) == {v \in Versions : v > version[p] /\ plan[p][v] # "absent"}
IsNext(p, v) == v \in Ahead(p) /\ \A w \in Ahead(p) : v <= w
BetweenFiles(p) == phase[p] = "applying" /\ ran[p] = 0

(* Mutant: a recorded version is skipped without a look at its checksum. *)
CheckAppliedNot(p) ==
    /\ BetweenFiles(p)
    /\ \E v \in Versions :
        /\ IsNext(p, v) /\ seen[p][v] # "absent"
        /\ version' = [version EXCEPT ![p] = v]
    /\ UNCHANGED <<db, lock, files, badName, phase, kind, outcome, seen, plan, ran,
                   txn, creator, faults, deploys>>

(* Mutant: a row from before there were checksums is taken for an edit. *)
CheckAppliedNull(p) ==
    /\ BetweenFiles(p)
    /\ \E v \in Versions :
        /\ IsNext(p, v) /\ seen[p][v] # "absent"
        /\ \/ /\ seen[p][v] = plan[p][v]
              /\ version' = [version EXCEPT ![p] = v]
              /\ UNCHANGED <<phase, outcome>>
           \/ /\ seen[p][v] # plan[p][v]
              /\ outcome' = [outcome EXCEPT ![p] = "edited"]
              /\ Goto(p, "unlocking")
              /\ UNCHANGED version
    /\ UNCHANGED <<db, lock, files, badName, kind, seen, plan, ran, txn, creator,
                   faults, deploys>>

(* A version that is recorded: its checksum is compared, or filled in. *)
CheckApplied(p) ==
    /\ BetweenFiles(p)
    /\ \E v \in Versions :
        /\ IsNext(p, v) /\ seen[p][v] # "absent"
        /\ \/ /\ seen[p][v] \in {plan[p][v], "null"}
              /\ version' = [version EXCEPT ![p] = v]
              /\ IF seen[p][v] = "null"
                 THEN Write(p, [View(p) EXCEPT !.rows[v] = plan[p][v]])
                 ELSE UNCHANGED <<db, txn>>
              /\ UNCHANGED <<phase, outcome>>
           \/ /\ seen[p][v] \notin {plan[p][v], "null"}
              /\ outcome' = [outcome EXCEPT ![p] = "edited"]
              /\ Goto(p, "unlocking")
              /\ UNCHANGED <<db, txn, version>>
    /\ UNCHANGED <<lock, files, badName, kind, seen, plan, ran, creator, faults, deploys>>

(* One statement of a version that is not recorded, in file order. *)
RunStatement(p) ==
    /\ phase[p] = "applying"
    /\ \E v \in Versions :
        /\ IF ran[p] = 0 THEN IsNext(p, v) /\ seen[p][v] = "absent" ELSE v = version[p]
        /\ ran[p] < Statements
        /\ version' = [version EXCEPT ![p] = v]
        /\ ran' = [ran EXCEPT ![p] = @ + 1]
        /\ Write(p, [View(p) EXCEPT !.schema = @ \cup {<<v, ran[p] + 1>>}])
    /\ UNCHANGED <<lock, files, badName, phase, kind, outcome, seen, plan, creator,
                   faults, deploys>>

(* Mutant: a migration is recorded as soon as its first statement has run. *)
RecordEarly(p) ==
    /\ phase[p] = "applying"
    /\ ran[p] > 0
    /\ Write(p, [View(p) EXCEPT !.rows[version[p]] = plan[p][version[p]]])
    /\ ran' = [ran EXCEPT ![p] = IF @ = Statements THEN 0 ELSE @]
    /\ UNCHANGED <<lock, files, badName, phase, kind, outcome, seen, plan, version,
                   creator, faults, deploys>>

(* INSERT INTO schema_migrations, after the last statement. *)
Record(p) ==
    /\ phase[p] = "applying"
    /\ ran[p] = Statements
    /\ Write(p, [View(p) EXCEPT !.rows[version[p]] = plan[p][version[p]]])
    /\ ran' = [ran EXCEPT ![p] = 0]
    /\ UNCHANGED <<lock, files, badName, phase, kind, outcome, seen, plan, version,
                   creator, faults, deploys>>

LoopEnds(p) ==
    /\ BetweenFiles(p) /\ Ahead(p) = {}
    /\ Goto(p, "unlocking")
    /\ UNCHANGED <<db, lock, files, badName, kind, outcome, seen, plan, version, ran,
                   txn, creator, faults, deploys>>

(* Mutant: the error is swallowed, and transaction() commits nonetheless. *)
UnlockSwallows(p) ==
    /\ phase[p] = "unlocking"
    /\ lock' = IF lock = p THEN Nobody ELSE lock
    /\ Goto(p, IF kind[p] = "sync" THEN "committing" ELSE "over")
    /\ txn' = [txn EXCEPT ![p] = IF outcome[p] = "ok" THEN @ ELSE Nobody]
    /\ UNCHANGED <<db, files, badName, kind, outcome, seen, plan, version, ran,
                   creator, faults, deploys>>

(* The finally clause.  In a transaction that a statement aborted, the     *)
(* unlock is refused, and the session, which goes back to the pool after   *)
(* the rollback, keeps the lock.                                           *)
Unlock(p) ==
    /\ phase[p] = "unlocking"
    /\ LET refused == kind[p] = "sync" /\ outcome[p] \in {"failed", "raced"}
       IN  lock' = IF refused \/ lock # p THEN lock ELSE Nobody
    /\ Goto(p, IF kind[p] = "sync" /\ outcome[p] = "ok" THEN "committing" ELSE "over")
    /\ txn' = [txn EXCEPT ![p] = IF outcome[p] = "ok" THEN @ ELSE Nobody]
    /\ UNCHANGED <<db, files, badName, kind, outcome, seen, plan, version, ran,
                   creator, faults, deploys>>

(* transaction() commits after its body, unlock included, has run. *)
Commit(p) ==
    /\ phase[p] = "committing"
    /\ db' = txn[p]
    /\ txn' = [txn EXCEPT ![p] = Nobody]
    /\ Goto(p, "over")
    /\ UNCHANGED <<lock, files, badName, kind, outcome, seen, plan, version, ran,
                   creator, faults, deploys>>

-----------------------------------------------------------------------------
(* Faults, and changes of the migrations directory *)

(* A statement raises.  The async adapter has rolled back its transaction. *)
StatementFails(p) ==
    /\ faults < MaxFaults /\ faults' = faults + 1
    /\ phase[p] \in {"tracking", "column", "reading", "applying"}
    /\ outcome' = [outcome EXCEPT ![p] = "failed"]
    /\ Goto(p, "unlocking")
    /\ UNCHANGED <<db, lock, files, badName, kind, seen, plan, version, ran, txn,
                   creator, deploys>>

(* The server ends a session: its lock and its transaction are gone. *)
EndSession(p) ==
    /\ lock' = IF lock = p THEN Nobody ELSE lock
    /\ txn' = [txn EXCEPT ![p] = Nobody]

ConnectionLost(p) ==
    /\ faults < MaxFaults /\ faults' = faults + 1
    /\ phase[p] \notin {"none", "over"}
    /\ EndSession(p)
    /\ outcome' = [outcome EXCEPT ![p] = "lost"]
    /\ Goto(p, "over")
    /\ UNCHANGED <<db, files, badName, kind, seen, plan, version, ran, creator, deploys>>

(* A deployment adds a file, edits one, or leaves one with a wrong name. *)
Deploy ==
    /\ deploys < MaxDeploys /\ deploys' = deploys + 1
    /\ \/ /\ \E v \in Versions :
                files' = [files EXCEPT ![v] = IF @ = "absent" THEN "first" ELSE "edited"]
          /\ UNCHANGED badName
       \/ badName' = ~badName /\ UNCHANGED files
    /\ UNCHANGED <<db, lock, pass, txn, creator, faults>>

-----------------------------------------------------------------------------

(* What a process is in the middle of: the version whose statements it is  *)
(* running, and those its open transaction has added.                      *)
InFlight(p) ==
    (IF phase[p] = "applying" /\ ran[p] > 0 THEN {version[p]} ELSE {})
        \cup (IF txn[p] = Nobody THEN {}
              ELSE {v \in Versions : txn[p].rows[v] # "absent" /\ db.rows[v] = "absent"})

(* A version that is recorded has had all its statements run: a failure or *)
(* a crash at any point leaves a file that is run again, never one that is *)
(* taken for applied (migrations.py:52-53).                                *)
RecordedIsComplete ==
    \A v \in Versions, s \in 1 .. Statements :
        db.rows[v] # "absent" => <<v, s>> \in db.schema

(* Two processes that start together never run the same migration, also    *)
(* though a sync pass unlocks before it commits (:287-292).                *)
AppliedByOne ==
    \A p, q \in Procs : p # q => InFlight(p) \cap InFlight(q) = {}

(* What a transaction commits contains all that others committed since it  *)
(* began.                                                                  *)
NothingOverwritten ==
    \A p \in Procs : txn[p] # Nobody =>
        /\ db.schema \subseteq txn[p].schema
        /\ \A v \in Versions : db.rows[v] \in {txn[p].rows[v], "absent", "null"}

=============================================================================
