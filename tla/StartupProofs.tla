--------------------------- MODULE StartupProofs ---------------------------
(***************************************************************************)
(* Proofs about Migrations, Startup and Lifespan, for any number of        *)
(* processes and migration files: their types, what the advisory lock and  *)
(* the tracking table protect, why a startup fails, the schema a process   *)
(* serves on, and the order in which it shuts down.                        *)
(***************************************************************************)
EXTENDS Lifespan, TLAPS

-----------------------------------------------------------------------------
(* The inductive invariants *)

Working == {"tracking", "racing", "column", "reading", "applying", "unlocking"}
Early == {"none", "locking", "tracking", "racing", "column", "reading"}
Busy(p) == txn[p] # Nobody \/ phase[p] \in {"reading", "applying"}
Alone(p) == \A q \in Procs \ {p} : ~Busy(q)

(* Whoever is at work has the lock, and only he who waits for the end of a *)
(* transaction shares the time of another that is open or reads and runs   *)
(* the files: one who commits has given the lock back, but keeps the       *)
(* tracking table locked.                                                  *)
Exclusive == \A p \in Procs : Busy(p) => Alone(p)

LockHeld(p) ==
    /\ phase[p] \in Working => lock = p
    /\ outcome[p] # "ok" => phase[p] \in {"unlocking", "over"}
    /\ ran[p] > 0 => version[p] \in Versions
    /\ phase[p] \in Early => version[p] = 0 /\ ran[p] = 0

Complete(d) == \A v \in Versions, s \in 1 .. Statements : d.rows[v] # "absent" => <<v, s>> \in d.schema
(* From d to e nothing is lost and no recorded checksum changes. *)
Grows(d, e) ==
    /\ d.schema \subseteq e.schema
    /\ \A v \in Versions : d.rows[v] \in {e.rows[v], "absent", "null"}
    /\ d.track # "none" => e.track # "none"

(* An open transaction, and when there is one. *)
Opened(p) ==
    /\ txn[p] # Nobody =>
         /\ kind[p] = "sync"
         /\ phase[p] \in {"column", "reading", "applying", "unlocking", "committing"}
         /\ txn[p].track # "none" /\ Grows(db, txn[p]) /\ Complete(txn[p])
         /\ phase[p] \in Early => txn[p].rows = db.rows
    /\ \/ phase[p] \in {"reading", "applying"} /\ kind[p] = "sync"
       \/ phase[p] = "unlocking" /\ kind[p] = "sync" /\ outcome[p] = "ok"
       \/ phase[p] = "committing"
       => outcome[p] = "ok" /\ txn[p] # Nobody /\ txn[p].track = "column"

(* The loop over the files: what is ahead is as it was read, the file that *)
(* is being run is not recorded, and those behind are.                     *)
Unread(p, v) == v > version[p] \/ (v = version[p] /\ ran[p] > 0)

InLoop(p) ==
    phase[p] = "applying" =>
        /\ \A v \in Versions : Unread(p, v) =>
              db.rows[v] = seen[p][v] /\ View(p).rows[v] = seen[p][v]
        /\ ran[p] > 0 =>
              /\ plan[p][version[p]] # "absent" /\ seen[p][version[p]] = "absent"
              /\ \A s \in 1 .. ran[p] : <<version[p], s>> \in View(p).schema
        /\ \A v \in Versions : ~Unread(p, v) /\ plan[p][v] # "absent" =>
              View(p).rows[v] = plan[p][v]

OnSchema(p, d) == \A v \in Versions : plan[p][v] # "absent" => d.rows[v] = plan[p][v]
Differs(p) == \E v \in Versions : db.rows[v] \notin {plan[p][v], "absent", "null"}

LoopOver(p) ==
    /\ phase[p] \in {"unlocking", "committing", "over"} /\ outcome[p] = "ok" => OnSchema(p, View(p))
    /\ outcome[p] = "edited" => Differs(p)

MigrationInv ==
    /\ Exclusive /\ Complete(db)
    /\ \A p \in Procs : LockHeld(p) /\ Opened(p) /\ InLoop(p) /\ LoopOver(p)

(* Where the startup is, and why it failed. *)
AtStep(p) ==
    /\ phase[p] # "none" <=> step[p] \in {"data", "state"}
    /\ step[p] \in {"lookup", "create", "promote"} => Program[p] = "script"
    /\ step[p] \in {"seed", "seeding", "lookup", "create", "promote", "up"} => OnSchema(p, db)
    /\ step[p] = "failed" /\ cause[p] = "edited" => Differs(p)

(* Only a sync pass leaves the time between its CREATE and its commit in   *)
(* which another one's fails.                                              *)
RacedBySync(p) ==
    /\ Creating(p) => creator = "sync"
    /\ phase[p] = "column" /\ txn[p] = Nobody => db.track # "none"
    /\ phase[p] = "racing" /\ db.track # "none" => creator = "sync"
    /\ outcome[p] = "raced" \/ (step[p] = "failed" /\ cause[p] = "raced") =>
          creator = "sync" /\ db.track # "none"

StartupInv == \A p \in Procs : AtStep(p) /\ RacedBySync(p)

(* What a worker has shut down by the turn it has come to. *)
GoingDown(p) ==
    step[p] = "stopping" =>
        /\ turn[p] < 5 => jobs[p]["persist"] \in {"orphan", "over"}
        /\ turn[p] < 4 => jobs[p]["maintain"] \in {"orphan", "over"} /\ "store" \in closed[p]
        /\ turn[p] < 3 => "pool" \in closed[p]
        /\ turn[p] < 2 => jobs[p]["persist"] = "over" /\ jobs[p]["maintain"] = "over"
        /\ "store" \in closed[p] => turn[p] < 4
        /\ "executors" \in closed[p] => turn[p] < 2

(* Who creates an admin, and whose row stopped him. *)
AdminInv ==
    \A p \in Procs :
        /\ step[p] = "seeding" => AdminPassword
        /\ step[p] = "failed" /\ cause[p] = "duplicate" =>
              admin # "absent" /\ (Program[p] = "script" \/ AdminPassword)
        /\ step[p] = "failed" /\ cause[p] = "refused" => admin = "admin" /\ Program[p] = "script"

ShutdownInv == \A p \in Procs : GoingDown(p)

Inv == TypeOK /\ MigrationInv /\ StartupInv /\ ShutdownInv

-----------------------------------------------------------------------------
(* Databases *)

LEMMA GrowsOn == 
    ASSUME NEW d \in Database, NEW e \in Database, NEW f \in Database, Grows(d, e), Grows(e, f)
    PROVE  Grows(d, f)
BY DEF Grows

LEMMA GrowsItself == \A d \in Database : Grows(d, d)
BY DEF Grows

LEMMA TrackSet ==
    ASSUME NEW d \in Database, NEW track \in {"table", "column"},
           NEW e, e = [d EXCEPT !.track = track]
    PROVE  /\ e \in Database /\ Grows(d, e) /\ e # Nobody
           /\ e.track = track /\ e.rows = d.rows /\ e.schema = d.schema
<1>1. e \in Database /\ e.track = track /\ e.rows = d.rows /\ e.schema = d.schema
    BY DEF Database
<1> QED
    BY <1>1, MigrationAssumption DEF Grows

(* A row that had no checksum yet is written. *)
WithRow(d, v, x) == [d EXCEPT !.rows[v] = x]

LEMMA RowSet ==
    ASSUME NEW d \in Database, NEW v \in Versions, NEW x \in Checksums \cup {"absent"},
           d.rows[v] \in {"absent", "null"}, NEW e, e = WithRow(d, v, x)
    PROVE  /\ e \in Database /\ e # Nobody /\ e.track = d.track /\ e.schema = d.schema
           /\ e.rows[v] = x /\ \A w \in Versions \ {v} : e.rows[w] = d.rows[w]
           /\ Grows(d, e)
<1>1. /\ e \in Database /\ e.track = d.track /\ e.schema = d.schema
      /\ e.rows = [d.rows EXCEPT ![v] = x] /\ d.rows \in Rows
    BY DEF Database, Rows, WithRow
<1>2. e.rows[v] = x /\ \A w \in Versions \ {v} : e.rows[w] = d.rows[w]
    BY <1>1 DEF Rows
<1> QED
    BY <1>1, <1>2, MigrationAssumption DEF Grows

LEMMA StatementSet ==
    ASSUME NEW d \in Database, NEW v \in Versions, NEW k \in 1 .. Statements,
           NEW e, e = [d EXCEPT !.schema = @ \cup {<<v, k>>}]
    PROVE  /\ e \in Database /\ e # Nobody /\ e.track = d.track /\ e.rows = d.rows
           /\ e.schema = d.schema \cup {<<v, k>>} /\ Grows(d, e)
           /\ Complete(d) => Complete(e)
<1>1. e \in Database /\ e.track = d.track /\ e.rows = d.rows /\ e.schema = d.schema \cup {<<v, k>>}
    BY DEF Database
<1> QED
    BY <1>1, MigrationAssumption DEF Grows, Complete

LEMMA Written ==
    ASSUME MigrationTypeOK, NEW p \in Procs, NEW new \in Database, Write(p, new),
           kind[p] = "async" => txn[p] = Nobody
    PROVE  /\ View(p)' = new /\ db' \in {db, new} /\ db' \in Database
           /\ txn' \in [Procs -> Database \cup {Nobody}]
           /\ \A q \in Procs \ {p} : txn'[q] = txn[q]
           /\ kind[p] = "sync" => db' = db /\ txn'[p] = new
           /\ kind[p] = "async" => db' = new /\ txn'[p] = Nobody
<1>1. /\ kind[p] \in {"async", "sync"} /\ txn \in [Procs -> Database \cup {Nobody}]
      /\ db \in Database /\ new # Nobody
    BY MigrationAssumption DEF MigrationTypeOK
<1>2. CASE kind[p] = "sync"
    BY <1>1, <1>2 DEF Write, View
<1>3. CASE kind[p] = "async"
    BY <1>1, <1>3 DEF Write, View
<1> QED
    BY <1>1, <1>2, <1>3

-----------------------------------------------------------------------------
(* One process goes on *)

OthersStay(p) ==
    \A q \in Procs \ {p} :
        /\ phase'[q] = phase[q] /\ kind'[q] = kind[q] /\ outcome'[q] = outcome[q]
        /\ seen'[q] = seen[q] /\ plan'[q] = plan[q] /\ version'[q] = version[q]
        /\ ran'[q] = ran[q] /\ txn'[q] = txn[q]
        /\ lock = q => lock' = q

LEMMA OtherKept ==
    ASSUME MigrationTypeOK, MigrationInv, NEW p \in Procs, NEW q \in Procs \ {p}, OthersStay(p),
           db' = db \/ ~Busy(q), Grows(db, db')
    PROVE  LockHeld(q)' /\ Opened(q)' /\ InLoop(q)' /\ LoopOver(q)'
<1>1. LockHeld(q) /\ Opened(q) /\ InLoop(q) /\ LoopOver(q)
    BY DEF MigrationInv
<1>2. /\ phase'[q] = phase[q] /\ kind'[q] = kind[q] /\ outcome'[q] = outcome[q]
      /\ seen'[q] = seen[q] /\ plan'[q] = plan[q] /\ version'[q] = version[q]
      /\ ran'[q] = ran[q] /\ txn'[q] = txn[q]
      /\ lock = q => lock' = q
    BY DEF OthersStay
<1>3. LockHeld(q)'
    BY <1>1, <1>2 DEF LockHeld
<1>4. CASE db' = db
    BY <1>1, <1>2, <1>3, <1>4 DEF Opened, InLoop, LoopOver, View, OnSchema, Differs, Unread
<1>5. CASE ~Busy(q)
    <2>1. txn[q] = Nobody /\ phase[q] \notin {"reading", "applying"}
        BY <1>5 DEF Busy
    <2>2. Opened(q)' /\ InLoop(q)'
        BY <1>1, <1>2, <2>1 DEF Opened, InLoop
    <2>3. \A v \in Versions : plan[q][v] \in Checksums \cup {"absent"}
        BY DEF MigrationTypeOK, Files
    <2>4. OnSchema(q, View(q)) => OnSchema(q, View(q))'
        BY <1>2, <2>1, <2>3 DEF OnSchema, View, Grows, Checksums
    <2>5. Differs(q) => Differs(q)'
        BY <1>2 DEF Differs, Grows
    <2>6. LoopOver(q)'
        BY <1>1, <1>2, <2>4, <2>5 DEF LoopOver
    <2> QED
        BY <1>3, <2>2, <2>6
<1> QED
    BY <1>4, <1>5

LEMMA PassStep ==
    ASSUME MigrationTypeOK, MigrationInv, NEW p \in Procs, OthersStay(p),
           Alone(p) \/ (db' = db /\ ~Busy(p)'), Grows(db, db'), Complete(db)',
           LockHeld(p)', Opened(p)', InLoop(p)', LoopOver(p)'
    PROVE  MigrationInv' /\ OthersStay(p) /\ Grows(db, db')
<1>1. \A q \in Procs \ {p} : Busy(q)' = Busy(q)
    BY DEF OthersStay, Busy
<1>2. Exclusive'
    BY <1>1 DEF MigrationInv, Exclusive, Alone
<1>3. \A q \in Procs : LockHeld(q)' /\ Opened(q)' /\ InLoop(q)' /\ LoopOver(q)'
    BY OtherKept DEF Alone
<1> QED
    BY <1>2, <1>3 DEF MigrationInv

(* Whoever is at work beside nobody who creates or alters the tracking     *)
(* table is alone.                                                         *)
LEMMA WorksAlone ==
    ASSUME MigrationTypeOK, MigrationInv, NEW p \in Procs, phase[p] \in Working,
           \/ Busy(p)
           \/ ~\E q \in Procs \ {p} : Altered(q)
           \/ db.track = "none" /\ ~\E q \in Procs \ {p} : Creating(q)
    PROVE  Alone(p)
<1>1. CASE Busy(p)
    BY <1>1 DEF MigrationInv, Exclusive
<1>2. ASSUME NEW q \in Procs \ {p}, Busy(q) PROVE Altered(q) /\ (db.track = "none" => Creating(q))
    <2>1. lock = p /\ p # q
        BY DEF MigrationInv, LockHeld
    <2>2. phase[q] \notin Working
        BY <2>1 DEF MigrationInv, LockHeld
    <2>3. txn[q] # Nobody /\ phase[q] = "committing"
        BY <1>2, <2>2 DEF Busy, Working, MigrationInv, Opened
    <2>4. txn[q].track = "column"
        BY <2>3 DEF MigrationInv, Opened
    <2> QED
        BY <2>3, <2>4 DEF Altered, Creating
<1> QED
    BY <1>1, <1>2 DEF Alone

(* A step that writes nothing for others to see. *)
LEMMA QuietStep ==
    ASSUME MigrationTypeOK, MigrationInv, NEW p \in Procs, OthersStay(p), db' = db,
           Busy(p)' => Busy(p),
           LockHeld(p)', Opened(p)', InLoop(p)', LoopOver(p)'
    PROVE  MigrationInv' /\ OthersStay(p) /\ Grows(db, db')
<1>1. Grows(db, db') /\ Complete(db)'
    BY GrowsItself DEF MigrationTypeOK, MigrationInv, Complete
<1>2. Alone(p) \/ ~Busy(p)'
    BY DEF MigrationInv, Exclusive
<1> QED
    BY <1>1, <1>2, PassStep

LEMMA BeginKept ==
    ASSUME MigrationTypeOK, MigrationInv, NEW p \in Procs, NEW k \in {"async", "sync"},
           BeginPass(p, k)
    PROVE  MigrationTypeOK' /\ MigrationInv' /\ OthersStay(p) /\ Grows(db, db')
<1>1. /\ phase[p] = "none" /\ phase' = [phase EXCEPT ![p] = "locking"]
      /\ kind' = [kind EXCEPT ![p] = k]
      /\ UNCHANGED <<db, lock, files, badName, outcome, seen, plan, version, ran,
                     txn, creator, faults, deploys>>
    BY DEF BeginPass, Goto
<1>2. MigrationTypeOK'
    BY <1>1 DEF MigrationTypeOK, Phases
<1>3. phase'[p] = "locking" /\ OthersStay(p)
    BY <1>1 DEF MigrationTypeOK, OthersStay
<1>4. LockHeld(p) /\ Opened(p)
    BY DEF MigrationInv
<1>5. txn[p] = Nobody
    BY <1>1, <1>4 DEF Opened
<1>6. LockHeld(p)' /\ Opened(p)' /\ InLoop(p)' /\ LoopOver(p)' /\ ~Busy(p)'
    BY <1>1, <1>3, <1>4, <1>5 DEF LockHeld, Opened, InLoop, LoopOver, Working, Early, Busy
<1> QED
    BY <1>1, <1>2, <1>3, <1>6, QuietStep

LEMMA LockKept ==
    ASSUME MigrationTypeOK, MigrationInv, NEW p \in Procs, Lock(p)
    PROVE  MigrationTypeOK' /\ MigrationInv' /\ OthersStay(p) /\ Grows(db, db')
<1>1. /\ phase[p] = "locking" /\ phase' = [phase EXCEPT ![p] = "tracking"]
      /\ lock = Nobody /\ lock' = p
      /\ UNCHANGED <<db, files, badName, kind, outcome, seen, plan, version, ran,
                     txn, creator, faults, deploys>>
    BY DEF Lock, Goto
<1>2. MigrationTypeOK'
    BY <1>1 DEF MigrationTypeOK, Phases
<1>3. phase'[p] = "tracking" /\ OthersStay(p)
    BY <1>1, MigrationAssumption DEF MigrationTypeOK, OthersStay
<1>4. LockHeld(p) /\ Opened(p)
    BY DEF MigrationInv
<1>5. txn[p] = Nobody
    BY <1>1, <1>4 DEF Opened
<1>6. LockHeld(p)' /\ Opened(p)' /\ InLoop(p)' /\ LoopOver(p)' /\ ~Busy(p)'
    BY <1>1, <1>3, <1>4, <1>5 DEF LockHeld, Opened, InLoop, LoopOver, Working, Early, Busy
<1> QED
    BY <1>1, <1>2, <1>3, <1>6, QuietStep

(* The tracking table: CREATE, and then ALTER, when nobody else creates or *)
(* alters it.                                                              *)
LEMMA CreateKept ==
    ASSUME MigrationTypeOK, MigrationInv, NEW p \in Procs, CreateTable(p),
           phase[p] \in {"tracking", "racing"}, db.track = "none",
           ~\E q \in Procs \ {p} : Creating(q),
           UNCHANGED <<lock, files, badName, kind, outcome, seen, plan, version, ran,
                       faults, deploys>>
    PROVE  MigrationTypeOK' /\ MigrationInv' /\ OthersStay(p) /\ Grows(db, db')
<1> DEFINE new == [db EXCEPT !.track = "table"]
<1>1. Write(p, new) /\ creator' = kind[p] /\ phase' = [phase EXCEPT ![p] = "column"]
    BY DEF CreateTable, Goto
<1>2. /\ new \in Database /\ Grows(db, new) /\ new.track = "table" /\ new.rows = db.rows
      /\ new.schema = db.schema /\ new # Nobody
    BY TrackSet DEF MigrationTypeOK
<1> HIDE DEF new
<1>3. LockHeld(p) /\ Opened(p)
    BY DEF MigrationInv
<1>4. txn[p] = Nobody
    BY <1>3 DEF Opened
<1>5. /\ db' \in {db, new} /\ db' \in Database
      /\ txn' \in [Procs -> Database \cup {Nobody}]
      /\ \A q \in Procs \ {p} : txn'[q] = txn[q]
      /\ kind[p] = "sync" => db' = db /\ txn'[p] = new
      /\ kind[p] = "async" => db' = new /\ txn'[p] = Nobody
    BY <1>1, <1>2, <1>4, Written
<1>6. MigrationTypeOK'
    BY <1>1, <1>5 DEF MigrationTypeOK, Phases
<1>7. phase'[p] = "column" /\ OthersStay(p) /\ kind[p] \in {"sync", "async"}
    BY <1>1, <1>5 DEF MigrationTypeOK, OthersStay
<1>8. Alone(p)
    BY WorksAlone DEF Working
<1>9. Grows(db, db') /\ Complete(db)' /\ Complete(new)
    BY <1>2, <1>5, GrowsItself DEF MigrationTypeOK, MigrationInv, Complete
<1>10. LockHeld(p)' /\ InLoop(p)' /\ LoopOver(p)'
    BY <1>3, <1>7 DEF LockHeld, InLoop, LoopOver, Working, Early
<1>11. Opened(p)'
    BY <1>2, <1>5, <1>7, <1>9 DEF Opened, Complete
<1> QED
    BY <1>6, <1>7, <1>8, <1>9, <1>10, <1>11, PassStep

LEMMA TrackTableKept ==
    ASSUME MigrationTypeOK, MigrationInv, NEW p \in Procs, TrackTable(p)
    PROVE  MigrationTypeOK' /\ MigrationInv' /\ OthersStay(p) /\ Grows(db, db')
<1>1. /\ phase[p] = "tracking"
      /\ UNCHANGED <<lock, files, badName, kind, outcome, seen, plan, version, ran,
                     faults, deploys>>
    BY DEF TrackTable
<1>2. CASE /\ db.track = "none" /\ ~\E q \in Procs \ {p} : Creating(q)
           /\ CreateTable(p)
    BY <1>1, <1>2, CreateKept
<1>3. CASE \E there \in {"racing", "column"} : Goto(p, there) /\ UNCHANGED <<db, txn, creator>>
    <2>1. PICK there \in {"racing", "column"} :
              phase' = [phase EXCEPT ![p] = there] /\ UNCHANGED <<db, txn, creator>>
        BY <1>3 DEF Goto
    <2>2. MigrationTypeOK'
        BY <1>1, <2>1 DEF MigrationTypeOK, Phases
    <2>3. phase'[p] = there /\ OthersStay(p)
        BY <1>1, <2>1 DEF MigrationTypeOK, OthersStay
    <2>4. LockHeld(p) /\ Opened(p)
        BY DEF MigrationInv
    <2>5. txn[p] = Nobody
        BY <1>1, <2>4 DEF Opened
    <2>6. LockHeld(p)' /\ Opened(p)' /\ InLoop(p)' /\ LoopOver(p)' /\ ~Busy(p)'
        BY <1>1, <2>1, <2>3, <2>4, <2>5 DEF LockHeld, Opened, InLoop, LoopOver, Working, Early, Busy
    <2> QED
        BY <2>1, <2>2, <2>3, <2>6, QuietStep
<1> QED
    BY <1>2, <1>3 DEF TrackTable

(* A process goes on to give the lock back: the pass failed of `why`. *)
LEMMA StopsKept ==
    ASSUME MigrationTypeOK, MigrationInv, NEW p \in Procs, phase[p] \in Working \ {"unlocking"},
           NEW why \in {"failed", "raced", "misnamed", "edited"},
           outcome' = [outcome EXCEPT ![p] = why], Goto(p, "unlocking"),
           seen' \in [Procs -> Rows], \A q \in Procs \ {p} : seen'[q] = seen[q],
           faults' \in 0 .. MaxFaults,
           why = "edited" => Differs(p),
           UNCHANGED <<db, lock, files, badName, kind, plan, version, ran, txn, creator, deploys>>
    PROVE  MigrationTypeOK' /\ MigrationInv' /\ OthersStay(p) /\ Grows(db, db')
<1>1. phase' = [phase EXCEPT ![p] = "unlocking"]
    BY DEF Goto
<1>2. MigrationTypeOK'
    BY <1>1 DEF MigrationTypeOK, Phases, Outcomes
<1>3. phase'[p] = "unlocking" /\ outcome'[p] = why /\ OthersStay(p)
    BY <1>1 DEF MigrationTypeOK, OthersStay
<1>4. LockHeld(p) /\ Opened(p)
    BY DEF MigrationInv
<1>5. LockHeld(p)' /\ InLoop(p)'
    BY <1>3, <1>4 DEF LockHeld, InLoop, Working, Early
<1>6. Opened(p)'
    BY <1>3, <1>4 DEF Opened, Complete, Early
<1>7. LoopOver(p)'
    BY <1>3 DEF LoopOver, Differs
<1>8. Busy(p)' => Busy(p)
    BY <1>3 DEF Busy
<1> QED
    BY <1>2, <1>3, <1>5, <1>6, <1>7, <1>8, QuietStep

LEMMA RaceKept ==
    ASSUME MigrationTypeOK, MigrationInv, NEW p \in Procs, RaceEnds(p)
    PROVE  MigrationTypeOK' /\ MigrationInv' /\ OthersStay(p) /\ Grows(db, db')
<1>1. /\ phase[p] = "racing" /\ ~\E q \in Procs \ {p} : Creating(q)
      /\ UNCHANGED <<lock, files, badName, kind, seen, plan, version, ran, faults, deploys>>
    BY DEF RaceEnds
<1>2. CASE db.track = "none" /\ CreateTable(p) /\ UNCHANGED outcome
    BY <1>1, <1>2, CreateKept
<1>3. CASE outcome' = [outcome EXCEPT ![p] = "raced"] /\ Goto(p, "unlocking")
           /\ UNCHANGED <<db, txn, creator>>
    BY <1>1, <1>3, StopsKept DEF MigrationTypeOK, Working
<1> QED
    BY <1>2, <1>3 DEF RaceEnds

LEMMA TrackColumnKept ==
    ASSUME MigrationTypeOK, MigrationInv, NEW p \in Procs, TrackColumn(p)
    PROVE  MigrationTypeOK' /\ MigrationInv' /\ OthersStay(p) /\ Grows(db, db')
<1> DEFINE new == [View(p) EXCEPT !.track = "column"]
<1>1. /\ phase[p] = "column" /\ ~\E q \in Procs \ {p} : Altered(q)
      /\ Write(p, new) /\ phase' = [phase EXCEPT ![p] = "reading"]
      /\ UNCHANGED <<lock, files, badName, kind, outcome, seen, plan, version, ran,
                     creator, faults, deploys>>
    BY DEF TrackColumn, Goto
<1>2. LockHeld(p) /\ Opened(p)
    BY DEF MigrationInv
<1>3. View(p) \in Database /\ View(p).rows = db.rows /\ Grows(db, View(p)) /\ Complete(View(p))
    BY <1>1, <1>2, GrowsItself DEF MigrationTypeOK, MigrationInv, View, Opened, Early
<1>4. /\ new \in Database /\ Grows(View(p), new) /\ new.track = "column" /\ new.rows = View(p).rows
      /\ new.schema = View(p).schema /\ new # Nobody
    BY <1>3, TrackSet
<1> HIDE DEF new
<1>5. Complete(new) /\ Grows(db, new)
    BY <1>3, <1>4, GrowsOn DEF Complete, MigrationTypeOK
<1>6. kind[p] = "async" => txn[p] = Nobody
    BY <1>2 DEF Opened
<1>7. /\ db' \in {db, new} /\ db' \in Database
      /\ txn' \in [Procs -> Database \cup {Nobody}]
      /\ \A q \in Procs \ {p} : txn'[q] = txn[q]
      /\ kind[p] = "sync" => db' = db /\ txn'[p] = new
      /\ kind[p] = "async" => db' = new /\ txn'[p] = Nobody
    BY <1>1, <1>4, <1>6, Written
<1>8. MigrationTypeOK'
    BY <1>1, <1>7 DEF MigrationTypeOK, Phases
<1>9. phase'[p] = "reading" /\ OthersStay(p) /\ kind[p] \in {"sync", "async"}
    BY <1>1, <1>7 DEF MigrationTypeOK, OthersStay
<1>10. Alone(p)
    BY <1>1, WorksAlone DEF Working
<1>11. Grows(db, db') /\ Complete(db)'
    BY <1>5, <1>7, GrowsItself DEF MigrationTypeOK, MigrationInv, Complete
<1>12. LockHeld(p)' /\ InLoop(p)' /\ LoopOver(p)'
    BY <1>1, <1>2, <1>9 DEF LockHeld, InLoop, LoopOver, Working, Early
<1>13. outcome'[p] = "ok"
    BY <1>12, <1>9 DEF LockHeld
<1>14. Opened(p)'
    BY <1>1, <1>3, <1>4, <1>5, <1>7, <1>9, <1>13 DEF Opened, Complete
<1> QED
    BY <1>8, <1>9, <1>10, <1>11, <1>12, <1>14, PassStep

LEMMA ReadKept ==
    ASSUME MigrationTypeOK, MigrationInv, NEW p \in Procs, ReadApplied(p)
    PROVE  MigrationTypeOK' /\ MigrationInv' /\ OthersStay(p) /\ Grows(db, db')
<1>1. /\ phase[p] = "reading" /\ seen' = [seen EXCEPT ![p] = View(p).rows]
      /\ UNCHANGED <<db, lock, files, badName, kind, version, ran, txn, creator, faults, deploys>>
    BY DEF ReadApplied
<1>2. LockHeld(p) /\ Opened(p)
    BY DEF MigrationInv
<1>3. View(p).rows = db.rows /\ View(p).rows \in Rows
    BY <1>1, <1>2 DEF MigrationTypeOK, View, Opened, Early, Database
<1>4. seen' \in [Procs -> Rows] /\ seen'[p] = db.rows /\ \A q \in Procs \ {p} : seen'[q] = seen[q]
    BY <1>1, <1>3 DEF MigrationTypeOK
<1>5. CASE outcome' = [outcome EXCEPT ![p] = "misnamed"] /\ Goto(p, "unlocking") /\ UNCHANGED plan
    BY <1>1, <1>4, <1>5, StopsKept DEF MigrationTypeOK, Working
<1>6. CASE plan' = [plan EXCEPT ![p] = files] /\ Goto(p, "applying") /\ UNCHANGED outcome
    <2>1. phase' = [phase EXCEPT ![p] = "applying"]
        BY <1>6 DEF Goto
    <2>2. MigrationTypeOK'
        BY <1>1, <1>4, <1>6, <2>1 DEF MigrationTypeOK, Phases
    <2>3. phase'[p] = "applying" /\ OthersStay(p)
        BY <1>1, <1>4, <1>6, <2>1 DEF MigrationTypeOK, OthersStay
    <2>4. LockHeld(p)' /\ LoopOver(p)' /\ outcome'[p] = "ok"
        BY <1>1, <1>2, <1>6, <2>3 DEF LockHeld, LoopOver, Working, Early
    <2>5. Opened(p)'
        BY <1>1, <1>2, <1>6, <2>3, <2>4 DEF Opened, Complete, Early
    <2>6. version'[p] = 0 /\ ran'[p] = 0
        BY <1>1, <1>2 DEF LockHeld, Early
    <2>7. View(p)' = View(p)
        BY <1>1 DEF View
    <2>8. \A v \in Versions : Unread(p, v)'
        BY <2>6, MigrationAssumption DEF Unread, Versions
    <2>9. InLoop(p)'
        BY <1>1, <1>3, <1>4, <2>6, <2>7, <2>8 DEF InLoop
    <2>10. Busy(p)
        BY <1>1 DEF Busy
    <2> QED
        BY <1>1, <2>2, <2>3, <2>4, <2>5, <2>9, <2>10, QuietStep
<1> QED
    BY <1>5, <1>6 DEF ReadApplied

(* The loop writes to the database and stays in it. *)
LEMMA LoopWrites ==
    ASSUME MigrationTypeOK, MigrationInv, NEW p \in Procs, phase[p] = "applying",
           NEW new \in Database, Write(p, new), Grows(View(p), new), Complete(new),
           new.track = View(p).track, Grows(db, new),
           version' = [version EXCEPT ![p] = version'[p]], version'[p] \in Versions,
           ran' = [ran EXCEPT ![p] = ran'[p]], ran'[p] \in 0 .. Statements,
           UNCHANGED <<lock, files, badName, phase, kind, outcome, seen, plan, creator,
                       faults, deploys>>,
           View(p)' = new => InLoop(p)'
    PROVE  MigrationTypeOK' /\ MigrationInv' /\ OthersStay(p) /\ Grows(db, db')
<1>1. LockHeld(p) /\ Opened(p) /\ InLoop(p)
    BY DEF MigrationInv
<1>2. kind[p] = "async" => txn[p] = Nobody
    BY <1>1 DEF Opened
<1>3. /\ View(p)' = new
      /\ db' \in {db, new} /\ db' \in Database
      /\ txn' \in [Procs -> Database \cup {Nobody}]
      /\ \A q \in Procs \ {p} : txn'[q] = txn[q]
      /\ kind[p] = "sync" => db' = db /\ txn'[p] = new
      /\ kind[p] = "async" => db' = new /\ txn'[p] = Nobody
    BY <1>2, Written
<1>4. MigrationTypeOK'
    BY <1>3 DEF MigrationTypeOK
<1>5. OthersStay(p) /\ kind[p] \in {"sync", "async"}
    BY <1>3 DEF MigrationTypeOK, OthersStay
<1>6. Busy(p) /\ Alone(p)
    BY WorksAlone DEF Busy, Working
<1>7. Grows(db, db') /\ Complete(db)'
    BY <1>3, GrowsItself DEF MigrationTypeOK, MigrationInv, Complete
<1>8. LockHeld(p)' /\ LoopOver(p)' /\ outcome[p] = "ok"
    BY <1>1 DEF LockHeld, LoopOver, Working, Early
<1>9. kind[p] = "sync" => txn[p] # Nobody /\ txn[p].track = "column"
    BY <1>1 DEF Opened
<1>10. kind[p] = "sync" => new.track = "column"
    BY <1>9 DEF View
<1>11. new # Nobody
    BY MigrationAssumption
<1>12. Opened(p)'
    BY <1>3, <1>5, <1>8, <1>10, <1>11 DEF Opened, Complete, Early
<1> QED
    BY <1>3, <1>4, <1>5, <1>6, <1>7, <1>8, <1>12, PassStep

(* What a process in the loop sees. *)
LEMMA LoopSees ==
    ASSUME MigrationTypeOK, MigrationInv, NEW p \in Procs, phase[p] = "applying"
    PROVE  /\ View(p) \in Database /\ Complete(View(p)) /\ Grows(db, View(p))
           /\ plan[p] \in Files /\ seen[p] \in Rows /\ version[p] \in Versions \cup {0}
           /\ ran[p] \in 0 .. Statements
<1>1. View(p) \in Database /\ Complete(View(p)) /\ Grows(db, View(p))
    BY GrowsItself DEF MigrationTypeOK, MigrationInv, Opened, View
<1> QED
    BY <1>1 DEF MigrationTypeOK

LEMMA NextIsUnread ==
    ASSUME MigrationTypeOK, NEW p \in Procs, ran[p] = 0, NEW v \in Versions, IsNext(p, v)
    PROVE  /\ Unread(p, v) /\ plan[p][v] # "absent"
           /\ \A w \in Versions : Unread(p, w) /\ w < v => plan[p][w] = "absent"
           /\ \A w \in Versions : w > v => Unread(p, w)
<1>1. version[p] \in Nat /\ Versions \subseteq Nat
    BY MigrationAssumption DEF MigrationTypeOK, Versions
<1>2. v > version[p] /\ plan[p][v] # "absent"
    BY DEF IsNext, Ahead
<1>3. ASSUME NEW w \in Versions, w > version[p], w < v PROVE plan[p][w] = "absent"
    BY <1>1, <1>3 DEF IsNext, Ahead
<1>4. \A w \in Versions : Unread(p, w) <=> w > version[p]
    BY <1>1 DEF Unread
<1> QED
    BY <1>1, <1>2, <1>3, <1>4

LEMMA CheckKept ==
    ASSUME MigrationTypeOK, MigrationInv, NEW p \in Procs, CheckApplied(p)
    PROVE  MigrationTypeOK' /\ MigrationInv' /\ OthersStay(p) /\ Grows(db, db')
<1>1. /\ phase[p] = "applying" /\ ran[p] = 0
      /\ UNCHANGED <<lock, files, badName, kind, seen, plan, ran, creator, faults, deploys>>
    BY DEF CheckApplied, BetweenFiles
<1>2. PICK v \in Versions :
         /\ IsNext(p, v) /\ seen[p][v] # "absent"
         /\ \/ /\ seen[p][v] \in {plan[p][v], "null"}
               /\ version' = [version EXCEPT ![p] = v]
               /\ IF seen[p][v] = "null"
                  THEN Write(p, [View(p) EXCEPT !.rows[v] = plan[p][v]])
                  ELSE UNCHANGED <<db, txn>>
               /\ UNCHANGED <<phase, outcome>>
            \/ /\ seen[p][v] \notin {plan[p][v], "null"}
               /\ outcome' = [outcome EXCEPT ![p] = "edited"]
               /\ Goto(p, "unlocking")
               /\ UNCHANGED <<db, txn, version>>
    BY DEF CheckApplied
<1>3. LockHeld(p) /\ Opened(p) /\ InLoop(p)
    BY DEF MigrationInv
<1>4. /\ View(p) \in Database /\ Complete(View(p)) /\ Grows(db, View(p))
      /\ plan[p] \in Files /\ plan[p][v] \in Checksums \cup {"absent"}
    BY <1>1, LoopSees DEF Files
<1>5. /\ Unread(p, v) /\ plan[p][v] # "absent"
      /\ \A w \in Versions : Unread(p, w) /\ w < v => plan[p][w] = "absent"
      /\ \A w \in Versions : w > v => Unread(p, w)
    BY <1>1, <1>2, NextIsUnread
<1>6. db.rows[v] = seen[p][v] /\ View(p).rows[v] = seen[p][v]
    BY <1>1, <1>3, <1>5 DEF InLoop
<1>7. CASE /\ seen[p][v] \notin {plan[p][v], "null"}
           /\ outcome' = [outcome EXCEPT ![p] = "edited"]
           /\ Goto(p, "unlocking")
           /\ UNCHANGED <<db, txn, version>>
    <2>1. Differs(p)
        BY <1>2, <1>6, <1>7 DEF Differs
    <2> QED
        BY <1>1, <1>7, <2>1, StopsKept DEF MigrationTypeOK, Working
<1>8. CASE /\ seen[p][v] \in {plan[p][v], "null"}
           /\ version' = [version EXCEPT ![p] = v]
           /\ UNCHANGED <<phase, outcome>>
    <2>1. version'[p] = v /\ ran'[p] = 0
        BY <1>1, <1>8 DEF MigrationTypeOK
    <2>2. \A w \in Versions : Unread(p, w)' <=> w > v
        BY <1>1, <2>1 DEF Unread
    (* What is behind the loop now is recorded as it was loaded. *)
    <2>3. ASSUME NEW new, new.rows[v] = plan[p][v],
                 \A w \in Versions \ {v} : new.rows[w] = View(p).rows[w],
                 View(p)' = new, \A w \in Versions : w > v => db'.rows[w] = db.rows[w]
          PROVE  InLoop(p)'
        <3>1. ASSUME NEW w \in Versions, Unread(p, w)'
              PROVE  db'.rows[w] = seen'[p][w] /\ new.rows[w] = seen'[p][w]
            <4>1. w > v /\ Unread(p, w) /\ w # v
                BY <1>5, <2>2, <3>1 DEF Versions
            <4> QED
                BY <1>1, <1>3, <2>3, <4>1 DEF InLoop
        <3>2. ASSUME NEW w \in Versions, ~Unread(p, w)', plan'[p][w] # "absent"
              PROVE  new.rows[w] = plan'[p][w]
            <4>1. CASE w = v
                BY <1>1, <2>3, <4>1
            <4>2. CASE w # v
                <5>1. w < v
                    BY <2>2, <3>2, <4>2 DEF Versions
                <5>2. ~Unread(p, w)
                    BY <1>1, <1>5, <3>2, <5>1
                <5> QED
                    BY <1>1, <1>3, <2>3, <3>2, <4>2, <5>2 DEF InLoop
            <4> QED
                BY <4>1, <4>2
        <3> QED
            BY <2>1, <2>3, <3>1, <3>2 DEF InLoop
    <2>4. CASE seen[p][v] = "null"
        <3> DEFINE new == [View(p) EXCEPT !.rows[v] = plan[p][v]]
        <3>1. Write(p, new)
            BY <1>2, <1>8, <2>4
        <3>10. new = WithRow(View(p), v, plan[p][v])
            BY DEF WithRow
        <3> HIDE DEF new
        <3>2. /\ new \in Database /\ new.track = View(p).track /\ new.schema = View(p).schema
              /\ new.rows[v] = plan[p][v] /\ \A w \in Versions \ {v} : new.rows[w] = View(p).rows[w]
              /\ Grows(View(p), new)
            BY <1>4, <1>6, <2>4, <3>10, RowSet
        <3>3. Complete(new)
            BY <1>4, <1>6, <2>4, <3>2 DEF Complete
        <3>4. Grows(db, new)
            BY <1>4, <3>2, GrowsOn DEF MigrationTypeOK
        <3>5. kind[p] = "async" => txn[p] = Nobody
            BY <1>3 DEF Opened
        <3>6. db' \in {db, new}
            BY <3>1, <3>2, <3>5, Written
        <3>7. \A w \in Versions : w > v => db'.rows[w] = db.rows[w]
            <4>1. ASSUME NEW w \in Versions, w > v PROVE new.rows[w] = db.rows[w]
                <5>1. Unread(p, w) /\ w # v
                    BY <1>5, <4>1 DEF Versions
                <5> QED
                    BY <1>1, <1>3, <3>2, <5>1 DEF InLoop
            <4> QED
                BY <3>6, <4>1
        <3>8. View(p)' = new => InLoop(p)'
            BY <2>3, <3>2, <3>7
        <3>9. ran' = [ran EXCEPT ![p] = ran'[p]] /\ ran'[p] \in 0 .. Statements
            BY <1>1, <2>1, MigrationAssumption DEF MigrationTypeOK
        <3> QED
            BY <1>1, <1>8, <2>1, <3>1, <3>2, <3>3, <3>4, <3>8, <3>9, LoopWrites
    <2>5. CASE seen[p][v] # "null"
        <3>1. UNCHANGED <<db, txn>> /\ View(p).rows[v] = plan[p][v]
            BY <1>2, <1>6, <1>8, <2>5
        <3>2. View(p)' = View(p)
            BY <3>1 DEF View
        <3>3. InLoop(p)'
            BY <2>3, <3>1, <3>2
        <3>4. MigrationTypeOK'
            BY <1>1, <1>8, <3>1 DEF MigrationTypeOK
        <3>5. OthersStay(p)
            BY <1>1, <1>8, <3>1 DEF MigrationTypeOK, OthersStay
        <3>6. LockHeld(p)' /\ LoopOver(p)'
            BY <1>1, <1>3, <1>8, <2>1 DEF LockHeld, LoopOver, Early
        <3>7. Opened(p)'
            BY <1>1, <1>3, <1>8, <3>1 DEF Opened, Complete
        <3>8. Busy(p)
            BY <1>1 DEF Busy
        <3> QED
            BY <3>1, <3>3, <3>4, <3>5, <3>6, <3>7, <3>8, QuietStep
    <2> QED
        BY <2>4, <2>5
<1> QED
    BY <1>2, <1>7, <1>8

LEMMA RunKept ==
    ASSUME MigrationTypeOK, MigrationInv, NEW p \in Procs, RunStatement(p)
    PROVE  MigrationTypeOK' /\ MigrationInv' /\ OthersStay(p) /\ Grows(db, db')
<1>1. /\ phase[p] = "applying"
      /\ UNCHANGED <<lock, files, badName, phase, kind, outcome, seen, plan, creator,
                     faults, deploys>>
    BY DEF RunStatement
<1>2. PICK v \in Versions :
         /\ IF ran[p] = 0 THEN IsNext(p, v) /\ seen[p][v] = "absent" ELSE v = version[p]
         /\ ran[p] < Statements
         /\ version' = [version EXCEPT ![p] = v]
         /\ ran' = [ran EXCEPT ![p] = @ + 1]
         /\ Write(p, [View(p) EXCEPT !.schema = @ \cup {<<v, ran[p] + 1>>}])
    BY DEF RunStatement
<1> DEFINE k == ran[p] + 1
           new == [View(p) EXCEPT !.schema = @ \cup {<<v, k>>}]
<1>3. LockHeld(p) /\ Opened(p) /\ InLoop(p)
    BY DEF MigrationInv
<1>4. /\ View(p) \in Database /\ Complete(View(p)) /\ Grows(db, View(p))
      /\ ran[p] \in 0 .. Statements /\ Statements \in Nat
    BY <1>1, LoopSees, MigrationAssumption
<1>5. k \in 1 .. Statements /\ k > 0
    BY <1>2, <1>4
<1>6. Write(p, new) /\ new = [View(p) EXCEPT !.schema = @ \cup {<<v, k>>}]
    BY <1>2
<1>7. version'[p] = v /\ ran'[p] = k /\ version' = [version EXCEPT ![p] = v]
      /\ ran' = [ran EXCEPT ![p] = k]
    BY <1>2 DEF MigrationTypeOK
<1> HIDE DEF new
<1>8. /\ new \in Database /\ new.track = View(p).track /\ new.rows = View(p).rows
      /\ new.schema = View(p).schema \cup {<<v, k>>} /\ Grows(View(p), new) /\ Complete(new)
    BY <1>4, <1>5, <1>6, StatementSet
<1>9. Grows(db, new)
    BY <1>4, <1>8, GrowsOn DEF MigrationTypeOK
<1>10. db'.rows = db.rows \/ db'.rows = new.rows
    BY <1>3, <1>6, <1>8, Written DEF Opened
(* The file that is run was read as not recorded, and those behind it are  *)
(* as they were.                                                           *)
<1>11. /\ Unread(p, v) /\ plan[p][v] # "absent" /\ seen[p][v] = "absent"
       /\ \A s \in 1 .. ran[p] : <<v, s>> \in View(p).schema
       /\ \A w \in Versions : w >= v => Unread(p, w)
       /\ \A w \in Versions : w < v /\ plan[p][w] # "absent" => ~Unread(p, w)
    <2>1. CASE ran[p] = 0
        <3>1. IsNext(p, v) /\ seen[p][v] = "absent"
            BY <1>2, <2>1
        <3>2. \A s : s \notin 1 .. ran[p]
            BY <2>1
        <3> QED
            BY <2>1, <3>1, <3>2, NextIsUnread DEF Versions
    <2>2. CASE ran[p] # 0
        <3>1. v = version[p] /\ ran[p] > 0
            BY <1>2, <1>4, <2>2
        <3> QED
            BY <1>1, <1>3, <3>1 DEF InLoop, Unread, Versions
    <2> QED
        BY <2>1, <2>2
<1>12. \A w \in Versions : Unread(p, w)' <=> w >= v
    BY <1>5, <1>7 DEF Unread, Versions
<1>13. ASSUME View(p)' = new PROVE InLoop(p)'
    <2>1. ASSUME NEW w \in Versions, Unread(p, w)'
          PROVE  db'.rows[w] = seen'[p][w] /\ View(p)'.rows[w] = seen'[p][w]
        <3>1. Unread(p, w)
            BY <1>11, <1>12, <2>1
        <3> QED
            BY <1>1, <1>3, <1>8, <1>10, <1>13, <3>1 DEF InLoop
    <2>2. \A s \in 1 .. k : <<v, s>> \in new.schema
        <3>1. \A s \in 1 .. k : s \in 1 .. ran[p] \/ s = k
            BY <1>4
        <3> QED
            BY <1>8, <1>11, <3>1
    <2>3. ASSUME NEW w \in Versions, ~Unread(p, w)', plan'[p][w] # "absent"
          PROVE  View(p)'.rows[w] = plan'[p][w]
        <3>1. ~Unread(p, w)
            BY <1>1, <1>11, <1>12, <2>3 DEF Versions
        <3> QED
            BY <1>1, <1>3, <1>8, <1>13, <2>3, <3>1 DEF InLoop
    <2>4. plan'[p][v] # "absent" /\ seen'[p][v] = "absent"
        BY <1>1, <1>11
    <2> QED
        BY <1>7, <1>13, <2>1, <2>2, <2>3, <2>4 DEF InLoop
<1>14. k \in 0 .. Statements
    BY <1>5
<1> QED
    BY <1>1, <1>6, <1>7, <1>8, <1>9, <1>13, <1>14, LoopWrites

LEMMA RecordKept ==
    ASSUME MigrationTypeOK, MigrationInv, NEW p \in Procs, Record(p)
    PROVE  MigrationTypeOK' /\ MigrationInv' /\ OthersStay(p) /\ Grows(db, db')
<1> DEFINE v == version[p]
           new == [View(p) EXCEPT !.rows[v] = plan[p][v]]
<1>1. /\ phase[p] = "applying" /\ ran[p] = Statements /\ Write(p, new)
      /\ ran' = [ran EXCEPT ![p] = 0]
      /\ UNCHANGED <<lock, files, badName, phase, kind, outcome, seen, plan, version, creator,
                     faults, deploys>>
    BY DEF Record
<1>2. LockHeld(p) /\ Opened(p) /\ InLoop(p) /\ ran[p] > 0
    BY <1>1, MigrationAssumption DEF MigrationInv
<1>3. v \in Versions
    BY <1>2 DEF LockHeld
<1>4. /\ View(p) \in Database /\ Complete(View(p)) /\ Grows(db, View(p))
      /\ plan[p][v] \in Checksums \cup {"absent"}
    BY <1>1, <1>3, LoopSees DEF Files
<1>5. /\ Unread(p, v) /\ seen[p][v] = "absent" /\ View(p).rows[v] = "absent"
      /\ \A s \in 1 .. Statements : <<v, s>> \in View(p).schema
    BY <1>1, <1>2, <1>3 DEF InLoop, Unread
<1>6. new = WithRow(View(p), v, plan[p][v])
    BY DEF WithRow
<1> HIDE DEF new
<1>7. /\ new \in Database /\ new.track = View(p).track /\ new.schema = View(p).schema
      /\ new.rows[v] = plan[p][v] /\ \A w \in Versions \ {v} : new.rows[w] = View(p).rows[w]
      /\ Grows(View(p), new)
    BY <1>3, <1>4, <1>5, <1>6, RowSet
<1>8. Complete(new)
    BY <1>4, <1>5, <1>7 DEF Complete
<1>9. Grows(db, new)
    BY <1>4, <1>7, GrowsOn DEF MigrationTypeOK
<1>10. db' \in {db, new}
    BY <1>1, <1>2, <1>7, Written DEF Opened
<1>11. ran'[p] = 0 /\ version'[p] = v /\ version' = [version EXCEPT ![p] = v]
    BY <1>1 DEF MigrationTypeOK
<1>12. \A w \in Versions : (Unread(p, w)' <=> w > v) /\ (Unread(p, w) <=> w >= v)
    BY <1>2, <1>3, <1>11 DEF Unread, Versions
<1>13. ASSUME View(p)' = new PROVE InLoop(p)'
    <2>1. ASSUME NEW w \in Versions, Unread(p, w)'
          PROVE  db'.rows[w] = seen'[p][w] /\ View(p)'.rows[w] = seen'[p][w]
        <3>1. Unread(p, w) /\ w # v
            BY <1>3, <1>12, <2>1 DEF Versions
        <3> QED
            BY <1>1, <1>2, <1>7, <1>10, <1>13, <3>1 DEF InLoop
    <2>2. ASSUME NEW w \in Versions, ~Unread(p, w)', plan'[p][w] # "absent"
          PROVE  View(p)'.rows[w] = plan'[p][w]
        <3>1. CASE w = v
            BY <1>1, <1>7, <1>13, <3>1
        <3>2. CASE w # v
            <4>1. ~Unread(p, w)
                BY <1>3, <1>12, <2>2, <3>2 DEF Versions
            <4> QED
                BY <1>1, <1>2, <1>7, <1>13, <2>2, <3>2, <4>1 DEF InLoop
        <3> QED
            BY <3>1, <3>2
    <2> QED
        BY <1>11, <2>1, <2>2 DEF InLoop
<1>14. ran' = [ran EXCEPT ![p] = ran'[p]] /\ ran'[p] \in 0 .. Statements
    <2>1. 0 \in 0 .. Statements
        BY MigrationAssumption
    <2> QED
        BY <1>1, <1>11, <2>1
<1> QED
    BY <1>1, <1>3, <1>7, <1>8, <1>9, <1>11, <1>13, <1>14, LoopWrites

LEMMA LoopEndsKept ==
    ASSUME MigrationTypeOK, MigrationInv, NEW p \in Procs, LoopEnds(p)
    PROVE  MigrationTypeOK' /\ MigrationInv' /\ OthersStay(p) /\ Grows(db, db')
<1>1. /\ phase[p] = "applying" /\ ran[p] = 0 /\ Ahead(p) = {}
      /\ phase' = [phase EXCEPT ![p] = "unlocking"]
      /\ UNCHANGED <<db, lock, files, badName, kind, outcome, seen, plan, version, ran,
                     txn, creator, faults, deploys>>
    BY DEF LoopEnds, BetweenFiles, Goto
<1>2. MigrationTypeOK'
    BY <1>1 DEF MigrationTypeOK, Phases
<1>3. phase'[p] = "unlocking" /\ OthersStay(p)
    BY <1>1 DEF MigrationTypeOK, OthersStay
<1>4. LockHeld(p) /\ Opened(p) /\ InLoop(p)
    BY DEF MigrationInv
<1>5. LockHeld(p)' /\ InLoop(p)' /\ outcome[p] = "ok"
    BY <1>1, <1>3, <1>4 DEF LockHeld, InLoop, Working, Early
<1>6. Opened(p)'
    BY <1>1, <1>3, <1>4, <1>5 DEF Opened, Complete, Early
<1>7. \A v \in Versions : plan[p][v] # "absent" => ~Unread(p, v)
    BY <1>1 DEF Ahead, Unread
<1>8. OnSchema(p, View(p))
    BY <1>1, <1>4, <1>7 DEF InLoop, OnSchema
<1>9. LoopOver(p)'
    BY <1>1, <1>5, <1>8 DEF LoopOver, OnSchema, View
<1>10. Busy(p)
    BY <1>1 DEF Busy
<1> QED
    BY <1>1, <1>2, <1>3, <1>5, <1>6, <1>9, <1>10, QuietStep

LEMMA UnlockKept ==
    ASSUME MigrationTypeOK, MigrationInv, NEW p \in Procs, Unlock(p)
    PROVE  MigrationTypeOK' /\ MigrationInv' /\ OthersStay(p) /\ Grows(db, db')
<1> DEFINE there == IF kind[p] = "sync" /\ outcome[p] = "ok" THEN "committing" ELSE "over"
<1>1. /\ phase[p] = "unlocking" /\ phase' = [phase EXCEPT ![p] = there]
      /\ txn' = [txn EXCEPT ![p] = IF outcome[p] = "ok" THEN @ ELSE Nobody]
      /\ UNCHANGED <<db, files, badName, kind, outcome, seen, plan, version, ran,
                     creator, faults, deploys>>
      /\ lock' \in {lock, Nobody} /\ (lock # p => lock' = lock)
    BY DEF Unlock, Goto
<1>2. MigrationTypeOK'
    BY <1>1 DEF MigrationTypeOK, Phases
<1>3. /\ phase'[p] = there /\ OthersStay(p)
      /\ txn'[p] = IF outcome[p] = "ok" THEN txn[p] ELSE Nobody
    BY <1>1 DEF MigrationTypeOK, OthersStay
<1>4. LockHeld(p) /\ Opened(p) /\ LoopOver(p) /\ kind[p] \in {"async", "sync"}
    BY DEF MigrationInv, MigrationTypeOK
<1>5. LockHeld(p)' /\ InLoop(p)'
    BY <1>1, <1>3, <1>4 DEF LockHeld, InLoop, Working, Early
<1>6. Opened(p)'
    BY <1>1, <1>3, <1>4 DEF Opened, Complete, Early
<1>7. LoopOver(p)'
    BY <1>1, <1>3, <1>4 DEF LoopOver, OnSchema, Differs, View
<1>8. Busy(p)' => Busy(p)
    BY <1>1, <1>3 DEF Busy
<1> QED
    BY <1>1, <1>2, <1>3, <1>5, <1>6, <1>7, <1>8, QuietStep

LEMMA CommitKept ==
    ASSUME MigrationTypeOK, MigrationInv, NEW p \in Procs, Commit(p)
    PROVE  MigrationTypeOK' /\ MigrationInv' /\ OthersStay(p) /\ Grows(db, db')
<1>1. /\ phase[p] = "committing" /\ db' = txn[p]
      /\ txn' = [txn EXCEPT ![p] = Nobody] /\ phase' = [phase EXCEPT ![p] = "over"]
      /\ UNCHANGED <<lock, files, badName, kind, outcome, seen, plan, version, ran,
                     creator, faults, deploys>>
    BY DEF Commit, Goto
<1>2. LockHeld(p) /\ Opened(p) /\ LoopOver(p)
    BY DEF MigrationInv
<1>3. txn[p] # Nobody /\ txn[p] \in Database /\ Grows(db, txn[p]) /\ Complete(txn[p]) /\ outcome[p] = "ok"
    BY <1>1, <1>2 DEF Opened, MigrationTypeOK
<1>4. MigrationTypeOK'
    BY <1>1, <1>3 DEF MigrationTypeOK, Phases
<1>5. phase'[p] = "over" /\ txn'[p] = Nobody /\ OthersStay(p)
    BY <1>1 DEF MigrationTypeOK, OthersStay
<1>6. Alone(p)
    BY <1>3 DEF Busy, MigrationInv, Exclusive
<1>7. Grows(db, db') /\ Complete(db)'
    BY <1>1, <1>3 DEF Complete
<1>8. LockHeld(p)' /\ InLoop(p)' /\ Opened(p)'
    BY <1>1, <1>2, <1>5 DEF LockHeld, InLoop, Opened, Working, Early
<1>9. LoopOver(p)'
    BY <1>1, <1>2, <1>3, <1>5 DEF LoopOver, OnSchema, View
<1> QED
    BY <1>4, <1>5, <1>6, <1>7, <1>8, <1>9, PassStep

(* A process that is between two passes, or is gone. *)
LEMMA RestsKept ==
    ASSUME MigrationTypeOK, MigrationInv, NEW p \in Procs, OthersStay(p), db' = db,
           txn'[p] = Nobody, phase'[p] \in {"none", "locking"}, outcome'[p] = "ok",
           version'[p] = 0, ran'[p] = 0
    PROVE  MigrationInv' /\ OthersStay(p) /\ Grows(db, db')
<1>1. LockHeld(p)' /\ Opened(p)' /\ InLoop(p)' /\ LoopOver(p)' /\ ~Busy(p)'
    BY DEF LockHeld, Opened, InLoop, LoopOver, Working, Busy
<1> QED
    BY <1>1, QuietStep

LEMMA ForgetKept ==
    ASSUME MigrationTypeOK, MigrationInv, NEW p \in Procs, NEW there \in {"none", "locking"},
           NEW k \in {"async", "sync"},
           phase[p] = "over", Forget(p, there), kind' = [kind EXCEPT ![p] = k],
           UNCHANGED <<db, lock, files, badName, plan, txn, creator, faults, deploys>>
    PROVE  MigrationTypeOK' /\ MigrationInv' /\ OthersStay(p) /\ Grows(db, db')
<1>1. /\ phase' = [phase EXCEPT ![p] = there]
      /\ outcome' = [outcome EXCEPT ![p] = "ok"]
      /\ seen' = [seen EXCEPT ![p] = NoRows]
      /\ version' = [version EXCEPT ![p] = 0]
      /\ ran' = [ran EXCEPT ![p] = 0]
    BY DEF Forget, Goto
<1>2. NoRows \in Rows /\ 0 \in 0 .. Statements
    BY MigrationAssumption DEF NoRows, Rows
<1>3. MigrationTypeOK'
    BY <1>1, <1>2 DEF MigrationTypeOK, Phases, Outcomes
<1>4. OthersStay(p)
    BY <1>1 DEF MigrationTypeOK, OthersStay
<1>5. txn'[p] = Nobody
    BY DEF MigrationInv, Opened
<1>6. phase'[p] \in {"none", "locking"} /\ outcome'[p] = "ok" /\ version'[p] = 0 /\ ran'[p] = 0
    BY <1>1 DEF MigrationTypeOK
<1> QED
    BY <1>3, <1>4, <1>5, <1>6, RestsKept

LEMMA LeaveKept ==
    ASSUME MigrationTypeOK, MigrationInv, NEW p \in Procs, Leave(p), faults' \in 0 .. MaxFaults
    PROVE  MigrationTypeOK' /\ MigrationInv' /\ OthersStay(p) /\ Grows(db, db')
<1>1. /\ phase' = [phase EXCEPT ![p] = "none"]
      /\ outcome' = [outcome EXCEPT ![p] = "ok"]
      /\ seen' = [seen EXCEPT ![p] = NoRows]
      /\ version' = [version EXCEPT ![p] = 0]
      /\ ran' = [ran EXCEPT ![p] = 0]
      /\ kind' = [kind EXCEPT ![p] = "async"]
      /\ plan' = [plan EXCEPT ![p] = NoRows]
      /\ txn' = [txn EXCEPT ![p] = Nobody]
      /\ lock' = IF lock = p THEN Nobody ELSE lock
      /\ UNCHANGED <<db, files, badName, creator, deploys>>
    BY DEF Leave, Forget, Goto, EndSession
<1>2. NoRows \in Rows /\ NoRows \in Files /\ 0 \in 0 .. Statements
    BY MigrationAssumption DEF NoRows, Rows, Files
<1>3. MigrationTypeOK'
    BY <1>1, <1>2 DEF MigrationTypeOK, Phases, Outcomes
<1>4. OthersStay(p)
    BY <1>1 DEF MigrationTypeOK, OthersStay
<1>5. /\ phase'[p] \in {"none", "locking"} /\ outcome'[p] = "ok" /\ version'[p] = 0 /\ ran'[p] = 0
      /\ txn'[p] = Nobody
    BY <1>1 DEF MigrationTypeOK
<1> QED
    BY <1>1, <1>3, <1>4, <1>5, RestsKept

LEMMA FailsKept ==
    ASSUME MigrationTypeOK, MigrationInv, NEW p \in Procs, StatementFails(p)
    PROVE  MigrationTypeOK' /\ MigrationInv' /\ OthersStay(p) /\ Grows(db, db')
<1>1. faults' \in 0 .. MaxFaults
    BY MigrationAssumption DEF StatementFails, MigrationTypeOK
<1>2. phase[p] \in Working \ {"unlocking"}
    BY DEF StatementFails, Working
<1>3. /\ outcome' = [outcome EXCEPT ![p] = "failed"] /\ Goto(p, "unlocking")
      /\ UNCHANGED <<db, lock, files, badName, kind, seen, plan, version, ran, txn, creator, deploys>>
    BY DEF StatementFails
<1>4. seen' \in [Procs -> Rows] /\ \A q \in Procs \ {p} : seen'[q] = seen[q]
    BY <1>3 DEF MigrationTypeOK
<1> QED
    BY <1>1, <1>2, <1>3, <1>4, StopsKept

LEMMA LostKept ==
    ASSUME MigrationTypeOK, MigrationInv, NEW p \in Procs, ConnectionLost(p)
    PROVE  MigrationTypeOK' /\ MigrationInv' /\ OthersStay(p) /\ Grows(db, db')
<1>1. /\ phase' = [phase EXCEPT ![p] = "over"]
      /\ outcome' = [outcome EXCEPT ![p] = "lost"]
      /\ txn' = [txn EXCEPT ![p] = Nobody]
      /\ lock' = IF lock = p THEN Nobody ELSE lock
      /\ UNCHANGED <<db, files, badName, kind, seen, plan, version, ran, creator, deploys>>
    BY DEF ConnectionLost, EndSession, Goto
<1>2. faults' \in 0 .. MaxFaults
    BY MigrationAssumption DEF ConnectionLost, MigrationTypeOK
<1>3. MigrationTypeOK'
    BY <1>1, <1>2 DEF MigrationTypeOK, Phases, Outcomes
<1>4. OthersStay(p) /\ phase'[p] = "over" /\ outcome'[p] = "lost" /\ txn'[p] = Nobody
    BY <1>1 DEF MigrationTypeOK, OthersStay
<1>5. LockHeld(p)' /\ Opened(p)' /\ InLoop(p)' /\ LoopOver(p)' /\ ~Busy(p)'
    <2>1. LockHeld(p)
        BY DEF MigrationInv
    <2> QED
        BY <1>1, <1>4, <2>1 DEF LockHeld, Opened, InLoop, LoopOver, Working, Early, Busy
<1> QED
    BY <1>1, <1>3, <1>4, <1>5, QuietStep

(* What the runner's own variables do not show. *)
LEMMA AsideKept ==
    ASSUME MigrationTypeOK, MigrationInv, UNCHANGED <<db, lock, pass, txn, creator>>,
           files' \in Files, badName' \in BOOLEAN,
           faults' \in 0 .. MaxFaults, deploys' \in 0 .. MaxDeploys
    PROVE  MigrationTypeOK' /\ MigrationInv'
<1>1. MigrationTypeOK'
    BY DEF MigrationTypeOK, pass
<1>2. ASSUME NEW p \in Procs
      PROVE  LockHeld(p)' /\ Opened(p)' /\ InLoop(p)' /\ LoopOver(p)'
    <2>1. LockHeld(p) /\ Opened(p) /\ InLoop(p) /\ LoopOver(p)
        BY DEF MigrationInv
    <2>2. View(p)' = View(p)
        BY DEF View
    <2> QED
        BY <2>1, <2>2 DEF pass, LockHeld, Opened, InLoop, LoopOver, OnSchema, Differs, Unread
<1>3. Exclusive' /\ Complete(db)'
    BY DEF MigrationInv, Exclusive, Alone, Busy, pass, Complete
<1> QED
    BY <1>1, <1>2, <1>3 DEF MigrationInv

LEMMA DeployKept ==
    ASSUME MigrationTypeOK, MigrationInv, Deploy
    PROVE  MigrationTypeOK' /\ MigrationInv'
<1>1. files' \in Files /\ badName' \in BOOLEAN
    BY DEF Deploy, MigrationTypeOK, Files, Checksums
<1>2. faults' \in 0 .. MaxFaults /\ deploys' \in 0 .. MaxDeploys
    BY MigrationAssumption DEF Deploy, MigrationTypeOK
<1> QED
    BY <1>1, <1>2, AsideKept DEF Deploy

LEMMA ProceedKept ==
    ASSUME MigrationTypeOK, MigrationInv, NEW p \in Procs, Lock(p) \/ Proceed(p)
    PROVE  MigrationTypeOK' /\ MigrationInv' /\ OthersStay(p) /\ Grows(db, db')
BY LockKept, TrackTableKept, RaceKept, TrackColumnKept, ReadKept, CheckKept, RunKept,
   RecordKept, LoopEndsKept, UnlockKept, CommitKept DEF Proceed

-----------------------------------------------------------------------------
(* The startup around it *)

LEMMA OnSchemaStays ==
    ASSUME MigrationTypeOK, NEW p \in Procs, OnSchema(p, db), plan'[p] = plan[p], Grows(db, db')
    PROVE  OnSchema(p, db)'
<1>1. \A v \in Versions : plan[p][v] \in Checksums \cup {"absent"}
    BY DEF MigrationTypeOK, Files
<1> QED
    BY <1>1 DEF OnSchema, Grows, Checksums

LEMMA DiffersStays ==
    ASSUME NEW p \in Procs, Differs(p), plan'[p] = plan[p], Grows(db, db')
    PROVE  Differs(p)'
BY DEF Differs, Grows

(* A process that goes on with its startup, where others have gone on. *)
StepsStay(p) ==
    \A q \in Procs \ {p} : step'[q] = step[q] /\ cause'[q] = cause[q]

LEMMA AtStepStays ==
    ASSUME MigrationTypeOK, NEW p \in Procs, AtStep(p), Grows(db, db'),
           phase'[p] = phase[p], plan'[p] = plan[p], step'[p] = step[p], cause'[p] = cause[p]
    PROVE  AtStep(p)'
BY OnSchemaStays, DiffersStays DEF AtStep

LEMMA OtherStarts ==
    ASSUME MigrationTypeOK, StartupInv, NEW p \in Procs, NEW q \in Procs \ {p},
           OthersStay(p), StepsStay(p), Grows(db, db'),
           creator' = creator \/ (db.track = "none" /\ ~Creating(q)),
           db.track = "none" /\ db'.track # "none" => phase[q] # "racing" \/ creator' = "sync"
    PROVE  AtStep(q)' /\ RacedBySync(q)'
<1>1. AtStep(q) /\ RacedBySync(q)
    BY DEF StartupInv
<1>2. /\ phase'[q] = phase[q] /\ plan'[q] = plan[q] /\ outcome'[q] = outcome[q] /\ txn'[q] = txn[q]
      /\ step'[q] = step[q] /\ cause'[q] = cause[q]
    BY DEF OthersStay, StepsStay
<1>3. db.track # "none" => db'.track # "none"
    BY DEF Grows
<1> QED
    BY <1>1, <1>2, <1>3, AtStepStays DEF RacedBySync, Creating

(* A step of p after which all is as well for those who race for the       *)
(* tracking table as it was.                                               *)
LEMMA RaceUntouched ==
    ASSUME NEW p \in Procs, RacedBySync(p), Grows(db, db'), creator' = creator,
           phase'[p] \notin {"column", "racing"},
           txn'[p] # Nobody => txn[p] # Nobody,
           outcome'[p] = "raced" => outcome[p] = "raced",
           step'[p] = step[p], cause'[p] = cause[p]
    PROVE  RacedBySync(p)'
BY DEF RacedBySync, Creating, Grows

(* One who has the lock is beside nobody who waits for a table. *)
LEMMA NobodyRaces ==
    ASSUME MigrationInv, NEW p \in Procs, NEW q \in Procs \ {p}, phase[p] \in Working
    PROVE  phase[q] # "racing"
BY DEF MigrationInv, LockHeld, Working

LEMMA CreateStarts ==
    ASSUME TypeOK, MigrationInv, StartupInv, NEW p \in Procs, OthersStay(p), Grows(db, db'),
           phase[p] \in {"tracking", "racing"}, db.track = "none",
           ~\E q \in Procs \ {p} : Creating(q), CreateTable(p), UNCHANGED <<startupVars, outcome>>
    PROVE  StartupInv'
<1>1. MigrationTypeOK /\ StepsStay(p) /\ step' = step /\ cause' = cause
    BY DEF TypeOK, StartupTypeOK, StepsStay, startupVars
<1>2. ASSUME NEW q \in Procs \ {p} PROVE AtStep(q)' /\ RacedBySync(q)'
    BY <1>1, <1>2, OtherStarts, NobodyRaces DEF Working
<1>3. phase'[p] = "column" /\ creator' = kind[p] /\ kind[p] \in {"sync", "async"}
    BY <1>1 DEF CreateTable, Goto, MigrationTypeOK
<1>4. AtStep(p) /\ RacedBySync(p) /\ Opened(p)
    BY DEF StartupInv, MigrationInv
<1>5. AtStep(p)'
    BY <1>1, <1>3, <1>4 DEF AtStep
<1>6. txn[p] = Nobody
    BY <1>4 DEF Opened
<1>7. /\ txn'[p] # Nobody => creator' = "sync"
      /\ txn'[p] = Nobody => db'.track # "none"
    <2>1. CASE kind[p] = "sync"
        <3>1. txn' = [txn EXCEPT ![p] = [db EXCEPT !.track = "table"]]
            BY <2>1 DEF CreateTable, Write
        <3>2. [db EXCEPT !.track = "table"] # Nobody
            BY <1>1, TrackSet DEF MigrationTypeOK
        <3> QED
            BY <1>1, <1>3, <2>1, <3>1, <3>2 DEF MigrationTypeOK
    <2>2. CASE kind[p] = "async"
        <3>1. db' = [db EXCEPT !.track = "table"] /\ UNCHANGED txn
            BY <2>2 DEF CreateTable, Write
        <3>2. db'.track = "table"
            BY <1>1, <3>1 DEF MigrationTypeOK, Database
        <3> QED
            BY <1>6, <3>1, <3>2
    <2> QED
        BY <1>3, <2>1, <2>2
<1>8. outcome'[p] # "raced" /\ ~(step'[p] = "failed" /\ cause'[p] = "raced")
    BY <1>1, <1>4 DEF RacedBySync
<1>9. RacedBySync(p)'
    BY <1>3, <1>7, <1>8 DEF RacedBySync, Creating
<1> QED
    BY <1>2, <1>5, <1>9 DEF StartupInv

(* Any other step of a pass. *)
LEMMA PassStarts ==
    ASSUME TypeOK, MigrationInv, StartupInv, NEW p \in Procs, OthersStay(p), Grows(db, db'),
           phase[p] # "none", phase'[p] # "none", creator' = creator, UNCHANGED startupVars,
           phase[p] \in Working \/ db' = db \/ creator = "sync" \/ db.track # "none",
           RacedBySync(p)'
    PROVE  StartupInv'
<1>1. MigrationTypeOK /\ StepsStay(p) /\ step' = step /\ cause' = cause
    BY DEF TypeOK, StartupTypeOK, StepsStay, startupVars
<1>2. ASSUME NEW q \in Procs \ {p} PROVE AtStep(q)' /\ RacedBySync(q)'
    BY <1>1, <1>2, OtherStarts, NobodyRaces
<1>3. AtStep(p)'
    BY <1>1 DEF StartupInv, AtStep
<1> QED
    BY <1>2, <1>3 DEF StartupInv

LEMMA WritesInside ==
    ASSUME MigrationTypeOK, MigrationInv, NEW p \in Procs, NEW new, Write(p, new),
           phase[p] = "applying"
    PROVE  txn'[p] # Nobody => txn[p] # Nobody
<1>1. kind[p] \in {"sync", "async"} /\ (kind[p] = "sync" => txn[p] # Nobody)
    BY DEF MigrationTypeOK, MigrationInv, Opened
<1> QED
    BY <1>1 DEF Write

LEMMA MigrateStarts ==
    ASSUME TypeOK, MigrationInv, StartupInv, NEW p \in Procs, Migrate(p)
    PROVE  StartupInv'
<1>1. MigrationTypeOK /\ OthersStay(p) /\ Grows(db, db')
    BY ProceedKept DEF TypeOK, StartupTypeOK, Migrate
<1>2. UNCHANGED startupVars /\ step' = step /\ cause' = cause
    BY DEF Migrate, startupVars
<1>3. AtStep(p) /\ RacedBySync(p) /\ Opened(p) /\ LockHeld(p)
    BY DEF StartupInv, MigrationInv
<1>4. CASE Lock(p)
    <2>1. phase[p] = "locking" /\ phase'[p] = "tracking" /\ UNCHANGED <<db, txn, outcome, creator>>
        BY <1>1, <1>4 DEF Lock, Goto, MigrationTypeOK
    <2> QED
        BY <1>1, <1>2, <1>3, <2>1, PassStarts, RaceUntouched
<1>5. CASE TrackTable(p)
    <2>1. phase[p] = "tracking" /\ UNCHANGED outcome
        BY <1>5 DEF TrackTable
    <2>2. CASE db.track = "none" /\ ~(\E q \in Procs \ {p} : Creating(q)) /\ CreateTable(p)
        BY <1>1, <1>2, <2>1, <2>2, CreateStarts
    <2>3. CASE /\ db.track = "none" /\ Goto(p, "racing") /\ UNCHANGED <<db, txn, creator>>
        <3>1. phase'[p] = "racing"
            BY <1>1, <2>3 DEF Goto, MigrationTypeOK
        <3>2. RacedBySync(p)'
            BY <1>2, <1>3, <2>1, <2>3, <3>1 DEF RacedBySync, Creating
        <3> QED
            BY <1>1, <1>2, <2>1, <2>3, <3>1, <3>2, PassStarts
    <2>4. CASE /\ db.track # "none" /\ Goto(p, "column") /\ UNCHANGED <<db, txn, creator>>
        <3>1. phase'[p] = "column"
            BY <1>1, <2>4 DEF Goto, MigrationTypeOK
        <3>2. RacedBySync(p)'
            BY <1>2, <1>3, <2>1, <2>4, <3>1 DEF RacedBySync, Creating
        <3> QED
            BY <1>1, <1>2, <2>1, <2>4, <3>1, <3>2, PassStarts
    <2> QED
        BY <1>5, <2>2, <2>3, <2>4 DEF TrackTable
<1>6. CASE RaceEnds(p)
    <2>1. phase[p] = "racing" /\ ~\E q \in Procs \ {p} : Creating(q)
        BY <1>6 DEF RaceEnds
    <2>2. CASE db.track = "none" /\ CreateTable(p) /\ UNCHANGED outcome
        BY <1>1, <1>2, <2>1, <2>2, CreateStarts
    <2>3. CASE /\ db.track # "none" /\ outcome' = [outcome EXCEPT ![p] = "raced"]
               /\ Goto(p, "unlocking") /\ UNCHANGED <<db, txn, creator>>
        <3>1. phase'[p] = "unlocking" /\ creator = "sync"
            BY <1>1, <1>3, <2>1, <2>3 DEF Goto, MigrationTypeOK, RacedBySync
        <3>2. RacedBySync(p)'
            BY <1>2, <1>3, <2>3, <3>1 DEF RacedBySync, Creating
        <3> QED
            BY <1>1, <1>2, <2>1, <2>3, <3>1, <3>2, PassStarts
    <2> QED
        BY <1>6, <2>2, <2>3 DEF RaceEnds
<1>7. CASE TrackColumn(p)
    <2>1. /\ phase[p] = "column" /\ phase'[p] = "reading" /\ UNCHANGED <<outcome, creator>>
          /\ Write(p, [View(p) EXCEPT !.track = "column"])
        BY <1>1, <1>7 DEF TrackColumn, Goto, MigrationTypeOK
    <2>2. db.track = "none" => txn[p] # Nobody
        BY <1>3, <2>1 DEF RacedBySync
    <2>3. RacedBySync(p)'
        BY <1>1, <1>2, <1>3, <2>1, <2>2 DEF RacedBySync, Creating, Grows
    <2> QED
        BY <1>1, <1>2, <2>1, <2>3, PassStarts DEF Working
<1>8. CASE ReadApplied(p)
    <2>1. /\ phase[p] = "reading" /\ phase'[p] \in {"unlocking", "applying"}
          /\ UNCHANGED <<db, txn, creator>> /\ (outcome'[p] = "raced" => outcome[p] = "raced")
        BY <1>1, <1>8 DEF ReadApplied, Goto, MigrationTypeOK
    <2> QED
        BY <1>1, <1>2, <1>3, <2>1, PassStarts, RaceUntouched
<1>9. CASE CheckApplied(p) \/ RunStatement(p) \/ Record(p) \/ LoopEnds(p)
    <2>1. /\ phase[p] = "applying" /\ phase'[p] \in {"applying", "unlocking"}
          /\ UNCHANGED creator /\ (outcome'[p] = "raced" => outcome[p] = "raced")
        BY <1>1, <1>9
        DEF CheckApplied, RunStatement, Record, LoopEnds, BetweenFiles, Goto, MigrationTypeOK
    <2>2. txn'[p] # Nobody => txn[p] # Nobody
        BY <1>1, <1>9, <2>1, WritesInside DEF CheckApplied, RunStatement, Record, LoopEnds
    <2> QED
        BY <1>1, <1>2, <1>3, <2>1, <2>2, PassStarts, RaceUntouched DEF Working
<1>10. CASE Unlock(p)
    <2>1. /\ phase[p] = "unlocking" /\ phase'[p] \in {"committing", "over"}
          /\ UNCHANGED <<db, outcome, creator>> /\ (txn'[p] # Nobody => txn[p] # Nobody)
        BY <1>1, <1>10 DEF Unlock, Goto, MigrationTypeOK
    <2> QED
        BY <1>1, <1>2, <1>3, <2>1, PassStarts, RaceUntouched
<1>11. CASE Commit(p)
    <2>1. /\ phase[p] = "committing" /\ phase'[p] = "over"
          /\ UNCHANGED <<outcome, creator>> /\ txn'[p] = Nobody
        BY <1>1, <1>11 DEF Commit, Goto, MigrationTypeOK
    <2>2. creator = "sync" \/ db.track # "none"
        BY <1>3, <2>1 DEF RacedBySync, Creating, Opened
    <2> QED
        BY <1>1, <1>2, <1>3, <2>1, <2>2, PassStarts, RaceUntouched
<1> QED
    BY <1>4, <1>5, <1>6, <1>7, <1>8, <1>9, <1>10, <1>11 DEF Migrate, Proceed

LEMMA DisturbStarts ==
    ASSUME TypeOK, MigrationInv, StartupInv, NEW p \in Procs, Disturb(p)
    PROVE  StartupInv'
<1>1. MigrationTypeOK /\ OthersStay(p) /\ Grows(db, db')
    BY FailsKept, LostKept DEF TypeOK, StartupTypeOK, Disturb
<1>2. UNCHANGED startupVars /\ step' = step /\ cause' = cause /\ RacedBySync(p)
    BY DEF Disturb, startupVars, StartupInv
<1>3. /\ phase[p] # "none" /\ phase'[p] \in {"unlocking", "over"} /\ UNCHANGED <<db, creator>>
      /\ outcome'[p] \in {"failed", "lost"} /\ (txn'[p] # Nobody => txn[p] # Nobody)
    BY <1>1 DEF Disturb, StatementFails, ConnectionLost, EndSession, Goto, MigrationTypeOK
<1> QED
    BY <1>1, <1>2, <1>3, PassStarts, RaceUntouched

-----------------------------------------------------------------------------
(* Steps that begin or end a pass, or come after it *)

(* All processes but p stay where they are, and the tracking table too. *)
LEMMA SequenceStarts ==
    ASSUME TypeOK, StartupInv, NEW p \in Procs, OthersStay(p), StepsStay(p), Grows(db, db'),
           UNCHANGED <<db, creator>>, AtStep(p)', RacedBySync(p)'
    PROVE  StartupInv'
<1>1. ASSUME NEW q \in Procs \ {p} PROVE AtStep(q)' /\ RacedBySync(q)'
    BY <1>1, OtherStarts DEF TypeOK, StartupTypeOK
<1> QED
    BY <1>1 DEF StartupInv

(* A process that has no pass: it runs for no table. *)
LEMMA NoPass ==
    ASSUME NEW p \in Procs, phase'[p] \in {"none", "locking"}, txn'[p] = Nobody,
           outcome'[p] # "raced",
           step'[p] = "failed" /\ cause'[p] = "raced" => creator' = "sync" /\ db'.track # "none"
    PROVE  RacedBySync(p)'
BY DEF RacedBySync, Creating

LEMMA StartStarts ==
    ASSUME TypeOK, MigrationInv, StartupInv, NEW p \in Procs, Start(p)
    PROVE  MigrationTypeOK' /\ MigrationInv' /\ StartupTypeOK' /\ StartupInv'
<1>1. /\ step[p] = "down"
      /\ step' = [step EXCEPT ![p] = IF Program[p] = "worker" THEN "data" ELSE "state"]
      /\ BeginPass(p, IF Program[p] = "worker" THEN "async" ELSE "sync")
      /\ UNCHANGED <<admin, cause>>
    BY DEF Start, Advance
<1>2. MigrationTypeOK' /\ MigrationInv' /\ OthersStay(p) /\ Grows(db, db')
    BY <1>1, BeginKept DEF TypeOK, StartupTypeOK
<1>3. StartupTypeOK'
    BY <1>1, <1>2 DEF TypeOK, StartupTypeOK, Steps, Starting, AdminSteps
<1>4. StepsStay(p) /\ step'[p] \in {"data", "state"}
    BY <1>1 DEF TypeOK, StartupTypeOK, StepsStay
<1>5. /\ phase'[p] = "locking" /\ UNCHANGED <<db, txn, outcome, creator>> /\ phase[p] = "none"
    BY <1>1 DEF BeginPass, Goto, TypeOK, StartupTypeOK, MigrationTypeOK
<1>6. txn[p] = Nobody /\ outcome[p] # "raced"
    BY <1>5 DEF MigrationInv, Opened, LockHeld
<1>7. AtStep(p)' /\ RacedBySync(p)'
    BY <1>4, <1>5, <1>6, NoPass DEF AtStep
<1> QED
    BY <1>2, <1>3, <1>4, <1>5, <1>7, SequenceStarts

LEMMA EndDataStarts ==
    ASSUME TypeOK, MigrationInv, StartupInv, NEW p \in Procs, EndDataStep(p)
    PROVE  MigrationTypeOK' /\ MigrationInv' /\ StartupTypeOK' /\ StartupInv'
<1>1. /\ step[p] = "data" /\ phase[p] = "over"
      /\ step' = [step EXCEPT ![p] = "state"]
      /\ Forget(p, "locking") /\ kind' = [kind EXCEPT ![p] = "sync"]
      /\ UNCHANGED <<db, lock, files, badName, plan, txn, creator, faults, deploys, admin, cause>>
    BY DEF EndDataStep, Advance
<1>2. MigrationTypeOK' /\ MigrationInv' /\ OthersStay(p) /\ Grows(db, db')
    BY <1>1, ForgetKept DEF TypeOK, StartupTypeOK
<1>3. StartupTypeOK'
    BY <1>1, <1>2 DEF TypeOK, StartupTypeOK, Steps, Starting, AdminSteps
<1>4. StepsStay(p) /\ step'[p] = "state"
    BY <1>1 DEF TypeOK, StartupTypeOK, StepsStay
<1>5. phase'[p] = "locking" /\ outcome'[p] = "ok" /\ txn'[p] = Nobody
    BY <1>1 DEF Forget, Goto, TypeOK, StartupTypeOK, MigrationTypeOK, MigrationInv, Opened
<1>6. AtStep(p)' /\ RacedBySync(p)'
    BY <1>4, <1>5, NoPass DEF AtStep
<1> QED
    BY <1>1, <1>2, <1>3, <1>4, <1>6, SequenceStarts

LEMMA EndSchemaStarts ==
    ASSUME TypeOK, MigrationInv, StartupInv, NEW p \in Procs, EndSchema(p)
    PROVE  MigrationTypeOK' /\ MigrationInv' /\ StartupTypeOK' /\ StartupInv'
<1>1. /\ step[p] = "state" /\ phase[p] = "over" /\ outcome[p] = "ok"
      /\ step' = [step EXCEPT ![p] = IF Program[p] = "script" THEN "lookup" ELSE "seed"]
      /\ Forget(p, "none")
      /\ UNCHANGED <<db, lock, files, badName, kind, plan, txn, creator, faults, deploys, admin, cause>>
    BY DEF EndSchema, Advance
<1>2. MigrationTypeOK' /\ MigrationInv' /\ OthersStay(p) /\ Grows(db, db')
    <2>1. kind' = [kind EXCEPT ![p] = kind[p]] /\ kind[p] \in {"async", "sync"}
        BY <1>1 DEF TypeOK, StartupTypeOK, MigrationTypeOK
    <2> QED
        BY <1>1, <2>1, ForgetKept DEF TypeOK, StartupTypeOK
<1>3. StartupTypeOK'
    BY <1>1, <1>2 DEF TypeOK, StartupTypeOK, Steps, Starting, AdminSteps
<1>4. StepsStay(p) /\ step'[p] = IF Program[p] = "script" THEN "lookup" ELSE "seed"
    BY <1>1 DEF TypeOK, StartupTypeOK, StepsStay
<1>5. phase'[p] = "none" /\ outcome'[p] = "ok" /\ txn'[p] = Nobody /\ txn[p] = Nobody
    BY <1>1 DEF Forget, Goto, TypeOK, StartupTypeOK, MigrationTypeOK, MigrationInv, Opened
(* The pass that is over has left every file of its plan recorded. *)
<1>6. OnSchema(p, db)'
    BY <1>1, <1>5 DEF MigrationInv, LoopOver, View, OnSchema
<1>7. AtStep(p)' /\ RacedBySync(p)'
    BY <1>4, <1>5, <1>6, NoPass DEF AtStep
<1> QED
    BY <1>1, <1>2, <1>3, <1>4, <1>7, SequenceStarts

LEMMA PassFailsStarts ==
    ASSUME TypeOK, MigrationInv, StartupInv, NEW p \in Procs, PassFails(p)
    PROVE  MigrationTypeOK' /\ MigrationInv' /\ StartupTypeOK' /\ StartupInv'
<1>1. /\ phase[p] = "over" /\ outcome[p] # "ok"
      /\ step' = [step EXCEPT ![p] = "failed"] /\ cause' = [cause EXCEPT ![p] = outcome[p]]
      /\ Forget(p, "none")
      /\ UNCHANGED <<db, lock, files, badName, kind, plan, txn, creator, faults, deploys, admin>>
    BY DEF PassFails, Fail, Advance
<1>2. MigrationTypeOK' /\ MigrationInv' /\ OthersStay(p) /\ Grows(db, db')
    <2>1. kind' = [kind EXCEPT ![p] = kind[p]] /\ kind[p] \in {"async", "sync"}
        BY <1>1 DEF TypeOK, StartupTypeOK, MigrationTypeOK
    <2> QED
        BY <1>1, <2>1, ForgetKept DEF TypeOK, StartupTypeOK
<1>3. outcome[p] \in Outcomes
    BY DEF TypeOK, StartupTypeOK, MigrationTypeOK
<1>4. StartupTypeOK'
    BY <1>1, <1>2, <1>3 DEF TypeOK, StartupTypeOK, Steps, Starting, AdminSteps
<1>5. StepsStay(p) /\ step'[p] = "failed" /\ cause'[p] = outcome[p]
    BY <1>1 DEF TypeOK, StartupTypeOK, StepsStay
<1>6. phase'[p] = "none" /\ outcome'[p] = "ok" /\ txn'[p] = Nobody
    BY <1>1 DEF Forget, Goto, TypeOK, StartupTypeOK, MigrationTypeOK, MigrationInv, Opened
<1>7. outcome[p] = "edited" => Differs(p)'
    BY <1>1 DEF MigrationInv, LoopOver, Differs
<1>8. outcome[p] = "raced" => creator' = "sync" /\ db'.track # "none"
    BY <1>1 DEF StartupInv, RacedBySync
<1>9. AtStep(p)' /\ RacedBySync(p)'
    BY <1>3, <1>5, <1>6, <1>7, <1>8, NoPass DEF AtStep, Outcomes
<1> QED
    BY <1>1, <1>2, <1>4, <1>5, <1>9, SequenceStarts

(* The admin, and what else changes nothing of a pass. *)
LEMMA AdminStarts ==
    ASSUME TypeOK, MigrationInv, StartupInv, NEW p \in Procs,
           \/ SeedAdmin(p) \/ InsertAdmin(p)
           \/ LookUpAdmin(p) \/ CreateAdmin(p) \/ PromoteAdmin(p)
    PROVE  MigrationTypeOK' /\ MigrationInv' /\ StartupTypeOK' /\ StartupInv'
<1>1. /\ UNCHANGED migrationVars /\ step[p] \in AdminSteps
      /\ admin' \in {"absent", "admin", "other"}
      /\ \/ Advance(p, "up") /\ cause' = cause
         \/ step[p] = "seed" /\ Advance(p, "seeding") /\ cause' = cause
         \/ step[p] = "lookup" /\ Advance(p, "promote") /\ cause' = cause
         \/ step[p] = "lookup" /\ Advance(p, "create") /\ cause' = cause
         \/ step[p] = "lookup" /\ Fail(p, "refused")
         \/ Fail(p, "duplicate")
    BY DEF SeedAdmin, InsertAdmin, LookUpAdmin, CreateAdmin, PromoteAdmin, AdminSteps,
           TypeOK, StartupTypeOK
<1>2. MigrationTypeOK' /\ MigrationInv'
    BY <1>1, AsideKept DEF migrationVars, TypeOK, StartupTypeOK, MigrationTypeOK
<1>3. OthersStay(p) /\ Grows(db, db')
    BY <1>1, GrowsItself DEF migrationVars, pass, OthersStay, TypeOK, StartupTypeOK, MigrationTypeOK
<1>4. StartupTypeOK' /\ StepsStay(p)
    BY <1>1, <1>2 DEF Fail, Advance, TypeOK, StartupTypeOK, Steps, Starting, AdminSteps, StepsStay
<1>5. AtStep(p) /\ RacedBySync(p)
    BY DEF StartupInv
<1>6. /\ step'[p] \in {"up", "seeding", "create", "promote", "failed"}
      /\ step'[p] \in {"create", "promote"} => step[p] = "lookup"
      /\ step'[p] = "failed" => cause'[p] \in {"refused", "duplicate"}
    BY <1>1 DEF Fail, Advance, TypeOK, StartupTypeOK
<1>7. AtStep(p)'
    BY <1>1, <1>5, <1>6 DEF AtStep, AdminSteps, migrationVars, pass, OnSchema
<1>8. RacedBySync(p)'
    BY <1>1, <1>5, <1>6 DEF RacedBySync, Creating, migrationVars, pass
<1> QED
    BY <1>1, <1>2, <1>3, <1>4, <1>7, <1>8, SequenceStarts DEF migrationVars

LEMMA FailsAside ==
    ASSUME TypeOK, MigrationInv, StartupInv, NEW p \in Procs,
           step[p] \in {"down", "stopping"} \cup AdminSteps,
           NEW why \in {"lost", "close"}, Fail(p, why),
           faults' \in 0 .. MaxFaults, admin' \in {"absent", "admin", "other"},
           UNCHANGED <<db, lock, files, badName, pass, txn, creator, deploys>>
    PROVE  MigrationTypeOK' /\ MigrationInv' /\ StartupTypeOK' /\ StartupInv'
<1>1. MigrationTypeOK' /\ MigrationInv'
    BY AsideKept DEF TypeOK, StartupTypeOK, MigrationTypeOK
<1>2. OthersStay(p) /\ Grows(db, db')
    BY GrowsItself DEF pass, OthersStay, TypeOK, StartupTypeOK, MigrationTypeOK
<1>3. StartupTypeOK' /\ StepsStay(p)
    BY <1>1 DEF Fail, Advance, TypeOK, StartupTypeOK, Steps, Starting, AdminSteps, StepsStay, Outcomes
<1>4. step'[p] = "failed" /\ cause'[p] = why
    BY DEF Fail, Advance, TypeOK, StartupTypeOK
<1>5. AtStep(p) /\ RacedBySync(p)
    BY DEF StartupInv
<1>6. AtStep(p)' /\ RacedBySync(p)'
    BY <1>4, <1>5 DEF AtStep, AdminSteps, RacedBySync, Creating, pass
<1> QED
    BY <1>1, <1>2, <1>3, <1>6, SequenceStarts

LEMMA ConnectFailsStarts ==
    ASSUME TypeOK, MigrationInv, StartupInv, NEW p \in Procs, ConnectFails(p) \/ AdminFails(p)
    PROVE  MigrationTypeOK' /\ MigrationInv' /\ StartupTypeOK' /\ StartupInv'
<1>1. faults' \in 0 .. MaxFaults
    BY MigrationAssumption DEF ConnectFails, AdminFails, TypeOK, StartupTypeOK, MigrationTypeOK
<1>2. admin' \in {"absent", "admin", "other"}
    BY DEF ConnectFails, AdminFails, TypeOK, StartupTypeOK
<1> QED
    BY <1>1, <1>2, FailsAside DEF ConnectFails, AdminFails

LEMMA CloseFailsStarts ==
    ASSUME TypeOK, MigrationInv, StartupInv, NEW p \in Procs, CloseFails(p)
    PROVE  MigrationTypeOK' /\ MigrationInv' /\ StartupTypeOK' /\ StartupInv'
<1>1. faults' \in 0 .. MaxFaults
    BY MigrationAssumption DEF CloseFails, TypeOK, StartupTypeOK, MigrationTypeOK
<1>2. step[p] = "stopping" /\ admin' \in {"absent", "admin", "other"}
    BY DEF CloseFails, ShuttingDown, TypeOK, StartupTypeOK
<1> QED
    BY <1>1, <1>2, FailsAside DEF CloseFails, pass

LEMMA GoneStarts ==
    ASSUME TypeOK, MigrationInv, StartupInv, NEW p \in Procs, Gone(p), faults' \in 0 .. MaxFaults
    PROVE  MigrationTypeOK' /\ MigrationInv' /\ StartupTypeOK' /\ StartupInv'
<1>1. Leave(p)
    BY DEF Gone
<1>2. MigrationTypeOK' /\ MigrationInv' /\ OthersStay(p) /\ Grows(db, db')
    BY <1>1, LeaveKept DEF TypeOK, StartupTypeOK
<1>3. /\ step' = [step EXCEPT ![p] = "down"] /\ cause' = [cause EXCEPT ![p] = "none"]
      /\ UNCHANGED <<db, creator, admin>>
    BY <1>1 DEF Leave, Advance
<1>4. StartupTypeOK' /\ StepsStay(p) /\ step'[p] = "down"
    BY <1>2, <1>3 DEF TypeOK, StartupTypeOK, Steps, StepsStay
<1>5. phase'[p] = "none" /\ outcome'[p] = "ok" /\ txn'[p] = Nobody
    BY <1>1 DEF Leave, EndSession, Forget, Goto, TypeOK, StartupTypeOK, MigrationTypeOK
<1>6. AtStep(p)' /\ RacedBySync(p)'
    BY <1>4, <1>5, NoPass DEF AtStep
<1> QED
    BY <1>2, <1>3, <1>4, <1>6, SequenceStarts

(* A worker that is up begins to shut down, or goes on with that. *)
LEMMA ShuttingStarts ==
    ASSUME TypeOK, MigrationInv, StartupInv, UNCHANGED <<migrationVars, admin, cause>>,
           \/ UNCHANGED step
           \/ \E p \in Procs : step[p] = "up" /\ Advance(p, "stopping")
    PROVE  MigrationTypeOK' /\ MigrationInv' /\ StartupTypeOK' /\ StartupInv'
<1>1. MigrationTypeOK' /\ MigrationInv'
    BY AsideKept DEF migrationVars, TypeOK, StartupTypeOK, MigrationTypeOK
<1>2. StartupTypeOK'
    BY <1>1 DEF Advance, TypeOK, StartupTypeOK, Steps
<1>3. ASSUME NEW q \in Procs PROVE AtStep(q)' /\ RacedBySync(q)'
    <2>1. AtStep(q) /\ RacedBySync(q)
        BY DEF StartupInv
    <2>2. step'[q] = step[q] \/ (step[q] = "up" /\ step'[q] = "stopping")
        BY DEF Advance, TypeOK, StartupTypeOK
    <2>3. AtStep(q)'
        BY <2>1, <2>2 DEF AtStep, migrationVars, pass, OnSchema, Differs
    <2>4. RacedBySync(q)'
        BY <2>1, <2>2 DEF RacedBySync, Creating, migrationVars, pass
    <2> QED
        BY <2>3, <2>4
<1> QED
    BY <1>1, <1>2, <1>3 DEF StartupInv

LEMMA DeployStarts ==
    ASSUME TypeOK, MigrationInv, StartupInv, Deploy, UNCHANGED startupVars
    PROVE  MigrationTypeOK' /\ MigrationInv' /\ StartupTypeOK' /\ StartupInv'
<1>1. MigrationTypeOK' /\ MigrationInv'
    BY DeployKept DEF TypeOK, StartupTypeOK
<1>2. StartupTypeOK'
    BY <1>1 DEF startupVars, TypeOK, StartupTypeOK
<1>3. ASSUME NEW q \in Procs PROVE AtStep(q)' /\ RacedBySync(q)'
    <2>1. AtStep(q) /\ RacedBySync(q) /\ UNCHANGED <<db, pass, txn, creator>>
        BY DEF StartupInv, Deploy
    <2> QED
        BY <2>1 DEF AtStep, RacedBySync, Creating, startupVars, pass, OnSchema, Differs
<1> QED
    BY <1>1, <1>2, <1>3 DEF StartupInv

-----------------------------------------------------------------------------
(* The shutdown *)

LEMMA Turns ==
    /\ Len(Order) = 5 /\ Len(Order) \in Nat
    /\ Order[1] = "performance" /\ Order[2] = "executors" /\ Order[3] = "data"
    /\ Order[4] = "state" /\ Order[5] = "queue"
BY DEF Order

LifeTypeOK ==
    /\ turn \in [Procs -> 0..Len(Order)]
    /\ closed \in [Procs -> SUBSET {"store", "pool", "executors"}]
    /\ jobs \in [Procs -> [Jobs -> JobStates]]
    /\ \A p \in Procs : step[p] # "stopping" => turn[p] = Len(Order) /\ closed[p] = {}

(* A step of a process that does not shut down. *)
LEMMA NotGoingDown ==
    ASSUME Inv, StartupTypeOK', UNCHANGED lifespanVars,
           \A q \in Procs : (step'[q] = "stopping") = (step[q] = "stopping")
    PROVE  LifeTypeOK' /\ ShutdownInv'
<1>1. LifeTypeOK'
    BY DEF Inv, TypeOK, LifeTypeOK, lifespanVars
<1>2. ASSUME NEW q \in Procs PROVE GoingDown(q)'
    BY DEF Inv, ShutdownInv, GoingDown, lifespanVars
<1> QED
    BY <1>1, <1>2 DEF ShutdownInv

LEMMA StartsKept ==
    ASSUME Inv, NEW p \in Procs, Starts(p), UNCHANGED lifespanVars
    PROVE  Inv'
<1>1. TypeOK /\ MigrationInv /\ StartupInv /\ StartupTypeOK
    BY DEF Inv, TypeOK
<1>2. MigrationTypeOK' /\ MigrationInv' /\ StartupTypeOK' /\ StartupInv'
    <2>1. CASE Start(p)
        BY <1>1, <2>1, StartStarts
    <2>2. CASE Migrate(p)
        <3>1. MigrationTypeOK' /\ MigrationInv'
            BY <1>1, <2>2, ProceedKept DEF Migrate, StartupTypeOK
        <3> QED
            BY <1>1, <2>2, <3>1, MigrateStarts DEF Migrate, StartupTypeOK, startupVars
    <2>3. CASE Sequence(p)
        BY <1>1, <2>3, EndDataStarts, EndSchemaStarts, PassFailsStarts, AdminStarts DEF Sequence
    <2>4. CASE ConnectFails(p) \/ AdminFails(p)
        BY <1>1, <2>4, ConnectFailsStarts
    <2>5. CASE Disturb(p)
        <3>1. MigrationTypeOK' /\ MigrationInv'
            BY <1>1, <2>5, FailsKept, LostKept DEF Disturb, StartupTypeOK
        <3> QED
            BY <1>1, <2>5, <3>1, DisturbStarts DEF Disturb, StartupTypeOK, startupVars
    <2> QED
        BY <2>1, <2>2, <2>3, <2>4, <2>5 DEF Starts
<1>3. \A q \in Procs : (step'[q] = "stopping") = (step[q] = "stopping")
    <2>1. step \in [Procs -> Steps]
        BY <1>1 DEF StartupTypeOK
    <2>2. phase[p] # "none" => step[p] \in {"data", "state"}
        BY <1>1 DEF StartupInv, AtStep
    <2>3. CASE Migrate(p) \/ Disturb(p)
        BY <2>3 DEF Migrate, Disturb, startupVars
    <2>4. CASE Start(p) \/ ConnectFails(p) \/ AdminFails(p) \/ Sequence(p)
        <3>1. /\ step[p] \in {"down"} \cup Starting
              /\ \E there \in Steps \ {"stopping"} : step' = [step EXCEPT ![p] = there]
            BY <2>2, <2>4
            DEF Start, ConnectFails, AdminFails, Sequence, EndDataStep, EndSchema, PassFails,
                SeedAdmin, InsertAdmin, LookUpAdmin, CreateAdmin, PromoteAdmin, Fail, Advance, Steps, Starting, AdminSteps
        <3> QED
            BY <2>1, <3>1 DEF Starting, AdminSteps
    <2> QED
        BY <2>3, <2>4 DEF Starts
<1> QED
    BY <1>2, <1>3, NotGoingDown DEF Inv, TypeOK, LifeTypeOK

(* Only p shuts down, or is gone. *)
LEMMA OneGoesDown ==
    ASSUME Inv, NEW p \in Procs, MigrationTypeOK', MigrationInv', StartupTypeOK', StartupInv',
           LifeTypeOK', GoingDown(p)',
           \A q \in Procs \ {p} : /\ step'[q] = step[q] /\ turn'[q] = turn[q]
                                  /\ closed'[q] = closed[q] /\ jobs'[q] = jobs[q]
    PROVE  Inv'
<1>1. ASSUME NEW q \in Procs \ {p} PROVE GoingDown(q)'
    BY <1>1 DEF Inv, ShutdownInv, GoingDown
<1> QED
    BY <1>1 DEF Inv, ShutdownInv, TypeOK, LifeTypeOK

LEMMA Became ==
    ASSUME Inv, NEW p \in Procs, NEW j \in Jobs, NEW state \in JobStates, Become(p, j, state)
    PROVE  /\ jobs' \in [Procs -> [Jobs -> JobStates]] /\ jobs'[p][j] = state
           /\ \A i \in Jobs \ {j} : jobs'[p][i] = jobs[p][i]
           /\ \A q \in Procs \ {p} : jobs'[q] = jobs[q]
<1>1. jobs \in [Procs -> [Jobs -> JobStates]] /\ jobs' = [jobs EXCEPT ![p][j] = state]
    BY DEF Inv, TypeOK, Become
<1> QED
    BY <1>1

LEMMA Turned ==
    ASSUME Inv, NEW p \in Procs, step[p] = "stopping", turn[p] > 0,
           NEW what \in SUBSET {"store", "pool", "executors"}, NextTurn(p, what)
    PROVE  /\ turn' \in [Procs -> 0..Len(Order)] /\ turn'[p] = turn[p] - 1
           /\ closed' \in [Procs -> SUBSET {"store", "pool", "executors"}]
           /\ closed'[p] = closed[p] \cup what
           /\ \A q \in Procs \ {p} : turn'[q] = turn[q] /\ closed'[q] = closed[q]
           /\ UNCHANGED <<migrationVars, startupVars>>
<1>1. turn \in [Procs -> 0..Len(Order)] /\ turn' = [turn EXCEPT ![p] = @ - 1]
    BY DEF Inv, TypeOK, NextTurn
<1>2. /\ closed \in [Procs -> SUBSET {"store", "pool", "executors"}]
      /\ closed' = [closed EXCEPT ![p] = @ \cup what]
    BY DEF Inv, TypeOK, NextTurn
<1>3. /\ turn' \in [Procs -> 0..Len(Order)] /\ turn'[p] = turn[p] - 1
      /\ \A q \in Procs \ {p} : turn'[q] = turn[q]
    <2>1. turn[p] - 1 \in 0 .. Len(Order)
        BY <1>1, Turns
    <2> QED
        BY <1>1, <2>1
<1>4. /\ closed' \in [Procs -> SUBSET {"store", "pool", "executors"}]
      /\ closed'[p] = closed[p] \cup what
      /\ \A q \in Procs \ {p} : closed'[q] = closed[q]
    BY <1>2
<1> QED
    BY <1>3, <1>4 DEF NextTurn

(* A step of p's shutdown or of its background jobs. *)
LEMMA LifeStep ==
    ASSUME Inv, NEW p \in Procs, UNCHANGED <<migrationVars, startupVars>>,
           turn' \in [Procs -> 0..Len(Order)],
           closed' \in [Procs -> SUBSET {"store", "pool", "executors"}],
           jobs' \in [Procs -> [Jobs -> JobStates]],
           step[p] = "stopping" \/ UNCHANGED <<turn, closed>>,
           GoingDown(p)',
           \A q \in Procs \ {p} : /\ turn'[q] = turn[q] /\ closed'[q] = closed[q]
                                  /\ jobs'[q] = jobs[q]
    PROVE  Inv'
<1>1. TypeOK /\ MigrationInv /\ StartupInv
    BY DEF Inv
<1>2. UNCHANGED <<migrationVars, admin, cause>> /\ UNCHANGED step
    BY DEF startupVars
<1>3. MigrationTypeOK' /\ MigrationInv' /\ StartupTypeOK' /\ StartupInv'
    BY <1>1, <1>2, ShuttingStarts
<1>4. LifeTypeOK'
    BY <1>1, <1>2 DEF TypeOK, LifeTypeOK
<1> QED
    BY <1>2, <1>3, <1>4, OneGoesDown

LEMMA BackgroundKept ==
    ASSUME Inv, NEW p \in Procs, NEW j \in Jobs, Dispatch(p, j) \/ EndJob(p, j)
    PROVE  Inv'
<1>1. /\ TypeOK /\ GoingDown(p) /\ UNCHANGED <<migrationVars, startupVars, turn, closed>>
      /\ step' = step
    BY DEF Inv, ShutdownInv, Dispatch, EndJob, startupVars
<1>2. PICK state \in JobStates : Become(p, j, state) /\
         \/ jobs[p][j] \in {"idle", "running"} /\ state \in {"idle", "running"}
         \/ jobs[p][j] = "orphan" /\ state = "over"
    BY DEF Dispatch, EndJob, JobStates
<1>3. CASE step[p] = "stopping" /\ turn[p] = 5 /\ j = "persist"
    <2>1. turn'[p] = 5 /\ closed'[p] = closed[p] /\ step'[p] = "stopping"
        BY <1>1, <1>3
    <2>2. GoingDown(p)'
        BY <1>1, <1>3, <2>1 DEF GoingDown
    <2> QED
        BY <1>1, <1>2, <2>2, Became, LifeStep DEF TypeOK
<1>4. CASE ~(step[p] = "stopping" /\ turn[p] = 5 /\ j = "persist")
    <2>1. turn'[p] = turn[p] /\ closed'[p] = closed[p] /\ step'[p] = step[p] /\ turn[p] \in 0 .. 5
        BY <1>1, Turns DEF TypeOK
    <2>2. /\ jobs'[p]["persist"] = IF j = "persist" THEN state ELSE jobs[p]["persist"]
          /\ jobs'[p]["maintain"] = IF j = "maintain" THEN state ELSE jobs[p]["maintain"]
        BY <1>2, Became DEF Jobs
    <2>3. GoingDown(p)'
        BY <1>1, <1>2, <2>1, <2>2 DEF GoingDown
    <2> QED
        BY <1>1, <1>2, <2>3, Became, LifeStep DEF TypeOK
<1> QED
    BY <1>3, <1>4

LEMMA BeginShutdownKept ==
    ASSUME Inv, NEW p \in Procs, BeginShutdown(p)
    PROVE  Inv'
<1>1. /\ TypeOK /\ MigrationInv /\ StartupInv
      /\ step[p] = "up" /\ step' = [step EXCEPT ![p] = "stopping"] /\ step \in [Procs -> Steps]
      /\ UNCHANGED <<migrationVars, admin, cause, lifespanVars>>
    BY DEF Inv, TypeOK, StartupTypeOK, BeginShutdown, Advance
<1>2. MigrationTypeOK' /\ MigrationInv' /\ StartupTypeOK' /\ StartupInv'
    BY <1>1, ShuttingStarts DEF Advance
<1>3. turn'[p] = 5 /\ closed'[p] = {} /\ UNCHANGED <<turn, closed, jobs>>
    BY <1>1, Turns DEF TypeOK, lifespanVars
<1>4. LifeTypeOK'
    BY <1>1, <1>3 DEF TypeOK, LifeTypeOK
<1>5. GoingDown(p)'
    BY <1>3 DEF GoingDown
<1> QED
    BY <1>1, <1>2, <1>3, <1>4, <1>5, OneGoesDown

LEMMA ShutDownKept ==
    ASSUME Inv, NEW p \in Procs, ShutDown(p)
    PROVE  Inv'
<1>1. TypeOK /\ GoingDown(p) /\ turn[p] \in 0 .. 5 /\ jobs[p] \in [Jobs -> JobStates]
    BY Turns DEF Inv, ShutdownInv, TypeOK
<1>2. /\ step[p] = "stopping" /\ turn[p] > 0 /\ step' = step
      /\ UNCHANGED <<migrationVars, startupVars>>
    BY DEF ShutDown, StopQueue, StopMaintenance, Disconnect, CloseData, JoinExecutors,
           StopPublishing, ShuttingDown, NextTurn, startupVars
<1>3. ASSUME NEW j \in Jobs PROVE Cancelled(jobs[p][j]) \in JobStates
    BY DEF Cancelled, JobStates
<1>4. CASE StopQueue(p)
    <2>1. turn[p] = 5
        BY <1>1, <1>4, Turns DEF StopQueue, ShuttingDown
    <2>2. Become(p, "persist", Cancelled(jobs[p]["persist"])) /\ NextTurn(p, {})
        BY <1>4 DEF StopQueue
    <2>3. turn'[p] = 4 /\ closed'[p] = closed[p]
        <3>1. turn'[p] = turn[p] - 1 /\ closed'[p] = closed[p] \cup {}
            BY <1>2, <2>2, Turned
        <3> QED
            BY <2>1, <3>1
    <2>4. jobs'[p]["persist"] \in {"orphan", "over"}
        BY <1>3, <2>2, Became DEF Cancelled, Jobs
    <2>5. GoingDown(p)'
        BY <1>1, <1>2, <2>1, <2>3, <2>4 DEF GoingDown
    <2> QED
        BY <1>2, <1>3, <2>2, <2>5, Turned, Became, LifeStep DEF Jobs
<1>5. CASE StopMaintenance(p)
    <2>1. turn[p] = 4
        BY <1>1, <1>5, Turns DEF StopMaintenance, ShuttingDown
    <2>2. Become(p, "maintain", Cancelled(jobs[p]["maintain"])) /\ UNCHANGED <<turn, closed>>
        BY <1>5 DEF StopMaintenance
    <2>3. jobs'[p]["persist"] = jobs[p]["persist"]
        BY <1>3, <2>2, Became DEF Jobs
    <2>4. GoingDown(p)'
        BY <1>1, <1>2, <2>1, <2>2, <2>3 DEF GoingDown
    <2> QED
        BY <1>1, <1>2, <1>3, <2>2, <2>4, Became, LifeStep DEF Jobs, TypeOK
<1>6. CASE Disconnect(p) \/ CloseData(p) \/ JoinExecutors(p)
    <2>1. PICK what \in SUBSET {"store", "pool", "executors"} : NextTurn(p, what) /\
             \/ /\ turn[p] = 4 /\ what = {"store"} /\ jobs[p]["maintain"] \notin {"idle", "running"}
             \/ /\ turn[p] = 3 /\ what = {"pool"}
             \/ /\ turn[p] = 2 /\ what = {"executors"}
                /\ \A j \in OnExecutors : jobs[p][j] \notin {"running", "orphan"}
        BY <1>1, <1>6, Turns DEF Disconnect, CloseData, JoinExecutors, ShuttingDown
    <2>2. jobs' = jobs
        BY <1>6 DEF Disconnect, CloseData, JoinExecutors
    <2>3. turn'[p] = turn[p] - 1 /\ closed'[p] = closed[p] \cup what
        BY <1>2, <2>1, Turned
    <2>4. jobs[p]["persist"] \in JobStates /\ jobs[p]["maintain"] \in JobStates
        BY <1>1 DEF Jobs
    <2>5. GoingDown(p)'
        BY <1>1, <1>2, <2>1, <2>2, <2>3, <2>4 DEF GoingDown, JobStates, OnExecutors
    <2> QED
        BY <1>1, <1>2, <2>1, <2>2, <2>5, Turned, LifeStep DEF TypeOK
<1>7. CASE StopPublishing(p)
    <2>1. turn[p] = 1
        BY <1>1, <1>7, Turns DEF StopPublishing, ShuttingDown
    <2>2. Become(p, "publish", Cancelled(jobs[p]["publish"])) /\ NextTurn(p, {})
        BY <1>7 DEF StopPublishing
    <2>3. turn'[p] = 0 /\ closed'[p] = closed[p]
        <3>1. turn'[p] = turn[p] - 1 /\ closed'[p] = closed[p] \cup {}
            BY <1>2, <2>2, Turned
        <3> QED
            BY <2>1, <3>1
    <2>4. jobs'[p]["persist"] = jobs[p]["persist"] /\ jobs'[p]["maintain"] = jobs[p]["maintain"]
        BY <1>3, <2>2, Became DEF Jobs
    <2>5. GoingDown(p)'
        BY <1>1, <1>2, <2>1, <2>3, <2>4 DEF GoingDown
    <2> QED
        BY <1>2, <1>3, <2>2, <2>5, Turned, Became, LifeStep DEF Jobs
<1> QED
    BY <1>4, <1>5, <1>6, <1>7 DEF ShutDown

(* A process that is down or failed has all its turns to come. *)
LEMMA ResetKept ==
    ASSUME Inv, NEW p \in Procs, MigrationTypeOK', MigrationInv', StartupTypeOK', StartupInv',
           NEW there \in {"down", "failed"}, Advance(p, there),
           turn' = [turn EXCEPT ![p] = Len(Order)],
           closed' = [closed EXCEPT ![p] = {}],
           jobs' = [jobs EXCEPT ![p] = Serving]
    PROVE  Inv'
<1>1. TypeOK /\ step \in [Procs -> Steps] /\ Serving \in [Jobs -> JobStates]
    BY DEF Inv, TypeOK, StartupTypeOK, Serving, JobStates
<1>2. step'[p] = there /\ turn'[p] = Len(Order) /\ closed'[p] = {}
    BY <1>1 DEF TypeOK, Advance
<1>3. /\ turn' \in [Procs -> 0..Len(Order)]
      /\ closed' \in [Procs -> SUBSET {"store", "pool", "executors"}]
      /\ jobs' \in [Procs -> [Jobs -> JobStates]]
    BY <1>1, Turns DEF TypeOK
<1>4. \A q \in Procs \ {p} : /\ step'[q] = step[q] /\ turn'[q] = turn[q]
                             /\ closed'[q] = closed[q] /\ jobs'[q] = jobs[q]
    BY <1>1 DEF TypeOK, Advance
<1>5. LifeTypeOK'
    BY <1>1, <1>2, <1>3, <1>4 DEF TypeOK, LifeTypeOK
<1>6. GoingDown(p)'
    BY <1>2 DEF GoingDown
<1> QED
    BY <1>4, <1>5, <1>6, OneGoesDown

LEMMA EndsKept ==
    ASSUME Inv, NEW p \in Procs, CloseFails(p) \/ Crash(p) \/ Exit(p)
    PROVE  Inv'
<1>1. TypeOK /\ MigrationInv /\ StartupInv
    BY DEF Inv
<1>2. CASE CloseFails(p)
    BY <1>1, <1>2, CloseFailsStarts, ResetKept DEF CloseFails, Fail
<1>3. CASE Crash(p) \/ Exit(p)
    <2>1. Gone(p) /\ faults' \in 0 .. MaxFaults
        BY <1>1, <1>3, MigrationAssumption DEF Crash, Exit, TypeOK, StartupTypeOK, MigrationTypeOK
    <2> QED
        BY <1>1, <2>1, GoneStarts, ResetKept DEF Gone, Leave
<1> QED
    BY <1>2, <1>3

-----------------------------------------------------------------------------
(* The inductive invariant, and what follows from it *)

LEMMA MigrationStarts == MigrationInit => MigrationTypeOK /\ MigrationInv
<1> SUFFICES ASSUME MigrationInit PROVE MigrationTypeOK /\ MigrationInv
    OBVIOUS
<1>1. 1 \in Versions /\ NoRows \in Files /\ NoRows \in Rows /\ 0 \in 0 .. Statements
    BY MigrationAssumption DEF Versions, NoRows, Files, Rows
<1>2. Fresh \in Database /\ Legacy \in Database
    <2>1. [NoRows EXCEPT ![1] = "null"] \in Rows /\ {1} \X (1 .. Statements) \subseteq Versions \X (1 .. Statements)
        BY <1>1 DEF Rows
    <2> QED
        BY <1>1, <2>1 DEF Fresh, Legacy, Database
<1>3. db \in {Fresh, Legacy}
    BY DEF MigrationInit
<1>4. db \in Database
    BY <1>2, <1>3
<1>5. Complete(db)
    <2>1. CASE db = Fresh
        BY <2>1 DEF Fresh, NoRows, Complete
    <2>2. CASE db = Legacy
        <3>1. ASSUME NEW v \in Versions, NEW s \in 1 .. Statements, db.rows[v] # "absent"
              PROVE  <<v, s>> \in db.schema
            <4>1. v = 1
                BY <2>2, <3>1 DEF Legacy, NoRows
            <4> QED
                BY <2>2, <4>1 DEF Legacy
        <3> QED
            BY <3>1 DEF Complete
    <2> QED
        BY <1>3, <2>1, <2>2
<1>6. files \in Files /\ badName \in BOOLEAN /\ lock = Nobody
    BY <1>1 DEF MigrationInit, Files, Checksums
<1>7. /\ phase \in [Procs -> Phases] /\ kind \in [Procs -> {"async", "sync"}]
      /\ outcome \in [Procs -> Outcomes] /\ seen \in [Procs -> Rows] /\ plan \in [Procs -> Files]
      /\ version \in [Procs -> Versions \cup {0}] /\ ran \in [Procs -> 0 .. Statements]
      /\ txn \in [Procs -> Database \cup {Nobody}] /\ creator \in {"none", "async", "sync"}
    BY <1>1 DEF MigrationInit, Phases, Outcomes
<1>8. faults \in 0 .. MaxFaults /\ deploys \in 0 .. MaxDeploys
    BY MigrationAssumption DEF MigrationInit
<1>9. MigrationTypeOK
    BY <1>4, <1>6, <1>7, <1>8 DEF MigrationTypeOK
<1>10. \A p \in Procs : phase[p] = "none" /\ txn[p] = Nobody /\ outcome[p] = "ok"
                        /\ version[p] = 0 /\ ran[p] = 0
    BY DEF MigrationInit
<1>11. Exclusive
    BY <1>10 DEF Exclusive, Alone, Busy
<1>12. \A p \in Procs : LockHeld(p) /\ Opened(p) /\ InLoop(p) /\ LoopOver(p)
    BY <1>10 DEF LockHeld, Opened, InLoop, LoopOver, Working
<1> QED
    BY <1>5, <1>9, <1>11, <1>12 DEF MigrationInv

LEMMA InvInit == Init => Inv
<1> SUFFICES ASSUME Init PROVE Inv
    OBVIOUS
<1>1. MigrationTypeOK /\ MigrationInv
    BY MigrationStarts DEF Init, StartupInit
<1>2. StartupTypeOK
    BY <1>1 DEF Init, StartupInit, StartupTypeOK, Steps
<1>3. turn \in [Procs -> 0..Len(Order)] /\ closed \in [Procs -> SUBSET {"store", "pool", "executors"}]
    BY Turns DEF Init
<1>4. jobs \in [Procs -> [Jobs -> JobStates]]
    BY DEF Init, Serving, JobStates
<1>5. \A p \in Procs : turn[p] = Len(Order) /\ closed[p] = {} /\ step[p] = "down"
    BY DEF Init, StartupInit
<1>6. TypeOK
    BY <1>2, <1>3, <1>4, <1>5 DEF TypeOK
<1>7. \A p \in Procs : phase[p] = "none" /\ txn[p] = Nobody /\ outcome[p] = "ok"
    BY DEF Init, StartupInit, MigrationInit
<1>8. StartupInv
    BY <1>5, <1>7 DEF StartupInv, AtStep, RacedBySync, Creating
<1>9. ShutdownInv
    BY <1>5 DEF ShutdownInv, GoingDown
<1> QED
    BY <1>1, <1>6, <1>8, <1>9 DEF Inv

LEMMA InvNext == Inv /\ [Next]_vars => Inv'
<1> SUFFICES ASSUME Inv, [Next]_vars PROVE Inv'
    OBVIOUS
<1>1. ASSUME NEW p \in Procs, Starts(p), UNCHANGED lifespanVars PROVE Inv'
    BY <1>1, StartsKept
<1>2. ASSUME NEW p \in Procs, Background(p) PROVE Inv'
    BY <1>2, BackgroundKept DEF Background
<1>3. ASSUME NEW p \in Procs, BeginShutdown(p) PROVE Inv'
    BY <1>3, BeginShutdownKept
<1>4. ASSUME NEW p \in Procs, ShutDown(p) PROVE Inv'
    BY <1>4, ShutDownKept
<1>5. ASSUME NEW p \in Procs, CloseFails(p) \/ Crash(p) \/ Exit(p) PROVE Inv'
    BY <1>5, EndsKept
<1>6. CASE Deploy /\ UNCHANGED <<startupVars, lifespanVars>>
    <2>1. TypeOK /\ MigrationInv /\ StartupInv
        BY DEF Inv
    <2>2. MigrationTypeOK' /\ MigrationInv' /\ StartupTypeOK' /\ StartupInv'
        BY <1>6, <2>1, DeployStarts
    <2> QED
        BY <1>6, <2>2, NotGoingDown DEF startupVars, Inv, TypeOK, LifeTypeOK
<1>7. CASE UNCHANGED vars
    <2>1. TypeOK /\ MigrationInv /\ StartupInv /\ UNCHANGED <<migrationVars, admin, cause, step, lifespanVars>>
        BY <1>7 DEF Inv, vars, startupVars
    <2>2. MigrationTypeOK' /\ MigrationInv' /\ StartupTypeOK' /\ StartupInv'
        BY <2>1, ShuttingStarts
    <2> QED
        BY <2>1, <2>2, NotGoingDown DEF Inv, TypeOK, LifeTypeOK
<1> QED
    BY <1>1, <1>2, <1>3, <1>4, <1>5, <1>6, <1>7 DEF Next

LEMMA InvHolds == Spec => []Inv
BY InvInit, InvNext, PTL DEF Spec

(* Every variable of the migrations, the startup and the shutdown keeps    *)
(* its type, and what a process has closed is forgotten with it.           *)
THEOREM LifespanTypeCorrect == Spec => []TypeOK
<1>1. Inv => TypeOK
    BY DEF Inv
<1> QED
    BY <1>1, InvHolds, PTL

(* However often a pass fails or a process crashes, at any point, a file   *)
(* whose version is recorded has had all its statements run                *)
(* (migrations.py:52-53): the row is written after the last of them, in    *)
(* the transaction that ran them or after they were committed.             *)
THEOREM RecordsTellTheTruth == Spec => []RecordedIsComplete
<1>1. Inv => RecordedIsComplete
    BY DEF Inv, MigrationInv, Complete, RecordedIsComplete
<1> QED
    BY <1>1, InvHolds, PTL

(* No two processes, however many start together, are in the middle of the *)
(* same migration, although a sync pass unlocks before it commits          *)
(* (migrations.py:287-292): whoever gets the lock meanwhile waits for the  *)
(* tracking table, which the open transaction has altered.                 *)
THEOREM OneAppliesAtATime == Spec => []AppliedByOne
<1>1. Inv => AppliedByOne
    <2> SUFFICES ASSUME Inv, NEW p \in Procs, NEW q \in Procs, p # q
                 PROVE  InFlight(p) \cap InFlight(q) = {}
        BY DEF AppliedByOne
    <2>1. ~Busy(p) \/ ~Busy(q)
        BY DEF Inv, MigrationInv, Exclusive, Alone
    <2>2. \A r \in Procs : ~Busy(r) => InFlight(r) = {}
        BY DEF Busy, InFlight
    <2> QED
        BY <2>1, <2>2
<1> QED
    BY <1>1, InvHolds, PTL

(* A commit takes nothing back of what others have committed since its     *)
(* transaction began.                                                      *)
THEOREM CommitsOnlyAdd == Spec => []NothingOverwritten
<1>1. Inv => NothingOverwritten
    BY DEF Inv, MigrationInv, Opened, Grows, NothingOverwritten
<1> QED
    BY <1>1, InvHolds, PTL

-----------------------------------------------------------------------------
(* Rows of users stay, so what stopped a process is still there *)

RowsStay == (admin # "absent" => admin' # "absent") /\ (admin = "admin" => admin' = "admin")

(* A step of p's startup that names no row as its cause. *)
LEMMA NoRowInTheWay ==
    ASSUME TypeOK, AdminInv, NEW p \in Procs, RowsStay,
           \A q \in Procs \ {p} : step'[q] = step[q] /\ cause'[q] = cause[q],
           step'[p] = "seeding" => AdminPassword,
           \/ step'[p] # "failed"
           \/ cause'[p] \notin {"duplicate", "refused"}
           \/ /\ cause'[p] = "duplicate" /\ admin # "absent"
              /\ Program[p] = "script" \/ AdminPassword
           \/ cause'[p] = "refused" /\ admin = "admin" /\ Program[p] = "script"
    PROVE  AdminInv'
BY DEF AdminInv, RowsStay

LEMMA AdminInit == Init => AdminInv
BY DEF Init, StartupInit, AdminInv

LEMMA AdminNext == Inv /\ AdminInv /\ [Next]_vars => AdminInv'
<1> SUFFICES ASSUME Inv, AdminInv, [Next]_vars PROVE AdminInv'
    OBVIOUS
<1>1. TypeOK /\ step \in [Procs -> Steps]
      /\ cause \in [Procs -> Outcomes \cup {"none", "refused", "duplicate", "close"}]
    BY DEF Inv, TypeOK, StartupTypeOK
<1>2. ASSUME UNCHANGED <<admin, step, cause>> PROVE AdminInv'
    BY <1>2 DEF AdminInv
<1>3. ASSUME NEW p \in Procs, Sequence(p) PROVE AdminInv'
    <2>1. outcome[p] \notin {"duplicate", "refused"}
        BY <1>1 DEF TypeOK, StartupTypeOK, MigrationTypeOK, Outcomes
    <2>2. step[p] \in {"lookup", "create", "promote"} => Program[p] = "script"
        BY DEF Inv, StartupInv, AtStep
    <2>3. step[p] = "seeding" => AdminPassword
        BY DEF AdminInv
    <2>4. \A q \in Procs \ {p} : step'[q] = step[q] /\ cause'[q] = cause[q]
        BY <1>1, <1>3 DEF Sequence, EndDataStep, EndSchema, PassFails, SeedAdmin, InsertAdmin,
            LookUpAdmin, CreateAdmin, PromoteAdmin, Fail, Advance
    <2>5. CASE EndDataStep(p) \/ EndSchema(p)
        <3>1. UNCHANGED admin /\ step'[p] \in {"state", "lookup", "seed"}
            BY <1>1, <2>5 DEF EndDataStep, EndSchema, Advance
        <3> QED
            BY <1>1, <2>4, <3>1, NoRowInTheWay DEF RowsStay
    <2>6. CASE PassFails(p)
        <3>1. UNCHANGED admin /\ step'[p] = "failed" /\ cause'[p] = outcome[p]
            BY <1>1, <2>6 DEF PassFails, Fail, Advance
        <3> QED
            BY <1>1, <2>1, <2>4, <3>1, NoRowInTheWay DEF RowsStay
    <2>7. CASE SeedAdmin(p)
        <3>1. UNCHANGED admin /\ step'[p] \in {"up", "seeding"}
              /\ (step'[p] = "seeding" => AdminPassword)
            BY <1>1, <2>7 DEF SeedAdmin, Advance
        <3> QED
            BY <1>1, <2>4, <3>1, NoRowInTheWay DEF RowsStay
    <2>8. CASE InsertAdmin(p)
        <3>1. /\ RowsStay /\ AdminPassword
              /\ \/ step'[p] = "up"
                 \/ step'[p] = "failed" /\ cause'[p] = "duplicate" /\ admin # "absent"
            BY <1>1, <2>3, <2>8 DEF InsertAdmin, Fail, Advance, RowsStay
        <3> QED
            BY <1>1, <2>4, <3>1, NoRowInTheWay
    <2>9. CASE LookUpAdmin(p)
        <3>1. /\ RowsStay /\ Program[p] = "script"
              /\ \/ step'[p] \in {"promote", "create"}
                 \/ step'[p] = "failed" /\ cause'[p] = "refused" /\ admin = "admin"
            BY <1>1, <2>2, <2>9 DEF LookUpAdmin, Fail, Advance, RowsStay
        <3> QED
            BY <1>1, <2>4, <3>1, NoRowInTheWay
    <2>10. CASE CreateAdmin(p) \/ PromoteAdmin(p)
        <3>1. /\ RowsStay /\ Program[p] = "script"
              /\ \/ step'[p] = "up"
                 \/ step'[p] = "failed" /\ cause'[p] = "duplicate" /\ admin # "absent"
            BY <1>1, <2>2, <2>10 DEF CreateAdmin, PromoteAdmin, Fail, Advance, RowsStay
        <3> QED
            BY <1>1, <2>4, <3>1, NoRowInTheWay
    <2> QED
        BY <1>3, <2>5, <2>6, <2>7, <2>8, <2>9, <2>10 DEF Sequence
<1>4. ASSUME NEW p \in Procs, Start(p) \/ Migrate(p) \/ Disturb(p) PROVE AdminInv'
    <2>1. CASE Migrate(p) \/ Disturb(p)
        BY <1>2, <2>1 DEF Migrate, Disturb, startupVars
    <2>2. CASE Start(p)
        <3>1. /\ UNCHANGED <<admin, cause>> /\ step'[p] \in {"data", "state"}
              /\ \A q \in Procs \ {p} : step'[q] = step[q]
            BY <1>1, <2>2 DEF Start, Advance
        <3> QED
            BY <1>1, <3>1, NoRowInTheWay DEF RowsStay
    <2> QED
        BY <1>4, <2>1, <2>2
<1>5. ASSUME NEW p \in Procs, ConnectFails(p) \/ AdminFails(p) \/ CloseFails(p) PROVE AdminInv'
    <2>1. /\ step'[p] = "failed" /\ cause'[p] \in {"lost", "close"}
          /\ \A q \in Procs \ {p} : step'[q] = step[q] /\ cause'[q] = cause[q]
        BY <1>1, <1>5 DEF ConnectFails, AdminFails, CloseFails, Fail, Advance
    <2>2. RowsStay
        BY <1>5 DEF ConnectFails, AdminFails, CloseFails, RowsStay
    <2> QED
        BY <1>1, <2>1, <2>2, NoRowInTheWay
<1>6. ASSUME NEW p \in Procs, Crash(p) \/ Exit(p) PROVE AdminInv'
    <2>1. /\ UNCHANGED admin /\ step'[p] = "down"
          /\ \A q \in Procs \ {p} : step'[q] = step[q] /\ cause'[q] = cause[q]
        BY <1>1, <1>6 DEF Crash, Exit, Gone, Leave, Advance
    <2> QED
        BY <1>1, <2>1, NoRowInTheWay DEF RowsStay
<1>7. ASSUME NEW p \in Procs, BeginShutdown(p) PROVE AdminInv'
    <2>1. /\ UNCHANGED <<admin, cause>> /\ step'[p] = "stopping"
          /\ \A q \in Procs \ {p} : step'[q] = step[q]
        BY <1>1, <1>7 DEF BeginShutdown, Advance
    <2> QED
        BY <1>1, <2>1, NoRowInTheWay DEF RowsStay
<1>8. ASSUME NEW p \in Procs, Background(p) \/ ShutDown(p) PROVE AdminInv'
    BY <1>2, <1>8 DEF Background, Dispatch, EndJob, ShutDown, StopQueue, StopMaintenance,
        Disconnect, CloseData, JoinExecutors, StopPublishing, NextTurn, startupVars
<1>9. CASE Deploy /\ UNCHANGED <<startupVars, lifespanVars>>
    BY <1>2, <1>9 DEF startupVars
<1>10. CASE UNCHANGED vars
    BY <1>2, <1>10 DEF vars, startupVars
<1> QED
    BY <1>3, <1>4, <1>5, <1>6, <1>7, <1>8, <1>9, <1>10 DEF Next, Starts

(* A startup fails for no reason that is not there: a lost race for the    *)
(* tracking table only when a sync pass created it, an edited file only    *)
(* when it differs from what was applied, the admin's row only when one    *)
(* with his name or e-mail is there, in a process that was to create one   *)
(* (migrations.py:273-292 and 204-238, admin_bootstrap.py:46-75).          *)
THEOREM FailedStartsHaveCause == Spec => []FailuresHaveCause
<1>1. Inv /\ AdminInv => FailuresHaveCause
    BY DEF Inv, StartupInv, AtStep, RacedBySync, Differs, AdminInv, FailuresHaveCause
<1>2. Spec => []AdminInv
    BY AdminInit, AdminNext, InvHolds, PTL DEF Spec
<1> QED
    BY <1>1, <1>2, InvHolds, PTL

(* Whoever serves has the schema of the files he loaded, whoever else      *)
(* applies newer ones meanwhile (migrations.py:190-202).                   *)
THEOREM ServesOnItsSchema == Spec => []UpOnItsSchema
<1>1. Inv => UpOnItsSchema
    BY DEF Inv, StartupInv, AtStep, OnSchema, UpOnItsSchema
<1> QED
    BY <1>1, InvHolds, PTL

(* A worker that goes down closes nothing a task or thread of it still     *)
(* counts on (manager.py:129-150).                                         *)
THEOREM ClosesInOrder == Spec => []ShutdownInOrder
<1>1. Inv => ShutdownInOrder
    <2> SUFFICES ASSUME Inv, NEW p \in Procs, step[p] = "stopping"
                 PROVE  /\ "store" \in closed[p] =>
                              \A j \in Jobs \ {"publish"} : jobs[p][j] \in {"orphan", "over"}
                        /\ "executors" \in closed[p] =>
                              /\ {"store", "pool"} \subseteq closed[p]
                              /\ \A j \in OnExecutors : jobs[p][j] = "over"
        BY DEF ShutdownInOrder
    <2>1. GoingDown(p) /\ turn[p] \in 0 .. 5
        BY Turns DEF Inv, ShutdownInv, TypeOK
    <2>2. \A j \in Jobs \ {"publish"} : j \in {"persist", "maintain"}
        BY DEF Jobs
    <2> QED
        BY <2>1, <2>2 DEF GoingDown, OnExecutors
<1> QED
    BY <1>1, InvHolds, PTL
=============================================================================
