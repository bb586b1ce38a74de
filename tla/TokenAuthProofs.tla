-------------------------- MODULE TokenAuthProofs --------------------------
(***************************************************************************)
(* Proofs about TokenAuth, for any number of processes, requests and       *)
(* accounts: its types, the last-admin rule, how far a revocation reaches, *)
(* and when a client that is locked out is let in again.                   *)
(***************************************************************************)
EXTENDS TokenAuth, TLAPS

-----------------------------------------------------------------------------
(* The inductive invariants *)

WithUser == {"registering", "counting", "counted", "looked_up", "issued", "rec_reading", "rec_read",
             "target_read", "listed", "changed", "stamped", "stored"}
WithToken == {"issued", "rec_reading", "rec_read"}
WithRole == {"looked_up", "target_read", "listed"}
ChangingPCs == {"changed", "stamped", "stored"}

(* A request's record, and what it holds at each place. *)
TaskRecords == [pc : PCs, user : Users \cup {Nothing}, held : Roles \cup {Nothing},
                at : NoStamp..MaxTime, token : Tokens \cup {Nothing}]
GoodTasks == {r \in TaskRecords :
    /\ r.pc \in WithUser => r.user \in Users
    /\ r.pc \in WithToken => r.token \in Tokens
    /\ r.pc \in WithRole => r.held \in Roles
    /\ r.pc = "counting" => r.at \in 0..MaxTime}

TypeInv == TypeOK /\ task \in [Tasks -> GoodTasks]

(* Whoever is about to take admin away has seen, or leaves by what he read *)
(* before, somebody else who is an admin.                                  *)
AdminInv ==
    ~raced => /\ \E u \in Users : role[u] = "admin"
              /\ \A t \in Tasks : Demoting(t) => OtherAdmins(task[t].user) # {}

(* `opened` is the start of the window that is counted in. *)
WindowInv == window.count # 0 => window.start = opened

(* The tokens there are, those of answers that have not left yet, too. *)
Handed(token) ==
    token \in tokens \/ \E t \in Tasks : task[t].pc = "issued" /\ task[t].token = token

(* Only accounts have tokens, and none is from the future. *)
TokensInv ==
    /\ \A token \in Tokens : Handed(token) => token.user \in Registered /\ token.iat <= now
    /\ \A t \in Tasks : task[t].pc = "looked_up" => task[t].user \in Registered

(* Where no revocation of u was lost or overlapped, one role change at a   *)
(* time is under way, what it stored is the record, and every token with   *)
(* an old role is covered by the stamp it took or the record.              *)
Covered(u, token) ==
    /\ \A c \in Changing(u) : /\ task[c].pc = "stamped" => token.iat <= task[c].at
                              /\ task[c].pc = "stored" => token.iat <= record[u]
    /\ Changing(u) = {} => token.iat <= record[u]

ChangesInv ==
    \A u \in Users \ excused :
        /\ \A c, d \in Changing(u) : c = d
        /\ \A token \in Tokens :
              Handed(token) /\ token.user = u /\ token.role # role[u] /\ ~token.stale =>
                  Covered(u, token)

(* A copy of a record that has been replaced runs out RecordTTL after. *)
CopiesInv ==
    \A p \in Procs, u \in Users : local[p][u] # Nothing =>
        /\ local[p][u].until <= now + RecordTTL
        /\ \/ u \in excused \/ local[p][u].at = record[u]
           \/ local[p][u].until <= storedAt[u] + RecordTTL

RevocationInv == TokensInv /\ ChangesInv /\ CopiesInv

-----------------------------------------------------------------------------
(* Records *)

LEMMA IdleIsGood == Idle \in GoodTasks /\ Idle.pc = "idle"
BY TokenAuthAssumption DEF Idle, GoodTasks, TaskRecords, PCs, WithUser, WithToken, WithRole, NoStamp

(* A step of t leaves its record at one of the places `pcs`, and those of  *)
(* the others alone.                                                       *)
Moves(t, pcs) ==
    /\ task' \in [Tasks -> GoodTasks]
    /\ \A x \in Tasks \ {t} : task'[x] = task[x]
    /\ task'[t].pc \in pcs

LEMMA OneMoves ==
    ASSUME NEW t \in Tasks, task \in [Tasks -> GoodTasks], NEW r \in GoodTasks,
           task' = [task EXCEPT ![t] = r]
    PROVE  task'[t] = r /\ Moves(t, {r.pc})
BY DEF Moves

LEMMA IssuedIsToken ==
    ASSUME TypeInv, NEW t \in Tasks, task[t].pc = "looked_up"
    PROVE  /\ Issued(t) \in Tokens /\ Issued(t).user = task[t].user /\ Issued(t).role = task[t].held
           /\ Issued(t).iat = now /\ Issued(t).stale = (task[t].held # role[task[t].user])
<1>1. task[t].user \in Users /\ task[t].held \in Roles /\ now \in 0..MaxTime
    BY DEF TypeInv, TypeOK, GoodTasks, WithUser, WithRole
<1>2. (task[t].held # role[task[t].user]) \in BOOLEAN
    OBVIOUS
<1> QED
    BY <1>1, <1>2 DEF Issued, Tokens

LEMMA EndMoves ==
    ASSUME TypeInv, NEW t \in Tasks,
           \/ CreateUser(t) \/ ResetAttempts(t) \/ LoginFails(t) \/ RequestFails(t)
           \/ StoreLocal(t) \/ ChangeFails(t)
    PROVE  Moves(t, {"idle"})
<1>1. task' = [task EXCEPT ![t] = Idle]
    BY DEF CreateUser, ResetAttempts, LoginFails, RequestFails, StoreLocal, ChangeFails, Ends
<1> QED
    BY <1>1, IdleIsGood, OneMoves DEF TypeInv
(* Requests that begin. *)
LEMMA FreshIsGood ==
    ASSUME NEW pc \in {"counted", "registering"}, NEW u \in Users,
           NEW r, r = [Idle EXCEPT !.pc = pc, !.user = u]
    PROVE  r \in GoodTasks /\ r.pc = pc
<1>1. r = [pc |-> pc, user |-> u, held |-> Nothing, at |-> NoStamp, token |-> Nothing]
    BY DEF Idle
<1>2. NoStamp \in NoStamp..MaxTime /\ pc \in PCs /\ pc \notin WithToken /\ pc \notin WithRole
    BY TokenAuthAssumption DEF NoStamp, PCs, WithToken, WithRole
<1>3. r \in TaskRecords
    BY <1>1, <1>2 DEF TaskRecords
<1> QED
    BY <1>1, <1>2, <1>3 DEF GoodTasks

(* What a request record is once its place, account and time are set. *)
LEMMA Begun ==
    ASSUME NEW pc, NEW u, NEW a, NEW r, r = [Idle EXCEPT !.pc = pc, !.user = u, !.at = a]
    PROVE  r = [pc |-> pc, user |-> u, held |-> Nothing, at |-> a, token |-> Nothing]
BY DEF Idle

LEMMA AttemptMoves ==
    ASSUME TypeInv, NEW t \in Tasks, NEW u \in Users, Attempt(t, u)
    PROVE  Moves(t, {"counting"})
<1> DEFINE r == [Idle EXCEPT !.pc = "counting", !.user = u, !.at = now]
<1>1. r = [pc |-> "counting", user |-> u, held |-> Nothing, at |-> now, token |-> Nothing]
    BY Begun
<1>2. now \in 0..MaxTime /\ now \in NoStamp..MaxTime
    BY TokenAuthAssumption DEF TypeInv, TypeOK, NoStamp
<1>3. r \in TaskRecords
    BY <1>1, <1>2 DEF TaskRecords, PCs
<1>4. r \in GoodTasks /\ r.pc = "counting"
    BY <1>1, <1>2, <1>3 DEF GoodTasks, WithToken, WithRole
<1>5. task' = [task EXCEPT ![t] = r]
    BY DEF Attempt
<1> QED
    BY <1>4, <1>5, OneMoves DEF TypeInv

LEMMA RecordAttemptMoves ==
    ASSUME TypeInv, NEW t \in Tasks, RecordAttempt(t)
    PROVE  Moves(t, {"idle", "counted"}) /\ task[t].at \in 0..MaxTime
<1>1. task[t].user \in Users /\ task[t].at \in 0..MaxTime
    BY DEF RecordAttempt, TypeInv, GoodTasks, WithUser
<1>2. CASE Allowed(Recorded(task[t].at))
    <2>1. task' = [task EXCEPT ![t] = [Idle EXCEPT !.pc = "counted", !.user = task[t].user]]
        BY <1>2 DEF RecordAttempt
    <2> QED
        BY <1>1, <2>1, FreshIsGood, OneMoves DEF TypeInv, Moves
<1>3. CASE ~Allowed(Recorded(task[t].at))
    <2>1. task' = [task EXCEPT ![t] = Idle]
        BY <1>3 DEF RecordAttempt
    <2> QED
        BY <1>1, <2>1, IdleIsGood, OneMoves DEF TypeInv, Moves
<1> QED
    BY <1>2, <1>3

LEMMA RegisterMoves ==
    ASSUME TypeInv, NEW t \in Tasks, NEW u \in Users, Register(t, u)
    PROVE  Moves(t, {"registering"})
<1>1. task' = [task EXCEPT ![t] = [Idle EXCEPT !.pc = "registering", !.user = u]]
    BY DEF Register
<1> QED
    BY <1>1, FreshIsGood, OneMoves DEF TypeInv

(* Login. *)
LEMMA LookUpMoves ==
    ASSUME TypeInv, NEW t \in Tasks, LookUp(t)
    PROVE  /\ Moves(t, {"idle", "looked_up"})
           /\ task'[t].pc = "looked_up" =>
                 task'[t].user = task[t].user /\ task[t].user \in Registered
<1>1. CASE task[t].user \notin Registered
    <2>1. task' = [task EXCEPT ![t] = Idle]
        BY <1>1 DEF LookUp, Ends
    <2> QED
        BY <2>1, IdleIsGood, OneMoves DEF TypeInv, Moves
<1>2. CASE task[t].user \in Registered
    <2> DEFINE u == task[t].user
               r == [task[t] EXCEPT !.pc = "looked_up", !.held = role[u]]
    <2>1. task' = [task EXCEPT ![t] = r]
        BY <1>2 DEF LookUp
    <2>2. task[t] \in GoodTasks /\ task[t].pc = "counted" /\ u \in Users
        BY DEF TypeInv, LookUp, GoodTasks, WithUser
    <2>3. role[u] \in Roles
        BY <1>2, <2>2 DEF Registered, TypeInv, TypeOK
    <2>4. r \in GoodTasks /\ r.pc = "looked_up" /\ r.user = u
        BY <2>2, <2>3 DEF GoodTasks, TaskRecords, PCs, WithToken
    <2> HIDE DEF r
    <2> QED
        BY <1>2, <2>1, <2>4, OneMoves DEF TypeInv, Moves
<1> QED
    BY <1>1, <1>2

LEMMA IssueMoves ==
    ASSUME TypeInv, NEW t \in Tasks, Issue(t)
    PROVE  Moves(t, {"issued"}) /\ task'[t].token = Issued(t) /\ task'[t].user = task[t].user
<1> DEFINE r == [task[t] EXCEPT !.pc = "issued", !.token = Issued(t)]
<1>1. task' = [task EXCEPT ![t] = r]
    BY DEF Issue
<1>2. task[t] \in GoodTasks /\ task[t].pc = "looked_up" /\ Issued(t) \in Tokens
    BY IssuedIsToken DEF TypeInv, Issue
<1>3. r \in GoodTasks /\ r.pc = "issued" /\ r.token = Issued(t) /\ r.user = task[t].user
    BY <1>2 DEF GoodTasks, TaskRecords, PCs, WithUser, WithRole
<1> HIDE DEF r
<1> QED
    BY <1>1, <1>3, OneMoves DEF TypeInv
(* A request with a token. *)
LEMMA JudgedMoves ==
    ASSUME TypeInv, NEW t \in Tasks, NEW ts, NEW at, Judged(t, ts, at),
           ts \in [Tasks -> GoodTasks], \A x \in Tasks \ {t} : ts[x] = task[x],
           ts[t].token \in Tokens
    PROVE  Moves(t, {"idle", "admitted"})
<1>1. CASE ts[t].token.iat <= at
    <2>1. task' = [ts EXCEPT ![t] = Idle]
        BY <1>1 DEF Judged
    <2> QED
        BY <2>1, IdleIsGood DEF Moves
<1>2. CASE ~(ts[t].token.iat <= at)
    <2> DEFINE r == [Idle EXCEPT !.pc = "admitted", !.held = ts[t].token.role]
    <2>1. task' = [ts EXCEPT ![t] = r]
        BY <1>2 DEF Judged
    <2>2. ts[t].token.role \in Roles
        BY DEF Tokens
    <2>3. r \in GoodTasks /\ r.pc = "admitted"
        BY <2>2, IdleIsGood DEF Idle, GoodTasks, TaskRecords, PCs, WithUser, WithToken, WithRole
    <2> HIDE DEF r
    <2> QED
        BY <2>1, <2>3 DEF Moves
<1> QED
    BY <1>1, <1>2

LEMMA ShowTokenMoves ==
    ASSUME TypeInv, NEW t \in Tasks, NEW token \in tokens, ShowToken(t, token)
    PROVE  Moves(t, {"idle", "admitted", "rec_reading"})
<1> DEFINE r == [Idle EXCEPT !.pc = "rec_reading", !.user = token.user, !.token = token]
<1>1. token \in Tokens /\ token.user \in Users
    BY DEF TypeInv, TypeOK, Tokens
<1>2. r \in GoodTasks /\ r.pc = "rec_reading" /\ r.token = token
    BY <1>1, IdleIsGood DEF Idle, GoodTasks, TaskRecords, PCs, WithUser, WithToken, WithRole
<1>3. Shows(t, token) = [task EXCEPT ![t] = r]
    BY DEF Shows
<1> HIDE DEF r
<1>4. /\ Shows(t, token) \in [Tasks -> GoodTasks] /\ Shows(t, token)[t] = r
      /\ \A x \in Tasks \ {t} : Shows(t, token)[x] = task[x]
    BY <1>2, <1>3 DEF TypeInv
<1>5. CASE task' = Shows(t, token)
    BY <1>2, <1>4, <1>5 DEF Moves
<1>6. CASE Judged(t, Shows(t, token), local[ProcOf[t]][token.user].at)
    <2>1. Moves(t, {"idle", "admitted"})
        BY <1>1, <1>2, <1>4, <1>6, JudgedMoves
    <2> QED
        BY <2>1 DEF Moves
<1> QED
    BY <1>5, <1>6 DEF ShowToken

LEMMA ReadRecordMoves ==
    ASSUME TypeInv, NEW t \in Tasks, ReadRecord(t)
    PROVE  Moves(t, {"rec_read"})
<1> DEFINE r == [task[t] EXCEPT !.pc = "rec_read", !.at = record[task[t].user]]
<1>1. task' = [task EXCEPT ![t] = r]
    BY DEF ReadRecord
<1>2. task[t] \in GoodTasks /\ task[t].pc = "rec_reading" /\ task[t].user \in Users
    BY DEF TypeInv, ReadRecord, GoodTasks, WithUser
<1>3. record[task[t].user] \in NoStamp..MaxTime
    BY <1>2 DEF TypeInv, TypeOK
<1>4. r \in GoodTasks /\ r.pc = "rec_read"
    BY <1>2, <1>3 DEF GoodTasks, TaskRecords, PCs, WithUser, WithToken, WithRole
<1> HIDE DEF r
<1> QED
    BY <1>1, <1>4, OneMoves DEF TypeInv

LEMMA UseRecordMoves ==
    ASSUME TypeInv, NEW t \in Tasks, UseRecord(t)
    PROVE  Moves(t, {"idle", "admitted"}) /\ task[t].user \in Users /\ task[t].at \in NoStamp..MaxTime
<1>1. Judged(t, task, task[t].at) /\ task[t].pc = "rec_read"
    BY DEF UseRecord
<1>2. task[t].token \in Tokens /\ task[t].user \in Users /\ task[t].at \in NoStamp..MaxTime
    BY <1>1 DEF TypeInv, GoodTasks, TaskRecords, WithToken, WithUser
<1> QED
    BY <1>1, <1>2, JudgedMoves DEF TypeInv

(* Role changes. *)
LEMMA ReadTargetMoves ==
    ASSUME TypeInv, NEW t \in Tasks, NEW u \in Users, NEW r \in Roles, ReadTarget(t, u, r)
    PROVE  /\ Moves(t, {"target_read", "listed"})
           /\ task'[t].user = u /\ task'[t].held = r
           /\ task'[t].pc = "listed" => role[u] # "admin" \/ r = "admin"
<1> DEFINE pc == IF role[u] = "admin" /\ r # "admin" THEN "target_read" ELSE "listed"
           s == [Idle EXCEPT !.user = u, !.held = r, !.pc = pc]
<1>1. task' = [task EXCEPT ![t] = s]
    BY DEF ReadTarget
<1>2. pc \in {"target_read", "listed"} /\ (pc = "listed" => role[u] # "admin" \/ r = "admin")
    OBVIOUS
<1> HIDE DEF pc
<1>3. s \in GoodTasks /\ s.pc = pc /\ s.user = u /\ s.held = r
    BY <1>2, IdleIsGood DEF Idle, GoodTasks, TaskRecords, PCs, WithUser, WithToken, WithRole
<1> HIDE DEF s
<1> QED
    BY <1>1, <1>2, <1>3, OneMoves DEF TypeInv, Moves

(* A role change that goes on. *)
LEMMA ChangeMoves ==
    ASSUME TypeInv, NEW t \in Tasks, NEW pc \in {"listed", "changed", "stored"}, Goes(t, pc),
           task[t].pc \in {"target_read", "listed", "stamped"},
           pc = "listed" => task[t].pc = "target_read"
    PROVE  /\ Moves(t, {pc}) /\ task'[t].user = task[t].user /\ task'[t].held = task[t].held
           /\ task'[t].at = task[t].at
<1> DEFINE r == [task[t] EXCEPT !.pc = pc]
<1>1. task' = [task EXCEPT ![t] = r]
    BY DEF Goes
<1>2. task[t] \in GoodTasks
    BY DEF TypeInv
<1>3. /\ r \in GoodTasks /\ r.pc = pc /\ r.user = task[t].user /\ r.held = task[t].held
      /\ r.at = task[t].at
    BY <1>2 DEF GoodTasks, TaskRecords, PCs, WithUser, WithToken, WithRole
<1> HIDE DEF r
<1> QED
    BY <1>1, <1>3, OneMoves DEF TypeInv

LEMMA ListAdminsMoves ==
    ASSUME TypeInv, NEW t \in Tasks, ListAdmins(t)
    PROVE  /\ Moves(t, {"idle", "listed"})
           /\ task'[t].pc = "listed" =>
                 task'[t].user = task[t].user /\ OtherAdmins(task[t].user) # {}
<1>1. CASE OtherAdmins(task[t].user) # {}
    <2>1. Goes(t, "listed") /\ task[t].pc = "target_read"
        BY <1>1 DEF ListAdmins
    <2>2. Moves(t, {"listed"}) /\ task'[t].user = task[t].user
        BY <2>1, ChangeMoves
    <2> QED
        BY <1>1, <2>2 DEF Moves
<1>2. CASE OtherAdmins(task[t].user) = {}
    <2>1. task' = [task EXCEPT ![t] = Idle]
        BY <1>2 DEF ListAdmins, Ends
    <2> QED
        BY <2>1, IdleIsGood, OneMoves DEF TypeInv, Moves
<1> QED
    BY <1>1, <1>2

LEMMA StampMoves ==
    ASSUME TypeInv, NEW t \in Tasks, Stamp(t)
    PROVE  Moves(t, {"stamped"}) /\ task'[t].user = task[t].user /\ task'[t].at = now
<1> DEFINE r == [task[t] EXCEPT !.pc = "stamped", !.at = now]
<1>1. task' = [task EXCEPT ![t] = r]
    BY DEF Stamp
<1>2. task[t] \in GoodTasks /\ task[t].pc = "changed" /\ now \in NoStamp..MaxTime
    BY DEF TypeInv, TypeOK, Stamp, NoStamp
<1>3. r \in GoodTasks /\ r.pc = "stamped" /\ r.user = task[t].user /\ r.at = now
    BY <1>2 DEF GoodTasks, TaskRecords, PCs, WithUser, WithToken, WithRole
<1> HIDE DEF r
<1> QED
    BY <1>1, <1>3, OneMoves DEF TypeInv

-----------------------------------------------------------------------------
(* Types *)

(* The types but that of `task`. *)
OthersOK ==
    /\ now \in 0..MaxTime
    /\ role \in [Users -> Roles \cup {"none"}]
    /\ record \in [Users -> NoStamp..MaxTime]
    /\ local \in [Procs -> [Users -> {Nothing} \cup
                   [at : NoStamp..MaxTime, until : 0..(MaxTime + RecordTTL)]]]
    /\ window \in [start : 0..MaxTime, count : 0..(MaxAttempts + 1)]
    /\ tokens \subseteq Tokens
    /\ events \in 0..MaxEvents /\ opened \in 0..MaxTime /\ raced \in BOOLEAN
    /\ storedAt \in [Users -> 0..MaxTime] /\ excused \subseteq Users

LEMMA TypeParts == TypeInv <=> OthersOK /\ task \in [Tasks -> GoodTasks]
<1>1. GoodTasks \subseteq TaskRecords
    BY DEF GoodTasks
<1> QED
    BY <1>1 DEF TypeInv, TypeOK, OthersOK, TaskRecords

LEMMA RecordedIsWindow ==
    ASSUME TypeInv, NEW at \in 0..MaxTime
    PROVE  /\ Recorded(at) \in [start : 0..MaxTime, count : 0..(MaxAttempts + 1)]
           /\ Recorded(at).count # 0
           /\ Recorded(at).count = 1 => WindowOver(at)
           /\ WindowOver(at) => Recorded(at).start = at /\ Recorded(at).count = 1
           /\ ~WindowOver(at) => Recorded(at).start = window.start
<1>1. window \in [start : 0..MaxTime, count : 0..(MaxAttempts + 1)]
    BY DEF TypeInv, TypeOK
<1>2. MaxAttempts \in Nat \ {0}
    BY TokenAuthAssumption
<1>3. CASE WindowOver(at)
    BY <1>1, <1>2, <1>3 DEF Recorded
<1>4. CASE ~WindowOver(at)
    <2>1. Recorded(at) = [start |-> window.start, count |-> OneMore]
        BY <1>1, <1>4 DEF Recorded
    <2>2. window.count # 0 /\ window.count \in 0..(MaxAttempts + 1)
        BY <1>1, <1>4 DEF WindowOver
    <2>3. OneMore \in 2..(MaxAttempts + 1)
        BY <1>2, <2>2 DEF OneMore
    <2> QED
        BY <1>1, <1>2, <1>4, <2>1, <2>3
<1> QED
    BY <1>3, <1>4

LEMMA CopyIsCopy ==
    ASSUME TypeInv, NEW at \in NoStamp..MaxTime
    PROVE  /\ Copy(at) \in [at : NoStamp..MaxTime, until : 0..(MaxTime + RecordTTL)]
           /\ Copy(at).at = at /\ Copy(at).until = now + RecordTTL
<1>1. now \in 0..MaxTime /\ MaxTime \in Nat /\ RecordTTL \in Nat
    BY TokenAuthAssumption DEF TypeInv, TypeOK
<1>2. now + RecordTTL \in 0..(MaxTime + RecordTTL)
    BY <1>1
<1> QED
    BY <1>2 DEF Copy

LEMMA TypeInit == Init => TypeInv
<1> SUFFICES ASSUME Init PROVE TypeInv
    OBVIOUS
<1>1. MaxTime \in Nat /\ MaxEvents \in Nat /\ MaxAttempts \in Nat
    BY TokenAuthAssumption
<1>2. /\ now \in 0..MaxTime /\ events \in 0..MaxEvents /\ opened \in 0..MaxTime
      /\ excused \subseteq Users
    BY <1>1 DEF Init
<1>9. raced \in BOOLEAN
    BY DEF Init
<1>3. record \in [Users -> NoStamp..MaxTime] /\ storedAt \in [Users -> 0..MaxTime]
    <2>1. NoStamp \in NoStamp..MaxTime /\ 0 \in 0..MaxTime
        BY <1>1 DEF NoStamp
    <2> QED
        BY <2>1 DEF Init
<1>4. window \in [start : 0..MaxTime, count : 0..(MaxAttempts + 1)]
    BY <1>1 DEF Init, NoWindow
<1>5. tokens \subseteq Tokens
    BY <1>1 DEF Init, Tokens, Registered, Roles
<1>6. role \in [Users -> Roles \cup {"none"}] 
    BY DEF Init, Roles
<1>7. local \in [Procs -> [Users -> {Nothing} \cup
                   [at : NoStamp..MaxTime, until : 0..(MaxTime + RecordTTL)]]]
    BY DEF Init
<1>8. task \in [Tasks -> GoodTasks]
    BY IdleIsGood DEF Init
<1> QED
    BY <1>2, <1>3, <1>4, <1>5, <1>6, <1>7, <1>8, <1>9, TypeParts DEF OthersOK

LEMMA TypePartsNext ==
    ASSUME OthersOK', task' \in [Tasks -> GoodTasks]
    PROVE  TypeInv'
<1>1. GoodTasks \subseteq TaskRecords
    BY DEF GoodTasks
<1> QED
    BY <1>1 DEF TypeInv, TypeOK, OthersOK, TaskRecords

LEMMA LoginTypes ==
    ASSUME TypeInv, NEW t \in Tasks, Login(t)
    PROVE  TypeInv'
<1> USE DEF OthersOK
<1>1. OthersOK
    BY TypeParts
<1>2. ASSUME NEW u \in Users, Attempt(t, u) PROVE TypeInv'
    <2>1. task' \in [Tasks -> GoodTasks]
        BY <1>2, AttemptMoves DEF Moves
    <2>3. OthersOK'
        BY <1>1, <1>2 DEF Attempt, shared, ghosts
    <2> QED
        BY <2>1, <2>3, TypePartsNext
<1>11. CASE RecordAttempt(t)
    <2>1. task' \in [Tasks -> GoodTasks] /\ task[t].at \in 0..MaxTime
        BY <1>11, RecordAttemptMoves DEF Moves
    <2>2. window' \in [start : 0..MaxTime, count : 0..(MaxAttempts + 1)] /\ opened' \in 0..MaxTime
        BY <1>1, <1>11, <2>1, RecordedIsWindow DEF RecordAttempt
    <2>3. OthersOK'
        BY <1>1, <1>11, <2>2 DEF RecordAttempt
    <2> QED
        BY <2>1, <2>3, TypePartsNext
<1>3. ASSUME NEW u \in Users, Register(t, u) PROVE TypeInv'
    <2>1. task' \in [Tasks -> GoodTasks]
        BY <1>3, RegisterMoves DEF Moves
    <2>2. OthersOK'
        BY <1>1, <1>3 DEF Register, shared, ghosts
    <2> QED
        BY <2>1, <2>2, TypePartsNext
<1>4. CASE CreateUser(t)
    <2>1. task' \in [Tasks -> GoodTasks]
        BY <1>4, EndMoves DEF Moves
    <2>2. task[t].user \in Users
        BY <1>4 DEF CreateUser, TypeInv, GoodTasks, WithUser
    <2>3. role' \in [Users -> Roles \cup {"none"}]
        BY <1>1, <1>4, <2>2 DEF CreateUser, Created, Roles
    <2>4. OthersOK'
        BY <1>1, <1>4, <2>3 DEF CreateUser, ghosts
    <2> QED
        BY <2>1, <2>4, TypePartsNext
<1>5. CASE LookUp(t)
    <2>1. task' \in [Tasks -> GoodTasks]
        BY <1>5, LookUpMoves DEF Moves
    <2>2. OthersOK'
        BY <1>1, <1>5 DEF LookUp, shared, ghosts
    <2> QED
        BY <2>1, <2>2, TypePartsNext
<1>6. CASE Issue(t)
    <2>1. task' \in [Tasks -> GoodTasks]
        BY <1>6, IssueMoves DEF Moves
    <2>2. events' \in 0..MaxEvents
        BY <1>1, <1>6, TokenAuthAssumption DEF Issue, Counted
    <2>3. OthersOK'
        BY <1>1, <1>6, <2>2 DEF Issue, shared, ghosts
    <2> QED
        BY <2>1, <2>3, TypePartsNext
<1>7. CASE ResetAttempts(t)
    <2>1. task' \in [Tasks -> GoodTasks]
        BY <1>7, EndMoves DEF Moves
    <2>2. task[t].token \in Tokens
        BY <1>7 DEF ResetAttempts, TypeInv, GoodTasks, WithToken
    <2>3. NoWindow \in [start : 0..MaxTime, count : 0..(MaxAttempts + 1)] /\ 0 \in 0..MaxTime
        BY TokenAuthAssumption DEF NoWindow
    <2>4. OthersOK'
        BY <1>1, <1>7, <2>2, <2>3 DEF ResetAttempts
    <2> QED
        BY <2>1, <2>4, TypePartsNext
<1>8. CASE LoginFails(t)
    <2>1. task' \in [Tasks -> GoodTasks]
        BY <1>8, EndMoves DEF Moves
    <2>2. OthersOK'
        BY <1>1, <1>8 DEF LoginFails, shared, ghosts
    <2> QED
        BY <2>1, <2>2, TypePartsNext
<1> QED
    BY <1>2, <1>3, <1>4, <1>5, <1>6, <1>7, <1>8, <1>11 DEF Login

LEMMA RequestTypes ==
    ASSUME TypeInv, NEW t \in Tasks, Request(t)
    PROVE  TypeInv'
<1> USE DEF OthersOK
<1>1. OthersOK /\ ProcOf[t] \in Procs
    BY TypeParts, TokenAuthAssumption
<1>2. ASSUME NEW token \in tokens, ShowToken(t, token) PROVE TypeInv'
    <2>1. task' \in [Tasks -> GoodTasks]
        BY <1>2, ShowTokenMoves DEF Moves
    <2>2. CASE UNCHANGED local
        <3>1. OthersOK'
            BY <1>1, <1>2, <2>2 DEF ShowToken, shared, ghosts
        <3> QED
            BY <2>1, <3>1, TypePartsNext
    <2>3. CASE local' = [local EXCEPT ![ProcOf[t]][token.user] = Nothing]
        <3>1. local' \in [Procs -> [Users -> {Nothing} \cup
                   [at : NoStamp..MaxTime, until : 0..(MaxTime + RecordTTL)]]]
            BY <1>1, <2>3
        <3>2. OthersOK'
            BY <1>1, <1>2, <3>1 DEF ShowToken, shared, ghosts
        <3> QED
            BY <2>1, <3>2, TypePartsNext
    <2> QED
        BY <1>2, <2>2, <2>3 DEF ShowToken
<1>3. CASE ReadRecord(t)
    <2>1. task' \in [Tasks -> GoodTasks]
        BY <1>3, ReadRecordMoves DEF Moves
    <2>2. OthersOK'
        BY <1>1, <1>3 DEF ReadRecord, shared, ghosts
    <2> QED
        BY <2>1, <2>2, TypePartsNext
<1>4. CASE UseRecord(t)
    <2>1. task' \in [Tasks -> GoodTasks] /\ task[t].user \in Users /\ task[t].at \in NoStamp..MaxTime
        BY <1>4, UseRecordMoves DEF Moves
    <2>2. local' = [local EXCEPT ![ProcOf[t]][task[t].user] = Copy(task[t].at)]
        BY <1>4 DEF UseRecord
    <2>3. local' \in [Procs -> [Users -> {Nothing} \cup
                   [at : NoStamp..MaxTime, until : 0..(MaxTime + RecordTTL)]]]
        BY <1>1, <2>1, <2>2, CopyIsCopy
    <2>4. OthersOK'
        BY <1>1, <1>4, <2>1, <2>3 DEF UseRecord, shared
    <2> QED
        BY <2>1, <2>4, TypePartsNext
<1>5. CASE RequestFails(t)
    <2>1. task' \in [Tasks -> GoodTasks]
        BY <1>5, EndMoves DEF Moves
    <2>2. OthersOK'
        BY <1>1, <1>5 DEF RequestFails, shared, ghosts
    <2> QED
        BY <2>1, <2>2, TypePartsNext
<1> QED
    BY <1>2, <1>3, <1>4, <1>5 DEF Request

LEMMA ChangeTypes ==
    ASSUME TypeInv, NEW t \in Tasks, RoleChange(t)
    PROVE  TypeInv'
<1> USE DEF OthersOK
<1>1. OthersOK /\ ProcOf[t] \in Procs
    BY TypeParts, TokenAuthAssumption
<1>2. task[t].pc \in WithUser => task[t].user \in Users
    BY DEF TypeInv, GoodTasks
<1>3. task[t].at \in NoStamp..MaxTime
    BY DEF TypeInv, GoodTasks, TaskRecords
<1>4. ASSUME NEW u \in Users, NEW r \in Roles, ReadTarget(t, u, r) PROVE TypeInv'
    <2>1. task' \in [Tasks -> GoodTasks]
        BY <1>4, ReadTargetMoves DEF Moves
    <2>2. events' \in 0..MaxEvents
        BY <1>1, <1>4, TokenAuthAssumption DEF ReadTarget, Counted
    <2>3. OthersOK'
        BY <1>1, <1>4, <2>2 DEF ReadTarget, shared, ghosts
    <2> QED
        BY <2>1, <2>3, TypePartsNext
<1>5. CASE ListAdmins(t)
    <2>1. task' \in [Tasks -> GoodTasks]
        BY <1>5, ListAdminsMoves DEF Moves
    <2>2. OthersOK'
        BY <1>1, <1>5 DEF ListAdmins, shared, ghosts
    <2> QED
        BY <2>1, <2>2, TypePartsNext
<1>6. CASE ChangeRole(t)
    <2>1. task' \in [Tasks -> GoodTasks]
        BY <1>6, ChangeMoves DEF ChangeRole, Moves
    <2>2. task[t].user \in Users /\ task[t].held \in Roles
        BY <1>6 DEF ChangeRole, TypeInv, GoodTasks, WithUser, WithRole
    <2>3. raced' \in BOOLEAN
        BY <1>6 DEF ChangeRole
    <2>4. excused' \subseteq Users
        BY <1>1, <1>6, <2>2 DEF ChangeRole
    <2>5. role' \in [Users -> Roles \cup {"none"}]
        BY <1>1, <1>6, <2>2 DEF ChangeRole
    <2>6. OthersOK'
        BY <1>1, <1>6, <2>3, <2>4, <2>5 DEF ChangeRole
    <2> QED
        BY <2>1, <2>6, TypePartsNext
<1>7. CASE Stamp(t)
    <2>1. task' \in [Tasks -> GoodTasks]
        BY <1>7, StampMoves DEF Moves
    <2>2. OthersOK'
        BY <1>1, <1>7 DEF Stamp, shared, ghosts
    <2> QED
        BY <2>1, <2>2, TypePartsNext
<1>8. CASE StoreRecord(t)
    <2>1. task' \in [Tasks -> GoodTasks]
        BY <1>8, ChangeMoves DEF StoreRecord, Moves
    <2>2. record' \in [Users -> NoStamp..MaxTime] /\ storedAt' \in [Users -> 0..MaxTime]
        BY <1>1, <1>3, <1>8 DEF StoreRecord
    <2>3. OthersOK'
        BY <1>1, <1>8, <2>2 DEF StoreRecord
    <2> QED
        BY <2>1, <2>3, TypePartsNext
<1>9. CASE StoreLocal(t)
    <2>1. task' \in [Tasks -> GoodTasks]
        BY <1>9, EndMoves DEF Moves
    <2>2. task[t].user \in Users
        BY <1>2, <1>9 DEF StoreLocal, WithUser
    <2>3. local' = [local EXCEPT ![ProcOf[t]][task[t].user] = Copy(task[t].at)]
        BY <1>9 DEF StoreLocal
    <2>4. local' \in [Procs -> [Users -> {Nothing} \cup
                   [at : NoStamp..MaxTime, until : 0..(MaxTime + RecordTTL)]]]
        BY <1>1, <1>3, <2>2, <2>3, CopyIsCopy
    <2>5. OthersOK'
        BY <1>1, <1>9, <2>2, <2>4 DEF StoreLocal, shared
    <2> QED
        BY <2>1, <2>5, TypePartsNext
<1>10. CASE ChangeFails(t)
    <2>1. task' \in [Tasks -> GoodTasks]
        BY <1>10, EndMoves DEF Moves
    <2>2. task[t].user \in Users
        BY <1>2, <1>10 DEF ChangeFails, WithUser
    <2>3. OthersOK'
        BY <1>1, <1>10, <2>2 DEF ChangeFails, shared
    <2> QED
        BY <2>1, <2>3, TypePartsNext
<1> QED
    BY <1>4, <1>5, <1>6, <1>7, <1>8, <1>9, <1>10 DEF RoleChange

LEMMA TypeStep == TypeInv /\ [Next]_vars => TypeInv'
<1> SUFFICES ASSUME TypeInv, [Next]_vars PROVE TypeInv'
    OBVIOUS
<1>1. OthersOK /\ task \in [Tasks -> GoodTasks]
    BY TypeParts
<1>2. CASE Tick
    <2>1. now' \in 0..MaxTime
        BY <1>1, <1>2, TokenAuthAssumption DEF Tick, OthersOK
    <2>2. 0 \in 0..MaxTime
        BY TokenAuthAssumption
    <2>4. storedAt' \in [Users -> 0..MaxTime]
        BY <1>1, <1>2, <2>2 DEF Tick, OthersOK
    <2>5. local' \in [Procs -> [Users -> {Nothing} \cup
                   [at : NoStamp..MaxTime, until : 0..(MaxTime + RecordTTL)]]]
        BY <1>1, <1>2 DEF Tick, OthersOK
    <2>6. OthersOK' /\ task' = task
        BY <1>1, <1>2, <2>1, <2>4, <2>5 DEF Tick, OthersOK, shared
    <2> QED
        BY <1>1, <2>6, TypePartsNext
<1>3. CASE UNCHANGED vars
    BY <1>1, <1>3, TypePartsNext DEF OthersOK, vars, shared, ghosts
<1> QED
    BY <1>2, <1>3, LoginTypes, RequestTypes, ChangeTypes DEF Next

(* The variables keep their types. *)
THEOREM TokenAuthTypeCorrect == Spec => []TypeOK
<1>1. TypeInv => TypeOK
    BY DEF TypeInv
<1> QED
    BY TypeInit, TypeStep, <1>1, PTL DEF Spec

-----------------------------------------------------------------------------
(* The last admin *)

LEMMA AdminInit == Init => AdminInv
<1> SUFFICES ASSUME Init PROVE AdminInv
    OBVIOUS
<1>1. \E u \in Users : role[u] = "admin"
    BY DEF Init, Registered
<1>2. \A t \in Tasks : ~Demoting(t)
    BY DEF Init, Demoting, Idle
<1> QED
    BY <1>1, <1>2 DEF AdminInv

(* No admin is lost, and whoever comes to demote has seen another one. *)
LEMMA AdminKept ==
    ASSUME TypeInv, AdminInv, NEW t \in Tasks, NEW pcs, Moves(t, pcs),
           raced' = raced,
           \A u \in Users : role[u] = "admin" => role'[u] = "admin",
           task'[t].pc = "listed" /\ task'[t].held # "admin" =>
               \E x \in Users : x # task'[t].user /\ role[x] = "admin"
    PROVE  AdminInv'
<1> SUFFICES ASSUME ~raced PROVE AdminInv'
    BY DEF AdminInv
<1>1. \E u \in Users : role'[u] = "admin"
    BY DEF AdminInv
<1>2. ASSUME NEW x \in Tasks, task'[x].pc = "listed", task'[x].held # "admin"
      PROVE  \E y \in Users : y # task'[x].user /\ role'[y] = "admin"
    <2>1. CASE x = t
        BY <1>2, <2>1
    <2>2. CASE x # t
        <3>1. task'[x] = task[x] /\ Demoting(x)
            BY <1>2, <2>2 DEF Moves, Demoting
        <3> QED
            BY <3>1 DEF AdminInv, OtherAdmins
    <2> QED
        BY <2>1, <2>2
<1> QED
    BY <1>1, <1>2 DEF AdminInv, Demoting, OtherAdmins

LEMMA AdminStep == TypeInv /\ AdminInv /\ [Next]_vars => AdminInv'
<1> SUFFICES ASSUME TypeInv, AdminInv, [Next]_vars PROVE AdminInv'
    OBVIOUS
<1>1. CASE Tick \/ UNCHANGED vars
    BY <1>1 DEF Tick, vars, shared, ghosts, AdminInv, Demoting, OtherAdmins
<1>2. ASSUME NEW t \in Tasks, Login(t) PROVE AdminInv'
    <2>1. raced' = raced
        BY <1>2 DEF Login, Attempt, RecordAttempt, Register, CreateUser, LookUp, Issue, ResetAttempts, LoginFails, ghosts
    <2>2. \A u \in Users : role[u] = "admin" => role'[u] = "admin"
        <3>1. CASE CreateUser(t)
            BY <3>1 DEF CreateUser, Created, Registered, TypeInv, TypeOK
        <3>2. CASE ~CreateUser(t)
            BY <1>2, <3>2 DEF Login, Attempt, RecordAttempt, Register, LookUp, Issue, ResetAttempts, LoginFails, shared
        <3> QED
            BY <3>1, <3>2
    <2>3. Moves(t, PCs \ {"listed"})
        <3>1. \A u \in Users : Attempt(t, u) \/ Register(t, u) => Moves(t, PCs \ {"listed"})
            BY AttemptMoves, RegisterMoves DEF Moves, PCs
        <3>4. RecordAttempt(t) => Moves(t, PCs \ {"listed"})
            BY RecordAttemptMoves DEF Moves, PCs
        <3>2. CreateUser(t) \/ ResetAttempts(t) \/ LoginFails(t) => Moves(t, PCs \ {"listed"})
            BY EndMoves DEF Moves, PCs
        <3>3. LookUp(t) \/ Issue(t) => Moves(t, PCs \ {"listed"})
            BY LookUpMoves, IssueMoves DEF Moves, PCs
        <3> QED
            BY <1>2, <3>1, <3>2, <3>3, <3>4 DEF Login
    <2>4. task'[t].pc # "listed"
        BY <2>3 DEF Moves
    <2> QED
        BY <2>1, <2>2, <2>3, <2>4, AdminKept
<1>3. ASSUME NEW t \in Tasks, Request(t) PROVE AdminInv'
    <2>1. raced' = raced /\ role' = role
        BY <1>3 DEF Request, ShowToken, ReadRecord, UseRecord, RequestFails, shared, ghosts
    <2>2. Moves(t, PCs \ {"listed"})
        <3>1. \A token \in tokens : ShowToken(t, token) => Moves(t, PCs \ {"listed"})
            BY ShowTokenMoves DEF Moves, PCs
        <3>2. ReadRecord(t) \/ UseRecord(t) \/ RequestFails(t) => Moves(t, PCs \ {"listed"})
            BY ReadRecordMoves, UseRecordMoves, EndMoves DEF Moves, PCs
        <3> QED
            BY <1>3, <3>1, <3>2 DEF Request
    <2>3. task'[t].pc # "listed"
        BY <2>2 DEF Moves
    <2> QED
        BY <2>1, <2>2, <2>3, AdminKept
<1>4. ASSUME NEW t \in Tasks, NEW u \in Users, NEW r \in Roles, ReadTarget(t, u, r) PROVE AdminInv'
    <2>1. raced' = raced /\ role' = role
        BY <1>4 DEF ReadTarget, shared, ghosts
    <2>2. /\ Moves(t, {"target_read", "listed"}) /\ task'[t].user = u /\ task'[t].held = r
          /\ task'[t].pc = "listed" => role[u] # "admin" \/ r = "admin"
        BY <1>4, ReadTargetMoves
    <2>3. CASE ~raced
        <3>1. PICK x \in Users : role[x] = "admin"
            BY <2>3 DEF AdminInv
        <3>2. task'[t].pc = "listed" /\ task'[t].held # "admin" =>
                  \E y \in Users : y # task'[t].user /\ role[y] = "admin"
            BY <2>2, <3>1
        <3> QED
            BY <2>1, <2>2, <3>2, AdminKept
    <2>4. CASE raced
        BY <2>1, <2>4 DEF AdminInv
    <2> QED
        BY <2>3, <2>4
<1>5. ASSUME NEW t \in Tasks, ListAdmins(t) PROVE AdminInv'
    <2>1. raced' = raced /\ role' = role
        BY <1>5 DEF ListAdmins, shared, ghosts
    <2>2. /\ Moves(t, {"idle", "listed"})
          /\ task'[t].pc = "listed" =>
                 task'[t].user = task[t].user /\ OtherAdmins(task[t].user) # {}
        BY <1>5, ListAdminsMoves
    <2>3. task'[t].pc = "listed" => \E x \in Users : x # task'[t].user /\ role[x] = "admin"
        BY <2>2 DEF OtherAdmins
    <2> QED
        BY <2>1, <2>2, <2>3, AdminKept
(* Whoever demotes alone leaves the admin that he saw, and the others that *)
(* wait to write do not demote.                                            *)
<1>6. ASSUME NEW t \in Tasks, ChangeRole(t) PROVE AdminInv'
    <2> DEFINE u == task[t].user
    <2> SUFFICES ASSUME ~raced' PROVE AdminInv'
        BY DEF AdminInv
    <2>1. /\ task[t].pc = "listed" /\ role' = [role EXCEPT ![u] = task[t].held]
          /\ ~raced /\ \A x \in Tasks \ {t} : ~(Demoting(x) /\ Demoting(t))
        BY <1>6 DEF ChangeRole
    <2>2. u \in Users /\ task[t].held \in Roles
        BY <2>1 DEF TypeInv, GoodTasks, WithUser, WithRole
    <2>3. Moves(t, {"changed"})
        BY <1>6, <2>1, ChangeMoves DEF ChangeRole
    <2>4. role'[u] = task[t].held /\ \A x \in Users \ {u} : role'[x] = role[x]
        BY <2>1, <2>2 DEF TypeInv, TypeOK
    <2>5. task'[t].pc = "changed" /\ \A x \in Tasks \ {t} : task'[x] = task[x]
        BY <2>3 DEF Moves
    <2>6. CASE Demoting(t)
        <3>1. \A x \in Tasks : ~(task'[x].pc = "listed" /\ task'[x].held # "admin")
            BY <2>1, <2>5, <2>6 DEF Demoting
        <3>2. PICK x \in Users : x # u /\ role[x] = "admin"
            BY <2>1, <2>6 DEF AdminInv, OtherAdmins
        <3>3. role'[x] = "admin"
            BY <2>4, <3>2
        <3> QED
            BY <3>1, <3>3 DEF AdminInv, Demoting
    <2>7. CASE ~Demoting(t)
        <3>1. role'[u] = "admin"
            BY <2>1, <2>4, <2>7 DEF Demoting
        <3>2. \A x \in Users : role[x] = "admin" => role'[x] = "admin"
            BY <2>4, <3>1
        <3>3. ASSUME NEW x \in Tasks, task'[x].pc = "listed", task'[x].held # "admin"
              PROVE  \E y \in Users : y # task'[x].user /\ role'[y] = "admin"
            <4>1. x # t /\ task'[x] = task[x]
                BY <2>5, <3>3
            <4>2. \E y \in Users : y # task[x].user /\ role[y] = "admin"
                BY <2>1, <3>3, <4>1 DEF AdminInv, Demoting, OtherAdmins
            <4> QED
                BY <3>2, <4>1, <4>2
        <3> QED
            BY <2>2, <3>1, <3>3 DEF AdminInv, Demoting, OtherAdmins
    <2> QED
        BY <2>6, <2>7
<1>7. ASSUME NEW t \in Tasks, Stamp(t) \/ StoreRecord(t) \/ StoreLocal(t) \/ ChangeFails(t)
      PROVE  AdminInv'
    <2>1. raced' = raced /\ role' = role
        BY <1>7 DEF Stamp, StoreRecord, StoreLocal, ChangeFails, shared, ghosts
    <2>2. Moves(t, {"idle", "stamped", "stored"})
        <3>1. Stamp(t) => Moves(t, {"idle", "stamped", "stored"})
            BY StampMoves DEF Moves
        <3>2. StoreRecord(t) => Moves(t, {"idle", "stamped", "stored"})
            BY ChangeMoves DEF StoreRecord, Moves
        <3>3. StoreLocal(t) \/ ChangeFails(t) => Moves(t, {"idle", "stamped", "stored"})
            BY EndMoves DEF Moves
        <3> QED
            BY <1>7, <3>1, <3>2, <3>3
    <2>3. task'[t].pc # "listed"
        BY <2>2 DEF Moves
    <2> QED
        BY <2>1, <2>2, <2>3, AdminKept
<1> QED
    BY <1>1, <1>2, <1>3, <1>4, <1>5, <1>6, <1>7 DEF Next, RoleChange

(* LastAdminError does what it is for: an admin is left, unless two        *)
(* demotions overlapped between their list of admins and their write.      *)
THEOREM AnAdminIsLeft == Spec => []AdminRemains
<1>1. AdminInv => AdminRemains
    BY DEF AdminInv, AdminRemains
<1> QED
    BY TypeInit, TypeStep, AdminInit, AdminStep, <1>1, PTL DEF Spec

-----------------------------------------------------------------------------
(* The window *)

LEMMA WindowInit == Init => WindowInv
BY DEF Init, WindowInv, NoWindow

LEMMA WindowStep == TypeInv /\ WindowInv /\ [Next]_vars => WindowInv'
<1> SUFFICES ASSUME TypeInv, WindowInv, [Next]_vars PROVE WindowInv'
    OBVIOUS
<1>2. ASSUME NEW t \in Tasks, RecordAttempt(t) PROVE WindowInv'
    <2> DEFINE at == task[t].at
    <2>1. at \in 0..MaxTime
        BY <1>2, RecordAttemptMoves
    <2>2. window' = Recorded(at) /\ opened' = IF Recorded(at).count = 1 THEN at ELSE opened
        BY <1>2 DEF RecordAttempt
    <2>3. CASE WindowOver(at)
        BY <2>1, <2>2, <2>3, RecordedIsWindow DEF WindowInv
    <2>4. CASE ~WindowOver(at)
        BY <2>1, <2>2, <2>4, RecordedIsWindow DEF WindowInv, WindowOver
    <2> QED
        BY <2>3, <2>4
<1>3. ASSUME NEW t \in Tasks, ResetAttempts(t) PROVE WindowInv'
    BY <1>3 DEF ResetAttempts, WindowInv, NoWindow
<1>4. CASE UNCHANGED <<window, opened>>
    BY <1>4 DEF WindowInv
<1>5. (\E t \in Tasks : ResetAttempts(t) \/ RecordAttempt(t)) \/ UNCHANGED <<window, opened>>
    BY ZenonT(60)
    DEF Next, Tick, Login, Request, RoleChange, Attempt, Register, CreateUser, LookUp, Issue, LoginFails,
           ShowToken, ReadRecord, UseRecord, RequestFails, ReadTarget, ListAdmins, ChangeRole,
           Stamp, StoreRecord, StoreLocal, ChangeFails, vars, shared, ghosts
<1> QED
    BY <1>2, <1>3, <1>4, <1>5

(* Refused attempts do not prolong a lockout. *)
THEOREM LockoutsEnd == Spec => []LockoutEnds
<1>1. TypeInv /\ WindowInv => LockoutEnds
    <2> SUFFICES ASSUME TypeInv, WindowInv, NEW t \in Tasks, task[t].pc = "counting",
                        task[t].at >= opened + Window
                 PROVE  Allowed(Recorded(task[t].at))
        BY DEF LockoutEnds
    <2>1. task[t].at \in 0..MaxTime /\ opened \in Nat /\ Window \in Nat /\ MaxAttempts \in Nat \ {0}
        BY TokenAuthAssumption DEF TypeInv, TypeOK, GoodTasks
    <2>2. WindowOver(task[t].at)
        BY <2>1 DEF WindowInv, WindowOver
    <2>3. Recorded(task[t].at).count = 1
        BY <2>1, <2>2, RecordedIsWindow
    <2> QED
        BY <2>1, <2>3 DEF Allowed
<1> QED
    BY TypeInit, TypeStep, WindowInit, WindowStep, <1>1, PTL DEF Spec

-----------------------------------------------------------------------------
(* Revocations *)

LEMMA RevocationInit == Init => RevocationInv
<1> SUFFICES ASSUME Init PROVE RevocationInv
    OBVIOUS
<1>1. PICK u \in Registered : tokens = {[user |-> u, role |-> "admin", iat |-> 0, stale |-> FALSE]}
    BY DEF Init
<1>2. \A t \in Tasks : task[t].pc = "idle"
    BY DEF Init, Idle
<1>3. now = 0 /\ role[u] = "admin" /\ \A p \in Procs, x \in Users : local[p][x] = Nothing
    BY <1>1 DEF Init, Registered
<1>4. \A token \in Tokens : Handed(token) =>
          token.user = u /\ token.role = "admin" /\ token.iat = 0
    BY <1>1, <1>2 DEF Handed
<1>5. TokensInv
    BY <1>1, <1>2, <1>3, <1>4 DEF TokensInv
<1>6. ChangesInv
    BY <1>2, <1>3, <1>4 DEF ChangesInv, Changing
<1>7. CopiesInv
    BY <1>3 DEF CopiesInv
<1> QED
    BY <1>5, <1>6, <1>7 DEF RevocationInv

(* Where t neither comes to an answer nor leaves with one, the tokens that *)
(* were handed out stay the same.                                          *)
LEMMA HandedSame ==
    ASSUME NEW t \in Tasks, NEW pcs, Moves(t, pcs), tokens' = tokens, task'[t].pc # "issued",
           NEW token, Handed(token)'
    PROVE  Handed(token)
<1>1. ASSUME NEW x \in Tasks, task'[x].pc = "issued", task'[x].token = token PROVE Handed(token)
    <2>1. x # t /\ task'[x] = task[x]
        BY <1>1 DEF Moves
    <2> QED
        BY <1>1, <2>1 DEF Handed
<1> QED
    BY <1>1 DEF Handed

LEMMA TokensKept ==
    ASSUME TokensInv, TypeInv, NEW t \in Tasks, NEW pcs, Moves(t, pcs), now' = now,
           \A u \in Registered : role'[u] # "none",
           \A token \in Tokens : Handed(token)' =>
               Handed(token) \/ (token.user \in Registered /\ token.iat <= now),
           task'[t].pc = "looked_up" => task'[t].user \in Registered
    PROVE  TokensInv'
<1>1. \A u \in Registered : u \in Registered'
    BY DEF Registered
<1>2. ASSUME NEW token \in Tokens, Handed(token)'
      PROVE  token.user \in Registered' /\ token.iat <= now'
    BY <1>1, <1>2 DEF TokensInv
<1>3. ASSUME NEW x \in Tasks, task'[x].pc = "looked_up" PROVE task'[x].user \in Registered'
    BY <1>1, <1>3 DEF Moves, TokensInv
<1> QED
    BY <1>2, <1>3 DEF TokensInv

(* Steps that begin, take further or end no role change. *)
LEMMA ChangingSame ==
    ASSUME NEW t \in Tasks, NEW pcs, Moves(t, pcs),
           task[t].pc \notin ChangingPCs, task'[t].pc \notin ChangingPCs, NEW u
    PROVE  Changing(u)' = Changing(u) /\ \A c \in Changing(u) : task'[c] = task[c]
BY DEF Moves, Changing, ChangingPCs

LEMMA ChangesKept ==
    ASSUME ChangesInv, NEW t \in Tasks, NEW pcs, Moves(t, pcs),
           task[t].pc \notin ChangingPCs, task'[t].pc \notin ChangingPCs,
           role' = role, record' = record, excused \subseteq excused',
           \A token \in Tokens : Handed(token)' =>
               Handed(token) \/ token.stale \/ token.role = role[token.user]
    PROVE  ChangesInv'
<1> SUFFICES ASSUME NEW u \in Users \ excused'
             PROVE  /\ \A c, d \in Changing(u)' : c = d
                    /\ \A token \in Tokens :
                          Handed(token)' /\ token.user = u /\ token.role # role'[u] /\ ~token.stale
                              => Covered(u, token)'
    BY DEF ChangesInv
<1>1. Changing(u)' = Changing(u) /\ \A c \in Changing(u) : task'[c] = task[c]
    BY ChangingSame
<1>2. u \in Users \ excused
    OBVIOUS
<1>3. \A c, d \in Changing(u)' : c = d
    BY <1>1, <1>2 DEF ChangesInv
<1>4. ASSUME NEW token \in Tokens, Handed(token)', token.user = u, token.role # role'[u], ~token.stale
      PROVE  Covered(u, token)'
    <2>1. Covered(u, token)
        BY <1>2, <1>4 DEF ChangesInv
    <2> QED
        BY <1>1, <2>1 DEF Covered
<1> QED
    BY <1>3, <1>4

(* A role change of u by t that goes on, or ends with the record stored:   *)
(* the others, and the tokens, stay.                                       *)
LEMMA ChangeGoesOn ==
    ASSUME TypeInv, ChangesInv, NEW t \in Tasks, NEW pcs, Moves(t, pcs),
           NEW u \in Users, u = task[t].user, task[t].pc \in ChangingPCs,
           task'[t].pc \in ChangingPCs => task'[t].user = u,
           tokens' = tokens, role' = role, excused \subseteq excused',
           task'[t].pc # "issued",
           \A v \in Users \ {u} : record'[v] = record[v],
           u \notin excused' => \A token \in Tokens :
               /\ Handed(token) /\ token.user = u
               /\ task[t].pc = "stamped" => token.iat <= task[t].at
               /\ task[t].pc = "stored" => token.iat <= record[u]
               => /\ task'[t].pc = "stamped" => token.iat <= task'[t].at
                  /\ task'[t].pc = "stored" => token.iat <= record'[u]
                  /\ task'[t].pc \notin ChangingPCs => token.iat <= record'[u]
    PROVE  ChangesInv'
<1> SUFFICES ASSUME NEW v \in Users \ excused'
             PROVE  /\ \A c, d \in Changing(v)' : c = d
                    /\ \A token \in Tokens :
                          Handed(token)' /\ token.user = v /\ token.role # role'[v] /\ ~token.stale
                              => Covered(v, token)'
    BY DEF ChangesInv
<1>0. v \in Users \ excused
    OBVIOUS
<1>1. \A x \in Tasks \ {t} : task'[x] = task[x]
    BY DEF Moves
<1>2. \A token : Handed(token)' => Handed(token)
    BY HandedSame
<1>3. CASE v # u
    <2>1. Changing(v)' = Changing(v) /\ \A c \in Changing(v) : task'[c] = task[c]
        BY <1>1, <1>3 DEF Changing, ChangingPCs
    <2>2. ASSUME NEW token \in Tokens, Handed(token)', token.user = v, token.role # role'[v],
                 ~token.stale
          PROVE  Covered(v, token)'
        <3>1. Covered(v, token)
            BY <1>0, <1>2, <2>2 DEF ChangesInv
        <3> QED
            BY <1>3, <2>1, <3>1 DEF Covered
    <2> QED
        BY <1>0, <2>1, <2>2 DEF ChangesInv
<1>4. CASE v = u
    <2>1. Changing(u) = {t}
        <3>1. t \in Changing(u)
            BY DEF Changing, ChangingPCs
        <3> QED
            BY <1>0, <1>4, <3>1 DEF ChangesInv
    <2>2. Changing(u)' \subseteq {t}
        BY <1>1, <2>1 DEF Changing
    <2>3. Changing(u)' = {} => task'[t].pc \notin ChangingPCs
        BY DEF Changing, ChangingPCs
    <2>4. ASSUME NEW token \in Tokens, Handed(token)', token.user = u, token.role # role'[u],
                 ~token.stale
          PROVE  Covered(u, token)'
        <3>1. Handed(token) /\ Covered(u, token)
            BY <1>0, <1>2, <1>4, <2>4 DEF ChangesInv
        <3>2. /\ task[t].pc = "stamped" => token.iat <= task[t].at
              /\ task[t].pc = "stored" => token.iat <= record[u]
            BY <2>1, <3>1 DEF Covered
        <3>3. /\ task'[t].pc = "stamped" => token.iat <= task'[t].at
              /\ task'[t].pc = "stored" => token.iat <= record'[u]
              /\ task'[t].pc \notin ChangingPCs => token.iat <= record'[u]
            BY <1>4, <2>4, <3>1, <3>2
        <3> QED
            BY <2>2, <2>3, <3>3 DEF Covered
    <2> QED
        BY <1>4, <2>2, <2>4
<1> QED
    BY <1>3, <1>4

(* A copy that is made is one of the record there is, or of a user who is  *)
(* excused.                                                                *)
LEMMA CopiesKept ==
    ASSUME CopiesInv, now' = now, excused \subseteq excused', record' = record, storedAt' = storedAt,
           \A p \in Procs, v \in Users :
               \/ local'[p][v] \in {Nothing, local[p][v]}
               \/ /\ local'[p][v].until <= now + RecordTTL
                  /\ v \in excused' \/ local'[p][v].at = record[v]
    PROVE  CopiesInv'
BY DEF CopiesInv

LEMMA CopyMade ==
    ASSUME TypeInv, NEW p \in Procs, NEW u \in Users, NEW at \in NoStamp..MaxTime,
           local' = [local EXCEPT ![p][u] = Copy(at)],
           excused' = IF at # record[u] THEN excused \cup {u} ELSE excused
    PROVE  /\ excused \subseteq excused'
           /\ \A q \in Procs, v \in Users :
               \/ local'[q][v] \in {Nothing, local[q][v]}
               \/ /\ local'[q][v].until <= now + RecordTTL
                  /\ v \in excused' \/ local'[q][v].at = record[v]
<1>1. Copy(at).at = at /\ Copy(at).until = now + RecordTTL /\ now + RecordTTL \in Nat
    BY CopyIsCopy, TokenAuthAssumption DEF TypeInv, TypeOK
<1>2. u \in excused' \/ at = record[u]
    OBVIOUS
<1>3. ASSUME NEW q \in Procs, NEW v \in Users
      PROVE  local'[q][v] = IF q = p /\ v = u THEN Copy(at) ELSE local[q][v]
    BY DEF TypeInv, TypeOK
<1> QED
    BY <1>1, <1>2, <1>3

LEMMA LoginRevocation ==
    ASSUME TypeInv, RevocationInv, NEW t \in Tasks, Login(t)
    PROVE  RevocationInv'
<1> USE DEF RevocationInv
<1>1. CopiesInv'
    <2>1. UNCHANGED <<now, excused, record, storedAt, local>>
        BY DEF Login, Attempt, RecordAttempt, Register, CreateUser, LookUp, Issue, ResetAttempts, LoginFails, shared, ghosts
    <2> QED
        BY <2>1, CopiesKept
<1>2. ASSUME \/ LoginFails(t)
             \/ \E u \in Users : Attempt(t, u) \/ Register(t, u)
             \/ RecordAttempt(t)
      PROVE  TokensInv' /\ ChangesInv'
    <2>1. Moves(t, {"idle", "counting", "counted", "registering"})
        BY <1>2, EndMoves, AttemptMoves, RecordAttemptMoves, RegisterMoves DEF Moves
    <2>2. /\ UNCHANGED <<now, role, record, tokens, excused>>
          /\ task[t].pc \notin ChangingPCs
        BY <1>2 DEF LoginFails, Attempt, RecordAttempt, Register, Free, ChangingPCs, shared, ghosts
    <2>3. task'[t].pc \in {"idle", "counting", "counted", "registering"}
        BY <2>1 DEF Moves
    <2>4. \A token : Handed(token)' => Handed(token)
        BY <2>1, <2>2, <2>3, HandedSame
    <2>20. \A v \in Registered : role'[v] # "none"
        BY <2>2, <2>3 DEF Registered
    <2>5. TokensInv'
        BY <2>1, <2>2, <2>3, <2>4, TokensKept, <2>20
    <2>6. task'[t].pc \notin ChangingPCs
        BY <2>3 DEF ChangingPCs
    <2> QED
        BY <2>1, <2>2, <2>4, <2>5, <2>6, ChangesKept
(* A new account has no tokens. *)
<1>3. ASSUME CreateUser(t) PROVE TokensInv' /\ ChangesInv'
    <2>1. Moves(t, {"idle"}) /\ task'[t].pc = "idle"
        BY <1>3, EndMoves DEF Moves
    <2>2. /\ UNCHANGED <<now, record, tokens, excused>>
          /\ task[t].pc \notin ChangingPCs /\ task'[t].pc \notin ChangingPCs
        BY <1>3, <2>1 DEF CreateUser, ChangingPCs, shared, ghosts
    <2>3. \A v \in Registered : role'[v] = role[v]
        BY <1>3 DEF CreateUser, Created, Registered, TypeInv, TypeOK
    <2>4. \A token : Handed(token)' => Handed(token)
        BY <2>1, <2>2, HandedSame
    <2>20. \A v \in Registered : role'[v] # "none"
        BY <2>2, <2>3 DEF Registered
    <2>5. TokensInv'
        BY <2>1, <2>2, <2>3, <2>4, TokensKept, <2>20
    <2>6. ASSUME NEW u \in Users \ excused'
          PROVE  /\ \A c, d \in Changing(u)' : c = d
                 /\ \A token \in Tokens :
                       Handed(token)' /\ token.user = u /\ token.role # role'[u] /\ ~token.stale
                           => Covered(u, token)'
        <3>1. Changing(u)' = Changing(u) /\ \A c \in Changing(u) : task'[c] = task[c]
            BY <2>1, <2>2, ChangingSame
        <3>2. ASSUME NEW token \in Tokens, Handed(token)', token.user = u, token.role # role'[u],
                     ~token.stale
              PROVE  Covered(u, token)'
            <4>1. Handed(token) /\ role'[u] = role[u]
                BY <2>3, <2>4, <3>2 DEF TokensInv
            <4>2. Covered(u, token)
                BY <2>2, <3>2, <4>1 DEF ChangesInv
            <4> QED
                BY <2>2, <3>1, <4>2 DEF Covered
        <3> QED
            BY <2>2, <3>1, <3>2 DEF ChangesInv
    <2> QED
        BY <2>5, <2>6 DEF ChangesInv
<1>4. ASSUME LookUp(t) PROVE TokensInv' /\ ChangesInv'
    <2>1. /\ Moves(t, {"idle", "looked_up"})
          /\ task'[t].pc = "looked_up" => task'[t].user \in Registered
        BY <1>4, LookUpMoves
    <2>2. /\ UNCHANGED <<now, role, record, tokens, excused>>
          /\ task[t].pc \notin ChangingPCs
        BY <1>4 DEF LookUp, ChangingPCs, shared, ghosts
    <2>3. task'[t].pc \in {"idle", "looked_up"}
        BY <2>1 DEF Moves
    <2>4. \A token : Handed(token)' => Handed(token)
        BY <2>1, <2>2, <2>3, HandedSame
    <2>20. \A v \in Registered : role'[v] # "none"
        BY <2>2 DEF Registered
    <2>5. TokensInv'
        BY <2>1, <2>2, <2>4, TokensKept, <2>20
    <2>6. task'[t].pc \notin ChangingPCs
        BY <2>3 DEF ChangingPCs
    <2> QED
        BY <2>1, <2>2, <2>4, <2>5, <2>6, ChangesKept
(* The token that is issued has the user's role, or is stale. *)
<1>5. ASSUME Issue(t) PROVE TokensInv' /\ ChangesInv'
    <2>1. Moves(t, {"issued"}) /\ task'[t].token = Issued(t) /\ task'[t].pc = "issued"
        BY <1>5, IssueMoves DEF Moves
    <2>2. /\ UNCHANGED <<now, role, record, tokens, excused>>
          /\ task[t].pc = "looked_up" /\ task[t].pc \notin ChangingPCs
          /\ task'[t].pc \notin ChangingPCs
        BY <1>5, <2>1 DEF Issue, ChangingPCs, shared, ghosts
    <2>3. /\ Issued(t).user \in Registered /\ Issued(t).iat <= now
          /\ Issued(t).stale \/ Issued(t).role = role[Issued(t).user]
        <3>1. now \in Nat /\ task[t].user \in Registered
            BY <2>2 DEF TokensInv, TypeInv, TypeOK
        <3>2. Issued(t).user \in Registered /\ Issued(t).iat <= now
            BY <2>2, <3>1, IssuedIsToken
        <3>3. Issued(t).stale \/ Issued(t).role = role[Issued(t).user]
            BY <2>2, IssuedIsToken
        <3> QED
            BY <3>2, <3>3
    <2>4. ASSUME NEW token, Handed(token)' PROVE Handed(token) \/ token = Issued(t)
        BY <2>1, <2>2, <2>4 DEF Handed, Moves
    <2>20. \A v \in Registered : role'[v] # "none"
        BY <2>2, <2>3 DEF Registered
    <2>5. TokensInv'
        BY <2>1, <2>2, <2>3, <2>4, TokensKept, <2>20
    <2> QED
        BY <2>1, <2>2, <2>3, <2>4, <2>5, ChangesKept
<1>6. ASSUME ResetAttempts(t) PROVE TokensInv' /\ ChangesInv'
    <2>1. Moves(t, {"idle"}) /\ task'[t].pc = "idle"
        BY <1>6, EndMoves DEF Moves
    <2>2. /\ UNCHANGED <<now, role, record, excused>> /\ tokens' = tokens \cup {task[t].token}
          /\ task[t].pc = "issued" /\ task[t].pc \notin ChangingPCs
          /\ task'[t].pc \notin ChangingPCs
        BY <1>6, <2>1 DEF ResetAttempts, ChangingPCs, ghosts
    <2>3. \A token : Handed(token)' => Handed(token)
        BY <2>1, <2>2 DEF Handed, Moves
    <2>20. \A v \in Registered : role'[v] # "none"
        BY <2>2, <2>3 DEF Registered
    <2>4. TokensInv'
        BY <2>1, <2>2, <2>3, TokensKept, <2>20
    <2> QED
        BY <2>1, <2>2, <2>3, <2>4, ChangesKept
<1> QED
    BY <1>1, <1>2, <1>3, <1>4, <1>5, <1>6 DEF Login

LEMMA RequestRevocation ==
    ASSUME TypeInv, RevocationInv, NEW t \in Tasks, Request(t)
    PROVE  RevocationInv'
<1> USE DEF RevocationInv
<1>1. Moves(t, {"idle", "admitted", "rec_reading", "rec_read"})
    BY ShowTokenMoves, ReadRecordMoves, UseRecordMoves, EndMoves DEF Request, Moves
<1>2. task'[t].pc \in {"idle", "admitted", "rec_reading", "rec_read"}
    BY <1>1 DEF Moves
<1>3. UNCHANGED <<now, role, record, tokens, storedAt>> /\ task[t].pc \notin ChangingPCs
    BY DEF Request, ShowToken, ReadRecord, UseRecord, RequestFails, Free, ChangingPCs, shared, ghosts
<1>4. task'[t].pc \notin ChangingPCs
    BY <1>2 DEF ChangingPCs
<1>5. \A token : Handed(token)' => Handed(token)
    BY <1>1, <1>2, <1>3, HandedSame
<1>20. \A v \in Registered : role'[v] # "none"
    BY <1>3 DEF Registered
<1>6. TokensInv'
    BY <1>1, <1>2, <1>3, <1>5, TokensKept, <1>20
<1>7. excused \subseteq excused' /\ CopiesInv'
    <2>1. CASE UseRecord(t)
        <3>1. task[t].user \in Users /\ task[t].at \in NoStamp..MaxTime /\ ProcOf[t] \in Procs
            BY <2>1, UseRecordMoves, TokenAuthAssumption
        <3>2. /\ local' = [local EXCEPT ![ProcOf[t]][task[t].user] = Copy(task[t].at)]
              /\ excused' = IF task[t].at # record[task[t].user] THEN excused \cup {task[t].user}
                            ELSE excused
            BY <2>1 DEF UseRecord
        <3> QED
            BY <1>3, <3>1, <3>2, CopyMade, CopiesKept
    <2>2. CASE ~UseRecord(t)
        <3>1. \/ UNCHANGED local
              \/ \E p, u : local' = [local EXCEPT ![p][u] = Nothing]
            BY <2>2 DEF Request, ShowToken, ReadRecord, RequestFails
        <3>2. \A p \in Procs, v \in Users : local'[p][v] \in {Nothing, local[p][v]}
            BY <3>1 DEF TypeInv, TypeOK
        <3>3. excused' = excused
            BY <2>2 DEF Request, ShowToken, ReadRecord, RequestFails, ghosts
        <3> QED
            BY <1>3, <3>2, <3>3, CopiesKept
    <2> QED
        BY <2>1, <2>2
<1>8. ChangesInv'
    BY <1>1, <1>3, <1>4, <1>5, <1>7, ChangesKept
<1> QED
    BY <1>6, <1>7, <1>8

LEMMA ChangeRevocation ==
    ASSUME TypeInv, RevocationInv, NEW t \in Tasks, RoleChange(t)
    PROVE  RevocationInv'
<1> USE DEF RevocationInv
<1>1. now' = now /\ tokens' = tokens
    BY DEF RoleChange, ReadTarget, ListAdmins, ChangeRole, Stamp, StoreRecord, StoreLocal, ChangeFails, shared
(* No role change is under way. *)
<1>2. ASSUME \/ ListAdmins(t)
             \/ \E u \in Users, r \in Roles : ReadTarget(t, u, r)
             \/ ChangeFails(t) /\ task[t].pc \in {"target_read", "listed"}
      PROVE  RevocationInv'
    <2>1. Moves(t, {"idle", "target_read", "listed"})
        BY <1>2, ListAdminsMoves, ReadTargetMoves, EndMoves DEF Moves
    <2>2. task'[t].pc \in {"idle", "target_read", "listed"}
        BY <2>1 DEF Moves
    <2>3. UNCHANGED <<role, record, excused, storedAt, local>> /\ task[t].pc \notin ChangingPCs
        BY <1>2 DEF ListAdmins, ReadTarget, IsAdmin, ChangeFails, ChangingPCs, shared, ghosts
    <2>4. task'[t].pc \notin ChangingPCs
        BY <2>2 DEF ChangingPCs
    <2>5. \A token : Handed(token)' => Handed(token)
        BY <1>1, <2>1, <2>2, HandedSame
    <2>6. \A v \in Registered : role'[v] # "none"
        BY <2>3 DEF Registered
    <2>7. TokensInv'
        BY <1>1, <2>1, <2>2, <2>5, <2>6, TokensKept
    <2>8. ChangesInv'
        BY <2>1, <2>3, <2>4, <2>5, ChangesKept
    <2>9. CopiesInv'
        BY <1>1, <2>3, CopiesKept
    <2> QED
        BY <2>7, <2>8, <2>9
(* The others go on. *)
<1>3. ASSUME NEW pcs, Moves(t, pcs), task'[t].pc \in {"idle", "changed", "stamped", "stored"},
             \A v \in Registered : role'[v] # "none"
      PROVE  TokensInv' /\ \A token : Handed(token)' => Handed(token)
    <2>1. \A token : Handed(token)' => Handed(token)
        BY <1>1, <1>3, HandedSame
    <2> QED
        BY <1>1, <1>3, <2>1, TokensKept
(* Nothing of u is under way, or he is excused; from now on t is, and the  *)
(* tokens with his old role wait for its stamp.                            *)
<1>4. ASSUME ChangeRole(t) PROVE RevocationInv'
    <2> DEFINE u == task[t].user
    <2>1. /\ task[t].pc = "listed" /\ role' = [role EXCEPT ![u] = task[t].held]
          /\ excused' = IF Changing(u) # {} THEN excused \cup {u} ELSE excused
          /\ UNCHANGED <<record, local, storedAt>>
        BY <1>4 DEF ChangeRole
    <2>2. u \in Users /\ task[t].held \in Roles
        BY <2>1 DEF TypeInv, GoodTasks, WithUser, WithRole
    <2>3. Moves(t, {"changed"}) /\ task'[t].user = u /\ task'[t].pc = "changed"
        BY <1>4, <2>1, ChangeMoves DEF ChangeRole, Moves
    <2>4. role'[u] = task[t].held /\ \A x \in Users \ {u} : role'[x] = role[x]
        BY <2>1, <2>2 DEF TypeInv, TypeOK
    <2>5. \A v \in Registered : role'[v] # "none"
        BY <2>2, <2>4 DEF Registered, Roles
    <2>6. TokensInv' /\ \A token : Handed(token)' => Handed(token)
        BY <1>3, <2>3, <2>5
    <2>7. ASSUME NEW v \in Users \ excused'
          PROVE  /\ \A c, d \in Changing(v)' : c = d
                 /\ \A token \in Tokens :
                       Handed(token)' /\ token.user = v /\ token.role # role'[v] /\ ~token.stale
                           => Covered(v, token)'
        <3>1. v \in Users \ excused /\ \A x \in Tasks \ {t} : task'[x] = task[x]
            BY <2>1, <2>3 DEF Moves
        <3>2. CASE v = u
            <4>1. Changing(v) = {}
                BY <2>1, <3>2
            <4>2. Changing(v)' = {t}
                BY <2>3, <3>1, <3>2, <4>1 DEF Changing
            <4>3. \A token : Covered(v, token)'
                BY <2>3, <4>2 DEF Covered
            <4> QED
                BY <3>2, <4>2, <4>3
        <3>3. CASE v # u
            <4>1. Changing(v)' = Changing(v) /\ \A c \in Changing(v) : task'[c] = task[c]
                BY <2>1, <2>3, <3>1, <3>3 DEF Changing
            <4>2. ASSUME NEW token \in Tokens, Handed(token)', token.user = v, token.role # role'[v],
                         ~token.stale
                  PROVE  Covered(v, token)'
                <5>1. Covered(v, token)
                    BY <2>4, <2>6, <3>1, <3>3, <4>2 DEF ChangesInv
                <5> QED
                    BY <2>1, <4>1, <5>1 DEF Covered
            <4> QED
                BY <3>1, <4>1, <4>2 DEF ChangesInv
        <3> QED
            BY <3>2, <3>3
    <2>8. excused \subseteq excused'
        BY <2>1
    <2>9. CopiesInv'
        BY <1>1, <2>1, <2>8, CopiesKept
    <2> QED
        BY <2>6, <2>7, <2>9 DEF ChangesInv
(* The stamp is later than every `iat`. *)
<1>5. ASSUME Stamp(t) PROVE RevocationInv'
    <2> DEFINE u == task[t].user
    <2>1. task[t].pc = "changed" /\ UNCHANGED <<role, record, local, storedAt, excused>>
        BY <1>5 DEF Stamp, shared, ghosts
    <2>2. u \in Users
        BY <2>1 DEF TypeInv, GoodTasks, WithUser
    <2>3. /\ Moves(t, {"stamped"}) /\ task'[t].user = u /\ task'[t].at = now
          /\ task'[t].pc = "stamped"
        BY <1>5, StampMoves DEF Moves
    <2>4. TokensInv'
        BY <1>3, <2>1, <2>3 DEF Registered
    <2>5. \A token \in Tokens : Handed(token) => token.iat <= task'[t].at
        BY <2>3 DEF TokensInv
    <2>6. task[t].pc \in ChangingPCs /\ task'[t].pc \in ChangingPCs
        BY <2>1, <2>3 DEF ChangingPCs
    <2> HIDE DEF u
    <2>7. ChangesInv'
        BY <1>1, <2>1, <2>2, <2>3, <2>5, <2>6, ChangeGoesOn DEF u
    <2>8. CopiesInv'
        BY <1>1, <2>1, CopiesKept
    <2> QED
        BY <2>4, <2>7, <2>8
<1>6. ASSUME StoreRecord(t) PROVE RevocationInv'
    <2> DEFINE u == task[t].user
    <2>1. /\ task[t].pc = "stamped" /\ record' = [record EXCEPT ![u] = task[t].at]
          /\ storedAt' = [storedAt EXCEPT ![u] = now] /\ UNCHANGED <<role, local, excused>>
        BY <1>6 DEF StoreRecord
    <2>2. u \in Users
        BY <2>1 DEF TypeInv, GoodTasks, WithUser
    <2>3. Moves(t, {"stored"}) /\ task'[t].user = u /\ task'[t].pc = "stored"
        BY <1>6, <2>1, ChangeMoves DEF StoreRecord, Moves
    <2>4. TokensInv'
        BY <1>3, <2>1, <2>3 DEF Registered
    <2>5. /\ record'[u] = task[t].at /\ storedAt'[u] = now
          /\ \A v \in Users \ {u} : record'[v] = record[v] /\ storedAt'[v] = storedAt[v]
        BY <2>1, <2>2 DEF TypeInv, TypeOK
    <2>6. task[t].pc \in ChangingPCs /\ task'[t].pc \in ChangingPCs
        BY <2>1, <2>3 DEF ChangingPCs
    <2> HIDE DEF u
    <2>7. ChangesInv'
        BY <1>1, <2>1, <2>2, <2>3, <2>5, <2>6, ChangeGoesOn DEF u
    <2>8. CopiesInv'
        BY <1>1, <2>1, <2>2, <2>5 DEF CopiesInv
    <2> QED
        BY <2>4, <2>7, <2>8
(* What a change that stored its record leaves is the record. *)
<1>7. ASSUME StoreLocal(t) \/ ChangeFails(t), task[t].pc \in ChangingPCs
      PROVE  TokensInv' /\ ChangesInv'
    <2> DEFINE u == task[t].user
    <2>1. Moves(t, {"idle"}) /\ task'[t].pc = "idle"
        BY <1>7, EndMoves DEF Moves
    <2>2. u \in Users
        BY <1>7 DEF TypeInv, GoodTasks, WithUser, ChangingPCs
    <2>3. /\ UNCHANGED <<role, record>> /\ excused \subseteq excused'
          /\ u \in excused' \/ task[t].pc = "stored"
        BY <1>7 DEF StoreLocal, ChangeFails, shared, ChangingPCs
    <2>4. TokensInv'
        BY <1>3, <2>1, <2>3 DEF Registered
    <2>5. task'[t].pc \notin ChangingPCs
        BY <2>1 DEF ChangingPCs
    <2> HIDE DEF u
    <2>6. ChangesInv'
        BY <1>1, <1>7, <2>1, <2>2, <2>3, <2>5, ChangeGoesOn DEF u
    <2> QED
        BY <2>4, <2>6
<1>8. ASSUME StoreLocal(t) PROVE CopiesInv' /\ task[t].pc \in ChangingPCs
    <2>1. task[t].pc = "stored"
        BY <1>8 DEF StoreLocal
    <2>2. task[t].user \in Users /\ task[t].at \in NoStamp..MaxTime /\ ProcOf[t] \in Procs
        BY <2>1, TokenAuthAssumption DEF TypeInv, GoodTasks, TaskRecords, WithUser
    <2>3. /\ local' = [local EXCEPT ![ProcOf[t]][task[t].user] = Copy(task[t].at)]
          /\ excused' = IF task[t].at # record[task[t].user] THEN excused \cup {task[t].user}
                        ELSE excused
          /\ UNCHANGED <<now, record, storedAt>>
        BY <1>8 DEF StoreLocal, shared
    <2> QED
        BY <2>1, <2>2, <2>3, CopyMade, CopiesKept DEF ChangingPCs
<1>9. ASSUME ChangeFails(t) PROVE CopiesInv'
    <2>1. UNCHANGED <<now, local, record, storedAt>> /\ excused \subseteq excused'
        BY <1>9 DEF ChangeFails, shared
    <2> QED
        BY <2>1, CopiesKept
<1>10. ChangeFails(t) => task[t].pc \in ChangingPCs \cup {"target_read", "listed"}
    BY DEF ChangeFails, ChangingPCs
<1> QED
    BY <1>2, <1>4, <1>5, <1>6, <1>7, <1>8, <1>9, <1>10 DEF RoleChange

LEMMA TickRevocation ==
    ASSUME TypeInv, RevocationInv, Tick
    PROVE  RevocationInv'
<1> USE DEF RevocationInv
<1>1. /\ now \in Nat /\ now' = now + 1 /\ RecordTTL \in Nat /\ UNCHANGED <<role, record, task, excused>>
      /\ tokens' \subseteq tokens
    BY TokenAuthAssumption DEF Tick, TypeInv, TypeOK, shared
<1>2. \A token : Handed(token)' => Handed(token)
    BY <1>1 DEF Handed
<1>3. TokensInv'
    <2>1. \A token \in Tokens : token.iat <= now => token.iat <= now'
        BY <1>1, TokenAuthAssumption DEF Tokens
    <2> QED
        BY <1>1, <1>2, <2>1 DEF TokensInv, Registered
<1>4. ChangesInv'
    <2>1. \A u : Changing(u)' = Changing(u)
        BY <1>1 DEF Changing
    <2>2. \A u, token : Covered(u, token) => Covered(u, token)'
        BY <1>1, <2>1 DEF Covered
    <2> QED
        BY <1>1, <1>2, <2>1, <2>2 DEF ChangesInv
<1>5. CopiesInv'
    <2> SUFFICES ASSUME NEW p \in Procs, NEW u \in Users, local'[p][u] # Nothing
                 PROVE  /\ local'[p][u].until <= now' + RecordTTL
                        /\ \/ u \in excused \/ local'[p][u].at = record[u]
                           \/ local'[p][u].until <= storedAt'[u] + RecordTTL
        BY <1>1 DEF CopiesInv
    <2>1. local'[p][u] = local[p][u] /\ local[p][u] # Nothing /\ ~(local[p][u].until <= now')
        BY DEF Tick
    <2>2. local[p][u].until \in Nat /\ storedAt[u] \in Nat
        BY <2>1, TokenAuthAssumption DEF TypeInv, TypeOK
    <2>3. storedAt'[u] = IF storedAt[u] + RecordTTL <= now' THEN 0 ELSE storedAt[u]
        BY DEF Tick
    <2>4. /\ local[p][u].until <= now + RecordTTL
          /\ \/ u \in excused \/ local[p][u].at = record[u]
             \/ local[p][u].until <= storedAt[u] + RecordTTL
        BY <2>1 DEF CopiesInv
    <2>5. local'[p][u].until <= now' + RecordTTL
        BY <1>1, <2>1, <2>2, <2>4
    <2>6. local[p][u].until <= storedAt[u] + RecordTTL => storedAt'[u] = storedAt[u]
        BY <1>1, <2>1, <2>2, <2>3
    <2> QED
        BY <2>1, <2>4, <2>5, <2>6
<1> QED
    BY <1>3, <1>4, <1>5

LEMMA RevocationStep == TypeInv /\ RevocationInv /\ [Next]_vars => RevocationInv'
<1> SUFFICES ASSUME TypeInv, RevocationInv, [Next]_vars PROVE RevocationInv'
    OBVIOUS
<1>1. CASE UNCHANGED vars
    <2>1. UNCHANGED <<now, role, record, local, tokens, task, storedAt, excused>>
        BY <1>1 DEF vars, shared, ghosts
    <2>2. \A token : Handed(token)' = Handed(token)
        BY <2>1 DEF Handed
    <2>3. \A u : Changing(u)' = Changing(u)
        BY <2>1 DEF Changing
    <2>4. \A u, token : Covered(u, token)' = Covered(u, token)
        BY <2>1, <2>3 DEF Covered
    <2>5. TokensInv'
        BY <2>1, <2>2 DEF RevocationInv, TokensInv, Registered
    <2>6. ChangesInv'
        BY <2>1, <2>2, <2>3, <2>4 DEF RevocationInv, ChangesInv
    <2>7. CopiesInv'
        BY <2>1 DEF RevocationInv, CopiesInv
    <2> QED
        BY <2>5, <2>6, <2>7 DEF RevocationInv
<1> QED
    BY <1>1, TickRevocation, LoginRevocation, RequestRevocation, ChangeRevocation DEF Next

(* A revocation that got through reaches every process RecordTTL after     *)
(* its record was written, however logins, requests and role changes       *)
(* interleave.                                                             *)
THEOREM RevocationsReachTokens == Spec => []RevocationReachesTokens
<1>1. TypeInv /\ RevocationInv => RevocationReachesTokens
    <2> SUFFICES ASSUME TypeInv, RevocationInv, NEW p \in Procs, NEW token \in tokens,
                        token.role # role[token.user], ~token.stale, Changing(token.user) = {},
                        token.user \notin excused, now >= storedAt[token.user] + RecordTTL
                 PROVE  ~Accepted(p, token)
        BY DEF RevocationReachesTokens
    <2> DEFINE u == token.user
               copy == local[p][u]
    <2>1. token \in Tokens /\ u \in Users /\ token.iat \in Nat
        BY TokenAuthAssumption DEF TypeInv, TypeOK, Tokens
    <2>2. token.iat <= record[u]
        BY <2>1 DEF RevocationInv, ChangesInv, Handed, Covered
    <2>3. record[u] \in Int /\ now \in Nat /\ storedAt[u] \in Nat /\ RecordTTL \in Nat
        BY <2>1, TokenAuthAssumption DEF TypeInv, TypeOK, NoStamp
    <2>4. CASE Fresh(copy)
        <3>1. copy # Nothing /\ now < copy.until
            BY <2>4 DEF Fresh
        <3>2. copy.until \in Nat
            BY <2>1, <3>1, TokenAuthAssumption DEF TypeInv, TypeOK
        <3>3. copy.at = record[u] \/ copy.until <= storedAt[u] + RecordTTL
            BY <2>1, <3>1 DEF RevocationInv, CopiesInv
        <3>4. copy.at = record[u]
            BY <2>3, <3>1, <3>2, <3>3
        <3> QED
            BY <2>1, <2>2, <2>3, <2>4, <3>4 DEF Accepted
    <2>5. CASE ~Fresh(copy)
        BY <2>1, <2>2, <2>3, <2>5 DEF Accepted
    <2> QED
        BY <2>4, <2>5
<1> QED
    BY TypeInit, TypeStep, RevocationInit, RevocationStep, <1>1, PTL DEF Spec
=============================================================================
