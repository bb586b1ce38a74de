----------------------------- MODULE TokenAuth -----------------------------
(***************************************************************************)
(* Accounts and their JWTs: login and registration behind the attempt      *)
(* windows, role changes with the last-admin rule, and requests that come  *)
(* with a token, which enforce_auth() holds against the revocation record  *)
(* (core/auth/authentication_service.py, shared_state.py, middleware.py,   *)
(* core/app/api/routes/auth.py).  Users, record and windows are shared in  *)
(* PostgreSQL; each process has a local read-through copy of the record.   *)
(*                                                                         *)
(* One action is one stretch of a coroutine between awaits, or the         *)
(* statement it awaits.  Time is in whole seconds.  `iat` is cut to whole  *)
(* seconds and revoked_at is not, so of a stamp the model keeps the whole  *)
(* second `at` and knows that a fraction follows: iat < revoked_at is      *)
(* iat <= at.  NoStamp = -1 then stands for "no record".                   *)
(***************************************************************************)
EXTENDS Integers, FiniteSets

CONSTANTS
    Procs,        \* worker processes
    Tasks,        \* requests, each handled by one process
    ProcOf,       \* [Tasks -> Procs]
    Users,        \* user names
    Admins,       \* those that may belong to admins at first
    Nothing,
    RecordTTL,    \* revocation_cache_ttl_seconds
    JwtLife,      \* AppSettings.jwt_expiry_seconds
    MaxAttempts,  \* AppSettings.auth_rate_limit_max_attempts
    Window,       \* AppSettings.auth_rate_limit_window_seconds
    MaxTime,      \* bound: the last second
    MaxEvents,    \* bound: role changes and tokens issued
    Faults        \* which events of FaultKinds happen

FaultKinds == {"cancel", "dberror"}

ASSUME TokenAuthAssumption ==
    /\ ProcOf \in [Tasks -> Procs]
    /\ Admins \subseteq Users /\ Admins # {}
    /\ IsFiniteSet(Users)
    /\ Nothing \notin Users
    /\ RecordTTL \in Nat \ {0} /\ JwtLife \in Nat \ {0} /\ Window \in Nat \ {0}
    /\ MaxAttempts \in Nat \ {0}
    /\ MaxTime \in Nat /\ MaxEvents \in Nat
    /\ Faults \subseteq FaultKinds

VARIABLES
    now,       \* the clock
    role,      \* users.roles, "none" for a name that is not registered
    record,    \* _app_jwt_revocations
    local,     \* per process and user, the copy of the record
    window,    \* _app_rate_limit_windows of one client: start and count
    tokens,    \* the JWTs that were handed out
    task,      \* what each request is doing
    events,    \* how many role changes began and tokens were issued
    opened,    \* ghost: the time of the attempt that opened the window
    raced,     \* ghost: two demotions overlapped
    storedAt,  \* ghost: when a user's record was last written
    excused    \* ghost: users whose revocation was lost, late or overlapped

shared == <<role, record, window>>
ghosts == << opened, raced, storedAt, excused>>
vars == <<now, shared, local, tokens, task, events, ghosts>>

NoStamp == -1
NoWindow == [start |-> 0, count |-> 0]
Roles == {"user", "admin"}
Registered == {u \in Users : role[u] # "none"}

(* `user` is the account the request is about, `held` the role it read,    *)
(* took from a token or wants to set, `at` its stamp, the record it read   *)
(* or the time of its attempt, `token` the JWT it shows or gets.           *)
Idle == [pc |-> "idle", user |-> Nothing, held |-> Nothing, at |-> NoStamp, token |-> Nothing]

PCs == {"idle", "registering", "counting", "counted", "looked_up", "issued", "rec_reading", "rec_read", "admitted",
        "target_read", "listed", "changed", "stamped", "stored"}

(* One of the admins there are has logged in. *)
Init ==
    /\ now = 0
    /\ role \in [Users -> {"none", "admin"}]
    /\ record = [u \in Users |-> NoStamp]
    /\ local = [p \in Procs |-> [u \in Users |-> Nothing]]
    /\ window = NoWindow
    /\ \A u \in Users \ Admins : role[u] = "none"
    /\ \E u \in Registered : tokens = {[user |-> u, role |-> "admin", iat |-> 0, stale |-> FALSE]}
    /\ task = [t \in Tasks |-> Idle]
    /\ events = 0
    /\ opened = 0
    /\ raced = FALSE
    /\ storedAt = [u \in Users |-> 0]
    /\ excused = {}

Free(t) == task[t].pc \in {"idle", "admitted"}

Counted == events < MaxEvents /\ events' = events + 1

Goes(t, pc) == task' = [task EXCEPT ![t].pc = pc]
Ends(t) == task' = [task EXCEPT ![t] = Idle]

-----------------------------------------------------------------------------
(* Attempts *)

(* Whether the window is over for an attempt at time `at`. *)
WindowOver(at) == window.count = 0 \/ window.start <= at - Window

(* What is over the limit is refused, however far over it is. *)
OneMore == IF window.count > MaxAttempts THEN window.count ELSE window.count + 1

(* Mutant: every attempt restarts the window. *)
RecordedSliding(at) ==
    IF WindowOver(at) THEN [start |-> at, count |-> 1] ELSE [start |-> at, count |-> OneMore]

(* check_and_record_attempt(): one UPSERT, so two processes cannot both    *)
(* count from the same value.                                              *)
Recorded(at) ==
    IF WindowOver(at) THEN [start |-> at, count |-> 1] ELSE [window EXCEPT !.count = OneMore]

(* What the UPSERT returns is held against the limit. *)
Allowed(recorded) == recorded.count <= MaxAttempts

(* A login is counted before anything else; its time is taken before it    *)
(* waits for a connection.                                                 *)
Attempt(t, u) ==
    /\ Free(t)
    /\ task' = [task EXCEPT ![t] = [Idle EXCEPT !.pc = "counting", !.user = u, !.at = now]]
    /\ UNCHANGED <<now, shared, local, tokens, events, ghosts>>

RecordAttempt(t) ==
    LET recorded == Recorded(task[t].at) IN
    /\ task[t].pc = "counting"
    /\ window' = recorded
    /\ opened' = IF recorded.count = 1 THEN task[t].at ELSE opened
    /\ task' = [task EXCEPT ![t] =
          IF Allowed(recorded) THEN [Idle EXCEPT !.pc = "counted", !.user = task[t].user]
          ELSE Idle]
    /\ UNCHANGED <<now, role, record, local, tokens, events, raced, storedAt, excused>>

(* update_last_login() touches nothing that is read here; then the         *)
(* client's count is deleted and the answer leaves with the token.  If     *)
(* either statement fails the token is lost.                               *)
ResetAttempts(t) ==
    /\ task[t].pc = "issued"
    /\ window' = NoWindow /\ opened' = 0
    /\ tokens' = tokens \cup {task[t].token}
    /\ Ends(t)
    /\ UNCHANGED <<now, role, record, local, events, raced, storedAt, excused>>

-----------------------------------------------------------------------------
(* Registration: register() *)

(* Registrations are counted as logins are, in windows of their own, which *)
(* are left out.  The password is hashed in another executor.              *)
Register(t, u) ==
    /\ Free(t)
    /\ task' = [task EXCEPT ![t] = [Idle EXCEPT !.pc = "registering", !.user = u]]
    /\ UNCHANGED <<now, shared, local, tokens, events, ghosts>>

(* users.create(): a name that is taken, by an account of any role, raises *)
(* DuplicateRecordError.                                                   *)
Created(u, r) == IF u \in Registered THEN role ELSE [role EXCEPT ![u] = r]

(* Always a plain user, whatever role the caller asks for. *)
CreateUser(t) ==
    /\ task[t].pc = "registering"
    /\ role' = Created(task[t].user, "user")
    /\ Ends(t)
    /\ UNCHANGED <<now, record, window, local, tokens, events, ghosts>>

-----------------------------------------------------------------------------
(* Login: authenticate() *)

(* users.get_by_username(); an unknown name ends the request.  The         *)
(* password is checked after it, in another executor.                      *)
LookUp(t) ==
    /\ task[t].pc = "counted"
    /\ IF task[t].user \in Registered
       THEN task' = [task EXCEPT ![t].pc = "looked_up", ![t].held = role[task[t].user]]
       ELSE Ends(t)
    /\ UNCHANGED <<now, shared, local, tokens, events, ghosts>>

(* Mutant: `iat` is rounded up. *)
IssuedLater(t) ==
    [user |-> task[t].user, role |-> task[t].held, iat |-> now + 1,
     stale |-> task[t].held # role[task[t].user]]

(* The payload has the role of the record read before the password check   *)
(* and `iat` taken after it.  `stale` is a ghost.                          *)
Issued(t) ==
    [user |-> task[t].user, role |-> task[t].held, iat |-> now,
     stale |-> task[t].held # role[task[t].user]]

Issue(t) ==
    /\ task[t].pc = "looked_up"
    /\ Counted
    /\ task' = [task EXCEPT ![t].pc = "issued", ![t].token = Issued(t)]
    /\ UNCHANGED <<now, shared, local, tokens, ghosts>>

(* A wrong password, a failing statement or a cancellation. *)
LoginFails(t) ==
    /\ \/ task[t].pc = "looked_up"
       \/ Faults # {} /\ task[t].pc \in {"registering", "counting", "counted", "issued"}
    /\ Ends(t)
    /\ UNCHANGED <<now, shared, local, tokens, events, ghosts>>

-----------------------------------------------------------------------------
(* A request with a token: enforce_auth() and get_revoked_before() *)

Fresh(copy) == copy # Nothing /\ now < copy.until
Copy(at) == [at |-> at, until |-> now + RecordTTL]

(* Expired tokens do not decode.  A revoked one is no longer trusted; it   *)
(* is then tried as an API key, which it is not.                           *)
Judged(t, ts, at) ==
    LET token == ts[t].token IN
    task' = [ts EXCEPT ![t] =
        IF token.iat <= at THEN Idle ELSE [Idle EXCEPT !.pc = "admitted", !.held = token.role]]

Shows(t, token) ==
    [task EXCEPT ![t] = [Idle EXCEPT !.pc = "rec_reading", !.user = token.user, !.token = token]]

ShowToken(t, token) ==
    LET p == ProcOf[t]
        u == token.user
    IN  /\ Free(t)
        /\ IF Fresh(local[p][u])
           THEN Judged(t, Shows(t, token), local[p][u].at) /\ UNCHANGED local
           ELSE task' = Shows(t, token) /\ local' = [local EXCEPT ![p][u] = Nothing]
        /\ UNCHANGED <<now, shared, tokens, events, ghosts>>

ReadRecord(t) ==
    /\ task[t].pc = "rec_reading"
    /\ task' = [task EXCEPT ![t].pc = "rec_read", ![t].at = record[task[t].user]]
    /\ UNCHANGED <<now, shared, local, tokens, events, ghosts>>

(* The copy is stored whatever was stored since the read, also over a      *)
(* newer one; its life begins now.                                         *)
UseRecord(t) ==
    LET u == task[t].user IN
    /\ task[t].pc = "rec_read"
    /\ local' = [local EXCEPT ![ProcOf[t]][u] = Copy(task[t].at)]
    /\ excused' = IF task[t].at # record[u] THEN excused \cup {u} ELSE excused
    /\ Judged(t, task, task[t].at)
    /\ UNCHANGED <<now, shared, tokens, events, opened, raced, storedAt>>

RequestFails(t) ==
    /\ Faults # {}
    /\ task[t].pc \in {"rec_reading", "rec_read"}
    /\ Ends(t)
    /\ UNCHANGED <<now, shared, local, tokens, events, ghosts>>

-----------------------------------------------------------------------------
(* Role changes: update_user_role() and update_role() *)

(* _require_admin() takes the role from the caller's token. *)
IsAdmin(t) == task[t].pc = "admitted" /\ task[t].held = "admin"

(* users.get_by_id(), UserNotFoundError if there is none.  `held` is the   *)
(* new role.                                                               *)
ReadTarget(t, u, r) ==
    /\ IsAdmin(t)
    /\ u \in Registered
    /\ Counted
    /\ task' = [task EXCEPT ![t] = [Idle EXCEPT !.user = u, !.held = r,
          !.pc = IF role[u] = "admin" /\ r # "admin" THEN "target_read" ELSE "listed"]]
    /\ UNCHANGED <<now, shared, local, tokens, ghosts>>

OtherAdmins(u) == {x \in Users : x # u /\ role[x] = "admin"}

(* Mutant: the target itself counts as a remaining admin. *)
ListAdminsAll(t) ==
    /\ task[t].pc = "target_read"
    /\ IF \E x \in Users : role[x] = "admin" THEN Goes(t, "listed") ELSE Ends(t)
    /\ UNCHANGED <<now, shared, local, tokens, events, ghosts>>

(* users.list_all(); LastAdminError if nobody else is one. *)
ListAdmins(t) ==
    /\ task[t].pc = "target_read"
    /\ IF OtherAdmins(task[t].user) # {} THEN Goes(t, "listed") ELSE Ends(t)
    /\ UNCHANGED <<now, shared, local, tokens, events, ghosts>>

Changing(u) == {x \in Tasks : task[x].user = u /\ task[x].pc \in {"changed", "stamped", "stored"}}
Demoting(t) == task[t].pc = "listed" /\ task[t].held # "admin"

ChangeRole(t) ==
    LET u == task[t].user IN
    /\ task[t].pc = "listed"
    /\ role' = [role EXCEPT ![u] = task[t].held]
    /\ raced' = (raced \/ \E x \in Tasks \ {t} : Demoting(x) /\ Demoting(t))
    /\ excused' = IF Changing(u) # {} THEN excused \cup {u} ELSE excused
    /\ Goes(t, "changed")
    /\ UNCHANGED <<now, record, window, local, tokens, events, opened, storedAt>>

(* Mutant: the stamp is cut to whole seconds, as `iat` is. *)
StampWhole(t) ==
    /\ task[t].pc = "changed"
    /\ task' = [task EXCEPT ![t].pc = "stamped", ![t].at = now - 1]
    /\ UNCHANGED <<now, shared, local, tokens, events, ghosts>>

(* The second get_by_id(), then revoke_tokens_issued_before() with the     *)
(* time of now.                                                            *)
Stamp(t) ==
    /\ task[t].pc = "changed"
    /\ task' = [task EXCEPT ![t].pc = "stamped", ![t].at = now]
    /\ UNCHANGED <<now, shared, local, tokens, events, ghosts>>

(* The UPSERT takes the new value even when the old one is later. *)
StoreRecord(t) ==
    /\ task[t].pc = "stamped"
    /\ record' = [record EXCEPT ![task[t].user] = task[t].at]
    /\ storedAt' = [storedAt EXCEPT ![task[t].user] = now]
    /\ Goes(t, "stored")
    /\ UNCHANGED <<now, role, window, local, tokens, events, opened, raced, excused>>

(* The write-through into this process's copy, and the answer. *)
StoreLocal(t) ==
    LET u == task[t].user IN
    /\ task[t].pc = "stored"
    /\ local' = [local EXCEPT ![ProcOf[t]][u] = Copy(task[t].at)]
    /\ excused' = IF task[t].at # record[u] THEN excused \cup {u} ELSE excused
    /\ Ends(t)
    /\ UNCHANGED <<now, shared, tokens, events, opened, raced, storedAt>>

(* An exception or a cancellation after the role was changed leaves the    *)
(* old tokens in force, or the copy of this process as it was.             *)
ChangeFails(t) ==
    /\ Faults # {}
    /\ task[t].pc \in {"target_read", "listed", "changed", "stamped", "stored"}
    /\ excused' = IF task[t].pc \in {"changed", "stamped"} THEN excused \cup {task[t].user}
                  ELSE excused
    /\ Ends(t)
    /\ UNCHANGED <<now, shared, local, tokens, events, opened, raced, storedAt>>

(* What ran out is forgotten at once: a token that does not decode any     *)
(* more, a copy that the code would only find out later.  The window is    *)
(* not: an attempt may yet be counted that is older.                       *)
Tick ==
    /\ now < MaxTime
    /\ now' = now + 1
    /\ tokens' = {token \in tokens : now' < token.iat + JwtLife}
    /\ local' = [p \in Procs |-> [u \in Users |->
                   IF local[p][u] # Nothing /\ local[p][u].until <= now' THEN Nothing
                   ELSE local[p][u]]]
    /\ storedAt' = [u \in Users |-> IF storedAt[u] + RecordTTL <= now' THEN 0 ELSE storedAt[u]]
    /\ UNCHANGED <<shared, task, events, opened, raced, excused>>

-----------------------------------------------------------------------------
Login(t) ==
    \/ \E u \in Users : Attempt(t, u) \/ Register(t, u)
    \/ RecordAttempt(t) \/ CreateUser(t)
    \/ LookUp(t) \/ Issue(t) \/ ResetAttempts(t) \/ LoginFails(t)

Request(t) ==
    \/ \E token \in tokens : ShowToken(t, token)
    \/ ReadRecord(t) \/ UseRecord(t) \/ RequestFails(t)

RoleChange(t) ==
    \/ \E u \in Users, r \in Roles : ReadTarget(t, u, r)
    \/ ListAdmins(t) \/ ChangeRole(t) \/ Stamp(t) \/ StoreRecord(t) \/ StoreLocal(t)
    \/ ChangeFails(t)

Next == Tick \/ \E t \in Tasks : Login(t) \/ Request(t) \/ RoleChange(t)

Spec == Init /\ [][Next]_vars

-----------------------------------------------------------------------------
(* Properties *)

Tokens == [user : Users, role : Roles, iat : 0..MaxTime, stale : BOOLEAN]

TypeOK ==
    /\ now \in 0..MaxTime
    /\ role \in [Users -> Roles \cup {"none"}]
    /\ record \in [Users -> NoStamp..MaxTime]
    /\ local \in [Procs -> [Users -> {Nothing} \cup
                   [at : NoStamp..MaxTime, until : 0..(MaxTime + RecordTTL)]]]
    /\ window \in [start : 0..MaxTime, count : 0..(MaxAttempts + 1)]
    /\ tokens \subseteq Tokens
    /\ task \in [Tasks -> [pc : PCs, user : Users \cup {Nothing}, held : Roles \cup {Nothing},
                           at : NoStamp..MaxTime, token : Tokens \cup {Nothing}]]
    /\ events \in 0..MaxEvents /\ opened \in 0..MaxTime /\ raced \in BOOLEAN
    /\ storedAt \in [Users -> 0..MaxTime] /\ excused \subseteq Users

(* LastAdminError exists so that somebody can still grant admin: whatever  *)
(* sequence of promotions, demotions and failures, an admin is left -- as  *)
(* long as no two changes that take admin away overlap between their list  *)
(* of admins and their write, which nothing prevents.                      *)
AdminRemains == raced \/ \E u \in Users : role[u] = "admin"

(* What process p would make of a token now. *)
Accepted(p, token) ==
    LET copy == local[p][token.user] IN
    token.iat > (IF Fresh(copy) THEN copy.at ELSE record[token.user])

(* update_role(), "force those tokens to be rejected": RecordTTL after the *)
(* record of a role change was written, no process accepts a token that    *)
(* has another role than its holder, although login, requests and changes  *)
(* interleave.  The exceptions are a login that read the role before the   *)
(* change and took `iat` after it, and a revocation that failed, met       *)
(* another one of the same user, or was overwritten by a late read.        *)
RevocationReachesTokens ==
    \A p \in Procs, token \in tokens :
        LET u == token.user IN
        /\ token.role # role[u] /\ ~token.stale
        /\ Changing(u) = {} /\ u \notin excused
        /\ now >= storedAt[u] + RecordTTL
        => ~Accepted(p, token)

(* A client that keeps trying while it is refused is let in again by the   *)
(* first attempt that comes Window seconds or more after the one that      *)
(* opened the window: refused attempts count but do not prolong it, in     *)
(* whatever order the attempts are recorded (shared_state.py:203-210).     *)
LockoutEnds ==
    \A t \in Tasks :
        task[t].pc = "counting" /\ task[t].at >= opened + Window => Allowed(Recorded(task[t].at))
=============================================================================
