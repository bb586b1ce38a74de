----------------------------- MODULE AsyncPool -----------------------------
(***************************************************************************)
(* AsyncConnectionPool (core/db/pool/async_pool.py) under concurrent       *)
(* coroutines of one event loop.                                           *)
(*                                                                         *)
(* A coroutine runs without interruption between two awaits, so an action  *)
(* is what happens from one suspension to the next.  The pool lock is held *)
(* across a suspension in one place only, release(broken=True) awaiting    *)
(* the close of the connection: `Locked` says a task is there.  A task     *)
(* that needs the lock then parks (one pc value per place it can park at)  *)
(* and goes on once the lock is free.  asyncio.Lock is FIFO; here parked   *)
(* tasks and newcomers may go on in any order, which allows every order    *)
(* the code can show.                                                      *)
(*                                                                         *)
(* `_in_use` is split by what an entry is: inUse holds its connections,    *)
(* slots the tasks with a placeholder in it, orphans counts placeholders   *)
(* whose owner is gone.  A waiter (an asyncio.Event) is its task; Dead     *)
(* stands for an Event left in `_waiters` by a task that no longer waits.  *)
(***************************************************************************)
EXTENDS AdaptiveSizer, Sequences, FiniteSets

CONSTANTS Tasks,     \* the coroutines that use the pool
          Conns,     \* connection objects; a closed one's name may be reused
          NoConn,    \* a task holds no connection
          Dead,      \* a waiter entry nobody awaits
          Faults,    \* which events of FaultKinds the environment produces
          MaxDead    \* bound: at most this many Dead entries at a time

FaultKinds == {"timeout", "cancel", "fail", "broken", "resize", "close"}

ASSUME PoolAssumption ==
    /\ IsFiniteSet(Tasks) /\ IsFiniteSet(Conns)
    /\ NoConn \notin Conns
    /\ Dead \notin Tasks
    /\ Faults \subseteq FaultKinds
    /\ MaxDead \in Nat

VARIABLES
    pc,         \* where each task is
    held,       \* the connection a task got from acquire() and must release
    available,  \* _available, the idle connections (the heap's order left out)
    inUse,      \* the connections in _in_use
    slots,      \* tasks whose placeholder is in _in_use
    orphans,    \* placeholders in _in_use whose task has left acquire()
    waiters,    \* _waiters
    sizer,      \* _sizer
    phase       \* DatabaseSession: "open", close_all() done, pool dropped

vars == <<pc, held, available, inUse, slots, orphans, waiters, sizer, phase>>

PCs == {"out",          \* not in the pool's code
        "acquire",      \* parked at acquire()'s lock
        "waiting",      \* in wait_for(waiter.wait())
        "timing_out",   \* timed out, parked before removing its waiter
        "cancelling",   \* cancelled, parked before removing its waiter
        "creating",     \* awaiting self._create()
        "unreserving",  \* creation failed, parked before giving back its slot
        "created",      \* creation succeeded, parked before recording it
        "holding",      \* acquire() returned a connection
        "returning",    \* parked at release()'s lock
        "discarding",   \* parked at release(broken=True)'s lock
        "closing"}      \* in release(broken=True), awaiting the close

TypeOK ==
    /\ pc \in [Tasks -> PCs]
    /\ held \in [Tasks -> Conns \cup {NoConn}]
    /\ available \subseteq Conns
    /\ inUse \subseteq Conns
    /\ slots \subseteq Tasks
    /\ orphans \in Nat
    /\ waiters \in Seq(Tasks \cup {Dead})
    /\ sizer \in Sizers
    /\ phase \in {"open", "closing", "closed"}

Locked == \E t \in Tasks : pc[t] = "closing"

Queued(t) == \E i \in 1 .. Len(waiters) : waiters[i] = t

HeldConns == {held[t] : t \in Tasks} \ {NoConn}

Size == Cardinality(inUse) + Cardinality(slots) + orphans   \* len(_in_use)

Init ==
    /\ pc = [t \in Tasks |-> "out"]
    /\ held = [t \in Tasks |-> NoConn]
    /\ available = {} /\ inUse = {} /\ slots = {} /\ orphans = 0
    /\ waiters = <<>>
    /\ sizer = InitialSizer
    /\ phase = "open"

Goto(t, place) == pc' = [pc EXCEPT ![t] = place]

(* Reaching an `async with self._lock` while another task has the lock. *)
Park(t, from, place) ==
    /\ Locked
    /\ pc[t] = from
    /\ Goto(t, place)
    /\ UNCHANGED <<held, available, inUse, slots, orphans, waiters, sizer, phase>>

-----------------------------------------------------------------------------
(* acquire() *)

(* A task about to run the loop body: a new call, one a release() has      *)
(* woken, or one that was parked at the lock.                              *)
Calling(t) ==
    \/ pc[t] = "out" /\ phase # "closed"
    \/ pc[t] = "waiting" /\ ~Queued(t)
    \/ pc[t] = "acquire"

AcquirePark(t) ==
    /\ Calling(t)
    /\ \E from \in {"out", "waiting"} : Park(t, from, "acquire")

(* Mutant: the connection is read from the heap but not popped. *)
AcquireIdleUnpopped(t) ==
    /\ Calling(t) /\ ~Locked
    /\ \E c \in available :
          /\ inUse' = inUse \cup {c}
          /\ held' = [held EXCEPT ![t] = c]
    /\ Goto(t, "holding")
    /\ UNCHANGED <<available, slots, orphans, waiters, sizer, phase>>

AcquireIdle(t) ==
    /\ Calling(t) /\ ~Locked
    /\ \E c \in available :
          /\ available' = available \ {c}
          /\ inUse' = inUse \cup {c}
          /\ held' = [held EXCEPT ![t] = c]
    /\ Goto(t, "holding")
    /\ UNCHANGED <<slots, orphans, waiters, sizer, phase>>

(* Mutants: no placeholder while the connection is being created; one      *)
(* connection too many.                                                    *)
ReserveNoPlaceholder(t) ==
    /\ Calling(t) /\ ~Locked
    /\ available = {}
    /\ Size < sizer.current
    /\ Goto(t, "creating")
    /\ UNCHANGED <<held, available, inUse, slots, orphans, waiters, sizer, phase>>

ReserveOneTooMany(t) ==
    /\ Calling(t) /\ ~Locked
    /\ available = {}
    /\ Size <= sizer.current
    /\ slots' = slots \cup {t}
    /\ Goto(t, "creating")
    /\ UNCHANGED <<held, available, inUse, orphans, waiters, sizer, phase>>

AcquireReserve(t) ==
    /\ Calling(t) /\ ~Locked
    /\ available = {}
    /\ Size < sizer.current
    /\ slots' = slots \cup {t}
    /\ Goto(t, "creating")
    /\ UNCHANGED <<held, available, inUse, orphans, waiters, sizer, phase>>

AcquireEnqueue(t) ==
    /\ Calling(t) /\ ~Locked
    /\ available = {}
    /\ Size >= sizer.current
    /\ waiters' = Append(waiters, t)
    /\ Goto(t, "waiting")
    /\ UNCHANGED <<held, available, inUse, slots, orphans, sizer, phase>>

(* `if waiter in self._waiters: self._waiters.remove(waiter)` *)
Without(s, x) ==
    IF \E i \in 1 .. Len(s) : s[i] = x
    THEN LET i == CHOOSE i \in 1 .. Len(s) : s[i] = x
         IN  SubSeq(s, 1, i - 1) \o SubSeq(s, i + 1, Len(s))
    ELSE s

(* Mutant: a waiter that gives up stays in the queue. *)
LeaveQueueLingering(t) ==
    /\ ~Locked
    /\ Goto(t, "out")
    /\ UNCHANGED <<held, available, inUse, slots, orphans, waiters, sizer, phase>>

LeaveQueue(t) ==
    /\ ~Locked
    /\ waiters' = Without(waiters, t)
    /\ Goto(t, "out")
    /\ UNCHANGED <<held, available, inUse, slots, orphans, sizer, phase>>

(* The timer of wait_for() fires.  It may do so after a release() has set  *)
(* the event and before the task runs: wait_for() still raises.            *)
TimeOut(t) ==
    /\ "timeout" \in Faults
    /\ \/ pc[t] = "waiting" /\ LeaveQueue(t)
       \/ Park(t, "waiting", "timing_out")

GiveUpParked(t) == pc[t] \in {"timing_out", "cancelling"} /\ LeaveQueue(t)

(* self._create() returns; `async with self._lock` records the connection. *)
Checkin(t) ==
    /\ pc[t] \in {"creating", "created"} /\ ~Locked
    /\ \E c \in Conns \ (available \cup inUse \cup HeldConns) :
          /\ inUse' = inUse \cup {c}
          /\ held' = [held EXCEPT ![t] = c]
    /\ slots' = slots \ {t}
    /\ Goto(t, "holding")
    /\ UNCHANGED <<available, orphans, waiters, sizer, phase>>

FinishCreate(t) == Checkin(t) \/ Park(t, "creating", "created")

(* self._create() raises: the placeholder is popped and nobody is woken. *)
Unreserve(t) ==
    /\ ~Locked
    /\ slots' = slots \ {t}
    /\ Goto(t, "out")
    /\ UNCHANGED <<held, available, inUse, orphans, waiters, sizer, phase>>

CreateFails(t) ==
    /\ "fail" \in Faults
    /\ \/ pc[t] = "creating" /\ Unreserve(t)
       \/ Park(t, "creating", "unreserving")

UnreserveParked(t) == pc[t] = "unreserving" /\ Unreserve(t)

-----------------------------------------------------------------------------
(* release() *)

Woken(s) == IF s = <<>> THEN s ELSE Tail(s)   \* `_waiters.pop(0).set()`

(* A connection close_all() has dropped is not in _in_use: return at once. *)
ReleaseUnknown(t) ==
    /\ pc[t] \in {"holding", "returning", "discarding"} /\ ~Locked
    /\ held[t] \notin inUse
    /\ held' = [held EXCEPT ![t] = NoConn]
    /\ Goto(t, "out")
    /\ UNCHANGED <<available, inUse, slots, orphans, waiters, sizer, phase>>

(* Mutant: the connection goes back and nobody is woken. *)
ReturnSilently(t) ==
    /\ pc[t] \in {"holding", "returning"} /\ ~Locked
    /\ held[t] \in inUse
    /\ inUse' = inUse \ {held[t]}
    /\ available' = available \cup {held[t]}
    /\ held' = [held EXCEPT ![t] = NoConn]
    /\ Goto(t, "out")
    /\ UNCHANGED <<slots, orphans, waiters, sizer, phase>>

Return(t) ==
    /\ pc[t] \in {"holding", "returning"} /\ ~Locked
    /\ held[t] \in inUse
    /\ inUse' = inUse \ {held[t]}
    /\ available' = available \cup {held[t]}
    /\ waiters' = Woken(waiters)
    /\ held' = [held EXCEPT ![t] = NoConn]
    /\ Goto(t, "out")
    /\ UNCHANGED <<slots, orphans, sizer, phase>>

(* broken=True pops the entry, then awaits the close with the lock held. *)
Discard(t) ==
    /\ \/ pc[t] = "holding" /\ "broken" \in Faults
       \/ pc[t] = "discarding"
    /\ ~Locked
    /\ held[t] \in inUse
    /\ inUse' = inUse \ {held[t]}
    /\ Goto(t, "closing")
    /\ UNCHANGED <<held, available, slots, orphans, waiters, sizer, phase>>

ReleasePark(t) ==
    \/ Park(t, "holding", "returning")
    \/ "broken" \in Faults /\ Park(t, "holding", "discarding")

(* Mutant: only a connection that went back to the heap wakes a waiter. *)
FinishDiscardSilently(t) ==
    /\ pc[t] = "closing"
    /\ held' = [held EXCEPT ![t] = NoConn]
    /\ Goto(t, "out")
    /\ UNCHANGED <<available, inUse, slots, orphans, waiters, sizer, phase>>

(* The close has ended (a failure to close is logged and ignored). *)
FinishDiscard(t) ==
    /\ pc[t] = "closing"
    /\ waiters' = Woken(waiters)
    /\ held' = [held EXCEPT ![t] = NoConn]
    /\ Goto(t, "out")
    /\ UNCHANGED <<available, inUse, slots, orphans, sizer, phase>>

-----------------------------------------------------------------------------
(* CancelledError, delivered wherever a task is suspended *)

(* acquire()'s handler takes the lock again to remove the waiter. *)
CancelWaiting(t) ==
    \/ pc[t] \in {"waiting", "timing_out"} /\ LeaveQueue(t)
    \/ \E from \in {"waiting", "timing_out"} : Park(t, from, "cancelling")

(* A second cancellation while the handler is parked leaves the waiter. *)
CancelTwice(t) ==
    /\ pc[t] = "cancelling"
    /\ Cardinality({i \in 1 .. Len(waiters) : waiters[i] = Dead}) < MaxDead
    /\ waiters' = [i \in 1 .. Len(waiters) |->
                      IF waiters[i] = t THEN Dead ELSE waiters[i]]
    /\ Goto(t, "out")
    /\ UNCHANGED <<held, available, inUse, slots, orphans, sizer, phase>>

CancelCreating(t) ==
    \/ pc[t] = "creating" /\ Unreserve(t)
    \/ Park(t, "creating", "unreserving")

(* Cancelled while parked with a reservation: nothing pops it any more. *)
CancelReserved(t) ==
    /\ pc[t] \in {"unreserving", "created"}
    /\ slots' = slots \ {t}
    /\ orphans' = orphans + Cardinality(slots \cap {t})
    /\ Goto(t, "out")
    /\ UNCHANGED <<held, available, inUse, waiters, sizer, phase>>

(* Parked at acquire()'s lock, or in release(): the call just ends.  A     *)
(* release() that never got the lock leaves its connection in _in_use; one *)
(* that was closing frees the lock and wakes nobody.                       *)
CancelElsewhere(t) ==
    /\ pc[t] \in {"acquire", "returning", "discarding", "closing"}
    /\ held' = [held EXCEPT ![t] = NoConn]
    /\ Goto(t, "out")
    /\ UNCHANGED <<available, inUse, slots, orphans, waiters, sizer, phase>>

Cancel(t) ==
    /\ "cancel" \in Faults
    /\ \/ CancelWaiting(t) \/ CancelTwice(t) \/ CancelCreating(t)
       \/ CancelReserved(t) \/ CancelElsewhere(t)

-----------------------------------------------------------------------------
(* metrics(), DatabaseSession.warmup_async() and DatabaseSession.close() *)

(* metrics() resizes without the lock and wakes nobody; whether recent     *)
(* waits were slow is left open.                                           *)
Metrics ==
    /\ "resize" \in Faults
    /\ \E slow \in BOOLEAN : sizer' = Adjusted(sizer, waiters # <<>> \/ slow)
    /\ UNCHANGED <<pc, held, available, inUse, slots, orphans, waiters, phase>>

WarmupBump ==
    /\ "resize" \in Faults
    /\ phase = "open" /\ ~Locked
    /\ \E target \in MinConn .. MaxConn : sizer' = Warmed(sizer, target)
    /\ UNCHANGED <<pc, held, available, inUse, slots, orphans, waiters, phase>>

(* close_all() forgets every entry, placeholders too; the closes it then   *)
(* awaits touch no pool state.                                             *)
CloseAll ==
    /\ "close" \in Faults
    /\ phase = "open" /\ ~Locked
    /\ available' = {} /\ inUse' = {} /\ slots' = {} /\ orphans' = 0
    /\ phase' = "closing"
    /\ UNCHANGED <<pc, held, waiters, sizer>>

(* DatabaseSession.close() drops the pool: no call can start any more. *)
Detach ==
    /\ phase = "closing"
    /\ phase' = "closed"
    /\ UNCHANGED <<pc, held, available, inUse, slots, orphans, waiters, sizer>>

-----------------------------------------------------------------------------
(* The steps a task takes by itself, as long as the event loop runs. *)
Acquire(t) ==
    \/ AcquirePark(t) \/ AcquireIdle(t) \/ AcquireReserve(t)
    \/ AcquireEnqueue(t) \/ GiveUpParked(t) \/ FinishCreate(t)
    \/ UnreserveParked(t)

Release(t) ==
    \/ ReleaseUnknown(t) \/ Return(t) \/ Discard(t) \/ ReleasePark(t)
    \/ FinishDiscard(t)

Next ==
    \/ \E t \in Tasks : \/ Acquire(t) \/ Release(t)
                        \/ TimeOut(t) \/ CreateFails(t) \/ Cancel(t)
    \/ Metrics \/ WarmupBump \/ CloseAll \/ Detach

Spec == Init /\ [][Next]_vars

(* The event loop runs every task that can run, connections get created or *)
(* closed in bounded time and a holder releases: its statement is bounded  *)
(* by statement_timeout.  New calls, timeouts and faults are not fair.     *)
FairSpec ==
    /\ Spec
    /\ \A t \in Tasks : /\ WF_vars(pc[t] # "out" /\ Acquire(t))
                        /\ WF_vars(Release(t))
-----------------------------------------------------------------------------
(* Properties *)

Entries == Cardinality(available) + Size

(* While the pool is open, idle connections, leased connections and        *)
(* reservations together never exceed max_conn, whatever metrics(), a      *)
(* shrinking sizer, cancelled calls and releases do in between: the check  *)
(* `len(self._in_use) < self._sizer.current` in acquire() does not count   *)
(* `_available`, and a reservation outlives the lock it was made under.    *)
CapacityBound == phase = "open" => Entries <= MaxConn

(* No connection is in two callers' hands, or in a caller's hands and      *)
(* idle: what release() puts back and acquire() pops is held by nobody,    *)
(* also when close_all() or a cancellation falls in between.               *)
ExclusiveLease ==
    /\ \A s, t \in Tasks : s # t /\ held[s] # NoConn => held[s] # held[t]
    /\ \A t \in Tasks : held[t] \notin available
    /\ available \cap inUse = {}

(* The class docstring: "every waiter created in acquire() is removed from *)
(* _waiters on every exit path".  A task is queued at most once, and a     *)
(* queued task is still inside that wait or about to remove its waiter;    *)
(* the entries of twice cancelled tasks (Dead) are the only exception.     *)
WaitersAreInAcquire ==
    \A i \in 1 .. Len(waiters) : waiters[i] # Dead =>
        /\ pc[waiters[i]] \in {"waiting", "timing_out", "cancelling"}
        /\ \A j \in 1 .. Len(waiters) : waiters[i] = waiters[j] => i = j

(* acquire() calls that could succeed now: one per idle connection, then   *)
(* one per connection the sizer still allows.                              *)
Grantable ==
    LET spare == IF Size < sizer.current THEN sizer.current - Size ELSE 0
    IN  IF spare > Cardinality(available) THEN spare ELSE Cardinality(available)

(* Tasks that will look at the pool again, or wake one that will.          *)
OnTheirWay ==
    {t \in Tasks : \/ pc[t] \in {"acquire", "closing"}
                   \/ pc[t] = "waiting" /\ ~Queued(t)}

(* release() hands on one wakeup for what it frees, a broken connection's  *)
(* slot included, so without timeouts, cancellations, failed creations and *)
(* resizing no waiter stays queued beside a connection it could have:      *)
(* whatever is grantable to queued waiters, somebody is on the way for it. *)
NoStrandedWaiter ==
    AtMost(Len(waiters), Grantable) <= Cardinality(OnTheirWay)

(* The rest of the inductive invariant behind CapacityBound and            *)
(* ExclusiveLease: who has a connection, where it is recorded, and whose   *)
(* placeholders are counted.                                               *)
Holders == {"holding", "returning", "discarding", "closing"}
Reservers == {"creating", "created", "unreserving"}

LeasesRecorded ==
    \A t \in Tasks :
        /\ held[t] # NoConn <=> pc[t] \in Holders
        /\ pc[t] = "closing" => held[t] \notin inUse
        /\ phase = "open" /\ pc[t] \in Holders \ {"closing"} => held[t] \in inUse

SlotsRecorded ==
    \A t \in Tasks :
        /\ t \in slots => pc[t] \in Reservers
        /\ phase = "open" /\ pc[t] \in Reservers => t \in slots

PoolInv == TypeOK /\ ExclusiveLease /\ LeasesRecorded /\ SlotsRecorded /\ CapacityBound

NewCall == \E t \in Tasks : pc[t] = "out" /\ pc'[t] # "out"

(* When calls stop arriving, everyone who queued gets a connection in the  *)
(* end: release() to release(), the wakeups reach the whole queue.         *)
QueueDrains ==
    <>[][~NewCall]_vars => \A t \in Tasks : pc[t] = "waiting" ~> pc[t] = "holding"

(* The pool implements ConnectionLease: a task's lease is what acquire()   *)
(* returned to it, and an entry whose holder is gone is a stray.           *)
Lease == INSTANCE ConnectionLease
             WITH lease <- held, idle <- available,
                  stray <- inUse \ HeldConns, open <- phase = "open"

ImplementsLease == Lease!LeaseSpec

(* The comment in acquire()'s creation path (async_pool.py:125-128): a     *)
(* cancelled acquire() "must still give back the reserved slot", or it     *)
(* "permanently shrinks effective capacity by one".                        *)
ReservationsHaveOwners == orphans = 0

(* The class docstring (async_pool.py:26-29): a waiter that gave up never  *)
(* lingers to absorb a wakeup "meant for someone still actually waiting".  *)
(* So no release() pops a task that has given up, though it may have to    *)
(* wait for the lock before it can leave the queue itself.                 *)
GivenUpNotWoken ==
    \A t \in Tasks : pc[t] \in {"timing_out", "cancelling"} => Queued(t)
=============================================================================
