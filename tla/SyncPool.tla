------------------------------ MODULE SyncPool ------------------------------
(***************************************************************************)
(* SyncConnectionPool (core/db/pool/sync_pool.py) under concurrent threads *)
(* of one process.  One lock guards all of it and is not held while a      *)
(* connection is created, so an action is what a thread does from one      *)
(* acquisition of the lock to its release; `wanting` threads are about to  *)
(* take it, in any order.  Condition.notify() wakes one waiting thread,    *)
(* which looks again once it has the lock, possibly after others.          *)
(***************************************************************************)
EXTENDS AdaptiveSizer, FiniteSets

CONSTANTS Threads, Conns, NoConn

ASSUME SyncPoolAssumption ==
    IsFiniteSet(Threads) /\ IsFiniteSet(Conns) /\ NoConn \notin Conns

VARIABLES
    pc,         \* where each thread is
    held,       \* the connection it got from acquire()
    available,  \* _available
    inUse,      \* the connections in _in_use
    slots,      \* threads whose placeholder is in _in_use
    sizer,      \* _sizer
    open,       \* FALSE after close_all()
    silent      \* ghost: capacity came up and nobody was notified

poolVars == <<pc, held, available, inUse, slots, sizer, open, silent>>

(* "refused" is an acquire() that raised. *)
PCs == {"out", "wanting", "waiting", "woken", "creating", "holding", "refused"}

PoolTypeOK ==
    /\ pc \in [Threads -> PCs]
    /\ held \in [Threads -> Conns \cup {NoConn}]
    /\ available \subseteq Conns /\ inUse \subseteq Conns /\ slots \subseteq Threads
    /\ sizer \in Sizers
    /\ open \in BOOLEAN /\ silent \in BOOLEAN

PoolInit ==
    /\ pc = [t \in Threads |-> "out"]
    /\ held = [t \in Threads |-> NoConn]
    /\ available = {} /\ inUse = {} /\ slots = {}
    /\ sizer = InitialSizer
    /\ open = TRUE /\ silent = FALSE

Waiting == {t \in Threads : pc[t] = "waiting"}
Size == Cardinality(inUse) + Cardinality(slots)   \* len(_in_use)
HeldConns == {held[t] : t \in Threads} \ {NoConn}
Looking(t) == pc[t] \in {"wanting", "woken"}
Capacity == available # {} \/ Size < sizer.current

(* The steps that leave nobody waiting end a silence. *)
Still(pcs) == silent /\ \E t \in Threads : pcs[t] = "waiting"

Goto(t, there) ==
    /\ pc' = [pc EXCEPT ![t] = there]
    /\ silent' = Still([pc EXCEPT ![t] = there])

Call(t) == pc[t] = "out" /\ Goto(t, "wanting")

-----------------------------------------------------------------------------
(* acquire() *)

(* Mutant: the connection is read from the heap but not popped. *)
TakeIdleUnpopped(t) ==
    /\ Looking(t)
    /\ \E c \in available :
        /\ inUse' = inUse \cup {c}
        /\ held' = [held EXCEPT ![t] = c]
    /\ Goto(t, "holding")
    /\ UNCHANGED <<available, slots, sizer, open>>

TakeIdle(t) ==
    /\ Looking(t)
    /\ \E c \in available :
        /\ available' = available \ {c}
        /\ inUse' = inUse \cup {c}
        /\ held' = [held EXCEPT ![t] = c]
    /\ Goto(t, "holding")
    /\ UNCHANGED <<slots, sizer, open>>

Reserve(t) ==
    /\ Looking(t)
    /\ available = {} /\ Size < sizer.current
    /\ slots' = slots \cup {t}
    /\ Goto(t, "creating")
    /\ UNCHANGED <<held, available, inUse, sizer, open>>

Wait(t) ==
    /\ Looking(t)
    /\ ~Capacity
    /\ Goto(t, "waiting")
    /\ UNCHANGED <<held, available, inUse, slots, sizer, open>>

(* The wait ends, by the deadline: the thread takes the lock and looks. *)
TimeOut(t) ==
    /\ pc[t] = "waiting"
    /\ Goto(t, "woken")
    /\ UNCHANGED <<held, available, inUse, slots, sizer, open>>

(* Nothing to take, and the deadline has passed: MaxConnectionsExceeded. *)
Exceed(t) ==
    /\ pc[t] = "woken"
    /\ ~Capacity
    /\ Goto(t, "refused")
    /\ UNCHANGED <<held, available, inUse, slots, sizer, open>>

(* A connection nobody has: names of closed ones may be used again. *)
Create(t) ==
    /\ pc[t] = "creating"
    /\ \E c \in Conns \ (HeldConns \cup available) :
        /\ held' = [held EXCEPT ![t] = c]
        /\ inUse' = inUse \cup {c}
    /\ slots' = slots \ {t}
    /\ Goto(t, "holding")
    /\ UNCHANGED <<available, sizer, open>>

(* The slot is given back, and nobody is notified of it. *)
CreateFails(t) ==
    /\ pc[t] = "creating"
    /\ slots' = slots \ {t}
    /\ pc' = [pc EXCEPT ![t] = "refused"]
    /\ silent' = (Waiting # {})
    /\ UNCHANGED <<held, available, inUse, sizer, open>>

(* The caller sees that acquire() raised. *)
Refused(t) ==
    /\ pc[t] = "refused"
    /\ Goto(t, "out")
    /\ UNCHANGED <<held, available, inUse, slots, sizer, open>>

-----------------------------------------------------------------------------

(* notify(): one of the waiting threads, if there is one. *)
Notify(t) ==
    \/ /\ Waiting # {}
       /\ \E w \in Waiting : pc' = [pc EXCEPT ![t] = "out", ![w] = "woken"]
       /\ silent' = (silent /\ Cardinality(Waiting) > 1)
    \/ Waiting = {} /\ Goto(t, "out")

(* Mutant: nobody is notified of what release() frees. *)
ReleaseSilently(t) ==
    /\ pc[t] = "holding"
    /\ held' = [held EXCEPT ![t] = NoConn]
    /\ inUse' = inUse \ {held[t]}
    /\ available' = IF held[t] \in inUse THEN available \cup {held[t]} ELSE available
    /\ Goto(t, "out")
    /\ UNCHANGED <<slots, sizer, open>>

(* release(): the store never says `broken`.  A connection that close_all()*)
(* has dropped is left alone.                                              *)
Release(t) ==
    /\ pc[t] = "holding"
    /\ held' = [held EXCEPT ![t] = NoConn]
    /\ \/ /\ held[t] \in inUse
          /\ inUse' = inUse \ {held[t]}
          /\ available' = available \cup {held[t]}
          /\ Notify(t)
       \/ /\ held[t] \notin inUse
          /\ Goto(t, "out")
          /\ UNCHANGED <<inUse, available>>
    /\ UNCHANGED <<slots, sizer, open>>

(* close_all() forgets placeholders too, and notifies nobody. *)
CloseAll ==
    /\ open
    /\ available' = {} /\ inUse' = {} /\ slots' = {}
    /\ open' = FALSE
    /\ silent' = (Waiting # {})
    /\ UNCHANGED <<pc, held, sizer>>

(* metrics(): the sizer sees who waits, or that recent waits were long.    *)
(* When it grows, nobody is notified.                                      *)
Metrics ==
    /\ \E slow \in BOOLEAN : sizer' = Adjusted(sizer, Waiting # {} \/ slow)
    /\ silent' = (Waiting # {} /\ (silent \/ sizer'.current > sizer.current))
    /\ UNCHANGED <<pc, held, available, inUse, slots, open>>

-----------------------------------------------------------------------------

Grantable ==
    LET spare == IF Size < sizer.current THEN sizer.current - Size ELSE 0
    IN  IF spare > Cardinality(available) THEN spare ELSE Cardinality(available)

(* One notify() per release() is enough: as long as no creation failed and *)
(* the size did not grow while they waited, no thread waits beside a       *)
(* connection it could have (sync_pool.py:85-95, :161-165).                *)
NoStrandedWaiter ==
    ~silent =>
        AtMost(Cardinality(Waiting), Grantable)
            <= Cardinality({t \in Threads : pc[t] = "woken"})

(* The pool implements ConnectionLease. *)
Lease == INSTANCE ConnectionLease
             WITH Tasks <- Threads, lease <- held, idle <- available,
                  stray <- inUse \ HeldConns

ImplementsLease == Lease!LeaseSpec

=============================================================================
