-------------------------- MODULE ConnectionLease --------------------------
(***************************************************************************)
(* What a connection pool promises its callers, without saying how: a      *)
(* connection is leased to at most one caller at a time, a leased          *)
(* connection is not idle, and while the pool is open the connections it   *)
(* answers for never exceed its configured maximum.  The pools of          *)
(* core/db/pool are shown to implement this specification.                 *)
(***************************************************************************)
EXTENDS Naturals, FiniteSets

CONSTANTS Tasks,      \* the callers of acquire() and release()
          Conns,      \* the connection objects that may ever exist at once
          MaxConn,    \* the configured maximum size
          NoConn      \* stands for "no connection"

VARIABLES
    lease,   \* the connection each caller holds, or NoConn
    idle,    \* open connections waiting for a caller
    stray,   \* connections still counted though nobody will return them
    open     \* FALSE once the pool has been closed

leaseVars == <<lease, idle, stray, open>>

Leased == {lease[t] : t \in Tasks} \ {NoConn}

Bounded == open => Cardinality(idle \cup stray \cup Leased) <= MaxConn

LeaseInit ==
    /\ lease = [t \in Tasks |-> NoConn]
    /\ idle = {}
    /\ stray = {}
    /\ open = TRUE

(* A caller gets a connection nobody holds: an idle one or a new one. *)
Grant(t) ==
    /\ lease[t] = NoConn
    /\ \E c \in Conns \ (Leased \cup stray) :
          /\ lease' = [lease EXCEPT ![t] = c]
          /\ idle' = idle \ {c}
    /\ UNCHANGED <<stray, open>>
    /\ Bounded'

(* A caller hands its connection back; the pool keeps it or drops it. *)
GiveBack(t) ==
    /\ lease[t] # NoConn
    /\ lease' = [lease EXCEPT ![t] = NoConn]
    /\ \/ idle' = idle /\ stray' \in {stray, stray \cup {lease[t]}}
       \/ idle' = idle \cup {lease[t]} /\ stray' = stray
    /\ UNCHANGED open

(* Closing drops what is idle or counted; current leases run to their end. *)
Shutdown ==
    /\ idle' = {}
    /\ stray' = {}
    /\ open' = FALSE
    /\ UNCHANGED lease

LeaseNext == (\E t \in Tasks : Grant(t) \/ GiveBack(t)) \/ Shutdown

LeaseSpec == LeaseInit /\ [][LeaseNext]_leaseVars
=============================================================================
