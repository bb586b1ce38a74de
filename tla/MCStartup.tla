------------------------------ MODULE MCStartup ------------------------------
(* A worker and the bootstrap script on one database. *)
EXTENDS Lifespan, Settings

CONSTANT s1

MCProgram == [p \in Procs |-> IF p = s1 THEN "script" ELSE "worker"]

(* The settings a worker reads before it starts, on 1 to 64 CPUs: the      *)
(* defaults are accepted, and one size set by hand is accepted when the    *)
(* floor and the threads leave room for it.                                *)
ASSUME DefaultsStart ==
    \A n \in 1 .. 64 : Accepted(FromEnv([v \in {} |-> 0], DefaultFlags, n))

ASSUME OneSizeStarts ==
    \A n \in 1 .. 64, k \in 0 .. 8 :
        LET With(name) == FromEnv([v \in {name} |-> k], DefaultFlags, n) IN
        /\ Accepted(With("stateMax")) <=> k >= AtLeast(n \div 2, 2)
        /\ Accepted(With("stateMin")) <=> k \in 1 .. AtLeast(n * 2, 4)
        /\ Accepted(With("dataWorkers")) <=> k >= AtLeast(n * 2, 4)
=============================================================================
