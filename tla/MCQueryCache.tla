---------------------------- MODULE MCQueryCache ----------------------------
(* QueryCache for two queries, one of them a join, and two writes of the   *)
(* table they share, one of which names no table extract_tables() finds.   *)
EXTENDS QueryCache, TLC

MCKeys == {"single", "join"}
MCWrites == {"write_a", "write_unresolved"}
MCTables == {"a", "b"}

MCReads == "single" :> {"a"} @@ "join" :> {"a", "b"}
MCTouches == "write_a" :> {"a"} @@ "write_unresolved" :> {"a"}
MCWriteNames == "write_a" :> {"a"} @@ "write_unresolved" :> {}

OneKey == {"single"}
OneWrite == {"write_a"}
OneTable == {"a"}
OneReads == "single" :> {"a"}
OneTouches == "write_a" :> {"a"}

OneProc == [t \in Tasks |-> CHOOSE p \in Procs : TRUE]

TaskSymmetry == Permutations(Tasks)

NoFaults == {}
Cancellations == {"cancel"}
AnyFault == FaultKinds
=============================================================================
