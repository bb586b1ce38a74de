---------------------------- MODULE MCTokenAuth ----------------------------
(* TokenAuth with one request per process at a time. *)
EXTENDS TokenAuth, TLC

CONSTANTS
    Remote,      \* the task of the second process
    Here, There  \* the processes

MCProcOf == [t \in Tasks |-> IF t = Remote THEN There ELSE Here]

UserSymmetry == Permutations(Users)

AnyFault == FaultKinds
=============================================================================
