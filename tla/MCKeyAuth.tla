----------------------------- MODULE MCKeyAuth -----------------------------
(* KeyAuth for one key of one user, which runs out before the clock stops, *)
(* and requests in one process and, with Remote, in a second one.          *)
EXTENDS KeyAuth, TLC

CONSTANTS
    Remote,      \* the task of the second process
    Here, There  \* the processes

MCProcOf == [t \in Tasks |-> IF t = Remote THEN There ELSE Here]
MCOwner == [k \in Keys |-> CHOOSE u \in Users : TRUE]
MCExpiry == [k \in Keys |-> 0]

Symmetry == {f @@ g : f \in Permutations(Tasks \ {Remote}), g \in Permutations(Roles)}

AnyFault == FaultKinds
=============================================================================
