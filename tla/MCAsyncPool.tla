---------------------------- MODULE MCAsyncPool ----------------------------
(* AsyncPool with model values for tasks and connections. *)
EXTENDS AsyncPool, TLC

Everything == FaultKinds
BrokenOnly == {"broken"}
CancelBroken == {"cancel", "broken"}
TimeoutBroken == {"timeout", "broken"}

PoolSymmetry == Permutations(Tasks) \cup Permutations(Conns)
=============================================================================
