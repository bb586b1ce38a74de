----------------------------- MODULE MCDbSession -----------------------------
(* DbSession for two requests that share one pooled connection. *)
EXTENDS DbSession, TLC

TaskSymmetry == Permutations(Tasks)
=============================================================================
