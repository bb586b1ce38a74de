---------------------------- MODULE MCStateStore ----------------------------
(* StateStore for one task beside the flusher and the stopper. *)
EXTENDS StateStore, TLC

MCThreads == Tasks \cup {Flusher, Stopper}
=============================================================================
