----------------------------- MODULE MCMsgQueue -----------------------------
(* Model checking of MsgQueue: tasks and items are interchangeable. *)
EXTENDS MsgQueue, TLC

Symmetry == Permutations(Tasks) \cup Permutations(Items)
=============================================================================
