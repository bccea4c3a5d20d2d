--------------------------- MODULE MCLockfreeList ---------------------------
(* Two threads, two keys and three calls from every list of these keys,    *)
(* with and without a hazard pointer that another container's thread owns: *)
(* then the second hp_owner of a call may throw.  No reclaim pass happens  *)
(* within these bounds (see MCLockfreeListReclaim for one).                *)
EXTENDS LockfreeListAnswers, TLC

ListSymmetry == Permutations(Threads) \cup Permutations(Nodes \ {head_})
=============================================================================
