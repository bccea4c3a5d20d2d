----------------------- MODULE MCLockfreeListReclaim -----------------------
(* lockfree_list with a reclaim pass at every retirement. *)
EXTENDS LockfreeList, TLC

ListSymmetry == Permutations(Threads) \cup Permutations(Nodes \ {head_})
============================================================================
