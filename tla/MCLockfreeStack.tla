-------------------------- MODULE MCLockfreeStack --------------------------
(* Addresses are reused while other threads still hold them, three threads *)
(* compete for two hazard pointers, and reclaim passes overlap with pops.  *)
EXTENDS LockfreeStack, TLC

StackSymmetry == Permutations(Threads) \cup Permutations(Nodes)
============================================================================
