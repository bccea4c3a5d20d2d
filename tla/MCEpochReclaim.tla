--------------------------- MODULE MCEpochReclaim ---------------------------
(* Three threads, two records (so that claiming can fail), two nodes and   *)
(* up to MaxEpoch guards: a thread observes a node, another retires it and *)
(* leaves, and collectors overlap with guards coming and going.            *)
EXTENDS EpochReclaim, TLC

ThreadSymmetry == Permutations(Threads)
=============================================================================
