-------------------------- MODULE MCLockfreeQueue --------------------------
(* Two pushes and a pop by three threads. *)
EXTENDS LockfreeQueue

ThreadSymmetry == Permutations(Threads)
=============================================================================
