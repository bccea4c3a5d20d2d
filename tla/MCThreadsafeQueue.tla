------------------------- MODULE MCThreadsafeQueue -------------------------
(* Three threads and three values: a producer and two consumers, or the    *)
(* other way round, with try_pop and empty in between.                     *)
EXTENDS ThreadsafeQueue
============================================================================
