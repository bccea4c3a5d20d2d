------------------------------- MODULE MCSync -------------------------------
(* What threads wait in: each behaviour uses one primitive, the bounded    *)
(* queue with four threads, two slots and four values, or one of the       *)
(* others with three threads.  Both condition variables of the queue have  *)
(* several sleepers at once, it fills and drains, and barging try_ calls   *)
(* race with woken threads.  Generations and the atomics' words are small  *)
(* enough to wrap around.                                                  *)
EXTENDS BlockingQueue, CondSync, SpinSync

VARIABLE family     \* the one of which a primitive is used

SyncVars == <<vars, condVars, spinVars, family>>

SyncInit ==
    /\ Init /\ CondInit /\ SpinInit
    /\ family \in {"queue", "cond", "spin"}
    /\ family # "cond" => prim = "latch"
    /\ family # "spin" => lock = "spinlock_mutex"

SyncNext ==
    \/ family = "queue" /\ Next /\ UNCHANGED <<condVars, spinVars, family>>
    \/ family = "cond" /\ CondNext /\ UNCHANGED <<vars, spinVars, family>>
    \/ family = "spin" /\ SpinNext /\ UNCHANGED <<vars, condVars, family>>

(* A thread in a call goes on: a woken thread gets the mutex in the end. *)
SyncSpec ==
    /\ SyncInit
    /\ [][SyncNext]_SyncVars
    /\ \A t \in Threads :
           WF_SyncVars(family = "queue" /\ Proceed(t) /\ UNCHANGED <<condVars, spinVars, family>>)
    /\ \A t \in Participants :
           WF_SyncVars(family = "cond" /\ CondProceed(t) /\ UNCHANGED <<vars, spinVars, family>>)
=============================================================================
