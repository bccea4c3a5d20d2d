----------------------------- MODULE ThreadPool -----------------------------
(***************************************************************************)
(* thread_pool (include/thread_pool.hpp) with its work_stealing_queues and *)
(* join_threads: submit, run_pending_task, the workers' loop and the       *)
(* destructor.  Extended by ForkJoin, whose tasks the pool runs.           *)
(*                                                                         *)
(* threadsafe_queue's try_pop and push take effect at one moment each      *)
(* (ThreadsafeQueue, ImplementsQueue), so pool_work_queue_ is a sequence;  *)
(* a work_stealing_queue is a deque under one mutex, front first.          *)
(*                                                                         *)
(* mode of a thread:                                                       *)
(*   "run"     outside run_pending_task: in a task or at a loop's test     *)
(*   "search"  run_pending_task: to look in its own and the shared queue   *)
(*   "steal"   in pop_task_from_other_thread_queue, visits to be made      *)
(*   "exited"  worker_thread has returned, or was never started            *)
(***************************************************************************)
EXTENDS Naturals, Sequences, SequencesExt, TLC

CONSTANTS
    thread_count,   \* the pool's workers are 0 .. thread_count - 1
    Callers         \* threads that use the pool and belong to none

(* The generator of steal offsets is kept modulo the number of queues,     *)
(* which is exact for the powers of two.                                   *)
ASSUME CountAssumption == thread_count \in {1, 2, 4}

Workers == 0..(thread_count - 1)
Threads == Workers \cup Callers

VARIABLES
    pool_work_queue_, queues_, done_,
    pool,       \* "open", "closing" (in its destructor) or "gone"
    future,     \* the state and the value of every submitted task's future
    mode,
    visits,     \* "steal": the queues still to be tried
    state       \* the generator's state, modulo thread_count

queues   == <<pool_work_queue_, queues_>>
search   == <<mode, visits, state>>
poolVars == <<queues, done_, pool, future, search>>

Future(s, v) == [state |-> s, value |-> v]

(* Only the workers below n were started. *)
Started(n) ==
    mode = [t \in Threads |-> IF t \in n..(thread_count - 1) THEN "exited" ELSE "run"]

(* Mutant: the catch block forgets done_. *)
ConstructorForgets == done_ = FALSE /\ pool = "closing" /\ \E n \in Workers : Started(n)

(* Starting a thread has thrown; joiner_ joins those already running. *)
ConstructorThrows == done_ = TRUE /\ pool = "closing" /\ \E n \in Workers : Started(n)

PoolInit ==
    /\ pool_work_queue_ = << >>
    /\ queues_ = [w \in Workers |-> << >>]
    /\ future = << >>
    /\ visits = [t \in Threads |-> << >>]
    /\ state = [t \in Threads |-> 1 % thread_count]
    /\ \/ done_ = FALSE /\ pool = "open" /\ Started(thread_count)
       \/ ConstructorThrows

(* submit: the future, and the task at the front of the worker's own queue *)
(* or, from a thread that is no worker, at the end of the shared one.      *)
Submit(t, task, none) ==
    /\ future' = future @@ (task :> Future("pending", none))
    /\ IF t \in Workers
       THEN /\ queues_' = [queues_ EXCEPT ![t] = <<task>> \o @]
            /\ UNCHANGED pool_work_queue_
       ELSE /\ pool_work_queue_' = Append(pool_work_queue_, task)
            /\ UNCHANGED queues_

-----------------------------------------------------------------------------
(* run_pending_task; TakeOwn, TakeShared and Steal end in task() *)

SetMode(t, m) == mode' = [mode EXCEPT ![t] = m]

OwnQueueEmpty(t) == t \in Workers => queues_[t] = << >>

TakeOwn(t, task) ==
    /\ mode[t] = "search"
    /\ ~OwnQueueEmpty(t)
    /\ task = Head(queues_[t])
    /\ queues_' = [queues_ EXCEPT ![t] = Tail(@)]
    /\ SetMode(t, "run")
    /\ UNCHANGED <<pool_work_queue_, done_, pool, future, visits, state>>

TakeShared(t, task) ==
    /\ mode[t] = "search"
    /\ OwnQueueEmpty(t)
    /\ pool_work_queue_ # << >>
    /\ task = Head(pool_work_queue_)
    /\ pool_work_queue_' = Tail(pool_work_queue_)
    /\ SetMode(t, "run")
    /\ UNCHANGED <<queues_, done_, pool, future, visits, state>>

(* random_steal_offset: the generator's next state. *)
NextState(t) == (state[t] * 1664525 + (1013904223 % thread_count)) % thread_count

(* The thread_count - 1 queues the loop visits; my_index is 0 in a thread  *)
(* that is no worker.                                                      *)
StealOrder(t) ==
    LET my_index == IF t \in Workers THEN t ELSE 0
        start == (my_index + 1 + NextState(t)) % thread_count
    IN  [i \in 1..(thread_count - 1) |-> (start + i - 1) % thread_count]

(* Both queues are empty: begin to steal, or with one queue just yield. *)
BeginSteal(t) ==
    /\ mode[t] = "search"
    /\ OwnQueueEmpty(t)
    /\ pool_work_queue_ = << >>
    /\ state' = [state EXCEPT ![t] = NextState(t)]
    /\ visits' = [visits EXCEPT ![t] = StealOrder(t)]
    /\ SetMode(t, IF thread_count > 1 THEN "steal" ELSE "run")
    /\ UNCHANGED <<queues, done_, pool, future>>

Steal(t, task) ==
    /\ mode[t] = "steal"
    /\ LET q == Head(visits[t]) IN
           /\ queues_[q] # << >>
           /\ task = Last(queues_[q])
           /\ queues_' = [queues_ EXCEPT ![q] = Front(@)]
    /\ visits' = [visits EXCEPT ![t] = << >>]
    /\ SetMode(t, "run")
    /\ UNCHANGED <<pool_work_queue_, done_, pool, future, state>>

(* try_steal finds nothing; after the last visit the thread yields. *)
StealMisses(t) ==
    /\ mode[t] = "steal"
    /\ queues_[Head(visits[t])] = << >>
    /\ visits' = [visits EXCEPT ![t] = Tail(@)]
    /\ SetMode(t, IF Len(visits[t]) = 1 THEN "run" ELSE "steal")
    /\ UNCHANGED <<queues, done_, pool, future, state>>

Take(t, task) == TakeOwn(t, task) \/ TakeShared(t, task) \/ Steal(t, task)

(* The tasks t might be handed next. *)
Queued == UNION ({ToSet(queues_[w]) : w \in Workers} \cup {ToSet(pool_work_queue_)})

-----------------------------------------------------------------------------

(* The test of worker_thread's loop, between two tasks. *)
WorkerLoop(t) ==
    /\ t \in Workers
    /\ mode[t] = "run"
    /\ SetMode(t, IF done_ THEN "exited" ELSE "search")
    /\ UNCHANGED <<queues, done_, pool, future, visits, state>>

(* ~thread_pool, before the members are destroyed. *)
Destroy ==
    /\ pool = "open"
    /\ pool' = "closing"
    /\ done_' = TRUE
    /\ UNCHANGED <<queues, future, search>>

(* ~join_threads returns once every worker has; then the queues go, and a  *)
(* packaged_task that was never run breaks its promise.                    *)
JoinThreads ==
    /\ pool = "closing"
    /\ \A w \in Workers : mode[w] = "exited"
    /\ pool' = "gone"
    /\ pool_work_queue_' = << >>
    /\ queues_' = [w \in Workers |-> << >>]
    /\ future' = [task \in DOMAIN future |->
                     IF task \in Queued THEN [future[task] EXCEPT !.state = "broken"]
                     ELSE future[task]]
    /\ UNCHANGED <<done_, search>>

=============================================================================
