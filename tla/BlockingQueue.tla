--------------------------- MODULE BlockingQueue ---------------------------
(***************************************************************************)
(* blocking_queue<T> (include/blocking_queue.hpp): a bounded queue guarded *)
(* by one mutex with two condition variables.  push and wait_and_pop sleep *)
(* while the queue is full or empty; every operation that changes the      *)
(* queue unlocks FIRST and notifies one sleeper of the other side AFTER.   *)
(*                                                                         *)
(* A step is one critical section of mutex_ or one notify_one.  Everything *)
(* the operations share is read and written under mutex_, so a critical    *)
(* section is atomic for every other thread, and condition_variable::wait  *)
(* unlocks and goes to sleep in one step.                                  *)
(*                                                                         *)
(* pc of a thread:                                                         *)
(*   "idle"            outside the queue                                   *)
(*   "push", "pop"     in push or wait_and_pop, about to lock mutex_ and   *)
(*                     evaluate the predicate (first time or after waking) *)
(*   "not_full_",      asleep in not_full_.wait or not_empty_.wait         *)
(*   "not_empty_"                                                          *)
(*   "notify_not_empty", "notify_not_full"                                 *)
(*                     mutex_ released, notify_one still to be called      *)
(***************************************************************************)
EXTENDS Naturals, Sequences, FiniteSets

CONSTANTS
    Threads,    \* the threads that share the queue
    capacity_,  \* capacity given to the constructor
    MaxPushes   \* bound: how many push and try_push calls are made

ASSUME ThreadsAssumption == IsFiniteSet(Threads)

(* The constructor throws std::invalid_argument for a capacity of zero. *)
ASSUME CapacityAssumption == capacity_ \in Nat \ {0}

ASSUME BoundAssumption == MaxPushes \in Nat

VARIABLES
    data_,      \* the deque, front first
    pc,         \* where each thread stands
    arg,        \* the value a thread in push carries, 0 outside push
    calls       \* the push and try_push calls made; the n-th carries n

vars == <<data_, pc, arg, calls>>

PCs == {"idle", "push", "pop", "not_full_", "not_empty_",
        "notify_not_empty", "notify_not_full"}

At(label) == {t \in Threads : pc[t] = label}

Init ==
    /\ data_ = << >>
    /\ pc = [t \in Threads |-> "idle"]
    /\ arg = [t \in Threads |-> 0]
    /\ calls = 0

Goto(t, label) == pc' = [pc EXCEPT ![t] = label]

Full == Len(data_) >= capacity_

-----------------------------------------------------------------------------

CallPush(t) ==
    /\ pc[t] = "idle"
    /\ calls < MaxPushes
    /\ calls' = calls + 1
    /\ arg' = [arg EXCEPT ![t] = calls + 1]
    /\ Goto(t, "push")
    /\ UNCHANGED data_

CallWaitAndPop(t) ==
    /\ pc[t] = "idle"
    /\ Goto(t, "pop")
    /\ UNCHANGED <<data_, arg, calls>>

(* push with mutex_ held: not_full_.wait's predicate fails, sleep. *)
PushWait(t) ==
    /\ pc[t] = "push"
    /\ Full
    /\ Goto(t, "not_full_")
    /\ UNCHANGED <<data_, arg, calls>>

(* push as it would be had the predicate been tested once, with an `if'    *)
(* around the wait, so that a woken thread appends without looking again.  *)
PushNoRecheck(t) ==
    /\ pc[t] = "push"
    /\ data_' = Append(data_, arg[t])
    /\ arg' = [arg EXCEPT ![t] = 0]
    /\ Goto(t, "notify_not_empty")
    /\ UNCHANGED calls

(* push with mutex_ held: the predicate holds, append and unlock. *)
Push(t) ==
    /\ pc[t] = "push"
    /\ ~Full
    /\ data_' = Append(data_, arg[t])
    /\ arg' = [arg EXCEPT ![t] = 0]
    /\ Goto(t, "notify_not_empty")
    /\ UNCHANGED calls

WaitAndPopWait(t) ==
    /\ pc[t] = "pop"
    /\ data_ = << >>
    /\ Goto(t, "not_empty_")
    /\ UNCHANGED <<data_, arg, calls>>

(* wait_and_pop without its trailing not_full_.notify_one(). *)
WaitAndPopSilent(t) ==
    /\ pc[t] = "pop"
    /\ data_ # << >>
    /\ data_' = Tail(data_)
    /\ Goto(t, "idle")
    /\ UNCHANGED <<arg, calls>>

WaitAndPop(t) ==
    /\ pc[t] = "pop"
    /\ data_ # << >>
    /\ data_' = Tail(data_)
    /\ Goto(t, "notify_not_full")
    /\ UNCHANGED <<arg, calls>>

(* try_push and try_pop: one critical section; on success notify_one       *)
(* follows outside it, on failure the call returns at once.                *)
TryPush(t) ==
    /\ pc[t] = "idle"
    /\ calls < MaxPushes
    /\ calls' = calls + 1
    /\ \/ /\ Full
          /\ UNCHANGED <<data_, pc>>
       \/ /\ ~Full
          /\ data_' = Append(data_, calls + 1)
          /\ Goto(t, "notify_not_empty")
    /\ UNCHANGED arg

TryPop(t) ==
    /\ pc[t] = "idle"
    /\ data_ # << >>
    /\ data_' = Tail(data_)
    /\ Goto(t, "notify_not_full")
    /\ UNCHANGED <<arg, calls>>

(* not_empty_.notify_one() or not_full_.notify_one(), then return: one of  *)
(* the sleepers, if there are any, goes back to lock mutex_.               *)
NotifyOne(t, label, sleeping, woken) ==
    /\ pc[t] = label
    /\ \/ /\ At(sleeping) = {}
          /\ Goto(t, "idle")
       \/ \E s \in At(sleeping) :
              pc' = [pc EXCEPT ![t] = "idle", ![s] = woken]
    /\ UNCHANGED <<data_, arg, calls>>

(* A notify_one on the wrong condition variable. *)
NotifyNotEmptyWrong(t) == NotifyOne(t, "notify_not_empty", "not_full_", "push")

NotifyNotEmpty(t) == NotifyOne(t, "notify_not_empty", "not_empty_", "pop")

NotifyNotFull(t) == NotifyOne(t, "notify_not_full", "not_full_", "push")

(* A condition variable may wake a sleeper nobody notified. *)
SpuriousWakeup(t) ==
    /\ \/ pc[t] = "not_empty_" /\ Goto(t, "pop")
       \/ pc[t] = "not_full_" /\ Goto(t, "push")
    /\ UNCHANGED <<data_, arg, calls>>

Call(t) ==
    \/ CallPush(t) \/ TryPush(t)
    \/ CallWaitAndPop(t) \/ TryPop(t)

(* What a thread does inside an operation without anybody else's help. *)
Proceed(t) ==
    \/ PushWait(t) \/ Push(t)
    \/ WaitAndPopWait(t) \/ WaitAndPop(t)
    \/ NotifyNotEmpty(t) \/ NotifyNotFull(t)

Next == \E t \in Threads : Call(t) \/ Proceed(t) \/ SpuriousWakeup(t)

Spec == Init /\ [][Next]_vars

(* A running thread keeps running and mutex_ is handed on: a thread in an  *)
(* operation that is not asleep takes its next step eventually.  Nothing   *)
(* is assumed of callers or of spurious wakeups.                           *)
FairSpec == Spec /\ \A t \in Threads : WF_vars(Proceed(t))

-----------------------------------------------------------------------------

(* Types: the queue holds values of calls already made, and never more of  *)
(* them than capacity_, though a push that was woken from not_full_.wait   *)
(* competes with barging push and try_push calls for the free slot.        *)
TypeOK ==
    /\ data_ \in Seq(1..calls)
    /\ Len(data_) <= capacity_
    /\ pc \in [Threads -> PCs]
    /\ arg \in [Threads -> 0..calls]
    /\ \A t \in Threads : pc[t] \in {"push", "not_full_"} => arg[t] # 0
    /\ calls \in 0..MaxPushes

(* While a wait_and_pop sleeps on not_empty_, every element in the queue   *)
(* has somebody bound for it: a notify_one(not_empty_) not yet called, or  *)
(* a thread that will test the predicate before it sleeps.  So a wakeup is *)
(* never lost although push notifies after unlocking.                      *)
NoLostConsumerWakeup ==
    At("not_empty_") # {} =>
        Len(data_) <= Cardinality(At("notify_not_empty")) + Cardinality(At("pop"))

(* The same for the free slots and the pushes asleep on not_full_. *)
NoLostProducerWakeup ==
    At("not_full_") # {} =>
        capacity_ <= Len(data_) + Cardinality(At("notify_not_full"))
                                + Cardinality(At("push"))

(* A push asleep on a full queue and a wait_and_pop asleep on an empty one *)
(* never wait for each other: while both sides have a sleeper, some thread *)
(* in the queue is awake.                                                  *)
NoMutualSleep ==
    (At("not_empty_") # {} /\ At("not_full_") # {})
        => \E t \in Threads : pc[t] \notin {"idle", "not_empty_", "not_full_"}

(* A thread asleep in wait_and_pop does not stay there beside a queue that *)
(* keeps holding data; nor a push beside a queue that keeps a free slot.   *)
ConsumersAreServed ==
    \A t \in Threads :
        (pc[t] = "not_empty_" /\ data_ # << >>)
            ~> (pc[t] # "not_empty_" \/ data_ = << >>)

ProducersAreServed ==
    \A t \in Threads :
        (pc[t] = "not_full_" /\ ~Full) ~> (pc[t] # "not_full_" \/ Full)

============================================================================
