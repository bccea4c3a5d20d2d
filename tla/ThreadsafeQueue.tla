-------------------------- MODULE ThreadsafeQueue --------------------------
(***************************************************************************)
(* threadsafe_queue<T> (include/threadsafe_queue.hpp): a linked queue with *)
(* a dummy node, one mutex for the head and one for the tail, and one      *)
(* condition variable that waits with head_mutex_ while push notifies      *)
(* without it.                                                             *)
(*                                                                         *)
(* A step is one critical section of tail_mutex_, one notify_one, or one   *)
(* step of a thread that holds head_mutex_: get_tail (which locks          *)
(* tail_mutex_ meanwhile), going to sleep, or pop_head.  Node n is the     *)
(* node of the n-th push call; node 0 is the first dummy.                  *)
(*                                                                         *)
(* pc of a thread:                                                         *)
(*   "idle"     outside the queue                                          *)
(*   "append"   push: about to lock tail_mutex_                            *)
(*   "notify"   push: tail_mutex_ released, notify_one to be called        *)
(*   "lock"     wait_and_pop, try_pop or empty: about to lock head_mutex_  *)
(*   "tail"     head_mutex_ held, about to compare head with get_tail()    *)
(*   "sleep"    data_cond_.wait: the predicate was false, about to sleep   *)
(*   "asleep"   asleep in data_cond_.wait, head_mutex_ released            *)
(*   "pop"      head_mutex_ held, about to run pop_head                    *)
(*   "return"   head_mutex_ released, the answer to be returned            *)
(***************************************************************************)
EXTENDS Naturals, Sequences

CONSTANTS
    Threads,
    MaxPushes,      \* bound: how many push calls are made
    NoThread,       \* head_mutex_ is free
    None, Empty     \* no answer pending; the answer "nothing there"

ASSUME BoundAssumption == MaxPushes \in Nat
ASSUME DistinctAssumption ==
    NoThread \notin Threads /\ {None, Empty} \cap Nat = {} /\ None # Empty

VARIABLES
    head, tail,     \* nodes
    data, next,     \* the nodes' fields, 0 while unset
    head_mutex_,    \* its owner
    pc,
    op,             \* the operation a thread is in, "none" outside
    new_tail,       \* push: the node allocated, 0 outside push
    answer,         \* the answer a thread is about to return
    pushes          \* number of push calls made; the n-th carries n

list == <<head, tail, data, next>>
vars == <<list, head_mutex_, pc, op, new_tail, answer, pushes>>

Nodes == 0..MaxPushes
Values == 1..MaxPushes
Ops == {"wait_and_pop", "try_pop", "empty"}
PCs == {"idle", "append", "notify", "lock", "tail", "sleep", "asleep", "pop", "return"}

Init ==
    /\ head = 0 /\ tail = 0
    /\ data = [n \in Nodes |-> 0]
    /\ next = [n \in Nodes |-> 0]
    /\ head_mutex_ = NoThread
    /\ pc = [t \in Threads |-> "idle"]
    /\ op = [t \in Threads |-> "none"]
    /\ new_tail = [t \in Threads |-> 0]
    /\ answer = [t \in Threads |-> None]
    /\ pushes = 0

Goto(t, label) == pc' = [pc EXCEPT ![t] = label]

-----------------------------------------------------------------------------
(* push *)

(* make_unique<node>(), before any lock is taken. *)
CallPush(t) ==
    /\ pc[t] = "idle"
    /\ pushes < MaxPushes
    /\ pushes' = pushes + 1
    /\ new_tail' = [new_tail EXCEPT ![t] = pushes + 1]
    /\ Goto(t, "append")
    /\ UNCHANGED <<list, head_mutex_, op, answer>>

(* The value goes into the new dummy instead of the old one. *)
PushIntoNew(t) ==
    /\ pc[t] = "append"
    /\ data' = [data EXCEPT ![new_tail[t]] = new_tail[t]]
    /\ next' = [next EXCEPT ![tail] = new_tail[t]]
    /\ tail' = new_tail[t]
    /\ new_tail' = [new_tail EXCEPT ![t] = 0]
    /\ Goto(t, "notify")
    /\ UNCHANGED <<head, head_mutex_, op, answer, pushes>>

(* With tail_mutex_: fill the dummy node, append the new one. *)
Push(t) ==
    /\ pc[t] = "append"
    /\ data' = [data EXCEPT ![tail] = new_tail[t]]
    /\ next' = [next EXCEPT ![tail] = new_tail[t]]
    /\ tail' = new_tail[t]
    /\ new_tail' = [new_tail EXCEPT ![t] = 0]
    /\ Goto(t, "notify")
    /\ UNCHANGED <<head, head_mutex_, op, answer, pushes>>

(* data_cond_.notify_one(): a sleeper, if there is one, goes back to lock. *)
NotifyOne(t) ==
    /\ pc[t] = "notify"
    /\ \/ /\ \A s \in Threads : pc[s] # "asleep"
          /\ Goto(t, "idle")
       \/ \E s \in Threads :
              pc[s] = "asleep" /\ pc' = [pc EXCEPT ![t] = "idle", ![s] = "lock"]
    /\ UNCHANGED <<list, head_mutex_, op, new_tail, answer, pushes>>

-----------------------------------------------------------------------------
(* wait_and_pop, try_pop, empty *)

CallOp(t, o) ==
    /\ pc[t] = "idle"
    /\ op' = [op EXCEPT ![t] = o]
    /\ Goto(t, "lock")
    /\ UNCHANGED <<list, head_mutex_, new_tail, answer, pushes>>

(* head_mutex_ not taken. *)
LockNothing(t) ==
    /\ pc[t] = "lock"
    /\ head_mutex_' = t
    /\ Goto(t, "tail")
    /\ UNCHANGED <<list, op, new_tail, answer, pushes>>

LockHead(t) ==
    /\ pc[t] = "lock"
    /\ head_mutex_ = NoThread
    /\ head_mutex_' = t
    /\ Goto(t, "tail")
    /\ UNCHANGED <<list, op, new_tail, answer, pushes>>

(* head.get() == get_tail(): wait_and_pop goes to sleep, the others unlock *)
(* with their answer.                                                      *)
FoundEmpty(t) ==
    /\ pc[t] = "tail"
    /\ head = tail
    /\ \/ /\ op[t] = "wait_and_pop"
          /\ Goto(t, "sleep")
          /\ UNCHANGED <<head_mutex_, answer>>
       \/ /\ op[t] # "wait_and_pop"
          /\ answer' = [answer EXCEPT ![t] = Empty]
          /\ head_mutex_' = NoThread
          /\ Goto(t, "return")
    /\ UNCHANGED <<list, op, new_tail, pushes>>

(* head.get() != get_tail(): empty unlocks and returns false, the others   *)
(* go on to pop_head.                                                      *)
FoundData(t) ==
    /\ pc[t] = "tail"
    /\ head # tail
    /\ \/ /\ op[t] = "empty"
          /\ head_mutex_' = NoThread
          /\ Goto(t, "return")
       \/ /\ op[t] # "empty"
          /\ Goto(t, "pop")
          /\ UNCHANGED head_mutex_
    /\ UNCHANGED <<list, op, new_tail, answer, pushes>>

(* Sleeping with head_mutex_ still held. *)
SleepLocked(t) ==
    /\ pc[t] = "sleep"
    /\ Goto(t, "asleep")
    /\ UNCHANGED <<list, head_mutex_, op, new_tail, answer, pushes>>

(* wait unlocks head_mutex_ and sleeps in one step, but the predicate was  *)
(* evaluated in an earlier one, with tail_mutex_, which push takes too.    *)
Sleep(t) ==
    /\ pc[t] = "sleep"
    /\ head_mutex_' = NoThread
    /\ Goto(t, "asleep")
    /\ UNCHANGED <<list, op, new_tail, answer, pushes>>

SpuriousWakeup(t) ==
    /\ pc[t] = "asleep"
    /\ Goto(t, "lock")
    /\ UNCHANGED <<list, head_mutex_, op, new_tail, answer, pushes>>

(* pop_head: take the value and move the head on; unlock. *)
PopHead(t) ==
    /\ pc[t] = "pop"
    /\ answer' = [answer EXCEPT ![t] = data[head]]
    /\ head' = next[head]
    /\ head_mutex_' = NoThread
    /\ Goto(t, "return")
    /\ UNCHANGED <<tail, data, next, op, new_tail, pushes>>

Return(t) ==
    /\ pc[t] = "return"
    /\ answer' = [answer EXCEPT ![t] = None]
    /\ op' = [op EXCEPT ![t] = "none"]
    /\ Goto(t, "idle")
    /\ UNCHANGED <<list, head_mutex_, new_tail, pushes>>

-----------------------------------------------------------------------------

Call(t) == CallPush(t) \/ \E o \in Ops : CallOp(t, o)

Proceed(t) ==
    \/ Push(t) \/ NotifyOne(t)
    \/ LockHead(t) \/ FoundEmpty(t) \/ FoundData(t) \/ Sleep(t) \/ PopHead(t) \/ Return(t)

Next == \E t \in Threads : Call(t) \/ Proceed(t) \/ SpuriousWakeup(t)

Spec == Init /\ [][Next]_vars

(* Running threads keep running.  Nothing is assumed of callers, nor of    *)
(* spurious wakeups, nor of who gets head_mutex_ when several want it.     *)
FairSpec == Spec /\ \A t \in Threads : WF_vars(Proceed(t))

-----------------------------------------------------------------------------

(* Types: every node up to pushes has been allocated, and only the thread  *)
(* that owns head_mutex_ is inside its critical section.                   *)
TypeOK ==
    /\ head \in 0..pushes /\ tail \in 0..pushes
    /\ data \in [Nodes -> 0..pushes] /\ next \in [Nodes -> 0..pushes]
    /\ head_mutex_ \in Threads \cup {NoThread}
    /\ pc \in [Threads -> PCs]
    /\ op \in [Threads -> Ops \cup {"none"}]
    /\ new_tail \in [Threads -> 0..pushes]
    /\ answer \in [Threads -> {None, Empty} \cup Values]
    /\ pushes \in 0..MaxPushes
    /\ \A t \in Threads : pc[t] \in {"tail", "sleep", "pop"} <=> head_mutex_ = t

(* The i-th node after the head, the dummy at the tail from there on. *)
From[i \in 0..MaxPushes] ==
    IF i = 0 THEN head ELSE IF From[i - 1] = tail THEN tail ELSE next[From[i - 1]]

Size == CHOOSE i \in 0..MaxPushes :
            From[i] = tail /\ \A j \in 0..(i - 1) : From[j] # tail

(* The values of the nodes from the head up to, and without, the dummy. *)
Contents == [i \in 1..Size |-> data[From[i - 1]]]

(* threadsafe_queue is a queue, although push and pop run under different  *)
(* mutexes: a pop takes effect at pop_head, and try_pop and empty answer   *)
(* "nothing there" as of their get_tail.                                   *)
AbstractQueue == INSTANCE FifoQueue WITH queue <- Contents
ImplementsQueue == AbstractQueue!Spec

(* Whoever locks head_mutex_ gives it back without anybody's help, whether *)
(* it finds data or goes to sleep: a waiting consumer does not keep        *)
(* try_pop and empty out.                                                  *)
HeadMutexIsReleased ==
    \A t \in Threads : head_mutex_ = t ~> head_mutex_ # t

(* "wait_and_pop blocks until data arrives" (tests/test_queue.cpp:120): a  *)
(* thread asleep in wait_and_pop does not stay asleep beside a queue that  *)
(* keeps holding data.                                                     *)
WaitersAreServed ==
    \A t \in Threads :
        (pc[t] = "asleep" /\ head # tail) ~> (pc[t] # "asleep" \/ head = tail)

============================================================================
