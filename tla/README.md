# A TLA+ model of Bonostl

Bonostl is a header-only C++ library of concurrent containers, synchronization
primitives and parallel algorithms (`include/`). Nothing in it is persistent or
distributed: all that is hard is the interleaving of threads on shared memory,
memory reclamation without locks, and wakeups. These modules model the parts
that carry that difficulty, check them with TLC on small instances, and prove
the main results for every instance with TLAPS.

## Inventory

| component | state | operations | what is hard | what makes it correct |
|---|---|---|---|---|
| `hazard_ptr` | global array of (owner, pointer), list of nodes to reclaim, counter | `hp_owner`, `reclaim_later`, `delete_nodes_with_no_hazards` | scans race with publication; overlapping passes; the array is finite | no published and validated node is deleted; each node deleted once |
| `epoch_reclaim` | registry of (owner, epoch, active), global epoch, retired list | `guard`, `retire`, `collect` | guards come and go while the registry is read | a guard's nodes stay allocated; nothing deleted twice or lost |
| `lockfree_stack` | head, nodes | `push`, `pop` | ABA, use after free | a linearizable stack |
| `lockfree_list` | sentinel, nodes with mark bits | `insert`, `erase`, `contains` | marked and unlinked predecessors, shared unlinking | a linearizable sorted set, nodes retired once |
| `lockfree_queue` | head and tail with split reference counts | `push`, `pop` | counts, helping | a linearizable queue, nodes freed once |
| `lockfree_hash_map` | split-ordered list, bucket count, size | `get`, `put`, `erase`, `contains`, growth | sentinels made on demand, size out of step | a linearizable map, sentinels before their data |
| `concurrent_skip_list` | towers with locks and flags over `epoch_reclaim` | `insert`, `erase`, `contains` | lock order, validation after locking | a linearizable set, no deadlock |
| `threadsafe_queue` | linked queue, head and tail mutex, condition variable | `push`, `wait_and_pop`, `try_pop`, `empty` | two mutexes, one condition variable | a queue whose waiters are woken |
| `blocking_queue` | bounded deque, mutex, two condition variables | `push`, `wait_and_pop`, `try_push`, `try_pop` | notification after unlocking | bounded, no lost wakeup, no deadlock |
| `threadsafe_stack`, `threadsafe_list`, `threadsafe_lookup_table`, `queue` | containers with coarse, hand-over-hand and per-bucket locks (`queue`: none) | the usual ones | lock order along the list, snapshots | each operation atomic |
| `semaphore`, `latch`, `barrier` | counters under a mutex with a condition variable | acquire/release, count down, arrive | notification outside the lock, generations, failing completion | no lost wakeup, phases separated |
| `seqlock`, `shared_spinlock`, `spinlock_mutex` | one atomic word | lock, read and write sections | wrap-around, starvation | exclusion, no torn read accepted |
| `thread_pool`, `work_stealing_queue`, `function_wrapper`, `join_threads` | queues, done flag, threads | `submit`, `run_pending_task`, destruction | helping instead of blocking, shutdown | every task runs or its promise is broken |
| `parallel_*` | futures, promises, blocks | accumulate, find, sort, scan, ... | chains of promises, exceptions | the result of the sequential algorithm |

Components meet through calls only: the stack, the list and the hash map use
`hazard_ptr`, the skip list uses `epoch_reclaim`, the pool uses
`threadsafe_queue`, the pool-based algorithms use the pool. The hazard pointer
array is global, so containers of different types compete for it.
`PROJECT.json` lists every component, including those left out and why, and the
hazards of the code line by line.

## Modules

| module | models | state and steps |
|---|---|---|
| `BlockingQueue` | `blocking_queue.hpp` | a step is a critical section of `mutex_` or a `notify_one`; `pc` says where a thread stands, asleep included |
| `ThreadsafeQueue` | `threadsafe_queue.hpp` | as above for `tail_mutex_`; a thread with `head_mutex_` takes several steps, because `push` does not need that mutex |
| `EpochReclaim` | `epoch_reclaim.hpp` | a step is one atomic access of `claim_slot`, `release_slot`, `retire`, `collect` |
| `HazardPtr` | `hazard_ptr.hpp` | a step is one atomic access; extended by the containers |
| `LockfreeStack` | `lockfree_stack.hpp` with `HazardPtr` | a step is one atomic access of `push` or `pop` or one of `HazardPtr`'s |
| `LockfreeList` | `lockfree_list.hpp` with `HazardPtr` | the same for `insert`, `erase`, `contains` and `find` |
| `LockfreeListAnswers` | | adds a history variable to state when an answer is right |
| `LockfreeQueue` | `lockfree_queue.hpp` | a step is one atomic access of `push`, `pop` or `set_new_tail`; a loop that only counts is one step, its success |
| `SkipList` | `concurrent_skip_list.hpp` | a step is one load or store another thread can notice; what is done under a node's mutex to fields written only under it belongs to the step that locks |
| `HashMap` | `lockfree_hash_map.hpp` | a step is one atomic access of `put`, `get`, `erase`, `contains`, the search, `find_bucket` (a stack of the buckets being made) or `grow` |
| `CondSync` | `semaphore.hpp`, `latch.hpp`, `barrier.hpp` | a step is a critical section up to a sleep or the unlock, or a notification |
| `SpinSync` | `seqlock.hpp`, `shared_spinlock.hpp`, `spinlock_mutex.hpp` | a step is one atomic access, or one access to a field the seqlock protects |
| `ThreadPool` | `thread_pool.hpp`, `work_stealing_queue.hpp`, `join_threads.hpp` | a step is one access to a queue, to `done_` or to a future |
| `ForkJoin` | the pool-based `parallel_*.hpp` with `ThreadPool` | a call stack per thread: a task that is run while a call waits lies above that call; one step per element, fork, or look at a future |
| `Stack`, `KeySet`, `FifoQueue` | what callers are promised | abstract specifications the modules above are shown to implement |
| `BlockingQueueProofs`, `EpochReclaimProofs`, `LockfreeStackProofs`, `LockfreeListProofs`, `ThreadsafeQueueProofs`, `SkipListProofs` | | the theorems about the module named, with their inductive invariants |
| `SyncProofs` | | the same for `CondSync` and `SpinSync` |
| `ListLemmas` | | chains of nodes in the order of their keys and what links and unlinks in them, walks along pointers, least elements, induction over an interval, and `Append`/`Tail` by index, proved once for the list proofs |
| `MC...` | | what TLC needs: symmetry sets, input ranges; `MCSync` chooses one primitive per behaviour, `MCOrderedSets` the skip list or the hash map |

Conventions. Variables and operators keep the names of the code. `pc[t]` names
the next step of thread `t`; a local variable of an operation is a function of
the thread and is reset when its scope ends. Actions carry the guard of the
code's conditions. The operators with a comment such as "a load instead of the
exchange" or "Mutant: ..." next to an action are deliberately wrong variants:
replacing the action by the variant makes TLC report the property it is paired
with in `PROJECT.json`.

What is abstracted:

* Memory is sequentially consistent. The code's acquire/release operations allow
  a store to be overtaken by a later load (`lockfree_stack.hpp:60`,
  `epoch_reclaim.hpp:143`); such executions are outside these models and listed
  as hazards without a property.
* Values are numbers (the n-th push carries n), nodes are addresses. In
  `LockfreeStack` and `LockfreeList` a deleted address can be allocated again.
* The retired and reclaim lists are sets: a pass visits all of the detached list,
  in whatever order. A `compare_exchange` loop that pushes on such a list is one
  step, its success; failed attempts change nothing that others see.
* `hp_owner`'s constructor is modelled access by access in `LockfreeStack`, where
  a thread does it once, and as one step in `LockfreeList`, where every call does
  it twice: which hazard pointer it gets makes no difference to the list.
* `HazardPtr` lets hazard pointers be owned by threads outside the model
  (`MaxOutsiders`), because the array is global.
* `EpochReclaim`'s client is arbitrary: in a guard it may observe any linked node,
  keep the pointer for the rest of the guard, and unlink and retire nodes it has
  observed. `Unguarded` says whether nodes are also unlinked and retired, and
  `collect()` called, outside guards, as `tests/test_epoch.cpp` does.
* `SkipList` does not reuse addresses: every operation is inside an epoch guard,
  and `GuardsProtect` says that what a guard has observed stays allocated. An insert
  needs a node that has not been used (`MaxNodes`, a bound: the run has as many as
  its calls can take).
  `LockfreeQueue` does not reuse them either; the value is lost without that.
* `HashMap` is checked without a reclaim pass, so what its hazard pointers point to
  is left out: the search is the one of `LockfreeList`, defect included
  (`lockfree_list_reclaim`). That `hp_owner` may throw is not: the array is global
  and threads outside may own all of it at any moment, so every construction of an
  `hp_owner` may throw, at the start of `get`, `erase` and `contains`, at every level
  of `find_bucket` and in `put` after the node has been allocated
  (`lockfree_hash_map.hpp:77`-`:80`). That node is then leaked; `leaked` records it,
  and `SplitOrdered` says that no other node is lost.
  Hashes have 3 bits instead of 32 and `size_` wraps at 16; both are parameters.
  A replaced value is one store, since the snapshot is an atomic `shared_ptr`.
* `ThreadPool` takes `threadsafe_queue`'s `push` and `try_pop` as single steps,
  which `ImplementsQueue` justifies. The generator of steal offsets is kept modulo
  the number of queues, which is exact when that is a power of two.
* `ForkJoin` runs one algorithm per behaviour. The scans are over concatenation,
  which is associative and not commutative, so a block out of order shows. Elements
  are numbers whose last digit is the key: equal keys can be told apart, so
  stability shows. What `std::partition` and `std::list::sort` leave unspecified is
  a nondeterministic choice.
* Counters that wrap keep their wrap-around with a small modulus: `generation_`
  (modulo 2), `sequence_` and `state_` (modulo 8). Their bounds (`MaxWrites`,
  number of threads) are smaller than a full turn, as they are in the code.
* The seqlock's reader keeps its copy when `read_retry` returns true, as the tests
  do, or (`UsageComment`) when it returns false, as the usage comment in
  `seqlock.hpp` tells; see the run `seqlock_usage`.
* Nobody counts a latch down once it is open, a bound on the callers: `count_` would
  only go on falling.
* Destructors of containers run alone: those of `SkipList`, `LockfreeQueue` and the
  pool are modelled, the others only pop or delete what is left. Observers that
  change nothing (`size`, `capacity`, `try_wait`) are left out.

## Runs

| run | bounds | shows |
|---|---|---|
| `epoch` | 3 threads, 2 records, 2 nodes, 4 guards, threshold 2 | no use after free, each node at one place, none lost |
| `epoch_unguarded` | 3 threads, 2 records, 1 node, 2 guards | violation: `collect()` outside a guard deletes a node a guard has observed |
| `lockfree_stack` | 3 threads, 2 hazard pointers, 2 addresses, 4 pushes, threshold 2 | implements `Stack`; no use after free, no double deletion, no leak |
| `lockfree_list` | 2 threads, 2 keys, 3 calls from every initial list, 4 hazard pointers of which an outsider may own one | implements `KeySet`; sorted; answers right; nodes retired once; hazard pointers given back when one throws |
| `lockfree_list_reclaim` | 2 threads, list 1, 2, 3, 4 erase calls, threshold 1 | violation: `find` dereferences a deleted node |
| `threadsafe_queue` | 3 threads, 3 push calls | implements `FifoQueue`; `head_mutex_` always released |
| `threadsafe_queue_wakeup` | 2 threads, 2 push calls | violation: a notification is lost and the consumer sleeps beside the data |
| `fork_join` | 2 workers, 1 caller, depth 3, leaves of one element, ranges of 3 to 7 elements | results are those of the sequential algorithms; no task outlives its call unless something threw in that call; calls return; futures settle, also when the pool is destroyed or its construction fails |
| `ordered_sets` | skip list: 3 threads, 2 keys, 2 levels, 3 calls from three initial lists; hash map: 2 calls on 3 keys, 2 of them with one hash, from four maps of 1 to 4 buckets | both implement `KeySet` and answer what was true; skip list: towers whole and sorted, nodes retired once and none lost, no circular wait; hash map: split order kept, searches started before what they look for, no node lost but that of a put that throws, size exact in the end |
| `sync` | one primitive per behaviour. `blocking_queue`: 4 threads, 2 slots, 4 push calls; the others: 3 threads; 2 permits; 3 phases with a generation modulo 2; words modulo 8, 2 writes | `blocking_queue`: capacity respected, no lost wakeup in either direction, no mutual sleep, sleepers served; semaphores, latch and barrier: no lost wakeup, sleepers go on, phases separated; spinlocks exclude; no torn read by readers who use `read_retry` as the tests do |
| `seqlock_usage` | as `sync` | violation: a reader that loops as the usage comment tells keeps a torn copy |
| `lockfree_queue` | 3 threads, 2 pushes, 1 pop | violation: a value that was pushed is in no queue |

Why the bounds suffice for the cases of interest. Two slots and four threads let
both condition variables of `blocking_queue` have several sleepers while other
threads barge in. Three threads and two records make a guard fail to find a
record and let a third party retire and collect what a first one observes; a
fourth guard lets a record change hands under a collector's scan. With two
addresses and four pushes the stack reuses an address while another thread holds
it (ABA), with a third thread's reclaim pass in between; the same model with three
addresses was checked once (2.7 million states). Two keys give a list in which the
predecessor, the current node, or both are erased, re-inserted or unlinked by the
other thread during a search. Thresholds are smaller than in the code (200 and
128) so that passes happen; in `lockfree_list` the threshold is out of reach of
the three calls, and `lockfree_list_reclaim` looks at what a pass changes.

Two workers and the caller make three threads that help: the five elements of
`any_of` give a chain of three tasks that wait for each other, more than there are
workers, and the steal loop then visits one queue of two, so that a task may be
missed by one round. The inputs have elements that throw in the submitted half, in
the thread's own half and beside a match. Three threads on a skip list are two
inserts that lock each other's predecessors and an erase that marks one of them;
two levels are enough for a node that is linked on one level only and for a
predecessor that spans levels. The maps of `ordered_sets` have a bucket whose parent
is missing too, so that two threads may make the same two sentinels, and sizes at
which one or two puts double the table under the other call. Three phases let the barrier's generation come back
to a slow thread's value, and two writes let the sequence wrap around under a
reader and overlap one read; the same model with three writes was checked once (957
thousand states).

Deadlock checking is off where threads may rightly stop: all bounded calls made
and consumers left waiting, or no address left to allocate.

Fairness. `FairSpec` of the two queues assumes weak fairness of the steps a thread
inside an operation can take by itself (the operating system runs it, a mutex that
stays free is taken). Nothing is assumed of callers, of spurious wakeups or of which
waiter gets a contended mutex. The liveness properties are the only ones that use
it: `ConsumersAreServed`, `ProducersAreServed`, `HeadMutexIsReleased`, and
`WaitersAreServed`, which fails. `MCSync` carries `BlockingQueue`'s over and assumes
the same of `CondSync`'s `CondProceed`, for `SleepersProceed`. `ForkJoin`'s
`FairSpec` assumes weak fairness of every thread's next step and of the join at the
end: the loops that wait for a future or for work yield and never block. Callers
need not call, and the pool need not be destroyed.

### The five violations

* **`epoch_unguarded`**. t1 calls `collect()` outside a guard and reads a record as
  inactive whose guard t2 is about to activate; t2 does and observes the node, which
  is unlinked and retired (by t2 itself, or by a third thread); t1, whose minimum is
  the largest number, detaches the list and deletes the node while t2's guard lives.
  Inside a guard the collector's own epoch bounds the minimum and this cannot happen
  (theorem `GuardsProtect`). The library itself calls `collect` from `retire`, in a
  guard; the tests also call both outside one (`tests/test_epoch.cpp:46`, `:54`-`:56`,
  `:87`), with no other thread at work.
* **`lockfree_list_reclaim`**. t2 stands on node 1 (protected) and has read its
  successor 2; t1 erases 1 and 2, and its next reclaim pass deletes 2; t2
  publishes 2, finds that node 1's frozen next pointer still equals 2, and reads
  node 2. Comparing `pred->next` with the unmarked `curr` would send t2 back.
* **`threadsafe_queue_wakeup`**. A consumer with `head_mutex_` finds the queue
  empty; a producer appends under `tail_mutex_` and notifies; the consumer goes to
  sleep. Notifying with `head_mutex_` held, as `blocking_queue` changes its state
  under the one mutex, would close the window.
* **`lockfree_queue`**. Push B has counted itself in on the tail node n; push A
  completes on n; `pop` takes n out and exchanges its data with null; B's
  `compare_exchange` from null succeeds on n, its exchange of `next` fails, the
  tail is already another node, and B returns. Its value is in no queue.
* **`seqlock_usage`**. The class comment of `seqlock` (`seqlock.hpp:13`-`:14`) has
  readers loop while `read_retry` is true; the method returns true when no write
  overlapped (`:64`), and the tests keep the copy then. A reader that follows the
  class comment leaves its loop only when a write did overlap, here with the new `a`
  and the old `b`. One of the two has to change; with the tests' use the copies are
  whole (`NoTornReadHolds`).

## Proofs

`BlockingQueueProofs` (any finite set of threads, any positive capacity, any
number of calls):

* `TypeCorrect`: `TypeOK`, which includes `Len(data_) <= capacity_`, is inductive.
* `ConsumersAreWoken`, `ProducersAreWoken`: `NoLostConsumerWakeup /\
  NoLostProducerWakeup` is inductive together with `TypeOK`, neither is alone. The
  argument counts threads per label: every step moves one thread between two labels
  (a notification, two), which changes two counts by one (`MoveCounts`, from the
  cardinality theorems), and each move keeps both inequalities (`MoveBounds`);
  `WakeupStep` goes through the actions.
* `SidesDoNotDeadlock`: with sleepers on both sides the two inequalities add up to
  `capacity_` at most the number of threads awake, hence at least one.

`EpochReclaimProofs` (any threads, records, nodes, thresholds and number of
guards; `GuardsProtect` alone assumes `~Unguarded`, without which TLC shows it
false):

* `GuardsProtect`: `NoUseAfterFree` is not inductive. `IInv` adds which records
  and locals go with each `pc` (`Control`, that is `Holders` and `Locals`); that a node a guard has observed and
  that has been retired is stamped no earlier than the guard's epoch
  (`StampedAfterObserver`, `Stamped`); that a collector in a guard has counted its
  own record or has still to read it (`CollectorCounted`); and that a guard whose
  record a collector has passed without counting it announced a later epoch than
  the collector's own (`PassedGuards`). Then what a sweep deletes is older than
  every guard that could hold it (`DeletedUnobserved`). `IInv` was checked with
  TLC before it was proved.
* `DeletedOnce` and `RetiredKept`: `AtOnePlace` and `NothingLost`, from types and
  `Locals` alone, which do not depend on who holds a record: they also hold of calls
  outside guards.

`LockfreeStackProofs` (any threads, any positive number of hazard pointers and
threshold, any finite set of addresses, which are allocated again after deletion):

* The invariant `StackInv` has four parts beside `TypeOK`. `Shape` says what a
  thread has at each label. `Placed` gives every allocated node one place: the
  stack, the list of nodes to reclaim, or one thread that pushes, has popped or
  disposes of it (`PlacedMove`: a step takes a node from one place to another).
  `Stacked` names the nodes from `head` downwards, all different and linked.
  `Published` and `Protected` carry the hazard pointer argument: a pop between its
  second load of `head` and its `compare_exchange` has its node in its own hazard
  pointer, and whoever is scanning for that node has not passed that slot yet; so
  no scan ends in its deletion, and the node cannot come back to `head` by being
  allocated again.
* `HazardsProtect`, `DeletedOnce`, `NothingLeaks` and `TypeCorrect` follow from it.
* `StackImplemented`: the refinement mapping reads the abstract stack by walking
  from `head` (a recursive function, which `WalkFinds` shows to visit the named
  nodes). A successful `compare_exchange` of `push` is the abstract push, one of
  `pop` the abstract pop, because the `next` it read is still the `next` of the
  node: no ABA. Every other step stutters (`StackRefined`).

`LockfreeListProofs` (any threads, keys, hazard pointers and calls, any finite set
of addresses), under the hypothesis `[]NoPass`: `reclaim_later` has not been called
`ReclaimThreshold` times. With a pass the list is wrong (`lockfree_list_reclaim`), so
no theorem can do without it; `NoPassWithFewNodes` proves it for every list that has
had at most `ReclaimThreshold` nodes, the instance of `lockfree_list` among them.

* The invariant `ListInv` speaks of the live nodes, those that have been linked and
  not retired, and orders them by key, not by position (`Ordered`): the successor of
  a live node is live, and no live key lies between the two. This is what survives
  an insertion and a removal (`LinkIn`, `TakeOut`) without an induction along the
  list. `Placed` keeps new and retired nodes apart and says that retired nodes are
  marked. `Place` says where a `find` stands: `pred` and `curr` have been linked, but
  either may have been unlinked and retired since.
* A marked `next` field is frozen (`LinkedStays`), so a `compare_exchange` on
  `pred->next` that expects an unmarked pointer succeeds only at a live `pred`
  (`UnmarkedIsLive`), however long ago `find` looked: that `find`'s validation ignores
  the mark of `pred` does no harm as long as the memory is there.
* `ListSorted`, `ListUnlinkedOnce`: the walk from the sentinel, a recursive function,
  visits exactly the live nodes (`WalkIsLive`); it is long enough, since ever larger
  keys belong to different addresses.
* `ListImplementsSet`: the set gains the key at insert's `compare_exchange`, where the
  gap between `pred` and `curr` shows that it was not there (`Gap`), and loses it where
  `erase` marks `curr` (`MembersStep`); the other steps stutter.
* `ListAnswers`: whenever `find` moves on, from a live `pred` to its successor, it has
  seen the gap if the key is not there (`Witnessed`, `MovesOn`), and it remembers it
  until it answers; a key it reports found is in the set at that step.

`ThreadsafeQueueProofs` (any threads, any number of pushes):

* `TypeCorrect` includes that `head_mutex_` has one owner, the thread in its
  critical section.
* `QueueImplemented`: the invariant `QueueInv` names the nodes from `head` to the
  dummy at `tail`, all different, linked and filled, none of them the node of a push
  that has not appended it. A pop that has found data still has it in `pop_head`,
  although it has let go of `tail_mutex_`: pushes only append. The append is the
  abstract push, `pop_head` the abstract pop, and an empty answer is right when
  `tail_mutex_` is held.

`SkipListProofs` (any threads, any set of positive keys, any number of levels, nodes
and calls, any finite initial lists). All the properties of `SkipList` that the run
checks are theorems.

* The invariant `ListInv` is about the nodes on each level, `On(l)`. The code has no
  such list: a node is on a level if it has been linked there (`Entered`) and its
  erase has not taken it out yet (`Left`), both of which are read off the node's
  flags and the place of the one thread that inserts or erases it (`Hands`,
  `Marks`). `Chains` orders `On(l)` by key with the `KeyChain` of `LockfreeListProofs`.
  A node that was taken out keeps its pointers, and `Forward` says that they still
  lead to larger keys, so that a search that stands on it makes progress.
* `Place` says what a thread has recorded. Of what `find` recorded (`Noted`) only
  little stays true: that the nodes were on the level once, and their keys. What an
  insert has locked and validated does stay (`Holds`), because the mark and the
  pointers of a linked node change under its mutex only. Hence the gap between
  `preds[l]` and `succs[l]` is still there when the node is linked, level after level,
  although other threads may see the tower half linked. `erase` walks every level anew
  from the head; `Leads` says that the walk still has the victim ahead, whatever
  others link and take out on the way, so that it never gives a level up too early.
* `TowersStayWhole`, `NodesStayAccountedFor`: the walk of `Linked` visits exactly
  `On(l)`, as in the proofs of the list, and every tower is linked from level 0 up
  and taken out from the top down. `Destroyed` adds what the destructor deletes.
* `LocksNeverDeadlock`: `Owners` says that a mutex is held by a thread that has it
  among its recorded predecessors and has not unlocked it. Along the levels of one
  insert the recorded keys fall (`Lower`), although `find` read them at different
  times; a thread that waits while it holds a mutex is such an insert, and it waits for
  a smaller key than any it holds. In a circle of waiting threads, the one that waits
  for the least key would wait for a mutex whose owner waits for a smaller one.
* `SkipListImplementsSet`: the set gains the key where `fully_linked` is stored,
  loses it where the victim is marked (`Enters`, `Leaves`, `MembersStep`), and stays
  otherwise. That the key is not there before an insert follows from the gap.
* `AnswersStayTrue` is an argument by hindsight. An answer "present" looks at a live
  node. For "absent", suppose that the key has been in the set during the whole call.
  `Guides(n, k, S)` says that from the nodes of `S`, some of which may have been taken
  out, every level leads on within `S` or past the key, and the lowest to the live node
  `n` with the key. A call begins at the head, with the nodes on the levels before the
  key for `S` (`FrontGuides`); a step of another thread leaves the pointers of nodes
  taken out alone (`Kept`) and changes the others such that the nodes then on the
  levels can be added to `S` (`GuidesStep`); and the search itself never leaves `S`
  (`Sight`). So it ends at `n`, and the answer is "present".

`SyncProofs`, for `CondSync` (any finite set of threads, any permits, phases and any
`Generations` from two on):

* `WakeupsArrive`: `NoLostWakeup` is inductive with types and control. For a
  semaphore the free permits are at most the waiters awake and the notifications
  under way (`Pending`), counted with the cardinality theorems.
* `BarrierSeparates`: the barrier stores no arrivals. `Counted` says what `count_`
  and `expected_` stand for, the threads that have not arrived in this phase and
  those that have not dropped out; `Caller` says that nobody is more than one phase
  behind, and that the generation a thread arrived in differs from the present one
  exactly if its phase is over. That last part is the theorem `LateWaitersGoOn`:
  two generations would be enough, so the wrap of the 64-bit counter is harmless.

`SyncProofs`, for `SpinSync` (any width of the word and any number of threads below
`writer_bit`, which for 32 bits is 2^31):

* `ExclusionHolds`: `Exclusion` with types and `NoWriterObserved` (what a reader's
  `compare_exchange` expects has no writer bit) is inductive, by counting holders.
* `NoTornReadHolds`, an action property, assumes `~UsageComment`: `SeqInv` says what the fields hold after the
  n-th `fetch_add` of `sequence_` (`Settled`, `WriterAt`), and that a reader has
  copied the value of the sequence it began with unless a write has begun since
  (`ReaderAt`). Its hypothesis
  `MaxWrites < writer_bit` says that `sequence_` does not make a full turn; a
  seqlock is wrong without it.

Every inductive invariant was checked with TLC before it was proved (of the skip
list, `ListInv` and `Destroyed`; `Sight` quantifies over all sets of nodes).

Only model-checked:

* Liveness under fairness (`ConsumersAreServed`, `ProducersAreServed`,
  `HeadMutexIsReleased`, `SleepersProceed`, `CallsReturn`, `FuturesSettle`), which is
  beyond the prover, as is `ENABLED`.
* `HashMap` (`SplitOrdered`, `SizeIsExact`, `LookupsAreTrue`, `KeysAreASet`): the
  split order is bit reversal, a sum over the bits, and that a bucket's sentinel comes
  before its data for every number of buckets is an induction over them. Its list is
  the one of `LockfreeList`, about which the theorems are.
* `ForkJoin` (`ResultIsRight`, `NoStrayTasks`): its results are those of sorts,
  partitions and folds, defined by recursion over the data, and which tasks a call may
  still have follows from the shape of those recursions.

## Not modelled

* `threadsafe_stack`, `threadsafe_lookup_table`, `threadsafe_list`, `queue`: one
  critical section per operation, or locks taken hand over hand in one direction,
  or no concurrency.
* `parallel_accumulate` and `parallel_partial_sum`: they start threads of their own
  and pass results along promises.
* Exceptions from the scans' operation, from `operator<` and from a barrier's
  completion function.
* Weak memory: see the abstractions above.
* `main.cpp` times the containers; the precompiled header only includes.

## Plan

1. (done) `BlockingQueue`, `EpochReclaim`, `HazardPtr`, `LockfreeStack`,
   `LockfreeList`, `ThreadsafeQueue`, their abstract specifications, their
   first proofs.
2. (done) `LockfreeQueue`, `ThreadPool` and `ForkJoin`, `SkipList`, `HashMap`,
   `CondSync`, `SpinSync`.
3. (done) Proofs of `SpinSync`, `CondSync`, `LockfreeStack` with its refinement of
   `Stack`, `ThreadsafeQueue` with its refinement of `FifoQueue`, and `LockfreeList`
   without a reclaim pass, with its refinement of `KeySet`.
4. (done) Proofs of `SkipList`: its towers, its locks, its nodes, its refinement of
   `KeySet` and its answers.
