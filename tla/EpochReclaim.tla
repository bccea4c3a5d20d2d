---------------------------- MODULE EpochReclaim ----------------------------
(***************************************************************************)
(* epoch_domain (include/epoch_reclaim.hpp): epoch-based reclamation.  A   *)
(* guard claims a record of the registry, announces a fresh epoch and sets *)
(* the record active.  A node is unlinked from its structure, stamped with *)
(* the global epoch and put on the retired list.  collect takes the least  *)
(* epoch of the active records, detaches the whole list and deletes what   *)
(* was retired before that epoch.                                          *)
(*                                                                         *)
(* A step is one atomic access of the code, in program order (sequential   *)
(* consistency).  The retired list is the set of its nodes: collect visits *)
(* all of them whatever their order, and a push_retired takes effect at    *)
(* its successful compare_exchange.                                        *)
(*                                                                         *)
(* The structure the domain protects is the client's: a thread in a guard  *)
(* may observe any linked node, keeps the pointer until the guard ends,    *)
(* and may unlink a node, which it then retires.  retire and collect can   *)
(* also be called outside a guard, as tests/test_epoch.cpp does.           *)
(*                                                                         *)
(* pc of a thread, in the order of the code:                               *)
(*   "out"                            no guard                             *)
(*   "claim" "fetch" "announce" "activate"                 claim_slot      *)
(*   "in"                             in the body of a guard               *)
(*   "stamp" "push" "count"                                retire          *)
(*   "reset" "active" "epoch" "exchange" "sweep"           collect         *)
(*   "release"                        release_slot, active already false   *)
(***************************************************************************)
EXTENDS Naturals, FiniteSets

CONSTANTS
    Threads,            \* the threads using the domain
    Nodes,              \* the nodes of the client's structure
    max_threads,        \* number of records in registry_
    reclaim_threshold,  \* retirements that trigger a collect
    MaxEpoch,           \* bound: how many guards are created
    NoThread,           \* the default-constructed thread::id
    NoNode,             \* a null pointer
    Unguarded           \* are retire and collect called outside guards too?

ASSUME RegistryAssumption == max_threads \in Nat
ASSUME ThresholdAssumption == reclaim_threshold \in Nat
ASSUME EpochAssumption == MaxEpoch \in Nat
ASSUME NullAssumption == NoThread \notin Threads /\ NoNode \notin Nodes
ASSUME UnguardedAssumption == Unguarded \in BOOLEAN

VARIABLES
    owner, announced_epoch, active,   \* registry_: the thread_records
    global_epoch_,
    retired,        \* the nodes on the list at retired_head_
    retire_epoch,   \* the stamp in each node's retired_node
    retire_count_,
    pc,
    slot,           \* record being claimed or held, 0 for none
    epoch,          \* claim_slot: the epoch fetched
    ptr,            \* retire: the node being retired
    index,          \* collect: record being scanned
    min_announced,  \* collect: least epoch seen so far
    list,           \* collect: the detached nodes still to be visited
    linked,         \* client: nodes reachable in the structure
    refs,           \* client: nodes each thread's guard has observed
    freed           \* nodes that have been deleted

registry  == <<owner, announced_epoch, active, global_epoch_>>
retirees  == <<retired, retire_epoch, retire_count_>>
claiming  == <<slot, epoch>>
collecting == <<index, min_announced, list>>
client    == <<linked, refs>>
vars == <<registry, retirees, pc, claiming, ptr, collecting, client, freed>>

Records == 1..max_threads

PCs == {"out", "claim", "fetch", "announce", "activate", "in", "stamp", "push",
        "count", "reset", "active", "epoch", "exchange", "sweep", "release"}

(* numeric_limits<unsigned long>::max(): above every epoch. *)
Infinity == MaxEpoch + 1

Init ==
    /\ owner = [r \in Records |-> NoThread]
    /\ announced_epoch = [r \in Records |-> 0]
    /\ active = [r \in Records |-> FALSE]
    /\ global_epoch_ = 0
    /\ retired = {}
    /\ retire_epoch = [n \in Nodes |-> 0]
    /\ retire_count_ = 0
    /\ pc = [t \in Threads |-> "out"]
    /\ slot = [t \in Threads |-> 0]
    /\ epoch = [t \in Threads |-> 0]
    /\ ptr = [t \in Threads |-> NoNode]
    /\ index = [t \in Threads |-> 0]
    /\ min_announced = [t \in Threads |-> 0]
    /\ list = [t \in Threads |-> {}]
    /\ linked = Nodes
    /\ refs = [t \in Threads |-> {}]
    /\ freed = {}

Goto(t, label) == pc' = [pc EXCEPT ![t] = label]

-----------------------------------------------------------------------------
(* guard: claim_slot and release_slot *)

(* The constructor of a guard enters claim_slot. *)
EnterGuard(t) ==
    /\ pc[t] = "out"
    /\ global_epoch_ + Cardinality({u \in Threads : pc[u] \in {"claim", "fetch"}}) < MaxEpoch
    /\ slot' = [slot EXCEPT ![t] = 1]
    /\ Goto(t, "claim")
    /\ UNCHANGED <<registry, retirees, epoch, ptr, collecting, client, freed>>

(* owner.compare_exchange_strong takes a record nobody owns. *)
ClaimOwner(t) ==
    /\ pc[t] = "claim"
    /\ slot[t] \in Records
    /\ owner[slot[t]] = NoThread
    /\ owner' = [owner EXCEPT ![slot[t]] = t]
    /\ Goto(t, "fetch")
    /\ UNCHANGED <<announced_epoch, active, global_epoch_, retirees, claiming, ptr,
                   collecting, client, freed>>

(* It fails on an owned one, and the loop goes on to the next record. *)
SkipRecord(t) ==
    /\ pc[t] = "claim"
    /\ slot[t] \in Records
    /\ owner[slot[t]] # NoThread
    /\ slot' = [slot EXCEPT ![t] = @ + 1]
    /\ UNCHANGED <<registry, retirees, pc, epoch, ptr, collecting, client, freed>>

(* "No epoch slots available": the guard is not constructed. *)
ClaimThrows(t) ==
    /\ pc[t] = "claim"
    /\ slot[t] \notin Records
    /\ slot' = [slot EXCEPT ![t] = 0]
    /\ Goto(t, "out")
    /\ UNCHANGED <<registry, retirees, epoch, ptr, collecting, client, freed>>

FetchEpoch(t) ==
    /\ pc[t] = "fetch"
    /\ global_epoch_' = global_epoch_ + 1
    /\ epoch' = [epoch EXCEPT ![t] = global_epoch_ + 1]
    /\ Goto(t, "announce")
    /\ UNCHANGED <<owner, announced_epoch, active, retirees, slot, ptr,
                   collecting, client, freed>>

Announce(t) ==
    /\ pc[t] = "announce"
    /\ announced_epoch' = [announced_epoch EXCEPT ![slot[t]] = epoch[t]]
    /\ epoch' = [epoch EXCEPT ![t] = 0]
    /\ Goto(t, "activate")
    /\ UNCHANGED <<owner, active, global_epoch_, retirees, slot, ptr,
                   collecting, client, freed>>

Activate(t) ==
    /\ pc[t] = "activate"
    /\ active' = [active EXCEPT ![slot[t]] = TRUE]
    /\ Goto(t, "in")
    /\ UNCHANGED <<owner, announced_epoch, global_epoch_, retirees, claiming, ptr,
                   collecting, client, freed>>

(* ~guard: the operation is over and its pointers are gone. *)
Deactivate(t) ==
    /\ pc[t] = "in"
    /\ refs' = [refs EXCEPT ![t] = {}]
    /\ active' = [active EXCEPT ![slot[t]] = FALSE]
    /\ Goto(t, "release")
    /\ UNCHANGED <<owner, announced_epoch, global_epoch_, retirees, claiming, ptr,
                   collecting, linked, freed>>

ReleaseOwner(t) ==
    /\ pc[t] = "release"
    /\ owner' = [owner EXCEPT ![slot[t]] = NoThread]
    /\ slot' = [slot EXCEPT ![t] = 0]
    /\ Goto(t, "out")
    /\ UNCHANGED <<announced_epoch, active, global_epoch_, retirees, epoch, ptr,
                   collecting, client, freed>>

-----------------------------------------------------------------------------
(* The client *)

Observe(t, n) ==
    /\ pc[t] = "in"
    /\ n \in linked
    /\ refs' = [refs EXCEPT ![t] = @ \cup {n}]
    /\ UNCHANGED <<registry, retirees, pc, claiming, ptr, collecting, linked, freed>>

(* Unlink a node it has observed, or outside a guard any, and call retire. *)
Unlink(t, n) ==
    /\ \/ pc[t] = "in" /\ n \in refs[t]
       \/ Unguarded /\ pc[t] = "out"
    /\ n \in linked
    /\ linked' = linked \ {n}
    /\ ptr' = [ptr EXCEPT ![t] = n]
    /\ Goto(t, "stamp")
    /\ UNCHANGED <<registry, retirees, claiming, collecting, refs, freed>>

-----------------------------------------------------------------------------
(* retire *)

Stamp(t) ==
    /\ pc[t] = "stamp"
    /\ retire_epoch' = [retire_epoch EXCEPT ![ptr[t]] = global_epoch_]
    /\ Goto(t, "push")
    /\ UNCHANGED <<registry, retired, retire_count_, claiming, ptr, collecting,
                   client, freed>>

PushRetired(t) ==
    /\ pc[t] = "push"
    /\ retired' = retired \cup {ptr[t]}
    /\ ptr' = [ptr EXCEPT ![t] = NoNode]
    /\ Goto(t, "count")
    /\ UNCHANGED <<registry, retire_epoch, retire_count_, claiming, collecting,
                   client, freed>>

(* Back from retire or collect: is the caller in a guard? *)
Caller(t) == IF slot[t] = 0 THEN "out" ELSE "in"

(* fetch_add and the test of the threshold; at the threshold collect runs. *)
CountRetired(t) ==
    /\ pc[t] = "count"
    /\ retire_count_' = retire_count_ + 1
    /\ Goto(t, IF retire_count_ + 1 >= reclaim_threshold THEN "reset" ELSE Caller(t))
    /\ UNCHANGED <<registry, retired, retire_epoch, claiming, ptr, collecting,
                   client, freed>>

-----------------------------------------------------------------------------
(* collect *)

CallCollect(t) ==
    /\ pc[t] = "in" \/ (Unguarded /\ pc[t] = "out")
    /\ Goto(t, "reset")
    /\ UNCHANGED <<registry, retirees, claiming, ptr, collecting, client, freed>>

ResetCount(t) ==
    /\ pc[t] = "reset"
    /\ retire_count_' = 0
    /\ min_announced' = [min_announced EXCEPT ![t] = Infinity]
    /\ index' = [index EXCEPT ![t] = 1]
    /\ Goto(t, IF max_threads = 0 THEN "exchange" ELSE "active")
    /\ UNCHANGED <<registry, retired, retire_epoch, claiming, ptr, list, client, freed>>

(* The loop moves on to the next record, or is left after the last one. *)
NextRecord(t) ==
    /\ index' = [index EXCEPT ![t] = @ + 1]
    /\ Goto(t, IF index[t] = max_threads THEN "exchange" ELSE "active")

ReadActive(t) ==
    /\ pc[t] = "active"
    /\ active[index[t]]
    /\ Goto(t, "epoch")
    /\ UNCHANGED <<registry, retirees, claiming, ptr, collecting, client, freed>>

ReadInactive(t) ==
    /\ pc[t] = "active"
    /\ ~active[index[t]]
    /\ NextRecord(t)
    /\ UNCHANGED <<registry, retirees, claiming, ptr, min_announced, list, client, freed>>

(* A minimum that forgets what earlier records announced. *)
ReadEpochLast(t) ==
    /\ pc[t] = "epoch"
    /\ min_announced' = [min_announced EXCEPT ![t] = announced_epoch[index[t]]]
    /\ NextRecord(t)
    /\ UNCHANGED <<registry, retirees, claiming, ptr, list, client, freed>>

ReadEpoch(t) ==
    /\ pc[t] = "epoch"
    /\ min_announced' =
           [min_announced EXCEPT ![t] =
               IF announced_epoch[index[t]] < @ THEN announced_epoch[index[t]] ELSE @]
    /\ NextRecord(t)
    /\ UNCHANGED <<registry, retirees, claiming, ptr, list, client, freed>>

(* A load instead of the exchange: the list stays where it was. *)
LoadList(t) ==
    /\ pc[t] = "exchange"
    /\ list' = [list EXCEPT ![t] = retired]
    /\ Goto(t, "sweep")
    /\ UNCHANGED <<registry, retirees, claiming, ptr, index, min_announced, client, freed>>

(* retired_head_.exchange(nullptr): this thread alone owns what was there. *)
Exchange(t) ==
    /\ pc[t] = "exchange"
    /\ list' = [list EXCEPT ![t] = retired]
    /\ retired' = {}
    /\ Goto(t, "sweep")
    /\ UNCHANGED <<registry, retire_epoch, retire_count_, claiming, ptr, index,
                   min_announced, client, freed>>

(* Nodes as old as the oldest guard are deleted too. *)
SweepOldest(t, n) ==
    /\ pc[t] = "sweep"
    /\ n \in list[t]
    /\ list' = [list EXCEPT ![t] = @ \ {n}]
    /\ \/ /\ retire_epoch[n] <= min_announced[t]
          /\ freed' = freed \cup {n}
          /\ UNCHANGED retired
       \/ /\ retire_epoch[n] > min_announced[t]
          /\ retired' = retired \cup {n}
          /\ UNCHANGED freed
    /\ UNCHANGED <<registry, retire_epoch, retire_count_, pc, claiming, ptr, index,
                   min_announced, client>>

(* Nodes the oldest guard may hold are dropped instead of pushed back. *)
SweepDrops(t, n) ==
    /\ pc[t] = "sweep"
    /\ n \in list[t]
    /\ list' = [list EXCEPT ![t] = @ \ {n}]
    /\ freed' = IF retire_epoch[n] < min_announced[t] THEN freed \cup {n} ELSE freed
    /\ UNCHANGED <<registry, retired, retire_epoch, retire_count_, pc, claiming, ptr,
                   index, min_announced, client>>

(* One iteration of the loop over the detached list. *)
Sweep(t, n) ==
    /\ pc[t] = "sweep"
    /\ n \in list[t]
    /\ list' = [list EXCEPT ![t] = @ \ {n}]
    /\ \/ /\ retire_epoch[n] < min_announced[t]
          /\ freed' = freed \cup {n}
          /\ UNCHANGED retired
       \/ /\ retire_epoch[n] >= min_announced[t]
          /\ retired' = retired \cup {n}
          /\ UNCHANGED freed
    /\ UNCHANGED <<registry, retire_epoch, retire_count_, pc, claiming, ptr, index,
                   min_announced, client>>

CollectReturns(t) ==
    /\ pc[t] = "sweep"
    /\ list[t] = {}
    /\ index' = [index EXCEPT ![t] = 0]
    /\ min_announced' = [min_announced EXCEPT ![t] = 0]
    /\ Goto(t, Caller(t))
    /\ UNCHANGED <<registry, retirees, claiming, ptr, list, client, freed>>

-----------------------------------------------------------------------------

Step(t) ==
    \/ EnterGuard(t) \/ ClaimOwner(t) \/ SkipRecord(t) \/ ClaimThrows(t) 
    \/ FetchEpoch(t) \/ Announce(t) \/ Activate(t) \/ Deactivate(t) \/ ReleaseOwner(t)
    \/ \E n \in Nodes : Observe(t, n) \/ Unlink(t, n) \/ Sweep(t, n)
    \/ Stamp(t) \/ PushRetired(t) \/ CountRetired(t)
    \/ CallCollect(t) \/ ResetCount(t)
    \/ ReadActive(t) \/ ReadInactive(t) \/ ReadEpoch(t) \/ Exchange(t) \/ CollectReturns(t)

Next == \E t \in Threads : Step(t)

Spec == Init /\ [][Next]_vars

-----------------------------------------------------------------------------

(* Types; no guard announces, and no retirement is stamped with, an epoch  *)
(* that has not begun.                                                     *)
TypeOK ==
    /\ owner \in [Records -> Threads \cup {NoThread}]
    /\ announced_epoch \in [Records -> 0..global_epoch_]
    /\ active \in [Records -> BOOLEAN]
    /\ global_epoch_ \in Nat
    /\ retired \subseteq Nodes
    /\ retire_epoch \in [Nodes -> 0..global_epoch_]
    /\ retire_count_ \in Nat
    /\ pc \in [Threads -> PCs]
    /\ slot \in [Threads -> 0..(max_threads + 1)]
    /\ epoch \in [Threads -> 0..global_epoch_]
    /\ ptr \in [Threads -> Nodes \cup {NoNode}]
    /\ index \in [Threads -> 0..(max_threads + 1)]
    /\ min_announced \in [Threads -> Nat]
    /\ list \in [Threads -> SUBSET Nodes]
    /\ linked \subseteq Nodes
    /\ refs \in [Threads -> SUBSET Nodes]
    /\ freed \subseteq Nodes

(* "While a guard is alive, every node the operation could have observed   *)
(* is guaranteed to stay allocated" (epoch_reclaim.hpp:20): no pointer a   *)
(* guard's operation holds is to a node a collect has deleted.             *)
NoUseAfterFree == \A t \in Threads : refs[t] \cap freed = {}

(* A node is at one place only: linked, with the thread that retires it,   *)
(* on the retired list, on one collector's detached list, or deleted.  So  *)
(* nothing is deleted twice, and nothing still reachable is deleted.       *)
AtOnePlace ==
    /\ \A t \in Threads : list[t] \cap (linked \cup retired \cup freed) = {}
    /\ \A t, u \in Threads : t # u => list[t] \cap list[u] = {}
    /\ \A t, u \in Threads : ptr[t] \notin list[u]
    /\ \A t, u \in Threads : t # u /\ ptr[t] = ptr[u] => ptr[t] = NoNode
    /\ \A t \in Threads : ptr[t] \notin linked \cup retired \cup freed
    /\ linked \cap retired = {} /\ linked \cap freed = {} /\ retired \cap freed = {}

(* Nor is a retired node ever lost: until it is deleted it is on its way   *)
(* to the retired list, on it, or with a collector that will put it back.  *)
NothingLost ==
    \A n \in Nodes :
        n \in linked \cup retired \cup freed \/ \E t \in Threads : ptr[t] = n \/ n \in list[t]

=============================================================================
