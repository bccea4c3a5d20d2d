----------------------------- MODULE HazardPtr -----------------------------
(***************************************************************************)
(* Hazard-pointer reclamation (include/hazard_ptr.hpp): the global array   *)
(* of hazard pointers, the list of nodes to reclaim, and the steps of      *)
(* reclaim_later and delete_nodes_with_no_hazards.  The containers that    *)
(* use it extend this module.                                              *)
(*                                                                         *)
(* A step is one atomic access, in program order (sequential consistency). *)
(* Nodes are addresses: a deleted one may be allocated again.  The list to *)
(* reclaim is the set of its nodes; add_to_reclaim_list takes effect at    *)
(* its successful compare_exchange.                                        *)
(*                                                                         *)
(* rpc is where a thread stands in reclaim_later, "none" outside it:       *)
(*   "add" "count" "reset"     reclaim_later                               *)
(*   "take" "each" "scan"      delete_nodes_with_no_hazards                *)
(***************************************************************************)
EXTENDS Naturals, FiniteSets, Sequences

CONSTANTS
    Threads,
    Nodes,                  \* addresses the allocator hands out
    max_hazard_pointers,    \* number of hazard pointers
    ReclaimThreshold,       \* calls of reclaim_later that trigger a pass;
                            \* max_hazard_pointers * 2 in the code
    NoThread,               \* the default-constructed thread::id
    Outsider,               \* any thread not in Threads: hazard_pointers is
                            \* global, and other containers' threads use it
    MaxOutsiders,           \* bound: hazard pointers outsiders own all along
    Null                    \* nullptr

ASSUME SlotsAssumption == max_hazard_pointers \in Nat \ {0}
ASSUME ThresholdAssumption == ReclaimThreshold \in Nat \ {0}
ASSUME OutsidersAssumption == MaxOutsiders \in 0..max_hazard_pointers
ASSUME NullAssumption ==
    {NoThread, Outsider} \cap Threads = {} /\ NoThread # Outsider /\ Null \notin Nodes

VARIABLES
    id, pointer,            \* hazard_pointers: owner and published pointer
    owned,                  \* the hazard pointers of each thread's hp_owners
    nodes_to_reclaim, reclaim_nodes_count,
    rpc,
    target,                 \* the node a thread is disposing of
    probe,                  \* the hazard pointer it looks at next
    batch,                  \* nodes it detached and has not visited yet
    allocated               \* nodes that are allocated

hpArray  == <<id, pointer, owned>>
reclaims == <<nodes_to_reclaim, reclaim_nodes_count, rpc, target, probe, batch>>
hpVars   == <<hpArray, reclaims, allocated>>

Slots == 1..max_hazard_pointers

RPCs == {"none", "add", "count", "reset", "take", "each", "scan"}

HpInit ==
    /\ \E k \in 0..MaxOutsiders :
           id = [s \in Slots |-> IF s <= k THEN Outsider ELSE NoThread]
    /\ pointer = [s \in Slots |-> Null]
    /\ owned = [t \in Threads |-> << >>]
    /\ nodes_to_reclaim = {}
    /\ reclaim_nodes_count = 0
    /\ rpc = [t \in Threads |-> "none"]
    /\ target = [t \in Threads |-> Null]
    /\ probe = [t \in Threads |-> 0]
    /\ batch = [t \in Threads |-> {}]

Reclaiming(t, label) == rpc' = [rpc EXCEPT ![t] = label]

-----------------------------------------------------------------------------
(* hp_owner *)

(* The constructor's loop, one compare_exchange: the first that finds no   *)
(* owner claims the hazard pointer.                                        *)
Claim(t, s) ==
    /\ id[s] = NoThread
    /\ id' = [id EXCEPT ![s] = t]
    /\ owned' = [owned EXCEPT ![t] = Append(@, s)]
    /\ UNCHANGED pointer

ClaimMiss(t) ==
    /\ id[probe[t]] # NoThread
    /\ probe[t] < max_hazard_pointers
    /\ probe' = [probe EXCEPT ![t] = @ + 1]

(* "No hazard pointers available!" *)
ClaimFails(t) ==
    /\ id[probe[t]] # NoThread
    /\ probe[t] = max_hazard_pointers
    /\ probe' = [probe EXCEPT ![t] = 0]

(* The whole loop in one step, for containers that construct hp_owners in  *)
(* every call: the hazard pointer it stops at, or none left.               *)
FirstFree == {s \in Slots : id[s] = NoThread /\ \A r \in 1..(s - 1) : id[r] # NoThread}

(* The destructor of the thread's hp_owner constructed last.  The thread   *)
(* publishes nothing in it any more, so its two stores are one step.       *)
DisownLast(t) ==
    LET s == owned[t][Len(owned[t])]
    IN  /\ pointer' = [pointer EXCEPT ![s] = Null]
        /\ id' = [id EXCEPT ![s] = NoThread]
        /\ owned' = [owned EXCEPT ![t] = SubSeq(@, 1, Len(@) - 1)]

-----------------------------------------------------------------------------
(* outstanding_hazard_pointers_for, one load: some hazard pointer read so  *)
(* far is the target; or the last one was read and none is.                *)
ProbeHits(t) == pointer[probe[t]] = target[t]
ProbeLast(t) == probe[t] = max_hazard_pointers
ProbeNext(t) == ~ProbeHits(t) /\ ~ProbeLast(t) /\ probe' = [probe EXCEPT ![t] = @ + 1]
ProbeClear(t) == ~ProbeHits(t) /\ ProbeLast(t)

-----------------------------------------------------------------------------

(* add_to_reclaim_list(new data_to_reclaim(data)) *)
AddToReclaimList(t) ==
    /\ rpc[t] = "add"
    /\ nodes_to_reclaim' = nodes_to_reclaim \cup {target[t]}
    /\ target' = [target EXCEPT ![t] = Null]
    /\ Reclaiming(t, "count")
    /\ UNCHANGED <<hpArray, reclaim_nodes_count, probe, batch, allocated>>

CountReclaim(t) ==
    /\ rpc[t] = "count"
    /\ reclaim_nodes_count' = reclaim_nodes_count + 1
    /\ Reclaiming(t, IF reclaim_nodes_count + 1 >= ReclaimThreshold THEN "reset" ELSE "none")
    /\ UNCHANGED <<hpArray, nodes_to_reclaim, target, probe, batch, allocated>>

ResetCount(t) ==
    /\ rpc[t] = "reset"
    /\ reclaim_nodes_count' = 0
    /\ Reclaiming(t, "take")
    /\ UNCHANGED <<hpArray, nodes_to_reclaim, target, probe, batch, allocated>>

(* A load of the list instead of the exchange. *)
TakeListByLoad(t) ==
    /\ rpc[t] = "take"
    /\ batch' = [batch EXCEPT ![t] = nodes_to_reclaim]
    /\ Reclaiming(t, "each")
    /\ UNCHANGED <<hpArray, nodes_to_reclaim, reclaim_nodes_count, target, probe, allocated>>

(* nodes_to_reclaim.exchange(nullptr) *)
TakeList(t) ==
    /\ rpc[t] = "take"
    /\ batch' = [batch EXCEPT ![t] = nodes_to_reclaim]
    /\ nodes_to_reclaim' = {}
    /\ Reclaiming(t, "each")
    /\ UNCHANGED <<hpArray, reclaim_nodes_count, target, probe, allocated>>

(* while (current): the next node of the detached list, or the end of it. *)
NextCurrent(t, n) ==
    /\ rpc[t] = "each"
    /\ n \in batch[t]
    /\ batch' = [batch EXCEPT ![t] = @ \ {n}]
    /\ target' = [target EXCEPT ![t] = n]
    /\ probe' = [probe EXCEPT ![t] = 1]
    /\ Reclaiming(t, "scan")
    /\ UNCHANGED <<hpArray, nodes_to_reclaim, reclaim_nodes_count, allocated>>

ReclaimReturns(t) ==
    /\ rpc[t] = "each"
    /\ batch[t] = {}
    /\ Reclaiming(t, "none")
    /\ UNCHANGED <<hpArray, nodes_to_reclaim, reclaim_nodes_count, target, probe, batch,
                   allocated>>

ScanNext(t) ==
    /\ rpc[t] = "scan"
    /\ ProbeNext(t)
    /\ UNCHANGED <<hpArray, nodes_to_reclaim, reclaim_nodes_count, rpc, target, batch,
                   allocated>>

(* A hazard pointer is outstanding: back on the list. *)
ScanKeeps(t) ==
    /\ rpc[t] = "scan"
    /\ ProbeHits(t)
    /\ nodes_to_reclaim' = nodes_to_reclaim \cup {target[t]}
    /\ target' = [target EXCEPT ![t] = Null]
    /\ probe' = [probe EXCEPT ![t] = 0]
    /\ Reclaiming(t, "each")
    /\ UNCHANGED <<hpArray, reclaim_nodes_count, batch, allocated>>

(* None is: delete current, whose destructor deletes the node. *)
ScanDeletes(t) ==
    /\ rpc[t] = "scan"
    /\ ProbeClear(t)
    /\ allocated' = allocated \ {target[t]}
    /\ target' = [target EXCEPT ![t] = Null]
    /\ probe' = [probe EXCEPT ![t] = 0]
    /\ Reclaiming(t, "each")
    /\ UNCHANGED <<hpArray, nodes_to_reclaim, reclaim_nodes_count, batch>>

(* The steps of reclaim_later. *)
ReclaimStep(t) ==
    \/ AddToReclaimList(t) \/ CountReclaim(t) \/ ResetCount(t) \/ TakeList(t)
    \/ \E n \in Nodes : NextCurrent(t, n)
    \/ ReclaimReturns(t) \/ ScanNext(t) \/ ScanKeeps(t) \/ ScanDeletes(t)

(* Types; a hazard pointer belongs to the thread whose hp_owner holds it. *)
HpTypeOK ==
    /\ id \in [Slots -> Threads \cup {NoThread, Outsider}]
    /\ pointer \in [Slots -> Nodes \cup {Null}]
    /\ owned \in [Threads -> Seq(Slots)]
    /\ \A t \in Threads : \A i \in DOMAIN owned[t] : id[owned[t][i]] = t
    /\ nodes_to_reclaim \subseteq Nodes
    /\ reclaim_nodes_count \in Nat
    /\ rpc \in [Threads -> RPCs]
    /\ target \in [Threads -> Nodes \cup {Null}]
    /\ probe \in [Threads -> 0..max_hazard_pointers]
    /\ batch \in [Threads -> SUBSET Nodes]
    /\ allocated \subseteq Nodes

(* Nodes waiting to be reclaimed are each with one owner, the list or one  *)
(* thread, and still allocated: nothing is deleted twice.                  *)
ReclaimedOnce ==
    /\ nodes_to_reclaim \subseteq allocated
    /\ \A t \in Threads :
        /\ batch[t] \cup ({target[t]} \ {Null}) \subseteq allocated \ nodes_to_reclaim
        /\ target[t] \notin batch[t]
    /\ \A t, u \in Threads :
        t # u => (batch[t] \cup {target[t]}) \cap (batch[u] \cup {target[u]}) \subseteq {Null}

============================================================================
