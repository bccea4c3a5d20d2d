--------------------------- MODULE LockfreeStack ---------------------------
(***************************************************************************)
(* lockfree_stack<T> (include/lockfree_stack.hpp): a Treiber stack whose   *)
(* pop publishes the head in the thread's hazard pointer before it reads   *)
(* head->next, and deletes the node it popped at once or later.            *)
(*                                                                         *)
(* pc of a thread:                                                         *)
(*   "idle"                                                                *)
(*   "link" "push"      push: next set to the head, compare_exchange       *)
(*   "claim"            pop's first call: hp_owner claims a hazard pointer *)
(*   "load" "publish" "validate" "deref" "cas" "clear"   pop               *)
(*   "probe"            pop: is any hazard pointer on the popped node?     *)
(*   "dispose"          pop: in reclaim_later                              *)
(***************************************************************************)
EXTENDS HazardPtr

CONSTANT MaxPushes      \* bound: how many push calls are made

ASSUME BoundAssumption == MaxPushes \in Nat /\ IsFiniteSet(Nodes)

VARIABLES
    head, next,     \* the stack: head pointer and the nodes' next fields
    data,           \* the nodes' values: the n-th push carries n
    pc,
    old_head,       \* pop: old_head
    temp,           \* pop: temp; push: new_node
    succ,           \* pop: old_head->next as read; push: new_node->next
    pushes          \* number of push calls made

stackVars == <<head, next, data>>
locals    == <<old_head, temp, succ>>
vars == <<hpVars, stackVars, pc, locals, pushes>>

PCs == {"idle", "link", "push", "claim", "load", "publish", "validate", "deref",
        "cas", "clear", "probe", "dispose"}

Init ==
    /\ HpInit
    /\ allocated = {}
    /\ head = Null
    /\ next = [n \in Nodes |-> Null]
    /\ data = [n \in Nodes |-> 0]
    /\ pc = [t \in Threads |-> "idle"]
    /\ old_head = [t \in Threads |-> Null]
    /\ temp = [t \in Threads |-> Null]
    /\ succ = [t \in Threads |-> Null]
    /\ pushes = 0

Goto(t, label) == pc' = [pc EXCEPT ![t] = label]

-----------------------------------------------------------------------------
(* push *)

(* new node(value): any address that is not in use. *)
NewNode(t, n) ==
    /\ pc[t] = "idle"
    /\ pushes < MaxPushes
    /\ n \notin allocated
    /\ pushes' = pushes + 1
    /\ allocated' = allocated \cup {n}
    /\ data' = [data EXCEPT ![n] = pushes + 1]
    /\ temp' = [temp EXCEPT ![t] = n]
    /\ Goto(t, "link")
    /\ UNCHANGED <<hpArray, reclaims, head, next, old_head, succ>>

(* new_node->next = head.load() *)
LinkNew(t) ==
    /\ pc[t] = "link"
    /\ next' = [next EXCEPT ![temp[t]] = head]
    /\ Goto(t, "push")
    /\ UNCHANGED <<hpVars, head, data, locals, pushes>>

(* compare_exchange_weak succeeds only while head is new_node->next. *)
PushCas(t) ==
    /\ pc[t] = "push"
    /\ head = next[temp[t]]
    /\ head' = temp[t]
    /\ temp' = [temp EXCEPT ![t] = Null]
    /\ Goto(t, "idle")
    /\ UNCHANGED <<hpVars, next, data, old_head, succ, pushes>>

(* On failure, spurious failure included, it reloads new_node->next. *)
PushCasFails(t) ==
    /\ pc[t] = "push"
    /\ next' = [next EXCEPT ![temp[t]] = head]
    /\ UNCHANGED <<hpVars, head, data, pc, locals, pushes>>

-----------------------------------------------------------------------------
(* pop: the thread's hazard pointer *)

(* get_hazard_pointer_for_current_thread: the first call in a thread runs  *)
(* hp_owner's constructor.                                                 *)
CallPop(t) ==
    /\ pc[t] = "idle"
    /\ \/ /\ owned[t] = << >>
          /\ probe' = [probe EXCEPT ![t] = 1]
          /\ Goto(t, "claim")
       \/ /\ owned[t] # << >>
          /\ Goto(t, "load")
          /\ UNCHANGED probe
    /\ UNCHANGED <<hpArray, nodes_to_reclaim, reclaim_nodes_count, rpc, target, batch,
                   allocated, stackVars, locals, pushes>>

ClaimId(t) ==
    /\ pc[t] = "claim"
    /\ Claim(t, probe[t])
    /\ probe' = [probe EXCEPT ![t] = 0]
    /\ Goto(t, "load")
    /\ UNCHANGED <<nodes_to_reclaim, reclaim_nodes_count, rpc, target, batch,
                   allocated, stackVars, locals, pushes>>

(* The loop over hazard_pointers goes one too far. *)
ClaimNextTooFar(t) ==
    /\ pc[t] = "claim"
    /\ id[probe[t]] # NoThread
    /\ probe' = [probe EXCEPT ![t] = @ + 1]
    /\ UNCHANGED <<hpArray, nodes_to_reclaim, reclaim_nodes_count, rpc, target, batch,
                   allocated, stackVars, pc, locals, pushes>>

(* An owned one is skipped; after the last the constructor throws and pop  *)
(* is left without having touched the stack.                               *)
ClaimNext(t) ==
    /\ pc[t] = "claim"
    /\ \/ ClaimMiss(t) /\ UNCHANGED pc
       \/ ClaimFails(t) /\ Goto(t, "idle")
    /\ UNCHANGED <<hpArray, nodes_to_reclaim, reclaim_nodes_count, rpc, target, batch,
                   allocated, stackVars, locals, pushes>>

(* The thread ends and its thread_local hp_owner with it. *)
ThreadExits(t) ==
    /\ pc[t] = "idle"
    /\ owned[t] # << >>
    /\ DisownLast(t)
    /\ UNCHANGED <<reclaims, allocated, stackVars, pc, locals, pushes>>

-----------------------------------------------------------------------------
(* pop *)

LoadHead(t) ==
    /\ pc[t] = "load"
    /\ old_head' = [old_head EXCEPT ![t] = head]
    /\ Goto(t, "publish")
    /\ UNCHANGED <<hpVars, stackVars, temp, succ, pushes>>

(* temp = old_head; hp.store(old_head) *)
Publish(t) ==
    /\ pc[t] = "publish"
    /\ temp' = [temp EXCEPT ![t] = old_head[t]]
    /\ pointer' = [pointer EXCEPT ![owned[t][1]] = old_head[t]]
    /\ Goto(t, "validate")
    /\ UNCHANGED <<id, owned, reclaims, allocated, stackVars, old_head, succ, pushes>>

(* The head is loaded again but not compared with what was published. *)
ValidateNothing(t) ==
    /\ pc[t] = "validate"
    /\ old_head' = [old_head EXCEPT ![t] = temp[t]]
    /\ temp' = [temp EXCEPT ![t] = Null]
    /\ Goto(t, IF temp[t] = Null THEN "clear" ELSE "deref")
    /\ UNCHANGED <<hpVars, stackVars, succ, pushes>>

(* old_head = head.load(), again until it is what was published. *)
Validate(t) ==
    /\ pc[t] = "validate"
    /\ old_head' = [old_head EXCEPT ![t] = head]
    /\ temp' = [temp EXCEPT ![t] = Null]
    /\ Goto(t, IF head # temp[t] THEN "publish" ELSE IF head = Null THEN "clear" ELSE "deref")
    /\ UNCHANGED <<hpVars, stackVars, succ, pushes>>

(* old_head->next, read for the compare_exchange. *)
Deref(t) ==
    /\ pc[t] = "deref"
    /\ succ' = [succ EXCEPT ![t] = next[old_head[t]]]
    /\ Goto(t, "cas")
    /\ UNCHANGED <<hpVars, stackVars, old_head, temp, pushes>>

(* The compare_exchange as a plain store: it takes the node even if the    *)
(* head has changed since it was validated.                                *)
PopStore(t) ==
    /\ pc[t] = "cas"
    /\ head' = succ[t]
    /\ succ' = [succ EXCEPT ![t] = Null]
    /\ Goto(t, "clear")
    /\ UNCHANGED <<hpVars, next, data, old_head, temp, pushes>>

(* compare_exchange_strong: take the node, or start over with the new head *)
(* (a null head leaves the loop).                                          *)
PopCas(t) ==
    /\ pc[t] = "cas"
    /\ head = old_head[t]
    /\ head' = succ[t]
    /\ succ' = [succ EXCEPT ![t] = Null]
    /\ Goto(t, "clear")
    /\ UNCHANGED <<hpVars, next, data, old_head, temp, pushes>>

PopCasFails(t) ==
    /\ pc[t] = "cas"
    /\ head # old_head[t]
    /\ old_head' = [old_head EXCEPT ![t] = head]
    /\ succ' = [succ EXCEPT ![t] = Null]
    /\ Goto(t, "publish")
    /\ UNCHANGED <<hpVars, stackVars, temp, pushes>>

(* hp.store(nullptr); an empty stack returns nullopt, otherwise the value  *)
(* is moved out and the scan for hazard pointers on old_head begins.       *)
ClearHazard(t) ==
    /\ pc[t] = "clear"
    /\ pointer' = [pointer EXCEPT ![owned[t][1]] = Null]
    /\ target' = [target EXCEPT ![t] = old_head[t]]
    /\ old_head' = [old_head EXCEPT ![t] = Null]
    /\ \/ /\ old_head[t] = Null
          /\ Goto(t, "idle")
          /\ UNCHANGED probe
       \/ /\ old_head[t] # Null
          /\ probe' = [probe EXCEPT ![t] = 1]
          /\ Goto(t, "probe")
    /\ UNCHANGED <<id, owned, nodes_to_reclaim, reclaim_nodes_count, rpc, batch, allocated,
                   stackVars, temp, succ, pushes>>

ProbeMore(t) ==
    /\ pc[t] = "probe"
    /\ ProbeNext(t)
    /\ UNCHANGED <<hpArray, nodes_to_reclaim, reclaim_nodes_count, rpc, target, batch,
                   allocated, stackVars, pc, locals, pushes>>

(* The node is left alone when a hazard pointer is outstanding. *)
PopForgets(t) ==
    /\ pc[t] = "probe"
    /\ ProbeHits(t)
    /\ probe' = [probe EXCEPT ![t] = 0]
    /\ target' = [target EXCEPT ![t] = Null]
    /\ Goto(t, "idle")
    /\ UNCHANGED <<hpArray, nodes_to_reclaim, reclaim_nodes_count, rpc, batch,
                   allocated, stackVars, locals, pushes>>

(* A hazard pointer is outstanding: reclaim_later(old_head). *)
PopKeeps(t) ==
    /\ pc[t] = "probe"
    /\ ProbeHits(t)
    /\ probe' = [probe EXCEPT ![t] = 0]
    /\ Reclaiming(t, "add")
    /\ Goto(t, "dispose")
    /\ UNCHANGED <<hpArray, nodes_to_reclaim, reclaim_nodes_count, target, batch,
                   allocated, stackVars, locals, pushes>>

PopDeletes(t) ==
    /\ pc[t] = "probe"
    /\ ProbeClear(t)
    /\ allocated' = allocated \ {target[t]}
    /\ target' = [target EXCEPT ![t] = Null]
    /\ probe' = [probe EXCEPT ![t] = 0]
    /\ Goto(t, "idle")
    /\ UNCHANGED <<hpArray, nodes_to_reclaim, reclaim_nodes_count, rpc, batch,
                   stackVars, locals, pushes>>

Dispose(t) ==
    /\ pc[t] = "dispose"
    /\ ReclaimStep(t)
    /\ Goto(t, IF rpc'[t] = "none" THEN "idle" ELSE "dispose")
    /\ UNCHANGED <<stackVars, locals, pushes>>

-----------------------------------------------------------------------------

Step(t) ==
    \/ \E n \in Nodes : NewNode(t, n)
    \/ LinkNew(t) \/ PushCas(t) \/ PushCasFails(t)
    \/ CallPop(t) \/ ClaimId(t) \/ ClaimNext(t) \/ ThreadExits(t)
    \/ LoadHead(t) \/ Publish(t) \/ Validate(t) \/ Deref(t)
    \/ PopCas(t) \/ PopCasFails(t) \/ ClearHazard(t)
    \/ ProbeMore(t) \/ PopKeeps(t) \/ PopDeletes(t) \/ Dispose(t)

Next == \E t \in Threads : Step(t)

Spec == Init /\ [][Next]_vars

-----------------------------------------------------------------------------

(* Types; a thread owns at most the one hazard pointer of its thread_local *)
(* hp_owner, and the search for it stays inside hazard_pointers.           *)
TypeOK ==
    /\ HpTypeOK
    /\ head \in Nodes \cup {Null}
    /\ next \in [Nodes -> Nodes \cup {Null}]
    /\ data \in [Nodes -> 0..pushes]
    /\ pc \in [Threads -> PCs]
    /\ \A t \in Threads : Len(owned[t]) <= 1
    /\ old_head \in [Threads -> Nodes \cup {Null}]
    /\ temp \in [Threads -> Nodes \cup {Null}]
    /\ succ \in [Threads -> Nodes \cup {Null}]
    /\ pushes \in 0..MaxPushes

(* The i-th node from the head, Null past the end. *)
Nth[i \in 1..(Cardinality(Nodes) + 1)] ==
    IF i = 1 THEN head ELSE IF Nth[i - 1] = Null THEN Null ELSE next[Nth[i - 1]]
Depth == Cardinality({i \in DOMAIN Nth : Nth[i] # Null})

Reachable == {Nth[i] : i \in DOMAIN Nth} \ {Null}

(* The values on the stack, top first, and the value a pop took with its   *)
(* compare_exchange and is about to move out of the node.                  *)
Contents == [i \in 1..Depth |-> data[Nth[i]]]
Taken == [t \in Threads |->
            IF pc[t] = "clear" /\ old_head[t] # Null THEN data[old_head[t]] ELSE 0]

(* When pop reads old_head->next the node is allocated: the hazard pointer *)
(* published before the second load of head keeps every other thread's     *)
(* scan from deleting it.                                                  *)
NoUseAfterFree == \A t \in Threads : pc[t] = "deref" => old_head[t] \in allocated

(* Every allocated node is on the stack, on its way onto or off it, or     *)
(* with the reclaimer, and no node on the stack is with the reclaimer:     *)
(* nothing leaks and nothing reachable is deleted.                         *)
NodesAccountedFor ==
    LET inPush  == {temp[t] : t \in {u \in Threads : pc[u] \in {"link", "push"}}}
        popped  == {old_head[t] : t \in {u \in Threads : pc[u] = "clear"}} \ {Null}
        retired == nodes_to_reclaim \cup (UNION {batch[t] : t \in Threads})
                                    \cup ({target[t] : t \in Threads} \ {Null})
    IN  /\ allocated = Reachable \cup inPush \cup popped \cup retired
        /\ Reachable \cap (inPush \cup popped \cup retired) = {}

(* lockfree_stack is a stack: its linearization points are the successful  *)
(* compare_exchanges of push and pop.                                      *)
AbstractStack == INSTANCE Stack WITH
    Values <- 1..MaxPushes, stack <- Contents, taken <- Taken
ImplementsStack == AbstractStack!Spec

============================================================================
