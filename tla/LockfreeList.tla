---------------------------- MODULE LockfreeList ----------------------------
(***************************************************************************)
(* lockfree_list<T> (include/lockfree_list.hpp): an ordered linked set.    *)
(* erase marks the next pointer of a node, and the marked node is unlinked *)
(* and retired by whoever gets to it first.  Every operation protects the  *)
(* two nodes it stands on with two hazard pointers.                        *)
(*                                                                         *)
(* pc of a thread:                                                         *)
(*   "idle"                                                                *)
(*   "claim"              the two hp_owners of every operation             *)
(*   "new"                insert: allocate the node                        *)
(*   "start" "publish" "validate" "read" "unlink"             find         *)
(*   "unlinked"           find: in reclaim_later(curr)                     *)
(*   "insert"             insert: compare_exchange on pred->next           *)
(*   "next" "mark" "erase"                             erase, after find   *)
(*   "erased"             erase: in reclaim_later(curr)                    *)
(*   "release"            the operation is over, ~hp_owner twice           *)
(***************************************************************************)
EXTENDS HazardPtr

CONSTANTS
    Keys,
    Ops,            \* the operations the callers use
    InitialSets,    \* the sets of keys the list may hold at the beginning
    head_,          \* the sentinel node, never unlinked
    MaxCalls        \* bound: how many calls are made

ASSUME KeysAssumption == Keys \subseteq Nat \ {0}
ASSUME OpsAssumption == Ops \subseteq {"insert", "erase", "contains"}
ASSUME InitialAssumption == InitialSets \subseteq SUBSET Keys
ASSUME HeadAssumption == head_ \in Nodes
ASSUME BoundAssumption == MaxCalls \in Nat /\ IsFiniteSet(Nodes)

VARIABLES
    next,           \* the nodes' next fields: a pointer and its mark bit
    data,           \* the nodes' keys
    pc,
    op, key,        \* the call a thread is in, "none" and 0 outside
    new_node,       \* insert: the node it allocated
    hp_pred, hp_curr,   \* find: the hazard pointers for pred and for curr
    pred, curr,
    succ,           \* find and erase: next
    result,         \* what the call returns, "none" until it is known
    calls           \* number of calls made

list   == <<next, data>>
call   == <<op, key>>
slots  == <<hp_pred, hp_curr>>
locals == <<new_node, slots, pred, curr, succ>>
reclaimer == <<nodes_to_reclaim, reclaim_nodes_count, batch>>
vars == <<hpVars, list, pc, call, locals, result, calls>>

PCs == {"idle", "claim", "new", "start", "publish", "validate", "read", "unlink",
        "unlinked", "insert", "next", "mark", "erase", "erased", "release"}

mark(p)   == [ptr |-> p, marked |-> TRUE]
unmark(p) == [ptr |-> p, marked |-> FALSE]

(* A list of some keys, one node each, in order. *)
InitialList(node) ==
    LET keyOf(n) == IF n = head_ THEN 0 ELSE CHOOSE k \in DOMAIN node : node[k] = n
        linked == {head_} \cup {node[k] : k \in DOMAIN node}
        later(n) == {k \in DOMAIN node : k > keyOf(n)}
        first(K) == CHOOSE k \in K : \A j \in K : k <= j
    IN  /\ allocated = linked
        /\ data = [n \in Nodes |-> IF n \in linked THEN keyOf(n) ELSE 0]
        /\ next = [n \in Nodes |-> unmark(IF n \notin linked \/ later(n) = {} THEN Null
                                         ELSE node[first(later(n))])]

Init ==
    /\ HpInit
    /\ \E K \in InitialSets : \E node \in [K -> Nodes \ {head_}] :
           /\ \A j, k \in K : node[j] = node[k] => j = k
           /\ InitialList(node)
    /\ pc = [t \in Threads |-> "idle"]
    /\ op = [t \in Threads |-> "none"]
    /\ key = [t \in Threads |-> 0]
    /\ new_node = [t \in Threads |-> Null]
    /\ hp_pred = [t \in Threads |-> 0]
    /\ hp_curr = [t \in Threads |-> 0]
    /\ pred = [t \in Threads |-> Null]
    /\ curr = [t \in Threads |-> Null]
    /\ succ = [t \in Threads |-> Null]
    /\ result = [t \in Threads |-> "none"]
    /\ calls = 0

Goto(t, label) == pc' = [pc EXCEPT ![t] = label]

-----------------------------------------------------------------------------
(* hp_owner hp_pred, hp_curr: at the beginning and the end of every call *)

CallOp(t, o, k) ==
    /\ pc[t] = "idle"
    /\ calls < MaxCalls
    /\ calls' = calls + 1
    /\ op' = [op EXCEPT ![t] = o]
    /\ key' = [key EXCEPT ![t] = k]
    /\ Goto(t, "claim")
    /\ UNCHANGED <<hpVars, list, locals, result>>

(* find(...) is called with the hazard pointers in their first order. *)
CallFind(t, first, second) ==
    /\ hp_pred' = [hp_pred EXCEPT ![t] = first]
    /\ hp_curr' = [hp_curr EXCEPT ![t] = second]

ClaimFirst(t, s) ==
    /\ pc[t] = "claim"
    /\ owned[t] = << >>
    /\ s \in FirstFree
    /\ Claim(t, s)
    /\ UNCHANGED <<reclaims, allocated, list, pc, call, locals, result, calls>>

ClaimSecond(t, s) ==
    /\ pc[t] = "claim"
    /\ owned[t] # << >>
    /\ s \in FirstFree
    /\ Claim(t, s)
    /\ CallFind(t, owned[t][1], s)
    /\ Goto(t, IF op[t] = "insert" THEN "new" ELSE "start")
    /\ UNCHANGED <<reclaims, allocated, list, call, new_node, pred, curr, succ, result, calls>>

(* An hp_owner that is not destroyed when the second one throws. *)
ClaimThrowsLeaks(t) ==
    /\ pc[t] = "claim"
    /\ FirstFree = {}
    /\ op' = [op EXCEPT ![t] = "none"]
    /\ key' = [key EXCEPT ![t] = 0]
    /\ Goto(t, "idle")
    /\ UNCHANGED <<hpVars, list, locals, result, calls>>

(* The exception leaves the call; an hp_owner already constructed goes. *)
ClaimThrows(t) ==
    /\ pc[t] = "claim"
    /\ FirstFree = {}
    /\ Goto(t, "release")
    /\ UNCHANGED <<hpVars, list, call, locals, result, calls>>

(* ~hp_owner of hp_curr, then of hp_pred.  The locals are gone by then. *)
Release(t) ==
    /\ pc[t] = "release"
    /\ owned[t] # << >>
    /\ DisownLast(t)
    /\ new_node' = [new_node EXCEPT ![t] = Null]
    /\ hp_pred' = [hp_pred EXCEPT ![t] = 0]
    /\ hp_curr' = [hp_curr EXCEPT ![t] = 0]
    /\ pred' = [pred EXCEPT ![t] = Null]
    /\ curr' = [curr EXCEPT ![t] = Null]
    /\ succ' = [succ EXCEPT ![t] = Null]
    /\ UNCHANGED <<reclaims, allocated, list, pc, call, result, calls>>

Return(t) ==
    /\ pc[t] = "release"
    /\ owned[t] = << >>
    /\ op' = [op EXCEPT ![t] = "none"]
    /\ key' = [key EXCEPT ![t] = 0]
    /\ result' = [result EXCEPT ![t] = "none"]
    /\ Goto(t, "idle")
    /\ UNCHANGED <<hpVars, list, locals, calls>>

-----------------------------------------------------------------------------
(* find *)

(* retry: from the sentinel, which is published although it is never       *)
(* retired (nobody looks for it, so publishing it and the first load of    *)
(* pred->next are one step).                                               *)
FindStart(t) ==
    /\ pc[t] = "start"
    /\ pred' = [pred EXCEPT ![t] = head_]
    /\ pointer' = [pointer EXCEPT ![hp_pred[t]] = head_]
    /\ curr' = [curr EXCEPT ![t] = next[head_].ptr]
    /\ succ' = [succ EXCEPT ![t] = Null]
    /\ Goto(t, "publish")
    /\ UNCHANGED <<id, owned, reclaims, allocated, list, call, new_node, slots, result, calls>>

PublishCurr(t) ==
    /\ pc[t] = "publish"
    /\ curr[t] # Null
    /\ pointer' = [pointer EXCEPT ![hp_curr[t]] = curr[t]]
    /\ Goto(t, "validate")
    /\ UNCHANGED <<id, owned, reclaims, allocated, list, call, locals, result, calls>>

(* pred->next is read again; its mark bit is not looked at. *)
Validate(t) ==
    /\ pc[t] = "validate"
    /\ Goto(t, IF next[pred[t]].ptr # curr[t] THEN "start" ELSE "read")
    /\ UNCHANGED <<hpVars, list, call, locals, result, calls>>

ReadMarked(t) ==
    /\ pc[t] = "read"
    /\ next[curr[t]].marked
    /\ succ' = [succ EXCEPT ![t] = next[curr[t]].ptr]
    /\ Goto(t, "unlink")
    /\ UNCHANGED <<hpVars, list, call, new_node, slots, pred, curr, result, calls>>

(* Advance past an equal key: `<=' for `<'. *)
AdvancePastEqual(t) ==
    /\ pc[t] = "read"
    /\ ~next[curr[t]].marked
    /\ data[curr[t]] <= key[t]
    /\ pred' = [pred EXCEPT ![t] = curr[t]]
    /\ curr' = [curr EXCEPT ![t] = next[curr[t]].ptr]
    /\ hp_pred' = [hp_pred EXCEPT ![t] = hp_curr[t]]
    /\ hp_curr' = [hp_curr EXCEPT ![t] = hp_pred[t]]
    /\ Goto(t, "publish")
    /\ UNCHANGED <<hpVars, list, call, new_node, succ, result, calls>>

(* Advance: curr becomes pred and the two hazard pointers change roles. *)
Advance(t) ==
    /\ pc[t] = "read"
    /\ ~next[curr[t]].marked
    /\ data[curr[t]] < key[t]
    /\ pred' = [pred EXCEPT ![t] = curr[t]]
    /\ curr' = [curr EXCEPT ![t] = next[curr[t]].ptr]
    /\ hp_pred' = [hp_pred EXCEPT ![t] = hp_curr[t]]
    /\ hp_curr' = [hp_curr EXCEPT ![t] = hp_pred[t]]
    /\ Goto(t, "publish")
    /\ UNCHANGED <<hpVars, list, call, new_node, succ, result, calls>>

(* find returns found; insert then deletes the node it had allocated. *)
FindReturns(t, found) ==
    /\ IF op[t] = "insert" /\ found
       THEN /\ allocated' = allocated \ {new_node[t]}
            /\ new_node' = [new_node EXCEPT ![t] = Null]
       ELSE UNCHANGED <<allocated, new_node, calls>>
    /\ \/ /\ op[t] = "insert" /\ ~found
          /\ Goto(t, "insert")
          /\ UNCHANGED result
       \/ /\ op[t] = "erase" /\ found
          /\ Goto(t, "next")
          /\ UNCHANGED result
       \/ /\ op[t] = "contains" \/ (op[t] = "insert") = found
          /\ Goto(t, "release")
          /\ result' = [result EXCEPT ![t] =
                           IF op[t] = "contains" /\ found THEN "true" ELSE "false"]
    /\ UNCHANGED <<hpArray, reclaims, list, call, slots, pred, curr, succ, calls>>

FindAtEnd(t) ==
    /\ pc[t] = "publish"
    /\ curr[t] = Null
    /\ FindReturns(t, FALSE)

(* A logically deleted node counts as found. *)
FindAtMarkedKey(t) ==
    /\ pc[t] = "read"
    /\ data[curr[t]] >= key[t]
    /\ FindReturns(t, data[curr[t]] = key[t])

FindAtKey(t) ==
    /\ pc[t] = "read"
    /\ ~next[curr[t]].marked
    /\ data[curr[t]] >= key[t]
    /\ FindReturns(t, data[curr[t]] = key[t])

(* compare_exchange on pred->next and, if it took curr out, reclaim_later  *)
(* on curr; the caller's label while it is in there.                       *)
Unlink(t, label) ==
    /\ next[pred[t]] = unmark(curr[t])
    /\ next' = [next EXCEPT ![pred[t]] = unmark(succ[t])]
    /\ target' = [target EXCEPT ![t] = curr[t]]
    /\ Reclaiming(t, "add")
    /\ Goto(t, label)
    /\ UNCHANGED <<hpArray, reclaimer, probe, allocated, data, call, new_node, slots, pred,
                   result, calls>>

UnlinkMarked(t) ==
    /\ pc[t] = "unlink"
    /\ Unlink(t, "unlinked")
    /\ curr' = [curr EXCEPT ![t] = succ[t]]
    /\ succ' = [succ EXCEPT ![t] = Null]

UnlinkFails(t) ==
    /\ pc[t] = "unlink"
    /\ next[pred[t]] # unmark(curr[t])
    /\ succ' = [succ EXCEPT ![t] = Null]
    /\ Goto(t, "start")
    /\ UNCHANGED <<hpVars, list, call, new_node, slots, pred, curr, result, calls>>

(* A step inside reclaim_later; when it returns, find goes on with the     *)
(* next node and erase is done.                                            *)
Dispose(t) ==
    /\ pc[t] \in {"unlinked", "erased"}
    /\ ReclaimStep(t)
    /\ Goto(t, IF rpc'[t] # "none" THEN pc[t]
               ELSE IF pc[t] = "unlinked" THEN "publish" ELSE "release")
    /\ UNCHANGED <<list, call, locals, result, calls>>

-----------------------------------------------------------------------------
(* insert *)

NewNode(t, n) ==
    /\ pc[t] = "new"
    /\ n \notin allocated
    /\ allocated' = allocated \cup {n}
    /\ data' = [data EXCEPT ![n] = key[t]]
    /\ next' = [next EXCEPT ![n] = unmark(Null)]
    /\ new_node' = [new_node EXCEPT ![t] = n]
    /\ Goto(t, "start")
    /\ UNCHANGED <<hpArray, reclaims, call, slots, pred, curr, succ, result, calls>>

(* The compare_exchange does not see that pred has been marked. *)
InsertAfterMarked(t) ==
    /\ pc[t] = "insert"
    /\ next[pred[t]].ptr = curr[t]
    /\ next' = [next EXCEPT ![new_node[t]] = unmark(curr[t]), ![pred[t]] = unmark(new_node[t])]
    /\ result' = [result EXCEPT ![t] = "true"]
    /\ Goto(t, "release")
    /\ UNCHANGED <<hpVars, data, call, locals, calls>>

InsertCas(t) ==
    /\ pc[t] = "insert"
    /\ next[pred[t]] = unmark(curr[t])
    /\ next' = [next EXCEPT ![new_node[t]] = unmark(curr[t]), ![pred[t]] = unmark(new_node[t])]
    /\ result' = [result EXCEPT ![t] = "true"]
    /\ Goto(t, "release")
    /\ UNCHANGED <<hpVars, data, call, locals, calls>>

InsertCasFails(t) ==
    /\ pc[t] = "insert"
    /\ next[pred[t]] # unmark(curr[t])
    /\ next' = [next EXCEPT ![new_node[t]] = unmark(curr[t])]
    /\ CallFind(t, owned[t][1], owned[t][2])
    /\ Goto(t, "start")
    /\ UNCHANGED <<hpVars, data, call, new_node, pred, curr, succ, result, calls>>

-----------------------------------------------------------------------------
(* erase *)

ReadNext(t) ==
    /\ pc[t] = "next"
    /\ succ' = [succ EXCEPT ![t] = next[curr[t]].ptr]
    /\ Goto(t, "mark")
    /\ UNCHANGED <<hpVars, list, call, new_node, slots, pred, curr, result, calls>>

MarkCurr(t) ==
    /\ pc[t] = "mark"
    /\ next[curr[t]] = unmark(succ[t])
    /\ next' = [next EXCEPT ![curr[t]] = mark(succ[t])]
    /\ result' = [result EXCEPT ![t] = "true"]
    /\ Goto(t, "erase")
    /\ UNCHANGED <<hpVars, data, call, locals, calls>>

MarkFails(t) ==
    /\ pc[t] = "mark"
    /\ next[curr[t]] # unmark(succ[t])
    /\ CallFind(t, owned[t][1], owned[t][2])
    /\ Goto(t, "start")
    /\ UNCHANGED <<hpVars, list, call, new_node, pred, curr, succ, result, calls>>

EraseUnlinks(t) ==
    /\ pc[t] = "erase"
    /\ Unlink(t, "erased")
    /\ UNCHANGED <<curr, succ, calls>>

(* The node is retired even if somebody else unlinks it. *)
EraseRetiresAnyway(t) ==
    /\ pc[t] = "erase"
    /\ next[pred[t]] # unmark(curr[t])
    /\ target' = [target EXCEPT ![t] = curr[t]]
    /\ Reclaiming(t, "add")
    /\ Goto(t, "erased")
    /\ UNCHANGED <<hpArray, reclaimer, probe, allocated, list, call, locals, result, calls>>

EraseLeaves(t) ==
    /\ pc[t] = "erase"
    /\ next[pred[t]] # unmark(curr[t])
    /\ Goto(t, "release")
    /\ UNCHANGED <<hpVars, list, call, locals, result, calls>>

-----------------------------------------------------------------------------

Find(t) ==
    \/ FindStart(t) \/ PublishCurr(t) \/ Validate(t) \/ ReadMarked(t)
    \/ Advance(t) \/ FindAtEnd(t) \/ FindAtKey(t) \/ UnlinkMarked(t) \/ UnlinkFails(t)

Step(t) ==
    \/ \E o \in Ops, k \in Keys : CallOp(t, o, k)
    \/ \E s \in Slots : ClaimFirst(t, s) \/ ClaimSecond(t, s)
    \/ ClaimThrows(t) \/ Release(t) \/ Return(t)
    \/ Find(t) \/ Dispose(t)
    \/ \E n \in Nodes : NewNode(t, n)
    \/ InsertCas(t) \/ InsertCasFails(t)
    \/ ReadNext(t) \/ MarkCurr(t) \/ MarkFails(t) \/ EraseUnlinks(t) \/ EraseLeaves(t)

Next == \E t \in Threads : Step(t)

Spec == Init /\ [][Next]_vars

-----------------------------------------------------------------------------

(* Types; and outside its calls a thread owns no hazard pointer, however   *)
(* the call ended.                                                         *)
TypeOK ==
    /\ HpTypeOK
    /\ next \in [Nodes -> [ptr : Nodes \cup {Null}, marked : BOOLEAN]]
    /\ data \in [Nodes -> Keys \cup {0}]
    /\ pc \in [Threads -> PCs]
    /\ op \in [Threads -> Ops \cup {"none"}]
    /\ key \in [Threads -> Keys \cup {0}]
    /\ hp_pred \in [Threads -> Slots \cup {0}] /\ hp_curr \in [Threads -> Slots \cup {0}]
    /\ new_node \in [Threads -> Nodes \cup {Null}]
    /\ pred \in [Threads -> Nodes \cup {Null}]
    /\ curr \in [Threads -> Nodes \cup {Null}]
    /\ succ \in [Threads -> Nodes \cup {Null}]
    /\ result \in [Threads -> {"none", "true", "false"}]
    /\ calls \in 0..MaxCalls
    /\ \A t \in Threads : pc[t] = "idle" => owned[t] = << >>

(* The chain from the sentinel: the i-th node, Null past the end. *)
Nth[i \in 0..Cardinality(Nodes)] ==
    IF i = 0 THEN head_ ELSE IF Nth[i - 1] = Null THEN Null ELSE next[Nth[i - 1]].ptr
Reachable == {Nth[i] : i \in DOMAIN Nth} \ {Null}

(* The set the list stands for: the keys of its unmarked nodes. *)
Members == {data[n] : n \in {m \in Reachable \ {head_} : ~next[m].marked}}
Changed == {t \in Threads : op[t] \in {"insert", "erase"} /\ result[t] = "true"}

(* "keeping the list sorted" (lockfree_list.hpp:56): the keys ascend       *)
(* strictly along the chain, marked nodes included.                        *)
Sorted ==
    \A i \in DOMAIN Nth : i > 1 /\ Nth[i] # Null => data[Nth[i - 1]] < data[Nth[i]]

(* A node that left the list is handed to the reclaimer once, by the one   *)
(* thread whose compare_exchange unlinked it, and until then every marked  *)
(* node can still be found: nothing leaks and nothing in the list is       *)
(* retired, though erase gives up after one attempt to unlink.             *)
UnlinkedOnce ==
    LET inInsert == {new_node[t] : t \in {u \in Threads : result[u] = "none"}} \ {Null}
        retired  == nodes_to_reclaim \cup (UNION {batch[t] : t \in Threads})
                                     \cup ({target[t] : t \in Threads} \ {Null})
    IN  /\ allocated = Reachable \cup inInsert \cup retired
        /\ Reachable \cap (inInsert \cup retired) = {}

(* Whatever find, insert and erase dereference is allocated: "On return    *)
(* both are protected by the caller's hazard slots" (lockfree_list.hpp:186)*)
(* and "Validate curr is still the successor of pred before dereferencing  *)
(* it further" (205).                                                      *)
NoUseAfterFree ==
    \A t \in Threads :
        /\ pc[t] \in {"validate", "unlink", "insert", "erase"} => pred[t] \in allocated
        /\ pc[t] \in {"read", "next", "mark"} => curr[t] \in allocated

(* lockfree_list is a set: a successful insert changes it at the           *)
(* compare_exchange on pred->next, a successful erase at the one that      *)
(* marks curr->next.                                                       *)
AbstractSet == INSTANCE KeySet WITH set <- Members, changed <- Changed
ImplementsSet == AbstractSet!Spec

=============================================================================
