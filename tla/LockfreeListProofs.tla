------------------------- MODULE LockfreeListProofs -------------------------
(***************************************************************************)
(* Proofs about lockfree_list, for any number of threads, keys, addresses  *)
(* and calls, as long as no reclaim pass is made: the list is sorted, it   *)
(* is a set, its answers are right and what is unlinked is retired once.   *)
(* A pass may delete a node that find is about to read, see                *)
(* MCLockfreeListReclaim, so there is no such theorem without this;        *)
(* NoPassWithFewNodes says when it is met.                                 *)
(*                                                                         *)
(* The invariant speaks of the live nodes, those that are linked and not   *)
(* retired, by their keys: between a live node and its successor there is  *)
(* no live key.  A node that is not live any more is marked, and marked    *)
(* next fields are frozen, so a compare_exchange on pred->next succeeds    *)
(* only at a live pred, however long ago find looked at it.                *)
(***************************************************************************)
EXTENDS LockfreeListAnswers, FiniteSetTheorems, SequenceTheorems, ListLemmas, TLAPS

(* No thread has counted ReclaimThreshold calls of reclaim_later.          *)
NoPass == \A t \in Threads : rpc[t] # "reset"

-----------------------------------------------------------------------------
(* The invariant *)

Searching == {"publish", "validate", "read", "unlink", "unlinked"}
Found     == {"insert", "next", "mark", "erase"}
Claimed   == {"new", "start", "erased"} \cup Searching \cup Found

(* The node of an insert that has not linked it; the nodes handed to the   *)
(* reclaimer; the nodes that have been linked, and those that still are.   *)
Own(t, n)  == result[t] = "none" /\ new_node[t] = n
Retired(n) == n \in nodes_to_reclaim \/ \E t \in Threads : target[t] = n
Linked == {n \in allocated : \A t \in Threads : ~Own(t, n)}
Live   == {n \in Linked : ~Retired(n)}

(* What a thread has at each label. *)
Control(t) ==
    /\ pc[t] = "idle" <=> op[t] = "none"
    /\ pc[t] # "idle" => key[t] \in Keys
    /\ pc[t] \in {"new", "insert"} => op[t] = "insert"
    /\ pc[t] \in {"next", "mark", "erase", "erased"} => op[t] = "erase"
    /\ pc[t] \in {"erase", "erased"} => result[t] = "true"
    /\ pc[t] \notin {"erase", "erased", "release"} => result[t] = "none"
    /\ pc[t] \in {"idle", "claim", "new"} \/ op[t] # "insert" => new_node[t] = Null
    /\ pc[t] = "release" /\ (result[t] = "none" \/ owned[t] = << >>) => new_node[t] = Null
    /\ op[t] = "insert" /\ pc[t] \in {"start", "insert"} \cup Searching => new_node[t] \in Nodes
    /\ rpc[t] \in {"none", "add", "count"} /\ batch[t] = {}
    /\ rpc[t] # "none" <=> pc[t] \in {"unlinked", "erased"}
    /\ target[t] \in Nodes <=> rpc[t] = "add"

(* The two hazard pointers of a call. *)
Pointers(t) ==
    /\ Len(owned[t]) <= 2
    /\ Len(owned[t]) = 2 => owned[t][1] # owned[t][2]
    /\ pc[t] = "claim" => Len(owned[t]) <= 1
    /\ pc[t] \in Claimed => Len(owned[t]) = 2 /\ hp_pred[t] \in Slots /\ hp_curr[t] \in Slots

(* Nodes that are not live: one thread's, and nobody else's; or marked. *)
Placed ==
    /\ \A t \in Threads, n \in Nodes : Own(t, n) =>
           n \in allocated /\ ~Retired(n) /\ data[n] = key[t] /\ ~next[n].marked
    /\ \A t, u \in Threads, n \in Nodes : Own(t, n) /\ Own(u, n) => t = u
    /\ \A n \in Nodes : Retired(n) => n \in allocated /\ next[n].marked

(* The live nodes are in the order of their keys. *)
Ordered ==
    /\ head_ \in Live /\ data[head_] = 0
    /\ \A n \in Live : next[n].ptr \in Live \cup {Null}
    /\ \A n \in Live : next[n].ptr # Null => data[n] < data[next[n].ptr]
    /\ \A m, n \in Live : data[m] = data[n] => m = n
    /\ \A m, n \in Live : data[m] < data[n] =>
           next[m].ptr # Null /\ data[next[m].ptr] <= data[n]

(* Where find stands. *)
Place(t) ==
    /\ pc[t] \in Searching \cup Found =>
           /\ pred[t] \in Linked /\ data[pred[t]] < key[t]
           /\ curr[t] \in Linked \cup {Null}
    /\ pc[t] \in {"validate", "read", "unlink", "next", "mark", "erase"} => curr[t] # Null
    /\ pc[t] = "insert" /\ curr[t] # Null => key[t] < data[curr[t]]
    /\ pc[t] \in {"next", "mark", "erase"} => data[curr[t]] = key[t]
    /\ pc[t] \in {"unlink", "erase"} => next[curr[t]] = mark(succ[t])

ListInv ==
    /\ TypeOK
    /\ \A t \in Threads : Control(t) /\ Pointers(t)
    /\ Placed
    /\ Ordered
    /\ \A t \in Threads : Place(t)

(* find has looked at the gap where the key would be. *)
Witnessed(t) ==
    pc[t] \in Searching \cup {"insert"} /\ (curr[t] = Null \/ key[t] < data[curr[t]]) => FALSE \in seen[t]

-----------------------------------------------------------------------------
(* Hazard pointers *)

(* The hazard pointers a thread owns, before and after one more or less.   *)
LEMMA OwnedFacts ==
    ASSUME NEW q \in Seq(Slots)
    PROVE  /\ Len(q) \in Nat /\ DOMAIN q = 1..Len(q)
           /\ q = << >> <=> Len(q) = 0
           /\ \A i \in 1..Len(q) : q[i] \in Slots
           /\ \A x \in Slots : /\ Append(q, x) \in Seq(Slots) /\ Len(Append(q, x)) = Len(q) + 1
                               /\ \A i \in 1..Len(q) : Append(q, x)[i] = q[i]
                               /\ Append(q, x)[Len(q) + 1] = x
           /\ q # << >> => /\ SubSeq(q, 1, Len(q) - 1) \in Seq(Slots)
                           /\ Len(SubSeq(q, 1, Len(q) - 1)) = Len(q) - 1
                           /\ \A i \in 1..(Len(q) - 1) : SubSeq(q, 1, Len(q) - 1)[i] = q[i]
<1>1. Len(q) \in Nat /\ DOMAIN q = 1..Len(q) /\ (q = << >> <=> Len(q) = 0)
    BY LenProperties, EmptySeq
<1>2. \A i \in 1..Len(q) : q[i] \in Slots
    BY ElementOfSeq
<1>3. ASSUME NEW x \in Slots
      PROVE  /\ Append(q, x) \in Seq(Slots) /\ Len(Append(q, x)) = Len(q) + 1
             /\ \A i \in 1..Len(q) : Append(q, x)[i] = q[i]
             /\ Append(q, x)[Len(q) + 1] = x
    BY AppendProperties
<1>4. ASSUME q # << >>
      PROVE  /\ SubSeq(q, 1, Len(q) - 1) \in Seq(Slots)
             /\ Len(SubSeq(q, 1, Len(q) - 1)) = Len(q) - 1
             /\ \A i \in 1..(Len(q) - 1) : SubSeq(q, 1, Len(q) - 1)[i] = q[i]
    <2> DEFINE m == Len(q) - 1
    <2>1. \A i \in 1..m : q[i] \in Slots
        BY <1>1, <1>2
    <2>2. m \in Nat
        BY <1>1, <1>4
    <2> HIDE DEF m
    <2>3. /\ SubSeq(q, 1, m) \in Seq(Slots) /\ Len(SubSeq(q, 1, m)) = IF 1 <= m THEN m - 1 + 1 ELSE 0
          /\ \A i \in 1..(m - 1 + 1) : SubSeq(q, 1, m)[i] = q[1 + i - 1]
        BY <2>1, <2>2, SubSeqProperties
    <2>4. Len(SubSeq(q, 1, m)) = m /\ \A i \in 1..m : SubSeq(q, 1, m)[i] = q[i]
        BY <2>2, <2>3
    <2> QED BY <2>3, <2>4 DEF m
<1> QED BY <1>1, <1>2, <1>3, <1>4

(* Arithmetic of the two hazard pointers. *)
LEMMA OneOrTwo ==
    /\ \A m \in Nat, n \in Nat : m = n + 1 /\ m = 2 => n = 1 /\ 1 \in 1..n
    /\ \A n \in 1..2 : \A i \in 1..(n - 1) : i = 1 /\ n = 2
    /\ \A n \in Nat : n # 0 /\ n <= 1 => n = 1
OBVIOUS

(* A hazard pointer belongs to the thread that claimed it. *)
ArrayOK ==
    /\ id \in [Slots -> Threads \cup {NoThread, Outsider}]
    /\ pointer \in [Slots -> Nodes \cup {Null}]
    /\ owned \in [Threads -> Seq(Slots)]
    /\ \A t \in Threads : \A i \in DOMAIN owned[t] : id[owned[t][i]] = t

(* A thread in hp_owner's constructor gets one that nobody has. *)
LEMMA ClaimStep ==
    ASSUME ArrayOK, NEW t \in Threads, Pointers(t), Len(owned[t]) <= 1, NEW s \in Slots, Claim(t, s)
    PROVE  /\ ArrayOK' /\ Len(owned'[t]) = Len(owned[t]) + 1
           /\ \A u \in Threads : u # t => owned'[u] = owned[u]
           /\ Len(owned'[t]) = 2 => owned'[t][1] = owned[t][1] /\ owned'[t][2] = s
                                    /\ owned'[t][1] # owned'[t][2] /\ owned'[t][1] \in Slots
<1> DEFINE q == owned[t]
           r == Append(q, s)
<1>1. q \in Seq(Slots) /\ id[s] = NoThread /\ pointer' = pointer
      /\ id' = [id EXCEPT ![s] = t] /\ owned' = [owned EXCEPT ![t] = r]
    BY DEF ArrayOK, Claim
<1>2. /\ Len(q) \in Nat /\ r \in Seq(Slots) /\ Len(r) = Len(q) + 1 /\ r[Len(q) + 1] = s
      /\ \A i \in 1..Len(q) : r[i] = q[i] /\ q[i] \in Slots /\ id[q[i]] = t
    BY <1>1, OwnedFacts DEF ArrayOK
<1>3. DOMAIN r = 1..(Len(q) + 1) /\ \A i \in DOMAIN r : r[i] \in Slots
    BY <1>2, OwnedFacts
<1>4. \A i \in DOMAIN r : i \in 1..Len(q) \/ i = Len(q) + 1
    BY <1>2, <1>3
<1>5. owned'[t] = r /\ owned' \in [Threads -> Seq(Slots)] /\ \A u \in Threads : u # t => owned'[u] = owned[u]
    BY <1>1, <1>2 DEF ArrayOK
<1>6. \A i \in DOMAIN r : id'[r[i]] = t
    BY <1>1, <1>2, <1>3, <1>4 DEF ArrayOK
<1>7. ASSUME NEW u \in Threads, u # t, NEW i \in DOMAIN owned[u] PROVE id'[owned[u][i]] = u
    <2>1. owned[u] \in Seq(Slots) /\ id[owned[u][i]] = u
        BY DEF ArrayOK
    <2>2. owned[u][i] \in Slots /\ u # NoThread
        BY <2>1, OwnedFacts, NullAssumption
    <2> QED BY <1>1, <2>1, <2>2 DEF ArrayOK
<1>8. ArrayOK'
    <2>1. id' \in [Slots -> Threads \cup {NoThread, Outsider}]
        BY <1>1 DEF ArrayOK
    <2>2. \A u \in Threads : \A i \in DOMAIN owned'[u] : id'[owned'[u][i]] = u
        BY <1>5, <1>6, <1>7
    <2> QED BY <1>1, <1>5, <2>1, <2>2 DEF ArrayOK
<1>9. ASSUME Len(r) = 2 PROVE r[1] = q[1] /\ r[2] = s /\ r[1] # r[2] /\ r[1] \in Slots
    <2>0. Len(r) = Len(q) + 1 /\ Len(q) \in Nat /\ Len(r) = 2 /\ Len(r) \in Nat
        BY <1>2, <1>9
    <2>1. Len(q) = 1 /\ 1 \in 1..Len(q)
        BY <2>0, OneOrTwo, Zenon
    <2>2. r[1] = q[1] /\ q[1] \in Slots /\ id[q[1]] = t /\ r[2] = s
        BY <1>2, <2>1
    <2> QED BY <1>1, <2>2, NullAssumption
<1> QED BY <1>2, <1>5, <1>8, <1>9

(* ~hp_owner gives up the one claimed last. *)
LEMMA DisownStep ==
    ASSUME ArrayOK, NEW t \in Threads, Pointers(t), owned[t] # << >>, DisownLast(t)
    PROVE  ArrayOK' /\ Len(owned'[t]) <= 1 /\ \A u \in Threads : u # t => owned'[u] = owned[u]
<1> DEFINE q == owned[t]
           r == SubSeq(q, 1, Len(q) - 1)
           s == q[Len(q)]
<1>1. /\ q \in Seq(Slots) /\ pointer' = [pointer EXCEPT ![s] = Null]
      /\ id' = [id EXCEPT ![s] = NoThread] /\ owned' = [owned EXCEPT ![t] = r]
    BY DEF ArrayOK, DisownLast
<1>2. /\ Len(q) \in Nat /\ Len(q) # 0 /\ r \in Seq(Slots) /\ Len(r) = Len(q) - 1
      /\ \A i \in 1..(Len(q) - 1) : r[i] = q[i]
      /\ \A i \in 1..Len(q) : q[i] \in Slots /\ id[q[i]] = t
    BY <1>1, OwnedFacts DEF ArrayOK
<1>3. DOMAIN r = 1..(Len(q) - 1) /\ Len(q) \in 1..2
    <2>1. DOMAIN r = 1..Len(r) /\ Len(q) <= 2
        BY <1>2, OwnedFacts DEF Pointers
    <2> HIDE DEF r, q
    <2> QED BY <1>2, <2>1
<1>4. s \in Slots /\ id[s] = t
    BY <1>2
<1>5. owned'[t] = r /\ owned' \in [Threads -> Seq(Slots)] /\ \A u \in Threads : u # t => owned'[u] = owned[u]
    BY <1>1, <1>2 DEF ArrayOK
<1>6. ASSUME NEW i \in DOMAIN r PROVE id'[r[i]] = t
    <2>0. i \in 1..(Len(q) - 1) /\ Len(q) \in 1..2
        BY <1>3
    <2>1. i = 1 /\ Len(q) = 2
        BY <2>0, OneOrTwo, Zenon
    <2>2. r[1] = q[1] /\ q[1] \in Slots /\ id[q[1]] = t
        BY <1>2, <2>1
    <2>3. q[1] # s
        BY <2>1 DEF Pointers
    <2> QED BY <1>1, <2>1, <2>2, <2>3 DEF ArrayOK
<1>7. ASSUME NEW u \in Threads, u # t, NEW i \in DOMAIN owned[u] PROVE id'[owned[u][i]] = u
    <2>1. owned[u] \in Seq(Slots) /\ id[owned[u][i]] = u
        BY DEF ArrayOK
    <2>2. owned[u][i] \in Slots
        BY <2>1, OwnedFacts
    <2> QED BY <1>1, <1>4, <1>7, <2>1, <2>2 DEF ArrayOK
<1>8. ArrayOK'
    <2>1. /\ id' \in [Slots -> Threads \cup {NoThread, Outsider}]
          /\ pointer' \in [Slots -> Nodes \cup {Null}]
        BY <1>1 DEF ArrayOK
    <2>2. \A u \in Threads : \A i \in DOMAIN owned'[u] : id'[owned'[u][i]] = u
        BY <1>5, <1>6, <1>7
    <2> QED BY <1>5, <2>1, <2>2 DEF ArrayOK
<1>9. Len(r) <= 1
    BY <1>2, <1>3
<1> QED BY <1>5, <1>8, <1>9

-----------------------------------------------------------------------------
(* Types *)

ReclaimOK ==
    /\ nodes_to_reclaim \subseteq Nodes
    /\ reclaim_nodes_count \in Nat
    /\ rpc \in [Threads -> RPCs]
    /\ target \in [Threads -> Nodes \cup {Null}]
    /\ probe \in [Threads -> 0..max_hazard_pointers]
    /\ batch \in [Threads -> SUBSET Nodes]

CallsOK ==
    /\ pc \in [Threads -> PCs]
    /\ op \in [Threads -> Ops \cup {"none"}]
    /\ key \in [Threads -> Keys \cup {0}]
    /\ result \in [Threads -> {"none", "true", "false"}]
    /\ calls \in 0..MaxCalls
    /\ \A t \in Threads : pc[t] = "idle" => owned[t] = << >>

FindOK ==
    /\ hp_pred \in [Threads -> Slots \cup {0}] /\ hp_curr \in [Threads -> Slots \cup {0}]
    /\ new_node \in [Threads -> Nodes \cup {Null}]
    /\ pred \in [Threads -> Nodes \cup {Null}]
    /\ curr \in [Threads -> Nodes \cup {Null}]
    /\ succ \in [Threads -> Nodes \cup {Null}]

NodesOK ==
    /\ allocated \subseteq Nodes
    /\ next \in [Nodes -> [ptr : Nodes \cup {Null}, marked : BOOLEAN]]
    /\ data \in [Nodes -> Keys \cup {0}]

(* TypeOK in parts. *)
LEMMA TypeParts == TypeOK <=> ArrayOK /\ ReclaimOK /\ CallsOK /\ FindOK /\ NodesOK
BY DEF TypeOK, HpTypeOK, ArrayOK, ReclaimOK, CallsOK, FindOK, NodesOK

(* The same after a step. *)
LEMMA TypePartsNext == (TypeOK <=> ArrayOK /\ ReclaimOK /\ CallsOK /\ FindOK /\ NodesOK)'
BY TypeParts, PTL

(* Without a pass, reclaim_later adds the node to the list and counts. *)
LEMMA NoPassSteps ==
    ASSUME NEW t \in Threads, Control(t), Dispose(t)
    PROVE  AddToReclaimList(t) \/ CountReclaim(t)
BY DEF Control, Dispose, ReclaimStep, ResetCount, TakeList, NextCurrent, ReclaimReturns, ScanNext,
       ScanKeeps, ScanDeletes

(* What the steps of a thread leave alone. *)
LEMMA Untouched ==
    ASSUME NEW t \in Threads, Control(t), Step(t)
    PROVE  /\ \/ UNCHANGED hpArray
              \/ \E s \in Slots : ClaimFirst(t, s) \/ ClaimSecond(t, s)
              \/ Release(t) \/ FindStart(t) \/ PublishCurr(t)
           /\ UNCHANGED reclaims \/ UnlinkMarked(t) \/ EraseUnlinks(t) \/ Dispose(t)
           /\ \/ UNCHANGED <<allocated, list>>
              \/ FindAtEnd(t) \/ FindAtKey(t) \/ UnlinkMarked(t) \/ Dispose(t)
              \/ \E n \in Nodes : NewNode(t, n)
              \/ InsertCas(t) \/ InsertCasFails(t) \/ MarkCurr(t) \/ EraseUnlinks(t)
<1> USE DEF Step, Find, hpVars, hpArray, reclaims, CallOp, ClaimFirst, ClaimSecond, ClaimThrows, Release,
           Return, FindStart, PublishCurr, Validate, ReadMarked, Advance, FindAtEnd, FindAtKey,
           FindReturns, UnlinkMarked, UnlinkFails, Unlink, NewNode, InsertCas, InsertCasFails,
           ReadNext, MarkCurr, MarkFails, EraseUnlinks, EraseLeaves
<1>1. \/ UNCHANGED hpArray
      \/ \E s \in Slots : ClaimFirst(t, s) \/ ClaimSecond(t, s)
      \/ Release(t) \/ FindStart(t) \/ PublishCurr(t)
    <2>1. CASE Dispose(t)
        BY <2>1, NoPassSteps DEF Dispose, AddToReclaimList, CountReclaim
    <2> QED BY <2>1
<1>2. UNCHANGED reclaims \/ UnlinkMarked(t) \/ EraseUnlinks(t) \/ Dispose(t)
    OBVIOUS
<1>3. \/ UNCHANGED <<allocated, list>>
      \/ FindAtEnd(t) \/ FindAtKey(t) \/ UnlinkMarked(t) \/ Dispose(t)
      \/ \E n \in Nodes : NewNode(t, n)
      \/ InsertCas(t) \/ InsertCasFails(t) \/ MarkCurr(t) \/ EraseUnlinks(t)
    OBVIOUS
<1> QED BY <1>1, <1>2, <1>3

(* Claiming, publishing and giving up hazard pointers. *)
LEMMA ArrayStep ==
    ASSUME TypeOK, NEW t \in Threads, Control(t), Pointers(t), Step(t)
    PROVE  ArrayOK'
<1>0. ArrayOK
    BY TypeParts
<1>1. CASE UNCHANGED hpArray
    BY <1>0, <1>1 DEF ArrayOK, hpArray
<1>2. ASSUME NEW s \in Slots, ClaimFirst(t, s) \/ ClaimSecond(t, s) PROVE ArrayOK'
    <2>1. Claim(t, s) /\ Len(owned[t]) <= 1
        BY <1>2 DEF ClaimFirst, ClaimSecond, Pointers
    <2> QED BY <1>0, <2>1, ClaimStep
<1>3. CASE Release(t)
    BY <1>0, <1>3, DisownStep DEF Release
<1>4. CASE FindStart(t)
    BY <1>0, <1>4, HeadAssumption DEF FindStart, ArrayOK
<1>5. CASE PublishCurr(t)
    <2>1. curr[t] \in Nodes \cup {Null}
        BY DEF TypeOK
    <2> QED BY <1>0, <1>5, <2>1 DEF PublishCurr, ArrayOK
<1> QED BY <1>1, <1>2, <1>3, <1>4, <1>5, Untouched

(* Handing a node to the reclaimer. *)
LEMMA ReclaimTypes ==
    ASSUME TypeOK, NEW t \in Threads, Control(t), Step(t)
    PROVE  ReclaimOK'
<1>0. ReclaimOK /\ curr[t] \in Nodes \cup {Null}
    BY TypeParts DEF TypeOK
<1>1. CASE UNCHANGED reclaims
    BY <1>0, <1>1 DEF ReclaimOK, reclaims
<1>2. CASE UnlinkMarked(t) \/ EraseUnlinks(t)
    BY <1>0, <1>2 DEF ReclaimOK, UnlinkMarked, EraseUnlinks, Unlink, reclaimer, Reclaiming, RPCs
<1>3. CASE Dispose(t)
    <2>1. CASE AddToReclaimList(t)
        BY <1>0, <2>1 DEF ReclaimOK, AddToReclaimList, Reclaiming, RPCs, Control
    <2>2. CASE CountReclaim(t)
        BY <1>0, <2>2 DEF ReclaimOK, CountReclaim, Reclaiming, RPCs
    <2> QED BY <1>3, <2>1, <2>2, NoPassSteps
<1> QED BY <1>1, <1>2, <1>3, Untouched

(* Allocating, linking, marking and unlinking nodes. *)
LEMMA NodesTypes ==
    ASSUME TypeOK, NEW t \in Threads, Control(t), Step(t)
    PROVE  NodesOK'
<1> USE DEF NodesOK, list
<1>a. \A p \in Nodes \cup {Null} : {mark(p), unmark(p)} \subseteq [ptr : Nodes \cup {Null}, marked : BOOLEAN]
    BY DEF mark, unmark
<1>0. NodesOK /\ {curr[t], succ[t], new_node[t]} \subseteq Nodes \cup {Null} /\ key[t] \in Keys \cup {0}
    BY TypeParts DEF TypeOK
<1>1. CASE UNCHANGED <<allocated, list>>
    BY <1>0, <1>1
<1>2. CASE FindAtEnd(t) \/ FindAtKey(t)
    BY <1>0, <1>2 DEF FindAtEnd, FindAtKey, FindReturns
<1>3. CASE UnlinkMarked(t) \/ EraseUnlinks(t)
    <2>1. UNCHANGED <<allocated, data>> /\ next' = [next EXCEPT ![pred[t]] = unmark(succ[t])]
        BY <1>3 DEF UnlinkMarked, EraseUnlinks, Unlink
    <2> QED BY <1>a, <1>0, <2>1
<1>4. CASE Dispose(t)
    BY <1>0, <1>4, NoPassSteps DEF Dispose, AddToReclaimList, CountReclaim
<1>5. ASSUME NEW n \in Nodes, NewNode(t, n) PROVE NodesOK'
    BY <1>a, <1>0, <1>5 DEF NewNode
<1>6. CASE InsertCas(t)
    <2>1. /\ UNCHANGED <<allocated, data>>
          /\ next' = [next EXCEPT ![new_node[t]] = unmark(curr[t]), ![pred[t]] = unmark(new_node[t])]
        BY <1>6 DEF InsertCas, hpVars
    <2> QED BY <1>a, <1>0, <2>1
<1>7. CASE InsertCasFails(t)
    BY <1>a, <1>0, <1>7 DEF InsertCasFails, hpVars
<1>8. CASE MarkCurr(t)
    BY <1>a, <1>0, <1>8 DEF MarkCurr, hpVars
<1> QED BY <1>1, <1>2, <1>3, <1>4, <1>5, <1>6, <1>7, <1>8, Untouched

(* find's locals: what it reads from a node is a node or nullptr. *)
LEMMA FindTypes ==
    ASSUME TypeOK, NEW t \in Threads, Control(t), Pointers(t), Place(t), Step(t)
    PROVE  FindOK'
<1> USE DEF FindOK, slots, locals, CallFind
<1>0. FindOK
    BY TypeParts
<1>1. \A n \in Nodes : next[n].ptr \in Nodes \cup {Null}
    BY DEF TypeOK
<1>2. pc[t] \in {"read", "next"} => curr[t] \in Nodes
    BY DEF Place, Linked, TypeOK, HpTypeOK, Searching, Found
<1>3. pc[t] \in Claimed => owned[t][1] \in Slots /\ owned[t][2] \in Slots
    <2>1. owned[t] \in Seq(Slots)
        BY DEF TypeOK, HpTypeOK
    <2> QED BY <2>1, OwnedFacts DEF Pointers
<1>4. CASE UNCHANGED locals
    BY <1>0, <1>4
<1>5. ASSUME NEW s \in Slots, ClaimSecond(t, s) PROVE FindOK'
    <2>1. owned[t] \in Seq(Slots)
        BY DEF TypeOK, HpTypeOK
    <2>2. owned[t][1] \in Slots
        BY <1>5, <2>1, OwnedFacts DEF ClaimSecond
    <2> QED BY <1>0, <1>5, <2>2 DEF ClaimSecond
<1>6. CASE Release(t)
    BY <1>0, <1>6 DEF Release
<1>7. CASE FindStart(t)
    BY <1>0, <1>1, <1>7, HeadAssumption DEF FindStart
<1>8. CASE ReadMarked(t) \/ Advance(t) \/ ReadNext(t)
    BY <1>0, <1>1, <1>2, <1>8 DEF ReadMarked, Advance, ReadNext
<1>9. CASE FindAtEnd(t) \/ FindAtKey(t)
    BY <1>0, <1>9 DEF FindAtEnd, FindAtKey, FindReturns
<1>10. CASE UnlinkMarked(t) \/ EraseUnlinks(t) \/ UnlinkFails(t)
    BY <1>0, <1>10 DEF UnlinkMarked, EraseUnlinks, Unlink, UnlinkFails
<1>11. ASSUME NEW n \in Nodes, NewNode(t, n) PROVE FindOK'
    BY <1>0, <1>11 DEF NewNode
<1>12. CASE InsertCasFails(t) \/ MarkFails(t)
    BY <1>0, <1>3, <1>12 DEF InsertCasFails, MarkFails, Claimed, Found
<1> QED
    BY <1>4, <1>5, <1>6, <1>7, <1>8, <1>9, <1>10, <1>11, <1>12
    DEF Step, Find, CallOp, ClaimFirst, ClaimThrows, Return, PublishCurr, Validate, Dispose,
        InsertCas, MarkCurr, EraseLeaves

(* The call a thread is in. *)
LEMMA CallsTypes ==
    ASSUME TypeOK, NEW t \in Threads, Control(t), Pointers(t), Step(t)
    PROVE  CallsOK'
<1> USE DEF CallsOK, call, Goto, PCs
<1>0. CallsOK
    BY TypeParts
<1>1. ASSUME NEW o \in Ops, NEW k \in Keys, CallOp(t, o, k) PROVE CallsOK'
    <2>1. calls' \in 0..MaxCalls
        BY <1>0, <1>1, BoundAssumption DEF CallOp
    <2> QED BY <1>0, <1>1, <2>1 DEF CallOp, hpVars, hpArray
<1>2. ASSUME NEW s \in Slots, ClaimFirst(t, s) PROVE CallsOK'
    BY <1>0, <1>2 DEF ClaimFirst, Claim
<1>3. ASSUME NEW s \in Slots, ClaimSecond(t, s) PROVE CallsOK'
    BY <1>0, <1>3 DEF ClaimSecond, Claim
<1>4. CASE Release(t)
    BY <1>0, <1>4 DEF Release, DisownLast
<1>5. CASE Return(t)
    BY <1>0, <1>5 DEF Return, hpVars, hpArray
<1>6. CASE /\ UNCHANGED <<owned, op, key, calls>>
           /\ \E l \in PCs \ {"idle"} : pc' = [pc EXCEPT ![t] = l]
           /\ result' = result \/ \E r \in {"true", "false"} : result' = [result EXCEPT ![t] = r]
    BY <1>0, <1>6
<1>7. CASE Dispose(t)
    <2>1. UNCHANGED <<owned, op, key, result, calls>>
        BY <1>7, NoPassSteps DEF Dispose, AddToReclaimList, CountReclaim, hpArray
    <2>2. \E l \in PCs \ {"idle"} : pc' = [pc EXCEPT ![t] = l]
        BY <1>7 DEF Dispose
    <2> QED BY <1>6, <2>1, <2>2
<1>8. CASE ClaimThrows(t) \/ FindStart(t) \/ PublishCurr(t) \/ Validate(t) \/ ReadMarked(t)
           \/ Advance(t) \/ UnlinkFails(t) \/ InsertCasFails(t) \/ ReadNext(t) \/ MarkFails(t)
           \/ EraseLeaves(t) \/ \E n \in Nodes : NewNode(t, n)
    <2>1. UNCHANGED <<owned, op, key, result, calls>>
        BY <1>8 DEF ClaimThrows, FindStart, PublishCurr, Validate, ReadMarked, Advance, UnlinkFails,
                    InsertCasFails, ReadNext, MarkFails, EraseLeaves, NewNode, hpVars, hpArray
    <2>2. \E l \in PCs \ {"idle"} : pc' = [pc EXCEPT ![t] = l]
        BY <1>8 DEF ClaimThrows, FindStart, PublishCurr, Validate, ReadMarked, Advance, UnlinkFails,
                    InsertCasFails, ReadNext, MarkFails, EraseLeaves, NewNode
    <2> QED BY <1>6, <2>1, <2>2
<1>9. CASE FindAtEnd(t) \/ FindAtKey(t)
    BY <1>6, <1>9 DEF FindAtEnd, FindAtKey, FindReturns, hpArray
<1>10. CASE UnlinkMarked(t) \/ EraseUnlinks(t) \/ InsertCas(t) \/ MarkCurr(t)
    BY <1>6, <1>10 DEF UnlinkMarked, EraseUnlinks, Unlink, InsertCas, MarkCurr, hpVars, hpArray
<1> QED
    BY <1>1, <1>2, <1>3, <1>4, <1>5, <1>7, <1>8, <1>9, <1>10 DEF Step, Find

(* Every step keeps the types. *)
LEMMA TypeStep ==
    ASSUME TypeOK, NEW t \in Threads, Control(t), Pointers(t), Place(t), Step(t)
    PROVE  TypeOK'
BY ArrayStep, ReclaimTypes, NodesTypes, FindTypes, CallsTypes, TypePartsNext

-----------------------------------------------------------------------------
(* Control *)

(* A step changes the stepping thread's own variables only. *)
LEMMA OthersStay ==
    ASSUME TypeOK, NEW t \in Threads, Control(t), Step(t), NEW u \in Threads, u # t
    PROVE  /\ pc'[u] = pc[u] /\ op'[u] = op[u] /\ key'[u] = key[u] /\ result'[u] = result[u]
           /\ new_node'[u] = new_node[u] /\ pred'[u] = pred[u] /\ curr'[u] = curr[u]
           /\ succ'[u] = succ[u] /\ hp_pred'[u] = hp_pred[u] /\ hp_curr'[u] = hp_curr[u]
           /\ owned'[u] = owned[u] /\ rpc'[u] = rpc[u] /\ target'[u] = target[u]
           /\ batch'[u] = batch[u]
<1>0. /\ \/ UNCHANGED hpArray
         \/ \E s \in Slots : ClaimFirst(t, s) \/ ClaimSecond(t, s)
         \/ Release(t) \/ FindStart(t) \/ PublishCurr(t)
      /\ UNCHANGED reclaims \/ UnlinkMarked(t) \/ EraseUnlinks(t) \/ Dispose(t)
    BY Untouched
<1> USE DEF TypeOK, HpTypeOK, Goto, CallFind, hpVars, hpArray, reclaims, reclaimer, call, slots, locals
<1>1. /\ pc'[u] = pc[u] /\ op'[u] = op[u] /\ key'[u] = key[u] /\ result'[u] = result[u]
      /\ new_node'[u] = new_node[u] /\ pred'[u] = pred[u] /\ curr'[u] = curr[u]
      /\ succ'[u] = succ[u] /\ hp_pred'[u] = hp_pred[u] /\ hp_curr'[u] = hp_curr[u]
    BY DEF Step, Find, CallOp, ClaimFirst, ClaimSecond, ClaimThrows, Release, Return, FindStart,
           PublishCurr, Validate, ReadMarked, Advance, FindAtEnd, FindAtKey, FindReturns,
           UnlinkMarked, UnlinkFails, Unlink, Dispose, NewNode, InsertCas, InsertCasFails,
           ReadNext, MarkCurr, MarkFails, EraseUnlinks, EraseLeaves
<1>2. owned'[u] = owned[u]
    BY <1>0 DEF ClaimFirst, ClaimSecond, Claim, Release, DisownLast, FindStart, PublishCurr
<1>3. rpc'[u] = rpc[u] /\ target'[u] = target[u] /\ batch'[u] = batch[u]
    <2>1. Dispose(t) => AddToReclaimList(t) \/ CountReclaim(t)
        BY NoPassSteps
    <2> QED BY <1>0, <2>1
            DEF UnlinkMarked, EraseUnlinks, Unlink, Reclaiming, AddToReclaimList, CountReclaim
<1> QED BY <1>1, <1>2, <1>3

(* A thread in find has the two hazard pointers of its call. *)
LEMMA PointersStep ==
    ASSUME TypeOK, NEW t \in Threads, Control(t), Pointers(t), Step(t)
    PROVE  Pointers(t)'
<1> USE DEF Goto, Claimed, Searching, Found, slots, locals
<1>0. /\ ArrayOK /\ owned[t] \in Seq(Slots) /\ pc \in [Threads -> PCs]
      /\ hp_pred = [u \in Threads |-> hp_pred[u]] /\ hp_curr = [u \in Threads |-> hp_curr[u]]
    BY TypeParts DEF TypeOK, HpTypeOK
<1>1. Len(owned[t]) \in Nat
    BY <1>0, OwnedFacts
<1>2. ASSUME NEW s \in Slots, ClaimFirst(t, s) PROVE Pointers(t)'
    <2>1. Len(owned[t]) = 0 /\ Claim(t, s) /\ pc' = pc /\ pc[t] = "claim"
        BY <1>0, <1>2, OwnedFacts DEF ClaimFirst
    <2>2. Len(owned'[t]) = 1
        <3>1. Len(owned[t]) <= 1
            BY <2>1
        <3>2. Len(owned'[t]) = Len(owned[t]) + 1
            BY <1>0, <2>1, <3>1, ClaimStep
        <3> QED BY <2>1, <3>2
    <2> QED BY <2>1, <2>2 DEF Pointers
<1>3. ASSUME NEW s \in Slots, ClaimSecond(t, s) PROVE Pointers(t)'
    <2>1. Len(owned[t]) = 1 /\ Claim(t, s) /\ pc[t] = "claim"
        <3>1. Claim(t, s) /\ pc[t] = "claim"
            BY <1>3 DEF ClaimSecond
        <3>2. Len(owned[t]) # 0 /\ Len(owned[t]) <= 1
            BY <1>0, <1>3, <3>1, OwnedFacts DEF ClaimSecond, Pointers
        <3> QED BY <1>1, <3>1, <3>2, OneOrTwo, Zenon
    <2>2. /\ Len(owned'[t]) = 2 /\ owned'[t][1] = owned[t][1] /\ owned'[t][2] = s
          /\ owned'[t][1] # owned'[t][2] /\ owned'[t][1] \in Slots
        <3>1. Len(owned[t]) <= 1
            BY <2>1
        <3>2. Len(owned'[t]) = Len(owned[t]) + 1
            BY <1>0, <2>1, <3>1, ClaimStep
        <3>3. Len(owned'[t]) = 2
            BY <2>1, <3>2
        <3> QED BY <1>0, <2>1, <3>1, <3>3, ClaimStep
    <2>3. hp_pred'[t] = owned[t][1] /\ hp_curr'[t] = s /\ pc'[t] # "claim"
        BY <1>0, <1>3 DEF ClaimSecond, CallFind
    <2> QED BY <2>2, <2>3 DEF Pointers
<1>4. CASE Release(t)
    <2>1. Len(owned'[t]) <= 1 /\ pc'[t] = "release"
        BY <1>0, <1>4, DisownStep DEF Release
    <2>2. Len(owned'[t]) \in Nat
        BY ArrayStep, OwnedFacts DEF ArrayOK
    <2> QED BY <2>1, <2>2 DEF Pointers
<1>5. CASE UNCHANGED owned
    <2>1. pc[t] \in Claimed => owned[t][1] \in Slots /\ owned[t][2] \in Slots
        BY <1>0, OwnedFacts DEF Pointers
    <2>2. CASE pc[t] = "idle"
        <3>1. owned[t] = << >> /\ Len(owned[t]) = 0 /\ pc'[t] = "claim"
            BY <1>0, <2>2, OwnedFacts
            DEF TypeOK, Step, Find, CallOp, ClaimFirst, ClaimSecond, ClaimThrows, Release, Return,
                FindStart, PublishCurr, Validate, ReadMarked, Advance, FindAtEnd, FindAtKey,
                UnlinkMarked, UnlinkFails, Dispose, NewNode, InsertCas, InsertCasFails,
                ReadNext, MarkCurr, MarkFails, EraseUnlinks, EraseLeaves
        <3> QED BY <1>5, <3>1 DEF Pointers
    <2>3. CASE pc[t] # "idle" /\ pc'[t] \notin Claimed /\ pc'[t] # "claim"
        BY <1>5, <2>3 DEF Pointers
    <2>4. CASE /\ pc[t] \in Claimed /\ pc'[t] # "claim"
               /\ UNCHANGED slots \/ InsertCasFails(t) \/ MarkFails(t) \/ Advance(t)
        BY <1>0, <1>5, <2>1, <2>4 DEF Pointers, InsertCasFails, MarkFails, Advance, CallFind
    <2>5. \/ pc[t] = "idle"
          \/ pc[t] # "idle" /\ pc'[t] \notin Claimed /\ pc'[t] # "claim"
          \/ /\ pc[t] \in Claimed /\ pc'[t] # "claim"
             /\ UNCHANGED slots \/ InsertCasFails(t) \/ MarkFails(t) \/ Advance(t)
          \/ \E s \in Slots : ClaimFirst(t, s) \/ ClaimSecond(t, s)
        BY <1>0
        DEF Step, Find, CallOp, ClaimThrows, Release, Return, FindStart, PublishCurr, Validate,
            ReadMarked, Advance, FindAtEnd, FindAtKey, FindReturns, UnlinkMarked, UnlinkFails,
            Unlink, Dispose, NewNode, InsertCas, InsertCasFails, ReadNext, MarkCurr, MarkFails,
            EraseUnlinks, EraseLeaves
    <2> QED BY <1>2, <1>3, <2>2, <2>3, <2>4, <2>5
<1> QED
    BY <1>2, <1>3, <1>4, <1>5, Untouched DEF FindStart, PublishCurr, hpArray

(* What a thread has at its next label, if its count starts no pass. *)
LEMMA ControlStep ==
    ASSUME TypeOK, NEW t \in Threads, Control(t), Pointers(t), Place(t), Step(t), NoPass'
    PROVE  Control(t)'
<1> USE NullAssumption, OpsAssumption DEF hpVars, hpArray, reclaims, list, call, slots, locals, Goto,
        CallFind, Searching, Found
<1>0. /\ CallsOK /\ FindOK /\ ReclaimOK /\ (pc[t] \in Claimed => owned[t] # << >>)
      /\ pc[t] \in {"unlink", "erase"} => curr[t] \in Nodes
    <2>1. owned[t] \in Seq(Slots)
        BY DEF TypeOK, HpTypeOK
    <2>2. pc[t] \in Claimed => owned[t] # << >>
        BY <2>1, OwnedFacts DEF Pointers
    <2> QED BY <2>2, TypeParts DEF Place, Linked, TypeOK, HpTypeOK
<1> USE <1>0 DEF CallsOK, FindOK, ReclaimOK, Control, Claimed
<1>1. ASSUME NEW o \in Ops, NEW k \in Keys, CallOp(t, o, k) PROVE Control(t)'
    BY <1>1 DEF CallOp
<1>2. ASSUME NEW s \in Slots, ClaimFirst(t, s) PROVE Control(t)'
    BY <1>2 DEF ClaimFirst
<1>3. ASSUME NEW s \in Slots, ClaimSecond(t, s) PROVE Control(t)'
    BY <1>3 DEF ClaimSecond
<1>4. CASE ClaimThrows(t)
    BY <1>4 DEF ClaimThrows
<1>5. CASE Release(t)
    BY <1>5 DEF Release
<1>6. CASE Return(t)
    BY <1>6 DEF Return
<1>7. CASE FindStart(t)
    BY <1>7 DEF FindStart
<1>8. CASE PublishCurr(t)
    BY <1>8 DEF PublishCurr
<1>9. CASE Validate(t)
    BY <1>9 DEF Validate
<1>10. CASE ReadMarked(t)
    BY <1>10 DEF ReadMarked
<1>11. CASE Advance(t)
    BY <1>11 DEF Advance
<1>12. CASE FindAtEnd(t)
    BY <1>12 DEF FindAtEnd, FindReturns
<1>13. CASE FindAtKey(t)
    BY <1>13 DEF FindAtKey, FindReturns
<1>14. CASE UnlinkMarked(t)
    BY <1>14 DEF UnlinkMarked, Unlink, Reclaiming, reclaimer
<1>15. CASE UnlinkFails(t)
    BY <1>15 DEF UnlinkFails
<1>16. ASSUME NEW n \in Nodes, NewNode(t, n) PROVE Control(t)'
    BY <1>16 DEF NewNode
<1>17. CASE InsertCas(t)
    BY <1>17 DEF InsertCas
<1>18. CASE InsertCasFails(t)
    BY <1>18 DEF InsertCasFails
<1>19. CASE ReadNext(t)
    BY <1>19 DEF ReadNext
<1>20. CASE MarkCurr(t)
    BY <1>20 DEF MarkCurr
<1>21. CASE MarkFails(t)
    BY <1>21 DEF MarkFails
<1>22. CASE EraseUnlinks(t)
    BY <1>22 DEF EraseUnlinks, Unlink, Reclaiming, reclaimer
<1>23. CASE EraseLeaves(t)
    BY <1>23 DEF EraseLeaves
<1>24. CASE Dispose(t)
    <2>1. CASE AddToReclaimList(t)
        BY <1>24, <2>1 DEF Dispose, AddToReclaimList, Reclaiming
    <2>2. CASE CountReclaim(t)
        <3>1. rpc'[t] = "none"
            BY <2>2 DEF CountReclaim, Reclaiming, NoPass
        <3> QED BY <1>24, <2>2, <3>1 DEF Dispose, CountReclaim, Reclaiming
    <2> QED BY <1>24, <2>1, <2>2, NoPassSteps
<1> QED
    BY <1>1, <1>2, <1>3, <1>4, <1>5, <1>6, <1>7, <1>8, <1>9, <1>10, <1>11, <1>12,
       <1>13, <1>14, <1>15, <1>16, <1>17, <1>18, <1>19, <1>20, <1>21, <1>22, <1>23, <1>24
    DEF Step, Find

-----------------------------------------------------------------------------
(* What the steps do to the nodes *)

SameNodes(t) ==
    /\ \A n \in Nodes : Retired(n)' <=> Retired(n)
    /\ \A n \in Nodes : Own(t, n)' <=> Own(t, n)

(* No node changes, or changes hands. *)
Quiet(t) ==
    /\ UNCHANGED <<next, data, allocated>> /\ SameNodes(t)
    /\ key' = key \/ \A n \in Nodes : ~Own(t, n)

(* insert has found its key and deletes the node it allocated. *)
Discards(t) ==
    /\ UNCHANGED <<next, data>>
    /\ \A n \in Nodes : (Retired(n)' <=> Retired(n)) /\ ~Own(t, n)'
    /\ \E o \in Nodes : Own(t, o) /\ allocated' = allocated \ {o}

(* The nodes of other inserts stay theirs. *)
LEMMA OthersOwn ==
    ASSUME TypeOK, NEW t \in Threads, Control(t), Step(t), NEW u \in Threads, u # t, NEW n
    PROVE  Own(u, n)' <=> Own(u, n)
BY OthersStay DEF Own

(* A step that leaves the reclaimer alone retires nothing. *)
LEMMA SameRetired ==
    ASSUME NEW n, UNCHANGED <<nodes_to_reclaim, target>>
    PROVE  Retired(n)' <=> Retired(n)
BY DEF Retired

(* The steps that change no node's next field. *)
LEMMA QuietSteps ==
    ASSUME TypeOK, NEW t \in Threads, Control(t), Step(t),
           ~(\E n \in Nodes : NewNode(t, n)), ~InsertCas(t), ~InsertCasFails(t), ~MarkCurr(t),
           ~UnlinkMarked(t), ~EraseUnlinks(t)
    PROVE  Quiet(t) \/ Discards(t)
<1> USE NullAssumption DEF list, hpVars, reclaims
<1>0. CallsOK /\ FindOK /\ ReclaimOK
    BY TypeParts
<1>1. CASE Dispose(t)
    <2>1. /\ UNCHANGED <<next, data, result, new_node, key>>
        BY <1>1 DEF Dispose, locals, call
    <2>2. CASE AddToReclaimList(t)
        <3>1. /\ UNCHANGED allocated /\ target' = [target EXCEPT ![t] = Null]
              /\ nodes_to_reclaim' = nodes_to_reclaim \cup {target[t]}
            BY <2>2 DEF AddToReclaimList
        <3>2. \A n \in Nodes : Retired(n)' <=> Retired(n)
            BY <1>0, <3>1 DEF Retired, ReclaimOK
        <3> QED BY <2>1, <3>1, <3>2 DEF Quiet, SameNodes, Own
    <2>3. CASE CountReclaim(t)
        <3>1. UNCHANGED <<allocated, nodes_to_reclaim, target>>
            BY <2>3 DEF CountReclaim
        <3> QED BY <2>1, <3>1, SameRetired DEF Quiet, SameNodes, Own
    <2> QED BY <1>1, <2>2, <2>3, NoPassSteps
<1>2. CASE FindAtEnd(t) \/ FindAtKey(t)
    <2>1. UNCHANGED <<next, data, nodes_to_reclaim, target, key>>
        BY <1>2 DEF FindAtEnd, FindAtKey, FindReturns, call
    <2>2. CASE op[t] = "insert" /\ FindAtKey(t) /\ data[curr[t]] = key[t]
        <3>1. Own(t, new_node[t]) /\ new_node[t] \in Nodes /\ allocated' = allocated \ {new_node[t]}
            BY <2>2 DEF FindAtKey, FindReturns, Own, Control, Searching
        <3>2. new_node'[t] = Null
            BY <1>0, <2>2 DEF FindAtKey, FindReturns, FindOK
        <3> QED BY <2>1, <3>1, <3>2, SameRetired DEF Discards, Own
    <2>3. CASE ~(op[t] = "insert" /\ FindAtKey(t) /\ data[curr[t]] = key[t])
        <3>1. UNCHANGED <<allocated, new_node>>
            BY <1>2, <2>3 DEF FindAtEnd, FindAtKey, FindReturns
        <3>2. result' = result \/ op[t] # "insert"
            BY <1>2, <2>3 DEF FindAtEnd, FindAtKey, FindReturns
        <3>3. op[t] # "insert" => new_node[t] = Null
            BY DEF Control
        <3> QED BY <2>1, <3>1, <3>2, <3>3, SameRetired DEF Quiet, SameNodes, Own
    <2> QED BY <2>2, <2>3
<1>3. CASE Release(t)
    <2>1. UNCHANGED <<next, data, allocated, nodes_to_reclaim, target, result, key>> /\ new_node'[t] = Null
        BY <1>0, <1>3 DEF Release, FindOK, call
    <2>2. result[t] = "none" => new_node[t] = Null
        BY <1>3 DEF Release, Control
    <2> QED BY <2>1, <2>2, SameRetired DEF Quiet, SameNodes, Own
<1>4. CASE Return(t)
    <2>1. UNCHANGED <<next, data, allocated, nodes_to_reclaim, target, new_node>> /\ new_node[t] = Null
        BY <1>4 DEF Return, Control, locals
    <2> QED BY <2>1, SameRetired DEF Quiet, SameNodes, Own
<1>5. ASSUME NEW o \in Ops, NEW k \in Keys, CallOp(t, o, k) PROVE Quiet(t)
    <2>1. UNCHANGED <<next, data, allocated, nodes_to_reclaim, target, new_node>> /\ new_node[t] = Null
        BY <1>5 DEF CallOp, Control, locals
    <2>2. UNCHANGED result
        BY <1>5 DEF CallOp
    <2> QED BY <2>1, <2>2, SameRetired DEF Quiet, SameNodes, Own
<1>6. CASE UNCHANGED <<next, data, allocated, nodes_to_reclaim, target, result, new_node, key>>
    BY <1>6, SameRetired DEF Quiet, SameNodes, Own
<1> QED
    BY <1>1, <1>2, <1>3, <1>4, <1>5, <1>6
    DEF Step, Find, ClaimFirst, ClaimSecond, ClaimThrows, FindStart, PublishCurr, Validate,
        ReadMarked, Advance, UnlinkFails, ReadNext, MarkFails, EraseLeaves, locals, slots, call

(* insert allocates a node. *)
LEMMA NewNodeDoes ==
    ASSUME TypeOK, NEW t \in Threads, Control(t), NEW o \in Nodes, NewNode(t, o)
    PROVE  /\ o \notin allocated /\ allocated' = allocated \cup {o} /\ key' = key
           /\ next' = [next EXCEPT ![o] = unmark(Null)] /\ data' = [data EXCEPT ![o] = key[t]]
           /\ \A n \in Nodes : (Retired(n)' <=> Retired(n)) /\ ~Own(t, n) /\ (Own(t, n)' <=> n = o)
<1> USE NullAssumption DEF NewNode, reclaims, call
<1>1. UNCHANGED <<nodes_to_reclaim, target, key>>
    OBVIOUS
<1>2. /\ new_node[t] = Null /\ new_node'[t] = o /\ result'[t] = "none"
    BY DEF TypeOK, Control
<1> QED BY <1>1, <1>2, SameRetired DEF Own

(* insert links its node between pred and curr. *)
LEMMA InsertDoes ==
    ASSUME TypeOK, NEW t \in Threads, Control(t), InsertCas(t)
    PROVE  /\ UNCHANGED <<data, allocated, key>> /\ next[pred[t]] = unmark(curr[t])
           /\ next' = [next EXCEPT ![new_node[t]] = unmark(curr[t]), ![pred[t]] = unmark(new_node[t])]
           /\ new_node[t] \in Nodes /\ Own(t, new_node[t])
           /\ \A n \in Nodes : (Retired(n)' <=> Retired(n)) /\ ~Own(t, n)'
<1>1. /\ UNCHANGED <<nodes_to_reclaim, target, data, allocated, key>> /\ result'[t] = "true"
      /\ next[pred[t]] = unmark(curr[t])
      /\ next' = [next EXCEPT ![new_node[t]] = unmark(curr[t]), ![pred[t]] = unmark(new_node[t])]
    BY DEF InsertCas, hpVars, reclaims, TypeOK, call
<1>2. new_node[t] \in Nodes /\ Own(t, new_node[t])
    BY DEF InsertCas, Control, Own
<1> QED BY <1>1, <1>2, SameRetired DEF Own

(* Or it tries again. *)
LEMMA InsertFailDoes ==
    ASSUME TypeOK, NEW t \in Threads, Control(t), InsertCasFails(t)
    PROVE  /\ UNCHANGED <<data, allocated, key>> /\ SameNodes(t)
           /\ next' = [next EXCEPT ![new_node[t]] = unmark(curr[t])]
           /\ new_node[t] \in Nodes /\ Own(t, new_node[t])
<1>1. /\ UNCHANGED <<nodes_to_reclaim, target, data, allocated, result, new_node, key>>
      /\ next' = [next EXCEPT ![new_node[t]] = unmark(curr[t])]
    BY DEF InsertCasFails, hpVars, reclaims, call
<1>2. new_node[t] \in Nodes /\ Own(t, new_node[t])
    BY DEF InsertCasFails, Control, Own
<1> QED BY <1>1, <1>2, SameRetired DEF Own, SameNodes

(* erase marks curr. *)
LEMMA MarkDoes ==
    ASSUME TypeOK, NEW t \in Threads, Control(t), MarkCurr(t)
    PROVE  /\ UNCHANGED <<data, allocated, key>> /\ SameNodes(t) /\ next[curr[t]] = unmark(succ[t])
           /\ next' = [next EXCEPT ![curr[t]] = mark(succ[t])]
<1>1. /\ UNCHANGED <<nodes_to_reclaim, target, data, allocated, new_node, key>>
      /\ next' = [next EXCEPT ![curr[t]] = mark(succ[t])] /\ next[curr[t]] = unmark(succ[t])
    BY DEF MarkCurr, hpVars, reclaims, locals, call
<1>2. new_node[t] = Null
    BY DEF MarkCurr, Control
<1> QED BY <1>1, <1>2, SameRetired, NullAssumption DEF Own, SameNodes

(* Whoever unlinks curr retires it. *)
LEMMA UnlinkDoes ==
    ASSUME TypeOK, NEW t \in Threads, Control(t), UnlinkMarked(t) \/ EraseUnlinks(t)
    PROVE  /\ UNCHANGED <<data, allocated, key>> /\ next[pred[t]] = unmark(curr[t])
           /\ next' = [next EXCEPT ![pred[t]] = unmark(succ[t])]
           /\ \A n \in Nodes : Retired(n)' <=> Retired(n) \/ n = curr[t]
           /\ \A n \in Nodes : Own(t, n)' <=> Own(t, n)
<1>1. /\ UNCHANGED <<nodes_to_reclaim, data, allocated, new_node, result, key>>
      /\ target' = [target EXCEPT ![t] = curr[t]]
      /\ next' = [next EXCEPT ![pred[t]] = unmark(succ[t])] /\ next[pred[t]] = unmark(curr[t])
    BY DEF UnlinkMarked, EraseUnlinks, Unlink, reclaimer, call
<1>2. target[t] \notin Nodes /\ target \in [Threads -> Nodes \cup {Null}]
    BY DEF UnlinkMarked, EraseUnlinks, Control, TypeOK, HpTypeOK
<1>3. \A n \in Nodes : Retired(n)' <=> Retired(n) \/ n = curr[t]
    BY <1>1, <1>2 DEF Retired
<1> QED BY <1>1, <1>3 DEF Own

-----------------------------------------------------------------------------
(* Nodes that are not live *)

(* The two fields of a next pointer. *)
LEMMA Fields ==
    \A p : /\ mark(p).ptr = p /\ mark(p).marked /\ unmark(p).ptr = p /\ ~unmark(p).marked
           /\ \A q : mark(p) # unmark(q) /\ (mark(p) = mark(q) => p = q) /\ (unmark(p) = unmark(q) => p = q)
BY DEF mark, unmark

(* A node that has been linked stays linked or retired, its key stays, and *)
(* once it is marked its next field is frozen.                             *)
LEMMA LinkedStays ==
    ASSUME TypeOK, Placed, NEW t \in Threads, Control(t), Place(t), Step(t), NEW n \in Linked
    PROVE  n \in Linked' /\ data'[n] = data[n] /\ (next[n].marked => next'[n] = next[n])
<1>0. next = [m \in Nodes |-> next[m]] /\ data = [m \in Nodes |-> data[m]]
    BY DEF TypeOK
<1>1. n \in Nodes /\ n \in allocated /\ (\A u \in Threads : ~Own(u, n))
      /\ \A u \in Threads : u # t => ~Own(u, n)'
    BY OthersOwn DEF Linked, TypeOK, HpTypeOK
<1> DEFINE Kept == /\ n \in allocated' /\ ~Own(t, n)' /\ data'[n] = data[n]
                   /\ next[n].marked => next'[n] = next[n]
<1>2. SUFFICES Kept
    BY <1>1 DEF Linked
<1>3. CASE Quiet(t) \/ Discards(t)
    BY <1>1, <1>3 DEF Quiet, SameNodes, Discards
<1>4. ASSUME NEW o \in Nodes, NewNode(t, o) PROVE Kept
    BY <1>0, <1>1, <1>4, NewNodeDoes
<1>5. CASE InsertCas(t)
    <2>1. /\ UNCHANGED <<data, allocated>> /\ next[pred[t]] = unmark(curr[t]) /\ ~Own(t, n)'
          /\ next' = [next EXCEPT ![new_node[t]] = unmark(curr[t]), ![pred[t]] = unmark(new_node[t])]
          /\ Own(t, new_node[t])
        BY <1>1, <1>5, InsertDoes
    <2>2. n # new_node[t] /\ (n = pred[t] => ~next[n].marked)
        BY <1>1, <2>1, Fields
    <2> QED BY <1>0, <1>1, <2>1, <2>2
<1>6. CASE InsertCasFails(t)
    <2>1. /\ UNCHANGED <<data, allocated>> /\ SameNodes(t) /\ Own(t, new_node[t])
          /\ next' = [next EXCEPT ![new_node[t]] = unmark(curr[t])]
        BY <1>6, InsertFailDoes
    <2> QED BY <1>0, <1>1, <2>1 DEF SameNodes
<1>7. CASE MarkCurr(t)
    <2>1. /\ UNCHANGED <<data, allocated>> /\ SameNodes(t) /\ next[curr[t]] = unmark(succ[t])
          /\ next' = [next EXCEPT ![curr[t]] = mark(succ[t])]
        BY <1>7, MarkDoes
    <2>2. n = curr[t] => ~next[n].marked
        BY <2>1, Fields
    <2> QED BY <1>0, <1>1, <2>1, <2>2 DEF SameNodes
<1>8. CASE UnlinkMarked(t) \/ EraseUnlinks(t)
    <2>1. /\ UNCHANGED <<data, allocated>> /\ next[pred[t]] = unmark(curr[t])
          /\ next' = [next EXCEPT ![pred[t]] = unmark(succ[t])] /\ (Own(t, n)' <=> Own(t, n))
        BY <1>1, <1>8, UnlinkDoes
    <2>2. n = pred[t] => ~next[n].marked
        BY <2>1, Fields
    <2> QED BY <1>0, <1>1, <2>1, <2>2
<1> QED BY <1>3, <1>4, <1>5, <1>6, <1>7, <1>8, QuietSteps

(* Where find stands is linked, so it is nobody's new node. *)
LEMMA PlaceNodes ==
    ASSUME TypeOK, NEW t \in Threads, Place(t), pc[t] \in Searching \cup Found
    PROVE  /\ pred[t] \in Nodes /\ \A u \in Threads : ~Own(u, pred[t])
           /\ curr[t] # Null => /\ curr[t] \in Nodes /\ curr[t] \in allocated
                                /\ \A u \in Threads : ~Own(u, curr[t])
BY DEF Place, Linked, TypeOK, HpTypeOK

(* New nodes and retired nodes are kept apart. *)
LEMMA PlacedStep ==
    ASSUME TypeOK, Placed, NEW t \in Threads, Control(t), Place(t), Step(t)
    PROVE  Placed'
<1>9. next = [m \in Nodes |-> next[m]] /\ data = [m \in Nodes |-> data[m]]
    BY DEF TypeOK
<1>0. \A u \in Threads, n \in Nodes : u # t => (Own(u, n)' <=> Own(u, n)) /\ key'[u] = key[u]
    BY OthersOwn, OthersStay
<1>1. CASE Quiet(t)
    <2>1. \A u \in Threads, n \in Nodes : Own(u, n)' => Own(u, n) /\ key'[u] = key[u]
        BY <1>0, <1>1 DEF Quiet, SameNodes
    <2> QED BY <1>1, <2>1 DEF Quiet, SameNodes, Placed
<1>2. CASE Discards(t)
    <2>1. PICK o \in Nodes : Own(t, o) /\ allocated' = allocated \ {o}
        BY <1>2 DEF Discards
    <2>2. \A u \in Threads, n \in Nodes : Own(u, n)' => u # t /\ Own(u, n) /\ key'[u] = key[u] /\ n # o
        BY <1>0, <1>2, <2>1 DEF Discards, Placed
    <2>3. \A n \in Nodes : Retired(n)' => Retired(n) /\ n # o
        BY <1>2, <2>1 DEF Discards, Placed
    <2> QED BY <1>2, <2>1, <2>2, <2>3 DEF Discards, Placed
<1>3. ASSUME NEW o \in Nodes, NewNode(t, o) PROVE Placed'
    <2>1. /\ o \notin allocated /\ allocated' = allocated \cup {o} /\ key' = key
          /\ next' = [next EXCEPT ![o] = unmark(Null)] /\ data' = [data EXCEPT ![o] = key[t]]
          /\ \A n \in Nodes : (Retired(n)' <=> Retired(n)) /\ (Own(t, n)' <=> n = o)
        BY <1>3, NewNodeDoes
    <2>2. \A u \in Threads, n \in Nodes : Own(u, n)' => (u = t /\ n = o) \/ (u # t /\ Own(u, n) /\ n # o)
        <3>1. \A u \in Threads, n \in Nodes : Own(u, n) => n # o
            BY <2>1 DEF Placed
        <3>2. \A n \in Nodes : Own(t, n)' => n = o
            BY <2>1
        <3>3. ASSUME NEW u \in Threads, NEW n \in Nodes, Own(u, n)'
              PROVE  (u = t /\ n = o) \/ (u # t /\ Own(u, n) /\ n # o)
            <4>1. CASE u = t
                BY <3>2, <3>3, <4>1
            <4>2. CASE u # t
                BY <1>0, <3>1, <3>3, <4>2
            <4> QED BY <4>1, <4>2
        <3> QED BY <3>3
    <2>3. \A n \in Nodes : Retired(n)' => Retired(n) /\ n # o
        BY <2>1 DEF Placed
    <2>4. /\ next'[o] = unmark(Null) /\ data'[o] = key[t] /\ ~Retired(o)'
          /\ \A n \in Nodes : n # o => next'[n] = next[n] /\ data'[n] = data[n]
        BY <1>9, <2>1, <2>3
    <2>5. ~next'[o].marked
        BY <2>4, Fields
    <2> QED BY <2>1, <2>2, <2>3, <2>4, <2>5 DEF Placed
<1>4. CASE InsertCas(t)
    <2>1. /\ UNCHANGED <<data, allocated, key>> /\ ~next[pred[t]].marked
          /\ next' = [next EXCEPT ![new_node[t]] = unmark(curr[t]), ![pred[t]] = unmark(new_node[t])]
          /\ Own(t, new_node[t]) /\ \A n \in Nodes : (Retired(n)' <=> Retired(n)) /\ ~Own(t, n)'
          /\ new_node[t] \in Nodes
        BY <1>4, InsertDoes, Fields
    <2>2. \A u \in Threads, n \in Nodes : Own(u, n)' => u # t /\ Own(u, n)
        BY <1>0, <2>1
    <2>3. \A n \in Nodes : Retired(n)' => Retired(n) /\ n # new_node[t] /\ n # pred[t]
        BY <2>1 DEF Placed
    <2>4. \A n \in Nodes : /\ ~next[n].marked => ~next'[n].marked
                           /\ n # new_node[t] /\ n # pred[t] => next'[n] = next[n]
        BY <1>9, <2>1, Fields
    <2> QED BY <2>1, <2>2, <2>3, <2>4 DEF Placed
<1>5. CASE InsertCasFails(t)
    <2>1. /\ UNCHANGED <<data, allocated, key>> /\ SameNodes(t)
          /\ next' = [next EXCEPT ![new_node[t]] = unmark(curr[t])]
          /\ new_node[t] \in Nodes /\ Own(t, new_node[t])
        BY <1>5, InsertFailDoes
    <2>2. \A u \in Threads, n \in Nodes : Own(u, n)' => Own(u, n)
        BY <1>0, <2>1 DEF SameNodes
    <2>3. \A n \in Nodes : Retired(n)' => Retired(n) /\ n # new_node[t]
        BY <2>1 DEF SameNodes, Placed
    <2>4. \A n \in Nodes : /\ ~next[n].marked => ~next'[n].marked
                           /\ n # new_node[t] => next'[n] = next[n]
        BY <1>9, <2>1, Fields
    <2> QED BY <2>1, <2>2, <2>3, <2>4 DEF Placed
<1>6. CASE MarkCurr(t)
    <2>1. /\ UNCHANGED <<data, allocated, key>> /\ SameNodes(t)
          /\ next' = [next EXCEPT ![curr[t]] = mark(succ[t])]
        BY <1>6, MarkDoes
    <2>2. curr[t] \in Nodes /\ \A u \in Threads : ~Own(u, curr[t])
        BY <1>6, PlaceNodes DEF MarkCurr, Found, Place
    <2>3. \A u \in Threads, n \in Nodes : Own(u, n)' => Own(u, n) /\ n # curr[t]
        BY <1>0, <2>1, <2>2 DEF SameNodes
    <2>4. \A n \in Nodes : Retired(n)' => Retired(n)
        BY <2>1 DEF SameNodes
    <2>5. \A n \in Nodes : /\ next[n].marked => next'[n].marked
                           /\ n # curr[t] => next'[n] = next[n]
        BY <1>9, <2>1, Fields
    <2> QED BY <2>1, <2>3, <2>4, <2>5 DEF Placed
<1>7. CASE UnlinkMarked(t) \/ EraseUnlinks(t)
    <2>1. /\ UNCHANGED <<data, allocated, key>> /\ ~next[pred[t]].marked
          /\ next' = [next EXCEPT ![pred[t]] = unmark(succ[t])]
          /\ \A n \in Nodes : Retired(n)' <=> Retired(n) \/ n = curr[t]
          /\ \A n \in Nodes : Own(t, n)' <=> Own(t, n)
        BY <1>7, UnlinkDoes, Fields
    <2>2. /\ curr[t] \in Nodes /\ curr[t] \in allocated /\ next[curr[t]].marked
          /\ \A u \in Threads : ~Own(u, curr[t])
        BY <1>7, PlaceNodes, Fields DEF UnlinkMarked, EraseUnlinks, Searching, Found, Place
    <2>3. \A u \in Threads, n \in Nodes : Own(u, n)' => Own(u, n) /\ n # curr[t]
        BY <1>0, <2>1, <2>2
    <2>4. \A n \in Nodes : Retired(n)' => n \in allocated /\ next[n].marked /\ n # pred[t]
        BY <2>1, <2>2 DEF Placed
    <2>5. \A n \in Nodes : /\ ~next[n].marked => ~next'[n].marked
                           /\ n # pred[t] => next'[n] = next[n]
        BY <1>9, <2>1, Fields
    <2> QED BY <2>1, <2>3, <2>4, <2>5 DEF Placed
<1> QED BY <1>1, <1>2, <1>3, <1>4, <1>5, <1>6, <1>7, QuietSteps

-----------------------------------------------------------------------------
(* The order of the live nodes *)

(* The live nodes are a chain in the order of their keys. *)
ptrs == [n \in Nodes |-> next[n].ptr]

(* Ordered says so. *)
LEMMA OrderedIsChain == ASSUME TypeOK PROVE Ordered <=> KeyChain(Live, head_, Null, ptrs, data)
<1>1. \A n \in Live : n \in Nodes /\ ptrs[n] = next[n].ptr
    BY DEF Live, Linked, TypeOK, HpTypeOK, ptrs
<1> QED BY <1>1 DEF Ordered, KeyChain

(* The same after a step. *)
LEMMA OrderedNext == TypeOK' => (Ordered <=> KeyChain(Live, head_, Null, ptrs, data))'
<1>1. TypeOK => (Ordered <=> KeyChain(Live, head_, Null, ptrs, data))
    BY OrderedIsChain
<1> QED BY <1>1, PTL

(* What is known of a live node. *)
LEMMA LiveFacts ==
    ASSUME TypeOK
    PROVE  /\ Live \subseteq Nodes /\ Null \notin Live
           /\ \A n \in Nodes : data[n] \in Nat
           /\ \A n : n \in Live <=> n \in Linked /\ ~Retired(n)
<1>1. Live \subseteq Nodes /\ \A n : n \in Live <=> n \in Linked /\ ~Retired(n)
    BY DEF Live, Linked, TypeOK, HpTypeOK
<1>2. data \in [Nodes -> Keys \cup {0}]
    BY DEF TypeOK
<1>3. \A n \in Nodes : data[n] \in Nat
    <2>1. Keys \cup {0} \subseteq Nat
        BY KeysAssumption
    <2> QED BY <1>2, <2>1, Zenon
<1> QED BY <1>1, <1>3, NullAssumption

(* A linked node that is not marked is live. *)
LEMMA UnmarkedIsLive ==
    ASSUME TypeOK, Placed, NEW n \in Linked, ~next[n].marked
    PROVE  n \in Live
BY LiveFacts DEF Placed, Linked, TypeOK, HpTypeOK

(* Which nodes are live after a step of t, from what the step does. *)
LEMMA LiveNext ==
    ASSUME TypeOK, NEW t \in Threads, Control(t), Step(t), NEW n
    PROVE  n \in Live' <=> n \in allocated' /\ ~Own(t, n)' /\ ~Retired(n)'
                           /\ \A u \in Threads : u # t => ~Own(u, n)
<1>1. \A u \in Threads : u # t => (Own(u, n)' <=> Own(u, n))
    BY OthersOwn
<1> QED BY <1>1 DEF Live, Linked

(* And before. *)
LEMMA LiveNow ==
    ASSUME NEW t \in Threads, NEW n
    PROVE  n \in Live <=> n \in allocated /\ ~Own(t, n) /\ ~Retired(n)
                          /\ \A u \in Threads : u # t => ~Own(u, n)
BY DEF Live, Linked

(* The steps that neither link nor unlink. *)
LEMMA LiveStays ==
    ASSUME TypeOK, Placed, NEW t \in Threads, Control(t), Pointers(t), Place(t), Step(t),
           ~InsertCas(t), ~UnlinkMarked(t), ~EraseUnlinks(t)
    PROVE  /\ Live' = Live
           /\ \A n \in Live : ptrs'[n] = ptrs[n] /\ data'[n] = data[n]
<1>9. next = [m \in Nodes |-> next[m]] /\ data = [m \in Nodes |-> data[m]] /\ allocated \subseteq Nodes
    BY DEF TypeOK, HpTypeOK
<1>0. /\ Live \subseteq Nodes /\ \A n \in Nodes : ptrs[n] = next[n].ptr /\ ptrs'[n] = next'[n].ptr
      /\ \A n \in Live : n \in allocated /\ \A u \in Threads : ~Own(u, n)
    BY LiveFacts DEF ptrs, Linked
<1> DEFINE Same == /\ \A n \in Nodes : n \in Live' <=> n \in Live
                   /\ \A n \in Live : next'[n].ptr = next[n].ptr /\ data'[n] = data[n]
<1>8. SUFFICES Same
    <2>1. Live' \subseteq Nodes
        <3>1. allocated' \subseteq Nodes
            BY TypeStep DEF TypeOK, HpTypeOK
        <3> QED BY <3>1 DEF Live, Linked
    <2> QED BY <1>0, <1>8, <2>1
<1>1. CASE Quiet(t)
    BY <1>0, <1>1, LiveNext, LiveNow DEF Quiet, SameNodes
<1>2. CASE Discards(t)
    <2>1. PICK o \in Nodes : Own(t, o) /\ allocated' = allocated \ {o}
        BY <1>2 DEF Discards
    <2>2. \A n \in Nodes : Own(t, n) => n = o
        BY <2>1 DEF Own
    <2>3. \A u \in Threads : u # t => ~Own(u, o)
        BY <2>1 DEF Placed
    <2> QED BY <1>0, <1>2, <2>1, <2>2, <2>3, LiveNext, LiveNow DEF Discards
<1>3. ASSUME NEW o \in Nodes, NewNode(t, o) PROVE Same
    <2>1. /\ o \notin allocated /\ allocated' = allocated \cup {o}
          /\ next' = [next EXCEPT ![o] = unmark(Null)] /\ data' = [data EXCEPT ![o] = key[t]]
          /\ \A n \in Nodes : (Retired(n)' <=> Retired(n)) /\ ~Own(t, n) /\ (Own(t, n)' <=> n = o)
        BY <1>3, NewNodeDoes
    <2>2. \A n \in Nodes : n # o => next'[n] = next[n] /\ data'[n] = data[n]
        BY <1>9, <2>1
    <2>3. \A n \in Live : n # o
        BY <1>0, <2>1
    <2>4. \A n \in Nodes : n \in Live' <=> n \in Live
        BY <2>1, LiveNext, LiveNow
    <2> QED BY <1>0, <2>2, <2>3, <2>4
<1>4. CASE InsertCasFails(t)
    <2>1. /\ UNCHANGED <<data, allocated>> /\ SameNodes(t)
          /\ next' = [next EXCEPT ![new_node[t]] = unmark(curr[t])]
          /\ new_node[t] \in Nodes /\ Own(t, new_node[t])
        BY <1>4, InsertFailDoes
    <2>2. \A n \in Nodes : n # new_node[t] => next'[n] = next[n]
        BY <1>9, <2>1
    <2>3. \A n \in Live : n # new_node[t]
        BY <1>0, <2>1
    <2>4. \A n \in Nodes : n \in Live' <=> n \in Live
        BY <2>1, LiveNext, LiveNow DEF SameNodes
    <2> QED BY <1>0, <2>1, <2>2, <2>3, <2>4
<1>5. CASE MarkCurr(t)
    <2>1. /\ UNCHANGED <<data, allocated>> /\ SameNodes(t) /\ next[curr[t]] = unmark(succ[t])
          /\ next' = [next EXCEPT ![curr[t]] = mark(succ[t])]
        BY <1>5, MarkDoes
    <2>2. \A n \in Nodes : next'[n].ptr = next[n].ptr
        BY <1>9, <2>1, Fields
    <2>4. \A n \in Nodes : n \in Live' <=> n \in Live
        BY <2>1, LiveNext, LiveNow DEF SameNodes
    <2> QED BY <1>0, <2>1, <2>2, <2>4
<1> QED BY <1>1, <1>2, <1>3, <1>4, <1>5, QuietSteps

(* insert's compare_exchange makes its node live. *)
LEMMA LiveInserted ==
    ASSUME TypeOK, Placed, NEW t \in Threads, Control(t), Place(t), Step(t), InsertCas(t)
    PROVE  /\ Live' = Live \cup {new_node[t]} /\ new_node[t] \in Nodes \ Live
           /\ pred[t] \in Live /\ ptrs[pred[t]] = curr[t] /\ data' = data
           /\ data[pred[t]] < data[new_node[t]] /\ data[new_node[t]] = key[t]
           /\ curr[t] # Null => data[new_node[t]] < data[curr[t]]
           /\ ptrs'[pred[t]] = new_node[t] /\ ptrs'[new_node[t]] = curr[t]
           /\ \A n \in Live : n # pred[t] => ptrs'[n] = ptrs[n]
<1> DEFINE o == new_node[t]
<1>9. next = [m \in Nodes |-> next[m]] /\ allocated \subseteq Nodes
    BY DEF TypeOK, HpTypeOK
<1>0. Live \subseteq Nodes /\ \A n \in Nodes : ptrs[n] = next[n].ptr /\ ptrs'[n] = next'[n].ptr
    BY LiveFacts DEF ptrs
<1>1. /\ UNCHANGED <<data, allocated>> /\ next[pred[t]] = unmark(curr[t])
      /\ next' = [next EXCEPT ![o] = unmark(curr[t]), ![pred[t]] = unmark(o)]
      /\ o \in Nodes /\ Own(t, o)
      /\ \A n \in Nodes : (Retired(n)' <=> Retired(n)) /\ ~Own(t, n)'
    BY InsertDoes
<1>2. /\ pred[t] \in Linked /\ data[pred[t]] < key[t]
      /\ curr[t] # Null => key[t] < data[curr[t]]
    BY DEF Place, InsertCas, Found
<1>3. pred[t] \in Live
    BY <1>1, <1>2, Fields, UnmarkedIsLive
<1>4. data[o] = key[t] /\ o \in allocated /\ ~Retired(o) /\ o \notin Live
      /\ \A u \in Threads : u # t => ~Own(u, o)
    BY <1>1 DEF Placed, Live, Linked
<1>5. \A n \in Nodes : Own(t, n) => n = o
    BY DEF Own
<1>6. \A n \in Nodes : n \in Live' <=> n \in Live \/ n = o
    BY <1>1, <1>4, <1>5, LiveNext, LiveNow
<1>7. Live' \subseteq Nodes
    BY <1>1, <1>9 DEF Live, Linked
<1>8. /\ next'[pred[t]] = unmark(o) /\ next'[o] = unmark(curr[t])
      /\ \A n \in Nodes : n # pred[t] /\ n # o => next'[n] = next[n]
    BY <1>0, <1>1, <1>3, <1>4, <1>9
<1>10. /\ ptrs[pred[t]] = curr[t] /\ ptrs'[pred[t]] = o /\ ptrs'[o] = curr[t]
       /\ \A n \in Live : n # pred[t] => ptrs'[n] = ptrs[n]
    <2>1. pred[t] \in Nodes /\ \A n \in Live : n \in Nodes /\ n # o
        BY <1>0, <1>3, <1>4
    <2>2. next[pred[t]].ptr = curr[t] /\ next'[pred[t]].ptr = o /\ next'[o].ptr = curr[t]
        BY <1>1, <1>8, Fields
    <2>3. \A n \in Nodes : n # pred[t] /\ n # o => next'[n] = next[n]
        BY <1>8
    <2>4. o \in Nodes
        BY <1>1
    <2> HIDE DEF o
    <2> QED BY <1>0, <2>1, <2>2, <2>3, <2>4
<1>11. Live' = Live \cup {o}
    BY <1>0, <1>1, <1>6, <1>7
<1> QED BY <1>1, <1>2, <1>3, <1>4, <1>10, <1>11

(* The compare_exchange that unlinks takes curr out. *)
LEMMA LiveUnlinked ==
    ASSUME TypeOK, Placed, Ordered, NEW t \in Threads, Control(t), Place(t), Step(t),
           UnlinkMarked(t) \/ EraseUnlinks(t)
    PROVE  /\ Live' = Live \ {curr[t]} /\ curr[t] \in Live /\ pred[t] \in Live
           /\ ptrs[pred[t]] = curr[t] /\ data' = data
           /\ ptrs'[pred[t]] = ptrs[curr[t]] /\ ptrs[curr[t]] = succ[t] /\ next[curr[t]].marked
           /\ \A n \in Live : n # pred[t] => ptrs'[n] = ptrs[n]
<1>9. next = [m \in Nodes |-> next[m]] /\ allocated \subseteq Nodes
    BY DEF TypeOK, HpTypeOK
<1>0. Live \subseteq Nodes /\ \A n \in Nodes : ptrs[n] = next[n].ptr /\ ptrs'[n] = next'[n].ptr
    BY LiveFacts DEF ptrs
<1>1. /\ UNCHANGED <<data, allocated>> /\ next[pred[t]] = unmark(curr[t])
      /\ next' = [next EXCEPT ![pred[t]] = unmark(succ[t])]
      /\ \A n \in Nodes : Retired(n)' <=> Retired(n) \/ n = curr[t]
      /\ \A n \in Nodes : Own(t, n)' <=> Own(t, n)
    BY UnlinkDoes
<1>2. pred[t] \in Linked /\ curr[t] # Null /\ next[curr[t]] = mark(succ[t])
    BY DEF Place, UnlinkMarked, EraseUnlinks, Searching, Found
<1>3. pred[t] \in Live
    BY <1>1, <1>2, Fields, UnmarkedIsLive
<1>4. curr[t] \in Live
    <2>1. next[pred[t]].ptr = curr[t]
        BY <1>1, Fields
    <2> QED BY <1>2, <1>3, <2>1 DEF Ordered
<1>5. \A n \in Nodes : n \in Live' <=> n \in Live /\ n # curr[t]
    BY <1>1, LiveNext, LiveNow
<1>6. Live' \subseteq Nodes
    BY <1>1, <1>9 DEF Live, Linked
<1>7. Live' = Live \ {curr[t]}
    BY <1>0, <1>5, <1>6
<1>8. next'[pred[t]] = unmark(succ[t]) /\ \A n \in Nodes : n # pred[t] => next'[n] = next[n]
    BY <1>0, <1>1, <1>3, <1>9
<1>10. /\ ptrs[pred[t]] = curr[t] /\ ptrs'[pred[t]] = succ[t] /\ ptrs[curr[t]] = succ[t]
       /\ next[curr[t]].marked /\ \A n \in Live : n # pred[t] => ptrs'[n] = ptrs[n]
    <2>1. pred[t] \in Nodes /\ curr[t] \in Nodes /\ \A n \in Live : n \in Nodes
        BY <1>0, <1>3, <1>4
    <2> QED BY <1>0, <1>1, <1>2, <1>8, <2>1, Fields
<1> QED BY <1>1, <1>3, <1>4, <1>7, <1>10

(* The live nodes stay in order. *)
LEMMA OrderedStep ==
    ASSUME TypeOK, Placed, Ordered, NEW t \in Threads, Control(t), Pointers(t), Place(t), Step(t)
    PROVE  Ordered'
<1>0. KeyChain(Live, head_, Null, ptrs, data) /\ Null \notin Live /\ Live \subseteq Nodes
      /\ \A n \in Nodes : data[n] \in Nat
    BY OrderedIsChain, LiveFacts
<1>1. SUFFICES KeyChain(Live', head_, Null, ptrs', data')
    BY TypeStep, OrderedNext
<1>2. CASE InsertCas(t)
    <2> DEFINE o == new_node[t]
    <2>1. /\ Live' = Live \cup {o} /\ o \in Nodes \ Live
          /\ pred[t] \in Live /\ ptrs[pred[t]] = curr[t] /\ data' = data
          /\ data[pred[t]] < data[o] /\ (curr[t] # Null => data[o] < data[curr[t]])
          /\ ptrs'[pred[t]] = o /\ ptrs'[o] = curr[t]
          /\ \A n \in Live : n # pred[t] => ptrs'[n] = ptrs[n]
        BY <1>2, LiveInserted
    <2>2. o # Null /\ \A n \in Live \cup {o} : data[n] \in Nat
        BY <1>0, <2>1, NullAssumption
    <2> HIDE DEF o
    <2>3. KeyChain(Live \cup {o}, head_, Null, ptrs', data)
        BY <1>0, <2>1, <2>2, LinkIn
    <2> QED BY <2>1, <2>3
<1>3. CASE UnlinkMarked(t) \/ EraseUnlinks(t)
    <2>1. /\ Live' = Live \ {curr[t]} /\ curr[t] \in Live /\ pred[t] \in Live
          /\ ptrs[pred[t]] = curr[t] /\ data' = data
          /\ ptrs'[pred[t]] = ptrs[curr[t]]
          /\ \A n \in Live : n # pred[t] => ptrs'[n] = ptrs[n]
        BY <1>3, LiveUnlinked
    <2>2. \A n \in Live : data[n] \in Nat
        BY <1>0
    <2>3. KeyChain(Live \ {curr[t]}, head_, Null, ptrs', data)
        BY <1>0, <2>1, <2>2, TakeOut
    <2> QED BY <2>1, <2>3
<1>4. CASE ~InsertCas(t) /\ ~UnlinkMarked(t) /\ ~EraseUnlinks(t)
    <2>1. Live' = Live /\ \A n \in Live : ptrs'[n] = ptrs[n] /\ data'[n] = data[n]
        BY <1>4, LiveStays
    <2>2. KeyChain(Live, head_, Null, ptrs', data')
        BY <1>0, <2>1, SameKeyChain
    <2> QED BY <2>1, <2>2
<1> QED BY <1>2, <1>3, <1>4

-----------------------------------------------------------------------------
(* Where find stands *)

(* What has been linked stays where a thread stands on it. *)
LEMMA OthersPlace ==
    ASSUME TypeOK, Placed, NEW t \in Threads, Control(t), Place(t), Step(t),
           NEW u \in Threads, u # t, Place(u)
    PROVE  Place(u)'
<1>1. /\ pc'[u] = pc[u] /\ key'[u] = key[u] /\ pred'[u] = pred[u] /\ curr'[u] = curr[u]
      /\ succ'[u] = succ[u]
    BY OthersStay
<1>2. \A n \in Linked : n \in Linked' /\ data'[n] = data[n] /\ (next[n].marked => next'[n] = next[n])
    BY LinkedStays
<1>3. pc[u] \in {"unlink", "erase"} => next[curr[u]].marked
    BY Fields DEF Place
<1>4. ASSUME pc[u] \in Searching \cup Found
      PROVE  /\ pred[u] \in Linked' /\ data'[pred[u]] < key[u] /\ curr[u] \in Linked' \cup {Null}
             /\ curr[u] # Null => curr[u] \in Linked /\ data'[curr[u]] = data[curr[u]]
    BY <1>2, <1>4 DEF Place
<1>5. ASSUME pc[u] \in {"unlink", "erase"} PROVE next'[curr[u]] = mark(succ[u])
    BY <1>2, <1>3, <1>4, <1>5 DEF Place, Searching, Found
<1> HIDE DEF Linked
<1> QED BY <1>1, <1>4, <1>5 DEF Place, Searching, Found

(* What a live node's successor is. *)
LEMMA Successor ==
    ASSUME Ordered, NEW n \in Live
    PROVE  /\ next[n].ptr \in Linked \cup {Null}
           /\ next[n].ptr # Null => next[n].ptr \in Live /\ data[n] < data[next[n].ptr]
BY DEF Ordered, Live

(* find does not lose its way. *)
LEMMA PlaceStep ==
    ASSUME TypeOK, Placed, Ordered, NEW t \in Threads, Control(t), Pointers(t), Place(t), Step(t)
    PROVE  Place(t)'
<1>1. \A n \in Linked : n \in Linked' /\ data'[n] = data[n] /\ (next[n].marked => next'[n] = next[n])
    BY LinkedStays
<1>2. /\ pc \in [Threads -> PCs] /\ pred = [u \in Threads |-> pred[u]]
      /\ curr = [u \in Threads |-> curr[u]] /\ succ = [u \in Threads |-> succ[u]]
      /\ key[t] \in Nat /\ (pc[t] # "idle" => key[t] > 0)
    <2>1. Keys \cup {0} \subseteq Nat /\ \A k \in Keys : k > 0
        BY KeysAssumption
    <2>2. key[t] \in Keys \cup {0} /\ (pc[t] # "idle" => key[t] \in Keys)
        BY DEF TypeOK, Control
    <2>3. /\ pc \in [Threads -> PCs] /\ pred = [u \in Threads |-> pred[u]]
          /\ curr = [u \in Threads |-> curr[u]] /\ succ = [u \in Threads |-> succ[u]]
        BY DEF TypeOK
    <2> QED BY <2>1, <2>2, <2>3, Zenon
<1>3. /\ pc[t] \in Searching \cup Found =>
             /\ pred[t] \in Linked' /\ data'[pred[t]] < key[t] /\ curr[t] \in Linked' \cup {Null}
             /\ curr[t] # Null => curr[t] \in Linked /\ data'[curr[t]] = data[curr[t]]
    BY <1>1 DEF Place
<1> USE DEF Goto
<1>4. CASE FindStart(t)
    <2>1. /\ pc'[t] = "publish" /\ pred'[t] = head_ /\ curr'[t] = next[head_].ptr /\ key' = key
          /\ pc[t] = "start"
        BY <1>2, <1>4 DEF FindStart, call
    <2>2. head_ \in Live /\ head_ \in Linked /\ data[head_] = 0
        BY DEF Ordered, Live
    <2>3. head_ \in Linked' /\ data'[head_] = 0 /\ next[head_].ptr \in Linked' \cup {Null}
        BY <1>1, <2>2, Successor
    <2> QED BY <1>2, <2>1, <2>3 DEF Place, Searching, Found
<1>5. CASE PublishCurr(t)
    <2>1. /\ pc'[t] = "validate" /\ pc[t] = "publish" /\ curr[t] # Null
          /\ UNCHANGED <<pred, curr, succ, key>>
        BY <1>2, <1>5 DEF PublishCurr, locals, call
    <2> QED BY <1>3, <2>1 DEF Place, Searching, Found
<1>6. CASE Validate(t)
    <2>1. /\ pc'[t] \in {"start", "read"} /\ pc[t] = "validate" /\ UNCHANGED <<pred, curr, succ, key>>
        BY <1>2, <1>6 DEF Validate, locals, call
    <2> QED BY <1>3, <2>1 DEF Place, Searching, Found
<1>7. CASE ReadMarked(t)
    <2>1. /\ pc'[t] = "unlink" /\ pc[t] = "read" /\ UNCHANGED <<pred, curr, key, next>>
          /\ next[curr[t]].marked /\ succ'[t] = next[curr[t]].ptr
        BY <1>2, <1>7 DEF ReadMarked, call, list
    <2>2. curr[t] \in Nodes
        BY <2>1, PlaceNodes DEF Place, Searching
    <2>3. next[curr[t]] = mark(next[curr[t]].ptr)
        <3>1. next[curr[t]] \in [ptr : Nodes \cup {Null}, marked : BOOLEAN]
            BY <2>2 DEF TypeOK
        <3> QED BY <2>1, <3>1 DEF mark
    <2> QED BY <1>3, <2>1, <2>3 DEF Place, Searching, Found
<1>8. CASE Advance(t)
    <2>1. /\ pc'[t] = "publish" /\ pc[t] = "read" /\ key' = key /\ ~next[curr[t]].marked
          /\ data[curr[t]] < key[t] /\ pred'[t] = curr[t] /\ curr'[t] = next[curr[t]].ptr
        BY <1>2, <1>8 DEF Advance, call
    <2>2. curr[t] \in Linked /\ curr[t] # Null
        BY <1>3, <2>1 DEF Place, Searching
    <2>3. curr[t] \in Live
        BY <2>1, <2>2, UnmarkedIsLive
    <2>4. next[curr[t]].ptr \in Linked' \cup {Null}
        BY <1>1, <2>3, Successor
    <2> QED BY <1>1, <2>1, <2>2, <2>4 DEF Place, Searching, Found
<1>9. CASE FindAtEnd(t) \/ FindAtKey(t)
    <2>1. /\ pc[t] \in {"publish", "read"} /\ UNCHANGED <<pred, curr, succ, key>>
          /\ pc'[t] \in {"insert", "next", "release"}
          /\ pc'[t] = "insert" /\ curr[t] # Null => FindAtKey(t) /\ data[curr[t]] # key[t]
          /\ pc'[t] = "next" => FindAtKey(t) /\ data[curr[t]] = key[t]
        BY <1>2, <1>9 DEF FindAtEnd, FindAtKey, FindReturns, call
    <2>2. FindAtKey(t) => pc[t] = "read" /\ data[curr[t]] >= key[t]
        BY DEF FindAtKey
    <2>3. curr[t] # Null => data[curr[t]] \in Nat
        BY <2>1, PlaceNodes, LiveFacts DEF Searching
    <2>4. pc'[t] = "insert" /\ curr[t] # Null => key[t] < data[curr[t]]
        BY <1>2, <2>1, <2>2, <2>3
    <2>5. pc'[t] = "next" => curr[t] # Null
        BY <2>1, <2>2 DEF Place
    <2> QED BY <1>3, <2>1, <2>4, <2>5 DEF Place, Searching, Found
<1>10. CASE UnlinkMarked(t)
    <2>1. /\ pc'[t] = "unlinked" /\ pc[t] = "unlink" /\ UNCHANGED <<pred, key>> /\ curr'[t] = succ[t]
        BY <1>2, <1>10 DEF UnlinkMarked, Unlink, call
    <2>2. curr[t] \in Live /\ next[curr[t]].ptr = succ[t]
        BY <1>10, LiveUnlinked, LiveFacts DEF ptrs
    <2>3. succ[t] \in Linked' \cup {Null}
        BY <1>1, <2>2, Successor
    <2> QED BY <1>3, <2>1, <2>3 DEF Place, Searching, Found
<1>11. CASE UnlinkFails(t) \/ InsertCasFails(t) \/ MarkFails(t) \/ Release(t) \/ Return(t)
    <2>1. pc'[t] \in {"start", "release", "idle"}
        BY <1>2, <1>11 DEF UnlinkFails, InsertCasFails, MarkFails, Release, Return
    <2> QED BY <2>1 DEF Place, Searching, Found
<1>12. CASE Dispose(t)
    <2>1. /\ UNCHANGED <<pred, curr, key>>
          /\ pc'[t] = "publish" => pc[t] = "unlinked"
          /\ pc[t] \in {"unlinked", "erased"} /\ pc'[t] \in {"unlinked", "erased", "publish", "release"}
          /\ pc'[t] = "unlinked" => pc[t] = "unlinked"
        BY <1>2, <1>12 DEF Dispose, locals, call
    <2> QED BY <1>3, <2>1 DEF Place, Searching, Found
<1>13. CASE \/ \E n \in Nodes : NewNode(t, n)
            \/ \E s \in Slots : ClaimFirst(t, s) \/ ClaimSecond(t, s)
            \/ \E o \in Ops, k \in Keys : CallOp(t, o, k)
            \/ ClaimThrows(t) \/ InsertCas(t) \/ EraseUnlinks(t) \/ EraseLeaves(t)
    <2>1. pc'[t] \in {"start", "release", "claim", "new", "erased"}
        BY <1>2, <1>13 DEF NewNode, ClaimFirst, ClaimSecond, CallOp, ClaimThrows, InsertCas,
                           EraseUnlinks, Unlink, EraseLeaves
    <2> QED BY <2>1 DEF Place, Searching, Found
<1>14. CASE ReadNext(t)
    <2>1. /\ pc'[t] = "mark" /\ pc[t] = "next" /\ UNCHANGED <<pred, curr, key>>
        BY <1>2, <1>14 DEF ReadNext, call
    <2> QED BY <1>3, <2>1 DEF Place, Searching, Found
<1>15. CASE MarkCurr(t)
    <2>1. /\ pc'[t] = "erase" /\ pc[t] = "mark" /\ UNCHANGED <<pred, curr, succ, key>>
        BY <1>2, <1>15 DEF MarkCurr, locals, call
    <2>2. next' = [next EXCEPT ![curr[t]] = mark(succ[t])] /\ curr[t] \in Nodes
        BY <1>15, <2>1, MarkDoes, PlaceNodes DEF Place, Found
    <2>3. next'[curr[t]] = mark(succ[t])
        BY <2>2 DEF TypeOK
    <2> QED BY <1>3, <2>1, <2>3 DEF Place, Searching, Found
<1> QED
    BY <1>4, <1>5, <1>6, <1>7, <1>8, <1>9, <1>10, <1>11, <1>12, <1>13, <1>14, <1>15 DEF Step, Find

-----------------------------------------------------------------------------
(* The invariant *)

(* Every step keeps the invariant. *)
LEMMA ListInvStep == ListInv /\ [Next]_vars /\ NoPass' => ListInv'
<1> SUFFICES ASSUME ListInv, [Next]_vars, NoPass' PROVE ListInv'
    OBVIOUS
<1>0. TypeOK /\ Placed /\ Ordered /\ \A t \in Threads : Control(t) /\ Pointers(t) /\ Place(t)
    BY DEF ListInv
<1>1. ASSUME NEW t \in Threads, Step(t) PROVE ListInv'
    <2>0. Control(t) /\ Pointers(t) /\ Place(t)
        BY <1>0
    <2>1. TypeOK' /\ Placed' /\ Ordered'
        BY <1>0, <1>1, <2>0, TypeStep, PlacedStep, OrderedStep
    <2>2. Control(t)' /\ Pointers(t)' /\ Place(t)'
        BY <1>0, <1>1, <2>0, ControlStep, PointersStep, PlaceStep
    <2>3. ASSUME NEW u \in Threads, u # t PROVE Control(u)' /\ Pointers(u)' /\ Place(u)'
        <3>1. Control(u) /\ Pointers(u) /\ Place(u)
            BY <1>0
        <3>2. Place(u)'
            BY <1>0, <1>1, <2>0, <2>3, <3>1, OthersPlace
        <3>3. /\ pc'[u] = pc[u] /\ op'[u] = op[u] /\ key'[u] = key[u] /\ result'[u] = result[u]
              /\ new_node'[u] = new_node[u] /\ hp_pred'[u] = hp_pred[u] /\ hp_curr'[u] = hp_curr[u]
              /\ owned'[u] = owned[u] /\ rpc'[u] = rpc[u] /\ target'[u] = target[u]
              /\ batch'[u] = batch[u]
            BY <1>0, <1>1, <2>0, <2>3, OthersStay
        <3>4. Control(u)'
            BY <3>1, <3>3 DEF Control
        <3>5. Pointers(u)'
            BY <3>1, <3>3 DEF Pointers
        <3> QED BY <3>2, <3>4, <3>5
    <2>4. ASSUME NEW u \in Threads PROVE Control(u)' /\ Pointers(u)' /\ Place(u)'
        BY <2>2, <2>3
    <2> QED BY <2>1, <2>4 DEF ListInv
<1>2. CASE UNCHANGED vars
    <2>1. /\ UNCHANGED <<id, pointer, owned, nodes_to_reclaim, reclaim_nodes_count, rpc, target>>
          /\ UNCHANGED <<probe, batch, allocated, next, data, pc, op, key, new_node, hp_pred, hp_curr>>
          /\ UNCHANGED <<pred, curr, succ, result, calls>>
        BY <1>2 DEF vars, hpVars, hpArray, reclaims, list, call, locals, slots
    <2>2. TypeOK'
        BY <1>0, <2>1 DEF TypeOK, HpTypeOK
    <2>3. \A n : Retired(n)' <=> Retired(n)
        BY <2>1 DEF Retired
    <2>4. \A u, n : Own(u, n)' <=> Own(u, n)
        BY <2>1 DEF Own
    <2>5. Linked' = Linked /\ Live' = Live
        BY <2>1, <2>3, <2>4 DEF Linked, Live
    <2>6. Placed'
        BY <1>0, <2>1, <2>3, <2>4 DEF Placed
    <2>7. Ordered'
        BY <1>0, <2>1, <2>5 DEF Ordered
    <2>8. ASSUME NEW u \in Threads PROVE Control(u)' /\ Pointers(u)' /\ Place(u)'
        <3>1. Control(u) /\ Pointers(u) /\ Place(u)
            BY <1>0
        <3>2. Control(u)'
            BY <2>1, <3>1 DEF Control
        <3>3. Pointers(u)'
            BY <2>1, <3>1 DEF Pointers
        <3>4. Place(u)'
            BY <2>1, <2>5, <3>1 DEF Place
        <3> QED BY <3>2, <3>3, <3>4
    <2> QED BY <2>2, <2>6, <2>7, <2>8 DEF ListInv
<1> QED BY <1>1, <1>2 DEF Next

(* The list as it may be at the beginning, by its keys: each node points   *)
(* to the one with the next key.                                           *)
Filled(K, node) ==
    /\ allocated = {head_} \cup {node[k] : k \in K}
    /\ data \in [Nodes -> K \cup {0}] /\ data[head_] = 0 /\ \A k \in K : data[node[k]] = k
    /\ next \in [Nodes -> [ptr : Nodes \cup {Null}, marked : BOOLEAN]]
    /\ \A n \in allocated :
          \/ next[n] = unmark(Null) /\ \A k \in K : k <= data[n]
          \/ \E k \in K : /\ next[n] = unmark(node[k]) /\ data[n] < k
                          /\ \A j \in K : data[n] < j => k <= j

(* InitialList makes such a list. *)
LEMMA InitialListDoes ==
    ASSUME NEW K, K \subseteq Nat \ {0}, NEW node \in [K -> Nodes \ {head_}],
           \A j, k \in K : node[j] = node[k] => j = k, InitialList(node)
    PROVE  Filled(K, node)
<1> DEFINE keyOf(n) == IF n = head_ THEN 0 ELSE CHOOSE k \in DOMAIN node : node[k] = n
           linked == {head_} \cup {node[k] : k \in DOMAIN node}
           later(n) == {k \in DOMAIN node : k > keyOf(n)}
           first(J) == CHOOSE k \in J : \A j \in J : k <= j
<1>1. /\ DOMAIN node = K /\ \A k \in K : node[k] \in Nodes /\ node[k] # head_
    OBVIOUS
<1>2. /\ allocated = linked
      /\ data = [n \in Nodes |-> IF n \in linked THEN keyOf(n) ELSE 0]
      /\ next = [n \in Nodes |-> unmark(IF n \notin linked \/ later(n) = {} THEN Null
                                       ELSE node[first(later(n))])]
    BY DEF InitialList
<1>3. allocated = {head_} \cup {node[k] : k \in K}
    BY <1>1, <1>2
<1>4. \A k \in K : keyOf(node[k]) = k
    BY <1>1
<1>5. keyOf(head_) = 0
    OBVIOUS
<1>6. linked \subseteq Nodes /\ \A n \in linked : keyOf(n) \in K \cup {0}
    <2>1. \A n \in linked : n = head_ \/ \E k \in K : n = node[k]
        BY <1>1
    <2> HIDE DEF keyOf, linked
    <2> QED BY <1>1, <1>4, <1>5, <2>1, HeadAssumption
<1>7. head_ \in linked /\ \A k \in K : node[k] \in linked
    BY <1>1
<1> HIDE DEF keyOf, linked
<1>8. data \in [Nodes -> K \cup {0}] /\ data[head_] = 0 /\ \A k \in K : data[node[k]] = k
      /\ \A n \in linked : data[n] = keyOf(n)
    <2>1. \A n \in Nodes : (IF n \in linked THEN keyOf(n) ELSE 0) \in K \cup {0}
        BY <1>6
    <2>2. data \in [Nodes -> K \cup {0}]
        BY <1>2, <2>1
    <2>3. \A n \in linked : data[n] = keyOf(n)
        BY <1>2, <1>6
    <2> QED BY <1>4, <1>5, <1>7, <2>2, <2>3
<1>9. ASSUME NEW n \in linked, later(n) # {}
      PROVE  first(later(n)) \in later(n) /\ \A j \in later(n) : first(later(n)) <= j
    <2> DEFINE T == later(n)
    <2>1. T \subseteq Nat /\ T # {}
        BY <1>1, <1>9
    <2> HIDE DEF T
    <2>2. \E m \in T : \A j \in T : m <= j
        BY <2>1, Least
    <2>3. first(T) \in T /\ \A j \in T : first(T) <= j
        BY <2>2, Zenon
    <2> QED BY <2>3 DEF T
<1>10. \A n \in linked : \A k : k \in later(n) <=> k \in K /\ k > keyOf(n)
    BY <1>1
<1>11. \A n \in Nodes : next[n] = unmark(IF n \notin linked \/ later(n) = {} THEN Null
                                         ELSE node[first(later(n))])
    BY <1>2, Zenon
<1> HIDE DEF later, first
<1>12. ASSUME NEW n \in Nodes
       PROVE  \E p \in Nodes \cup {Null} : next[n] = unmark(p)
    <2>1. CASE n \in linked /\ later(n) # {}
        <3>1. first(later(n)) \in K
            BY <1>9, <1>10, <2>1
        <3> QED BY <1>1, <1>11, <2>1, <3>1
    <2>2. CASE ~(n \in linked /\ later(n) # {})
        BY <1>11, <2>2
    <2> QED BY <2>1, <2>2
<1>13. next \in [Nodes -> [ptr : Nodes \cup {Null}, marked : BOOLEAN]]
    <2>1. \A p \in Nodes \cup {Null} : unmark(p) \in [ptr : Nodes \cup {Null}, marked : BOOLEAN]
        BY DEF unmark
    <2>2. \A n \in Nodes : next[n] \in [ptr : Nodes \cup {Null}, marked : BOOLEAN]
        BY <1>12, <2>1
    <2>3. next = [n \in Nodes |-> next[n]]
        BY <1>2
    <2> QED BY <2>2, <2>3
<1>14. ASSUME NEW n \in allocated
       PROVE  \/ next[n] = unmark(Null) /\ \A k \in K : k <= data[n]
              \/ \E k \in K : /\ next[n] = unmark(node[k]) /\ data[n] < k
                              /\ \A j \in K : data[n] < j => k <= j
    <2>0. n \in linked /\ n \in Nodes /\ data[n] = keyOf(n) /\ data[n] \in Nat
        <3>1. n \in linked /\ n \in Nodes
            BY <1>2, <1>6, Zenon
        <3>2. data[n] = keyOf(n) /\ keyOf(n) \in K \cup {0}
            BY <1>6, <1>8, <3>1, Zenon
        <3>3. K \cup {0} \subseteq Nat
            OBVIOUS
        <3> QED BY <3>1, <3>2, <3>3, Zenon
    <2>1. CASE later(n) = {}
        <3>1. next[n] = unmark(Null)
            BY <1>11, <2>0, <2>1
        <3>2. \A k \in K : ~(k > data[n])
            <4>1. \A k : k \in later(n) <=> k \in K /\ k > keyOf(n)
                BY <1>10, <2>0
            <4>2. data[n] = keyOf(n)
                BY <2>0
            <4> QED BY <2>1, <4>1, <4>2
        <3>3. \A k \in K : k \in Nat
            OBVIOUS
        <3> QED BY <2>0, <3>1, <3>2, <3>3
    <2>2. CASE later(n) # {}
        <3> DEFINE k == first(later(n))
        <3>1. next[n] = unmark(node[k])
            BY <1>11, <2>0, <2>2
        <3>2. k \in later(n) /\ \A j \in later(n) : k <= j
            BY <1>9, <2>0, <2>2
        <3> HIDE DEF k
        <3>3. k \in K /\ data[n] < k /\ \A j \in K : data[n] < j => k <= j
            BY <1>10, <2>0, <3>2
        <3> QED BY <3>1, <3>3
    <2> QED BY <2>1, <2>2
<1> QED BY <1>3, <1>8, <1>13, <1>14 DEF Filled

(* The invariant holds before the first call. *)
LEMMA ListInvInit == Init => ListInv
<1> SUFFICES ASSUME Init PROVE ListInv
    OBVIOUS
<1>1. PICK K \in InitialSets : \E node \in [K -> Nodes \ {head_}] :
              (\A j, k \in K : node[j] = node[k] => j = k) /\ InitialList(node)
    BY DEF Init
<1>2. PICK node \in [K -> Nodes \ {head_}] :
              (\A j, k \in K : node[j] = node[k] => j = k) /\ InitialList(node)
    BY <1>1
<1>3. K \subseteq Keys /\ K \subseteq Nat \ {0}
    <2>1. K \subseteq Keys
        BY InitialAssumption, Zenon
    <2> QED BY <2>1, KeysAssumption
<1>4. Filled(K, node)
    BY <1>2, <1>3, InitialListDoes
<1> USE DEF Filled
<1>5. TypeOK
    <2>1. data \in [Nodes -> Keys \cup {0}]
        <3>1. \A n \in Nodes : data[n] \in Keys \cup {0}
            BY <1>3, <1>4
        <3>2. data = [n \in Nodes |-> data[n]]
            BY <1>4
        <3> QED BY <3>1, <3>2
    <2>2. allocated \subseteq Nodes
        BY <1>4, HeadAssumption
    <2>3. /\ id \in [Slots -> Threads \cup {NoThread, Outsider}]
          /\ pointer \in [Slots -> Nodes \cup {Null}] /\ owned \in [Threads -> Seq(Slots)]
          /\ \A t \in Threads : \A i \in DOMAIN owned[t] : id[owned[t][i]] = t
        BY DEF Init, HpInit
    <2>4. ArrayOK
        BY <2>3 DEF ArrayOK
    <2>5. 0 \in 0..max_hazard_pointers /\ 0 \in 0..MaxCalls
        BY SlotsAssumption, BoundAssumption
    <2>6. ReclaimOK
        BY <2>5 DEF Init, HpInit, ReclaimOK, RPCs
    <2>7. CallsOK
        BY <2>5 DEF Init, HpInit, CallsOK, PCs
    <2>8. FindOK
        BY DEF Init, FindOK
    <2> QED BY <1>4, <2>1, <2>2, <2>4, <2>6, <2>7, <2>8, TypeParts DEF NodesOK
<1>6. ASSUME NEW t \in Threads PROVE Control(t) /\ Pointers(t) /\ Place(t)
    <2>1. Len(owned[t]) = 0 /\ pc[t] = "idle"
        BY DEF Init, HpInit
    <2>2. Control(t)
        BY NullAssumption DEF Init, HpInit, Control, Searching
    <2> QED BY <2>1, <2>2 DEF Pointers, Place, Claimed, Searching, Found
<1>7. \A n \in Nodes : ~Retired(n) /\ \A t \in Threads : ~Own(t, n)
    BY NullAssumption DEF Init, HpInit, Retired, Own
<1>8. Placed
    BY <1>7 DEF Placed
<1>9. Live = allocated
    <2>1. allocated \subseteq Nodes
        BY <1>5 DEF TypeOK, HpTypeOK
    <2> QED BY <1>7, <2>1 DEF Live, Linked
<1>10. Ordered
    <2>1. \A n \in allocated : /\ n = head_ \/ \E k \in K : n = node[k]
                               /\ data[n] \in K \cup {0} /\ data[n] \in Nat
        BY <1>3, <1>4, <1>5 DEF TypeOK, HpTypeOK
    <2>2. \A k \in K : /\ node[k] \in allocated /\ node[k] \in Nodes /\ node[k] # Null
                       /\ data[node[k]] = k /\ k \in Nat /\ k > 0
        BY <1>3, <1>4, NullAssumption
    <2>3. ASSUME NEW n \in allocated
          PROVE  \/ next[n].ptr = Null /\ \A k \in K : k <= data[n]
                 \/ \E k \in K : /\ next[n].ptr = node[k] /\ data[n] < k
                                 /\ \A j \in K : data[n] < j => k <= j
        BY <1>4, Fields
    <2>4. head_ \in allocated /\ data[head_] = 0
        BY <1>4
    <2>5. \A n \in allocated : /\ next[n].ptr \in allocated \cup {Null}
                               /\ next[n].ptr # Null => data[n] < data[next[n].ptr]
        BY <2>2, <2>3
    <2>6. \A m, n \in allocated : data[m] = data[n] => m = n
        BY <2>1, <2>2, <2>4
    <2>7. ASSUME NEW m \in allocated, NEW n \in allocated, data[m] < data[n]
          PROVE  next[m].ptr # Null /\ data[next[m].ptr] <= data[n]
        <3>1. data[n] \in K /\ data[m] \in Nat /\ data[n] \in Nat
            BY <2>1, <2>7
        <3> QED BY <2>2, <2>3, <2>7, <3>1
    <2> QED BY <1>9, <2>4, <2>5, <2>6, <2>7 DEF Ordered
<1> QED BY <1>5, <1>6, <1>8, <1>10 DEF ListInv

(* No reclaim pass has been made: the invariant holds. *)
LEMMA ListIsSafe == Spec /\ []NoPass => []ListInv
BY ListInvInit, ListInvStep, PTL DEF Spec

-----------------------------------------------------------------------------
(* The walk from the sentinel *)

(* f is a walk of N steps from the sentinel. *)
Walk(f, N, nx) ==
    f = [i \in 0..N |-> IF i = 0 THEN head_
                        ELSE IF f[i - 1] = Null THEN Null ELSE nx[f[i - 1]].ptr]

(* A walk of any length can be made: the definition of Nth has a solution. *)
LEMMA WalkExists ==
    ASSUME NEW N \in Nat, NEW nx
    PROVE  \E f : Walk(f, N, nx)
<1> USE DEF Walk
<1> DEFINE T == {m \in 0..N : \E f : Walk(f, m, nx)}
<1>1. 0 \in T
    <2>1. PICK f : f = [i \in 0..0 |-> head_]
        OBVIOUS
    <2>2. Walk(f, 0, nx)
        BY <2>1
    <2> QED BY <2>2
<1>2. ASSUME NEW m \in 0..(N - 1), m \in T PROVE m + 1 \in T
    <2>1. PICK f : Walk(f, m, nx)
        BY <1>2
    <2>2. PICK g : g = [i \in 0..(m + 1) |-> IF i = m + 1 THEN IF f[m] = Null THEN Null ELSE nx[f[m]].ptr
                                             ELSE f[i]]
        OBVIOUS
    <2>3. \A i \in 0..m : i \in 0..(m + 1) /\ i # m + 1 /\ g[i] = f[i]
        BY <2>2
    <2>4. m + 1 \in 0..(m + 1) /\ g[m + 1] = IF f[m] = Null THEN Null ELSE nx[f[m]].ptr
        BY <2>2
    <2>5. \A i \in 0..m : f[i] = IF i = 0 THEN head_ ELSE IF f[i - 1] = Null THEN Null ELSE nx[f[i - 1]].ptr
        BY <2>1
    <2>6. ASSUME NEW i \in 0..(m + 1)
          PROVE  g[i] = IF i = 0 THEN head_ ELSE IF g[i - 1] = Null THEN Null ELSE nx[g[i - 1]].ptr
        <3>1. CASE i = m + 1
            <4>1. i # 0 /\ i - 1 = m /\ m \in 0..m
                BY <3>1
            <4>2. g[i - 1] = f[m]
                BY <2>3, <4>1
            <4> QED BY <2>4, <3>1, <4>1, <4>2
        <3>2. CASE i = 0
            <4>1. i \in 0..m
                BY <3>2
            <4> QED BY <2>3, <2>5, <3>2, <4>1
        <3>3. CASE i # m + 1 /\ i # 0
            <4>1. i \in 0..m /\ i - 1 \in 0..m
                BY <3>3
            <4>2. g[i] = f[i] /\ g[i - 1] = f[i - 1]
                BY <2>3, <4>1
            <4>3. f[i] = IF f[i - 1] = Null THEN Null ELSE nx[f[i - 1]].ptr
                BY <2>5, <3>3, <4>1
            <4> QED BY <3>3, <4>2, <4>3
        <3> QED BY <3>1, <3>2, <3>3
    <2>7. g = [i \in 0..(m + 1) |-> g[i]]
        BY <2>2
    <2>8. Walk(g, m + 1, nx)
        BY <2>6, <2>7
    <2>9. m + 1 \in 0..N
        OBVIOUS
    <2> HIDE DEF Walk
    <2> QED BY <2>8, <2>9
<1> HIDE DEF T
<1>3. \A m \in 0..N : m \in T
    BY <1>1, <1>2, IntervalInduction
<1>4. N \in T
    BY <1>3
<1> QED BY <1>4 DEF T

(* Nth goes from node to node. *)
LEMMA WalkFollows ==
    /\ Cardinality(Nodes) \in Nat /\ DOMAIN Nth = 0..Cardinality(Nodes) /\ Nth[0] = head_
    /\ \A i \in 1..Cardinality(Nodes) :
          Nth[i] = IF Nth[i - 1] = Null THEN Null ELSE next[Nth[i - 1]].ptr
<1> DEFINE N == Cardinality(Nodes)
<1>1. N \in Nat
    BY BoundAssumption, FS_CardinalityType
<1> HIDE DEF N
<1>2. \E f : Walk(f, N, next)
    BY <1>1, WalkExists
<1>3. Nth = [i \in 0..N |-> IF i = 0 THEN head_ ELSE IF Nth[i - 1] = Null THEN Null ELSE next[Nth[i - 1]].ptr]
    BY <1>2, Zenon DEF Nth, N, Walk
<1> DEFINE F(i) == IF i = 0 THEN head_ ELSE IF Nth[i - 1] = Null THEN Null ELSE next[Nth[i - 1]].ptr
<1>4. Nth = [i \in 0..N |-> F(i)] /\ F(0) = head_
      /\ \A i \in 1..N : F(i) = IF Nth[i - 1] = Null THEN Null ELSE next[Nth[i - 1]].ptr
    BY <1>1, <1>3
<1> HIDE DEF F
<1>5. DOMAIN Nth = 0..N /\ Nth[0] = head_ /\ \A i \in 1..N : Nth[i] = F(i)
    <2>1. 0 \in 0..N /\ \A i \in 1..N : i \in 0..N
        BY <1>1
    <2>2. DOMAIN Nth = 0..N /\ \A i \in 0..N : Nth[i] = F(i)
        BY <1>4, Zenon
    <2> QED BY <1>4, <2>1, <2>2
<1>6. \A i \in 1..N : Nth[i] = IF Nth[i - 1] = Null THEN Null ELSE next[Nth[i - 1]].ptr
    BY <1>4, <1>5, Zenon
<1> QED BY <1>1, <1>5, <1>6 DEF N

(* It goes over live nodes, upwards. *)
LEMMA WalkAscends ==
    ASSUME Ordered
    PROVE  /\ \A i \in 0..Cardinality(Nodes) : Nth[i] \in Live \cup {Null}
           /\ \A i \in 1..Cardinality(Nodes) : Nth[i] # Null =>
                 Nth[i - 1] # Null /\ Nth[i - 1] \in Live /\ data[Nth[i - 1]] < data[Nth[i]]
<1> DEFINE N == Cardinality(Nodes)
           T == {i \in 0..N : Nth[i] \in Live \cup {Null}}
<1>0. /\ N \in Nat /\ DOMAIN Nth = 0..N /\ Nth[0] = head_
      /\ \A i \in 1..N : Nth[i] = IF Nth[i - 1] = Null THEN Null ELSE next[Nth[i - 1]].ptr
    BY WalkFollows
<1>9. head_ \in Live /\ \A n \in Live : next[n].ptr \in Live \cup {Null}
    BY DEF Ordered
<1> HIDE DEF N
<1>1. 0 \in T
    BY <1>0, <1>9
<1>2. ASSUME NEW i \in 0..(N - 1), i \in T PROVE i + 1 \in T
    <2>1. i + 1 \in 1..N /\ i + 1 \in 0..N /\ (i + 1) - 1 = i
        BY <1>0
    <2>2. Nth[i + 1] = IF Nth[i] = Null THEN Null ELSE next[Nth[i]].ptr
        BY <1>0, <2>1
    <2> QED BY <1>2, <1>9, <2>1, <2>2
<1> HIDE DEF T
<1>3. \A i \in 0..N : i \in T
    BY <1>0, <1>1, <1>2, IntervalInduction
<1>4. \A i \in 0..N : Nth[i] \in Live \cup {Null}
    BY <1>3 DEF T
<1>5. ASSUME NEW i \in 1..N, Nth[i] # Null
      PROVE  Nth[i - 1] # Null /\ Nth[i - 1] \in Live /\ data[Nth[i - 1]] < data[Nth[i]]
    <2>1. i - 1 \in 0..N
        BY <1>0
    <2>2. Nth[i - 1] # Null /\ Nth[i - 1] \in Live /\ Nth[i] = next[Nth[i - 1]].ptr
        BY <1>0, <1>4, <1>5, <2>1
    <2> QED BY <1>5, <2>2 DEF Ordered
<1> QED BY <1>4, <1>5 DEF N

(* It goes over all of them. *)
LEMMA WalkIsLive ==
    ASSUME TypeOK, Ordered
    PROVE  Reachable = Live
<1> DEFINE N == Cardinality(Nodes)
<1>0. /\ N \in Nat /\ DOMAIN Nth = 0..N /\ Nth[0] = head_ /\ N = Cardinality(Nodes)
      /\ \A i \in 1..N : Nth[i] = IF Nth[i - 1] = Null THEN Null ELSE next[Nth[i - 1]].ptr
    BY WalkFollows
<1>1. \A i \in 0..N : Nth[i] \in Live \cup {Null}
    BY WalkAscends
<1>2. Live \subseteq Nodes /\ Null \notin Live /\ \A n \in Nodes : data[n] \in Nat
    BY LiveFacts
<1> HIDE DEF N
<1>3. ASSUME NEW n \in Live, \A i \in 0..N : Nth[i] # n PROVE FALSE
    <2> DEFINE T == {i \in 0..N : Nth[i] \in Live /\ data[Nth[i]] < data[n]}
    <2>0. head_ \in Live /\ data[head_] = 0 /\ 0 \in 0..N
        BY <1>0 DEF Ordered
    <2>1. 0 \in T
        <3>1. n # head_
            BY <1>0, <1>3, <2>0
        <3>2. data[n] # 0 /\ data[n] \in Nat
            BY <1>2, <2>0, <3>1 DEF Ordered
        <3> QED BY <1>0, <2>0, <3>2
    <2>2. ASSUME NEW i \in 0..(N - 1), i \in T PROVE i + 1 \in T
        <3>1. i + 1 \in 1..N /\ i + 1 \in 0..N /\ (i + 1) - 1 = i
            BY <1>0
        <3>2. Nth[i] \in Live /\ data[Nth[i]] < data[n]
            BY <2>2
        <3>3. Nth[i + 1] = next[Nth[i]].ptr
            BY <1>0, <1>2, <3>1, <3>2
        <3>4. next[Nth[i]].ptr # Null /\ data[next[Nth[i]].ptr] <= data[n]
            BY <3>2 DEF Ordered
        <3>5. Nth[i + 1] \in Live /\ Nth[i + 1] # n
            BY <1>1, <1>3, <3>1, <3>3, <3>4
        <3>6. data[Nth[i + 1]] # data[n] /\ data[Nth[i + 1]] \in Nat /\ data[n] \in Nat
            BY <1>2, <3>5 DEF Ordered
        <3>7. data[Nth[i + 1]] < data[n]
            BY <3>3, <3>4, <3>6
        <3> QED BY <3>1, <3>5, <3>7
    <2> HIDE DEF T
    <2>3. \A i \in 0..N : i \in T
        BY <1>0, <2>1, <2>2, IntervalInduction
    <2>4. \A i \in 0..N : Nth[i] \in Live /\ Nth[i] # Null /\ data[Nth[i]] \in Nat
        BY <1>2, <2>3 DEF T
    <2>5. ASSUME NEW i \in 1..N PROVE data[Nth[i - 1]] < data[Nth[i]]
        <3>1. i \in 0..N
            BY <1>0
        <3> QED BY <1>0, <2>4, <3>1, WalkAscends
    <2>6. ASSUME NEW i \in 0..N PROVE \A j \in 0..N : i < j => data[Nth[i]] < data[Nth[j]]
        <3> DEFINE U == {j \in 0..N : i < j => data[Nth[i]] < data[Nth[j]]}
        <3>1. 0 \in U
            BY <1>0
        <3>2. ASSUME NEW j \in 0..(N - 1), j \in U PROVE j + 1 \in U
            <4>1. j + 1 \in 1..N /\ j + 1 \in 0..N /\ (j + 1) - 1 = j /\ j \in 0..N
                BY <1>0
            <4>2. data[Nth[j]] < data[Nth[j + 1]]
                BY <2>5, <4>1
            <4>3. data[Nth[i]] \in Nat /\ data[Nth[j]] \in Nat /\ data[Nth[j + 1]] \in Nat
                BY <2>4, <4>1
            <4>4. CASE i < j
                BY <3>2, <4>1, <4>2, <4>3, <4>4
            <4>5. CASE i = j
                BY <4>1, <4>2, <4>5
            <4>6. CASE j < i
                BY <4>1, <4>6
            <4> QED BY <4>4, <4>5, <4>6
        <3> HIDE DEF U
        <3>3. \A j \in 0..N : j \in U
            BY <1>0, <3>1, <3>2, IntervalInduction
        <3> QED BY <3>3 DEF U
    <2>7. \A i, j \in 0..N : Nth[i] = Nth[j] => i = j
        <3> SUFFICES ASSUME NEW i \in 0..N, NEW j \in 0..N, Nth[i] = Nth[j], i # j PROVE FALSE
            OBVIOUS
        <3>1. i < j \/ j < i
            OBVIOUS
        <3>2. data[Nth[i]] < data[Nth[j]] \/ data[Nth[j]] < data[Nth[i]]
            BY <2>6, <3>1
        <3> QED BY <2>4, <3>2
    <2>8. PICK f : f = [i \in 0..N |-> Nth[i]]
        OBVIOUS
    <2>9. f \in Injection(0..N, Nodes)
        BY <1>2, <2>4, <2>7, <2>8 DEF Injection, IsInjective
    <2>10. Cardinality(0..N) <= N
        BY <1>0, <2>9, BoundAssumption, FS_Injection
    <2>11. Cardinality(0..N) = N - 0 + 1
        BY <1>0, FS_Interval
    <2> QED BY <1>0, <2>10, <2>11
<1>4. \A n : n \in Reachable <=> n # Null /\ \E i \in 0..N : n = Nth[i]
    BY <1>0 DEF Reachable
<1>5. \A n : n \in Reachable <=> n \in Live
    BY <1>1, <1>2, <1>3, <1>4
<1> QED BY <1>5

(* The keys ascend along the walk. *)
LEMMA InvSorted == ListInv => Sorted
<1> SUFFICES ASSUME ListInv PROVE Sorted
    OBVIOUS
<1>1. Ordered /\ Cardinality(Nodes) \in Nat /\ DOMAIN Nth = 0..Cardinality(Nodes)
    BY WalkFollows DEF ListInv
<1>2. \A i \in 1..Cardinality(Nodes) : Nth[i] # Null => data[Nth[i - 1]] < data[Nth[i]]
    BY <1>1, WalkAscends
<1>3. \A i \in DOMAIN Nth : i > 1 => i \in 1..Cardinality(Nodes)
    BY <1>1
<1> QED BY <1>2, <1>3 DEF Sorted

(* Every allocated node is in the list, in an insert, or retired. *)
LEMMA InvUnlinkedOnce == ListInv => UnlinkedOnce
<1> SUFFICES ASSUME ListInv PROVE UnlinkedOnce
    OBVIOUS
<1> DEFINE inInsert == {new_node[t] : t \in {u \in Threads : result[u] = "none"}} \ {Null}
           retired  == nodes_to_reclaim \cup (UNION {batch[t] : t \in Threads})
                                        \cup ({target[t] : t \in Threads} \ {Null})
<1>0. TypeOK /\ Ordered /\ Placed /\ \A t \in Threads : batch[t] = {}
    BY DEF ListInv, Control
<1>1. Reachable = Live
    BY <1>0, WalkIsLive
<1>2. /\ allocated \subseteq Nodes /\ nodes_to_reclaim \subseteq Nodes
      /\ \A t \in Threads : new_node[t] \in Nodes \cup {Null} /\ target[t] \in Nodes \cup {Null}
    BY <1>0 DEF TypeOK, HpTypeOK
<1>3. \A n : n \in inInsert <=> n \in Nodes /\ \E t \in Threads : Own(t, n)
    BY <1>2, NullAssumption DEF Own
<1>4. \A n : n \in retired <=> n \in Nodes /\ Retired(n)
    BY <1>0, <1>2, NullAssumption DEF Retired
<1> HIDE DEF inInsert, retired
<1>5. \A n : n \in inInsert \cup retired => n \in allocated
    BY <1>0, <1>3, <1>4 DEF Placed
<1>6. \A n : n \in Live <=> n \in allocated /\ n \notin inInsert /\ n \notin retired
    BY <1>2, <1>3, <1>4 DEF Live, Linked
<1>7. allocated = Live \cup inInsert \cup retired /\ Live \cap (inInsert \cup retired) = {}
    BY <1>5, <1>6
<1> QED BY <1>1, <1>7 DEF UnlinkedOnce, inInsert, retired

(* Types; and outside its calls a thread owns no hazard pointer.           *)
THEOREM ListTypes == Spec /\ []NoPass => []TypeOK
<1>1. ListInv => TypeOK
    BY DEF ListInv
<1> QED BY <1>1, ListIsSafe, PTL

(* find, insert and erase keep the list sorted.                            *)
THEOREM ListSorted == Spec /\ []NoPass => []Sorted
BY InvSorted, ListIsSafe, PTL

(* The node an erase or a find unlinks is retired once, by that thread,    *)
(* and no node in the list is retired or lost.                             *)
THEOREM ListUnlinkedOnce == Spec /\ []NoPass => []UnlinkedOnce
BY InvUnlinkedOnce, ListIsSafe, PTL

-----------------------------------------------------------------------------
(* The set the list stands for *)

Unmarked == {n \in Live : n # head_ /\ ~next[n].marked}

(* The members are the keys of the live nodes that are not marked. *)
LEMMA MembersAre ==
    ASSUME TypeOK, Ordered
    PROVE  Members = {data[n] : n \in Unmarked}
<1>1. {m \in Reachable \ {head_} : ~next[m].marked} = Unmarked
    BY WalkIsLive DEF Unmarked
<1> QED BY <1>1 DEF Members

(* The same after a step. *)
LEMMA MembersAreNext == TypeOK' /\ Ordered' => Members' = {data'[n] : n \in Unmarked'}
<1>1. TypeOK /\ Ordered => Members = {data[n] : n \in Unmarked}
    BY MembersAre
<1>2. (TypeOK /\ Ordered => Members = {data[n] : n \in Unmarked})'
    BY <1>1, PTL
<1> QED BY <1>2

(* A key between a live node and its successor is not in the set. *)
LEMMA Gap ==
    ASSUME TypeOK, Ordered, NEW n \in Live, NEW k \in Nat, data[n] < k,
           next[n].ptr = Null \/ k < data[next[n].ptr]
    PROVE  k \notin Members
<1>1. SUFFICES ASSUME NEW m \in Live, data[m] = k PROVE FALSE
    BY MembersAre DEF Unmarked
<1>2. next[n].ptr # Null /\ data[next[n].ptr] <= k
    BY <1>1 DEF Ordered
<1>3. data[next[n].ptr] \in Nat
    BY <1>2, LiveFacts DEF Ordered
<1> QED BY <1>2, <1>3

(* The key of a live node that is not marked is in the set. *)
LEMMA Member ==
    ASSUME TypeOK, Ordered, NEW n \in Live, ~next[n].marked, NEW k \in Nat \ {0}, data[n] = k
    PROVE  k \in Members /\ n \in Unmarked
BY MembersAre DEF Unmarked, Ordered

(* Only erase marks a node. *)
LEMMA MarksStay ==
    ASSUME TypeOK, Placed, NEW t \in Threads, Control(t), Place(t), Step(t), ~MarkCurr(t), NEW n \in Linked
    PROVE  next'[n].marked <=> next[n].marked
<1>0. next = [m \in Nodes |-> next[m]]
    BY DEF TypeOK
<1>1. n \in Nodes /\ n \in allocated /\ \A u \in Threads : ~Own(u, n)
    BY DEF Linked, TypeOK, HpTypeOK
<1>2. CASE Quiet(t) \/ Discards(t)
    BY <1>2 DEF Quiet, Discards
<1>3. ASSUME NEW o \in Nodes, NewNode(t, o) PROVE next'[n] = next[n]
    BY <1>0, <1>1, <1>3, NewNodeDoes
<1>4. CASE InsertCas(t)
    <2>1. /\ next[pred[t]] = unmark(curr[t]) /\ n # new_node[t]
          /\ next' = [next EXCEPT ![new_node[t]] = unmark(curr[t]), ![pred[t]] = unmark(new_node[t])]
        BY <1>1, <1>4, InsertDoes
    <2>2. n # pred[t] => next'[n] = next[n]
        BY <1>0, <1>1, <2>1
    <2>3. n = pred[t] => next'[n] = unmark(new_node[t])
        BY <1>0, <1>1, <2>1
    <2> QED BY <2>1, <2>2, <2>3, Fields
<1>5. CASE InsertCasFails(t)
    <2>1. n # new_node[t] /\ next' = [next EXCEPT ![new_node[t]] = unmark(curr[t])]
        BY <1>1, <1>5, InsertFailDoes
    <2> QED BY <1>0, <1>1, <2>1
<1>6. CASE UnlinkMarked(t) \/ EraseUnlinks(t)
    <2>1. next[pred[t]] = unmark(curr[t]) /\ next' = [next EXCEPT ![pred[t]] = unmark(succ[t])]
        BY <1>6, UnlinkDoes
    <2>2. n # pred[t] => next'[n] = next[n]
        BY <1>0, <1>1, <2>1
    <2>3. n = pred[t] => next'[n] = unmark(succ[t])
        BY <1>0, <1>1, <2>1
    <2> QED BY <2>1, <2>2, <2>3, Fields
<1> QED BY <1>2, <1>3, <1>4, <1>5, <1>6, QuietSteps

(* The set changes at insert's compare_exchange, where it gains the key,   *)
(* at the one that marks curr, where it loses it, and at no other step.    *)
LEMMA MembersStep ==
    ASSUME ListInv, NEW t \in Threads, Step(t), NoPass'
    PROVE  /\ InsertCas(t) => key[t] \notin Members /\ Members' = Members \cup {key[t]}
           /\ MarkCurr(t) => key[t] \in Members /\ Members' = Members \ {key[t]}
           /\ ~InsertCas(t) /\ ~MarkCurr(t) => Members' = Members
<1>0. TypeOK /\ Placed /\ Ordered /\ Control(t) /\ Pointers(t) /\ Place(t) /\ TypeOK' /\ Ordered'
    BY TypeStep, OrderedStep DEF ListInv
<1>1. Members = {data[n] : n \in Unmarked} /\ Members' = {data'[n] : n \in Unmarked'}
    BY <1>0, MembersAre, MembersAreNext
<1>2. /\ \A n \in Live : n \in Linked /\ n \in Nodes
      /\ \A n \in Nodes : data[n] \in Nat
      /\ \A n : n \in Unmarked <=> n \in Live /\ n # head_ /\ ~next[n].marked
      /\ \A n : n \in Unmarked' <=> n \in Live' /\ n # head_ /\ ~next'[n].marked
    BY <1>0, LiveFacts DEF Unmarked
<1>3. pc[t] # "idle" => key[t] \in Nat \ {0}
    BY <1>0, KeysAssumption DEF Control
<1>4. ASSUME InsertCas(t) PROVE key[t] \notin Members /\ Members' = Members \cup {key[t]}
    <2> DEFINE o == new_node[t]
    <2>1. /\ Live' = Live \cup {o} /\ o \in Nodes \ Live
          /\ pred[t] \in Live /\ ptrs[pred[t]] = curr[t] /\ data' = data
          /\ data[pred[t]] < data[o] /\ data[o] = key[t] /\ (curr[t] # Null => data[o] < data[curr[t]])
        BY <1>0, <1>4, LiveInserted
    <2>2. next[pred[t]].ptr = curr[t]
        BY <1>2, <2>1 DEF ptrs
    <2>3. key[t] \in Nat
        BY <1>2, <2>1
    <2>4. key[t] \notin Members
        BY <1>0, <2>1, <2>2, <2>3, Gap
    <2>5. \A n \in Live : next'[n].marked <=> next[n].marked
        BY <1>0, <1>2, <1>4, MarksStay DEF InsertCas, MarkCurr
    <2>6. next'[o] = unmark(curr[t]) /\ ~next'[o].marked
        <3>1. /\ next' = [next EXCEPT ![o] = unmark(curr[t]), ![pred[t]] = unmark(o)]
            BY <1>0, <1>4, InsertDoes
        <3>2. o # pred[t] /\ o \in Nodes /\ next = [n \in Nodes |-> next[n]]
            BY <1>0, <2>1 DEF TypeOK
        <3>3. next'[o] = unmark(curr[t])
            BY <3>1, <3>2
        <3> QED BY <3>3, Fields
    <2>7. o # head_
        BY <1>0, <2>1 DEF Ordered
    <2> HIDE DEF o
    <2>8. \A n : n \in Unmarked' <=> n \in Unmarked \/ n = o
        BY <1>2, <2>1, <2>5, <2>6, <2>7
    <2> QED BY <1>1, <2>1, <2>4, <2>8
<1>5. ASSUME MarkCurr(t) PROVE key[t] \in Members /\ Members' = Members \ {key[t]}
    <2>1. /\ next[curr[t]] = unmark(succ[t]) /\ data' = data
          /\ next' = [next EXCEPT ![curr[t]] = mark(succ[t])]
        BY <1>0, <1>5, MarkDoes
    <2>2. curr[t] \in Linked /\ data[curr[t]] = key[t] /\ key[t] \in Nat \ {0}
        BY <1>0, <1>3, <1>5 DEF MarkCurr, Place, Found
    <2>3. curr[t] \in Live
        BY <1>0, <2>1, <2>2, Fields, UnmarkedIsLive
    <2>4. key[t] \in Members /\ curr[t] \in Unmarked
        BY <1>0, <2>1, <2>2, <2>3, Fields, Member
    <2>5. Live' = Live
        <3>1. ~InsertCas(t) /\ ~UnlinkMarked(t) /\ ~EraseUnlinks(t)
            BY <1>5 DEF MarkCurr, InsertCas, UnlinkMarked, EraseUnlinks
        <3> QED BY <1>0, <3>1, LiveStays
    <2>6. next'[curr[t]].marked /\ \A n \in Live : n # curr[t] => next'[n] = next[n]
        <3>1. curr[t] \in Nodes /\ next = [n \in Nodes |-> next[n]]
            BY <1>0, <1>2, <2>3 DEF TypeOK
        <3>2. next'[curr[t]] = mark(succ[t]) /\ \A n \in Nodes : n # curr[t] => next'[n] = next[n]
            BY <2>1, <3>1
        <3> QED BY <1>2, <3>2, Fields
    <2>7. \A n : n \in Unmarked' <=> n \in Unmarked /\ n # curr[t]
        BY <1>2, <2>5, <2>6
    <2>8. \A n \in Unmarked : data[n] = key[t] => n = curr[t]
        BY <1>0, <1>2, <2>2, <2>3 DEF Ordered
    <2>9. {data'[n] : n \in Unmarked'} = {data[n] : n \in Unmarked} \ {key[t]}
        BY <2>1, <2>2, <2>7, <2>8
    <2> QED BY <1>1, <2>4, <2>9
<1>6. ASSUME ~InsertCas(t), ~MarkCurr(t) PROVE Members' = Members
    <2>1. \A n \in Live : next'[n].marked <=> next[n].marked
        BY <1>0, <1>2, <1>6, MarksStay
    <2>2. (\A n : n \in Unmarked' <=> n \in Unmarked) /\ \A n \in Live : data'[n] = data[n]
        <3>1. CASE UnlinkMarked(t) \/ EraseUnlinks(t)
            <4>1. Live' = Live \ {curr[t]} /\ next[curr[t]].marked /\ data' = data
                BY <1>0, <3>1, LiveUnlinked
            <4> QED BY <1>2, <2>1, <4>1
        <3>2. CASE ~UnlinkMarked(t) /\ ~EraseUnlinks(t)
            <4>1. Live' = Live /\ \A n \in Live : data'[n] = data[n]
                BY <1>0, <1>6, <3>2, LiveStays
            <4> QED BY <1>2, <2>1, <4>1
        <3> QED BY <3>1, <3>2
    <2>3. \A n \in Unmarked : data'[n] = data[n]
        BY <1>2, <2>2
    <2> QED BY <1>1, <2>2, <2>3
<1> QED BY <1>4, <1>5, <1>6

-----------------------------------------------------------------------------
(* Refinement *)

(* Which calls have changed the set. *)
HasChanged(t) == op[t] \in {"insert", "erase"} /\ result[t] = "true"

(* A call counts from its compare_exchange until it returns. *)
LEMMA ChangedStep ==
    ASSUME TypeOK, NEW t \in Threads, Control(t), Step(t)
    PROVE  /\ \A u \in Threads : u # t => (HasChanged(u)' <=> HasChanged(u))
           /\ InsertCas(t) \/ MarkCurr(t) => ~HasChanged(t) /\ HasChanged(t)'
           /\ Return(t) => ~HasChanged(t)'
           /\ ~InsertCas(t) /\ ~MarkCurr(t) /\ ~Return(t) => (HasChanged(t)' <=> HasChanged(t))
<1>0. /\ op = [u \in Threads |-> op[u]] /\ result = [u \in Threads |-> result[u]]
      /\ Ops \subseteq {"insert", "erase", "contains"}
    BY OpsAssumption DEF TypeOK
<1>1. \A u \in Threads : u # t => (HasChanged(u)' <=> HasChanged(u))
    BY OthersStay DEF HasChanged
<1>2. InsertCas(t) \/ MarkCurr(t) => ~HasChanged(t) /\ HasChanged(t)'
    BY <1>0 DEF InsertCas, MarkCurr, HasChanged, Control, call
<1>3. Return(t) => ~HasChanged(t)'
    BY <1>0 DEF Return, HasChanged
<1>4. ASSUME ~InsertCas(t), ~MarkCurr(t), ~Return(t) PROVE HasChanged(t)' <=> HasChanged(t)
    <2>1. CASE UNCHANGED <<op, result>>
        BY <2>1 DEF HasChanged
    <2>2. CASE FindAtEnd(t) \/ FindAtKey(t)
        <3>1. /\ op' = op /\ result[t] = "none"
              /\ result' = result \/ op[t] = "contains" \/ result'[t] = "false"
            BY <1>0, <2>2 DEF FindAtEnd, FindAtKey, FindReturns, Control, call
        <3> QED BY <3>1 DEF HasChanged
    <2>3. ASSUME NEW o \in Ops, NEW k \in Keys, CallOp(t, o, k) PROVE HasChanged(t)' <=> HasChanged(t)
        BY <2>3 DEF CallOp, Control, HasChanged
    <2> QED
        BY <1>4, <2>1, <2>2, <2>3
        DEF Step, Find, ClaimFirst, ClaimSecond, ClaimThrows, Release, FindStart, PublishCurr, Validate,
            ReadMarked, Advance, UnlinkMarked, UnlinkFails, Unlink, Dispose, NewNode, InsertCasFails,
            ReadNext, MarkFails, EraseUnlinks, EraseLeaves, call
<1> QED BY <1>1, <1>2, <1>3, <1>4

(* Each step is a step of the set, or changes nothing of it. *)
LEMMA ListRefined ==
    ListInv /\ [Next]_vars /\ NoPass' => [AbstractSet!Next]_<<Members, Changed>>
<1> SUFFICES ASSUME ListInv, [Next]_vars, NoPass'
             PROVE  AbstractSet!Next \/ (Members' = Members /\ Changed' = Changed)
    OBVIOUS
<1>1. ASSUME NEW t \in Threads, Step(t)
      PROVE  AbstractSet!Next \/ (Members' = Members /\ Changed' = Changed)
    <2>0. TypeOK /\ Control(t)
        BY DEF ListInv
    <2>1. /\ InsertCas(t) => key[t] \notin Members /\ Members' = Members \cup {key[t]}
          /\ MarkCurr(t) => key[t] \in Members /\ Members' = Members \ {key[t]}
          /\ ~InsertCas(t) /\ ~MarkCurr(t) => Members' = Members
        BY <1>1, MembersStep
    <2>2. /\ \A u \in Threads : u # t => (HasChanged(u)' <=> HasChanged(u))
          /\ InsertCas(t) \/ MarkCurr(t) => ~HasChanged(t) /\ HasChanged(t)'
          /\ Return(t) => ~HasChanged(t)'
          /\ ~InsertCas(t) /\ ~MarkCurr(t) /\ ~Return(t) => (HasChanged(t)' <=> HasChanged(t))
        BY <1>1, <2>0, ChangedStep
    <2>3. /\ \A u : u \in Changed <=> u \in Threads /\ HasChanged(u)
          /\ \A u : u \in Changed' <=> u \in Threads /\ HasChanged(u)'
        BY DEF Changed, HasChanged
    <2>9. ASSUME NEW u, u = t PROVE HasChanged(u)' <=> HasChanged(t)'
        BY <2>9 DEF HasChanged
    <2>4. CASE InsertCas(t) \/ MarkCurr(t)
        <3>1. t \notin Changed /\ Changed' = Changed \cup {t}
            BY <2>2, <2>3, <2>4, <2>9
        <3>2. key[t] \in Keys
            BY <2>0, <2>4 DEF Control, InsertCas, MarkCurr
        <3>3. CASE InsertCas(t)
            <4>1. AbstractSet!Insert(t, key[t])
                BY <2>1, <3>1, <3>3 DEF AbstractSet!Insert
            <4> QED BY <3>2, <4>1 DEF AbstractSet!Next
        <3>4. CASE MarkCurr(t)
            <4>1. AbstractSet!Erase(t, key[t])
                BY <2>1, <3>1, <3>4 DEF AbstractSet!Erase
            <4> QED BY <3>2, <4>1 DEF AbstractSet!Next
        <3> QED BY <2>4, <3>3, <3>4
    <2>5. CASE Return(t)
        <3>1. ~InsertCas(t) /\ ~MarkCurr(t)
            BY <2>5 DEF Return, InsertCas, MarkCurr
        <3>2. Changed' = Changed \ {t}
            BY <2>2, <2>3, <2>5, <2>9
        <3>3. AbstractSet!Return(t)
            BY <2>1, <3>1, <3>2 DEF AbstractSet!Return
        <3> QED BY <3>3 DEF AbstractSet!Next
    <2>6. CASE ~InsertCas(t) /\ ~MarkCurr(t) /\ ~Return(t)
        <3>1. Changed' = Changed
            BY <2>2, <2>3, <2>6, <2>9
        <3> QED BY <2>1, <2>6, <3>1
    <2> QED BY <2>4, <2>5, <2>6
<1>2. CASE UNCHANGED vars
    <2>1. UNCHANGED <<next, data, op, result>>
        BY <1>2 DEF vars, list, call
    <2>2. Changed' = Changed
        BY <2>1 DEF Changed
    <2>3. Members' = Members
        BY <2>1 DEF Members, Reachable, Nth
    <2> QED BY <2>2, <2>3
<1> QED BY <1>1, <1>2 DEF Next

(* At the beginning nothing has changed. *)
LEMMA ListRefinedInit == Init => AbstractSet!Init
<1> SUFFICES ASSUME Init PROVE AbstractSet!Init
    OBVIOUS
<1>1. TypeOK /\ Ordered
    BY ListInvInit DEF ListInv
<1>2. Changed = {}
    BY DEF Init, Changed
<1>3. Members = {data[n] : n \in Unmarked}
    BY <1>1, MembersAre
<1>4. \A n \in Unmarked : data[n] \in Keys \cup {0} /\ data[n] # 0
    BY <1>1, LiveFacts DEF Unmarked, Ordered, TypeOK
<1>5. Members \subseteq Keys
    BY <1>3, <1>4
<1> QED BY <1>2, <1>5 DEF AbstractSet!Init

(* The list is a set: a successful insert changes it at the                *)
(* compare_exchange on pred->next, a successful erase where it marks curr. *)
THEOREM ListImplementsSet == Spec /\ []NoPass => ImplementsSet
<1>1. Init => AbstractSet!Init
    BY ListRefinedInit
<1>2. ListInv /\ [Next]_vars /\ NoPass' => [AbstractSet!Next]_<<Members, Changed>>
    BY ListRefined
<1> QED BY <1>1, <1>2, ListInvInit, ListInvStep, PTL DEF Spec, ImplementsSet, AbstractSet!Spec

-----------------------------------------------------------------------------
(* Answers that leave the set as it is *)

AnswersTrue(t) ==
    /\ (op[t] = "contains" /\ result[t] = "true")
           \/ (op[t] = "insert" /\ result[t] = "false") => TRUE \in seen[t]
    /\ op[t] \in {"contains", "erase"} /\ result[t] = "false" => FALSE \in seen[t]

(* What a thread has seen is not forgotten before it returns. *)
LEMMA SeenGrows ==
    ASSUME NextSeen, NEW t \in Threads, pc'[t] # "idle"
    PROVE  /\ \A b \in seen[t] : b \in seen'[t]
           /\ key'[t] \in Members' => TRUE \in seen'[t]
           /\ key'[t] \notin Members' => FALSE \in seen'[t]
<1>1. seen'[t] = seen[t] \cup {key'[t] \in Members'}
    BY Zenon DEF NextSeen
<1>2. key'[t] \in Members' => (key'[t] \in Members') = TRUE
    OBVIOUS
<1>3. key'[t] \notin Members' => (key'[t] \in Members') = FALSE
    OBVIOUS
<1> QED BY <1>1, <1>2, <1>3, Zenon

(* Gap, after a step. *)
LEMMA GapNext ==
    TypeOK' /\ Ordered' =>
        \A n \in Live', k \in Nat :
            data'[n] < k /\ (next'[n].ptr = Null \/ k < data'[next'[n].ptr]) => k \notin Members'
<1>1. TypeOK /\ Ordered =>
          \A n \in Live, k \in Nat :
              data[n] < k /\ (next[n].ptr = Null \/ k < data[next[n].ptr]) => k \notin Members
    BY Gap
<1>2. (TypeOK /\ Ordered =>
          \A n \in Live, k \in Nat :
              data[n] < k /\ (next[n].ptr = Null \/ k < data[next[n].ptr]) => k \notin Members)'
    BY <1>1, PTL
<1> QED BY <1>2

(* Where find goes on from a live pred to its successor. *)
LEMMA MovesOn ==
    ASSUME ListInv, NEW t \in Threads, Step(t), FindStart(t) \/ Advance(t) \/ UnlinkMarked(t)
    PROVE  /\ pred'[t] \in Live' /\ next'[pred'[t]].ptr = curr'[t] /\ data'[pred'[t]] < key'[t]
           /\ key'[t] \in Nat /\ pc'[t] # "idle"
<1>0. /\ TypeOK /\ Placed /\ Ordered /\ Control(t) /\ Pointers(t) /\ Place(t)
      /\ pred = [u \in Threads |-> pred[u]] /\ curr = [u \in Threads |-> curr[u]]
      /\ pc = [u \in Threads |-> pc[u]]
    BY DEF ListInv, TypeOK
<1>1. pc[t] # "idle" => key[t] \in Nat /\ 0 < key[t]
    <2>1. \A k \in Keys : k \in Nat /\ 0 < k
        BY KeysAssumption
    <2> QED BY <1>0, <2>1 DEF Control
<1>2. key' = key /\ pc[t] # "idle" /\ pc'[t] # "idle"
    BY <1>0 DEF FindStart, Advance, UnlinkMarked, Unlink, Goto, call
<1>3. CASE FindStart(t) \/ Advance(t)
    <2>1. next' = next /\ data' = data /\ curr'[t] = next[pred'[t]].ptr
          /\ ~InsertCas(t) /\ ~UnlinkMarked(t) /\ ~EraseUnlinks(t)
        BY <1>0, <1>3 DEF FindStart, Advance, list, InsertCas, UnlinkMarked, EraseUnlinks
    <2>2. Live' = Live
        BY <1>0, <2>1, LiveStays
    <2>3. pred'[t] \in Live /\ data[pred'[t]] < key[t]
        <3>1. CASE FindStart(t)
            BY <1>0, <1>1, <1>2, <3>1 DEF FindStart, Ordered
        <3>2. CASE Advance(t)
            <4>1. pred'[t] = curr[t] /\ curr[t] \in Linked /\ ~next[curr[t]].marked /\ data[curr[t]] < key[t]
                BY <1>0, <3>2 DEF Advance, Place, Searching
            <4> QED BY <1>0, <4>1, UnmarkedIsLive
        <3> QED BY <1>3, <3>1, <3>2
    <2> QED BY <1>1, <1>2, <2>1, <2>2, <2>3
<1>4. CASE UnlinkMarked(t)
    <2>1. /\ Live' = Live \ {curr[t]} /\ curr[t] \in Live /\ pred[t] \in Live /\ data' = data
          /\ ptrs[pred[t]] = curr[t]
        BY <1>0, <1>4, LiveUnlinked
    <2>2. pred'[t] = pred[t] /\ curr'[t] = succ[t] /\ data[pred[t]] < key[t]
        BY <1>0, <1>4 DEF UnlinkMarked, Unlink, Place, Searching
    <2>3. pred[t] \in Nodes /\ next' = [next EXCEPT ![pred[t]] = unmark(succ[t])]
          /\ next = [n \in Nodes |-> next[n]] /\ next[pred[t]] = unmark(curr[t])
        BY <1>0, <1>4, <2>1, UnlinkDoes, LiveFacts DEF TypeOK
    <2>4. next'[pred[t]].ptr = succ[t] /\ next[pred[t]].ptr = curr[t]
        BY <2>3, Fields
    <2>5. pred[t] # curr[t]
        <3>1. data[pred[t]] < data[curr[t]] /\ data[pred[t]] \in Nat
            BY <1>0, <2>1, <2>3, <2>4, LiveFacts, NullAssumption DEF Ordered
        <3> QED BY <3>1
    <2> QED BY <1>1, <1>2, <2>1, <2>2, <2>4, <2>5
<1> QED BY <1>3, <1>4

(* What another thread has seen still holds. *)
LEMMA OthersSeen ==
    ASSUME ListInv, NextSeen, NEW t \in Threads, Step(t), NEW u \in Threads, u # t,
           Witnessed(u), AnswersTrue(u)
    PROVE  Witnessed(u)' /\ AnswersTrue(u)'
<1>0. TypeOK /\ Placed /\ Control(t) /\ Place(t) /\ Control(u) /\ Place(u)
    BY DEF ListInv
<1>1. /\ pc'[u] = pc[u] /\ op'[u] = op[u] /\ key'[u] = key[u] /\ result'[u] = result[u]
      /\ curr'[u] = curr[u]
    BY <1>0, OthersStay
<1>2. \A n \in Linked : data'[n] = data[n]
    BY <1>0, LinkedStays
<1>3. pc[u] \in Searching \cup {"insert"} => curr[u] = Null \/ data'[curr[u]] = data[curr[u]]
    BY <1>0, <1>2 DEF Place, Found
<1>4. pc[u] # "idle" => \A b \in seen[u] : b \in seen'[u]
    BY <1>1, SeenGrows
<1>5. Witnessed(u)'
    BY <1>1, <1>3, <1>4 DEF Witnessed, Searching
<1>6. AnswersTrue(u)'
    <2>1. CASE pc[u] = "idle"
        BY <1>0, <1>1, <2>1 DEF Control, AnswersTrue
    <2>2. CASE pc[u] # "idle"
        BY <1>1, <1>4, <2>2 DEF AnswersTrue
    <2> QED BY <2>1, <2>2
<1> QED BY <1>5, <1>6

(* find looks at the gap where the key would be before it says it is not   *)
(* there.                                                                  *)
LEMMA WitnessedStep ==
    ASSUME ListInv, NextSeen, NEW t \in Threads, Step(t), Witnessed(t)
    PROVE  Witnessed(t)'
<1>0. /\ TypeOK /\ Placed /\ Ordered /\ Control(t) /\ Pointers(t) /\ Place(t)
      /\ pc = [u \in Threads |-> pc[u]]
    BY DEF ListInv, TypeOK
<1>1. CASE FindStart(t) \/ Advance(t) \/ UnlinkMarked(t)
    <2>1. /\ pred'[t] \in Live' /\ next'[pred'[t]].ptr = curr'[t] /\ data'[pred'[t]] < key'[t]
          /\ key'[t] \in Nat /\ pc'[t] # "idle"
        BY <1>1, MovesOn
    <2>2. TypeOK' /\ Ordered'
        BY <1>0, TypeStep, OrderedStep
    <2>3. curr'[t] = Null \/ key'[t] < data'[curr'[t]] => key'[t] \notin Members'
        BY <2>1, <2>2, GapNext
    <2>4. key'[t] \notin Members' => FALSE \in seen'[t]
        BY <2>1, SeenGrows
    <2> QED BY <2>3, <2>4 DEF Witnessed
<1>2. CASE /\ pc[t] \in Searching /\ pc'[t] \in Searching \cup {"insert"}
           /\ UNCHANGED <<curr, key>>
    <2>1. pc'[t] # "idle"
        BY <1>2 DEF Searching
    <2>2. \A b \in seen[t] : b \in seen'[t]
        BY <2>1, SeenGrows
    <2>3. curr[t] = Null \/ data'[curr[t]] = data[curr[t]]
        BY <1>0, <1>2, LinkedStays DEF Place
    <2> QED BY <1>2, <2>2, <2>3 DEF Witnessed
<1>3. CASE pc'[t] \notin Searching \cup {"insert"}
    BY <1>3 DEF Witnessed
<1>4. \/ FindStart(t) \/ Advance(t) \/ UnlinkMarked(t)
      \/ pc[t] \in Searching /\ pc'[t] \in Searching \cup {"insert"} /\ UNCHANGED <<curr, key>>
      \/ pc'[t] \notin Searching \cup {"insert"}
    BY <1>0
    DEF Step, Find, CallOp, ClaimFirst, ClaimSecond, ClaimThrows, Release, Return, PublishCurr, Validate,
        ReadMarked, FindAtEnd, FindAtKey, FindReturns, UnlinkFails, Unlink, Dispose, NewNode,
        InsertCas, InsertCasFails, ReadNext, MarkCurr, MarkFails, EraseUnlinks, EraseLeaves, Goto,
        Searching, locals, call
<1> QED BY <1>1, <1>2, <1>3, <1>4

(* An answer is what t has seen. *)
LEMMA AnswersStep ==
    ASSUME ListInv, NextSeen, NEW t \in Threads, Step(t), NoPass', Witnessed(t), AnswersTrue(t)
    PROVE  AnswersTrue(t)'
<1>0. /\ TypeOK /\ Placed /\ Ordered /\ Control(t) /\ Pointers(t) /\ Place(t)
      /\ pc = [u \in Threads |-> pc[u]] /\ result = [u \in Threads |-> result[u]]
      /\ op = [u \in Threads |-> op[u]]
    BY DEF ListInv, TypeOK
<1>1. CASE FindAtEnd(t) \/ FindAtKey(t)
    <2>1. /\ pc[t] \in {"publish", "read"} /\ pc'[t] # "idle" /\ op' = op /\ key' = key /\ result[t] = "none"
          /\ ~InsertCas(t) /\ ~MarkCurr(t)
        BY <1>0, <1>1 DEF FindAtEnd, FindAtKey, FindReturns, Goto, call, Control, InsertCas, MarkCurr
    <2>2. Members' = Members
        BY <2>1, MembersStep
    <2>3. /\ \A b \in seen[t] : b \in seen'[t]
          /\ key[t] \in Members => TRUE \in seen'[t]
        BY <2>1, <2>2, SeenGrows
    <2>4. ASSUME FindAtKey(t), data[curr[t]] = key[t] PROVE TRUE \in seen'[t]
        <3>1. curr[t] \in Linked /\ ~next[curr[t]].marked
            BY <1>0, <2>4 DEF FindAtKey, Place, Searching
        <3>2. curr[t] \in Live
            BY <1>0, <3>1, UnmarkedIsLive
        <3>3. key[t] \in Nat \ {0}
            BY <1>0, <2>1, KeysAssumption DEF Control
        <3>4. key[t] \in Members
            BY <1>0, <2>4, <3>1, <3>2, <3>3, Member
        <3> QED BY <2>3, <3>4
    <2>5. ASSUME FindAtEnd(t) \/ (FindAtKey(t) /\ data[curr[t]] # key[t]) PROVE FALSE \in seen'[t]
        <3>1. curr[t] = Null \/ key[t] < data[curr[t]]
            <4>1. CASE FindAtEnd(t)
                BY <4>1 DEF FindAtEnd
            <4>2. CASE FindAtKey(t) /\ data[curr[t]] # key[t]
                <5>1. data[curr[t]] >= key[t] /\ data[curr[t]] \in Nat
                    BY <1>0, <2>1, <4>2, PlaceNodes, LiveFacts DEF FindAtKey, Place, Searching
                <5>2. key[t] \in Nat
                    BY <1>0, <2>1, KeysAssumption DEF Control
                <5> QED BY <4>2, <5>1, <5>2
            <4> QED BY <2>5, <4>1, <4>2
        <3>2. FALSE \in seen[t]
            BY <2>1, <3>1 DEF Witnessed, Searching
        <3> QED BY <2>3, <3>2
    <2>6. /\ op[t] = "contains" /\ result'[t] = "true" => FindAtKey(t) /\ data[curr[t]] = key[t]
          /\ op[t] = "insert" /\ result'[t] = "false" => FindAtKey(t) /\ data[curr[t]] = key[t]
          /\ op[t] \in {"contains", "erase"} /\ result'[t] = "false" =>
                FindAtEnd(t) \/ (FindAtKey(t) /\ data[curr[t]] # key[t])
        BY <1>0, <1>1, <2>1 DEF FindAtEnd, FindAtKey, FindReturns
    <2> QED BY <2>1, <2>4, <2>5, <2>6 DEF AnswersTrue
<1>2. CASE InsertCas(t) \/ MarkCurr(t)
    <2>1. result'[t] = "true" /\ op'[t] # "contains"
        BY <1>0, <1>2 DEF InsertCas, MarkCurr, Control, call
    <2> QED BY <2>1 DEF AnswersTrue
<1>3. CASE Return(t) \/ \E o \in Ops, k \in Keys : CallOp(t, o, k)
    <2>1. result'[t] = "none"
        BY <1>0, <1>3 DEF Return, CallOp, Control
    <2> QED BY <2>1 DEF AnswersTrue
<1>4. CASE UNCHANGED <<op, result>> /\ pc'[t] # "idle"
    <2>1. \A b \in seen[t] : b \in seen'[t]
        BY <1>4, SeenGrows
    <2> QED BY <1>4, <2>1 DEF AnswersTrue
<1>5. \/ FindAtEnd(t) \/ FindAtKey(t) \/ InsertCas(t) \/ MarkCurr(t) \/ Return(t)
      \/ \E o \in Ops, k \in Keys : CallOp(t, o, k)
      \/ UNCHANGED <<op, result>> /\ pc'[t] # "idle"
    BY <1>0
    DEF Step, Find, ClaimFirst, ClaimSecond, ClaimThrows, Release, FindStart, PublishCurr, Validate,
        ReadMarked, Advance, UnlinkMarked, UnlinkFails, Unlink, Dispose, NewNode, InsertCasFails,
        ReadNext, MarkFails, EraseUnlinks, EraseLeaves, Goto, call
<1> QED BY <1>1, <1>2, <1>3, <1>4, <1>5

(* The list invariant, and what the threads have seen. *)
AnswersInv == ListInv /\ \A t \in Threads : Witnessed(t) /\ AnswersTrue(t)

(* Every step keeps it. *)
LEMMA AnswersInvStep == AnswersInv /\ [NextSeen]_<<vars, seen>> /\ NoPass' => AnswersInv'
<1> SUFFICES ASSUME AnswersInv, [NextSeen]_<<vars, seen>>, NoPass' PROVE AnswersInv'
    OBVIOUS
<1>0. ListInv /\ \A t \in Threads : Witnessed(t) /\ AnswersTrue(t)
    BY DEF AnswersInv
<1>1. ListInv'
    BY <1>0, ListInvStep DEF NextSeen
<1>2. CASE NextSeen
    <2>1. PICK t \in Threads : Step(t)
        BY <1>2 DEF NextSeen, Next
    <2>2. Witnessed(t)' /\ AnswersTrue(t)'
        BY <1>0, <1>2, <2>1, WitnessedStep, AnswersStep
    <2>3. \A u \in Threads : u # t => Witnessed(u)' /\ AnswersTrue(u)'
        BY <1>0, <1>2, <2>1, OthersSeen
    <2>4. ASSUME NEW u \in Threads PROVE Witnessed(u)' /\ AnswersTrue(u)'
        BY <2>2, <2>3
    <2> QED BY <1>1, <2>4 DEF AnswersInv
<1>3. CASE UNCHANGED <<vars, seen>>
    <2>1. UNCHANGED <<pc, curr, key, data, op, result, seen>>
        BY <1>3 DEF vars, list, call, locals
    <2>2. ASSUME NEW u \in Threads PROVE Witnessed(u)' /\ AnswersTrue(u)'
        BY <1>0, <2>1 DEF Witnessed, AnswersTrue
    <2> QED BY <1>1, <2>2 DEF AnswersInv
<1> QED BY <1>2, <1>3

(* It holds at the beginning. *)
LEMMA AnswersInvInit == InitSeen => AnswersInv
<1>1. InitSeen => ListInv
    BY ListInvInit DEF InitSeen
<1>2. InitSeen => \A t \in Threads : Witnessed(t) /\ AnswersTrue(t)
    BY DEF InitSeen, Init, Witnessed, AnswersTrue, Searching
<1> QED BY <1>1, <1>2 DEF AnswersInv

(* contains, and the calls that report failure, answer what was true of    *)
(* the set at some moment of the call.                                     *)
THEOREM ListAnswers == SpecSeen /\ []NoPass => []AnswersAreTrue
<1>1. AnswersInv => AnswersAreTrue
    BY DEF AnswersInv, AnswersTrue, AnswersAreTrue
<1> QED BY <1>1, AnswersInvInit, AnswersInvStep, PTL DEF SpecSeen

-----------------------------------------------------------------------------
(* When there is no pass *)

Counting == {t \in Threads : rpc[t] = "count"}

(* Every node on the list of retired nodes has been counted, or its thread *)
(* is about to; no node is put there twice.                                *)
Counted ==
    /\ \A t \in Threads : target[t] \notin nodes_to_reclaim
    /\ \A t, u \in Threads : target[t] = target[u] /\ target[t] # Null => t = u
    /\ IsFiniteSet(Counting)
    /\ Cardinality(nodes_to_reclaim) = reclaim_nodes_count + Cardinality(Counting)

(* Not every node can be retired: the sentinel never is. *)
LEMMA FewRetired ==
    ASSUME ListInv
    PROVE  /\ IsFiniteSet(nodes_to_reclaim) /\ Cardinality(nodes_to_reclaim) \in Nat
           /\ Cardinality(nodes_to_reclaim) <= Cardinality(Nodes) - 1
<1>1. nodes_to_reclaim \in SUBSET (Nodes \ {head_})
    BY DEF ListInv, TypeOK, HpTypeOK, Ordered, Live, Retired
<1>2. IsFiniteSet(Nodes \ {head_}) /\ Cardinality(Nodes \ {head_}) = Cardinality(Nodes) - 1
    BY FS_RemoveElement, BoundAssumption, HeadAssumption
<1>3. IsFiniteSet(nodes_to_reclaim) /\ Cardinality(nodes_to_reclaim) <= Cardinality(Nodes \ {head_})
    BY <1>1, <1>2, FS_Subset
<1> QED BY <1>2, <1>3, FS_CardinalityType

(* A step of reclaim_later. *)
LEMMA CountedDispose ==
    ASSUME ListInv, Counted, Cardinality(Nodes) <= ReclaimThreshold, NEW t \in Threads, Dispose(t)
    PROVE  Counted' /\ rpc'[t] # "reset"
<1>0. /\ TypeOK /\ Control(t) /\ target \in [Threads -> Nodes \cup {Null}] /\ rpc \in [Threads -> RPCs]
      /\ reclaim_nodes_count \in Nat /\ ReclaimThreshold \in Nat
      /\ IsFiniteSet(nodes_to_reclaim) /\ Cardinality(nodes_to_reclaim) \in Nat
      /\ Cardinality(nodes_to_reclaim) <= Cardinality(Nodes) - 1 /\ Cardinality(Nodes) \in Nat
    BY FewRetired, ThresholdAssumption, BoundAssumption, FS_CardinalityType
    DEF ListInv, TypeOK, HpTypeOK
<1>1. IsFiniteSet(Counting) /\ Cardinality(Counting) \in Nat
    BY FS_CardinalityType DEF Counted
<1>2. CASE AddToReclaimList(t)
    <2>1. /\ rpc[t] = "add" /\ rpc' = [rpc EXCEPT ![t] = "count"]
          /\ nodes_to_reclaim' = nodes_to_reclaim \cup {target[t]}
          /\ target' = [target EXCEPT ![t] = Null] /\ reclaim_nodes_count' = reclaim_nodes_count
          /\ target[t] \in Nodes /\ target[t] \notin nodes_to_reclaim
        BY <1>0, <1>2 DEF AddToReclaimList, Reclaiming, Control, Counted
    <2>2. Counting' = Counting \cup {t} /\ t \notin Counting
        BY <1>0, <2>1 DEF Counting
    <2>3. IsFiniteSet(Counting') /\ Cardinality(Counting') = Cardinality(Counting) + 1
        BY <1>1, <2>2, FS_AddElement
    <2>4. Cardinality(nodes_to_reclaim') = Cardinality(nodes_to_reclaim) + 1
        BY <1>0, <2>1, FS_AddElement
    <2>5. Cardinality(nodes_to_reclaim') = reclaim_nodes_count' + Cardinality(Counting')
        BY <1>0, <1>1, <2>1, <2>3, <2>4 DEF Counted
    <2>6. nodes_to_reclaim \subseteq Nodes
        BY <1>0 DEF TypeOK, HpTypeOK
    <2>7. \A u \in Threads : target'[u] \notin nodes_to_reclaim'
        BY <1>0, <2>1, <2>6, NullAssumption DEF Counted
    <2>8. \A v, u \in Threads : target'[v] = target'[u] /\ target'[v] # Null => v = u
        BY <1>0, <2>1 DEF Counted
    <2> QED BY <1>0, <2>1, <2>3, <2>5, <2>7, <2>8 DEF Counted
<1>3. CASE CountReclaim(t)
    <2>1. /\ rpc[t] = "count" /\ UNCHANGED <<nodes_to_reclaim, target>>
          /\ reclaim_nodes_count' = reclaim_nodes_count + 1
          /\ rpc' = [rpc EXCEPT ![t] = IF reclaim_nodes_count + 1 >= ReclaimThreshold
                                       THEN "reset" ELSE "none"]
        BY <1>3 DEF CountReclaim, Reclaiming
    <2>2. Counting' = Counting \ {t} /\ t \in Counting
        BY <1>0, <2>1 DEF Counting
    <2>3. IsFiniteSet(Counting') /\ Cardinality(Counting') = Cardinality(Counting) - 1
        BY <1>1, <2>2, FS_RemoveElement
    <2>4. Cardinality(Counting') \in Nat
        BY <2>3, FS_CardinalityType
    <2>5. Cardinality(nodes_to_reclaim) = reclaim_nodes_count + Cardinality(Counting)
        BY DEF Counted
    <2>6. ~(reclaim_nodes_count + 1 >= ReclaimThreshold)
        BY <1>0, <1>1, <2>3, <2>4, <2>5
    <2>7. rpc'[t] = "none"
        BY <1>0, <2>1, <2>6
    <2>8. Cardinality(nodes_to_reclaim') = reclaim_nodes_count' + Cardinality(Counting')
        BY <1>0, <1>1, <2>1, <2>3, <2>5
    <2> QED BY <2>1, <2>3, <2>7, <2>8 DEF Counted
<1> QED BY <1>0, <1>2, <1>3, NoPassSteps

(* The other steps. *)
LEMMA CountedStep ==
    ASSUME ListInv, Counted, Cardinality(Nodes) <= ReclaimThreshold, NEW t \in Threads, Step(t)
    PROVE  Counted' /\ rpc'[t] # "reset"
<1>0. /\ TypeOK /\ Placed /\ Ordered /\ Control(t) /\ Place(t) /\ target \in [Threads -> Nodes \cup {Null}]
      /\ rpc \in [Threads -> RPCs]
    BY DEF ListInv, TypeOK, HpTypeOK
<1>1. CASE Dispose(t)
    BY <1>1, CountedDispose
<1>2. CASE UnlinkMarked(t) \/ EraseUnlinks(t)
    <2>1. /\ rpc' = [rpc EXCEPT ![t] = "add"] /\ target' = [target EXCEPT ![t] = curr[t]]
          /\ UNCHANGED <<nodes_to_reclaim, reclaim_nodes_count>>
        BY <1>2 DEF UnlinkMarked, EraseUnlinks, Unlink, Reclaiming, reclaimer
    <2>2. curr[t] \in Live
        BY <1>0, <1>2, LiveUnlinked
    <2>3. curr[t] \notin nodes_to_reclaim /\ \A u \in Threads : target[u] # curr[t]
        BY <2>2 DEF Live, Retired
    <2>4. Counting' = Counting
        <3>1. rpc[t] # "count"
            BY <1>0, <1>2 DEF Control, UnlinkMarked, EraseUnlinks
        <3> QED BY <1>0, <2>1, <3>1 DEF Counting
    <2>5. \A u \in Threads : target'[u] \notin nodes_to_reclaim'
        BY <1>0, <2>1, <2>3 DEF Counted
    <2>6. \A v, u \in Threads : target'[v] = target'[u] /\ target'[v] # Null => v = u
        BY <1>0, <2>1, <2>3 DEF Counted
    <2>7. rpc'[t] = "add"
        BY <1>0, <2>1
    <2> QED BY <2>1, <2>4, <2>5, <2>6, <2>7 DEF Counted
<1>3. CASE UNCHANGED reclaims
    <2>1. UNCHANGED <<nodes_to_reclaim, reclaim_nodes_count, target, rpc>>
        BY <1>3 DEF reclaims
    <2>2. rpc'[t] # "reset"
        BY <1>0, <2>1 DEF Control
    <2> QED BY <2>1, <2>2 DEF Counted, Counting
<1> QED BY <1>0, <1>1, <1>2, <1>3, Untouched

(* With no more than ReclaimThreshold nodes, the invariant and the count. *)
LEMMA NoPassKept ==
    ASSUME Cardinality(Nodes) <= ReclaimThreshold
    PROVE  ListInv /\ Counted /\ [Next]_vars => (ListInv /\ Counted)'
<1> SUFFICES ASSUME ListInv, Counted, [Next]_vars PROVE ListInv' /\ Counted'
    OBVIOUS
<1>1. ASSUME NEW t \in Threads, Step(t) PROVE NoPass' /\ Counted'
    <2>1. TypeOK /\ Control(t) /\ \A u \in Threads : Control(u)
        BY DEF ListInv
    <2>2. Counted' /\ rpc'[t] # "reset"
        BY <1>1, CountedStep
    <2>3. \A u \in Threads : u # t => rpc'[u] = rpc[u]
        BY <1>1, <2>1, OthersStay
    <2>4. \A u \in Threads : rpc[u] # "reset"
        BY <2>1 DEF Control
    <2> QED BY <2>2, <2>3, <2>4 DEF NoPass
<1>2. ASSUME UNCHANGED vars PROVE NoPass' /\ Counted'
    <2>1. UNCHANGED <<nodes_to_reclaim, reclaim_nodes_count, target, rpc>>
        BY <1>2 DEF vars, hpVars, reclaims
    <2>2. \A u \in Threads : rpc[u] # "reset"
        BY DEF ListInv, Control
    <2> QED BY <2>1, <2>2 DEF Counted, Counting, NoPass
<1>3. NoPass' /\ Counted'
    BY <1>1, <1>2 DEF Next
<1> QED BY <1>3, ListInvStep

(* While the list has had no more nodes than the ReclaimThreshold calls of *)
(* reclaim_later that trigger a pass, there is none: the hypothesis of the *)
(* theorems above is met.                                                  *)
THEOREM NoPassWithFewNodes ==
    ASSUME Cardinality(Nodes) <= ReclaimThreshold
    PROVE  Spec => []NoPass
<1>1. Init => ListInv /\ Counted
    <2> SUFFICES ASSUME Init PROVE ListInv /\ Counted
        OBVIOUS
    <2>1. /\ nodes_to_reclaim = {} /\ reclaim_nodes_count = 0 /\ Counting = {}
          /\ \A t \in Threads : target[t] = Null
        BY DEF Init, HpInit, Counting
    <2> QED BY <2>1, ListInvInit, FS_EmptySet DEF Counted
<1>2. ListInv /\ Counted /\ [Next]_vars => (ListInv /\ Counted)'
    BY NoPassKept
<1>3. ListInv => NoPass
    BY DEF ListInv, Control, NoPass
<1> QED BY <1>1, <1>2, <1>3, PTL DEF Spec

=============================================================================
