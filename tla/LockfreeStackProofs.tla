------------------------ MODULE LockfreeStackProofs ------------------------
(***************************************************************************)
(* Proofs about lockfree_stack and the hazard pointers that protect its    *)
(* pops, for any number of threads, addresses and hazard pointers.         *)
(*                                                                         *)
(* The invariant says how the nodes are linked, who holds each allocated   *)
(* node, and that a pop between its second load of head and its            *)
(* compare_exchange has a node that no scan can miss: whoever would delete *)
(* it has yet to look at the hazard pointer on it.                         *)
(***************************************************************************)
EXTENDS LockfreeStack, FiniteSetTheorems, SequenceTheorems, ListLemmas, TLAPS

-----------------------------------------------------------------------------
(* The invariant *)

Pushing == {"link", "push"}
Popping == {"load", "publish", "validate", "deref", "cas", "clear"}

Scanning(t) == pc[t] = "probe" \/ rpc[t] = "scan"

(* What a thread has, given where it stands. *)
Shape(t) ==
    /\ pc[t] \in Pushing => temp[t] \in Nodes
    /\ pc[t] \in Popping => owned[t] # << >>
    /\ pc[t] = "claim" => owned[t] = << >>
    /\ pc[t] \in {"deref", "cas"} => old_head[t] \in Nodes
    /\ pc[t] = "dispose" <=> rpc[t] # "none"
    /\ pc[t] = "probe" \/ rpc[t] \in {"add", "scan"} <=> target[t] # Null
    /\ pc[t] = "claim" \/ Scanning(t) => probe[t] \in Slots
    /\ batch[t] # {} => rpc[t] \in {"each", "scan"}
    /\ target[t] \notin batch[t]

(* The nodes a thread has, on their way onto the stack or off it. *)
Holds(t, n) ==
    \/ pc[t] \in Pushing /\ n = temp[t]
    \/ pc[t] = "clear" /\ n = old_head[t]
    \/ n = target[t]
    \/ n \in batch[t]

(* Each allocated node has one place: the stack, the list of nodes to      *)
(* reclaim, or a thread.                                                   *)
Placed(S) ==
    /\ S \subseteq Nodes
    /\ \A n \in Nodes : n \in allocated <=>
           n \in S \/ n \in nodes_to_reclaim \/ \E t \in Threads : Holds(t, n)
    /\ \A n \in Nodes : ~(n \in S /\ n \in nodes_to_reclaim)
    /\ \A n \in Nodes, t \in Threads : Holds(t, n) => n \notin S /\ n \notin nodes_to_reclaim
    /\ \A n \in Nodes, t \in Threads, u \in Threads : Holds(t, n) /\ Holds(u, n) => t = u
    /\ \A n \in allocated : data[n] # 0

(* The nodes on the stack, from the top, are s[1], ..., s[k]. *)
Linked(k, s) ==
    /\ s \in [1..k -> Nodes]
    /\ \A i, j \in 1..k : s[i] = s[j] => i = j
    /\ head = IF k = 0 THEN Null ELSE s[1]
    /\ \A i \in 1..k : next[s[i]] = IF i = k THEN Null ELSE s[i + 1]

Members(k, s) == {s[i] : i \in 1..k}

(* The node that pop dereferences and compares head with is allocated, is  *)
(* not being pushed, and every scan for it has yet to reach the thread's   *)
(* hazard pointer.                                                         *)
Protected(t) ==
    /\ old_head[t] \in allocated
    /\ pointer[owned[t][1]] = old_head[t]
    /\ \A u \in Threads : Scanning(u) /\ target[u] = old_head[t] => probe[u] <= owned[t][1]
    /\ \A u \in Threads : pc[u] \in Pushing => temp[u] # old_head[t]
    /\ pc[t] = "cas" => succ[t] = next[old_head[t]]

Published(t) ==
    /\ pc[t] = "validate" => pointer[owned[t][1]] = temp[t]
    /\ pc[t] \in {"deref", "cas"} => Protected(t)

StackInv ==
    /\ TypeOK
    /\ \A t \in Threads : Shape(t)
    /\ \E k \in 0..Cardinality(Nodes) :
           \E s \in [1..k -> Nodes] : Linked(k, s) /\ Placed(Members(k, s))
    /\ \A t \in Threads : Published(t)

-----------------------------------------------------------------------------
(* Types *)

(* The sequence of a thread's hazard pointers is empty or has one. *)
LEMMA OwnedOne ==
    ASSUME NEW q \in Seq(Slots), Len(q) <= 1
    PROVE  /\ q # << >> => Len(q) = 1 /\ q[1] \in Slots /\ SubSeq(q, 1, Len(q) - 1) = << >>
           /\ q = << >> => \A x \in Slots : Append(q, x) = <<x>>
<1>1. ASSUME q # << >> PROVE Len(q) = 1 /\ q[1] \in Slots /\ SubSeq(q, 1, Len(q) - 1) = << >>
    <2>1. Len(q) # 0
        BY <1>1, EmptySeq
    <2>2. Len(q) = 1
        BY <2>1, LenProperties
    <2>3. q[1] \in Slots
        BY <2>2, ElementOfSeq
    <2> QED BY <2>2, <2>3, SubSeqEmpty
<1>2. ASSUME q = << >>, NEW x \in Slots PROVE Append(q, x) = <<x>>
    BY <1>2
<1> QED BY <1>1, <1>2

(* Hazard pointers are numbered from 1. *)
LEMMA SlotFacts ==
    /\ 1 \in Slots /\ Slots \subseteq Nat
    /\ {0, 1} \subseteq 0..max_hazard_pointers /\ Slots \subseteq 0..max_hazard_pointers
    /\ \A x \in Slots : x # max_hazard_pointers => x + 1 \in Slots /\ x < max_hazard_pointers
    /\ \A x \in Slots : x + 1 > x
BY SlotsAssumption DEF Slots

(* Types, and whose hazard pointer is whose. *)
LEMMA TypeStep ==
    ASSUME TypeOK, \A t \in Threads : Shape(t), NEW t \in Threads, Step(t)
    PROVE  TypeOK'
<1> USE NullAssumption DEF TypeOK, HpTypeOK, hpVars, hpArray, reclaims, stackVars, locals, Goto, PCs, RPCs
<1>0. Shape(t)
    OBVIOUS
<1>1. ASSUME NEW n \in Nodes, NewNode(t, n) PROVE TypeOK'
    <2>1. /\ pushes' \in 0..MaxPushes /\ data' \in [Nodes -> 0..pushes']
        BY <1>1, BoundAssumption DEF NewNode
    <2> QED BY <1>1, <2>1 DEF NewNode
<1>2. ASSUME LinkNew(t) PROVE TypeOK'
    BY <1>2 DEF LinkNew
<1>3. ASSUME PushCas(t) PROVE TypeOK'
    BY <1>3 DEF PushCas
<1>4. ASSUME PushCasFails(t) PROVE TypeOK'
    BY <1>4 DEF PushCasFails
<1>5. ASSUME CallPop(t) PROVE TypeOK'
    <2>1. probe' \in [Threads -> 0..max_hazard_pointers]
        BY <1>5, <1>0, SlotFacts DEF Shape, Scanning, CallPop
    <2> QED BY <1>5, <2>1 DEF CallPop
<1>6. ASSUME ClaimId(t) PROVE TypeOK'
    <2>1. probe[t] \in Slots /\ owned[t] = << >> /\ owned[t] \in Seq(Slots)
        BY <1>6, <1>0 DEF ClaimId, Shape
    <2>2. owned' = [owned EXCEPT ![t] = <<probe[t]>>] /\ id' = [id EXCEPT ![probe[t]] = t]
        BY <1>6, <2>1, OwnedOne DEF ClaimId, Claim
    <2>3. owned' \in [Threads -> Seq(Slots)] /\ \A u \in Threads : Len(owned'[u]) <= 1
        BY <2>1, <2>2
    <2>4. probe' \in [Threads -> 0..max_hazard_pointers]
        BY <1>6, SlotFacts DEF ClaimId
    <2>5. \A u \in Threads : \A i \in DOMAIN owned'[u] : id'[owned'[u][i]] = u
        <3> SUFFICES ASSUME NEW u \in Threads, NEW i \in DOMAIN owned'[u] PROVE id'[owned'[u][i]] = u
            OBVIOUS
        <3>1. CASE u = t
            BY <2>1, <2>2, <3>1
        <3>2. CASE u # t
            <4>1. owned'[u] = owned[u] /\ id[owned[u][i]] = u
                BY <2>2, <3>2
            <4>2. owned[u][i] # probe[t]
                BY <1>6, <4>1 DEF ClaimId, Claim
            <4> QED BY <2>2, <4>1, <4>2
        <3> QED BY <3>1, <3>2
    <2> QED BY <1>6, <2>2, <2>3, <2>4, <2>5 DEF ClaimId, Claim
<1>7. ASSUME ClaimNext(t) PROVE TypeOK'
    <2>1. probe' \in [Threads -> 0..max_hazard_pointers]
        BY <1>7, <1>0, SlotFacts DEF Shape, Scanning, ClaimNext, ClaimMiss, ClaimFails
    <2> QED BY <1>7, <2>1 DEF ClaimNext, ClaimMiss, ClaimFails
<1>8. ASSUME ThreadExits(t) PROVE TypeOK'
    BY <1>8 DEF ThreadExits, DisownLast
<1>9. ASSUME LoadHead(t) PROVE TypeOK'
    BY <1>9 DEF LoadHead
<1>10. ASSUME Publish(t) PROVE TypeOK'
    BY <1>10 DEF Publish
<1>11. ASSUME Validate(t) PROVE TypeOK'
    BY <1>11 DEF Validate
<1>12. ASSUME Deref(t) PROVE TypeOK'
    BY <1>12, <1>0 DEF Deref, Shape
<1>13. ASSUME PopCas(t) PROVE TypeOK'
    BY <1>13 DEF PopCas
<1>14. ASSUME PopCasFails(t) PROVE TypeOK'
    BY <1>14 DEF PopCasFails
<1>15. ASSUME ClearHazard(t) PROVE TypeOK'
    <2>1. probe' \in [Threads -> 0..max_hazard_pointers]
        BY <1>15, SlotFacts DEF ClearHazard
    <2>2. pointer' \in [Slots -> Nodes \cup {Null}]
        BY <1>15 DEF ClearHazard
    <2> QED BY <1>15, <2>1, <2>2 DEF ClearHazard
<1>16. ASSUME ProbeMore(t) PROVE TypeOK'
    <2>1. probe' \in [Threads -> 0..max_hazard_pointers]
        BY <1>16, <1>0, SlotFacts DEF Shape, Scanning, ProbeMore, ProbeNext, ProbeLast, ProbeHits
    <2> QED BY <1>16, <2>1 DEF ProbeMore, ProbeNext, ProbeLast, ProbeHits
<1>17. ASSUME PopKeeps(t) PROVE TypeOK'
    <2>1. probe' \in [Threads -> 0..max_hazard_pointers]
        BY <1>17, <1>0, SlotFacts DEF Shape, Scanning, PopKeeps, ProbeHits, Reclaiming
    <2> QED BY <1>17, <2>1 DEF PopKeeps, ProbeHits, Reclaiming
<1>18. ASSUME PopDeletes(t) PROVE TypeOK'
    BY <1>18 DEF PopDeletes, ProbeClear, ProbeLast, ProbeHits
<1>19. ASSUME Dispose(t), AddToReclaimList(t) PROVE TypeOK'
    <2>1. target[t] \in Nodes
        BY <1>19, <1>0 DEF AddToReclaimList, Shape
    <2> QED BY <1>19, <2>1 DEF Dispose, AddToReclaimList, Reclaiming
<1>20. ASSUME Dispose(t), CountReclaim(t) PROVE TypeOK'
    BY <1>20 DEF Dispose, CountReclaim, Reclaiming
<1>21. ASSUME Dispose(t), ResetCount(t) PROVE TypeOK'
    BY <1>21 DEF Dispose, ResetCount, Reclaiming
<1>22. ASSUME Dispose(t), TakeList(t) PROVE TypeOK'
    BY <1>22 DEF Dispose, TakeList, Reclaiming
<1>23. ASSUME Dispose(t), NEW n \in Nodes, NextCurrent(t, n) PROVE TypeOK'
    <2>1. probe' \in [Threads -> 0..max_hazard_pointers]
        BY <1>23, SlotFacts DEF NextCurrent
    <2> QED BY <1>23, <2>1 DEF Dispose, NextCurrent, Reclaiming
<1>24. ASSUME Dispose(t), ReclaimReturns(t) PROVE TypeOK'
    BY <1>24 DEF Dispose, ReclaimReturns, Reclaiming
<1>25. ASSUME Dispose(t), ScanNext(t) PROVE TypeOK'
    <2>1. probe' \in [Threads -> 0..max_hazard_pointers]
        BY <1>25, <1>0, SlotFacts DEF Shape, Scanning, Dispose, ScanNext, ProbeNext, ProbeLast, ProbeHits
    <2> QED BY <1>25, <2>1 DEF Dispose, ScanNext, ProbeNext, ProbeLast, ProbeHits
<1>26. ASSUME Dispose(t), ScanKeeps(t) PROVE TypeOK'
    <2>1. target[t] \in Nodes
        BY <1>26, <1>0 DEF ScanKeeps, Shape
    <2>2. probe' \in [Threads -> 0..max_hazard_pointers]
        BY <1>26, SlotFacts DEF ScanKeeps
    <2> QED BY <1>26, <2>1, <2>2 DEF Dispose, ScanKeeps, ProbeHits, Reclaiming
<1>27. ASSUME Dispose(t), ScanDeletes(t) PROVE TypeOK'
    BY <1>27 DEF Dispose, ScanDeletes, ProbeClear, ProbeLast, ProbeHits, Reclaiming
<1> QED
    BY <1>1, <1>2, <1>3, <1>4, <1>5, <1>6, <1>7, <1>8, <1>9, <1>10, <1>11, <1>12, <1>13, <1>14,
       <1>15, <1>16, <1>17, <1>18, <1>19, <1>20, <1>21, <1>22, <1>23, <1>24, <1>25, <1>26, <1>27
    DEF Step, Dispose, ReclaimStep

(* What a thread has follows it through its steps. *)
LEMMA ShapeStep ==
    ASSUME TypeOK, \A t \in Threads : Shape(t), NEW t \in Threads, Step(t)
    PROVE  \A u \in Threads : Shape(u)'
<1> USE NullAssumption DEF TypeOK, HpTypeOK, Shape, Scanning, Pushing, Popping, hpVars, hpArray,
        reclaims, stackVars, locals, Goto
<1>1. ASSUME NEW n \in Nodes, NewNode(t, n) PROVE \A u \in Threads : Shape(u)'
    BY <1>1 DEF NewNode
<1>2. ASSUME LinkNew(t) PROVE \A u \in Threads : Shape(u)'
    BY <1>2 DEF LinkNew
<1>3. ASSUME PushCas(t) PROVE \A u \in Threads : Shape(u)'
    BY <1>3 DEF PushCas
<1>4. ASSUME PushCasFails(t) PROVE \A u \in Threads : Shape(u)'
    BY <1>4 DEF PushCasFails
<1>5. ASSUME CallPop(t) PROVE \A u \in Threads : Shape(u)'
    BY <1>5, SlotFacts DEF CallPop
<1>6. ASSUME ClaimId(t) PROVE \A u \in Threads : Shape(u)'
    BY <1>6 DEF ClaimId, Claim
<1>7. ASSUME ClaimNext(t) PROVE \A u \in Threads : Shape(u)'
    <2>1. CASE ClaimMiss(t)
        <3>1. probe[t] + 1 \in Slots
            BY <1>7, <2>1, SlotFacts DEF ClaimNext, ClaimMiss
        <3> QED BY <1>7, <2>1, <3>1 DEF ClaimNext, ClaimMiss, ClaimFails
    <2>2. CASE ClaimFails(t)
        BY <1>7, <2>2 DEF ClaimNext, ClaimMiss, ClaimFails
    <2> QED BY <1>7, <2>1, <2>2 DEF ClaimNext
<1>8. ASSUME ThreadExits(t) PROVE \A u \in Threads : Shape(u)'
    BY <1>8 DEF ThreadExits, DisownLast
<1>9. ASSUME LoadHead(t) PROVE \A u \in Threads : Shape(u)'
    BY <1>9 DEF LoadHead
<1>10. ASSUME Publish(t) PROVE \A u \in Threads : Shape(u)'
    BY <1>10 DEF Publish
<1>11. ASSUME Validate(t) PROVE \A u \in Threads : Shape(u)'
    BY <1>11 DEF Validate
<1>12. ASSUME Deref(t) PROVE \A u \in Threads : Shape(u)'
    BY <1>12 DEF Deref
<1>13. ASSUME PopCas(t) PROVE \A u \in Threads : Shape(u)'
    BY <1>13 DEF PopCas
<1>14. ASSUME PopCasFails(t) PROVE \A u \in Threads : Shape(u)'
    BY <1>14 DEF PopCasFails
<1>15. ASSUME ClearHazard(t) PROVE \A u \in Threads : Shape(u)'
    BY <1>15, SlotFacts DEF ClearHazard
<1>16. ASSUME ProbeMore(t) PROVE \A u \in Threads : Shape(u)'
    BY <1>16, SlotFacts DEF ProbeMore, ProbeNext, ProbeLast, ProbeHits
<1>17. ASSUME PopKeeps(t) PROVE \A u \in Threads : Shape(u)'
    BY <1>17 DEF PopKeeps, ProbeHits, Reclaiming
<1>18. ASSUME PopDeletes(t) PROVE \A u \in Threads : Shape(u)'
    BY <1>18 DEF PopDeletes, ProbeClear, ProbeLast, ProbeHits
<1>19. ASSUME Dispose(t), AddToReclaimList(t) PROVE \A u \in Threads : Shape(u)'
    BY <1>19 DEF Dispose, AddToReclaimList, Reclaiming
<1>20. ASSUME Dispose(t), CountReclaim(t) PROVE \A u \in Threads : Shape(u)'
    BY <1>20 DEF Dispose, CountReclaim, Reclaiming
<1>21. ASSUME Dispose(t), ResetCount(t) PROVE \A u \in Threads : Shape(u)'
    BY <1>21 DEF Dispose, ResetCount, Reclaiming
<1>22. ASSUME Dispose(t), TakeList(t) PROVE \A u \in Threads : Shape(u)'
    BY <1>22 DEF Dispose, TakeList, Reclaiming
<1>23. ASSUME Dispose(t), NEW n \in Nodes, NextCurrent(t, n) PROVE \A u \in Threads : Shape(u)'
    BY <1>23, SlotFacts DEF Dispose, NextCurrent, Reclaiming
<1>24. ASSUME Dispose(t), ReclaimReturns(t) PROVE \A u \in Threads : Shape(u)'
    BY <1>24 DEF Dispose, ReclaimReturns, Reclaiming
<1>25. ASSUME Dispose(t), ScanNext(t) PROVE \A u \in Threads : Shape(u)'
    BY <1>25, SlotFacts DEF Dispose, ScanNext, ProbeNext, ProbeLast, ProbeHits
<1>26. ASSUME Dispose(t), ScanKeeps(t) PROVE \A u \in Threads : Shape(u)'
    BY <1>26 DEF Dispose, ScanKeeps, ProbeHits, Reclaiming
<1>27. ASSUME Dispose(t), ScanDeletes(t) PROVE \A u \in Threads : Shape(u)'
    BY <1>27 DEF Dispose, ScanDeletes, ProbeClear, ProbeLast, ProbeHits, Reclaiming
<1> QED
    BY <1>1, <1>2, <1>3, <1>4, <1>5, <1>6, <1>7, <1>8, <1>9, <1>10, <1>11, <1>12, <1>13, <1>14,
       <1>15, <1>16, <1>17, <1>18, <1>19, <1>20, <1>21, <1>22, <1>23, <1>24, <1>25, <1>26, <1>27
    DEF Step, Dispose, ReclaimStep

-----------------------------------------------------------------------------
(* Hazard pointers *)

(* Two threads have different hazard pointers. *)
LEMMA OwnSlots ==
    ASSUME TypeOK, NEW t \in Threads, owned[t] # << >>
    PROVE  /\ owned[t][1] \in Slots
           /\ \A u \in Threads : u # t /\ owned[u] # << >> => owned[u][1] # owned[t][1]
<1>1. \A u \in Threads : owned[u] # << >> => /\ Len(owned[u]) = 1 /\ owned[u][1] \in Slots
                                             /\ id[owned[u][1]] = u
    <2> SUFFICES ASSUME NEW u \in Threads, owned[u] # << >>
                 PROVE  Len(owned[u]) = 1 /\ owned[u][1] \in Slots /\ id[owned[u][1]] = u
        OBVIOUS
    <2>1. Len(owned[u]) = 1 /\ owned[u][1] \in Slots
        BY OwnedOne DEF TypeOK, HpTypeOK
    <2>2. 1 \in DOMAIN owned[u]
        BY <2>1, LenProperties DEF TypeOK, HpTypeOK
    <2> QED BY <2>1, <2>2 DEF TypeOK, HpTypeOK
<1> QED BY <1>1

(* No step takes the node from under a pop that has validated it. *)
LEMMA PublishedStep ==
    ASSUME TypeOK, \A t \in Threads : Shape(t), \A t \in Threads : Published(t),
           NEW S, Placed(S), head \in S \cup {Null}, NEW t \in Threads, Step(t), NEW u \in Threads
    PROVE  Published(u)'
<1> USE NullAssumption DEF Published, Protected, Shape, Scanning, Pushing, Popping, hpVars, hpArray,
        reclaims, stackVars, locals, Goto
<1>0. /\ owned[t] # << >> => owned[t][1] \in Slots
      /\ owned[u] # << >> => owned[u][1] \in Slots
      /\ u # t /\ owned[u] # << >> /\ owned[t] # << >> => owned[u][1] # owned[t][1]
    BY OwnSlots
<1> USE <1>0 DEF TypeOK, HpTypeOK
<1>1. ASSUME NEW n \in Nodes, NewNode(t, n) PROVE Published(u)'
    BY <1>1 DEF NewNode
<1>2. ASSUME LinkNew(t) PROVE Published(u)'
    BY <1>2 DEF LinkNew
<1>3. ASSUME PushCas(t) PROVE Published(u)'
    BY <1>3 DEF PushCas
<1>4. ASSUME PushCasFails(t) PROVE Published(u)'
    BY <1>4 DEF PushCasFails
<1>5. ASSUME CallPop(t) PROVE Published(u)'
    <2>1. ~Scanning(t)' /\ \A v \in Threads : v # t => probe'[v] = probe[v] /\ pc'[v] = pc[v]
        BY <1>5, ZenonT(60) DEF CallPop
    <2>2. pc'[t] \in {"claim", "load"}
        BY <1>5 DEF CallPop
    <2>3. UNCHANGED <<pointer, owned, rpc, target, allocated, next, old_head, temp, succ>>
        BY <1>5 DEF CallPop
    <2>4. CASE u = t
        BY <2>2, <2>4
    <2>5. CASE u # t
        <3>1. ~Scanning(t)' /\ ~pc'[t] \in Pushing
            BY <2>1, <2>2
        <3>2. \A v \in Threads : /\ Scanning(v)' => Scanning(v) /\ probe'[v] = probe[v]
                                 /\ pc'[v] \in Pushing => pc[v] \in Pushing
            BY <2>1, <2>3, <3>1
        <3> QED BY <2>1, <2>3, <2>5, <3>2
    <2> QED BY <2>4, <2>5
<1>6. ASSUME ClaimId(t) PROVE Published(u)'
    BY <1>6, ZenonT(60) DEF ClaimId, Claim
<1>7. ASSUME ClaimNext(t) PROVE Published(u)'
    <2>1. ~Scanning(t)' /\ \A v \in Threads : v # t => probe'[v] = probe[v]
        BY <1>7, ZenonT(60) DEF ClaimNext, ClaimMiss, ClaimFails
    <2> QED BY <1>7, <2>1 DEF ClaimNext, ClaimMiss, ClaimFails
<1>8. ASSUME ThreadExits(t) PROVE Published(u)'
    BY <1>8 DEF ThreadExits, DisownLast
<1>9. ASSUME LoadHead(t) PROVE Published(u)'
    BY <1>9 DEF LoadHead
<1>10. ASSUME Publish(t) PROVE Published(u)'
    BY <1>10 DEF Publish
<1>11. ASSUME Validate(t) PROVE Published(u)'
    <2>1. CASE u # t
        BY <1>11, <2>1 DEF Validate
    <2>2. CASE u = t /\ pc'[t] = "deref"
        <3>1. head \in S /\ head \in allocated
            BY <1>11, <2>2 DEF Validate, Placed
        <3>2. \A v \in Threads : ~Holds(v, head)
            BY <3>1 DEF Placed
        <3> QED BY <1>11, <2>2, <3>1, <3>2 DEF Validate, Holds
    <2>3. CASE u = t /\ pc'[t] # "deref"
        BY <1>11, <2>3 DEF Validate
    <2> QED BY <2>1, <2>2, <2>3
<1>12. ASSUME Deref(t) PROVE Published(u)'
    BY <1>12 DEF Deref
<1>13. ASSUME PopCas(t) PROVE Published(u)'
    BY <1>13 DEF PopCas
<1>14. ASSUME PopCasFails(t) PROVE Published(u)'
    BY <1>14 DEF PopCasFails
<1>15. ASSUME ClearHazard(t) PROVE Published(u)'
    <2>1. owned[u] # << >> => 1 <= owned[u][1]
        BY DEF Slots
    <2>2. \A v \in Threads : v # t => probe'[v] = probe[v] /\ target'[v] = target[v] /\ pc'[v] = pc[v]
        BY <1>15 DEF ClearHazard
    <2>3. Scanning(t)' => probe'[t] = 1
        BY <1>15 DEF ClearHazard
    <2> QED BY <1>15, <2>1, <2>2, <2>3 DEF ClearHazard
<1>16. ASSUME ProbeMore(t) PROVE Published(u)'
    <2>1. pc[u] \in {"deref", "cas"} /\ target[t] = old_head[u] =>
              probe[t] <= owned[u][1] /\ probe[t] # owned[u][1]
        BY <1>16 DEF ProbeMore, ProbeNext, ProbeLast, ProbeHits
    <2>2. pc[u] \in {"deref", "cas"} /\ target[t] = old_head[u] => probe'[t] <= owned[u][1]
        <3>1. probe'[t] = probe[t] + 1 /\ probe[t] \in Nat
            BY <1>16, SlotFacts DEF ProbeMore, ProbeNext, ProbeLast, ProbeHits
        <3>2. pc[u] \in {"deref", "cas"} => owned[u][1] \in Nat
            BY SlotFacts
        <3> QED BY <2>1, <3>1, <3>2
    <2> QED BY <1>16, <2>2 DEF ProbeMore, ProbeNext, ProbeLast, ProbeHits
<1>17. ASSUME PopKeeps(t) PROVE Published(u)'
    BY <1>17 DEF PopKeeps, ProbeHits, Reclaiming
<1>18. ASSUME PopDeletes(t) PROVE Published(u)'
    <2>1. pc[u] \in {"deref", "cas"} /\ target[t] = old_head[u] =>
              probe[t] <= owned[u][1] /\ probe[t] # owned[u][1]
        BY <1>18 DEF PopDeletes, ProbeClear, ProbeLast, ProbeHits
    <2>2. pc[u] \in {"deref", "cas"} => target[t] # old_head[u]
        BY <1>18, <2>1, SlotFacts, SlotsAssumption DEF PopDeletes, ProbeClear, ProbeLast, ProbeHits, Slots
    <2> QED BY <1>18, <2>2 DEF PopDeletes, ProbeClear, ProbeLast, ProbeHits
<1>19. ASSUME Dispose(t), AddToReclaimList(t) PROVE Published(u)'
    BY <1>19 DEF Dispose, AddToReclaimList, Reclaiming
<1>20. ASSUME Dispose(t), CountReclaim(t) PROVE Published(u)'
    BY <1>20 DEF Dispose, CountReclaim, Reclaiming
<1>21. ASSUME Dispose(t), ResetCount(t) PROVE Published(u)'
    BY <1>21 DEF Dispose, ResetCount, Reclaiming
<1>22. ASSUME Dispose(t), TakeList(t) PROVE Published(u)'
    BY <1>22 DEF Dispose, TakeList, Reclaiming
<1>23. ASSUME Dispose(t), NEW n \in Nodes, NextCurrent(t, n) PROVE Published(u)'
    <2>1. owned[u] # << >> => 1 <= owned[u][1]
        BY DEF Slots
    <2> QED BY <1>23, <2>1 DEF Dispose, NextCurrent, Reclaiming
<1>24. ASSUME Dispose(t), ReclaimReturns(t) PROVE Published(u)'
    BY <1>24 DEF Dispose, ReclaimReturns, Reclaiming
<1>25. ASSUME Dispose(t), ScanNext(t) PROVE Published(u)'
    <2>1. pc[u] \in {"deref", "cas"} /\ target[t] = old_head[u] =>
              probe[t] <= owned[u][1] /\ probe[t] # owned[u][1]
        BY <1>25 DEF Dispose, ScanNext, ProbeNext, ProbeLast, ProbeHits
    <2>2. pc[u] \in {"deref", "cas"} /\ target[t] = old_head[u] => probe'[t] <= owned[u][1]
        <3>1. probe'[t] = probe[t] + 1 /\ probe[t] \in Nat
            BY <1>25, SlotFacts DEF Dispose, ScanNext, ProbeNext, ProbeLast, ProbeHits
        <3>2. pc[u] \in {"deref", "cas"} => owned[u][1] \in Nat
            BY SlotFacts
        <3> QED BY <2>1, <3>1, <3>2
    <2> QED BY <1>25, <2>2 DEF Dispose, ScanNext, ProbeNext, ProbeLast, ProbeHits
<1>26. ASSUME Dispose(t), ScanKeeps(t) PROVE Published(u)'
    BY <1>26 DEF Dispose, ScanKeeps, ProbeHits, Reclaiming
<1>27. ASSUME Dispose(t), ScanDeletes(t) PROVE Published(u)'
    <2>1. pc[u] \in {"deref", "cas"} /\ target[t] = old_head[u] =>
              probe[t] <= owned[u][1] /\ probe[t] # owned[u][1]
        BY <1>27 DEF Dispose, ScanDeletes, ProbeClear, ProbeLast, ProbeHits, Reclaiming
    <2>2. pc[u] \in {"deref", "cas"} => target[t] # old_head[u]
        BY <1>27, <2>1, SlotFacts, SlotsAssumption
        DEF Dispose, ScanDeletes, ProbeClear, ProbeLast, ProbeHits, Reclaiming, Slots
    <2> QED BY <1>27, <2>2 DEF Dispose, ScanDeletes, ProbeClear, ProbeLast, ProbeHits, Reclaiming
<1> QED
    BY <1>1, <1>2, <1>3, <1>4, <1>5, <1>6, <1>7, <1>8, <1>9, <1>10, <1>11, <1>12, <1>13, <1>14,
       <1>15, <1>16, <1>17, <1>18, <1>19, <1>20, <1>21, <1>22, <1>23, <1>24, <1>25, <1>26, <1>27
    DEF Step, Dispose, ReclaimStep

-----------------------------------------------------------------------------
(* Places *)

(* A thread's step leaves what the others have. *)
LEMMA OthersStay ==
    ASSUME TypeOK, NEW t \in Threads, Step(t), NEW u \in Threads, u # t
    PROVE  /\ pc'[u] = pc[u] /\ temp'[u] = temp[u] /\ old_head'[u] = old_head[u]
           /\ target'[u] = target[u] /\ batch'[u] = batch[u]
BY DEF TypeOK, HpTypeOK, Step, Goto, hpVars, hpArray, reclaims, stackVars, locals,
       NewNode, LinkNew, PushCas, PushCasFails, CallPop, ClaimId, Claim, ClaimNext, ThreadExits,
       LoadHead, Publish, Validate, Deref, PopCas, PopCasFails, ClearHazard, ProbeMore, PopKeeps,
       PopDeletes, Dispose, ReclaimStep, AddToReclaimList, CountReclaim, ResetCount, TakeList,
       NextCurrent, ReclaimReturns, ScanNext, ScanKeeps, ScanDeletes

(* So the other threads keep the nodes they have. *)
LEMMA OthersKeep ==
    ASSUME TypeOK, NEW t \in Threads, Step(t), NEW u \in Threads, u # t, NEW n
    PROVE  Holds(u, n)' <=> Holds(u, n)
BY OthersStay DEF Holds

(* Node n as a step of t leaves it, when the stack goes from S to S2: at   *)
(* its place, or at the place it gets, given that no other thread had it.  *)
Moved(S, S2, t, n) ==
    \/ /\ n \in S2 <=> n \in S
       /\ n \in nodes_to_reclaim' <=> n \in nodes_to_reclaim
       /\ Holds(t, n)' <=> Holds(t, n)
       /\ n \in allocated' <=> n \in allocated
    \/ /\ n \in allocated => n \in S \/ n \in nodes_to_reclaim \/ Holds(t, n)
       /\ n \in allocated' <=> n \in S2 \/ n \in nodes_to_reclaim' \/ Holds(t, n)'
       /\ n \in S2 => n \notin nodes_to_reclaim' /\ ~Holds(t, n)'
       /\ n \in nodes_to_reclaim' => ~Holds(t, n)'

(* Each node stays where it is, or goes from one place to another, or is   *)
(* allocated, or is deleted: they still have one place each.               *)
LEMMA PlacedMove ==
    ASSUME TypeOK, NEW S, NEW S2, NEW t \in Threads, Step(t), Placed(S), S2 \subseteq Nodes,
           \A n \in allocated' : data'[n] # 0,
           \A n \in Nodes : Moved(S, S2, t, n)
    PROVE  Placed(S2)'
<1>1. \A u \in Threads, n \in Nodes : u # t => (Holds(u, n)' <=> Holds(u, n))
    BY OthersKeep
<1>2. ASSUME NEW n \in Nodes
      PROVE  /\ n \in allocated' <=> \/ n \in S2 \/ n \in nodes_to_reclaim'
                                      \/ \E u \in Threads : Holds(u, n)'
             /\ ~(n \in S2 /\ n \in nodes_to_reclaim')
             /\ \A u \in Threads : Holds(u, n)' => n \notin S2 /\ n \notin nodes_to_reclaim'
             /\ \A u, v \in Threads : Holds(u, n)' /\ Holds(v, n)' => u = v
    BY <1>1 DEF Placed, Moved
<1> QED BY <1>2 DEF Placed

(* These steps hand no node on. *)
LEMMA PlacesKept ==
    ASSUME TypeOK, \A u \in Threads : Shape(u), NEW t \in Threads, Step(t),
           ~(\E n \in Nodes : NewNode(t, n)), ~PushCas(t), ~PopCas(t), ~PopDeletes(t), 
           ~AddToReclaimList(t), ~TakeList(t), ~ScanKeeps(t), ~ScanDeletes(t)
    PROVE  /\ \A n \in Nodes : Holds(t, n)' <=> Holds(t, n)
           /\ UNCHANGED <<nodes_to_reclaim, allocated, data>>
<1> DEFINE Kept == /\ \A n \in Nodes : Holds(t, n)' <=> Holds(t, n)
                   /\ UNCHANGED <<nodes_to_reclaim, allocated, data>>
<1> USE NullAssumption DEF Shape, Scanning, Pushing, Holds, hpVars, hpArray,
        reclaims, stackVars, locals, Goto, TypeOK, HpTypeOK
<1>1. ASSUME LinkNew(t) PROVE Kept
    BY <1>1 DEF LinkNew
<1>2. ASSUME PushCasFails(t) PROVE Kept
    BY <1>2 DEF PushCasFails
<1>3. ASSUME CallPop(t) PROVE Kept
    BY <1>3 DEF CallPop
<1>4. ASSUME ClaimId(t) PROVE Kept
    BY <1>4 DEF ClaimId, Claim
<1>5. ASSUME ClaimNext(t) PROVE Kept
    BY <1>5 DEF ClaimNext, ClaimMiss, ClaimFails
<1>6. ASSUME ThreadExits(t) PROVE Kept
    BY <1>6 DEF ThreadExits, DisownLast
<1>7. ASSUME LoadHead(t) PROVE Kept
    BY <1>7 DEF LoadHead
<1>8. ASSUME Publish(t) PROVE Kept
    BY <1>8 DEF Publish
<1>9. ASSUME Validate(t) PROVE Kept
    BY <1>9 DEF Validate
<1>10. ASSUME Deref(t) PROVE Kept
    BY <1>10 DEF Deref
<1>11. ASSUME PopCasFails(t) PROVE Kept
    BY <1>11 DEF PopCasFails
<1>12. ASSUME ClearHazard(t) PROVE Kept
    BY <1>12, ZenonT(60) DEF ClearHazard
<1>13. ASSUME ProbeMore(t) PROVE Kept
    BY <1>13 DEF ProbeMore, ProbeNext, ProbeLast, ProbeHits
<1>14. ASSUME PopKeeps(t) PROVE Kept
    BY <1>14 DEF PopKeeps, ProbeHits, Reclaiming
<1>15. ASSUME Dispose(t), CountReclaim(t) PROVE Kept
    BY <1>15 DEF Dispose, CountReclaim, Reclaiming
<1>16. ASSUME Dispose(t), ResetCount(t) PROVE Kept
    BY <1>16 DEF Dispose, ResetCount, Reclaiming
<1>17. ASSUME Dispose(t), NEW n \in Nodes, NextCurrent(t, n) PROVE Kept
    BY <1>17 DEF Dispose, NextCurrent, Reclaiming
<1>18. ASSUME Dispose(t), ReclaimReturns(t) PROVE Kept
    BY <1>18 DEF Dispose, ReclaimReturns, Reclaiming
<1>19. ASSUME Dispose(t), ScanNext(t) PROVE Kept
    BY <1>19 DEF Dispose, ScanNext, ProbeNext, ProbeLast, ProbeHits
<1> QED
    BY <1>1, <1>2, <1>3, <1>4, <1>5, <1>6, <1>7, <1>8, <1>9, <1>10, <1>11, <1>12, <1>13,
       <1>14, <1>15, <1>16, <1>17, <1>18, <1>19 DEF Step, Dispose, ReclaimStep

(* Only push's and pop's compare_exchange change what is on the stack, and *)
(* every step hands nodes from one place to one other.                     *)
LEMMA PlacedStep ==
    ASSUME TypeOK, \A u \in Threads : Shape(u), NEW S, Placed(S), NEW t \in Threads, Step(t),
           NEW S2, PushCas(t) => S2 = S \cup {temp[t]},
           PopCas(t) => S2 = S \ {old_head[t]} /\ old_head[t] \in S,
           ~PushCas(t) /\ ~PopCas(t) => S2 = S
    PROVE  Placed(S2)'
<1> USE NullAssumption DEF Goto, TypeOK, HpTypeOK
<1>0. /\ Shape(t) /\ S2 \subseteq Nodes /\ S \subseteq Nodes
      /\ \A n \in allocated : data[n] # 0
    BY DEF Placed, Shape, PushCas, Pushing
<1>1. ASSUME NEW n \in Nodes, NewNode(t, n) PROVE Placed(S2)'
    <2>1. /\ n \notin allocated /\ allocated' = allocated \cup {n} /\ data' = [data EXCEPT ![n] = pushes + 1]
          /\ nodes_to_reclaim' = nodes_to_reclaim /\ S2 = S
        BY <1>1 DEF NewNode, PushCas, PopCas, reclaims
    <2>2. \A m \in Nodes : Holds(t, m)' <=> (Holds(t, m) \/ m = n)
        BY <1>0, <1>1 DEF NewNode, Holds, Shape, Scanning, Pushing, reclaims
    <2>3. \A m \in allocated' : data'[m] # 0
        BY <1>0, <2>1
    <2>4. ~Holds(t, n) /\ n \notin S /\ n \notin nodes_to_reclaim
        BY <2>1 DEF Placed
    <2>5. ASSUME NEW m \in Nodes, m # n PROVE Moved(S, S2, t, m)
        BY <1>0, <2>1, <2>2, <2>4, <2>5 DEF Moved
    <2>6. Moved(S, S2, t, n)
        BY <1>0, <2>1, <2>2, <2>4 DEF Moved
    <2>7. \A m \in Nodes : Moved(S, S2, t, m)
        BY <2>5, <2>6
    <2> QED BY <1>0, <2>3, <2>7, PlacedMove
<1>2. ASSUME PushCas(t) PROVE Placed(S2)'
    <2>1. UNCHANGED <<nodes_to_reclaim, allocated, data>> /\ S2 = S \cup {temp[t]}
        BY <1>2 DEF PushCas, hpVars, reclaims
    <2>2. Holds(t, temp[t]) /\ \A m \in Nodes : Holds(t, m)' <=> (Holds(t, m) /\ m # temp[t])
        BY <1>0, <1>2 DEF PushCas, Holds, Shape, Scanning, Pushing, hpVars, reclaims
    <2>3. temp[t] \in allocated /\ temp[t] \notin nodes_to_reclaim
        BY <1>0, <1>2, <2>2 DEF Placed, PushCas, Shape, Pushing
    <2>4. ASSUME NEW m \in Nodes, m # temp[t] PROVE Moved(S, S2, t, m)
        BY <1>0, <2>1, <2>2, <2>3, <2>4 DEF Moved
    <2>5. ASSUME NEW m \in Nodes, m = temp[t] PROVE Moved(S, S2, t, m)
        BY <1>0, <2>1, <2>2, <2>3, <2>5 DEF Moved
    <2>6. \A m \in Nodes : Moved(S, S2, t, m)
        BY <2>4, <2>5
    <2> QED BY <1>0, <2>1, <2>6, PlacedMove
<1>3. ASSUME PopCas(t) PROVE Placed(S2)'
    <2>1. /\ UNCHANGED <<nodes_to_reclaim, allocated, data>>
          /\ S2 = S \ {old_head[t]} /\ old_head[t] \in S
        BY <1>3 DEF PopCas, hpVars, reclaims
    <2>2. \A m \in Nodes : Holds(t, m)' <=> (Holds(t, m) \/ m = old_head[t])
        BY <1>0, <1>3 DEF PopCas, Holds, Shape, Scanning, Pushing, hpVars, reclaims
    <2>3. old_head[t] \in allocated /\ old_head[t] \notin nodes_to_reclaim
        BY <1>0, <2>1 DEF Placed
    <2> QED BY <1>0, <2>1, <2>2, <2>3, PlacedMove, ZenonT(60) DEF Moved
<1>4. ASSUME PopDeletes(t) PROVE Placed(S2)'
    <2>1. /\ UNCHANGED <<nodes_to_reclaim, data>> /\ S2 = S /\ allocated' = allocated \ {target[t]}
        BY <1>4 DEF PopDeletes, stackVars, PushCas, PopCas
    <2>2. Holds(t, target[t]) /\ \A m \in Nodes : Holds(t, m)' <=> (Holds(t, m) /\ m # target[t])
        BY <1>0, <1>4 DEF PopDeletes, Holds, Shape, Scanning, Pushing, locals
    <2>3. target[t] \notin S /\ target[t] \notin nodes_to_reclaim
        BY <1>0, <1>4, <2>2 DEF Placed, PopDeletes, Shape
    <2> QED BY <1>0, <2>1, <2>2, <2>3, PlacedMove, ZenonT(60) DEF Moved
<1>5. ASSUME Dispose(t), ScanDeletes(t) PROVE Placed(S2)'
    <2>1. /\ UNCHANGED <<nodes_to_reclaim, data>> /\ S2 = S /\ allocated' = allocated \ {target[t]}
        BY <1>5 DEF Dispose, ScanDeletes, stackVars, PushCas, PopCas
    <2>2. Holds(t, target[t]) /\ \A m \in Nodes : Holds(t, m)' <=> (Holds(t, m) /\ m # target[t])
        BY <1>0, <1>5 DEF Dispose, ScanDeletes, Reclaiming, Holds, Shape, Scanning, Pushing, locals
    <2>3. target[t] \notin S /\ target[t] \notin nodes_to_reclaim
        BY <1>0, <1>5, <2>2 DEF Placed, ScanDeletes, Shape
    <2> QED BY <1>0, <2>1, <2>2, <2>3, PlacedMove, ZenonT(60) DEF Moved
<1>6. ASSUME Dispose(t), AddToReclaimList(t) \/ ScanKeeps(t) PROVE Placed(S2)'
    <2>1. /\ UNCHANGED <<allocated, data>> /\ S2 = S
          /\ nodes_to_reclaim' = nodes_to_reclaim \cup {target[t]}
        BY <1>6 DEF Dispose, AddToReclaimList, ScanKeeps, stackVars, PushCas, PopCas
    <2>2. Holds(t, target[t]) /\ \A m \in Nodes : Holds(t, m)' <=> (Holds(t, m) /\ m # target[t])
        BY <1>0, <1>6 DEF Dispose, AddToReclaimList, ScanKeeps, Reclaiming, Holds, Shape, Scanning,
                          Pushing, locals
    <2>3. target[t] \notin S /\ target[t] \in allocated
        BY <1>0, <1>6, <2>2 DEF Placed, AddToReclaimList, ScanKeeps, Shape
    <2>4. ASSUME NEW m \in Nodes, m # target[t] PROVE Moved(S, S2, t, m)
        BY <1>0, <2>1, <2>2, <2>3, <2>4 DEF Moved
    <2>5. ASSUME NEW m \in Nodes, m = target[t] PROVE Moved(S, S2, t, m)
        BY <1>0, <2>1, <2>2, <2>3, <2>5 DEF Moved
    <2>6. \A m \in Nodes : Moved(S, S2, t, m)
        BY <2>4, <2>5
    <2> QED BY <1>0, <2>1, <2>6, PlacedMove
<1>7. ASSUME Dispose(t), TakeList(t) PROVE Placed(S2)'
    <2>1. UNCHANGED <<allocated, data>> /\ S2 = S /\ nodes_to_reclaim' = {}
        BY <1>7 DEF Dispose, TakeList, stackVars, PushCas, PopCas
    <2>2. \A m \in Nodes : Holds(t, m)' <=> (Holds(t, m) \/ m \in nodes_to_reclaim)
        BY <1>0, <1>7 DEF Dispose, TakeList, Reclaiming, Holds, Shape, Scanning, Pushing, locals
    <2>3. \A m \in nodes_to_reclaim : m \notin S /\ m \in allocated
        BY DEF Placed
    <2> QED BY <1>0, <2>1, <2>2, <2>3, PlacedMove DEF Moved
<1>8. CASE /\ ~(\E n \in Nodes : NewNode(t, n)) /\ ~PushCas(t) /\ ~PopCas(t) /\ ~PopDeletes(t)
           /\ ~AddToReclaimList(t) /\ ~TakeList(t) /\ ~ScanKeeps(t) /\ ~ScanDeletes(t)
    <2>1. /\ \A n \in Nodes : Holds(t, n)' <=> Holds(t, n)
          /\ UNCHANGED <<nodes_to_reclaim, allocated, data>>
        BY <1>8, PlacesKept
    <2> QED BY <1>0, <1>8, <2>1, PlacedMove DEF Moved
<1>9. AddToReclaimList(t) \/ TakeList(t) \/ ScanKeeps(t) \/ ScanDeletes(t) => Dispose(t)
    <2>1. ASSUME rpc[t] # "none" PROVE pc[t] = "dispose"
        BY <1>0, <2>1 DEF Shape
    <2>2. AddToReclaimList(t) \/ TakeList(t) \/ ScanKeeps(t) \/ ScanDeletes(t) => rpc[t] # "none"
        BY DEF AddToReclaimList, TakeList, ScanKeeps, ScanDeletes
    <2>3. ASSUME pc[t] = "dispose" PROVE Dispose(t)
        BY <2>3 DEF Step, NewNode, LinkNew, PushCas, PushCasFails, CallPop, ClaimId, ClaimNext,
                    ThreadExits, LoadHead, Publish, Validate, Deref, PopCas, PopCasFails, ClearHazard,
                    ProbeMore, PopKeeps, PopDeletes
    <2> QED BY <2>1, <2>2, <2>3
<1> QED BY <1>1, <1>2, <1>3, <1>4, <1>5, <1>6, <1>7, <1>8, <1>9

-----------------------------------------------------------------------------
(* Links *)

(* There are no more nodes on the stack than addresses. *)
LEMMA StackFits ==
    ASSUME NEW k \in Nat, NEW s \in [1..k -> Nodes], \A i, j \in 1..k : s[i] = s[j] => i = j
    PROVE  k \in 0..Cardinality(Nodes)
<1>1. s \in Injection(1..k, Nodes)
    BY DEF Injection, IsInjective
<1>2. Cardinality(1..k) <= Cardinality(Nodes) /\ Cardinality(Nodes) \in Nat
    BY <1>1, BoundAssumption, FS_Injection, FS_CardinalityType
<1>3. Cardinality(1..k) = k
    BY FS_Interval
<1> QED BY <1>2, <1>3

(* push's compare_exchange puts the new node on top. *)
LEMMA PushLinked ==
    ASSUME TypeOK, NEW t \in Threads, Shape(t), NEW k \in Nat, NEW s, Linked(k, s),
           Placed(Members(k, s)), PushCas(t),
           NEW r, r = [i \in 1..(k + 1) |-> IF i = 1 THEN temp[t] ELSE s[i - 1]]
    PROVE  Linked(k + 1, r)' /\ Members(k + 1, r) = Members(k, s) \cup {temp[t]}
<1>1. /\ temp[t] \in Nodes /\ head' = temp[t] /\ next' = next /\ next[temp[t]] = head
      /\ s \in [1..k -> Nodes] /\ \A i, j \in 1..k : s[i] = s[j] => i = j
      /\ head = IF k = 0 THEN Null ELSE s[1]
      /\ \A i \in 1..k : next[s[i]] = IF i = k THEN Null ELSE s[i + 1]
    BY DEF PushCas, Shape, Pushing, Linked
<1>2. \A i \in 1..k : s[i] # temp[t]
    BY <1>1 DEF Placed, Members, Holds, PushCas, Pushing
<1>3. /\ r[1] = temp[t] /\ \A i \in 1..k : r[i + 1] = s[i]
      /\ \A i \in 1..(k + 1) : i # 1 => i - 1 \in 1..k /\ r[i] = s[i - 1]
    OBVIOUS
<1>4. r \in [1..(k + 1) -> Nodes] /\ \A i, j \in 1..(k + 1) : r[i] = r[j] => i = j
    BY <1>1, <1>2, <1>3
<1>5. \A i \in 1..(k + 1) : next[r[i]] = IF i = k + 1 THEN Null ELSE r[i + 1]
    <2>1. CASE k = 0
        BY <1>1, <1>3, <2>1
    <2>2. CASE k # 0
        BY <1>1, <1>3, <2>2
    <2> QED BY <2>1, <2>2
<1>6. Members(k + 1, r) = Members(k, s) \cup {temp[t]}
    BY <1>3 DEF Members
<1> QED BY <1>1, <1>3, <1>4, <1>5, <1>6 DEF Linked

(* pop's compare_exchange takes the top off: succ is still its successor. *)
LEMMA PopLinked ==
    ASSUME TypeOK, NEW t \in Threads, Shape(t), Published(t), NEW k \in Nat, NEW s, Linked(k, s),
           PopCas(t), NEW r, r = [i \in 1..(k - 1) |-> s[i + 1]]
    PROVE  /\ k # 0 /\ old_head[t] = s[1] /\ Linked(k - 1, r)'
           /\ Members(k - 1, r) = Members(k, s) \ {old_head[t]} /\ old_head[t] \in Members(k, s)
<1>1. /\ old_head[t] \in Nodes /\ head = old_head[t] /\ next' = next
      /\ head' = next[old_head[t]]
      /\ s \in [1..k -> Nodes] /\ \A i, j \in 1..k : s[i] = s[j] => i = j
      /\ head = IF k = 0 THEN Null ELSE s[1]
      /\ \A i \in 1..k : next[s[i]] = IF i = k THEN Null ELSE s[i + 1]
    BY DEF PopCas, Shape, Published, Protected, Linked
<1>2. k # 0 /\ old_head[t] = s[1]
    BY <1>1, NullAssumption
<1>3. \A i \in 1..(k - 1) : i + 1 \in 1..k /\ r[i] = s[i + 1]
    BY <1>2
<1>4. r \in [1..(k - 1) -> Nodes] /\ \A i, j \in 1..(k - 1) : r[i] = r[j] => i = j
    BY <1>1, <1>3
<1>5. \A i \in 1..(k - 1) : next[r[i]] = IF i = k - 1 THEN Null ELSE r[i + 1]
    BY <1>1, <1>2, <1>3
<1>6. head' = IF k - 1 = 0 THEN Null ELSE r[1]
    BY <1>1, <1>2, <1>3
<1>7. Members(k - 1, r) = Members(k, s) \ {s[1]} /\ s[1] \in Members(k, s)
    <2>1. \A i \in 1..k : i # 1 => i - 1 \in 1..(k - 1) /\ s[i] = r[i - 1]
        BY <1>2, <1>3
    <2>2. \A i \in 1..(k - 1) : r[i] \in Members(k, s) /\ r[i] # s[1]
        BY <1>1, <1>2, <1>3 DEF Members
    <2>3. \A i \in 1..k : s[i] # s[1] => s[i] \in Members(k - 1, r)
        BY <2>1 DEF Members
    <2>4. s[1] \in Members(k, s)
        BY <1>2 DEF Members
    <2>5. \A x \in Members(k - 1, r) : x \in Members(k, s) /\ x # s[1]
        BY <2>2 DEF Members
    <2>6. \A x \in Members(k, s) : x # s[1] => x \in Members(k - 1, r)
        BY <2>3 DEF Members
    <2> QED BY <2>4, <2>5, <2>6
<1> QED BY <1>1, <1>2, <1>4, <1>5, <1>6, <1>7 DEF Linked

(* No other step changes the links of the stack. *)
LEMMA StayLinked ==
    ASSUME TypeOK, \A u \in Threads : Shape(u), NEW t \in Threads, Step(t), ~PushCas(t), ~PopCas(t),
           NEW k \in Nat, NEW s, Linked(k, s), Placed(Members(k, s))
    PROVE  Linked(k, s)'
<1>1. head' = head /\ (next' = next \/ LinkNew(t) \/ PushCasFails(t))
    BY DEF Step, hpVars, stackVars, NewNode, LinkNew, PushCasFails, CallPop, ClaimId, ClaimNext,
           ThreadExits, LoadHead, Publish, Validate, Deref, PopCasFails, ClearHazard, ProbeMore,
           PopKeeps, PopDeletes, Dispose
<1>2. \A i \in 1..k : next'[s[i]] = next[s[i]]
    <2> SUFFICES ASSUME NEW i \in 1..k, LinkNew(t) \/ PushCasFails(t)
                 PROVE  next'[s[i]] = next[s[i]]
        BY <1>1
    <2>1. temp[t] \in Nodes /\ pc[t] \in Pushing /\ next' = [next EXCEPT ![temp[t]] = head]
        BY DEF LinkNew, PushCasFails, Shape, Pushing
    <2>2. s[i] \in Members(k, s) /\ s[i] \in Nodes
        BY DEF Members, Linked
    <2>3. s[i] # temp[t]
        BY <2>1, <2>2 DEF Placed, Holds
    <2> QED BY <2>1, <2>2, <2>3 DEF TypeOK
<1> QED BY <1>1, <1>2 DEF Linked

-----------------------------------------------------------------------------

Stacked(k, s) == Linked(k, s) /\ Placed(Members(k, s))

(* The nodes on the stack after a step. *)
LEMMA StackedStep ==
    ASSUME TypeOK, \A u \in Threads : Shape(u), \A u \in Threads : Published(u),
           NEW t \in Threads, Step(t), NEW k \in Nat, NEW s, Stacked(k, s)
    PROVE  /\ PushCas(t) => \A r : r = [i \in 1..(k + 1) |-> IF i = 1 THEN temp[t] ELSE s[i - 1]]
                  => Stacked(k + 1, r)'
           /\ PopCas(t) => /\ k # 0 /\ old_head[t] = s[1]
                           /\ \A r : r = [i \in 1..(k - 1) |-> s[i + 1]] => Stacked(k - 1, r)'
           /\ ~PushCas(t) /\ ~PopCas(t) => Stacked(k, s)'
<1>0. ~(PushCas(t) /\ PopCas(t))
    BY DEF PushCas, PopCas
<1>1. ASSUME PushCas(t), NEW r, r = [i \in 1..(k + 1) |-> IF i = 1 THEN temp[t] ELSE s[i - 1]]
      PROVE  Stacked(k + 1, r)'
    <2>1. Linked(k + 1, r)' /\ Members(k + 1, r) = Members(k, s) \cup {temp[t]}
        BY <1>1, PushLinked DEF Stacked
    <2>2. Placed(Members(k + 1, r))'
        BY <1>0, <1>1, <2>1, PlacedStep DEF Stacked
    <2> QED BY <2>1, <2>2 DEF Stacked
<1>2. ASSUME PopCas(t), NEW r, r = [i \in 1..(k - 1) |-> s[i + 1]]
      PROVE  k # 0 /\ old_head[t] = s[1] /\ Stacked(k - 1, r)'
    <2>1. /\ k # 0 /\ old_head[t] = s[1] /\ Linked(k - 1, r)'
          /\ Members(k - 1, r) = Members(k, s) \ {old_head[t]} /\ old_head[t] \in Members(k, s)
        BY <1>2, PopLinked DEF Stacked
    <2>2. Placed(Members(k - 1, r))'
        BY <1>0, <1>2, <2>1, PlacedStep DEF Stacked
    <2> QED BY <2>1, <2>2 DEF Stacked
<1>3. ASSUME ~PushCas(t), ~PopCas(t) PROVE Stacked(k, s)'
    BY <1>3, StayLinked, PlacedStep DEF Stacked
<1> QED BY <1>1, <1>2, <1>3

(* The invariant is inductive. *)
LEMMA StackInvStep == StackInv /\ [Next]_vars => StackInv'
<1> SUFFICES ASSUME StackInv, [Next]_vars PROVE StackInv'
    OBVIOUS
<1>a. PICK k \in Nat : \E s : Stacked(k, s)
    BY BoundAssumption, FS_CardinalityType DEF StackInv, Stacked
<1>1. PICK s : Stacked(k, s)
    BY <1>a
<1>2. ASSUME NEW t \in Threads, Step(t) PROVE StackInv'
    <2>1. TypeOK' /\ \A u \in Threads : Shape(u)'
        BY <1>2, TypeStep, ShapeStep DEF StackInv
    <2>2. head \in Members(k, s) \cup {Null}
        BY <1>1 DEF Stacked, Linked, Members
    <2>3. \A u \in Threads : Published(u)'
        BY <1>1, <1>2, <2>2, PublishedStep DEF StackInv, Stacked
    <2>4. \E m \in Nat : \E r : Stacked(m, r)'
        <3>1. CASE PushCas(t)
            <4>1. PICK r : r = [i \in 1..(k + 1) |-> IF i = 1 THEN temp[t] ELSE s[i - 1]]
                OBVIOUS
            <4>2. Stacked(k + 1, r)'
                BY <1>1, <1>2, <3>1, <4>1, StackedStep DEF StackInv
            <4>3. k + 1 \in Nat
                BY <1>1
            <4> QED BY <4>2, <4>3
        <3>2. CASE PopCas(t)
            <4>1. PICK r : r = [i \in 1..(k - 1) |-> s[i + 1]]
                OBVIOUS
            <4>2. k # 0 /\ Stacked(k - 1, r)'
                BY <1>1, <1>2, <3>2, <4>1, StackedStep DEF StackInv
            <4>3. k - 1 \in Nat
                BY <1>1, <4>2
            <4> QED BY <4>2, <4>3
        <3>3. CASE ~PushCas(t) /\ ~PopCas(t)
            BY <1>1, <1>2, <3>3, StackedStep DEF StackInv
        <3> QED BY <3>1, <3>2, <3>3
    <2>a. PICK m \in Nat : \E r : Stacked(m, r)'
        BY <2>4
    <2>5. PICK r : Stacked(m, r)'
        BY <2>a
    <2>6. m \in 0..Cardinality(Nodes) /\ r \in [1..m -> Nodes]
        BY <2>5, StackFits DEF Stacked, Linked
    <2> QED BY <2>1, <2>3, <2>5, <2>6 DEF StackInv, Stacked
<1>3. CASE UNCHANGED vars
    <2> USE <1>3 DEF vars, hpVars, hpArray, reclaims, stackVars, locals
    <2>1. TypeOK'
        BY DEF StackInv, TypeOK, HpTypeOK
    <2>2. \A u \in Threads : Shape(u)' /\ Published(u)'
        BY DEF StackInv, Shape, Scanning, Published, Protected
    <2>3. \A m, r : Linked(m, r) /\ Placed(Members(m, r)) => (Linked(m, r) /\ Placed(Members(m, r)))'
        BY DEF Linked, Placed, Holds, Members
    <2> QED BY <2>1, <2>2, <2>3 DEF StackInv
<1> QED BY <1>2, <1>3 DEF Next

(* The program starts with an empty stack. *)
LEMMA StackInvInit == Init => StackInv
<1> SUFFICES ASSUME Init PROVE StackInv
    OBVIOUS
<1>1. TypeOK
    BY SlotFacts, BoundAssumption, OutsidersAssumption
    DEF Init, HpInit, TypeOK, HpTypeOK, PCs, RPCs
<1>2. \A t \in Threads : Shape(t) /\ Published(t)
    BY DEF Init, HpInit, Shape, Scanning, Pushing, Popping, Published
<1>3. PICK s : s = [i \in 1..0 |-> Null]
    OBVIOUS
<1>4. Linked(0, s) /\ Placed(Members(0, s)) /\ s \in [1..0 -> Nodes]
    BY <1>3, NullAssumption DEF Init, HpInit, Linked, Placed, Members, Holds, Pushing
<1>5. 0 \in 0..Cardinality(Nodes)
    BY BoundAssumption, FS_CardinalityType
<1> QED BY <1>1, <1>2, <1>4, <1>5 DEF StackInv

-----------------------------------------------------------------------------
(* The walk from the head *)

(* Nth follows the links, and finds Null beyond the last node. *)
LEMMA WalkFollows ==
    ASSUME NEW k \in Nat, NEW s, Linked(k, s)
    PROVE  /\ DOMAIN Nth = 1..(Cardinality(Nodes) + 1)
           /\ \A i \in 1..(Cardinality(Nodes) + 1) : Nth[i] = IF i <= k THEN s[i] ELSE Null
           /\ k \in 0..Cardinality(Nodes)
<1> DEFINE N == Cardinality(Nodes) + 1
           w == [i \in 1..N |-> IF i <= k THEN s[i] ELSE Null]
<1>1. k \in 0..Cardinality(Nodes) /\ Cardinality(Nodes) \in Nat
    BY StackFits, BoundAssumption, FS_CardinalityType DEF Linked
<1>2. w = [i \in 1..N |-> IF i = 1 THEN head ELSE IF w[i - 1] = Null THEN Null ELSE next[w[i - 1]]]
    <2> SUFFICES ASSUME NEW i \in 1..N
                 PROVE  w[i] = IF i = 1 THEN head ELSE IF w[i - 1] = Null THEN Null ELSE next[w[i - 1]]
        OBVIOUS
    <2>1. CASE i = 1
        BY <1>1, <2>1 DEF Linked
    <2>2. CASE i # 1
        <3>1. i - 1 \in 1..N /\ w[i - 1] = IF i - 1 <= k THEN s[i - 1] ELSE Null
            BY <1>1, <2>2
        <3>2. i - 1 <= k => /\ i - 1 \in 1..k /\ s[i - 1] \in Nodes
                            /\ next[s[i - 1]] = IF i - 1 = k THEN Null ELSE s[i]
            BY <1>1, <2>2 DEF Linked
        <3> QED BY <1>1, <2>2, <3>1, <3>2, NullAssumption
    <2> QED BY <2>1, <2>2
<1> HIDE DEF w
<1>3. Nth = [i \in 1..N |-> IF i = 1 THEN head ELSE IF Nth[i - 1] = Null THEN Null ELSE next[Nth[i - 1]]]
    BY <1>2, Zenon DEF Nth
<1> DEFINE T == {i \in 1..N : Nth[i] = w[i]}
<1>4. 1 \in T
    <2>1. 1 \in 1..N
        BY <1>1
    <2>2. Nth[1] = head
        BY <1>3, <2>1
    <2>3. w[1] = head
        BY <1>2, <2>1
    <2> QED BY <2>1, <2>2, <2>3
<1>5. ASSUME NEW i \in 1..(N - 1), i \in T PROVE i + 1 \in T
    <2>1. i + 1 \in 1..N /\ i + 1 # 1 /\ (i + 1) - 1 = i
        BY <1>1
    <2>2. Nth[i + 1] = IF Nth[i] = Null THEN Null ELSE next[Nth[i]]
        BY <1>3, <2>1
    <2>3. w[i + 1] = IF w[i] = Null THEN Null ELSE next[w[i]]
        BY <1>2, <2>1
    <2> QED BY <1>5, <2>1, <2>2, <2>3
<1>6. \A i \in 1..N : i \in T
    <2>1. 1 \in Nat /\ N \in Nat
        BY <1>1
    <2> HIDE DEF T, N
    <2> QED BY <1>4, <1>5, <2>1, IntervalInduction
<1>7. DOMAIN Nth = 1..N
    BY <1>3
<1> QED BY <1>1, <1>6, <1>7 DEF w

(* What the model reads off the links. *)
LEMMA WalkFinds ==
    \A k \in Nat : \A s : Linked(k, s) =>
        Reachable = Members(k, s) /\ Contents = [i \in 1..k |-> data[s[i]]]
<1> SUFFICES ASSUME NEW k \in Nat, NEW s, Linked(k, s)
             PROVE  Reachable = Members(k, s) /\ Contents = [i \in 1..k |-> data[s[i]]]
    OBVIOUS
<1> DEFINE N == Cardinality(Nodes) + 1
<1>1. /\ DOMAIN Nth = 1..N /\ k \in 0..Cardinality(Nodes) /\ Cardinality(Nodes) \in Nat
      /\ \A i \in 1..N : Nth[i] = IF i <= k THEN s[i] ELSE Null
    BY WalkFollows, BoundAssumption, FS_CardinalityType
<1>2. \A i \in 1..k : i \in 1..N /\ Nth[i] = s[i] /\ s[i] # Null
    BY <1>1, NullAssumption DEF Linked
<1>3. \A i \in 1..N : Nth[i] # Null => i \in 1..k
    BY <1>1
<1>4. Reachable = Members(k, s)
    BY <1>1, <1>2, <1>3 DEF Reachable, Members
<1>5. {i \in DOMAIN Nth : Nth[i] # Null} = 1..k
    BY <1>1, <1>2, <1>3
<1>6. Depth = k
    <2>1. 1 \in Int /\ k \in Int
        OBVIOUS
    <2>2. Cardinality(1..k) = IF 1 > k THEN 0 ELSE k - 1 + 1
        BY <2>1, FS_Interval
    <2>3. Cardinality(1..k) = k
        BY <2>2
    <2> QED BY <1>5, <2>3, Zenon DEF Depth
<1>7. Contents = [i \in 1..k |-> data[s[i]]]
    BY <1>2, <1>6 DEF Contents
<1> QED BY <1>4, <1>7

-----------------------------------------------------------------------------
(* The theorems *)

(* The state is well typed; a thread owns at most one hazard pointer, and  *)
(* the search for it and the scans stay inside hazard_pointers.            *)
THEOREM TypeCorrect == Spec => []TypeOK
<1>1. StackInv => TypeOK
    BY DEF StackInv
<1> QED BY <1>1, StackInvInit, StackInvStep, PTL DEF Spec

(* Hazard pointers protect: the node whose next field pop reads is         *)
(* allocated, whatever other threads pop, scan for, delete and push again. *)
THEOREM HazardsProtect == Spec => []NoUseAfterFree
<1>1. StackInv => NoUseAfterFree
    BY DEF StackInv, NoUseAfterFree, Published, Protected
<1> QED BY <1>1, StackInvInit, StackInvStep, PTL DEF Spec

(* Nodes to be reclaimed are each with one owner, so none is deleted twice.*)
THEOREM DeletedOnce == Spec => []ReclaimedOnce
<1>1. StackInv => ReclaimedOnce
    <2> SUFFICES ASSUME StackInv PROVE ReclaimedOnce
        OBVIOUS
    <2>1. PICK S : Placed(S)
        BY DEF StackInv
    <2>2. /\ TypeOK /\ \A t \in Threads : target[t] \notin batch[t]
        BY DEF StackInv, Shape
    <2>3. \A t \in Threads : batch[t] \subseteq Nodes /\ target[t] \in Nodes \cup {Null}
        BY <2>2 DEF TypeOK, HpTypeOK
    <2>4. \A t \in Threads : /\ \A n \in batch[t] : Holds(t, n)
                             /\ Holds(t, target[t])
        BY DEF Holds
    <2>5. nodes_to_reclaim \subseteq allocated
        BY <2>1, <2>2 DEF Placed, TypeOK, HpTypeOK
    <2>6. ASSUME NEW t \in Threads
          PROVE  batch[t] \cup ({target[t]} \ {Null}) \subseteq allocated \ nodes_to_reclaim
        BY <2>1, <2>3, <2>4 DEF Placed
    <2>7. ASSUME NEW t \in Threads, NEW u \in Threads, t # u
          PROVE  (batch[t] \cup {target[t]}) \cap (batch[u] \cup {target[u]}) \subseteq {Null}
        BY <2>1, <2>3, <2>4, <2>7 DEF Placed
    <2> QED BY <2>2, <2>5, <2>6, <2>7 DEF ReclaimedOnce
<1> QED BY <1>1, StackInvInit, StackInvStep, PTL DEF Spec

(* Nothing leaks and nothing reachable is deleted or being disposed of.    *)
THEOREM NothingLeaks == Spec => []NodesAccountedFor
<1>1. StackInv => NodesAccountedFor
    <2> SUFFICES ASSUME StackInv PROVE NodesAccountedFor
        OBVIOUS
    <2>a. PICK k \in Nat : \E s : Linked(k, s) /\ Placed(Members(k, s))
        BY BoundAssumption, FS_CardinalityType DEF StackInv
    <2>1. PICK s : Linked(k, s) /\ Placed(Members(k, s))
        BY <2>a
    <2>2. Reachable = Members(k, s)
        BY <2>1, WalkFinds
    <2> DEFINE inPush  == {temp[t] : t \in {u \in Threads : pc[u] \in {"link", "push"}}}
               popped  == {old_head[t] : t \in {u \in Threads : pc[u] = "clear"}} \ {Null}
               retired == nodes_to_reclaim \cup (UNION {batch[t] : t \in Threads})
                                           \cup ({target[t] : t \in Threads} \ {Null})
    <2>3. inPush \subseteq Nodes /\ popped \subseteq Nodes /\ retired \subseteq Nodes
        <3>1. /\ \A t \in Threads : pc[t] \in Pushing => temp[t] \in Nodes
              /\ \A t \in Threads : old_head[t] # Null => old_head[t] \in Nodes
              /\ \A t \in Threads : target[t] # Null => target[t] \in Nodes
              /\ \A t \in Threads : batch[t] \subseteq Nodes
              /\ nodes_to_reclaim \subseteq Nodes
            BY DEF StackInv, TypeOK, HpTypeOK, Shape
        <3>2. inPush \subseteq Nodes
            BY <3>1 DEF Pushing
        <3>3. popped \subseteq Nodes
            BY <3>1
        <3>4. retired \subseteq Nodes
            BY <3>1, Zenon
        <3> QED BY <3>2, <3>3, <3>4
    <2>4. \A n \in Nodes : n \in inPush \/ n \in popped \/ n \in retired <=>
              n \in nodes_to_reclaim \/ \E t \in Threads : Holds(t, n)
        <3> SUFFICES ASSUME NEW n \in Nodes
                     PROVE  n \in inPush \/ n \in popped \/ n \in retired <=>
                                n \in nodes_to_reclaim \/ \E t \in Threads : Holds(t, n)
            OBVIOUS
        <3>0. n # Null
            BY NullAssumption
        <3>1. n \in inPush <=> \E t \in Threads : pc[t] \in Pushing /\ n = temp[t]
            BY Zenon DEF Pushing
        <3>2. n \in popped <=> \E t \in Threads : pc[t] = "clear" /\ n = old_head[t]
            BY <3>0, Zenon
        <3>3. n \in retired <=> \/ n \in nodes_to_reclaim
                                \/ \E t \in Threads : n \in batch[t]
                                \/ \E t \in Threads : n = target[t]
            BY <3>0, Zenon
        <3> HIDE DEF inPush, popped, retired
        <3> QED BY <3>1, <3>2, <3>3, Zenon DEF Holds
    <2> HIDE DEF inPush, popped, retired
    <2>5. /\ allocated = Reachable \cup inPush \cup popped \cup retired
          /\ Reachable \cap (inPush \cup popped \cup retired) = {}
        BY <2>1, <2>2, <2>3, <2>4 DEF Placed, StackInv, TypeOK, HpTypeOK
    <2> QED BY <2>5 DEF NodesAccountedFor, inPush, popped, retired
<1> QED BY <1>1, StackInvInit, StackInvStep, PTL DEF Spec

-----------------------------------------------------------------------------
(* Refinement *)

(* The values of the nodes of the stack. *)
Values(k, s) == [i \in 1..k |-> data[s[i]]]

(* Values of nodes in use do not change. *)
LEMMA DataKept ==
    ASSUME TypeOK, NEW t \in Threads, Step(t)
    PROVE  \A n \in allocated : data'[n] = data[n]
<1>1. data' = data \/ \E n \in Nodes : NewNode(t, n)
    BY DEF Step, hpVars, stackVars, LinkNew, PushCas, PushCasFails, CallPop, ClaimId, ClaimNext,
           ThreadExits, LoadHead, Publish, Validate, Deref, PopCas, PopCasFails, ClearHazard,
           ProbeMore, PopKeeps, PopDeletes, Dispose
<1> QED BY <1>1 DEF NewNode, TypeOK, HpTypeOK

(* A step of one thread leaves what the pops of the others took. *)
LEMMA OthersTaken ==
    ASSUME TypeOK, NEW S, Placed(S), NEW t \in Threads, Step(t), NEW u \in Threads, u # t
    PROVE  Taken'[u] = Taken[u]
<1>1. pc'[u] = pc[u] /\ old_head'[u] = old_head[u]
    BY OthersStay
<1>2. pc[u] = "clear" /\ old_head[u] # Null => old_head[u] \in allocated
    BY DEF Placed, Holds, TypeOK
<1>3. pc[u] = "clear" /\ old_head[u] # Null => data'[old_head[u]] = data[old_head[u]]
    BY <1>2, DataKept
<1> QED BY <1>1, <1>3 DEF Taken

(* Only pop's compare_exchange takes a value, and only the move out of the *)
(* node returns it.                                                        *)
LEMMA OwnTaken ==
    ASSUME TypeOK, NEW t \in Threads, Step(t), ~PopCas(t)
    PROVE  Taken'[t] = IF ClearHazard(t) THEN 0 ELSE Taken[t]
<1>1. CASE ClearHazard(t)
    BY <1>1 DEF ClearHazard, Goto, TypeOK, Taken
<1>2. CASE Validate(t)
    <2>1. pc[t] # "clear" /\ (pc'[t] = "clear" => old_head'[t] = Null)
        BY <1>2 DEF Validate, Goto, TypeOK
    <2> QED BY <1>2, <2>1 DEF Taken, ClearHazard, Validate
<1>3. CASE ~ClearHazard(t) /\ ~Validate(t)
    <2>1. pc[t] # "clear" /\ pc'[t] # "clear"
        BY <1>3 DEF TypeOK, Step, Goto,
           NewNode, LinkNew, PushCas, PushCasFails, CallPop, ClaimId, ClaimNext, ThreadExits,
           LoadHead, Publish, Deref, PopCasFails, ProbeMore, PopKeeps, PopDeletes, Dispose
    <2> QED BY <1>3, <2>1 DEF Taken
<1> QED BY <1>1, <1>2, <1>3

(* Contents is the sequence of the values on the stack, in both states. *)
LEMMA ContentsFound ==
    /\ \A k \in Nat : \A s : Stacked(k, s) => Contents = Values(k, s)
    /\ (\A k \in Nat : \A s : Stacked(k, s) => Contents = Values(k, s))'
<1>1. \A k \in Nat : \A s : Stacked(k, s) => Contents = Values(k, s)
    BY WalkFinds DEF Stacked, Values
<1> QED BY <1>1, PTL

(* Nodes on the stack carry the values that were pushed. *)
LEMMA ValuesOnStack ==
    ASSUME TypeOK, NEW n \in allocated, NEW S, Placed(S)
    PROVE  data[n] \in 1..MaxPushes
BY BoundAssumption DEF TypeOK, HpTypeOK, Placed

(* Every step of the implementation is a step of the abstract stack or     *)
(* leaves it unchanged: push takes effect at its compare_exchange, pop at  *)
(* its own.                                                                *)
LEMMA StackRefined ==
    StackInv /\ [Next]_vars => [AbstractStack!Next]_<<Contents, Taken>>
<1> SUFFICES ASSUME StackInv, [Next]_vars
             PROVE  AbstractStack!Next \/ (Contents' = Contents /\ Taken' = Taken)
    OBVIOUS
<1>a. PICK k \in Nat : \E s : Stacked(k, s)
    BY BoundAssumption, FS_CardinalityType DEF StackInv, Stacked
<1>1. PICK s : Stacked(k, s)
    BY <1>a
<1>2. Contents = Values(k, s)
    BY <1>1, ContentsFound
<1>3. \A i \in 1..k : s[i] \in allocated /\ s[i] \in Nodes
    BY <1>1 DEF Stacked, Linked, Placed, Members
<1>4. TypeOK /\ Placed(Members(k, s))
    BY <1>1 DEF StackInv, Stacked
<1>5. ASSUME NEW t \in Threads, Step(t)
      PROVE  AbstractStack!Next \/ (Contents' = Contents /\ Taken' = Taken)
    <2>0. \A i \in 1..k : data'[s[i]] = data[s[i]]
        BY <1>3, <1>4, <1>5, DataKept
    <2>1. \A u \in Threads : u # t => Taken'[u] = Taken[u]
        BY <1>4, <1>5, OthersTaken
    <2>2. /\ Taken = [u \in Threads |-> Taken[u]]
          /\ Taken' = [u \in Threads |-> Taken'[u]]
        BY DEF Taken
    <2>3. CASE PushCas(t)
        <3>1. PICK r : r = [i \in 1..(k + 1) |-> IF i = 1 THEN temp[t] ELSE s[i - 1]]
            OBVIOUS
        <3>2. Stacked(k + 1, r)' /\ k + 1 \in Nat
            BY <1>1, <1>5, <2>3, <3>1, StackedStep DEF StackInv
        <3>3. Contents' = Values(k + 1, r)'
            BY <3>2, ContentsFound
        <3>4. temp[t] \in allocated /\ data' = data
            BY <1>4, <2>3 DEF StackInv, Shape, PushCas, Placed, Holds, Pushing
        <3> DEFINE v == data[temp[t]]
        <3>5. v \in 1..MaxPushes
            BY <1>4, <3>4, ValuesOnStack
        <3>6. Contents' = [i \in 1..(k + 1) |-> IF i = 1 THEN v ELSE Contents[i - 1]]
            <4>1. \A i \in 1..(k + 1) : data[r[i]] = IF i = 1 THEN v ELSE Contents[i - 1]
                BY <1>2, <3>1 DEF Values
            <4> QED BY <3>3, <3>4, <4>1 DEF Values
        <3>7. Contents' = <<v>> \o Contents
            <4>1. Contents \in Seq(1..MaxPushes) /\ Len(Contents) = k
                BY <1>2, <1>3, <1>4, ValuesOnStack DEF Values
            <4> HIDE DEF v
            <4> QED BY <3>5, <3>6, <4>1
        <3>8. Taken' = Taken
            BY <1>4, <1>5, <2>1, <2>2, <2>3, OwnTaken DEF PushCas, PopCas, ClearHazard
        <3> QED BY <3>5, <3>7, <3>8 DEF AbstractStack!Next, AbstractStack!Push
    <2>4. CASE PopCas(t)
        <3>1. PICK r : r = [i \in 1..(k - 1) |-> s[i + 1]]
            OBVIOUS
        <3>2. k # 0 /\ old_head[t] = s[1] /\ Stacked(k - 1, r)' /\ k - 1 \in Nat
            BY <1>1, <1>5, <2>4, <3>1, StackedStep DEF StackInv
        <3>3. Contents' = Values(k - 1, r)'
            BY <3>2, ContentsFound
        <3>4. Contents \in Seq(1..MaxPushes) /\ Len(Contents) = k /\ Contents # << >>
            BY <1>2, <1>3, <1>4, <3>2, ValuesOnStack DEF Values
        <3>5. Contents' = Tail(Contents)
            <4>1. \A i \in 1..(k - 1) : data'[r[i]] = Contents[i + 1]
                BY <1>2, <2>0, <3>1, <3>2 DEF Values
            <4>2. Contents' = [i \in 1..(k - 1) |-> Contents[i + 1]]
                BY <3>3, <4>1 DEF Values
            <4> QED BY <3>4, <4>2, TailByIndex
        <3>6. Taken[t] = 0
            BY <2>4 DEF PopCas, Taken
        <3>7. Taken'[t] = Head(Contents)
            <4>1. pc'[t] = "clear" /\ old_head'[t] = s[1] /\ s[1] \in Nodes
                <5>1. 1 \in 1..k
                    BY <3>2
                <5>2. s[1] \in Nodes
                    BY <1>3, <5>1
                <5> QED BY <1>4, <2>4, <3>2, <5>2 DEF PopCas, Goto, TypeOK
            <4>2. Taken'[t] = data'[s[1]]
                BY <4>1, NullAssumption DEF Taken
            <4>3. data'[s[1]] = Contents[1]
                BY <1>2, <2>0, <3>2 DEF Values
            <4> QED BY <3>4, <4>2, <4>3
        <3>8. Taken' = [Taken EXCEPT ![t] = Head(Contents)]
            BY <2>1, <2>2, <3>7
        <3> QED BY <3>4, <3>5, <3>6, <3>8 DEF AbstractStack!Next, AbstractStack!Pop
    <2>5. CASE ~PushCas(t) /\ ~PopCas(t)
        <3>1. Contents' = Contents
            <4>1. Stacked(k, s)'
                BY <1>1, <1>5, <2>5, StackedStep DEF StackInv
            <4>2. Contents' = Values(k, s)'
                BY <4>1, ContentsFound
            <4> QED BY <1>2, <2>0, <4>2 DEF Values
        <3>2. CASE ClearHazard(t)
            <4>1. Taken' = [Taken EXCEPT ![t] = 0]
                <5>1. Taken'[t] = 0
                    BY <1>4, <1>5, <2>5, <3>2, OwnTaken
                <5> QED BY <2>1, <2>2, <5>1
            <4> QED BY <3>1, <4>1 DEF AbstractStack!Next, AbstractStack!Return
        <3>3. CASE ~ClearHazard(t)
            <4>1. Taken' = Taken
                <5>1. Taken'[t] = Taken[t]
                    BY <1>4, <1>5, <2>5, <3>3, OwnTaken
                <5> QED BY <2>1, <2>2, <5>1
            <4> QED BY <3>1, <4>1
        <3> QED BY <3>2, <3>3
    <2> QED BY <2>3, <2>4, <2>5
<1>6. CASE UNCHANGED vars
    <2> USE <1>6 DEF vars, hpVars, hpArray, reclaims, stackVars, locals
    <2>1. Stacked(k, s)'
        BY <1>1 DEF Stacked, Linked, Placed, Holds, Members
    <2>2. Contents' = Values(k, s)'
        BY <2>1, ContentsFound
    <2>3. Contents' = Contents
        BY <1>2, <2>2 DEF Values
    <2>4. Taken' = Taken
        BY DEF Taken
    <2> QED BY <2>3, <2>4
<1> QED BY <1>5, <1>6 DEF Next

(* An empty stack, and nothing taken. *)
LEMMA StackRefinedInit == Init => AbstractStack!Init
<1> SUFFICES ASSUME Init PROVE AbstractStack!Init
    OBVIOUS
<1>1. PICK s : s = [i \in 1..0 |-> Null]
    OBVIOUS
<1>2. Linked(0, s) /\ 0 \in Nat
    BY <1>1, NullAssumption DEF Init, Linked
<1>3. Contents = [i \in 1..0 |-> data[s[i]]]
    BY <1>2, WalkFinds
<1>4. Contents = << >>
    BY <1>3
<1>5. Taken = [t \in Threads |-> 0]
    BY DEF Init, Taken
<1> QED BY <1>4, <1>5 DEF AbstractStack!Init

(* lockfree_stack is a stack: every behaviour of push and pop, hazard      *)
(* pointers and reclamation included, is a behaviour of Stack.             *)
THEOREM StackImplemented == Spec => ImplementsStack
<1>1. Init => AbstractStack!Init
    BY StackRefinedInit
<1>2. StackInv /\ [Next]_vars => [AbstractStack!Next]_<<Contents, Taken>>
    BY StackRefined
<1> QED BY <1>1, <1>2, StackInvInit, StackInvStep, PTL DEF Spec, ImplementsStack, AbstractStack!Spec

=============================================================================
