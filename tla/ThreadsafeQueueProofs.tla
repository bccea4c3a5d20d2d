----------------------- MODULE ThreadsafeQueueProofs -----------------------
(***************************************************************************)
(* Proofs about threadsafe_queue, for any number of threads and pushes:    *)
(* its critical sections exclude each other, and a queue is what it is,    *)
(* though push and pop run under different mutexes.                        *)
(*                                                                         *)
(* The invariant names the nodes from the head to the dummy at the tail.   *)
(* A pop that found data under head_mutex_ still has it when it runs       *)
(* pop_head: a push in between only appends, at a node that is not there   *)
(* yet.                                                                    *)
(***************************************************************************)
EXTENDS ThreadsafeQueue, FiniteSetTheorems, SequenceTheorems, ListLemmas, TLAPS

-----------------------------------------------------------------------------
(* The invariant *)

(* The nodes from the head to the dummy are s[0], ..., s[k]: all different,*)
(* each linked to the next and filled but the last, and none of them the   *)
(* node of a push that has not appended it.                                *)
Chain(k, s) ==
    /\ s \in [0..k -> 0..pushes]
    /\ \A i, j \in 0..k : s[i] = s[j] => i = j
    /\ s[0] = head /\ s[k] = tail
    /\ \A i \in 0..(k - 1) : next[s[i]] = s[i + 1] /\ data[s[i]] \in Values
    /\ \A t \in Threads, i \in 0..k : pc[t] = "append" => s[i] # new_tail[t]

(* What a thread has, given where it stands. *)
Shape(t) ==
    /\ pc[t] = "append" => new_tail[t] \in 1..pushes
    /\ pc[t] = "pop" => head # tail
    /\ pc[t] # "return" => answer[t] = None

QueueInv ==
    /\ TypeOK
    /\ \A t \in Threads : Shape(t)
    /\ \A t \in Threads, u \in Threads :
           pc[t] = "append" /\ pc[u] = "append" /\ new_tail[t] = new_tail[u] => t = u
    /\ \E k \in 0..MaxPushes : \E s \in [0..k -> Nodes] : Chain(k, s)

-----------------------------------------------------------------------------
(* Types *)

Step(t) == Call(t) \/ Proceed(t) \/ SpuriousWakeup(t)

(* Types, and who is inside the critical section of head_mutex_. *)
LEMMA TypeStep ==
    ASSUME TypeOK, \A u \in Threads : Shape(u), NEW k \in Nat, NEW s, Chain(k, s),
           NEW t \in Threads, Step(t)
    PROVE  TypeOK'
<1> USE DistinctAssumption DEF TypeOK, list, Goto, PCs
<1>1. ASSUME CallPush(t) PROVE TypeOK'
    <2>1. /\ pushes' = pushes + 1 /\ pushes' \in 0..MaxPushes /\ pushes + 1 \in 0..pushes'
          /\ \A x \in 0..pushes : x \in 0..pushes'
        BY <1>1, BoundAssumption DEF CallPush
    <2>2. head' \in 0..pushes' /\ tail' \in 0..pushes'
        BY <1>1, <2>1 DEF CallPush
    <2>3. data' \in [Nodes -> 0..pushes'] /\ next' \in [Nodes -> 0..pushes']
        BY <1>1, <2>1 DEF CallPush
    <2>4. new_tail' \in [Threads -> 0..pushes']
        BY <1>1, <2>1 DEF CallPush
    <2> QED BY <1>1, <2>1, <2>2, <2>3, <2>4 DEF CallPush
<1>2. ASSUME NEW o \in Ops, CallOp(t, o) PROVE TypeOK'
    BY <1>2 DEF CallOp
<1>3. ASSUME Push(t) PROVE TypeOK'
    <2>1. new_tail[t] \in 0..pushes /\ 0 \in 0..pushes
        BY <1>3
    <2>2. /\ tail' = new_tail[t] /\ tail' \in 0..pushes
          /\ data' \in [Nodes -> 0..pushes] /\ next' \in [Nodes -> 0..pushes]
          /\ new_tail' \in [Threads -> 0..pushes]
        BY <1>3, <2>1 DEF Push
    <2> QED BY <1>3, <2>2 DEF Push
<1>4. ASSUME NotifyOne(t) PROVE TypeOK'
    BY <1>4 DEF NotifyOne
<1>5. ASSUME LockHead(t) PROVE TypeOK'
    BY <1>5 DEF LockHead
<1>6. ASSUME FoundEmpty(t) PROVE TypeOK'
    BY <1>6 DEF FoundEmpty
<1>7. ASSUME FoundData(t) PROVE TypeOK'
    BY <1>7 DEF FoundData
<1>8. ASSUME Sleep(t) PROVE TypeOK'
    BY <1>8 DEF Sleep
<1>9. ASSUME SpuriousWakeup(t) PROVE TypeOK'
    BY <1>9 DEF SpuriousWakeup
<1>10. ASSUME PopHead(t) PROVE TypeOK'
    <2>1. head \in Nodes /\ data[head] \in Values /\ next[head] \in 0..pushes
        <3>1. head # tail /\ s[0] = head /\ s[k] = tail
            BY <1>10 DEF PopHead, Shape, Chain
        <3>2. 0 \in 0..(k - 1)
            BY <3>1
        <3>3. data[head] \in Values
            BY <3>1, <3>2 DEF Chain
        <3>4. head \in Nodes
            BY BoundAssumption DEF Nodes
        <3> QED BY <3>3, <3>4
    <2> QED BY <1>10, <2>1 DEF PopHead
<1>11. ASSUME Return(t) PROVE TypeOK'
    BY <1>11 DEF Return
<1> QED BY <1>1, <1>2, <1>3, <1>4, <1>5, <1>6, <1>7, <1>8, <1>9, <1>10, <1>11
        DEF Step, Call, Proceed

-----------------------------------------------------------------------------
(* Threads *)

(* A step leaves what is in the other threads, except that notify_one      *)
(* wakes a sleeper.                                                        *)
LEMMA OthersStay ==
    ASSUME TypeOK, NEW t \in Threads, Step(t), NEW u \in Threads, u # t
    PROVE  /\ pc'[u] = pc[u] \/ (pc[u] = "asleep" /\ pc'[u] = "lock")
           /\ new_tail'[u] = new_tail[u] /\ answer'[u] = answer[u]
BY DEF TypeOK, list, Goto, Step, Call, Proceed, CallPush, CallOp, Push, NotifyOne, LockHead,
       FoundEmpty, FoundData, Sleep, SpuriousWakeup, PopHead, Return

(* Two pushes have different nodes. *)
LEMMA DistinctStep ==
    ASSUME QueueInv, NEW t \in Threads, Step(t)
    PROVE  \A u \in Threads, v \in Threads :
               pc'[u] = "append" /\ pc'[v] = "append" /\ new_tail'[u] = new_tail'[v] => u = v
<1>0. TypeOK
    BY DEF QueueInv
<1>1. \A u \in Threads : u # t => (pc'[u] = "append" <=> pc[u] = "append") /\ new_tail'[u] = new_tail[u]
    BY <1>0, OthersStay
<1>2. CASE CallPush(t)
    <2>1. new_tail'[t] = pushes + 1 /\ \A u \in Threads : new_tail[u] # pushes + 1
        BY <1>0, <1>2 DEF CallPush, TypeOK
    <2> QED BY <1>1, <2>1 DEF QueueInv
<1>3. CASE ~CallPush(t)
    <2>1. pc'[t] # "append"
        BY <1>0, <1>3 DEF TypeOK, Goto, Step, Call, Proceed, CallOp, Push, NotifyOne, LockHead,
               FoundEmpty, FoundData, Sleep, SpuriousWakeup, PopHead, Return
    <2> QED BY <1>1, <2>1 DEF QueueInv
<1> QED BY <1>2, <1>3

-----------------------------------------------------------------------------
(* The list *)

(* The nodes of the list after a step. *)
Pushed(k, s, n) == [i \in 0..(k + 1) |-> IF i = k + 1 THEN n ELSE s[i]]
Popped(k, s) == [i \in 0..(k - 1) |-> s[i + 1]]

(* push appends its node. *)
LEMMA PushChain ==
    ASSUME QueueInv, NEW t \in Threads, Push(t), NEW k \in Nat, NEW s, Chain(k, s),
           NEW n, n = new_tail[t], NEW r, r = Pushed(k, s, n)
    PROVE  /\ Chain(k + 1, r)'
           /\ \A i \in 0..(k - 1) : data'[s[i]] = data[s[i]]
           /\ data'[tail] = n /\ n \in Values /\ head' # tail'
<1>1. /\ n \in 1..pushes /\ tail \in Nodes /\ tail' = n /\ head' = head /\ pushes' = pushes
      /\ next' = [next EXCEPT ![tail] = n] /\ data' = [data EXCEPT ![tail] = n]
      /\ next \in [Nodes -> 0..pushes] /\ data \in [Nodes -> 0..pushes]
      /\ n \in Values /\ 0..pushes \subseteq Nodes
    <2>1. n \in 1..pushes /\ pushes \in 0..MaxPushes /\ tail \in 0..pushes
        BY DEF QueueInv, TypeOK, Shape, Push
    <2>2. n \in Values /\ 0..pushes \subseteq Nodes
        BY <2>1, BoundAssumption DEF Nodes, Values
    <2> QED BY <2>1, <2>2 DEF QueueInv, TypeOK, Push
<1>2. /\ s \in [0..k -> 0..pushes] /\ \A i, j \in 0..k : s[i] = s[j] => i = j
      /\ s[0] = head /\ s[k] = tail
      /\ \A i \in 0..(k - 1) : next[s[i]] = s[i + 1] /\ data[s[i]] \in Values
      /\ \A u \in Threads, i \in 0..k : pc[u] = "append" => s[i] # new_tail[u]
    BY DEF Chain
<1>3. \A i \in 0..k : s[i] # n
    BY <1>2 DEF Push
<1>4. \A i \in 0..(k - 1) : i \in 0..k /\ s[i] \in Nodes /\ s[i] # tail
    <2>1. \A i \in 0..(k - 1) : i \in 0..k /\ k \in 0..k /\ i # k
        OBVIOUS
    <2> QED BY <1>1, <1>2, <2>1
<1>5. \A i \in 0..(k - 1) : next'[s[i]] = s[i + 1] /\ data'[s[i]] = data[s[i]]
    BY <1>1, <1>2, <1>4
<1>6. next'[tail] = n /\ data'[tail] = n
    BY <1>1
<1>7. /\ r[k + 1] = n /\ \A i \in 0..k : r[i] = s[i]
      /\ \A i \in 0..(k + 1) : i = k + 1 \/ i \in 0..k
    BY DEF Pushed
<1>8. r \in [0..(k + 1) -> 0..pushes']
    <2>1. n \in 0..pushes
        BY <1>1
    <2>2. \A i \in 0..k : s[i] \in 0..pushes
        BY <1>2
    <2>3. \A i \in 0..(k + 1) : r[i] \in 0..pushes
        BY <1>7, <2>1, <2>2
    <2> QED BY <1>1, <2>3 DEF Pushed
<1>9. \A i, j \in 0..(k + 1) : r[i] = r[j] => i = j
    BY <1>2, <1>3, <1>7
<1>10. r[0] = head' /\ r[k + 1] = tail'
    <2>1. 0 \in 0..k
        OBVIOUS
    <2> QED BY <1>1, <1>2, <1>7, <2>1
<1>11. \A i \in 0..((k + 1) - 1) : next'[r[i]] = r[i + 1] /\ data'[r[i]] \in Values
    <2> SUFFICES ASSUME NEW i \in 0..k PROVE next'[r[i]] = r[i + 1] /\ data'[r[i]] \in Values
        OBVIOUS
    <2>1. CASE i = k
        BY <1>1, <1>2, <1>6, <1>7, <2>1
    <2>2. CASE i # k
        <3>1. i \in 0..(k - 1) /\ i \in 0..k /\ i + 1 \in 0..k
            BY <2>2
        <3>2. r[i] = s[i] /\ r[i + 1] = s[i + 1]
            BY <1>7, <3>1
        <3> QED BY <1>2, <1>5, <3>1, <3>2, ZenonT(60)
    <2> QED BY <2>1, <2>2
<1>12. \A u \in Threads, i \in 0..(k + 1) : pc'[u] = "append" => r[i] # new_tail'[u]
    <2> SUFFICES ASSUME NEW u \in Threads, pc'[u] = "append", NEW i \in 0..(k + 1)
                 PROVE  r[i] # new_tail'[u]
        OBVIOUS
    <2>1. u # t /\ pc[u] = "append" /\ new_tail'[u] = new_tail[u]
        BY DEF Push, Goto, QueueInv, TypeOK
    <2>2. new_tail[u] # n
        BY <2>1 DEF QueueInv, Push
    <2> QED BY <1>2, <1>7, <2>1, <2>2
<1>13. Chain(k + 1, r)'
    BY <1>8, <1>9, <1>10, <1>11, <1>12 DEF Chain
<1>14. head # n
    BY <1>2, <1>3
<1> QED BY <1>1, <1>5, <1>6, <1>13, <1>14

(* pop_head moves the head to the next node. *)
LEMMA PopChain ==
    ASSUME QueueInv, NEW t \in Threads, PopHead(t), NEW k \in Nat, NEW s, Chain(k, s),
           NEW r, r = Popped(k, s)
    PROVE  k # 0 /\ Chain(k - 1, r)'
<1>1. /\ head # tail /\ head' = next[head] /\ tail' = tail /\ next' = next /\ data' = data
      /\ pushes' = pushes
      /\ \A u \in Threads : new_tail'[u] = new_tail[u] /\ (pc'[u] = "append" => pc[u] = "append")
    BY DEF QueueInv, TypeOK, Shape, PopHead, Goto
<1>2. /\ s \in [0..k -> 0..pushes] /\ \A i, j \in 0..k : s[i] = s[j] => i = j
      /\ s[0] = head /\ s[k] = tail
      /\ \A i \in 0..(k - 1) : next[s[i]] = s[i + 1] /\ data[s[i]] \in Values
      /\ \A u \in Threads, i \in 0..k : pc[u] = "append" => s[i] # new_tail[u]
    BY DEF Chain
<1>3. k # 0
    BY <1>1, <1>2
<1>4. \A i \in 0..(k - 1) : i + 1 \in 0..k /\ r[i] = s[i + 1]
    BY DEF Popped
<1>5. r \in [0..(k - 1) -> 0..pushes']
    BY <1>1, <1>2, <1>4 DEF Popped
<1>6. \A i, j \in 0..(k - 1) : r[i] = r[j] => i = j
    <2> SUFFICES ASSUME NEW i \in 0..(k - 1), NEW j \in 0..(k - 1), r[i] = r[j] PROVE i = j
        OBVIOUS
    <2>1. i + 1 \in 0..k /\ j + 1 \in 0..k /\ s[i + 1] = s[j + 1]
        BY <1>4
    <2>2. i + 1 = j + 1
        BY <1>2, <2>1
    <2> QED BY <2>2
<1>7. r[0] = head' /\ r[k - 1] = tail'
    BY <1>1, <1>2, <1>3, <1>4
<1>8. \A i \in 0..((k - 1) - 1) : next'[r[i]] = r[i + 1] /\ data'[r[i]] \in Values
    <2>1. \A i \in 0..((k - 1) - 1) :
              i \in 0..(k - 1) /\ i + 1 \in 0..(k - 1) /\ r[i] = s[i + 1] /\ r[i + 1] = s[(i + 1) + 1]
        BY <1>4
    <2> QED BY <1>1, <1>2, <2>1
<1>9. \A u \in Threads, i \in 0..(k - 1) : pc'[u] = "append" => r[i] # new_tail'[u]
    BY <1>1, <1>2, <1>4
<1> QED BY <1>3, <1>5, <1>6, <1>7, <1>8, <1>9 DEF Chain

(* No other step changes the list. *)
LEMMA StayChain ==
    ASSUME QueueInv, NEW t \in Threads, Step(t), ~Push(t), ~PopHead(t),
           NEW k \in Nat, NEW s, Chain(k, s)
    PROVE  Chain(k, s)' /\ list' = list
<1>0. TypeOK
    BY DEF QueueInv
<1>1. list' = list
    BY DEF list, Step, Call, Proceed, CallPush, CallOp, NotifyOne, LockHead,
           FoundEmpty, FoundData, Sleep, SpuriousWakeup, Return
<1>2. CASE CallPush(t)
    <2>1. pushes' = pushes + 1 /\ pushes \in Nat
        BY <1>0, <1>2, BoundAssumption DEF CallPush, TypeOK
    <2>2. s \in [0..k -> 0..pushes'] /\ \A i \in 0..k : s[i] # pushes + 1
        BY <2>1 DEF Chain
    <2>3. \A u \in Threads : pc'[u] = "append" =>
              (pc[u] = "append" /\ new_tail'[u] = new_tail[u]) \/ new_tail'[u] = pushes + 1
        BY <1>0, <1>2 DEF CallPush, Goto, TypeOK
    <2>4. \A u \in Threads, i \in 0..k : pc'[u] = "append" => s[i] # new_tail'[u]
        BY <2>2, <2>3 DEF Chain
    <2> QED BY <1>1, <2>2, <2>4 DEF Chain, list
<1>3. CASE ~CallPush(t)
    <2>1. pushes' = pushes /\ pc'[t] # "append"
        BY <1>0, <1>3 DEF TypeOK, Goto, Step, Call, Proceed, CallOp, NotifyOne, LockHead,
               FoundEmpty, FoundData, Sleep, SpuriousWakeup, Return
    <2>2. \A u \in Threads : pc'[u] = "append" => pc[u] = "append" /\ new_tail'[u] = new_tail[u]
        BY <1>0, <2>1, OthersStay
    <2> QED BY <1>1, <2>1, <2>2 DEF Chain, list
<1> QED BY <1>2, <1>3

-----------------------------------------------------------------------------

(* A list of different nodes is no longer than the number of pushes. *)
LEMMA ChainFits ==
    \A j \in Nat : \A q : TypeOK /\ Chain(j, q) => j \in 0..MaxPushes /\ q \in [0..j -> Nodes]
<1> SUFFICES ASSUME TypeOK, NEW k \in Nat, NEW s, Chain(k, s)
             PROVE  k \in 0..MaxPushes /\ s \in [0..k -> Nodes]
    OBVIOUS
<1>1. pushes \in 0..MaxPushes /\ MaxPushes \in Nat
    BY BoundAssumption DEF TypeOK
<1>2. 0..pushes \subseteq Nodes
    BY <1>1 DEF Nodes
<1>3. s \in [0..k -> Nodes]
    BY <1>2 DEF Chain
<1>4. s \in Injection(0..k, Nodes)
    BY <1>3 DEF Chain, Injection, IsInjective
<1>5. /\ 0 \in Int /\ k \in Int /\ MaxPushes \in Int
      /\ ~(0 > k) /\ ~(0 > MaxPushes)
    BY <1>1
<1>6. IsFiniteSet(Nodes) /\ Cardinality(Nodes) = MaxPushes - 0 + 1
    BY <1>5, FS_Interval DEF Nodes
<1>7. IsFiniteSet(0..k) /\ Cardinality(0..k) = k - 0 + 1
    BY <1>5, FS_Interval
<1>8. Cardinality(0..k) <= Cardinality(Nodes)
    BY <1>4, <1>6, FS_Injection
<1>9. k + 1 <= MaxPushes + 1
    BY <1>1, <1>6, <1>7, <1>8
<1> QED BY <1>1, <1>3, <1>9

(* The same after a step. *)
LEMMA ChainFitsNext ==
    (\A j \in Nat : \A q : TypeOK /\ Chain(j, q) => j \in 0..MaxPushes /\ q \in [0..j -> Nodes])'
BY ChainFits, PTL

(* What each thread has after a step. *)
LEMMA ShapeStep ==
    ASSUME QueueInv, NEW t \in Threads, Step(t)
    PROVE  \A u \in Threads : Shape(u)'
<1>0. TypeOK /\ Shape(t)
    BY DEF QueueInv
<1>a. PICK k \in Nat : \E s : Chain(k, s)
    BY BoundAssumption DEF QueueInv
<1>1. PICK s : Chain(k, s)
    BY <1>a
<1>2. ASSUME NEW u \in Threads, u # t PROVE Shape(u)'
    <2>1. /\ pc'[u] = pc[u] \/ (pc[u] = "asleep" /\ pc'[u] = "lock")
          /\ new_tail'[u] = new_tail[u] /\ answer'[u] = answer[u]
        BY <1>0, <1>2, OthersStay
    <2>2. Shape(u)
        BY DEF QueueInv
    <2>3. pc'[u] = "append" => new_tail'[u] \in 1..pushes'
        <3>1. pushes' \in {pushes, pushes + 1} /\ pushes \in Nat
            BY <1>0, BoundAssumption
            DEF TypeOK, Step, Call, Proceed, CallPush, CallOp, Push, NotifyOne,
                LockHead, FoundEmpty, FoundData, Sleep, SpuriousWakeup, PopHead, Return
        <3>2. 1..pushes \subseteq 1..pushes'
            BY <3>1
        <3> QED BY <2>1, <2>2, <3>2 DEF Shape
    <2>4. pc'[u] = "pop" => head' # tail'
        <3> SUFFICES ASSUME pc'[u] = "pop" PROVE head' # tail'
            OBVIOUS
        <3>1. pc[u] = "pop" /\ head # tail
            BY <2>1, <2>2 DEF Shape
        <3>2. ~PopHead(t)
            BY <1>0, <1>2, <3>1 DEF PopHead, TypeOK
        <3>3. CASE Push(t)
            <4>1. PICK n, r : n = new_tail[t] /\ r = Pushed(k, s, n)
                OBVIOUS
            <4> QED BY <1>1, <3>3, <4>1, PushChain
        <3>4. CASE ~Push(t)
            BY <1>1, <3>1, <3>2, <3>4, StayChain DEF list
        <3> QED BY <3>3, <3>4
    <2> QED BY <2>1, <2>2, <2>3, <2>4 DEF Shape
<1>3. Shape(t)'
    <2>1. pc'[t] = "append" => new_tail'[t] \in 1..pushes'
        <3>1. CASE CallPush(t)
            <4>1. pushes \in Nat /\ pushes' = pushes + 1 /\ new_tail'[t] = pushes + 1
                BY <1>0, <3>1, BoundAssumption DEF CallPush, TypeOK
            <4> QED BY <4>1
        <3>2. CASE ~CallPush(t)
            BY <1>0, <3>2 DEF TypeOK, Goto, Step, Call, Proceed, CallOp, Push, NotifyOne, LockHead,
               FoundEmpty, FoundData, Sleep, SpuriousWakeup, PopHead, Return
        <3> QED BY <3>1, <3>2
    <2>2. pc'[t] = "pop" => head' # tail'
        BY <1>0 DEF TypeOK, list, Goto, Step, Call, Proceed, CallPush, CallOp, Push, NotifyOne, LockHead,
               FoundEmpty, FoundData, Sleep, SpuriousWakeup, PopHead, Return
    <2>3. pc'[t] # "return" => answer'[t] = None
        BY <1>0 DEF Shape, TypeOK, Goto, Step, Call, Proceed, CallPush, CallOp, Push, NotifyOne, LockHead,
               FoundEmpty, FoundData, Sleep, SpuriousWakeup, PopHead, Return
    <2> QED BY <2>1, <2>2, <2>3 DEF Shape
<1> QED BY <1>2, <1>3

(* The invariant is inductive. *)
LEMMA QueueInvStep == QueueInv /\ [Next]_vars => QueueInv'
<1> SUFFICES ASSUME QueueInv, [Next]_vars PROVE QueueInv'
    OBVIOUS
<1>a. PICK k \in Nat : \E s : Chain(k, s)
    BY BoundAssumption DEF QueueInv
<1>1. PICK s : Chain(k, s)
    BY <1>a
<1>2. ASSUME NEW t \in Threads, Step(t) PROVE QueueInv'
    <2>1. TypeOK' /\ \A u \in Threads : Shape(u)'
        BY <1>1, <1>2, TypeStep, ShapeStep DEF QueueInv
    <2>2. \A u \in Threads, v \in Threads :
              pc'[u] = "append" /\ pc'[v] = "append" /\ new_tail'[u] = new_tail'[v] => u = v
        BY <1>2, DistinctStep
    <2>3. \E m \in Nat : \E r : Chain(m, r)'
        <3>1. CASE Push(t)
            <4>1. PICK n, r : n = new_tail[t] /\ r = Pushed(k, s, n)
                OBVIOUS
            <4>2. Chain(k + 1, r)' /\ k + 1 \in Nat
                BY <1>1, <3>1, <4>1, PushChain
            <4> QED BY <4>2
        <3>2. CASE PopHead(t)
            <4>1. PICK r : r = Popped(k, s)
                OBVIOUS
            <4>2. k # 0 /\ Chain(k - 1, r)'
                BY <1>1, <3>2, <4>1, PopChain
            <4>3. k - 1 \in Nat
                BY <4>2
            <4> QED BY <4>2, <4>3
        <3>3. CASE ~Push(t) /\ ~PopHead(t)
            BY <1>1, <1>2, <3>3, StayChain
        <3> QED BY <3>1, <3>2, <3>3
    <2>a. PICK m \in Nat : \E r : Chain(m, r)'
        BY <2>3
    <2>4. PICK r : Chain(m, r)'
        BY <2>a
    <2>5. m \in 0..MaxPushes /\ r \in [0..m -> Nodes]
        BY <2>1, <2>4, ChainFitsNext DEF Nodes
    <2> QED BY <2>1, <2>2, <2>4, <2>5 DEF QueueInv, Nodes
<1>3. CASE UNCHANGED vars
    <2>1. TypeOK' /\ \A t \in Threads : Shape(t)'
        BY <1>3 DEF QueueInv, TypeOK, Shape, vars, list
    <2>2. \A j, q : Chain(j, q) => Chain(j, q)'
        BY <1>3 DEF Chain, vars, list
    <2> QED BY <1>3, <2>1, <2>2 DEF QueueInv, Nodes, vars, list
<1> QED BY <1>2, <1>3 DEF Next, Step

(* The program starts with the dummy alone. *)
LEMMA QueueInvInit == Init => QueueInv
<1> SUFFICES ASSUME Init PROVE QueueInv
    OBVIOUS
<1>1. TypeOK
    BY BoundAssumption, DistinctAssumption DEF Init, TypeOK, PCs
<1>2. \A t \in Threads : Shape(t)
    BY DEF Init, Shape
<1>3. PICK s : s = [i \in 0..0 |-> 0]
    OBVIOUS
<1>4. Chain(0, s) /\ s \in [0..0 -> Nodes]
    BY <1>3, BoundAssumption DEF Init, Chain, Nodes
<1>5. 0 \in 0..MaxPushes
    BY BoundAssumption
<1> QED BY <1>1, <1>2, <1>4, <1>5 DEF QueueInv, Init

-----------------------------------------------------------------------------
(* The walk from the head *)

(* From follows the links and stays at the dummy. *)
LEMMA WalkFollows ==
    ASSUME TypeOK, NEW k \in Nat, NEW s, Chain(k, s)
    PROVE  /\ k \in 0..MaxPushes
           /\ \A i \in 0..MaxPushes : From[i] = IF i <= k THEN s[i] ELSE tail
<1> DEFINE w == [i \in 0..MaxPushes |-> IF i <= k THEN s[i] ELSE tail]
<1>1. k \in 0..MaxPushes /\ MaxPushes \in Nat
    BY ChainFits, BoundAssumption
<1>2. w = [i \in 0..MaxPushes |->
              IF i = 0 THEN head ELSE IF w[i - 1] = tail THEN tail ELSE next[w[i - 1]]]
    <2> SUFFICES ASSUME NEW i \in 0..MaxPushes
                 PROVE  w[i] = IF i = 0 THEN head ELSE IF w[i - 1] = tail THEN tail ELSE next[w[i - 1]]
        OBVIOUS
    <2>1. CASE i = 0
        BY <1>1, <2>1 DEF Chain
    <2>2. CASE i # 0 /\ i <= k
        <3>1. /\ i - 1 \in 0..MaxPushes /\ i - 1 \in 0..(k - 1) /\ i - 1 <= k /\ i - 1 \in 0..k
              /\ k \in 0..k /\ i - 1 # k /\ (i - 1) + 1 = i
            BY <1>1, <2>2
        <3>2. w[i - 1] = s[i - 1] /\ w[i] = s[i]
            BY <2>2, <3>1
        <3>3. s[i - 1] # tail /\ next[s[i - 1]] = s[i]
            BY <3>1 DEF Chain
        <3> QED BY <2>2, <3>2, <3>3
    <2>3. CASE i # 0 /\ ~(i <= k)
        <3>1. i - 1 \in 0..MaxPushes /\ (i - 1 <= k => i - 1 = k)
            BY <1>1, <2>3
        <3>2. w[i] = tail /\ w[i - 1] = tail
            BY <2>3, <3>1 DEF Chain
        <3> QED BY <2>3, <3>2
    <2> QED BY <2>1, <2>2, <2>3
<1> HIDE DEF w
<1>3. From = [i \in 0..MaxPushes |->
                 IF i = 0 THEN head ELSE IF From[i - 1] = tail THEN tail ELSE next[From[i - 1]]]
    BY <1>2, Zenon DEF From
<1> DEFINE T == {i \in 0..MaxPushes : From[i] = w[i]}
<1>4. 0 \in T
    <2>1. 0 \in 0..MaxPushes
        BY <1>1
    <2>2. From[0] = head
        BY <1>3, <2>1
    <2>3. w[0] = head
        BY <1>2, <2>1
    <2> QED BY <2>1, <2>2, <2>3
<1>5. ASSUME NEW i \in 0..(MaxPushes - 1), i \in T PROVE i + 1 \in T
    <2>1. i + 1 \in 0..MaxPushes /\ i + 1 # 0 /\ (i + 1) - 1 = i
        BY <1>1
    <2>2. From[i + 1] = IF From[i] = tail THEN tail ELSE next[From[i]]
        BY <1>3, <2>1
    <2>3. w[i + 1] = IF w[i] = tail THEN tail ELSE next[w[i]]
        BY <1>2, <2>1
    <2> QED BY <1>5, <2>1, <2>2, <2>3
<1>6. \A i \in 0..MaxPushes : i \in T
    <2>1. 0 \in Nat /\ MaxPushes \in Nat
        BY <1>1
    <2> HIDE DEF T
    <2> QED BY <1>4, <1>5, <2>1, IntervalInduction
<1> QED BY <1>1, <1>6 DEF w

(* The values of the nodes of a list. *)
ValuesOf(k, s) == [i \in 1..k |-> data[s[i - 1]]]

(* What the model reads off the links. *)
LEMMA WalkFinds ==
    \A j \in Nat : \A q : TypeOK /\ Chain(j, q) => Contents = ValuesOf(j, q)
<1> SUFFICES ASSUME TypeOK, NEW k \in Nat, NEW s, Chain(k, s) PROVE Contents = ValuesOf(k, s)
    OBVIOUS
<1>1. /\ k \in 0..MaxPushes /\ MaxPushes \in Nat
      /\ \A i \in 0..MaxPushes : From[i] = IF i <= k THEN s[i] ELSE tail
    BY WalkFollows, BoundAssumption
<1>2. \A i \in 0..k : i \in 0..MaxPushes /\ From[i] = s[i]
    BY <1>1
<1>3. From[k] = tail
    BY <1>2 DEF Chain
<1>4. \A i \in 0..(k - 1) : From[i] # tail
    <2>1. \A i \in 0..(k - 1) : i \in 0..k /\ k \in 0..k /\ i # k
        OBVIOUS
    <2> QED BY <1>2, <2>1 DEF Chain
<1>5. Size = k
    <2> DEFINE First(i) == From[i] = tail /\ \A j \in 0..(i - 1) : From[j] # tail
    <2>1. First(k)
        BY <1>3, <1>4
    <2>2. ASSUME NEW i \in 0..MaxPushes, First(i) PROVE i = k
        <3>1. ~(i < k)
            BY <1>4, <2>2
        <3>2. ~(k < i)
            BY <1>3, <2>2
        <3> QED BY <1>1, <3>1, <3>2
    <2> HIDE DEF First
    <2>3. Size = CHOOSE i \in 0..MaxPushes : First(i)
        BY Zenon DEF Size, First
    <2> QED BY <1>1, <2>1, <2>2, <2>3
<1>6. \A i \in 1..k : From[i - 1] = s[i - 1]
    BY <1>2
<1> QED BY <1>5, <1>6 DEF Contents, ValuesOf

(* The same after a step. *)
LEMMA WalkFindsNext ==
    (\A j \in Nat : \A q : TypeOK /\ Chain(j, q) => Contents = ValuesOf(j, q))'
BY WalkFinds, PTL

(* They are values that were pushed. *)
LEMMA ContentsSeq ==
    ASSUME NEW k \in Nat, NEW s, Chain(k, s)
    PROVE  ValuesOf(k, s) \in Seq(Values) /\ Len(ValuesOf(k, s)) = k
<1>1. \A i \in 1..k : i - 1 \in 0..(k - 1)
    OBVIOUS
<1>2. ValuesOf(k, s) \in [1..k -> Values]
    BY <1>1 DEF Chain, ValuesOf
<1> QED BY <1>2

-----------------------------------------------------------------------------
(* Refinement *)

(* Every step is a step of the abstract queue or leaves it unchanged.      *)
LEMMA QueueRefined ==
    QueueInv /\ QueueInv' /\ [Next]_vars => [AbstractQueue!Next]_<<Contents, answer>>
<1> SUFFICES ASSUME QueueInv, QueueInv', [Next]_vars
             PROVE  AbstractQueue!Next \/ (Contents' = Contents /\ answer' = answer)
    OBVIOUS
<1>a. PICK k \in Nat : \E s : Chain(k, s)
    BY BoundAssumption DEF QueueInv
<1>1. PICK s : Chain(k, s)
    BY <1>a
<1>2. TypeOK /\ TypeOK'
    BY DEF QueueInv
<1>3. Contents = ValuesOf(k, s)
    BY <1>1, <1>2, WalkFinds
<1>4. Contents \in Seq(Values) /\ Len(Contents) = k
    BY <1>1, <1>3, ContentsSeq
<1>5. ASSUME NEW t \in Threads, Step(t)
      PROVE  AbstractQueue!Next \/ (Contents' = Contents /\ answer' = answer)
    <2>0. Shape(t)
        BY DEF QueueInv
    <2>1. CASE Push(t)
        <3>1. PICK n : n = new_tail[t]
            OBVIOUS
        <3>2. PICK r : r = Pushed(k, s, n)
            OBVIOUS
        <3>3. /\ Chain(k + 1, r)' /\ k + 1 \in Nat
              /\ \A i \in 0..(k - 1) : data'[s[i]] = data[s[i]]
              /\ data'[tail] = n /\ n \in Values
            BY <1>1, <2>1, <3>1, <3>2, PushChain
        <3>4. Contents' = ValuesOf(k + 1, r)'
            BY <1>2, <3>3, WalkFindsNext
        <3>5. \A i \in 1..(k + 1) : data'[r[i - 1]] = IF i = k + 1 THEN n ELSE Contents[i]
            <4> SUFFICES ASSUME NEW i \in 1..(k + 1)
                         PROVE  data'[r[i - 1]] = IF i = k + 1 THEN n ELSE Contents[i]
                OBVIOUS
            <4>1. i - 1 \in 0..(k + 1) /\ i - 1 # k + 1
                OBVIOUS
            <4>2. r[i - 1] = s[i - 1]
                BY <3>2, <4>1 DEF Pushed
            <4>3. CASE i = k + 1
                <5>1. s[i - 1] = tail
                    BY <1>1, <4>3 DEF Chain
                <5> QED BY <3>3, <4>2, <4>3, <5>1
            <4>4. CASE i # k + 1
                <5>1. i \in 1..k /\ i - 1 \in 0..(k - 1)
                    BY <4>4
                <5>2. Contents[i] = data[s[i - 1]]
                    BY <1>3, <5>1 DEF ValuesOf
                <5> QED BY <3>3, <4>2, <4>4, <5>1, <5>2
            <4> QED BY <4>3, <4>4
        <3>6. Contents' = [i \in 1..(k + 1) |-> IF i = k + 1 THEN n ELSE Contents[i]]
            BY <3>4, <3>5 DEF ValuesOf
        <3>7. Contents' = Append(Contents, n)
            BY <1>4, <3>3, <3>6, AppendByIndex
        <3>8. answer' = answer
            BY <2>1 DEF Push
        <3> QED BY <3>3, <3>7, <3>8 DEF AbstractQueue!Next, AbstractQueue!Push
    <2>2. CASE PopHead(t)
        <3>1. PICK r : r = Popped(k, s)
            OBVIOUS
        <3>2. k # 0 /\ Chain(k - 1, r)'
            BY <1>1, <2>2, <3>1, PopChain
        <3>3. Contents' = ValuesOf(k - 1, r)' /\ k - 1 \in Nat
            <4>1. k - 1 \in Nat
                BY <3>2
            <4> QED BY <1>2, <3>2, <4>1, WalkFindsNext
        <3>4. Contents # << >> /\ 1 \in 1..k
            BY <1>4, <3>2
        <3>5. \A i \in 1..(k - 1) : data'[r[i - 1]] = Contents[i + 1]
            <4> SUFFICES ASSUME NEW i \in 1..(k - 1) PROVE data'[r[i - 1]] = Contents[i + 1]
                OBVIOUS
            <4>1. i - 1 \in 0..(k - 1) /\ i + 1 \in 1..k /\ (i - 1) + 1 = i /\ (i + 1) - 1 = i
                OBVIOUS
            <4>2. r[i - 1] = s[i] /\ Contents[i + 1] = data[s[i]]
                BY <1>3, <3>1, <4>1 DEF Popped, ValuesOf
            <4> QED BY <2>2, <4>2 DEF PopHead
        <3>6. Contents' = [i \in 1..(k - 1) |-> Contents[i + 1]]
            BY <3>3, <3>5 DEF ValuesOf
        <3>7. Contents' = Tail(Contents)
            BY <1>4, <3>4, <3>6, TailByIndex
        <3>8. data[head] = Head(Contents)
            <4>1. Contents[1] = data[s[1 - 1]] /\ 1 - 1 = 0
                BY <1>3, <3>4 DEF ValuesOf
            <4>2. s[0] = head
                BY <1>1 DEF Chain
            <4> QED BY <1>4, <3>4, <4>1, <4>2
        <3>9. answer[t] = None /\ answer' = [answer EXCEPT ![t] = Head(Contents)]
            BY <2>0, <2>2, <3>8 DEF PopHead, Shape
        <3> QED BY <3>4, <3>7, <3>9 DEF AbstractQueue!Next, AbstractQueue!Pop, AbstractQueue!Answer
    <2>3. CASE ~Push(t) /\ ~PopHead(t)
        <3>1. Chain(k, s)' /\ list' = list
            BY <1>1, <1>5, <2>3, StayChain
        <3>2. Contents' = ValuesOf(k, s)'
            BY <1>2, <3>1, WalkFindsNext
        <3>3. Contents' = Contents
            BY <1>3, <3>1, <3>2 DEF ValuesOf, list
        <3>4. CASE FoundEmpty(t) /\ op[t] # "wait_and_pop"
            <4>1. head = tail /\ answer[t] = None /\ answer' = [answer EXCEPT ![t] = Empty]
                BY <2>0, <3>4 DEF FoundEmpty, Shape
            <4>2. k = 0
                <5>1. s[0] = s[k] /\ 0 \in 0..k /\ k \in 0..k
                    BY <1>1, <4>1 DEF Chain
                <5> QED BY <1>1, <5>1 DEF Chain
            <4>3. Contents = << >>
                BY <1>4, <4>2, EmptySeq
            <4> QED BY <3>3, <4>1, <4>3 DEF AbstractQueue!Next, AbstractQueue!SeeEmpty, AbstractQueue!Answer
        <3>5. CASE Return(t)
            <4>1. answer' = [answer EXCEPT ![t] = None]
                BY <3>5 DEF Return
            <4> QED BY <3>3, <4>1 DEF AbstractQueue!Next, AbstractQueue!Return
        <3>6. CASE ~(FoundEmpty(t) /\ op[t] # "wait_and_pop") /\ ~Return(t)
            <4>1. answer' = answer
                BY <1>5, <2>3, <3>6 DEF Step, Call, Proceed, CallPush, CallOp, NotifyOne, LockHead,
                   FoundEmpty, FoundData, Sleep, SpuriousWakeup
            <4> QED BY <3>3, <4>1
        <3> QED BY <3>4, <3>5, <3>6
    <2> QED BY <2>1, <2>2, <2>3
<1>6. CASE UNCHANGED vars
    <2>1. Chain(k, s)'
        BY <1>1, <1>6 DEF Chain, vars, list
    <2>2. Contents' = ValuesOf(k, s)'
        BY <1>2, <2>1, WalkFindsNext
    <2>3. Contents' = Contents
        BY <1>3, <1>6, <2>2 DEF ValuesOf, vars, list
    <2> QED BY <1>6, <2>3 DEF vars
<1> QED BY <1>5, <1>6 DEF Next, Step

(* An empty queue, and no answers. *)
LEMMA QueueRefinedInit == Init => AbstractQueue!Init
<1> SUFFICES ASSUME Init PROVE AbstractQueue!Init
    OBVIOUS
<1>1. TypeOK
    BY QueueInvInit DEF QueueInv
<1>2. PICK s : s = [i \in 0..0 |-> 0]
    OBVIOUS
<1>3. Chain(0, s) /\ 0 \in Nat
    BY <1>2, BoundAssumption DEF Init, Chain
<1>4. Contents = ValuesOf(0, s)
    BY <1>1, <1>3, WalkFinds
<1>5. Contents = << >>
    BY <1>4 DEF ValuesOf
<1> QED BY <1>5 DEF AbstractQueue!Init, Init

-----------------------------------------------------------------------------
(* The theorems *)

(* The state is well typed, and one thread at a time is in the critical    *)
(* section of head_mutex_, from its lock to its unlock or its sleep.       *)
THEOREM TypeCorrect == Spec => []TypeOK
<1>1. QueueInv => TypeOK
    BY DEF QueueInv
<1> QED BY <1>1, QueueInvInit, QueueInvStep, PTL DEF Spec

(* threadsafe_queue is a queue: every behaviour of push, wait_and_pop,     *)
(* try_pop and empty is a behaviour of FifoQueue, though head and tail     *)
(* have a mutex each and pop_head does not look at the tail again.         *)
THEOREM QueueImplemented == Spec => ImplementsQueue
<1>1. QueueInv /\ QueueInv' /\ [Next]_vars => [AbstractQueue!Next]_<<Contents, answer>>
    BY QueueRefined
<1> QED BY <1>1, QueueRefinedInit, QueueInvInit, QueueInvStep, PTL
        DEF Spec, ImplementsQueue, AbstractQueue!Spec

=============================================================================
