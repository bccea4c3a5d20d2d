------------------------ MODULE BlockingQueueProofs ------------------------
(***************************************************************************)
(* Proofs about blocking_queue for every number of threads, every capacity *)
(* and every number of calls: types and capacity, and that notifying after *)
(* unlocking loses no wakeup.                                              *)
(***************************************************************************)
EXTENDS BlockingQueue, Integers, FiniteSetTheorems, TLAPS

-----------------------------------------------------------------------------
(* Types *)

(* The type invariant, which bounds the queue by capacity_, is preserved   *)
(* by every step of every operation.                                       *)
LEMMA TypeStep == TypeOK /\ [Next]_vars => TypeOK'
<1> SUFFICES ASSUME TypeOK, [Next]_vars PROVE TypeOK'
    OBVIOUS
<1> USE CapacityAssumption, BoundAssumption DEF TypeOK, PCs, Goto, Full
<1>0. Seq(1..calls) \subseteq Seq(1..(calls + 1))
    OBVIOUS
<1>1. ASSUME NEW t \in Threads, CallPush(t) PROVE TypeOK'
    BY <1>1, <1>0 DEF CallPush
<1>2. ASSUME NEW t \in Threads, TryPush(t) PROVE TypeOK'
    <2>1. CASE UNCHANGED <<data_, pc>>
        BY <1>2, <2>1, <1>0 DEF TryPush
    <2>2. CASE ~Full /\ data_' = Append(data_, calls + 1) /\ Goto(t, "notify_not_empty")
        <3>1. data_' \in Seq(1..(calls + 1)) /\ Len(data_') = Len(data_) + 1
            BY <1>0, <2>2
        <3> QED BY <1>2, <2>2, <3>1 DEF TryPush
    <2> QED BY <1>2, <2>1, <2>2 DEF TryPush
<1>3. ASSUME NEW t \in Threads, CallWaitAndPop(t) PROVE TypeOK'
    BY <1>3 DEF CallWaitAndPop
<1>4. ASSUME NEW t \in Threads, TryPop(t) PROVE TypeOK'
    BY <1>4 DEF TryPop
<1>5. ASSUME NEW t \in Threads, PushWait(t) PROVE TypeOK'
    BY <1>5 DEF PushWait
<1>6. ASSUME NEW t \in Threads, Push(t) PROVE TypeOK'
    <2>1. arg[t] \in 1..calls
        BY <1>6 DEF Push
    <2>2. data_' \in Seq(1..calls) /\ Len(data_') = Len(data_) + 1
        BY <1>6, <2>1 DEF Push
    <2> QED BY <1>6, <2>2 DEF Push
<1>7. ASSUME NEW t \in Threads, WaitAndPopWait(t) PROVE TypeOK'
    BY <1>7 DEF WaitAndPopWait
<1>8. ASSUME NEW t \in Threads, WaitAndPop(t) PROVE TypeOK'
    BY <1>8 DEF WaitAndPop
<1>9. ASSUME NEW t \in Threads, NotifyNotEmpty(t) PROVE TypeOK'
    BY <1>9 DEF NotifyNotEmpty, NotifyOne, At
<1>10. ASSUME NEW t \in Threads, NotifyNotFull(t) PROVE TypeOK'
    BY <1>10 DEF NotifyNotFull, NotifyOne, At
<1>11. ASSUME NEW t \in Threads, SpuriousWakeup(t) PROVE TypeOK'
    BY <1>11 DEF SpuriousWakeup
<1>12. CASE UNCHANGED vars
    BY <1>12 DEF vars
<1> QED
    BY <1>1, <1>2, <1>3, <1>4, <1>5, <1>6, <1>7, <1>8, <1>9, <1>10, <1>11, <1>12
       DEF Next, Call, Proceed

(* blocking_queue keeps its types and never holds more than capacity_      *)
(* elements, however woken and barging producers interleave.               *)
THEOREM TypeCorrect == Spec => []TypeOK
<1>1. Init => TypeOK
    BY CapacityAssumption, BoundAssumption DEF Init, TypeOK, PCs
<1> QED
    BY <1>1, TypeStep, PTL DEF Spec

-----------------------------------------------------------------------------
(* How many threads stand at a label *)

Count(f, l) == Cardinality({t \in Threads : f[t] = l})

(* The threads at a label are finitely many: their number is natural. *)
LEMMA CountType ==
    ASSUME NEW f, NEW l
    PROVE  /\ IsFiniteSet({t \in Threads : f[t] = l})
           /\ Count(f, l) \in Nat
<1>1. {t \in Threads : f[t] = l} \in SUBSET Threads
    OBVIOUS
<1> QED
    BY <1>1, ThreadsAssumption, FS_Subset, FS_CardinalityType DEF Count

(* Count is the cardinality of the model's At, zero when At is empty. *)
LEMMA AtCount ==
    ASSUME NEW l
    PROVE  Cardinality(At(l)) = Count(pc, l) /\ (At(l) = {} <=> Count(pc, l) = 0)
BY CountType, FS_EmptySet DEF At, Count

Moves(f, g, t, from, to) ==
    /\ t \in Threads
    /\ f \in [Threads -> PCs]
    /\ from # to
    /\ f[t] = from
    /\ g = [f EXCEPT ![t] = to]

(* A thread that goes from one label to another is counted once less at    *)
(* the first and once more at the second; no other count changes.          *)
LEMMA MoveCounts ==
    ASSUME NEW f, NEW g, NEW t, NEW from, NEW to, Moves(f, g, t, from, to)
    PROVE  /\ Count(g, to) = Count(f, to) + 1
           /\ Count(g, from) = Count(f, from) - 1
           /\ \A l : l # from /\ l # to => Count(g, l) = Count(f, l)
<1> DEFINE A(h, l) == {s \in Threads : h[s] = l}
<1>1. /\ A(g, to) = A(f, to) \cup {t} /\ t \notin A(f, to)
      /\ A(g, from) = A(f, from) \ {t} /\ t \in A(f, from)
      /\ \A l : l # from /\ l # to => A(g, l) = A(f, l)
    BY DEF Moves
<1>2. /\ IsFiniteSet(A(f, to)) /\ IsFiniteSet(A(f, from))
      /\ \A h, l : Count(h, l) = Cardinality(A(h, l))
    BY CountType DEF Count
<1> HIDE DEF A
<1>3. Cardinality(A(f, to) \cup {t}) = Cardinality(A(f, to)) + 1
    BY <1>1, <1>2, FS_AddElement
<1>4. Cardinality(A(f, from) \ {t}) = Cardinality(A(f, from)) - 1
    BY <1>1, <1>2, FS_RemoveElement
<1> QED BY <1>1, <1>2, <1>3, <1>4

-----------------------------------------------------------------------------
(* No wakeup is lost *)

NoLostWakeup == NoLostConsumerWakeup /\ NoLostProducerWakeup

(* NoLostWakeup in terms of counts and the length of the queue. *)
ConsumerBound(f, n) ==
    Count(f, "not_empty_") > 0 => n <= Count(f, "notify_not_empty") + Count(f, "pop")

ProducerBound(f, n) ==
    Count(f, "not_full_") > 0 =>
        capacity_ <= n + Count(f, "notify_not_full") + Count(f, "push")

Bound(f, n) == ConsumerBound(f, n) /\ ProducerBound(f, n)

(* The two forms agree in every state. *)
LEMMA BoundEquiv == NoLostWakeup <=> Bound(pc, Len(data_))
<1>1. \A l : Count(pc, l) \in Nat
    BY CountType
<1> QED
    BY <1>1, AtCount DEF NoLostWakeup, NoLostConsumerWakeup, NoLostProducerWakeup,
                         Bound, ConsumerBound, ProducerBound

(* What the labels a thread moves between mean for the two bounds: n is    *)
(* the length of the queue before the move and m after it.                 *)
LEMMA MoveBounds ==
    ASSUME NEW f, NEW g, NEW t, NEW from, NEW to, Moves(f, g, t, from, to),
           NEW n \in Int, NEW m \in Int
    PROVE  /\ /\ ConsumerBound(f, n)
              /\ \/ to = "not_empty_" /\ m <= 0
                 \/ /\ to # "not_empty_"
                    /\ m <= n + (IF to \in {"notify_not_empty", "pop"} THEN 1 ELSE 0)
                              - (IF from \in {"notify_not_empty", "pop"} THEN 1 ELSE 0)
              => ConsumerBound(g, m)
           /\ /\ ProducerBound(f, n)
              /\ \/ to = "not_full_" /\ m >= capacity_
                 \/ /\ to # "not_full_"
                    /\ n <= m + (IF to \in {"notify_not_full", "push"} THEN 1 ELSE 0)
                              - (IF from \in {"notify_not_full", "push"} THEN 1 ELSE 0)
              => ProducerBound(g, m)
<1>0. /\ \A l : Count(f, l) \in Nat
      /\ \A l : Count(g, l) \in Nat
    BY CountType
<1>1. \A l : Count(g, l) = Count(f, l) + (IF l = to THEN 1 ELSE 0)
                                       - (IF l = from THEN 1 ELSE 0)
    <2> SUFFICES ASSUME NEW l
                 PROVE  Count(g, l) = Count(f, l) + (IF l = to THEN 1 ELSE 0)
                                                  - (IF l = from THEN 1 ELSE 0)
        OBVIOUS
    <2>1. from # to /\ Count(f, l) \in Nat
        BY CountType DEF Moves
    <2>2. CASE l = to
        BY <2>1, <2>2, MoveCounts
    <2>3. CASE l = from
        BY <2>1, <2>3, MoveCounts
    <2>4. CASE l # to /\ l # from
        BY <2>1, <2>4, MoveCounts
    <2> QED BY <2>2, <2>3, <2>4
<1>2. from # to
    BY DEF Moves
<1> DEFINE e(h) == Count(h, "not_empty_")    c(h) == Count(h, "notify_not_empty")
           p(h) == Count(h, "pop")           u(h) == Count(h, "not_full_")
           d(h) == Count(h, "notify_not_full")  q(h) == Count(h, "push")
<1>3. /\ e(f) \in Nat /\ e(g) \in Nat /\ e(g) <= e(f) + (IF to = "not_empty_" THEN 1 ELSE 0)
      /\ c(f) \in Nat /\ c(g) \in Nat /\ p(f) \in Nat /\ p(g) \in Nat
      /\ c(g) + p(g) = c(f) + p(f)
            + (IF to \in {"notify_not_empty", "pop"} THEN 1 ELSE 0)
            - (IF from \in {"notify_not_empty", "pop"} THEN 1 ELSE 0)
    BY <1>0, <1>1, <1>2
<1>4. /\ u(f) \in Nat /\ u(g) \in Nat /\ u(g) <= u(f) + (IF to = "not_full_" THEN 1 ELSE 0)
      /\ d(f) \in Nat /\ d(g) \in Nat /\ q(f) \in Nat /\ q(g) \in Nat
      /\ d(g) + q(g) = d(f) + q(f)
            + (IF to \in {"notify_not_full", "push"} THEN 1 ELSE 0)
            - (IF from \in {"notify_not_full", "push"} THEN 1 ELSE 0)
    BY <1>0, <1>1, <1>2
<1> HIDE DEF e, c, p, u, d, q
<1>5. ASSUME e(f) > 0 => n <= c(f) + p(f),
             \/ to = "not_empty_" /\ m <= 0
             \/ /\ to # "not_empty_"
                /\ m <= n + (IF to \in {"notify_not_empty", "pop"} THEN 1 ELSE 0)
                        - (IF from \in {"notify_not_empty", "pop"} THEN 1 ELSE 0)
      PROVE  e(g) > 0 => m <= c(g) + p(g)
    BY <1>3, <1>5
<1>6. ASSUME u(f) > 0 => capacity_ <= n + d(f) + q(f),
             \/ to = "not_full_" /\ m >= capacity_
             \/ /\ to # "not_full_"
                /\ n <= m + (IF to \in {"notify_not_full", "push"} THEN 1 ELSE 0)
                        - (IF from \in {"notify_not_full", "push"} THEN 1 ELSE 0)
      PROVE  u(g) > 0 => capacity_ <= m + d(g) + q(g)
    BY <1>4, <1>6, CapacityAssumption
<1> QED
    BY <1>5, <1>6 DEF ConsumerBound, ProducerBound, e, c, p, u, d, q

(* NoLostWakeup is inductive relative to the types: a step that adds an    *)
(* element (a free slot) also adds a notify_one to come, a notify_one that *)
(* finds a sleeper turns into a thread about to look, and a thread that    *)
(* looked either takes the element or goes to sleep with none left.        *)
LEMMA WakeupStep == TypeOK /\ NoLostWakeup /\ [Next]_vars => Bound(pc', Len(data_'))
<1> SUFFICES ASSUME TypeOK, NoLostWakeup, [Next]_vars PROVE Bound(pc', Len(data_'))
    OBVIOUS
<1>0. /\ Len(data_) \in Nat /\ Len(data_) <= capacity_ /\ capacity_ \in Nat
      /\ ConsumerBound(pc, Len(data_)) /\ ProducerBound(pc, Len(data_))
      /\ pc \in [Threads -> PCs]
    BY BoundEquiv, CapacityAssumption DEF TypeOK, Bound
<1> USE DEF Bound
<1>1. ASSUME NEW t \in Threads, CallPush(t) PROVE Bound(pc', Len(data_'))
    <2>1. Moves(pc, pc', t, "idle", "push")
        BY <1>0, <1>1 DEF CallPush, Goto, Moves
    <2>2. Len(data_') = Len(data_)
        BY <1>0, <1>1 DEF CallPush, TypeOK
    <2> QED BY <1>0, <2>1, <2>2, MoveBounds
<1>2. ASSUME NEW t \in Threads, TryPush(t) PROVE Bound(pc', Len(data_'))
    <2>1. CASE UNCHANGED <<data_, pc>>
        BY <2>1, <1>0
    <2>2. CASE ~Full /\ data_' = Append(data_, calls + 1) /\ Goto(t, "notify_not_empty")
        <3>1. Moves(pc, pc', t, "idle", "notify_not_empty")
            BY <1>0, <1>2, <2>2 DEF TryPush, Goto, Moves
        <3>2. Len(data_') = Len(data_) + 1
            BY <2>2 DEF TypeOK
        <3> QED BY <1>0, <3>1, <3>2, MoveBounds
    <2> QED BY <1>2, <2>1, <2>2 DEF TryPush
<1>3. ASSUME NEW t \in Threads, CallWaitAndPop(t) PROVE Bound(pc', Len(data_'))
    <2>1. Moves(pc, pc', t, "idle", "pop")
        BY <1>0, <1>3 DEF CallWaitAndPop, Goto, Moves
    <2>2. Len(data_') = Len(data_)
        BY <1>0, <1>3 DEF CallWaitAndPop, TypeOK
    <2> QED BY <1>0, <2>1, <2>2, MoveBounds
<1>4. ASSUME NEW t \in Threads, TryPop(t) PROVE Bound(pc', Len(data_'))
    <2>1. Moves(pc, pc', t, "idle", "notify_not_full")
        BY <1>0, <1>4 DEF TryPop, Goto, Moves
    <2>2. Len(data_') = Len(data_) - 1 /\ Len(data_') \in Nat
        BY <1>0, <1>4 DEF TryPop, TypeOK
    <2> QED BY <1>0, <2>1, <2>2, MoveBounds
<1>5. ASSUME NEW t \in Threads, PushWait(t) PROVE Bound(pc', Len(data_'))
    <2>1. Moves(pc, pc', t, "push", "not_full_")
        BY <1>0, <1>5 DEF PushWait, Goto, Moves
    <2>2. Len(data_') = Len(data_) /\ Len(data_) = capacity_
        BY <1>0, <1>5 DEF PushWait, TypeOK, Full
    <2> QED BY <1>0, <2>1, <2>2, MoveBounds
<1>6. ASSUME NEW t \in Threads, Push(t) PROVE Bound(pc', Len(data_'))
    <2>1. Moves(pc, pc', t, "push", "notify_not_empty")
        BY <1>0, <1>6 DEF Push, Goto, Moves
    <2>2. Len(data_') = Len(data_) + 1
        BY <1>0, <1>6 DEF Push, TypeOK
    <2> QED BY <1>0, <2>1, <2>2, MoveBounds
<1>7. ASSUME NEW t \in Threads, WaitAndPopWait(t) PROVE Bound(pc', Len(data_'))
    <2>1. Moves(pc, pc', t, "pop", "not_empty_")
        BY <1>0, <1>7 DEF WaitAndPopWait, Goto, Moves
    <2>2. Len(data_') = 0 /\ Len(data_) = 0
        BY <1>0, <1>7 DEF WaitAndPopWait, TypeOK
    <2> QED BY <1>0, <2>1, <2>2, MoveBounds
<1>8. ASSUME NEW t \in Threads, WaitAndPop(t) PROVE Bound(pc', Len(data_'))
    <2>1. Moves(pc, pc', t, "pop", "notify_not_full")
        BY <1>0, <1>8 DEF WaitAndPop, Goto, Moves
    <2>2. Len(data_') = Len(data_) - 1 /\ Len(data_') \in Nat
        BY <1>0, <1>8 DEF WaitAndPop, TypeOK
    <2> QED BY <1>0, <2>1, <2>2, MoveBounds
<1>9. ASSUME NEW t \in Threads, NotifyNotEmpty(t) PROVE Bound(pc', Len(data_'))
    <2>1. pc[t] = "notify_not_empty" /\ Len(data_') = Len(data_)
        BY <1>9 DEF NotifyNotEmpty, NotifyOne
    <2>2. CASE At("not_empty_") = {} /\ Goto(t, "idle")
        <3>1. Moves(pc, pc', t, "notify_not_empty", "idle")
            BY <1>0, <2>1, <2>2 DEF Goto, Moves
        <3>2. Count(pc', "not_empty_") = 0
            BY <2>2, <3>1, AtCount, MoveCounts
        <3>3. ConsumerBound(pc', Len(data_'))
            BY <3>2 DEF ConsumerBound
        <3> QED BY <1>0, <2>1, <3>1, <3>3, MoveBounds
    <2>3. ASSUME NEW s \in At("not_empty_"), pc' = [pc EXCEPT ![t] = "idle", ![s] = "pop"]
          PROVE  Bound(pc', Len(data_'))
        <3> DEFINE mid == [pc EXCEPT ![s] = "pop"]
        <3>1. s \in Threads /\ pc[s] = "not_empty_" /\ s # t
            BY <2>1 DEF At
        <3>2. Moves(pc, mid, s, "not_empty_", "pop")
            BY <1>0, <3>1 DEF Moves
        <3>3. Moves(mid, pc', t, "notify_not_empty", "idle")
            BY <1>0, <2>1, <2>3, <3>1 DEF Moves, PCs
        <3> HIDE DEF mid
        <3>4. ProducerBound(pc', Len(data_'))
            <4>1. ProducerBound(mid, Len(data_))
                BY <1>0, <3>2, MoveBounds
            <4> QED BY <1>0, <2>1, <3>3, <4>1, MoveBounds
        <3>5. ConsumerBound(pc', Len(data_'))
            <4>1. ConsumerBound(mid, Len(data_) + 1)
                BY <1>0, <3>2, MoveBounds
            <4> QED BY <1>0, <2>1, <3>3, <4>1, MoveBounds
        <3> QED BY <3>4, <3>5
    <2> QED BY <1>9, <2>2, <2>3 DEF NotifyNotEmpty, NotifyOne
<1>10. ASSUME NEW t \in Threads, NotifyNotFull(t) PROVE Bound(pc', Len(data_'))
    <2>1. pc[t] = "notify_not_full" /\ Len(data_') = Len(data_)
        BY <1>10 DEF NotifyNotFull, NotifyOne
    <2>2. CASE At("not_full_") = {} /\ Goto(t, "idle")
        <3>1. Moves(pc, pc', t, "notify_not_full", "idle")
            BY <1>0, <2>1, <2>2 DEF Goto, Moves
        <3>2. Count(pc', "not_full_") = 0
            BY <2>2, <3>1, AtCount, MoveCounts
        <3>3. ProducerBound(pc', Len(data_'))
            BY <3>2 DEF ProducerBound
        <3> QED BY <1>0, <2>1, <3>1, <3>3, MoveBounds
    <2>3. ASSUME NEW s \in At("not_full_"), pc' = [pc EXCEPT ![t] = "idle", ![s] = "push"]
          PROVE  Bound(pc', Len(data_'))
        <3> DEFINE mid == [pc EXCEPT ![s] = "push"]
        <3>1. s \in Threads /\ pc[s] = "not_full_" /\ s # t
            BY <2>1 DEF At
        <3>2. Moves(pc, mid, s, "not_full_", "push")
            BY <1>0, <3>1 DEF Moves
        <3>3. Moves(mid, pc', t, "notify_not_full", "idle")
            BY <1>0, <2>1, <2>3, <3>1 DEF Moves, PCs
        <3> HIDE DEF mid
        <3>4. ConsumerBound(pc', Len(data_'))
            <4>1. ConsumerBound(mid, Len(data_))
                BY <1>0, <3>2, MoveBounds
            <4> QED BY <1>0, <2>1, <3>3, <4>1, MoveBounds
        <3>5. ProducerBound(pc', Len(data_'))
            <4>1. ProducerBound(mid, Len(data_) - 1)
                BY <1>0, <3>2, MoveBounds
            <4> QED BY <1>0, <2>1, <3>3, <4>1, MoveBounds
        <3> QED BY <3>4, <3>5
    <2> QED BY <1>10, <2>2, <2>3 DEF NotifyNotFull, NotifyOne
<1>11. ASSUME NEW t \in Threads, SpuriousWakeup(t) PROVE Bound(pc', Len(data_'))
    <2>1. \/ Moves(pc, pc', t, "not_empty_", "pop")
          \/ Moves(pc, pc', t, "not_full_", "push")
        BY <1>0, <1>11 DEF SpuriousWakeup, Goto, Moves
    <2>2. Len(data_') = Len(data_)
        BY <1>11 DEF SpuriousWakeup
    <2> QED BY <1>0, <2>1, <2>2, MoveBounds
<1>12. CASE UNCHANGED vars
    BY <1>0, <1>12 DEF vars
<1> QED
    BY <1>1, <1>2, <1>3, <1>4, <1>5, <1>6, <1>7, <1>8, <1>9, <1>10, <1>11, <1>12
       DEF Next, Call, Proceed

(* blocking_queue loses no wakeup, of either side: the two are proved      *)
(* together, because a consumer's notification goes to a producer and the  *)
(* other way round.                                                        *)
LEMMA WakeupsAreNotLost == Spec => [](NoLostConsumerWakeup /\ NoLostProducerWakeup)
<1>1. Init => NoLostWakeup
    BY DEF Init, NoLostWakeup, NoLostConsumerWakeup, NoLostProducerWakeup, At
<1>2. TypeOK /\ NoLostWakeup /\ [Next]_vars => NoLostWakeup'
    <2>1. NoLostWakeup' <=> Bound(pc, Len(data_))'
        BY BoundEquiv, PTL
    <2>2. Bound(pc, Len(data_))' <=> Bound(pc', Len(data_'))
        BY DEF Bound, ConsumerBound, ProducerBound, Count
    <2> QED BY <2>1, <2>2, WakeupStep
<1>3. NoLostWakeup => NoLostConsumerWakeup /\ NoLostProducerWakeup
    BY DEF NoLostWakeup
<1> QED
    BY <1>1, <1>2, <1>3, TypeCorrect, PTL DEF Spec

(* Although notify_one is called after mutex_ is released, no wait_and_pop *)
(* sleeps beside an element that nobody is bound for.                      *)
THEOREM ConsumersAreWoken == Spec => []NoLostConsumerWakeup
BY WakeupsAreNotLost, PTL

(* Nor does a push sleep beside a free slot that nobody is bound for.      *)
THEOREM ProducersAreWoken == Spec => []NoLostProducerWakeup
BY WakeupsAreNotLost, PTL

(* Producers and consumers never all sleep on each other: if none of them  *)
(* is awake inside the queue, NoLostWakeup makes it empty and full.        *)
THEOREM SidesDoNotDeadlock == Spec => []NoMutualSleep
<1>1. TypeOK /\ NoLostConsumerWakeup /\ NoLostProducerWakeup => NoMutualSleep
    <2> SUFFICES ASSUME TypeOK, NoLostConsumerWakeup, NoLostProducerWakeup,
                        At("not_empty_") # {}, At("not_full_") # {},
                        \A t \in Threads : pc[t] \in {"idle", "not_empty_", "not_full_"}
                 PROVE  FALSE
        BY DEF NoMutualSleep
    <2>1. /\ At("notify_not_empty") = {} /\ At("pop") = {}
          /\ At("notify_not_full") = {} /\ At("push") = {}
        BY DEF At
    <2>2. Len(data_) <= 0 + 0 /\ capacity_ <= Len(data_) + 0 + 0
        BY <2>1, FS_EmptySet DEF NoLostConsumerWakeup, NoLostProducerWakeup
    <2> QED BY <2>2, CapacityAssumption DEF TypeOK
<1> QED
    BY <1>1, TypeCorrect, WakeupsAreNotLost, PTL

============================================================================
