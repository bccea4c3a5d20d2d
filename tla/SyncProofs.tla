----------------------------- MODULE SyncProofs -----------------------------
(***************************************************************************)
(* Proofs about the synchronization primitives, for any number of threads. *)
(*                                                                         *)
(* First those that sleep on a condition variable, the semaphores, the     *)
(* latch and the barrier, with any number of permits and phases: no wakeup *)
(* is lost, and the phases of a barrier are separated.  The barrier keeps  *)
(* no record of who has arrived: count_ and generation_ stand for it.  The *)
(* invariant says what they stand for: the threads that have not arrived   *)
(* in the present phase, and, in one digit, how many phases are over,      *)
(* which is enough because no thread is more than one phase behind.        *)
(*                                                                         *)
(* Then those that busy-wait on one atomic of any width: the spinlocks     *)
(* exclude, and a reader of the seqlock keeps no torn copy.                *)
(***************************************************************************)
EXTENDS CondSync, SpinSync, FiniteSetTheorems, TLAPS


-----------------------------------------------------------------------------
(* The invariant *)

PCs == {"idle", "acquire", "notify", "wait", "arrived", "notify_drop", "dropped"}
Gens == 0..(Generations - 1)

TypeInv ==
    /\ prim \in Semaphores \cup {"latch", "barrier"}
    /\ count_ \in Int /\ expected_ \in Int /\ generation_ \in Gens
    /\ stage \in [Participants -> PCs] /\ asleep \in SUBSET Participants
    /\ left \in [Participants -> Nat] /\ phase \in [Participants -> Gens]
    /\ arrivals \in [Participants -> Nat] /\ passes \in [Participants -> Nat] /\ completions \in Nat

(* Where a thread can be, and a sleeper is in a wait. *)
Place(t) ==
    /\ prim \in Semaphores => /\ stage[t] \in {"idle", "acquire", "notify"}
                              /\ left[t] \in 0..MaxPermits
                              /\ stage[t] = "notify" <=> left[t] > 0
    /\ prim = "latch" => stage[t] \in {"idle", "wait"}
    /\ prim = "barrier" => stage[t] \in {"idle", "arrived", "notify", "notify_drop", "dropped"}
    /\ t \in asleep => stage[t] \in {"acquire", "wait", "arrived"}

(* The threads that use the barrier, and those of them that have not       *)
(* arrived in the present phase.                                           *)
Active == {t \in Participants : stage[t] \notin {"notify_drop", "dropped"}}
Missing == {t \in Active : arrivals[t] = completions}

(* How far a thread of the barrier is.  One that has arrived waits for the *)
(* present phase, or has yet to notice that its own is over.               *)
Caller(t) ==
    /\ stage[t] = "idle" => arrivals[t] = completions /\ passes[t] = completions
    /\ stage[t] = "notify" => arrivals[t] = completions /\ passes[t] + 1 = completions
    /\ stage[t] = "arrived" =>
           /\ passes[t] + 1 = arrivals[t]
           /\ \/ arrivals[t] = completions + 1 /\ phase[t] = generation_
              \/ arrivals[t] = completions /\ generation_ = (phase[t] + 1) % Generations
    /\ stage[t] \in {"notify_drop", "dropped"} => passes[t] <= completions

Counted == count_ = Cardinality(Missing) /\ expected_ = Cardinality(Active)

BarrierInv == prim = "barrier" => Counted /\ \A t \in Participants : Caller(t)

CondInv == TypeInv /\ (\A t \in Participants : Place(t)) /\ BarrierInv /\ NoLostWakeup

-----------------------------------------------------------------------------
(* Arithmetic of the generations *)

(* The next generation is another one. *)
LEMMA NextGeneration ==
    ASSUME NEW g \in Gens
    PROVE  (g + 1) % Generations \in Gens /\ (g + 1) % Generations # g
<1>1. Generations \in Nat /\ Generations > 1 /\ g \in Nat /\ g < Generations
    BY CondAssumption DEF Gens
<1>2. CASE g + 1 < Generations
    <2>1. (g + 1) % Generations = g + 1
        BY <1>1, <1>2
    <2> QED BY <1>1, <1>2, <2>1 DEF Gens
<1>3. CASE g + 1 = Generations
    <2>1. (g + 1) % Generations = 0
        BY <1>1, <1>3
    <2> QED BY <1>1, <1>3, <2>1 DEF Gens
<1> QED BY <1>1, <1>2, <1>3

-----------------------------------------------------------------------------
(* Types *)

(* Which steps a primitive has. *)
LEMMA StepsOf ==
    ASSUME TypeInv, NEW t \in Participants, Place(t), CondStep(t)
    PROVE  /\ prim' = prim
           /\ prim \in Semaphores =>
                  \/ Acquire(t) \/ Notify(t) \/ CondSpuriousWakeup(t) \/ AcquireCalled(t)
                  \/ TryAcquire(t) \/ \E n \in 1..MaxPermits : Release(t, n)
           /\ prim = "latch" =>
                  \/ Wait(t) \/ CondSpuriousWakeup(t) \/ WaitCalled(t)
                  \/ \E n \in 1..2, waits \in BOOLEAN : CountDown(t, n, waits)
           /\ prim = "barrier" =>
                  \/ Arrived(t) \/ NotifyAll(t) \/ CondSpuriousWakeup(t)
                  \/ \E drops \in BOOLEAN : Arrive(t, drops)
BY DEF CondStep, CondProceed, Place, Semaphores, Awake, Acquire, Notify, CondSpuriousWakeup,
       AcquireCalled, TryAcquire, Release, Wait, WaitCalled, CountDown, Arrived, NotifyAll, Arrive

(* Types after a step. *)
LEMMA TypeStep ==
    ASSUME TypeInv, NEW t \in Participants, Place(t), CondStep(t)
    PROVE  TypeInv'
<1> USE DEF TypeInv, Awake, Move, shared, history
<1>0. /\ {"idle", "acquire", "notify", "wait", "arrived", "notify_drop", "dropped"} \subseteq PCs
      /\ CondAssumption
    BY CondAssumption DEF PCs
<1>1. ASSUME Acquire(t) PROVE TypeInv'
    BY <1>0, <1>1 DEF Acquire
<1>2. ASSUME Notify(t) PROVE TypeInv'
    <2>1. left' \in [Participants -> Nat]
        BY <1>2 DEF Notify, Place
    <2> QED BY <1>0, <1>2, <2>1 DEF Notify
<1>3. ASSUME Wait(t) PROVE TypeInv'
    BY <1>0, <1>3 DEF Wait
<1>4. ASSUME Arrived(t) PROVE TypeInv'
    BY <1>0, <1>4 DEF Arrived
<1>5. ASSUME NotifyAll(t) PROVE TypeInv'
    BY <1>0, <1>5 DEF NotifyAll, WakeAll
<1>6. ASSUME CondSpuriousWakeup(t) PROVE TypeInv'
    BY <1>6 DEF CondSpuriousWakeup
<1>7. ASSUME AcquireCalled(t) PROVE TypeInv'
    BY <1>0, <1>7 DEF AcquireCalled
<1>8. ASSUME TryAcquire(t) PROVE TypeInv'
    BY <1>8 DEF TryAcquire
<1>9. ASSUME NEW n \in 1..MaxPermits, Release(t, n) PROVE TypeInv'
    <2>1. n \in Nat
        BY <1>0
    <2> QED BY <1>0, <1>9, <2>1 DEF Release
<1>10. ASSUME NEW n \in 1..2, NEW waits \in BOOLEAN, CountDown(t, n, waits) PROVE TypeInv'
    BY <1>0, <1>10 DEF CountDown, WakeAll
<1>11. ASSUME WaitCalled(t) PROVE TypeInv'
    BY <1>0, <1>11 DEF WaitCalled
<1>12. ASSUME NEW drops \in BOOLEAN, Arrive(t, drops) PROVE TypeInv'
    <2>1. (generation_ + 1) % Generations \in Gens
        BY NextGeneration
    <2>2. /\ generation_' \in Gens /\ count_' \in Int /\ expected_' \in Int
          /\ completions' \in Nat
        BY <1>12, <2>1 DEF Arrive, CompletePhase
    <2>3. /\ arrivals' \in [Participants -> Nat] /\ left' \in [Participants -> Nat]
          /\ phase' \in [Participants -> Gens]
        BY <1>12 DEF Arrive
    <2> QED BY <1>0, <1>12, <2>2, <2>3 DEF Arrive
<1> QED BY <1>1, <1>2, <1>3, <1>4, <1>5, <1>6, <1>7, <1>8, <1>9, <1>10, <1>11, <1>12
        DEF CondStep, CondProceed

(* Places after a step. *)
LEMMA PlaceStep ==
    ASSUME TypeInv, \A u \in Participants : Place(u), NEW t \in Participants, CondStep(t)
    PROVE  \A u \in Participants : Place(u)'
<1> USE DEF Place, TypeInv, Awake, Move, shared, history, Semaphores
<1>0. CondAssumption
    BY CondAssumption
<1>1. ASSUME Acquire(t) PROVE \A u \in Participants : Place(u)'
    BY <1>1 DEF Acquire
<1>2. ASSUME Notify(t) PROVE \A u \in Participants : Place(u)'
    BY <1>0, <1>2 DEF Notify
<1>3. ASSUME Wait(t) PROVE \A u \in Participants : Place(u)'
    BY <1>3 DEF Wait
<1>4. ASSUME Arrived(t) PROVE \A u \in Participants : Place(u)'
    BY <1>4 DEF Arrived
<1>5. ASSUME NotifyAll(t) PROVE \A u \in Participants : Place(u)'
    BY <1>5 DEF NotifyAll, WakeAll
<1>6. ASSUME CondSpuriousWakeup(t) PROVE \A u \in Participants : Place(u)'
    BY <1>6 DEF CondSpuriousWakeup
<1>7. ASSUME AcquireCalled(t) PROVE \A u \in Participants : Place(u)'
    BY <1>7 DEF AcquireCalled
<1>8. ASSUME TryAcquire(t) PROVE \A u \in Participants : Place(u)'
    BY <1>8 DEF TryAcquire
<1>9. ASSUME NEW n \in 1..MaxPermits, Release(t, n) PROVE \A u \in Participants : Place(u)'
    <2>1. n \in 0..MaxPermits /\ n > 0
        BY <1>0
    <2> QED BY <1>9, <2>1 DEF Release
<1>10. ASSUME NEW n \in 1..2, NEW waits \in BOOLEAN, CountDown(t, n, waits)
       PROVE  \A u \in Participants : Place(u)'
    BY <1>10 DEF CountDown, WakeAll
<1>11. ASSUME WaitCalled(t) PROVE \A u \in Participants : Place(u)'
    BY <1>11 DEF WaitCalled
<1>12. ASSUME NEW drops \in BOOLEAN, Arrive(t, drops) PROVE \A u \in Participants : Place(u)'
    BY <1>12 DEF Arrive, CompletePhase
<1> QED BY <1>1, <1>2, <1>3, <1>4, <1>5, <1>6, <1>7, <1>8, <1>9, <1>10, <1>11, <1>12
        DEF CondStep, CondProceed

-----------------------------------------------------------------------------
(* Semaphores *)

Waiters == {t \in Participants : Awake(t, "acquire")}

(* Waiters and notifications are finitely many. *)
LEMMA SemFinite ==
    /\ IsFiniteSet(Waiters) /\ Cardinality(Waiters) \in Nat
    /\ IsFiniteSet(Pending) /\ Cardinality(Pending) \in Nat
<1>1. IsFiniteSet(Participants) /\ 1 \in Int /\ MaxPermits \in Int
    BY CondAssumption
<1>2. IsFiniteSet(1..MaxPermits)
    BY <1>1, FS_Interval
<1>3. IsFiniteSet(Participants \X (1..MaxPermits))
    BY <1>1, <1>2, FS_Product
<1>4. Waiters \in SUBSET Participants /\ Pending \in SUBSET (Participants \X (1..MaxPermits))
    BY DEF Waiters, Pending
<1>5. IsFiniteSet(Waiters) /\ IsFiniteSet(Pending)
    BY <1>1, <1>3, <1>4, FS_Subset
<1> QED BY <1>5, FS_CardinalityType

(* The same after a step. *)
LEMMA SemFiniteNext ==
    (/\ IsFiniteSet(Waiters) /\ Cardinality(Waiters) \in Nat
     /\ IsFiniteSet(Pending) /\ Cardinality(Pending) \in Nat)'
BY SemFinite, PTL

(* For every free permit a waiter is awake or a notification is on its     *)
(* way, while somebody sleeps.                                             *)
PermitsSeen == asleep # {} => count_ <= Cardinality(Waiters) + Cardinality(Pending)

(* Every step of acquire, release and their notifications keeps that. *)
LEMMA PermitsSeenStep ==
    ASSUME TypeInv, TypeInv', \A u \in Participants : Place(u), prim \in Semaphores, PermitsSeen,
           NEW t \in Participants, CondStep(t)
    PROVE  PermitsSeen'
<1> DEFINE w == Cardinality(Waiters)
           p == Cardinality(Pending)
<1> USE DEF TypeInv, Awake, Move, shared, history
<1>0. w \in Nat /\ p \in Nat /\ count_ \in Int /\ asleep \in SUBSET Participants
    BY SemFinite
<1>1. CASE Acquire(t)
    <2>1. Pending' = Pending
        BY <1>1 DEF Acquire, Pending
    <2>2. CASE count_ > 0
        <3>1. count_' = count_ - 1 /\ asleep' = asleep
            BY <1>1, <2>2 DEF Acquire
        <3>2. Waiters' = Waiters \ {t} /\ t \in Waiters
            BY <1>1, <2>2 DEF Acquire, Waiters
        <3>3. Cardinality(Waiters') = w - 1
            BY <3>2, SemFinite, FS_RemoveElement
        <3> QED BY <1>0, <2>1, <3>1, <3>3 DEF PermitsSeen
    <2>3. CASE ~(count_ > 0)
        <3>1. count_' = count_ /\ Waiters' \subseteq Participants
            BY <1>1, <2>3 DEF Acquire, Waiters
        <3>2. Cardinality(Waiters') \in Nat /\ Cardinality(Pending') \in Nat
            BY SemFiniteNext
        <3> QED BY <1>0, <2>3, <3>1, <3>2 DEF PermitsSeen
    <2> QED BY <2>2, <2>3
<1>2. CASE Notify(t)
    <2>1. CASE asleep' = {}
        BY <2>1 DEF PermitsSeen
    <2>2. CASE asleep' # {}
        <3>1. PICK u \in asleep : asleep' = asleep \ {u}
            BY <1>2, <2>2 DEF Notify
        <3>2. u \in Participants /\ stage[u] = "acquire" /\ count_' = count_ /\ u # t
            BY <1>0, <1>2, <3>1 DEF Notify, Place, Semaphores
        <3>3. Waiters' = Waiters \cup {u} /\ u \notin Waiters
            BY <1>2, <3>1, <3>2 DEF Notify, Waiters
        <3>4. Cardinality(Waiters') = w + 1
            BY <3>3, SemFinite, FS_AddElement
        <3>5. left[t] \in 1..MaxPermits /\ left' = [left EXCEPT ![t] = left[t] - 1]
            BY <1>2, CondAssumption DEF Notify, Place
        <3>6. Pending' = Pending \ {<<t, left[t]>>} /\ <<t, left[t]>> \in Pending
            BY <3>5 DEF Pending
        <3>7. Cardinality(Pending') = p - 1
            <4>1. PICK x : x \in Pending /\ Pending' = Pending \ {x}
                BY <3>6
            <4>2. Cardinality(Pending \ {x}) = p - 1
                BY <4>1, SemFinite, FS_RemoveElement
            <4> QED BY <4>1, <4>2
        <3> QED BY <1>0, <3>1, <3>2, <3>4, <3>7 DEF PermitsSeen
    <2> QED BY <2>1, <2>2
<1>3. CASE CondSpuriousWakeup(t)
    <2>1. Pending' = Pending /\ count_' = count_ /\ asleep # {} /\ stage[t] = "acquire"
        BY <1>3 DEF CondSpuriousWakeup, Pending, Place, Semaphores
    <2>2. Waiters' = Waiters \cup {t} /\ t \notin Waiters
        BY <1>3, <2>1 DEF CondSpuriousWakeup, Waiters
    <2>3. Cardinality(Waiters') = w + 1
        BY <2>2, SemFinite, FS_AddElement
    <2> QED BY <1>0, <2>1, <2>3 DEF PermitsSeen
<1>4. CASE AcquireCalled(t)
    <2>1. Pending' = Pending /\ count_' = count_ /\ asleep' = asleep
        BY <1>4 DEF AcquireCalled, Pending
    <2>2. Waiters' = Waiters \cup {t} /\ t \notin Waiters
        BY <1>4 DEF AcquireCalled, Waiters
    <2>3. Cardinality(Waiters') = w + 1
        BY <2>2, SemFinite, FS_AddElement
    <2> QED BY <1>0, <2>1, <2>3 DEF PermitsSeen
<1>5. CASE TryAcquire(t)
    <2>1. Pending' = Pending /\ Waiters' = Waiters /\ count_' = count_ - 1 /\ asleep' = asleep
        BY <1>5 DEF TryAcquire, Pending, Waiters
    <2> QED BY <1>0, <2>1 DEF PermitsSeen
<1>6. ASSUME NEW n \in 1..MaxPermits, Release(t, n) PROVE PermitsSeen'
    <2>1. /\ count_' = count_ + n /\ asleep' = asleep /\ left' = [left EXCEPT ![t] = n]
          /\ left[t] = 0 /\ n \in Nat
        BY <1>6, CondAssumption DEF Release, Place
    <2>2. Waiters' = Waiters
        BY <1>6 DEF Release, Waiters
    <2>3. Pending' = Pending \cup ({t} \X (1..n)) /\ Pending \cap ({t} \X (1..n)) = {}
        BY <2>1, CondAssumption DEF Pending
    <2>4. IsFiniteSet({t}) /\ Cardinality({t}) = 1
        BY FS_Singleton
    <2>5. IsFiniteSet(1..n) /\ Cardinality(1..n) = n
        <3>1. 1 \in Int /\ n \in Int /\ ~(1 > n)
            OBVIOUS
        <3>2. IsFiniteSet(1..n) /\ Cardinality(1..n) = n - 1 + 1
            BY <3>1, FS_Interval
        <3> QED BY <3>2
    <2>6. IsFiniteSet({t} \X (1..n)) /\ Cardinality({t} \X (1..n)) = 1 * n
        <3>1. /\ IsFiniteSet({t} \X (1..n))
              /\ Cardinality({t} \X (1..n)) = Cardinality({t}) * Cardinality(1..n)
            BY <2>4, <2>5, FS_Product
        <3> QED BY <2>4, <2>5, <3>1
    <2>7. Cardinality(Pending') = p + n
        <3>1. Cardinality(Pending') = p + 1 * n - Cardinality({})
            BY <2>3, <2>6, SemFinite, FS_Union
        <3> QED BY <1>0, <2>1, <3>1, FS_EmptySet
    <2> QED BY <1>0, <2>1, <2>2, <2>7 DEF PermitsSeen
<1> QED BY <1>1, <1>2, <1>3, <1>4, <1>5, <1>6, StepsOf

-----------------------------------------------------------------------------
(* Latch *)

(* Nobody sleeps at an open latch. *)
LEMMA LatchStep ==
    ASSUME TypeInv, \A u \in Participants : Place(u), prim = "latch", asleep # {} => count_ > 0,
           NEW t \in Participants, CondStep(t)
    PROVE  asleep' # {} => count_' > 0
<1>1. CASE Wait(t)
    BY <1>1 DEF TypeInv, Wait, shared
<1>2. CASE CondSpuriousWakeup(t)
    BY <1>2 DEF CondSpuriousWakeup, shared
<1>3. CASE WaitCalled(t)
    BY <1>3 DEF WaitCalled, shared
<1>4. ASSUME NEW n \in 1..2, NEW waits \in BOOLEAN, CountDown(t, n, waits)
      PROVE  asleep' # {} => count_' > 0
    BY <1>4 DEF TypeInv, CountDown, WakeAll
<1> QED BY <1>1, <1>2, <1>3, <1>4, StepsOf

-----------------------------------------------------------------------------
(* Barrier *)

(* Participants are finitely many, and so are these. *)
LEMMA BarrierFinite ==
    /\ IsFiniteSet(Active) /\ Cardinality(Active) \in Nat
    /\ IsFiniteSet(Missing) /\ Cardinality(Missing) \in Nat
<1>1. Active \in SUBSET Participants /\ Missing \in SUBSET Participants /\ IsFiniteSet(Participants)
    BY CondAssumption DEF Active, Missing
<1>2. IsFiniteSet(Active) /\ IsFiniteSet(Missing)
    BY <1>1, FS_Subset
<1> QED BY <1>2, FS_CardinalityType

(* The steps of a barrier in which nobody arrives: who is active, who is   *)
(* missing and how many phases are over stays.                             *)
LEMMA NoArrival ==
    ASSUME TypeInv, \A u \in Participants : Place(u), prim = "barrier", BarrierInv,
           NEW t \in Participants, Arrived(t) \/ NotifyAll(t) \/ CondSpuriousWakeup(t)
    PROVE  Counted' /\ \A u \in Participants : Caller(u)'
<1>1. /\ count_' = count_ /\ expected_' = expected_ /\ generation_' = generation_
      /\ completions' = completions /\ arrivals' = arrivals /\ phase' = phase
    BY DEF Arrived, NotifyAll, CondSpuriousWakeup, shared, history
<1>2. \A u \in Participants : stage'[u] \in {"notify_drop", "dropped"} <=> stage[u] \in {"notify_drop", "dropped"}
    BY DEF Arrived, NotifyAll, CondSpuriousWakeup, TypeInv, Awake, Move
<1>3. Active' = Active /\ Missing' = Missing
    BY <1>1, <1>2 DEF Active, Missing
<1>4. Counted'
    BY <1>1, <1>3 DEF Counted, BarrierInv
<1>5. ASSUME NEW u \in Participants, u # t PROVE Caller(u)'
    <2>1. stage'[u] = stage[u] /\ passes'[u] = passes[u]
        BY <1>5 DEF Arrived, NotifyAll, CondSpuriousWakeup, TypeInv, Move, history
    <2> QED BY <1>1, <2>1 DEF Caller, BarrierInv
<1>6. Caller(t)'
    <2>0. Caller(t)
        BY DEF BarrierInv
    <2>1. CASE Arrived(t) /\ generation_ # phase[t]
        <3>1. stage[t] = "arrived" /\ stage'[t] = "idle" /\ passes'[t] = passes[t] + 1
            BY <2>1 DEF Arrived, Awake, Move, TypeInv
        <3>2. arrivals[t] = completions /\ passes[t] + 1 = arrivals[t]
            BY <2>0, <2>1, <3>1 DEF Caller
        <3> QED BY <1>1, <3>1, <3>2 DEF Caller
    <2>2. CASE NotifyAll(t) /\ stage[t] = "notify"
        <3>1. stage'[t] = "idle" /\ passes'[t] = passes[t] + 1
            BY <2>2 DEF NotifyAll, Move, TypeInv
        <3> QED BY <1>1, <2>0, <2>2, <3>1 DEF Caller
    <2>3. CASE NotifyAll(t) /\ stage[t] = "notify_drop"
        <3>1. stage'[t] = "dropped" /\ passes'[t] = passes[t]
            BY <2>3 DEF NotifyAll, Move, TypeInv
        <3> QED BY <1>1, <2>0, <2>3, <3>1 DEF Caller
    <2>4. CASE CondSpuriousWakeup(t) \/ (Arrived(t) /\ generation_ = phase[t])
        <3>1. stage' = stage /\ passes' = passes
            BY <2>4 DEF CondSpuriousWakeup, Arrived, history
        <3> QED BY <1>1, <2>0, <3>1 DEF Caller
    <2> QED BY <2>1, <2>2, <2>3, <2>4 DEF NotifyAll
<1> QED BY <1>4, <1>5, <1>6

(* A thread that arrives was missing; the one that drops is no longer      *)
(* active.                                                                 *)
LEMMA Arrival ==
    ASSUME TypeInv, prim = "barrier", BarrierInv, NEW t \in Participants, NEW drops \in BOOLEAN,
           Arrive(t, drops)
    PROVE  /\ t \in Missing /\ t \in Active /\ count_ \in Nat /\ count_ # 0
           /\ Active' = (IF drops THEN Active \ {t} ELSE Active)
           /\ expected_' = Cardinality(Active') /\ Cardinality(Active') \in Nat
           /\ \A u \in Participants : u # t => stage'[u] = stage[u] /\ arrivals'[u] = arrivals[u] /\ phase'[u] = phase[u]
           /\ passes' = passes /\ arrivals[t] = completions /\ passes[t] = completions
           /\ arrivals'[t] = completions + 1 /\ phase'[t] = generation_
<1>1. /\ stage[t] = "idle" /\ arrivals[t] = completions /\ passes[t] = completions
      /\ count_ = Cardinality(Missing) /\ expected_ = Cardinality(Active)
    BY DEF Arrive, Awake, BarrierInv, Caller, Counted
<1>2. t \in Missing /\ t \in Active
    BY <1>1 DEF Missing, Active
<1>3. count_ \in Nat /\ count_ # 0
    <2>1. Cardinality(Missing) = 0 <=> Missing = {}
        BY BarrierFinite, FS_EmptySet
    <2> QED BY <1>1, <1>2, <2>1, BarrierFinite
<1>4. /\ \A u \in Participants : u # t => stage'[u] = stage[u] /\ arrivals'[u] = arrivals[u] /\ phase'[u] = phase[u]
      /\ passes' = passes /\ arrivals'[t] = completions + 1 /\ phase'[t] = generation_
    BY <1>1 DEF Arrive, Move, TypeInv
<1>5. /\ drops => stage'[t] \in {"notify_drop", "dropped"}
      /\ ~drops => stage'[t] \in {"notify", "arrived"}
    BY DEF Arrive, Move, TypeInv
<1>6. Active' = IF drops THEN Active \ {t} ELSE Active
    BY <1>2, <1>4, <1>5 DEF Active
<1>7. expected_' = IF drops THEN expected_ - 1 ELSE expected_
    BY DEF Arrive
<1>8. Cardinality(Active \ {t}) = Cardinality(Active) - 1 /\ IsFiniteSet(Active \ {t})
    BY <1>2, BarrierFinite, FS_RemoveElement
<1>9. Cardinality(Active \ {t}) \in Nat
    BY <1>8, FS_CardinalityType
<1>10. expected_' = Cardinality(Active') /\ Cardinality(Active') \in Nat
    BY <1>1, <1>6, <1>7, <1>8, <1>9, BarrierFinite
<1> QED BY <1>1, <1>2, <1>3, <1>4, <1>6, <1>10

(* A thread arrives, and is not the last. *)
LEMMA ArriveStep ==
    ASSUME TypeInv, \A u \in Participants : Place(u), prim = "barrier", BarrierInv, NEW t \in Participants,
           NEW drops \in BOOLEAN, Arrive(t, drops), count_ - 1 # 0
    PROVE  Counted' /\ \A u \in Participants : Caller(u)'
<1>1. /\ count_' = count_ - 1 /\ completions' = completions /\ generation_' = generation_
      /\ stage'[t] = IF drops THEN "dropped" ELSE "arrived"
    BY DEF Arrive, Move, TypeInv
<1>2. /\ t \in Missing /\ Active' = (IF drops THEN Active \ {t} ELSE Active)
      /\ expected_' = Cardinality(Active')
      /\ \A u \in Participants : u # t => stage'[u] = stage[u] /\ arrivals'[u] = arrivals[u] /\ phase'[u] = phase[u]
      /\ passes' = passes /\ passes[t] = completions
      /\ arrivals'[t] = completions + 1 /\ phase'[t] = generation_
    BY Arrival
<1>3. Missing' = Missing \ {t}
    <2>1. completions + 1 # completions /\ completions \in Nat
        BY DEF TypeInv
    <2> QED BY <1>1, <1>2, <2>1 DEF Missing, Active
<1>4. Cardinality(Missing') = Cardinality(Missing) - 1
    BY <1>2, <1>3, BarrierFinite, FS_RemoveElement
<1>5. Counted'
    BY <1>1, <1>2, <1>4 DEF Counted, BarrierInv
<1>6. \A u \in Participants : u # t => Caller(u)'
    BY <1>1, <1>2 DEF Caller, BarrierInv
<1>7. Caller(t)'
    <2>1. completions \in Nat
        BY DEF TypeInv
    <2> QED BY <1>1, <1>2, <2>1 DEF Caller
<1> QED BY <1>5, <1>6, <1>7

(* The last thread arrives: the phase is over, and everybody still active  *)
(* is missing in the next.                                                 *)
LEMMA CompleteStep ==
    ASSUME TypeInv, \A u \in Participants : Place(u), prim = "barrier", BarrierInv, NEW t \in Participants,
           NEW drops \in BOOLEAN, Arrive(t, drops), count_ - 1 = 0
    PROVE  Counted' /\ \A u \in Participants : Caller(u)'
<1>1. /\ count_' = expected_' /\ completions' = completions + 1 /\ completions \in Nat
      /\ generation_' = (generation_ + 1) % Generations
      /\ stage'[t] = IF drops THEN "notify_drop" ELSE "notify"
    BY DEF Arrive, CompletePhase, Move, TypeInv
<1>2. /\ t \in Missing /\ Active' = (IF drops THEN Active \ {t} ELSE Active)
      /\ expected_' = Cardinality(Active')
      /\ \A u \in Participants : u # t => stage'[u] = stage[u] /\ arrivals'[u] = arrivals[u] /\ phase'[u] = phase[u]
      /\ passes' = passes /\ passes[t] = completions
      /\ arrivals'[t] = completions + 1
    BY Arrival
<1>3. Missing = {t}
    <2>1. Cardinality(Missing) = 1
        BY DEF BarrierInv, Counted, TypeInv
    <2>2. Cardinality(Missing \ {t}) = Cardinality(Missing) - 1 /\ IsFiniteSet(Missing \ {t})
        BY <1>2, BarrierFinite, FS_RemoveElement
    <2>3. Cardinality(Missing \ {t}) = 0
        BY <2>1, <2>2
    <2>4. Missing \ {t} = {}
        BY <2>2, <2>3, FS_EmptySet
    <2> QED BY <1>2, <2>4
<1>4. ASSUME NEW u \in Participants, u # t, u \in Active
      PROVE  /\ stage[u] = "arrived" /\ arrivals[u] = completions + 1 /\ phase[u] = generation_
             /\ passes[u] = completions
    <2>1. arrivals[u] # completions
        BY <1>3, <1>4 DEF Missing
    <2>2. stage[u] \in {"idle", "arrived", "notify"} /\ Caller(u)
        BY <1>4 DEF Active, Place, BarrierInv
    <2>3. stage[u] = "arrived"
        BY <2>1, <2>2 DEF Caller
    <2>4. /\ arrivals[u] = completions + 1 /\ phase[u] = generation_
          /\ passes[u] + 1 = arrivals[u] /\ passes[u] \in Nat
        BY <2>1, <2>2, <2>3 DEF Caller, TypeInv
    <2> QED BY <1>1, <2>3, <2>4
<1>5. Missing' = Active'
    <2>1. \A u \in Active' : u \in Active /\ u \in Participants
        BY <1>2 DEF Active
    <2>2. \A u \in Active' : arrivals'[u] = completions + 1
        BY <1>2, <1>4, <2>1
    <2> QED BY <1>1, <2>2 DEF Missing
<1>6. Counted'
    BY <1>1, <1>2, <1>5 DEF Counted
<1>7. ASSUME NEW u \in Participants, u # t PROVE Caller(u)'
    <2>1. stage'[u] = stage[u] /\ passes'[u] = passes[u]
        BY <1>2, <1>7
    <2>2. CASE u \in Active
        <3>1. /\ stage[u] = "arrived" /\ arrivals[u] = completions + 1 /\ phase[u] = generation_
              /\ passes[u] = completions
            BY <1>4, <1>7, <2>2
        <3> QED BY <1>1, <1>2, <1>7, <2>1, <3>1 DEF Caller
    <2>3. CASE u \notin Active
        <3>1. stage[u] \in {"notify_drop", "dropped"} /\ passes[u] <= completions /\ passes[u] \in Nat
            BY <2>3 DEF Active, BarrierInv, Caller, TypeInv
        <3> QED BY <1>1, <2>1, <3>1 DEF Caller
    <2> QED BY <2>2, <2>3
<1>8. Caller(t)'
    BY <1>1, <1>2 DEF Caller
<1> QED BY <1>6, <1>7, <1>8

(* A sleeper of a phase that is over will be notified. *)
SleepersNotified ==
    (\E t \in asleep : generation_ # phase[t]) =>
        \E u \in Participants : stage[u] \in {"notify", "notify_drop"}

(* Every step of the barrier keeps that. *)
LEMMA SleepersNotifiedStep ==
    ASSUME TypeInv, \A u \in Participants : Place(u), prim = "barrier", SleepersNotified,
           NEW t \in Participants, CondStep(t)
    PROVE  SleepersNotified'
<1>1. CASE Arrived(t)
    <2>1. generation_' = generation_ /\ phase' = phase
        BY <1>1 DEF Arrived, shared
    <2>2. \A s \in asleep' : s \in asleep \/ generation_ = phase[s]
        BY <1>1 DEF Arrived
    <2>3. \A u \in Participants : stage[u] \in {"notify", "notify_drop"} => stage'[u] = stage[u]
        BY <1>1 DEF Arrived, Awake, Move, TypeInv
    <2> QED BY <2>1, <2>2, <2>3 DEF SleepersNotified
<1>2. CASE NotifyAll(t)
    BY <1>2 DEF NotifyAll, WakeAll, SleepersNotified
<1>3. CASE CondSpuriousWakeup(t)
    BY <1>3 DEF CondSpuriousWakeup, shared, SleepersNotified
<1>4. ASSUME NEW drops \in BOOLEAN, Arrive(t, drops) PROVE SleepersNotified'
    <2>1. CASE count_ - 1 = 0
        <3>1. stage'[t] \in {"notify", "notify_drop"}
            BY <1>4, <2>1 DEF Arrive, Move, TypeInv
        <3> QED BY <3>1 DEF SleepersNotified
    <2>2. CASE count_ - 1 # 0
        <3>1. generation_' = generation_ /\ asleep' = asleep /\ t \notin asleep
            BY <1>4, <2>2 DEF Arrive, Awake
        <3>2. \A s \in asleep : phase'[s] = phase[s]
            BY <1>4, <3>1 DEF Arrive, TypeInv
        <3>3. \A u \in Participants : stage[u] \in {"notify", "notify_drop"} => stage'[u] = stage[u]
            BY <1>4 DEF Arrive, Awake, Move, TypeInv
        <3> QED BY <3>1, <3>2, <3>3 DEF SleepersNotified
    <2> QED BY <2>1, <2>2
<1> QED BY <1>1, <1>2, <1>3, <1>4, StepsOf

-----------------------------------------------------------------------------

(* The invariant is inductive. *)
LEMMA CondInvStep == CondInv /\ [CondNext]_condVars => CondInv'
<1> SUFFICES ASSUME CondInv, [CondNext]_condVars PROVE CondInv'
    OBVIOUS
<1>1. ASSUME NEW t \in Participants, CondStep(t) PROVE CondInv'
    <2>1. TypeInv /\ \A u \in Participants : Place(u)
        BY DEF CondInv
    <2>2. TypeInv' /\ (\A u \in Participants : Place(u)') /\ prim' = prim
        BY <1>1, <2>1, TypeStep, PlaceStep, StepsOf
    <2>3. BarrierInv'
        <3> SUFFICES ASSUME prim = "barrier" PROVE Counted' /\ \A u \in Participants : Caller(u)'
            BY <2>2 DEF BarrierInv
        <3>1. CASE Arrived(t) \/ NotifyAll(t) \/ CondSpuriousWakeup(t)
            BY <2>1, <3>1, NoArrival DEF CondInv
        <3>2. CASE \E drops \in BOOLEAN : Arrive(t, drops)
            BY <2>1, <3>2, ArriveStep, CompleteStep DEF CondInv
        <3> QED BY <1>1, <2>1, <3>1, <3>2, StepsOf
    <2>4. prim \in Semaphores => PermitsSeen'
        <3> SUFFICES ASSUME prim \in Semaphores PROVE PermitsSeen'
            OBVIOUS
        <3>1. PermitsSeen
            BY DEF CondInv, NoLostWakeup, PermitsSeen, Waiters
        <3> QED BY <1>1, <2>1, <2>2, <3>1, PermitsSeenStep
    <2>5. prim = "latch" => (asleep' # {} => count_' > 0)
        <3> SUFFICES ASSUME prim = "latch" PROVE asleep' # {} => count_' > 0
            OBVIOUS
        <3>1. asleep # {} => count_ > 0
            BY DEF CondInv, NoLostWakeup
        <3> QED BY <1>1, <2>1, <3>1, LatchStep
    <2>6. prim = "barrier" => SleepersNotified'
        <3> SUFFICES ASSUME prim = "barrier" PROVE SleepersNotified'
            OBVIOUS
        <3>1. SleepersNotified
            BY DEF CondInv, NoLostWakeup, SleepersNotified
        <3> QED BY <1>1, <2>1, <3>1, SleepersNotifiedStep
    <2>7. NoLostWakeup'
        BY <2>2, <2>4, <2>5, <2>6 DEF NoLostWakeup, PermitsSeen, Waiters, SleepersNotified
    <2> QED BY <2>2, <2>3, <2>7 DEF CondInv
<1>2. CASE UNCHANGED condVars
    <2> USE <1>2 DEF condVars, shared, history
    <2>1. TypeInv' /\ \A u \in Participants : Place(u)'
        BY DEF CondInv, TypeInv, Place
    <2>2. Active' = Active /\ Missing' = Missing
        BY DEF Active, Missing
    <2>3. BarrierInv'
        BY <2>2 DEF CondInv, BarrierInv, Counted, Caller
    <2>4. Waiters' = Waiters /\ Pending' = Pending
        BY DEF Waiters, Awake, Pending
    <2>5. NoLostWakeup'
        BY <2>4 DEF CondInv, NoLostWakeup, Waiters
    <2> QED BY <2>1, <2>3, <2>5 DEF CondInv
<1> QED BY <1>1, <1>2 DEF CondNext

(* The constructors. *)
LEMMA CondInvInit == CondInit => CondInv
<1> SUFFICES ASSUME CondInit PROVE CondInv
    OBVIOUS
<1>1. Cardinality(Participants) \in Nat
    BY CondAssumption, FS_CardinalityType
<1>2. count_ \in Int /\ expected_ \in Int
    BY <1>1 DEF CondInit
<1>3. 0 \in Gens
    BY CondAssumption DEF Gens
<1>4. TypeInv
    BY <1>2, <1>3 DEF CondInit, TypeInv, PCs
<1>5. \A t \in Participants : Place(t)
    BY CondAssumption DEF CondInit, Place, Semaphores
<1>6. Active = Participants /\ Missing = Participants
    BY DEF CondInit, Active, Missing
<1>7. BarrierInv
    BY <1>6 DEF CondInit, BarrierInv, Counted, Caller, Semaphores
<1>8. NoLostWakeup
    BY DEF CondInit, NoLostWakeup
<1> QED BY <1>4, <1>5, <1>7, <1>8 DEF CondInv

-----------------------------------------------------------------------------
(* The theorems *)

(* No wakeup is lost: for every free permit of a semaphore, while somebody *)
(* sleeps, a notification is on its way or a thread is awake to take it;   *)
(* nobody sleeps at an open latch; and who sleeps in a phase of a barrier  *)
(* that is over will be notified, though the notifications follow the      *)
(* unlock.                                                                 *)
THEOREM WakeupsArrive == CondSpec => []NoLostWakeup
<1>1. CondInv => NoLostWakeup
    BY DEF CondInv
<1> QED BY <1>1, CondInvInit, CondInvStep, PTL DEF CondSpec

(* The phases of a barrier are separated, whatever the number of threads,  *)
(* though generation_ wraps around and threads drop out: none returns from *)
(* its p-th call before all have arrived p times.                          *)
THEOREM BarrierSeparates == CondSpec => []PhasesSeparated
<1>1. CondInv => PhasesSeparated
    <2> SUFFICES ASSUME CondInv, prim = "barrier", NEW t \in Participants
                 PROVE  /\ passes[t] <= completions
                        /\ stage[t] \in {"dropped", "notify_drop"} \/ completions <= arrivals[t]
        BY DEF PhasesSeparated
    <2>1. /\ Caller(t) /\ passes[t] \in Nat /\ arrivals[t] \in Nat /\ completions \in Nat
          /\ stage[t] \in {"idle", "arrived", "notify", "notify_drop", "dropped"}
        BY DEF CondInv, BarrierInv, TypeInv, Place
    <2> QED BY <2>1 DEF Caller
<1> QED BY <1>1, CondInvInit, CondInvStep, PTL DEF CondSpec

(* The predicate of the barrier's wait, generation_ against the local      *)
(* variable of the call, says whether the caller's phase is over.          *)
OverIsSeen ==
    prim = "barrier" => \A t \in Participants :
        stage[t] = "arrived" => (generation_ # phase[t] <=> arrivals[t] <= completions)

(* A thread that looks late still sees that its phase is over, whether or  *)
(* not generation_ has wrapped around: nobody can be two phases behind.    *)
THEOREM LateWaitersGoOn == CondSpec => []OverIsSeen
<1>1. CondInv => OverIsSeen
    <2> SUFFICES ASSUME CondInv, prim = "barrier", NEW t \in Participants, stage[t] = "arrived"
                 PROVE  generation_ # phase[t] <=> arrivals[t] <= completions
        BY DEF OverIsSeen
    <2>1. /\ phase[t] \in Gens /\ completions \in Nat
          /\ \/ arrivals[t] = completions + 1 /\ phase[t] = generation_
             \/ arrivals[t] = completions /\ generation_ = (phase[t] + 1) % Generations
        BY DEF CondInv, BarrierInv, Caller, TypeInv
    <2>2. (phase[t] + 1) % Generations # phase[t]
        BY <2>1, NextGeneration
    <2>3. ~(completions + 1 <= completions) /\ completions <= completions
        BY <2>1
    <2> QED BY <2>1, <2>2, <2>3
<1> QED BY <1>1, CondInvInit, CondInvStep, PTL DEF CondSpec


-----------------------------------------------------------------------------
(* Where the threads of each primitive can stand *)

MutexLabels  == {"idle", "spin", "retest", "locked"}
SharedLabels == {"idle", "cas", "cas_once", "shared", "locked"}
SeqLabels    == {"idle", "begin", "write_a", "write_b", "end", "unlock", "read_a", "read_b", "retry"}

Words  == 0..(Word - 1)
Copies == Nat \X Nat
Locks == {"seqlock", "shared_spinlock", "spinlock_mutex"}
Reading == {"read_a", "read_b", "retry"}

SpinTypeOK ==
    /\ lock \in Locks
    /\ word \in Words
    /\ write_mutex_ \in BOOLEAN
    /\ a \in Nat /\ b \in Nat
    /\ at \in [Users -> MutexLabels \cup SharedLabels \cup SeqLabels]
    /\ lock = "spinlock_mutex" => \A t \in Users : at[t] \in MutexLabels
    /\ lock = "shared_spinlock" => \A t \in Users : at[t] \in SharedLabels
    /\ lock = "seqlock" => \A t \in Users : at[t] \in SeqLabels
    /\ observed \in [Users -> Words]
    /\ copy \in [Users -> Copies]
    /\ accepted \in [Users -> Copies]

(* What an exchange of shared_spinlock expects has no writer in it. *)
NoWriterObserved ==
    \A t \in Users : at[t] \in {"cas", "cas_once"} => observed[t] < writer_bit

-----------------------------------------------------------------------------
(* Counting the threads at a label *)

Count(f, l) == Cardinality({t \in Users : f[t] = l})

(* The threads at a label are finitely many, at most all of them. *)
LEMMA CountType ==
    ASSUME NEW f, NEW l
    PROVE  /\ IsFiniteSet({t \in Users : f[t] = l})
           /\ Count(f, l) \in Nat
           /\ Count(f, l) <= Cardinality(Users)
           /\ Count(f, l) = 0 <=> {t \in Users : f[t] = l} = {}
<1>1. {t \in Users : f[t] = l} \in SUBSET Users
    OBVIOUS
<1> QED
    BY <1>1, SpinAssumption, FS_Subset, FS_CardinalityType, FS_EmptySet DEF Count

(* A jump takes a thread from the count of one label to another's. *)
LEMMA JumpCounts ==
    ASSUME NEW f, NEW g, NEW t \in Users, NEW to, f = [u \in Users |-> f[u]],
           g = [f EXCEPT ![t] = to]
    PROVE  /\ to # f[t] => Count(g, to) = Count(f, to) + 1
           /\ to # f[t] => Count(g, f[t]) = Count(f, f[t]) - 1
           /\ \A l : l # to /\ l # f[t] => Count(g, l) = Count(f, l)
<1> DEFINE A(h, l) == {u \in Users : h[u] = l}
<1>1. /\ to # f[t] => A(g, to) = A(f, to) \cup {t} /\ t \notin A(f, to)
      /\ to # f[t] => A(g, f[t]) = A(f, f[t]) \ {t} /\ t \in A(f, f[t])
      /\ \A l : l # to /\ l # f[t] => A(g, l) = A(f, l)
    OBVIOUS
<1>2. /\ IsFiniteSet(A(f, to)) /\ IsFiniteSet(A(f, f[t]))
      /\ \A h, l : Count(h, l) = Cardinality(A(h, l))
    BY CountType DEF Count
<1> HIDE DEF A
<1>3. to # f[t] => Cardinality(A(f, to) \cup {t}) = Cardinality(A(f, to)) + 1
    BY <1>1, <1>2, FS_AddElement
<1>4. to # f[t] => Cardinality(A(f, f[t]) \ {t}) = Cardinality(A(f, f[t])) - 1
    BY <1>1, <1>2, FS_RemoveElement
<1> QED BY <1>1, <1>2, <1>3, <1>4

-----------------------------------------------------------------------------

(* fetch_add counts on, or starts again at zero. *)
LEMMA FetchAddIs ==
    ASSUME word \in Words, FetchAdd
    PROVE  word' \in Words /\ word' = IF word + 1 = Word THEN 0 ELSE word + 1
<1>1. Word \in Nat \ {0}
    BY SpinAssumption, FS_CardinalityType DEF Word
<1>2. CASE word + 1 = Word
    <2>1. Word % Word = 0
        BY <1>1
    <2> QED BY <1>1, <1>2, <2>1 DEF FetchAdd, Words
<1>3. CASE word + 1 # Word
    BY <1>1, <1>3 DEF FetchAdd, Words
<1> QED BY <1>2, <1>3

(* unlock_shared subtracts one from a count that is not zero. *)
LEMMA DecrementIs ==
    ASSUME word \in Words
    PROVE  /\ (word - 1) % Word \in Words
           /\ word # 0 => (word - 1) % Word = word - 1
BY SpinAssumption, FS_CardinalityType DEF Word, Words

-----------------------------------------------------------------------------

(* Where an atomic is set to. *)
LEMMA WordFacts ==
    /\ writer_bit \in Nat \ {0} /\ Word = 2 * writer_bit
    /\ {0, 1, writer_bit, Word - 2} \subseteq Words
    /\ \A n \in Words : n < writer_bit => n + 1 \in Words
BY SpinAssumption, FS_CardinalityType DEF Word, Words

(* A copy has two numbers. *)
LEMMA CopyFacts ==
    ASSUME NEW c \in Copies, NEW m \in Nat, NEW n \in Nat
    PROVE  <<m, n>> \in Copies /\ [c EXCEPT ![2] = n] \in Copies /\ c = <<c[1], c[2]>>
           /\ c[1] \in Nat /\ c[2] \in Nat /\ [c EXCEPT ![2] = n] = <<c[1], n>>
BY DEF Copies

(* What a writer and a reader do to the data. *)
LEMMA DataFacts ==
    ASSUME a \in Nat, b \in Nat, copy \in [Users -> Copies], NEW t \in Users
    PROVE  /\ Write(t) => a' \in Nat /\ b' \in Nat
           /\ Read(t) => copy' \in [Users -> Copies]
<1>1. Write(t) => a' \in Nat /\ b' \in Nat
    BY DEF Write
<1>2. ASSUME copy' = [copy EXCEPT ![t] = <<a, 0>>] PROVE copy' \in [Users -> Copies]
    <2>1. <<a, 0>> \in Copies
        BY DEF Copies
    <2> QED BY <1>2, <2>1
<1>3. ASSUME copy' = [copy EXCEPT ![t][2] = b] PROVE copy' \in [Users -> Copies]
    <2>1. [copy[t] EXCEPT ![2] = b] \in Copies
        BY CopyFacts
    <2> QED BY <1>3, <2>1
<1> QED BY <1>1, <1>2, <1>3 DEF Read

(* Types: each primitive keeps to its labels, and the atomic to its width. *)
LEMMA SpinTypeStep ==
    SpinTypeOK /\ NoWriterObserved /\ [SpinNext]_spinVars => SpinTypeOK' /\ NoWriterObserved'
<1> SUFFICES ASSUME SpinTypeOK, NoWriterObserved, [SpinNext]_spinVars
             PROVE  SpinTypeOK' /\ NoWriterObserved'
    OBVIOUS
<1> USE DEF SpinTypeOK, NoWriterObserved, MutexLabels, SharedLabels,
        SeqLabels, Locks, Jump, data
<1>1. ASSUME NEW t \in Users, TestAndSet(t) PROVE SpinTypeOK' /\ NoWriterObserved'
    BY <1>1, WordFacts DEF TestAndSet
<1>2. ASSUME NEW t \in Users, Test(t) PROVE SpinTypeOK' /\ NoWriterObserved'
    BY <1>2 DEF Test
<1>3. ASSUME NEW t \in Users, Retest(t) PROVE SpinTypeOK' /\ NoWriterObserved'
    BY <1>3, WordFacts DEF Retest
<1>4. ASSUME NEW t \in Users, Unlock(t) PROVE SpinTypeOK' /\ NoWriterObserved'
    BY <1>4, WordFacts DEF Unlock
<1>5. ASSUME NEW t \in Users, LockExclusive(t) PROVE SpinTypeOK' /\ NoWriterObserved'
    BY <1>5, WordFacts DEF LockExclusive
<1>6. ASSUME NEW t \in Users, CasSharedFails(t) PROVE SpinTypeOK' /\ NoWriterObserved'
    BY <1>6 DEF CasSharedFails
<1>7. ASSUME NEW t \in Users, UnlockShared(t) PROVE SpinTypeOK' /\ NoWriterObserved'
    BY <1>7, DecrementIs DEF UnlockShared
<1>8. ASSUME NEW t \in Users, NEW label \in {"cas", "cas_once"}, LoadShared(t, label)
      PROVE  SpinTypeOK' /\ NoWriterObserved'
    BY <1>8 DEF LoadShared
<1>9. ASSUME NEW t \in Users, NEW label \in {"cas", "cas_once"}, CasShared(t, label)
      PROVE  SpinTypeOK' /\ NoWriterObserved'
    <2>1. observed[t] \in Words /\ observed[t] < writer_bit
        BY <1>9 DEF CasShared
    <2>2. word' \in Words
        BY <1>9, <2>1, WordFacts DEF CasShared
    <2>3. lock' = lock /\ lock = "shared_spinlock" /\ at' = [at EXCEPT ![t] = "shared"]
        BY <1>9 DEF CasShared
    <2>4. UNCHANGED <<write_mutex_, a, b, observed, copy, accepted>>
        BY <1>9 DEF CasShared
    <2> QED BY <2>2, <2>3, <2>4
<1>10. ASSUME NEW t \in Users, LockWriters(t) PROVE SpinTypeOK' /\ NoWriterObserved'
    BY <1>10 DEF LockWriters
<1>11. ASSUME NEW t \in Users, BeginWrite(t) PROVE SpinTypeOK' /\ NoWriterObserved'
    BY <1>11, FetchAddIs DEF BeginWrite
<1>12. ASSUME NEW t \in Users, Write(t) PROVE SpinTypeOK' /\ NoWriterObserved'
    <2>1. a' \in Nat /\ b' \in Nat
        BY <1>12, DataFacts
    <2>2. /\ UNCHANGED <<lock, word, write_mutex_, observed, copy, accepted>> /\ lock = "seqlock"
          /\ \E l \in {"write_b", "end"} : at' = [at EXCEPT ![t] = l]
        BY <1>12 DEF Write
    <2> QED BY <2>1, <2>2
<1>13. ASSUME NEW t \in Users, EndWrite(t) PROVE SpinTypeOK' /\ NoWriterObserved'
    BY <1>13, FetchAddIs DEF EndWrite
<1>14. ASSUME NEW t \in Users, UnlockWriters(t) PROVE SpinTypeOK' /\ NoWriterObserved'
    BY <1>14 DEF UnlockWriters
<1>15. ASSUME NEW t \in Users, ReadBegin(t) PROVE SpinTypeOK' /\ NoWriterObserved'
    BY <1>15 DEF ReadBegin
<1>16. ASSUME NEW t \in Users, Read(t) PROVE SpinTypeOK' /\ NoWriterObserved'
    <2>1. copy' \in [Users -> Copies]
        BY <1>16, DataFacts
    <2> QED BY <1>16, <2>1 DEF Read
<1>17. ASSUME NEW t \in Users, ReadRetry(t) PROVE SpinTypeOK' /\ NoWriterObserved'
    <2>1. <<0, 0>> \in Copies /\ 0 \in Words
        BY WordFacts DEF Copies
    <2>2. /\ copy' \in [Users -> Copies] /\ accepted' \in [Users -> Copies]
          /\ observed' \in [Users -> Words]
        BY <1>17, <2>1 DEF ReadRetry
    <2> QED BY <1>17, <2>2 DEF ReadRetry
<1>18. CASE UNCHANGED spinVars
    BY <1>18 DEF spinVars
<1> QED
    BY <1>1, <1>2, <1>3, <1>4, <1>5, <1>6, <1>7, <1>8, <1>9, <1>10, <1>11, <1>12, <1>13,
       <1>14, <1>15, <1>16, <1>17, <1>18 DEF SpinNext, SpinStep

-----------------------------------------------------------------------------
(* Exclusion *)

Locked(f) == Count(f, "locked")
Shared(f) == Count(f, "shared")

(* Exclusion in terms of how many threads hold the lock in either way. *)
ByCount(w, l, s) ==
    /\ l \in {0, 1} /\ s \in Nat
    /\ l = 1 => s = 0
    /\ lock = "shared_spinlock" => w = IF l = 1 THEN writer_bit ELSE s
    /\ lock = "spinlock_mutex" => w = l

(* It is the same property. *)
LEMMA ExclusionByCount == Exclusion <=> ByCount(word, Locked(at), Shared(at))
<1> DEFINE L == Locked(at)
           S == Shared(at)
<1>1. /\ L \in Nat /\ S \in Nat
      /\ Cardinality(Holding("locked")) = L /\ Cardinality(Holding("shared")) = S
      /\ L = 0 <=> Holding("locked") = {}
      /\ S = 0 <=> Holding("shared") = {}
    BY CountType DEF Holding, Count, Locked, Shared
<1>2. writer_bit \in Nat
    BY WordFacts
<1> HIDE DEF L, S
<1>3. L <= 1 => L \in {0, 1}
    BY <1>1
<1>4. writer_bit * 0 = 0 /\ writer_bit * 1 = writer_bit
    BY <1>2
<1> QED BY <1>1, <1>2, <1>3, <1>4 DEF Exclusion, ByCount, L, S

(* A jump that neither enters nor leaves "locked" and "shared". *)
LEMMA HoldersStay ==
    ASSUME SpinTypeOK, NEW t \in Users, NEW to, at' = [at EXCEPT ![t] = to],
           {at[t], to} \cap {"locked", "shared"} = {}
    PROVE  Locked(at') = Locked(at) /\ Shared(at') = Shared(at)
<1>1. at = [u \in Users |-> at[u]]
    BY DEF SpinTypeOK
<1>2. \A l : l # to /\ l # at[t] => Count(at', l) = Count(at, l)
    BY <1>1, JumpCounts
<1> QED BY <1>2 DEF Locked, Shared

(* A thread gets the lock, or gives it back. *)
LEMMA HoldersChange ==
    ASSUME SpinTypeOK, NEW t \in Users, NEW to, at' = [at EXCEPT ![t] = to]
    PROVE  /\ to = "locked" /\ at[t] \notin {"locked", "shared"} =>
                  Locked(at') = Locked(at) + 1 /\ Shared(at') = Shared(at)
           /\ to = "shared" /\ at[t] \notin {"locked", "shared"} =>
                  Locked(at') = Locked(at) /\ Shared(at') = Shared(at) + 1
           /\ to = "idle" /\ at[t] = "locked" =>
                  Locked(at') = Locked(at) - 1 /\ Shared(at') = Shared(at)
           /\ to = "idle" /\ at[t] = "shared" =>
                  Locked(at') = Locked(at) /\ Shared(at') = Shared(at) - 1
<1>1. at = [u \in Users |-> at[u]]
    BY DEF SpinTypeOK
<1> QED BY <1>1, JumpCounts DEF Locked, Shared

SpinInv == SpinTypeOK /\ NoWriterObserved /\ Exclusion

(* Every access to the word of a spinlock keeps exclusion. *)
LEMMA ExclusionStep == SpinInv /\ [SpinNext]_spinVars => Exclusion'
<1> SUFFICES ASSUME SpinTypeOK, NoWriterObserved, [SpinNext]_spinVars,
                    ByCount(word, Locked(at), Shared(at))
             PROVE  ByCount(word, Locked(at), Shared(at))'
    BY ExclusionByCount, PTL DEF SpinInv
<1> DEFINE L == Locked(at)
           S == Shared(at)
           Seq(t) == \/ LockWriters(t) \/ BeginWrite(t) \/ Write(t) \/ EndWrite(t)
                     \/ UnlockWriters(t) \/ ReadBegin(t) \/ Read(t) \/ ReadRetry(t)
<1>0. /\ writer_bit \in Nat \ {0} /\ word \in Words /\ word \in Nat
      /\ L \in Nat /\ S \in Nat
      /\ lock = "spinlock_mutex" => S = 0
    <2>1. writer_bit \in Nat \ {0} /\ word \in Words /\ Words \subseteq Nat
        BY WordFacts DEF SpinTypeOK, Words
    <2>2. lock = "spinlock_mutex" => {u \in Users : at[u] = "shared"} = {}
        BY DEF SpinTypeOK, MutexLabels
    <2> QED BY <2>1, <2>2, CountType DEF Locked, Shared
<1>1. ASSUME NEW t \in Users, TestAndSet(t) PROVE ByCount(word, L, S)'
    <2>1. /\ lock' = lock /\ lock = "spinlock_mutex" /\ word' = 1
          /\ \/ word = 0 /\ L' = L + 1 /\ S' = S
             \/ word = 1 /\ L' = L /\ S' = S
        BY <1>1, HoldersChange, HoldersStay DEF TestAndSet, Jump
    <2> QED BY <1>0, <2>1 DEF ByCount
<1>2. ASSUME NEW t \in Users, Test(t) PROVE ByCount(word, L, S)'
    <2>1. L' = L /\ S' = S /\ lock' = lock /\ word' = word
        BY <1>2, HoldersStay DEF Test, Jump
    <2> QED BY <2>1 DEF ByCount
<1>3. ASSUME NEW t \in Users, Retest(t) PROVE ByCount(word, L, S)'
    <2>1. /\ lock' = lock /\ lock = "spinlock_mutex" /\ word' = 1
          /\ \/ word = 0 /\ L' = L + 1 /\ S' = S
             \/ word # 0 /\ L' = L /\ S' = S
        BY <1>3, HoldersChange, HoldersStay DEF Retest, Jump
    <2> QED BY <1>0, <2>1 DEF ByCount
<1>4. ASSUME NEW t \in Users, Unlock(t) PROVE ByCount(word, L, S)'
    <2>1. lock' = lock /\ word' = 0 /\ L' = L - 1 /\ S' = S
        BY <1>4, HoldersChange DEF Unlock, Jump
    <2>2. L' \in Nat
        BY CountType DEF Locked
    <2> QED BY <1>0, <2>1, <2>2 DEF ByCount
<1>5. ASSUME NEW t \in Users, LockExclusive(t) PROVE ByCount(word, L, S)'
    <2>1. /\ lock' = lock /\ lock = "shared_spinlock" /\ word = 0 /\ word' = writer_bit
          /\ L' = L + 1 /\ S' = S
        BY <1>5, HoldersChange DEF LockExclusive, Jump
    <2> QED BY <1>0, <2>1 DEF ByCount
<1>6. ASSUME NEW t \in Users, CasSharedFails(t) PROVE ByCount(word, L, S)'
    <2>1. L' = L /\ S' = S /\ lock' = lock /\ word' = word
        BY <1>6, HoldersStay DEF CasSharedFails, Jump
    <2> QED BY <2>1 DEF ByCount
<1>7. ASSUME NEW t \in Users, UnlockShared(t) PROVE ByCount(word, L, S)'
    <2>1. /\ lock' = lock /\ lock = "shared_spinlock" /\ word' = (word - 1) % Word
          /\ L' = L /\ S' = S - 1
        BY <1>7, HoldersChange
        DEF UnlockShared, Jump, SpinTypeOK, Locks, MutexLabels, SeqLabels
    <2>2. S' \in Nat
        BY CountType DEF Shared
    <2>3. L = 0 /\ word = S /\ word # 0
        BY <1>0, <2>1, <2>2 DEF ByCount
    <2>4. word' = word - 1
        BY <1>0, <2>1, <2>3, DecrementIs
    <2> QED BY <1>0, <2>1, <2>2, <2>3, <2>4 DEF ByCount
<1>8. ASSUME NEW t \in Users, NEW label \in {"cas", "cas_once"}, LoadShared(t, label)
      PROVE  ByCount(word, L, S)'
    <2>1. L' = L /\ S' = S /\ lock' = lock /\ word' = word
        BY <1>8, HoldersStay DEF LoadShared, Jump
    <2> QED BY <2>1 DEF ByCount
<1>9. ASSUME NEW t \in Users, NEW label \in {"cas", "cas_once"}, CasShared(t, label)
      PROVE  ByCount(word, L, S)'
    <2>1. /\ lock' = lock /\ lock = "shared_spinlock" /\ L' = L /\ S' = S + 1
          /\ word' = word + 1
        BY <1>9, HoldersChange DEF CasShared, Jump, SpinTypeOK, Locks, MutexLabels, SeqLabels
    <2>2. word < writer_bit
        BY <1>9 DEF CasShared, Jump, NoWriterObserved
    <2>3. L = 0 /\ word = S
        BY <1>0, <2>1, <2>2 DEF ByCount
    <2> QED BY <1>0, <2>1, <2>3 DEF ByCount
<1>10. ASSUME NEW t \in Users, Seq(t) PROVE ByCount(word, L, S)'
    <2>1. /\ lock = "seqlock" /\ lock' = lock
          /\ \E to \in SeqLabels : at' = [at EXCEPT ![t] = to] /\ at[t] \in SeqLabels
        BY <1>10
        DEF LockWriters, BeginWrite, Write, EndWrite, UnlockWriters, ReadBegin, Read,
            ReadRetry, Jump, SpinTypeOK, Locks, MutexLabels, SharedLabels, SeqLabels
    <2>2. L' = L /\ S' = S
        BY <2>1, HoldersStay DEF SeqLabels
    <2> QED BY <2>1, <2>2 DEF ByCount
<1>11. CASE UNCHANGED spinVars
    BY <1>11 DEF spinVars, ByCount
<1> QED
    BY <1>1, <1>2, <1>3, <1>4, <1>5, <1>6, <1>7, <1>8, <1>9, <1>10, <1>11 DEF SpinNext, SpinStep

(* The program starts well-typed. *)
LEMMA InitTypes == SpinInit => SpinTypeOK /\ NoWriterObserved
<1>1. <<0, 0>> \in Copies /\ {0, Word - 2} \subseteq Words
    BY WordFacts DEF Copies
<1>2. SpinInit => /\ word \in Words /\ observed \in [Users -> Words]
                  /\ copy \in [Users -> Copies] /\ accepted \in [Users -> Copies]
    BY <1>1 DEF SpinInit
<1>3. SpinInit => /\ at \in [Users -> MutexLabels \cup SharedLabels \cup SeqLabels]
                  /\ \A t \in Users : at[t] \in MutexLabels \cap SharedLabels \cap SeqLabels
                  /\ \A t \in Users : at[t] = "idle"
    BY DEF SpinInit, MutexLabels, SharedLabels, SeqLabels
<1>4. SpinInit => lock \in Locks /\ a \in Nat /\ b \in Nat
    BY DEF SpinInit, Locks
<1>5. SpinInit => write_mutex_ \in BOOLEAN
    BY DEF SpinInit
<1> QED BY <1>2, <1>3, <1>4, <1>5 DEF SpinTypeOK, NoWriterObserved

(* No two threads have a spinlock exclusively, no reader shares it with a  *)
(* writer, and the word of the lock says who is in: for any number of      *)
(* threads (below writer_bit) and any writer_bit.                          *)
THEOREM ExclusionHolds == SpinSpec => []Exclusion
<1>1. SpinInit => SpinInv
    <2> SUFFICES ASSUME SpinInit PROVE SpinInv
        OBVIOUS
    <2>1. SpinTypeOK /\ NoWriterObserved
        BY InitTypes
    <2>2. Holding("locked") = {} /\ Holding("shared") = {}
        BY DEF SpinInit, Holding
    <2>3. Exclusion
        BY <2>2, FS_EmptySet, WordFacts DEF Exclusion, SpinInit
    <2> QED BY <2>1, <2>3 DEF SpinInv
<1>2. SpinInv /\ [SpinNext]_spinVars => SpinInv'
    BY SpinTypeStep, ExclusionStep DEF SpinInv
<1> QED BY <1>1, <1>2, PTL DEF SpinSpec, SpinInv

-----------------------------------------------------------------------------
(* The seqlock *)

(* sequence_ after n fetch_adds, n less than it takes to come round. *)
After(base, n) == IF base + n < Word THEN base + n ELSE base + n - Word

Writing == {"begin", "write_a", "write_b", "end", "unlock"}

(* Where a writer is tells what it has done to sequence_, a and b. *)
WriterAt(label, n) ==
    /\ label = "begin"   => n = 2 * a /\ a = b /\ a < MaxWrites
    /\ label = "write_a" => n = 2 * a + 1 /\ a = b /\ a < MaxWrites
    /\ label = "write_b" => n = 2 * b + 1 /\ a = b + 1
    /\ label = "end"     => n = 2 * a - 1 /\ a = b
    /\ label = "unlock"  => n = 2 * a /\ a = b

(* What the fields hold after n fetch_adds: the same, but amid a write. *)
Settled(n) ==
    \/ n = 2 * a /\ a = b
    \/ n = 2 * a + 1 /\ a = b
    \/ n = 2 * b + 1 /\ a = b + 1
    \/ n = 2 * a - 1 /\ a = b

(* A reader that began after 2k fetch_adds has, unless a write has begun   *)
(* since, the k-th value in what it has copied.                            *)
ReaderAt(t, base, n, k) ==
    /\ observed[t] = After(base, 2 * k)
    /\ 2 * k <= n
    /\ accepted[t][1] <= k
    /\ at[t] \in {"read_b", "retry"} /\ n = 2 * k => copy[t][1] = k
    /\ at[t] = "retry" /\ n = 2 * k => copy[t][2] = k

Sequence(base, n) ==
    /\ word = After(base, n)
    /\ a <= MaxWrites
    /\ Settled(n)
    /\ ~write_mutex_ => n = 2 * a /\ a = b
    /\ \A t \in Users : at[t] \in Writing =>
           /\ write_mutex_
           /\ WriterAt(at[t], n)
           /\ \A u \in Users : at[u] \in Writing => u = t
    /\ \A t \in Users : accepted[t][1] <= a
    /\ \A t \in Users : at[t] \in Reading => \E k \in 0..MaxWrites : ReaderAt(t, base, n, k)

SeqInv ==
    /\ \A t \in Users : accepted[t][1] = accepted[t][2]
    /\ lock = "seqlock" => \E base \in {0, Word - 2}, n \in 0..(2 * MaxWrites) : Sequence(base, n)

SeqStep(t) ==
    \/ LockWriters(t) \/ BeginWrite(t) \/ Write(t) \/ EndWrite(t) \/ UnlockWriters(t)
    \/ ReadBegin(t) \/ Read(t) \/ ReadRetry(t)

(* The steps of a seqlock's threads, and what no other thread does. *)
LEMMA StepsByLock ==
    ASSUME SpinTypeOK, NEW t \in Users, SpinStep(t)
    PROVE  /\ lock' = lock
           /\ lock = "seqlock" => SeqStep(t)
           /\ lock # "seqlock" => accepted' = accepted
<1>1. lock' = lock
    BY DEF SpinStep, TestAndSet, Test, Retest, Unlock, LockExclusive, CasSharedFails,
           UnlockShared, LoadShared, CasShared, LockWriters, BeginWrite, Write, EndWrite,
           UnlockWriters, ReadBegin, Read, ReadRetry
<1>2. ASSUME lock = "seqlock" PROVE SeqStep(t)
    <2>1. at[t] \in SeqLabels
        BY <1>2 DEF SpinTypeOK
    <2> QED BY <1>2, <2>1 DEF SpinStep, SeqStep, TestAndSet, Test, Retest, Unlock, LockExclusive,
           CasSharedFails, UnlockShared, LoadShared, CasShared, Jump, SeqLabels
<1>3. ASSUME lock # "seqlock" PROVE accepted' = accepted
    <2>1. at[t] # "retry"
        BY <1>3 DEF SpinTypeOK, Locks, MutexLabels, SharedLabels
    <2> QED BY <2>1
        DEF SpinStep, TestAndSet, Test, Retest, Unlock, LockExclusive, CasSharedFails,
           UnlockShared, LoadShared, CasShared, LockWriters, BeginWrite, Write, EndWrite,
           UnlockWriters, ReadBegin, Read, ReadRetry, Jump
<1> QED BY <1>1, <1>2, <1>3

(* A fetch_add brings sequence_ to its next value; two values differ unless *)
(* as many fetch_adds made them; and an even value has had an even number.  *)
LEMMA AfterFacts ==
    ASSUME NEW base \in {0, Word - 2}, NEW n \in 0..(2 * MaxWrites)
    PROVE  /\ n < 2 * MaxWrites /\ word = After(base, n) /\ word \in Words /\ FetchAdd =>
                  word' = After(base, n + 1)
           /\ \A m \in 0..(2 * MaxWrites) : After(base, m) = After(base, n) => m = n
           /\ \A k \in Int : n = 2 * k + 1 => After(base, n) % 2 # 0
<1>1. /\ writer_bit \in Nat \ {0} /\ Word = 2 * writer_bit /\ MaxWrites \in Nat
      /\ MaxWrites < writer_bit /\ n \in Nat
    BY SpinAssumption, WordFacts
<1>2. ASSUME n < 2 * MaxWrites, word = After(base, n), word \in Words, FetchAdd
      PROVE  word' = After(base, n + 1)
    <2>1. word' = IF word + 1 = Word THEN 0 ELSE word + 1
        BY <1>2, FetchAddIs
    <2> QED BY <1>1, <1>2, <2>1 DEF After
<1>3. ASSUME NEW m \in 0..(2 * MaxWrites), After(base, m) = After(base, n) PROVE m = n
    BY <1>1, <1>3 DEF After
<1>4. ASSUME NEW k \in Int, n = 2 * k + 1 PROVE After(base, n) % 2 # 0
    <2>1. \E j \in Int : After(base, n) = 2 * j + 1
        <3>1. \E j \in {k, k + writer_bit - 1, k - writer_bit, k - 1} : After(base, n) = 2 * j + 1
            BY <1>1, <1>4 DEF After
        <3>2. {k, k + writer_bit - 1, k - writer_bit, k - 1} \subseteq Int
            BY <1>1
        <3> QED BY <3>1, <3>2
    <2> QED BY <2>1
<1> QED BY <1>2, <1>3, <1>4

(* What a reader knows stays true while others take their steps. *)
LEMMA ReadersKeep ==
    ASSUME NEW base, NEW n \in Nat, NEW m \in {n, n + 1}, Sequence(base, n), MaxWrites \in Nat,
           NEW u \in Users, at'[u] = at[u], at[u] \in Reading,
           accepted' = accepted, observed'[u] = observed[u], copy'[u] = copy[u]
    PROVE  \E k \in 0..MaxWrites : ReaderAt(u, base, m, k)'
<1> PICK k \in 0..MaxWrites : ReaderAt(u, base, n, k)
    BY DEF Sequence
<1>1. ReaderAt(u, base, m, k)'
    BY DEF ReaderAt
<1> QED BY <1>1

(* A writer's step that makes j fetch_adds, j = 0 or 1. *)
LEMMA WriterStep ==
    ASSUME SpinTypeOK, lock = "seqlock", NEW base \in {0, Word - 2},
           NEW n \in 0..(2 * MaxWrites), Sequence(base, n), NEW t \in Users,
           LockWriters(t) \/ BeginWrite(t) \/ Write(t) \/ EndWrite(t) \/ UnlockWriters(t)
    PROVE  \E m \in 0..(2 * MaxWrites) : Sequence(base, m)'
<1> USE DEF Jump, data
<1>0. a \in Nat /\ b \in Nat /\ n \in Nat /\ MaxWrites \in Nat /\ word \in Words
    BY SpinAssumption DEF SpinTypeOK
<1>1. /\ UNCHANGED <<observed, copy, accepted>>
      /\ \A u \in Users : u # t => at'[u] = at[u]
      /\ at'[t] \notin Reading
    BY DEF LockWriters, BeginWrite, Write, EndWrite, UnlockWriters, SpinTypeOK, Reading
<1>10. \A u \in Users : accepted[u][1] \in Nat
    BY DEF SpinTypeOK, Copies
<1>2. ASSUME NEW m \in {n, n + 1}
      PROVE  \A u \in Users : at'[u] \in Reading => \E k \in 0..MaxWrites : ReaderAt(u, base, m, k)'
    BY <1>0, <1>1, ReadersKeep
<1>3. CASE LockWriters(t)
    <2>1. /\ at'[t] = "begin" /\ write_mutex_' /\ n = 2 * a /\ a = b /\ a < MaxWrites
          /\ word' = word /\ a' = a /\ b' = b
          /\ \A u \in Users : at[u] \notin Writing
        BY <1>3 DEF LockWriters, Sequence, SpinTypeOK
    <2>2. Sequence(base, n)'
        BY <1>0, <1>1, <1>2, <2>1 DEF Sequence, Settled, WriterAt, Writing
    <2> QED BY <2>2
<1>4. CASE BeginWrite(t)
    <2>1. /\ at[t] = "begin" /\ at'[t] = "write_a" /\ write_mutex_' /\ a' = a /\ b' = b
          /\ n = 2 * a /\ a = b /\ a < MaxWrites
          /\ \A u \in Users : at[u] \in Writing => u = t
        BY <1>4 DEF BeginWrite, Sequence, SpinTypeOK, Writing, WriterAt
    <2>2. word' = After(base, n + 1)
        BY <1>0, <1>4, <2>1, AfterFacts DEF BeginWrite, Sequence
    <2>3. Sequence(base, n + 1)'
        BY <1>0, <1>1, <1>2, <2>1, <2>2 DEF Sequence, Settled, WriterAt, Writing
    <2> QED BY <1>0, <2>1, <2>3
<1>5. CASE Write(t) /\ at[t] = "write_a"
    <2>1. /\ at'[t] = "write_b" /\ write_mutex_' /\ a' = a + 1 /\ b' = b /\ word' = word
          /\ n = 2 * a + 1 /\ a = b /\ a < MaxWrites
          /\ \A u \in Users : at[u] \in Writing => u = t
        BY <1>5 DEF Write, Sequence, SpinTypeOK, Writing, WriterAt
    <2>2. Sequence(base, n)'
        BY <1>0, <1>1, <1>10, <1>2, <2>1 DEF Sequence, Settled, WriterAt, Writing
    <2> QED BY <2>2
<1>6. CASE Write(t) /\ at[t] = "write_b"
    <2>1. /\ at'[t] = "end" /\ write_mutex_' /\ a' = a /\ b' = b + 1 /\ word' = word
          /\ n = 2 * b + 1 /\ a = b + 1
          /\ \A u \in Users : at[u] \in Writing => u = t
        BY <1>6 DEF Write, Sequence, SpinTypeOK, Writing, WriterAt
    <2>2. Sequence(base, n)'
        BY <1>0, <1>1, <1>2, <2>1 DEF Sequence, Settled, WriterAt, Writing
    <2> QED BY <2>2
<1>7. CASE EndWrite(t)
    <2>1. /\ at[t] = "end" /\ at'[t] = "unlock" /\ write_mutex_' /\ a' = a /\ b' = b
          /\ n = 2 * a - 1 /\ a = b /\ a <= MaxWrites
          /\ \A u \in Users : at[u] \in Writing => u = t
        BY <1>7 DEF EndWrite, Sequence, SpinTypeOK, Writing, WriterAt
    <2>2. word' = After(base, n + 1)
        BY <1>0, <1>7, <2>1, AfterFacts DEF EndWrite, Sequence
    <2>3. Sequence(base, n + 1)'
        BY <1>0, <1>1, <1>2, <2>1, <2>2 DEF Sequence, Settled, WriterAt, Writing
    <2> QED BY <1>0, <2>1, <2>3
<1>8. CASE UnlockWriters(t)
    <2>1. /\ at'[t] = "idle" /\ a' = a /\ b' = b /\ word' = word /\ n = 2 * a /\ a = b
          /\ \A u \in Users : at[u] \in Writing => u = t
        BY <1>8 DEF UnlockWriters, Sequence, SpinTypeOK, Writing, WriterAt
    <2>2. Sequence(base, n)'
        BY <1>0, <1>1, <1>2, <2>1 DEF Sequence, Settled, WriterAt, Writing
    <2> QED BY <2>2
<1> QED BY <1>3, <1>4, <1>5, <1>6, <1>7, <1>8 DEF Write

(* A reader keeps a copy only if it is whole and no older than the last. *)
LEMMA KeptCopy ==
    ASSUME SpinTypeOK, NEW base \in {0, Word - 2}, NEW n \in 0..(2 * MaxWrites),
           Sequence(base, n), NEW t \in Users, at[t] = "retry", ~UsageComment, Keeps(t)
    PROVE  copy[t][1] = copy[t][2] /\ copy[t][1] >= accepted[t][1] /\ copy[t][1] <= a
<1>0. a \in Nat /\ b \in Nat /\ n \in Nat /\ MaxWrites \in Nat
    BY SpinAssumption DEF SpinTypeOK
<1>1. PICK k \in 0..MaxWrites : ReaderAt(t, base, n, k)
    BY DEF Sequence, Reading
<1>2. After(base, 2 * k) = After(base, n) /\ 2 * k \in 0..(2 * MaxWrites)
    BY <1>0, <1>1 DEF ReaderAt, Sequence, Keeps, read_retry
<1>3. n = 2 * k
    BY <1>2, AfterFacts
<1>4. copy[t][1] = k /\ copy[t][2] = k /\ accepted[t][1] <= k
    BY <1>1, <1>3 DEF ReaderAt
<1>5. k = a
    BY <1>0, <1>3 DEF Sequence, Settled
<1>6. accepted[t][1] \in Nat
    BY DEF SpinTypeOK, Copies
<1> QED BY <1>0, <1>4, <1>5, <1>6

(* The steps of read_begin, the two reads and read_retry. *)
LEMMA ReaderStep ==
    ASSUME SpinTypeOK, lock = "seqlock", NEW base \in {0, Word - 2},
           NEW n \in 0..(2 * MaxWrites), Sequence(base, n), NEW t \in Users,
           ReadBegin(t) \/ Read(t) \/ ReadRetry(t), ~UsageComment
    PROVE  Sequence(base, n)'
<1> USE DEF Jump, data
<1>0. a \in Nat /\ b \in Nat /\ n \in Nat /\ MaxWrites \in Nat /\ word \in Words
    BY SpinAssumption DEF SpinTypeOK
<1>1. /\ UNCHANGED <<word, write_mutex_, a, b>>
      /\ \A u \in Users : /\ u # t => /\ at'[u] = at[u] /\ observed'[u] = observed[u]
                                      /\ copy'[u] = copy[u] /\ accepted'[u] = accepted[u]
      /\ at'[t] \notin Writing
    BY DEF ReadBegin, Read, ReadRetry, SpinTypeOK, Writing
<1>2. \A u \in Users : accepted'[u][1] <= a
    <2>1. ASSUME ReadRetry(t), Keeps(t) PROVE accepted'[t][1] <= a
        BY <2>1, KeptCopy DEF ReadRetry, SpinTypeOK
    <2>2. ASSUME ~(ReadRetry(t) /\ Keeps(t)) PROVE accepted' = accepted
        BY <2>2 DEF ReadBegin, Read, ReadRetry, SpinTypeOK
    <2> QED BY <1>1, <2>1, <2>2 DEF Sequence
<1>3. ASSUME at'[t] \in Reading PROVE \E k \in 0..MaxWrites : ReaderAt(t, base, n, k)'
    <2>1. CASE ReadBegin(t)
        <3>1. word % 2 = 0 /\ observed'[t] = word /\ at'[t] = "read_a" /\ accepted' = accepted
            BY <2>1 DEF ReadBegin, SpinTypeOK
        <3>2. word = After(base, n) /\ Settled(n) /\ a <= MaxWrites /\ accepted[t][1] <= a
            BY DEF Sequence
        <3>3. \A k \in Int : n # 2 * k + 1
            BY <3>1, <3>2, AfterFacts
        <3>4. n # 2 * a + 1 /\ n # 2 * b + 1 /\ n # 2 * (a - 1) + 1
            <4>1. a \in Int /\ b \in Int /\ a - 1 \in Int
                BY <1>0
            <4> QED BY <3>3, <4>1
        <3>5. PICK k \in 0..MaxWrites : k = a
            BY <1>0, <3>2
        <3>6. n = 2 * k
            BY <1>0, <3>2, <3>4, <3>5 DEF Settled
        <3>7. ReaderAt(t, base, n, k)'
            BY <1>0, <1>1, <3>1, <3>2, <3>5, <3>6 DEF ReaderAt
        <3> QED BY <3>7
    <2>2. CASE Read(t)
        <3>1. PICK k \in 0..MaxWrites : ReaderAt(t, base, n, k)
            BY <2>2 DEF Read, Sequence, Reading
        <3>2. n = 2 * k => a = k /\ b = k
            BY <1>0 DEF Sequence, Settled
        <3>3. CASE at[t] = "read_a"
            BY <2>2, <3>1, <3>2, <3>3 DEF Read, ReaderAt, SpinTypeOK
        <3>4. CASE at[t] = "read_b"
            BY <2>2, <3>1, <3>2, <3>4 DEF Read, ReaderAt, SpinTypeOK, Copies
        <3> QED BY <2>2, <3>3, <3>4 DEF Read
    <2>3. CASE ReadRetry(t)
        BY <1>3, <2>3 DEF ReadRetry, SpinTypeOK, Reading
    <2> QED BY <2>1, <2>2, <2>3
<1>4. ASSUME NEW u \in Users, u # t, at'[u] \in Reading
      PROVE  \E k \in 0..MaxWrites : ReaderAt(u, base, n, k)'
    <2>1. PICK k \in 0..MaxWrites : ReaderAt(u, base, n, k)
        BY <1>1, <1>4 DEF Sequence
    <2>2. ReaderAt(u, base, n, k)'
        BY <1>1, <1>4, <2>1 DEF ReaderAt
    <2> QED BY <2>2
<1> QED BY <1>0, <1>1, <1>2, <1>3, <1>4 DEF Sequence, Settled, WriterAt

(* One step of the whole: the copies kept so far, and the sequence. *)
LEMMA SeqInvStep ==
    ASSUME ~UsageComment, SpinTypeOK, SeqInv, [SpinNext]_spinVars
    PROVE  /\ SeqInv'
           /\ \A t \in Users : accepted'[t][1] >= accepted[t][1]
<1>0. \A t \in Users : accepted[t][1] \in Nat
    BY DEF SpinTypeOK, Copies
<1>1. CASE UNCHANGED spinVars
    BY <1>0, <1>1 DEF spinVars, data, SeqInv, Sequence, Settled, WriterAt, ReaderAt
<1>2. ASSUME NEW t \in Users, SpinStep(t), lock # "seqlock"
      PROVE  SeqInv' /\ \A u \in Users : accepted'[u][1] >= accepted[u][1]
    <2>1. lock' = lock /\ accepted' = accepted
        BY <1>2, StepsByLock
    <2> QED BY <1>0, <1>2, <2>1 DEF SeqInv
<1>3. ASSUME NEW t \in Users, SpinStep(t), lock = "seqlock"
      PROVE  SeqInv' /\ \A u \in Users : accepted'[u][1] >= accepted[u][1]
    <2>1. SeqStep(t) /\ lock' = lock
        BY <1>3, StepsByLock
    <2>2. PICK base \in {0, Word - 2}, n \in 0..(2 * MaxWrites) : Sequence(base, n)
        BY <1>3 DEF SeqInv
    <2>3. \E m \in 0..(2 * MaxWrites) : Sequence(base, m)'
        BY <1>3, <2>1, <2>2, WriterStep, ReaderStep DEF SeqStep
    <2>4. \A u \in Users : /\ accepted'[u][1] = accepted'[u][2]
                           /\ accepted'[u][1] >= accepted[u][1]
        <3>1. CASE ReadRetry(t) /\ Keeps(t)
            <4>1. accepted' = [accepted EXCEPT ![t] = copy[t]]
                BY <3>1 DEF ReadRetry
            <4>2. copy[t][1] = copy[t][2] /\ copy[t][1] >= accepted[t][1]
                BY <2>2, <3>1, KeptCopy DEF ReadRetry, Jump
            <4> QED BY <1>0, <4>1, <4>2 DEF SpinTypeOK, SeqInv
        <3>2. CASE ~(ReadRetry(t) /\ Keeps(t))
            <4>1. accepted' = accepted
                BY <2>1, <3>2 DEF SeqStep, LockWriters, BeginWrite, Write, EndWrite, UnlockWriters,
                                  ReadBegin, Read, ReadRetry, SpinTypeOK
            <4> QED BY <1>0, <4>1 DEF SeqInv
        <3> QED BY <3>1, <3>2
    <2> QED BY <2>1, <2>3, <2>4 DEF SeqInv
<1> QED BY <1>1, <1>2, <1>3 DEF SpinNext

(* A copy that a reader keeps because read_retry is true is one whole      *)
(* value of the protected fields, and not an older one than the reader     *)
(* had: for any number of readers and writers, also across the wrap of     *)
(* sequence_.                                                              *)
THEOREM NoTornReadHolds == ASSUME ~UsageComment PROVE SpinSpec => NoTornRead
<1>1. SpinInit => SpinTypeOK /\ NoWriterObserved /\ SeqInv
    <2> SUFFICES ASSUME SpinInit PROVE SpinTypeOK /\ NoWriterObserved /\ SeqInv
        OBVIOUS
    <2>1. /\ lock = "seqlock" => Sequence(word, 0)
          /\ \A t \in Users : accepted[t][1] = accepted[t][2]
        <3>1. MaxWrites \in Nat /\ Word \in Nat /\ Word >= 2
            BY SpinAssumption, WordFacts
        <3>2. lock = "seqlock" => After(word, 0) = word
            BY <3>1 DEF SpinInit, After
        <3> QED BY <3>1, <3>2 DEF SpinInit, Sequence, Settled, Writing, Reading
    <2>2. lock = "seqlock" => word \in {0, Word - 2}
        BY DEF SpinInit
    <2>3. 0 \in 0..(2 * MaxWrites)
        BY SpinAssumption
    <2>4. SeqInv
        BY <2>1, <2>2, <2>3 DEF SeqInv
    <2> QED BY <2>4, InitTypes
<1>2. SpinTypeOK /\ NoWriterObserved /\ SeqInv /\ [SpinNext]_spinVars
          => (SpinTypeOK /\ NoWriterObserved /\ SeqInv)'
    BY SpinTypeStep, SeqInvStep
<1>3. SpinTypeOK /\ SeqInv /\ [SpinNext]_spinVars
          => [\A t \in Users : /\ accepted'[t][1] = accepted'[t][2]
                               /\ accepted'[t][1] >= accepted[t][1]]_spinVars
    BY SeqInvStep DEF SeqInv
<1> QED BY <1>1, <1>2, <1>3, PTL DEF SpinSpec, NoTornRead
=============================================================================
