------------------------------ MODULE CondSync ------------------------------
(***************************************************************************)
(* The primitives built on a mutex and a condition variable:               *)
(* counting_semaphore and binary_semaphore (include/semaphore.hpp), latch  *)
(* (include/latch.hpp) and barrier (include/barrier.hpp).  A behaviour     *)
(* uses one of them, prim.                                                 *)
(*                                                                         *)
(* A critical section of the mutex is one step, up to the sleep or the     *)
(* unlock in it.  A thread in the wait of a condition variable is in       *)
(* asleep; a notification or a spurious wakeup takes it out, and it tests  *)
(* the predicate again.  stage of a thread: "idle"; "acquire", "wait",     *)
(* "arrived" to test the predicate of the semaphore, the latch, the        *)
(* barrier; "notify" (for arrive_and_drop "notify_drop") after the unlock, *)
(* with notifications still to be sent; "dropped" out of the barrier.      *)
(***************************************************************************)
EXTENDS Integers, FiniteSets

CONSTANTS
    Participants,   \* the threads
    MaxPermits,     \* bound: the permits a semaphore has at a time
    MaxPhases,      \* bound: the phases of a barrier
    Generations     \* generation_ counts modulo this (2^64)

ASSUME CondAssumption ==
    /\ IsFiniteSet(Participants)
    /\ MaxPermits \in Nat /\ MaxPhases \in Nat /\ Generations \in Nat \ {0, 1}

VARIABLES
    prim,
    count_, expected_, generation_,
    stage, asleep,
    left,       \* the notifications a thread in "notify" has still to send
    phase,      \* barrier: the local variable of a thread's call
    arrivals, passes, completions   \* history of the barrier: how often each
                \* thread arrived and returned, and completion_ was called

shared   == <<count_, expected_, generation_>>
history  == <<arrivals, passes, completions>>
condVars == <<prim, shared, stage, asleep, left, phase, history>>

Semaphores == {"counting_semaphore", "binary_semaphore"}

CondInit ==
    /\ prim \in Semaphores \cup {"latch", "barrier"}
    /\ count_ \in IF prim \in Semaphores THEN {0, 1} ELSE {Cardinality(Participants)}
    /\ expected_ = Cardinality(Participants)
    /\ generation_ = 0
    /\ stage = [t \in Participants |-> "idle"]
    /\ asleep = {}
    /\ left = [t \in Participants |-> 0]
    /\ phase = [t \in Participants |-> 0]
    /\ arrivals = [t \in Participants |-> 0]
    /\ passes = [t \in Participants |-> 0]
    /\ completions = 0

Awake(t, label) == stage[t] = label /\ t \notin asleep
Move(t, label) == stage' = [stage EXCEPT ![t] = label]

(* notify_all, in the critical section or after it. *)
WakeAll == asleep' = {}

(* A wakeup without a notification. *)
CondSpuriousWakeup(t) ==
    /\ t \in asleep
    /\ asleep' = asleep \ {t}
    /\ UNCHANGED <<prim, shared, stage, left, phase, history>>

-----------------------------------------------------------------------------
(* counting_semaphore, and binary_semaphore, which hands its calls on *)

AcquireCalled(t) ==
    /\ prim \in Semaphores
    /\ Awake(t, "idle")
    /\ Move(t, "acquire")
    /\ UNCHANGED <<prim, shared, asleep, left, phase, history>>

Acquire(t) ==
    /\ Awake(t, "acquire")
    /\ IF count_ > 0 THEN count_' = count_ - 1 /\ Move(t, "idle") /\ UNCHANGED asleep
                     ELSE asleep' = asleep \cup {t} /\ UNCHANGED <<count_, stage>>
    /\ UNCHANGED <<prim, expected_, generation_, left, phase, history>>

(* try_acquire, when it returns true; otherwise it changes nothing. *)
TryAcquire(t) ==
    /\ prim \in Semaphores
    /\ Awake(t, "idle")
    /\ count_ > 0
    /\ count_' = count_ - 1
    /\ UNCHANGED <<prim, expected_, generation_, stage, asleep, left, phase, history>>

(* release(n).  "Releasing an already-available semaphore is a logic error *)
(* on the caller side" for the binary one.                                 *)
Release(t, n) ==
    /\ prim \in Semaphores
    /\ Awake(t, "idle")
    /\ count_ + n <= IF prim = "binary_semaphore" THEN 1 ELSE MaxPermits
    /\ count_' = count_ + n
    /\ left' = [left EXCEPT ![t] = n]
    /\ Move(t, "notify")
    /\ UNCHANGED <<prim, expected_, generation_, asleep, phase, history>>

(* Mutant: one notification for all the permits. *)
NotifyOnce(t) ==
    /\ Awake(t, "notify") /\ prim \in Semaphores
    /\ \/ asleep = {} /\ UNCHANGED asleep
       \/ \E u \in asleep : asleep' = asleep \ {u}
    /\ left' = [left EXCEPT ![t] = 0]
    /\ Move(t, "idle")
    /\ UNCHANGED <<prim, shared, phase, history>>

Notify(t) ==
    /\ Awake(t, "notify") /\ prim \in Semaphores
    /\ \/ asleep = {} /\ UNCHANGED asleep
       \/ \E u \in asleep : asleep' = asleep \ {u}
    /\ left' = [left EXCEPT ![t] = @ - 1]
    /\ Move(t, IF left[t] > 1 THEN "notify" ELSE "idle")
    /\ UNCHANGED <<prim, shared, phase, history>>

-----------------------------------------------------------------------------
(* latch *)

(* count_down(n), and the first half of arrive_and_wait(n), which waits.   *)
(* Bound: nobody counts on when the latch is open.                         *)
CountDown(t, n, waits) ==
    /\ prim = "latch"
    /\ Awake(t, "idle")
    /\ count_ > 0
    /\ count_' = count_ - n
    /\ IF count_' <= 0 THEN WakeAll ELSE UNCHANGED asleep
    /\ Move(t, IF waits THEN "wait" ELSE "idle")
    /\ UNCHANGED <<prim, expected_, generation_, left, phase, history>>

WaitCalled(t) ==
    /\ prim = "latch"
    /\ Awake(t, "idle")
    /\ Move(t, "wait")
    /\ UNCHANGED <<prim, shared, asleep, left, phase, history>>

Wait(t) ==
    /\ Awake(t, "wait")
    /\ IF count_ <= 0 THEN Move(t, "idle") /\ UNCHANGED asleep
                      ELSE asleep' = asleep \cup {t} /\ UNCHANGED stage
    /\ UNCHANGED <<prim, shared, left, phase, history>>

-----------------------------------------------------------------------------
(* barrier: every thread arrives, MaxPhases times or until it drops out *)

(* Mutant: the last thread to arrive is counted for the next phase, too. *)
CompletePhaseShort(expected) ==
    /\ completions' = completions + 1
    /\ count_' = expected - 1
    /\ generation_' = (generation_ + 1) % Generations

(* complete_phase: completion_(), then the next phase. *)
CompletePhase(expected) ==
    /\ completions' = completions + 1
    /\ count_' = expected
    /\ generation_' = (generation_ + 1) % Generations

(* arrive_and_wait and arrive_and_drop up to the unlock, or to the wait. *)
Arrive(t, drops) ==
    /\ prim = "barrier"
    /\ Awake(t, "idle")
    /\ arrivals[t] < MaxPhases
    /\ arrivals' = [arrivals EXCEPT ![t] = @ + 1]
    /\ expected_' = IF drops THEN expected_ - 1 ELSE expected_
    /\ phase' = [phase EXCEPT ![t] = generation_]
    /\ IF count_ - 1 = 0
       THEN /\ CompletePhase(expected_')
            /\ left' = [left EXCEPT ![t] = 1]
            /\ Move(t, IF drops THEN "notify_drop" ELSE "notify")
       ELSE /\ count_' = count_ - 1
            /\ Move(t, IF drops THEN "dropped" ELSE "arrived")
            /\ UNCHANGED <<generation_, completions, left>>
    /\ UNCHANGED <<prim, asleep, passes>>

(* The predicate of the wait. *)
Arrived(t) ==
    /\ Awake(t, "arrived")
    /\ IF generation_ # phase[t]
       THEN /\ passes' = [passes EXCEPT ![t] = @ + 1]
            /\ Move(t, "idle")
            /\ UNCHANGED asleep
       ELSE /\ asleep' = asleep \cup {t}
            /\ UNCHANGED <<stage, passes>>
    /\ UNCHANGED <<prim, shared, left, phase, arrivals, completions>>

(* Mutant: arrive_and_drop returns without a notification. *)
NotifyAllButDrop(t) ==
    /\ prim = "barrier"
    /\ stage[t] \in {"notify", "notify_drop"}
    /\ left' = [left EXCEPT ![t] = 0]
    /\ IF stage[t] = "notify"
       THEN WakeAll /\ Move(t, "idle") /\ passes' = [passes EXCEPT ![t] = @ + 1]
       ELSE Move(t, "dropped") /\ UNCHANGED <<asleep, passes>>
    /\ UNCHANGED <<prim, shared, phase, arrivals, completions>>

NotifyAll(t) ==
    /\ prim = "barrier"
    /\ stage[t] \in {"notify", "notify_drop"}
    /\ WakeAll
    /\ left' = [left EXCEPT ![t] = 0]
    /\ IF stage[t] = "notify"
       THEN Move(t, "idle") /\ passes' = [passes EXCEPT ![t] = @ + 1]
       ELSE Move(t, "dropped") /\ UNCHANGED passes
    /\ UNCHANGED <<prim, shared, phase, arrivals, completions>>

-----------------------------------------------------------------------------

(* What a thread does inside a call. *)
CondProceed(t) == Acquire(t) \/ Notify(t) \/ Wait(t) \/ Arrived(t) \/ NotifyAll(t)

CondStep(t) ==
    \/ CondProceed(t) \/ CondSpuriousWakeup(t)
    \/ AcquireCalled(t) \/ TryAcquire(t) \/ (\E n \in 1..MaxPermits : Release(t, n))
    \/ (\E n \in 1..2, waits \in BOOLEAN : CountDown(t, n, waits)) \/ WaitCalled(t)
    \/ \E drops \in BOOLEAN : Arrive(t, drops)

CondNext == \E t \in Participants : CondStep(t)

CondSpec == CondInit /\ [][CondNext]_condVars

-----------------------------------------------------------------------------

(* The notifications that release has still to send. *)
Pending == {p \in Participants \X (1..MaxPermits) : p[2] <= left[p[1]]}

(* A sleeper whose condition holds is never forgotten: for every free      *)
(* permit a notification is on its way or a thread is awake to take it     *)
(* (semaphore.hpp:47 notifies after the unlock, one at a time), nobody     *)
(* sleeps at an open latch, and nobody in a phase that is over unless its  *)
(* last thread has still to notify (barrier.hpp:31).                       *)
NoLostWakeup ==
    /\ prim \in Semaphores /\ asleep # {} =>
           count_ <= Cardinality({t \in Participants : Awake(t, "acquire")})
                         + Cardinality(Pending)
    /\ prim = "latch" /\ asleep # {} => count_ > 0
    /\ prim = "barrier" /\ (\E t \in asleep : generation_ # phase[t]) =>
           \E u \in Participants : stage[u] \in {"notify", "notify_drop"}

(* "After the barrier, every thread must have reached phase p"             *)
(* (test_sync.cpp:304): a thread returns from its p-th call only when all  *)
(* the others that have not dropped out have arrived p times, and after    *)
(* completion_ ran p times; also when the generation wraps around and when *)
(* a slow thread is overtaken by fast ones that arrive again.              *)
PhasesSeparated ==
    prim = "barrier" =>
        \A t \in Participants :
            /\ passes[t] <= completions
            /\ stage[t] \in {"dropped", "notify_drop"} \/ completions <= arrivals[t]

(* Does some sleeper's condition hold? *)
CouldProceed ==
    \/ prim \in Semaphores /\ count_ > 0 /\ asleep # {}
    \/ prim = "latch" /\ count_ <= 0 /\ asleep # {}
    \/ prim = "barrier" /\ \E t \in asleep : generation_ # phase[t]

(* Nobody sleeps on for ever while its condition holds, and a call that    *)
(* has notifications to send ends.                                         *)
SleepersProceed == []<>~CouldProceed

=============================================================================
