------------------------------ MODULE SpinSync ------------------------------
(***************************************************************************)
(* The primitives that busy-wait on one atomic: seqlock                    *)
(* (include/seqlock.hpp), shared_spinlock (include/shared_spinlock.hpp)    *)
(* and spinlock_mutex (include/spinlock_mutex.hpp).  A behaviour uses one  *)
(* of them, lock; word is its atomic, sequence_, state_ or flag.           *)
(*                                                                         *)
(* The seqlock protects the two fields a and b, as the tests do; a writer  *)
(* gives both the next value, a reader copies one after the other and      *)
(* keeps the copy or begins again, as read_retry says.  What it says is    *)
(* told in two ways: by the method's own comment, which the tests follow,  *)
(* and, the other way round, by the comment on how to use the class.       *)
(*                                                                         *)
(* at of a thread: "idle"; "spin" and "retest" in spinlock_mutex's lock;   *)
(* "cas" and "cas_once" in lock_shared and try_lock_shared, to exchange    *)
(* what it observed; "shared" and "locked", holding the lock; "begin",     *)
(* "write_a", "write_b", "end", "unlock" and "read_a", "read_b", "retry"   *)
(* of the seqlock's writers and readers.  A thread that loops until it     *)
(* finds the word as it wants it stays "idle", or goes back there: its     *)
(* failed attempts change nothing.                                         *)
(***************************************************************************)
EXTENDS Integers, FiniteSets

CONSTANTS
    Users,          \* the threads
    writer_bit,     \* (2^31); the atomics count modulo twice that
    MaxWrites,      \* bound: the writes to what the seqlock protects
    UsageComment    \* do readers loop as the comment at seqlock.hpp:13 tells?

(* A read may be overlapped by fewer writes than sequence_ takes to come   *)
(* round, and there are fewer readers than bits of state_ can count.       *)
ASSUME SpinAssumption ==
    /\ IsFiniteSet(Users) /\ {writer_bit, MaxWrites} \subseteq Nat
    /\ MaxWrites < writer_bit /\ Cardinality(Users) < writer_bit
ASSUME UsageAssumption == UsageComment \in BOOLEAN

Word == 2 * writer_bit

VARIABLES
    lock, word,
    write_mutex_,   \* seqlock: is it locked?
    a, b,           \* the protected fields
    at,
    observed,       \* the value of the atomic a thread has loaded
    copy,           \* a reader's copy of a and b
    accepted        \* the last copy a reader has kept

data     == <<a, b>>
spinVars == <<lock, word, write_mutex_, data, at, observed, copy, accepted>>

(* A seqlock that has been used already: its sequence may be about to wrap.*)
SpinInit ==
    /\ lock \in {"seqlock", "shared_spinlock", "spinlock_mutex"}
    /\ word \in IF lock = "seqlock" THEN {0, Word - 2} ELSE {0}
    /\ write_mutex_ = FALSE
    /\ a = 0 /\ b = 0
    /\ at = [t \in Users |-> "idle"]
    /\ observed = [t \in Users |-> 0]
    /\ copy = [t \in Users |-> <<0, 0>>]
    /\ accepted = [t \in Users |-> <<0, 0>>]

Jump(t, from, to) == at[t] = from /\ at' = [at EXCEPT ![t] = to]

-----------------------------------------------------------------------------
(* spinlock_mutex *)

(* test_and_set: lock, and try_lock, which does not spin. *)
TestAndSet(t) ==
    /\ lock = "spinlock_mutex"
    /\ \/ word = 0 /\ Jump(t, "idle", "locked")
       \/ word = 1 /\ Jump(t, "idle", "spin")
       \/ word = 1 /\ Jump(t, "idle", "idle")
    /\ word' = 1
    /\ UNCHANGED <<lock, write_mutex_, data, observed, copy, accepted>>

(* The inner loop has seen the flag clear: back to test_and_set. *)
Test(t) ==
    /\ lock = "spinlock_mutex"
    /\ word = 0
    /\ Jump(t, "spin", "retest")
    /\ UNCHANGED <<lock, word, write_mutex_, data, observed, copy, accepted>>

(* test_and_set again. *)
Retest(t) ==
    /\ lock = "spinlock_mutex"
    /\ IF word = 0 THEN Jump(t, "retest", "locked") ELSE Jump(t, "retest", "spin")
    /\ word' = 1
    /\ UNCHANGED <<lock, write_mutex_, data, observed, copy, accepted>>

(* unlock, of both spinlocks. *)
Unlock(t) ==
    /\ Jump(t, "locked", "idle")
    /\ word' = 0
    /\ UNCHANGED <<lock, write_mutex_, data, observed, copy, accepted>>

-----------------------------------------------------------------------------
(* shared_spinlock *)

(* The compare_exchange of lock or try_lock, when it succeeds. *)
LockExclusive(t) ==
    /\ lock = "shared_spinlock"
    /\ word = 0
    /\ Jump(t, "idle", "locked")
    /\ word' = writer_bit
    /\ UNCHANGED <<lock, write_mutex_, data, observed, copy, accepted>>

(* lock_shared's or try_lock_shared's load finds no writer. *)
LoadShared(t, label) ==
    /\ lock = "shared_spinlock"
    /\ word < writer_bit
    /\ Jump(t, "idle", label)
    /\ observed' = [observed EXCEPT ![t] = word]
    /\ UNCHANGED <<lock, word, write_mutex_, data, copy, accepted>>

(* Mutant: the count is stored although the word has changed. *)
CasSharedBlindly(t, from) ==
    /\ Jump(t, from, "shared")
    /\ word' = observed[t] + 1
    /\ UNCHANGED <<lock, write_mutex_, data, observed, copy, accepted>>

CasShared(t, from) ==
    /\ word = observed[t]
    /\ Jump(t, from, "shared")
    /\ word' = observed[t] + 1
    /\ UNCHANGED <<lock, write_mutex_, data, observed, copy, accepted>>

(* A failed exchange (a weak one may fail for no reason) loads the word    *)
(* anew; if a writer is there lock_shared is back where it loads.          *)
CasSharedFails(t) ==
    /\ \/ Jump(t, "cas", IF word < writer_bit THEN "cas" ELSE "idle")
       \/ word # observed[t] /\ Jump(t, "cas_once", "idle")
    /\ observed' = [observed EXCEPT ![t] = IF at'[t] = "cas" THEN word ELSE @]
    /\ UNCHANGED <<lock, word, write_mutex_, data, copy, accepted>>

UnlockShared(t) ==
    /\ Jump(t, "shared", "idle")
    /\ word' = (word - 1) % Word
    /\ UNCHANGED <<lock, write_mutex_, data, observed, copy, accepted>>

-----------------------------------------------------------------------------
(* seqlock *)

FetchAdd == word' = (word + 1) % Word

(* write_guard: the mutex, then an odd sequence. *)
LockWriters(t) ==
    /\ lock = "seqlock"
    /\ ~write_mutex_
    /\ a < MaxWrites
    /\ write_mutex_' = TRUE
    /\ Jump(t, "idle", "begin")
    /\ UNCHANGED <<lock, word, data, observed, copy, accepted>>

BeginWrite(t) ==
    /\ Jump(t, "begin", "write_a")
    /\ FetchAdd
    /\ UNCHANGED <<lock, write_mutex_, data, observed, copy, accepted>>

Write(t) ==
    /\ \/ Jump(t, "write_a", "write_b") /\ a' = a + 1 /\ b' = b
       \/ Jump(t, "write_b", "end") /\ b' = b + 1 /\ a' = a
    /\ UNCHANGED <<lock, word, write_mutex_, observed, copy, accepted>>

(* ~write_guard: an even sequence, then the mutex. *)
EndWrite(t) ==
    /\ Jump(t, "end", "unlock")
    /\ FetchAdd
    /\ UNCHANGED <<lock, write_mutex_, data, observed, copy, accepted>>

UnlockWriters(t) ==
    /\ Jump(t, "unlock", "idle")
    /\ write_mutex_' = FALSE
    /\ UNCHANGED <<lock, word, data, observed, copy, accepted>>

(* Mutant: an odd sequence is good enough. *)
ReadBeginOdd(t) ==
    /\ lock = "seqlock"
    /\ Jump(t, "idle", "read_a")
    /\ observed' = [observed EXCEPT ![t] = word]
    /\ UNCHANGED <<lock, word, write_mutex_, data, copy, accepted>>

(* read_begin, when it loads an even sequence. *)
ReadBegin(t) ==
    /\ lock = "seqlock"
    /\ word % 2 = 0
    /\ Jump(t, "idle", "read_a")
    /\ observed' = [observed EXCEPT ![t] = word]
    /\ UNCHANGED <<lock, word, write_mutex_, data, copy, accepted>>

Read(t) ==
    /\ \/ Jump(t, "read_a", "read_b") /\ copy' = [copy EXCEPT ![t] = <<a, 0>>]
       \/ Jump(t, "read_b", "retry") /\ copy' = [copy EXCEPT ![t][2] = b]
    /\ UNCHANGED <<lock, word, write_mutex_, data, observed, accepted>>

(* "true if no write overlapped" (line 64) *)
read_retry(t) == word = observed[t]

(* Does the reader keep its copy?  The usage comment, do { ... } while     *)
(* (read_retry(seq)), leaves the loop when read_retry is false; the tests  *)
(* leave it when it is true.                                               *)
Keeps(t) == IF UsageComment THEN ~read_retry(t) ELSE read_retry(t)

ReadRetry(t) ==
    /\ Jump(t, "retry", "idle")
    /\ accepted' = [accepted EXCEPT ![t] = IF Keeps(t) THEN copy[t] ELSE @]
    /\ copy' = [copy EXCEPT ![t] = <<0, 0>>]
    /\ observed' = [observed EXCEPT ![t] = 0]
    /\ UNCHANGED <<lock, word, write_mutex_, data>>

-----------------------------------------------------------------------------

SpinStep(t) ==
    \/ TestAndSet(t) \/ Test(t) \/ Retest(t) \/ Unlock(t)
    \/ LockExclusive(t) \/ CasSharedFails(t) \/ UnlockShared(t)
    \/ \E label \in {"cas", "cas_once"} : LoadShared(t, label) \/ CasShared(t, label)
    \/ LockWriters(t) \/ BeginWrite(t) \/ Write(t) \/ EndWrite(t) \/ UnlockWriters(t)
    \/ ReadBegin(t) \/ Read(t) \/ ReadRetry(t)

SpinNext == \E t \in Users : SpinStep(t)

SpinSpec == SpinInit /\ [][SpinNext]_spinVars

-----------------------------------------------------------------------------

Holding(label) == {t \in Users : at[t] = label}

(* One thread has a lock exclusively, or any number share it, and the word *)
(* says which: unlock's plain store of 0 and the readers' counting never   *)
(* meet ("readers overlap, writer excluded", test_sync.cpp:138).           *)
Exclusion ==
    /\ lock = "shared_spinlock" =>
           word = Cardinality(Holding("shared")) + writer_bit * Cardinality(Holding("locked"))
    /\ Cardinality(Holding("locked")) <= 1
    /\ Holding("locked") # {} => Holding("shared") = {}
    /\ lock = "spinlock_mutex" => word = Cardinality(Holding("locked"))

(* "A consistent snapshot always has a == b" (test_sync.cpp:47) and is no  *)
(* older than the one before, although readers copy while writers write,   *)
(* across several writes and when the sequence wraps around.  Readers that *)
(* follow the usage comment keep just the copies that a write overlapped.  *)
NoTornRead ==
    [][\A t \in Users :
           /\ accepted'[t][1] = accepted'[t][2]
           /\ accepted'[t][1] >= accepted[t][1]]_spinVars

=============================================================================
