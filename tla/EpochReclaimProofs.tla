------------------------- MODULE EpochReclaimProofs -------------------------
(***************************************************************************)
(* Proofs about epoch_domain for every number of threads, records, nodes   *)
(* and guards.  However it is used, nothing is deleted twice and nothing   *)
(* is lost; when retire and collect are called inside guards (as they are  *)
(* in concurrent_skip_list, its only user in the library), no operation    *)
(* holds a pointer to a deleted node.                                      *)
(***************************************************************************)
EXTENDS EpochReclaim, TLAPS

-----------------------------------------------------------------------------
(* The inductive invariant behind NoUseAfterFree *)

InGuard == {"in", "stamp", "push", "count", "reset", "active", "epoch", "exchange", "sweep"}
Scanning == {"active", "epoch", "exchange", "sweep"}

(* Who holds which record.  Only true when nothing is called outside       *)
(* guards.                                                                 *)
HolderOf(t) ==
    /\ pc[t] \notin {"out", "claim"} => slot[t] \in Records /\ owner[slot[t]] = t
    /\ pc[t] \in InGuard => active[slot[t]]
    /\ pc[t] \notin InGuard => refs[t] = {}

Holders == \A t \in Threads : HolderOf(t)

(* What the locals of an operation are where it uses them. *)
LocalsOf(t) ==
    /\ pc[t] \in {"stamp", "push"} <=> ptr[t] # NoNode
    /\ pc[t] # "sweep" => list[t] = {}
    /\ pc[t] \in {"active", "epoch"} => index[t] \in Records
    /\ pc[t] \in {"exchange", "sweep"} => index[t] = max_threads + 1

Locals == \A t \in Threads : LocalsOf(t)

Control == Holders /\ Locals

(* The nodes whose retired_node exists. *)
Stamped(n) ==
    \/ n \in retired
    \/ \E t \in Threads : n \in list[t] \/ (pc[t] = "push" /\ ptr[t] = n)

(* A node some guard observed was stamped after that guard's announcement. *)
StampedAfterObserver ==
    \A g \in Threads : \A n \in refs[g] :
        Stamped(n) => announced_epoch[slot[g]] <= retire_epoch[n]

(* A collector that has passed its own record keeps what it retired since. *)
CollectorCounted ==
    \A c \in Threads :
        pc[c] \in Scanning /\ slot[c] < index[c]
            => min_announced[c] <= announced_epoch[slot[c]]

(* A guard whose record the collector has passed was counted, or it came   *)
(* later and what it observed was stamped after the collector entered.     *)
PassedGuards ==
    \A c, g \in Threads : \A n \in refs[g] :
        (pc[c] \in Scanning /\ slot[g] < index[c] /\ Stamped(n))
            => \/ min_announced[c] <= announced_epoch[slot[g]]
               \/ announced_epoch[slot[c]] <= retire_epoch[n]

IInv ==
    /\ TypeOK /\ Control /\ AtOnePlace
    /\ StampedAfterObserver /\ CollectorCounted /\ PassedGuards
    /\ NoUseAfterFree

-----------------------------------------------------------------------------

(* Types are preserved: every array access of the code is in range, and    *)
(* epochs never exceed the global one.                                     *)
LEMMA TypeStep == TypeOK /\ Locals /\ [Next]_vars => TypeOK'
<1> SUFFICES ASSUME TypeOK, Locals, [Next]_vars PROVE TypeOK'
    OBVIOUS
<1> USE RegistryAssumption, NullAssumption, EpochAssumption
        DEF TypeOK, Locals, LocalsOf, Records, PCs, Infinity, registry,
            retirees, claiming, collecting, client, Goto
<1>1. ASSUME NEW t \in Threads, EnterGuard(t) PROVE TypeOK'
    BY <1>1, SMTT(40) DEF EnterGuard
<1>2. ASSUME NEW t \in Threads, ClaimOwner(t) PROVE TypeOK'
    <2>1. owner' \in [Records -> Threads \cup {NoThread}]
        BY <1>2 DEF ClaimOwner
    <2> QED BY <1>2, <2>1 DEF ClaimOwner
<1>3. ASSUME NEW t \in Threads, SkipRecord(t) PROVE TypeOK'
    <2>1. slot[t] + 1 \in 0..(max_threads + 1)
        BY <1>3 DEF SkipRecord
    <2> QED BY <1>3, <2>1 DEF SkipRecord
<1>4. ASSUME NEW t \in Threads, ClaimThrows(t) PROVE TypeOK'
    BY <1>4, SMTT(40) DEF ClaimThrows
<1>5. ASSUME NEW t \in Threads, FetchEpoch(t) PROVE TypeOK'
    BY <1>5, SMTT(40) DEF FetchEpoch
<1>6. ASSUME NEW t \in Threads, Announce(t) PROVE TypeOK'
    <2>1. epoch[t] \in 0..global_epoch_
        BY <1>6 DEF Announce
    <2>2. announced_epoch' \in [Records -> 0..global_epoch_]
        BY <1>6, <2>1 DEF Announce
    <2> QED BY <1>6, <2>2, SMTT(40) DEF Announce
<1>7. ASSUME NEW t \in Threads, Activate(t) PROVE TypeOK'
    <2>1. active' \in [Records -> BOOLEAN]
        BY <1>7 DEF Activate
    <2> QED BY <1>7, <2>1 DEF Activate
<1>8. ASSUME NEW t \in Threads, Deactivate(t) PROVE TypeOK'
    <2>1. active' \in [Records -> BOOLEAN]
        BY <1>8 DEF Deactivate
    <2> QED BY <1>8, <2>1 DEF Deactivate
<1>9. ASSUME NEW t \in Threads, ReleaseOwner(t) PROVE TypeOK'
    <2>1. owner' \in [Records -> Threads \cup {NoThread}]
        BY <1>9 DEF ReleaseOwner
    <2> QED BY <1>9, <2>1, SMTT(40) DEF ReleaseOwner
<1>10. ASSUME NEW t \in Threads, NEW n \in Nodes, Observe(t, n) PROVE TypeOK'
    BY <1>10, SMTT(40) DEF Observe
<1>11. ASSUME NEW t \in Threads, NEW n \in Nodes, Unlink(t, n) PROVE TypeOK'
    BY <1>11, SMTT(40) DEF Unlink
<1>12. ASSUME NEW t \in Threads, NEW n \in Nodes, Sweep(t, n) PROVE TypeOK'
    BY <1>12, SMTT(40) DEF Sweep
<1>13. ASSUME NEW t \in Threads, Stamp(t) PROVE TypeOK'
    BY <1>13, SMTT(40) DEF Stamp
<1>14. ASSUME NEW t \in Threads, PushRetired(t) PROVE TypeOK'
    BY <1>14, SMTT(40) DEF PushRetired
<1>15. ASSUME NEW t \in Threads, CountRetired(t) PROVE TypeOK'
    BY <1>15, SMTT(40) DEF CountRetired, Caller
<1>16. ASSUME NEW t \in Threads, CallCollect(t) PROVE TypeOK'
    BY <1>16, SMTT(40) DEF CallCollect
<1>17. ASSUME NEW t \in Threads, ResetCount(t) PROVE TypeOK'
    BY <1>17, SMTT(40) DEF ResetCount
<1>18. ASSUME NEW t \in Threads, ReadActive(t) PROVE TypeOK'
    BY <1>18, SMTT(40) DEF ReadActive
<1>19. ASSUME NEW t \in Threads, ReadInactive(t) PROVE TypeOK'
    <2>1. index[t] + 1 \in 0..(max_threads + 1)
        BY <1>19 DEF ReadInactive
    <2>2. index' \in [Threads -> 0..(max_threads + 1)] /\ pc' \in [Threads -> PCs]
        BY <1>19, <2>1 DEF ReadInactive, NextRecord
    <2> QED BY <1>19, <2>2 DEF ReadInactive
<1>20. ASSUME NEW t \in Threads, ReadEpoch(t) PROVE TypeOK'
    <2>1. index[t] \in Records /\ index[t] + 1 \in 0..(max_threads + 1)
        BY <1>20 DEF ReadEpoch
    <2>2. index' \in [Threads -> 0..(max_threads + 1)] /\ pc' \in [Threads -> PCs]
        BY <1>20, <2>1 DEF ReadEpoch, NextRecord
    <2>3. min_announced' \in [Threads -> Nat]
        BY <1>20, <2>1 DEF ReadEpoch
    <2> QED BY <1>20, <2>2, <2>3 DEF ReadEpoch
<1>21. ASSUME NEW t \in Threads, Exchange(t) PROVE TypeOK'
    BY <1>21, SMTT(40) DEF Exchange
<1>22. ASSUME NEW t \in Threads, CollectReturns(t) PROVE TypeOK'
    BY <1>22, SMTT(40) DEF CollectReturns, Caller
<1>23. CASE UNCHANGED vars
    BY <1>23 DEF vars
<1> QED
    BY <1>1, <1>2, <1>3, <1>4, <1>5, <1>6, <1>7, <1>8, <1>9, <1>10, <1>11,
       <1>12, <1>13, <1>14, <1>15, <1>16, <1>17, <1>18, <1>19, <1>20, <1>21, <1>22, <1>23
       DEF Next, Step

(* Records have one owner, which alone changes them. *)
LEMMA HoldersStep == ~Unguarded /\ TypeOK /\ Holders /\ [Next]_vars => Holders'
<1> SUFFICES ASSUME ~Unguarded, TypeOK, Holders, [Next]_vars PROVE Holders'
    OBVIOUS
<1> USE RegistryAssumption, NullAssumption, EpochAssumption
        DEF TypeOK, Holders, HolderOf, InGuard, Records, registry, retirees,
            claiming, collecting, client, Goto
<1>1. ASSUME NEW t \in Threads, EnterGuard(t) PROVE Holders'
    BY <1>1, SMTT(40) DEF EnterGuard
<1>2. ASSUME NEW t \in Threads, ClaimOwner(t) PROVE Holders'
    <2>1. \A u \in Threads : pc[u] \notin {"out", "claim"} => slot[u] # slot[t]
        BY <1>2 DEF ClaimOwner
    <2> QED BY <1>2, <2>1 DEF ClaimOwner
<1>3. ASSUME NEW t \in Threads, SkipRecord(t) PROVE Holders'
    BY <1>3, SMTT(40) DEF SkipRecord
<1>4. ASSUME NEW t \in Threads, ClaimThrows(t) PROVE Holders'
    BY <1>4, SMTT(40) DEF ClaimThrows
<1>5. ASSUME NEW t \in Threads, FetchEpoch(t) PROVE Holders'
    BY <1>5, SMTT(40) DEF FetchEpoch
<1>6. ASSUME NEW t \in Threads, Announce(t) PROVE Holders'
    BY <1>6, SMTT(40) DEF Announce
<1>7. ASSUME NEW t \in Threads, Activate(t) PROVE Holders'
    BY <1>7, SMTT(40) DEF Activate
<1>8. ASSUME NEW t \in Threads, Deactivate(t) PROVE Holders'
    BY <1>8, SMTT(40) DEF Deactivate
<1>9. ASSUME NEW t \in Threads, ReleaseOwner(t) PROVE Holders'
    <2>0. owner[slot[t]] = t
        BY <1>9 DEF ReleaseOwner
    <2>1. ASSUME NEW u \in Threads, u # t, pc[u] \notin {"out", "claim"}
          PROVE  slot[u] # slot[t] /\ slot[u] \in Records
        BY <2>0, <2>1
    <2>2. ASSUME NEW u \in Threads, pc'[u] \notin {"out", "claim"}
          PROVE  slot'[u] \in Records /\ owner'[slot'[u]] = u
        BY <1>9, <2>1, <2>2 DEF ReleaseOwner
    <2>3. ASSUME NEW u \in Threads, pc'[u] \in InGuard PROVE active'[slot'[u]]
        BY <1>9, <2>3 DEF ReleaseOwner
    <2>4. \A u \in Threads : pc'[u] \notin InGuard => refs'[u] = {}
        BY <1>9 DEF ReleaseOwner
    <2> QED BY <2>2, <2>3, <2>4
<1>10. ASSUME NEW t \in Threads, NEW n \in Nodes, Observe(t, n) PROVE Holders'
    BY <1>10, SMTT(40) DEF Observe
<1>11. ASSUME NEW t \in Threads, NEW n \in Nodes, Unlink(t, n) PROVE Holders'
    BY <1>11, SMTT(40) DEF Unlink
<1>12. ASSUME NEW t \in Threads, NEW n \in Nodes, Sweep(t, n) PROVE Holders'
    BY <1>12, SMTT(40) DEF Sweep
<1>13. ASSUME NEW t \in Threads, Stamp(t) PROVE Holders'
    BY <1>13, SMTT(40) DEF Stamp
<1>14. ASSUME NEW t \in Threads, PushRetired(t) PROVE Holders'
    BY <1>14, SMTT(40) DEF PushRetired
<1>15. ASSUME NEW t \in Threads, CountRetired(t) PROVE Holders'
    BY <1>15, SMTT(40) DEF CountRetired, Caller
<1>16. ASSUME NEW t \in Threads, CallCollect(t) PROVE Holders'
    BY <1>16, SMTT(40) DEF CallCollect
<1>17. ASSUME NEW t \in Threads, ResetCount(t) PROVE Holders'
    BY <1>17, SMTT(40) DEF ResetCount
<1>18. ASSUME NEW t \in Threads, ReadActive(t) PROVE Holders'
    BY <1>18, SMTT(40) DEF ReadActive
<1>19. ASSUME NEW t \in Threads, ReadInactive(t) PROVE Holders'
    BY <1>19, SMTT(40) DEF ReadInactive, NextRecord
<1>20. ASSUME NEW t \in Threads, ReadEpoch(t) PROVE Holders'
    BY <1>20, SMTT(40) DEF ReadEpoch, NextRecord
<1>21. ASSUME NEW t \in Threads, Exchange(t) PROVE Holders'
    BY <1>21, SMTT(40) DEF Exchange
<1>22. ASSUME NEW t \in Threads, CollectReturns(t) PROVE Holders'
    BY <1>22, SMTT(40) DEF CollectReturns, Caller
<1>23. CASE UNCHANGED vars
    BY <1>23 DEF vars
<1> QED
    BY <1>1, <1>2, <1>3, <1>4, <1>5, <1>6, <1>7, <1>8, <1>9, <1>10, <1>11,
       <1>12, <1>13, <1>14, <1>15, <1>16, <1>17, <1>18, <1>19, <1>20, <1>21, <1>22, <1>23
       DEF Next, Step

(* The locals of an operation are set before it uses them. *)
LEMMA LocalsStep == TypeOK /\ Locals /\ [Next]_vars => Locals'
<1> SUFFICES ASSUME TypeOK, Locals, [Next]_vars PROVE Locals'
    OBVIOUS
<1> USE RegistryAssumption, NullAssumption, EpochAssumption
        DEF TypeOK, Locals, LocalsOf, Records, registry, retirees,
            claiming, collecting, client, Goto
<1>1. ASSUME NEW t \in Threads, EnterGuard(t) PROVE Locals'
    BY <1>1, SMTT(40) DEF EnterGuard
<1>2. ASSUME NEW t \in Threads, ClaimOwner(t) PROVE Locals'
    BY <1>2, SMTT(40) DEF ClaimOwner
<1>3. ASSUME NEW t \in Threads, SkipRecord(t) PROVE Locals'
    BY <1>3, SMTT(40) DEF SkipRecord
<1>4. ASSUME NEW t \in Threads, ClaimThrows(t) PROVE Locals'
    BY <1>4, SMTT(40) DEF ClaimThrows
<1>5. ASSUME NEW t \in Threads, FetchEpoch(t) PROVE Locals'
    BY <1>5, SMTT(40) DEF FetchEpoch
<1>6. ASSUME NEW t \in Threads, Announce(t) PROVE Locals'
    BY <1>6, SMTT(40) DEF Announce
<1>7. ASSUME NEW t \in Threads, Activate(t) PROVE Locals'
    BY <1>7, SMTT(40) DEF Activate
<1>8. ASSUME NEW t \in Threads, Deactivate(t) PROVE Locals'
    BY <1>8, SMTT(40) DEF Deactivate
<1>9. ASSUME NEW t \in Threads, ReleaseOwner(t) PROVE Locals'
    BY <1>9, SMTT(40) DEF ReleaseOwner
<1>10. ASSUME NEW t \in Threads, NEW n \in Nodes, Observe(t, n) PROVE Locals'
    BY <1>10, SMTT(40) DEF Observe
<1>11. ASSUME NEW t \in Threads, NEW n \in Nodes, Unlink(t, n) PROVE Locals'
    BY <1>11, SMTT(40) DEF Unlink
<1>12. ASSUME NEW t \in Threads, NEW n \in Nodes, Sweep(t, n) PROVE Locals'
    BY <1>12, SMTT(40) DEF Sweep
<1>13. ASSUME NEW t \in Threads, Stamp(t) PROVE Locals'
    BY <1>13, SMTT(40) DEF Stamp
<1>14. ASSUME NEW t \in Threads, PushRetired(t) PROVE Locals'
    BY <1>14, SMTT(40) DEF PushRetired
<1>15. ASSUME NEW t \in Threads, CountRetired(t) PROVE Locals'
    BY <1>15, SMTT(40) DEF CountRetired, Caller
<1>16. ASSUME NEW t \in Threads, CallCollect(t) PROVE Locals'
    BY <1>16, SMTT(40) DEF CallCollect
<1>17. ASSUME NEW t \in Threads, ResetCount(t) PROVE Locals'
    BY <1>17, SMTT(40) DEF ResetCount
<1>18. ASSUME NEW t \in Threads, ReadActive(t) PROVE Locals'
    BY <1>18, SMTT(40) DEF ReadActive
<1>19. ASSUME NEW t \in Threads, ReadInactive(t) PROVE Locals'
    <2>1. /\ UNCHANGED <<ptr, list>> /\ pc[t] = "active"
          /\ \A u \in Threads : u # t => pc'[u] = pc[u] /\ index'[u] = index[u]
        BY <1>19 DEF ReadInactive, NextRecord
    <2>2. \/ pc'[t] = "active" /\ index'[t] \in Records
          \/ pc'[t] = "exchange" /\ index'[t] = max_threads + 1
        BY <1>19 DEF ReadInactive, NextRecord
    <2> SUFFICES ASSUME NEW u \in Threads PROVE LocalsOf(u)'
        OBVIOUS
    <2>3. CASE u # t
        BY <2>1, <2>3
    <2>4. CASE u = t
        BY <2>1, <2>2, <2>4
    <2> QED BY <2>3, <2>4
<1>20. ASSUME NEW t \in Threads, ReadEpoch(t) PROVE Locals'
    <2>1. /\ UNCHANGED <<ptr, list>> /\ pc[t] = "epoch"
          /\ \A u \in Threads : u # t => pc'[u] = pc[u] /\ index'[u] = index[u]
        BY <1>20 DEF ReadEpoch, NextRecord
    <2>2. \/ pc'[t] = "active" /\ index'[t] \in Records
          \/ pc'[t] = "exchange" /\ index'[t] = max_threads + 1
        BY <1>20 DEF ReadEpoch, NextRecord
    <2> SUFFICES ASSUME NEW u \in Threads PROVE LocalsOf(u)'
        OBVIOUS
    <2>3. CASE u # t
        BY <2>1, <2>3
    <2>4. CASE u = t
        BY <2>1, <2>2, <2>4
    <2> QED BY <2>3, <2>4
<1>21. ASSUME NEW t \in Threads, Exchange(t) PROVE Locals'
    BY <1>21, SMTT(40) DEF Exchange
<1>22. ASSUME NEW t \in Threads, CollectReturns(t) PROVE Locals'
    BY <1>22, SMTT(40) DEF CollectReturns, Caller
<1>23. CASE UNCHANGED vars
    BY <1>23 DEF vars
<1> QED
    BY <1>1, <1>2, <1>3, <1>4, <1>5, <1>6, <1>7, <1>8, <1>9, <1>10, <1>11,
       <1>12, <1>13, <1>14, <1>15, <1>16, <1>17, <1>18, <1>19, <1>20, <1>21, <1>22, <1>23
       DEF Next, Step

(* A node moves from one place to the next and is never at two. *)
LEMMA PlaceStep == TypeOK /\ Locals /\ AtOnePlace /\ [Next]_vars => AtOnePlace'
<1> SUFFICES ASSUME TypeOK, Locals, AtOnePlace, [Next]_vars PROVE AtOnePlace'
    OBVIOUS
<1> USE RegistryAssumption, NullAssumption, EpochAssumption
        DEF TypeOK, Locals, LocalsOf, AtOnePlace, Records, registry, retirees,
            claiming, collecting, client, Goto
<1>1. ASSUME NEW t \in Threads, EnterGuard(t) PROVE AtOnePlace'
    BY <1>1, SMTT(40) DEF EnterGuard
<1>2. ASSUME NEW t \in Threads, ClaimOwner(t) PROVE AtOnePlace'
    BY <1>2, SMTT(40) DEF ClaimOwner
<1>3. ASSUME NEW t \in Threads, SkipRecord(t) PROVE AtOnePlace'
    BY <1>3, SMTT(40) DEF SkipRecord
<1>4. ASSUME NEW t \in Threads, ClaimThrows(t) PROVE AtOnePlace'
    BY <1>4, SMTT(40) DEF ClaimThrows
<1>5. ASSUME NEW t \in Threads, FetchEpoch(t) PROVE AtOnePlace'
    BY <1>5, SMTT(40) DEF FetchEpoch
<1>6. ASSUME NEW t \in Threads, Announce(t) PROVE AtOnePlace'
    BY <1>6, SMTT(40) DEF Announce
<1>7. ASSUME NEW t \in Threads, Activate(t) PROVE AtOnePlace'
    BY <1>7, SMTT(40) DEF Activate
<1>8. ASSUME NEW t \in Threads, Deactivate(t) PROVE AtOnePlace'
    BY <1>8, SMTT(40) DEF Deactivate
<1>9. ASSUME NEW t \in Threads, ReleaseOwner(t) PROVE AtOnePlace'
    BY <1>9, SMTT(40) DEF ReleaseOwner
<1>10. ASSUME NEW t \in Threads, NEW n \in Nodes, Observe(t, n) PROVE AtOnePlace'
    BY <1>10, SMTT(40) DEF Observe
<1>11. ASSUME NEW t \in Threads, NEW n \in Nodes, Unlink(t, n) PROVE AtOnePlace'
    BY <1>11, SMTT(40) DEF Unlink
<1>12. ASSUME NEW t \in Threads, NEW n \in Nodes, Sweep(t, n) PROVE AtOnePlace'
    BY <1>12, SMTT(40) DEF Sweep
<1>13. ASSUME NEW t \in Threads, Stamp(t) PROVE AtOnePlace'
    BY <1>13, SMTT(40) DEF Stamp
<1>14. ASSUME NEW t \in Threads, PushRetired(t) PROVE AtOnePlace'
    BY <1>14, SMTT(40) DEF PushRetired
<1>15. ASSUME NEW t \in Threads, CountRetired(t) PROVE AtOnePlace'
    BY <1>15, SMTT(40) DEF CountRetired, Caller
<1>16. ASSUME NEW t \in Threads, CallCollect(t) PROVE AtOnePlace'
    BY <1>16, SMTT(40) DEF CallCollect
<1>17. ASSUME NEW t \in Threads, ResetCount(t) PROVE AtOnePlace'
    BY <1>17, SMTT(40) DEF ResetCount
<1>18. ASSUME NEW t \in Threads, ReadActive(t) PROVE AtOnePlace'
    BY <1>18, SMTT(40) DEF ReadActive
<1>19. ASSUME NEW t \in Threads, ReadInactive(t) PROVE AtOnePlace'
    BY <1>19, SMTT(40) DEF ReadInactive, NextRecord
<1>20. ASSUME NEW t \in Threads, ReadEpoch(t) PROVE AtOnePlace'
    BY <1>20, SMTT(40) DEF ReadEpoch, NextRecord
<1>21. ASSUME NEW t \in Threads, Exchange(t) PROVE AtOnePlace'
    BY <1>21, SMTT(40) DEF Exchange
<1>22. ASSUME NEW t \in Threads, CollectReturns(t) PROVE AtOnePlace'
    BY <1>22, SMTT(40) DEF CollectReturns, Caller
<1>23. CASE UNCHANGED vars
    BY <1>23 DEF vars
<1> QED
    BY <1>1, <1>2, <1>3, <1>4, <1>5, <1>6, <1>7, <1>8, <1>9, <1>10, <1>11,
       <1>12, <1>13, <1>14, <1>15, <1>16, <1>17, <1>18, <1>19, <1>20, <1>21, <1>22, <1>23
       DEF Next, Step

-----------------------------------------------------------------------------
(* What a step may do to a pair of a guard and a stamped node it observed: *)
(* both were there before, and the stamp is as it was or brand new.        *)
ObserverKept ==
    \A g \in Threads : \A n \in refs'[g] :
        Stamped(n)' =>
            /\ pc[g] \in InGuard /\ n \in refs[g]
            /\ slot'[g] = slot[g] /\ announced_epoch'[slot[g]] = announced_epoch[slot[g]]
            /\ \/ Stamped(n) /\ retire_epoch'[n] = retire_epoch[n]
               \/ retire_epoch'[n] = global_epoch_

(* What a step may do to a collector: it starts over, stands still, passes *)
(* an inactive record or counts an active one.                             *)
CollectorKept ==
    \A c \in Threads : pc'[c] \in Scanning =>
        /\ pc[c] \in InGuard
        /\ slot'[c] = slot[c] /\ announced_epoch'[slot[c]] = announced_epoch[slot[c]]
        /\ \/ index'[c] = 1
           \/ /\ pc[c] \in Scanning
              /\ index'[c] = index[c] /\ min_announced'[c] = min_announced[c]
           \/ /\ pc[c] \in Scanning /\ index[c] \in Records /\ ~active[index[c]]
              /\ index'[c] = index[c] + 1 /\ min_announced'[c] = min_announced[c]
           \/ /\ pc[c] \in Scanning /\ index[c] \in Records
              /\ index'[c] = index[c] + 1 /\ min_announced'[c] <= min_announced[c]
              /\ min_announced'[c] <= announced_epoch[index[c]]

(* A guard's record and announcement are its own until it ends, and what   *)
(* it newly observes is linked, hence not stamped.                         *)
LEMMA ObserverStep == TypeOK /\ Control /\ AtOnePlace /\ [Next]_vars => ObserverKept
<1> SUFFICES ASSUME TypeOK, Control, AtOnePlace, [Next]_vars PROVE ObserverKept
    OBVIOUS
<1> USE RegistryAssumption, NullAssumption, EpochAssumption
        DEF TypeOK, Control, Holders, HolderOf, Locals, LocalsOf, AtOnePlace, ObserverKept,
            Stamped, InGuard, Records, registry, retirees, claiming, collecting, client, Goto
<1>1. ASSUME NEW t \in Threads, EnterGuard(t) PROVE ObserverKept
    BY <1>1, SMTT(40) DEF EnterGuard
<1>2. ASSUME NEW t \in Threads, ClaimOwner(t) PROVE ObserverKept
    BY <1>2, SMTT(40) DEF ClaimOwner
<1>3. ASSUME NEW t \in Threads, SkipRecord(t) PROVE ObserverKept
    <2>1. ASSUME NEW g \in Threads, refs[g] # {} PROVE slot'[g] = slot[g]
        <3>1. g # t
            BY <1>3, <2>1 DEF SkipRecord
        <3> QED BY <1>3, <3>1 DEF SkipRecord
    <2>2. UNCHANGED <<refs, announced_epoch, retired, list, ptr, retire_epoch, pc>>
        BY <1>3 DEF SkipRecord
    <2> QED BY <2>1, <2>2
<1>4. ASSUME NEW t \in Threads, ClaimThrows(t) PROVE ObserverKept
    BY <1>4, SMTT(40) DEF ClaimThrows
<1>5. ASSUME NEW t \in Threads, FetchEpoch(t) PROVE ObserverKept
    BY <1>5, SMTT(40) DEF FetchEpoch
<1>6. ASSUME NEW t \in Threads, Announce(t) PROVE ObserverKept
    <2>0. owner[slot[t]] = t
        BY <1>6 DEF Announce
    <2>1. ASSUME NEW u \in Threads, pc[u] \in InGuard
          PROVE  slot[u] # slot[t] /\ slot[u] \in Records
        <3>1. u # t
            BY <1>6, <2>1 DEF Announce
        <3> QED BY <2>0, <2>1, <3>1
    <2> QED BY <1>6, <2>1 DEF Announce
<1>7. ASSUME NEW t \in Threads, Activate(t) PROVE ObserverKept
    BY <1>7, SMTT(40) DEF Activate
<1>8. ASSUME NEW t \in Threads, Deactivate(t) PROVE ObserverKept
    BY <1>8, SMTT(40) DEF Deactivate
<1>9. ASSUME NEW t \in Threads, ReleaseOwner(t) PROVE ObserverKept
    BY <1>9, SMTT(40) DEF ReleaseOwner
<1>10. ASSUME NEW t \in Threads, NEW n \in Nodes, Observe(t, n) PROVE ObserverKept
    BY <1>10, SMTT(40) DEF Observe
<1>11. ASSUME NEW t \in Threads, NEW n \in Nodes, Unlink(t, n) PROVE ObserverKept
    BY <1>11, SMTT(40) DEF Unlink
<1>12. ASSUME NEW t \in Threads, NEW n \in Nodes, Sweep(t, n) PROVE ObserverKept
    BY <1>12, SMTT(40) DEF Sweep
<1>13. ASSUME NEW t \in Threads, Stamp(t) PROVE ObserverKept
    BY <1>13, SMTT(40) DEF Stamp
<1>14. ASSUME NEW t \in Threads, PushRetired(t) PROVE ObserverKept
    BY <1>14, SMTT(40) DEF PushRetired
<1>15. ASSUME NEW t \in Threads, CountRetired(t) PROVE ObserverKept
    BY <1>15, SMTT(40) DEF CountRetired, Caller
<1>16. ASSUME NEW t \in Threads, CallCollect(t) PROVE ObserverKept
    BY <1>16, SMTT(40) DEF CallCollect
<1>17. ASSUME NEW t \in Threads, ResetCount(t) PROVE ObserverKept
    BY <1>17, SMTT(40) DEF ResetCount
<1>18. ASSUME NEW t \in Threads, ReadActive(t) PROVE ObserverKept
    BY <1>18, SMTT(40) DEF ReadActive
<1>19. ASSUME NEW t \in Threads, ReadInactive(t) PROVE ObserverKept
    <2>1. UNCHANGED <<refs, slot, announced_epoch, retired, list, ptr, retire_epoch>>
        BY <1>19 DEF ReadInactive
    <2>2. \A u \in Threads : pc'[u] = "push" => pc[u] = "push"
        BY <1>19 DEF ReadInactive, NextRecord
    <2> QED BY <2>1, <2>2
<1>20. ASSUME NEW t \in Threads, ReadEpoch(t) PROVE ObserverKept
    <2>1. UNCHANGED <<refs, slot, announced_epoch, retired, list, ptr, retire_epoch>>
        BY <1>20 DEF ReadEpoch
    <2>2. \A u \in Threads : pc'[u] = "push" => pc[u] = "push"
        BY <1>20 DEF ReadEpoch, NextRecord
    <2> QED BY <2>1, <2>2
<1>21. ASSUME NEW t \in Threads, Exchange(t) PROVE ObserverKept
    BY <1>21, SMTT(40) DEF Exchange
<1>22. ASSUME NEW t \in Threads, CollectReturns(t) PROVE ObserverKept
    BY <1>22, SMTT(40) DEF CollectReturns, Caller
<1>23. CASE UNCHANGED vars
    BY <1>23 DEF vars
<1> QED
    BY ZenonT(60), <1>1, <1>2, <1>3, <1>4, <1>5, <1>6, <1>7, <1>8, <1>9, <1>10, <1>11,
       <1>12, <1>13, <1>14, <1>15, <1>16, <1>17, <1>18, <1>19, <1>20, <1>21, <1>22, <1>23
       DEF Next, Step

(* A collector's variables are local, and its own record is in a guard. *)
LEMMA CollectorStep == ~Unguarded /\ TypeOK /\ Control /\ [Next]_vars => CollectorKept
<1> SUFFICES ASSUME ~Unguarded, TypeOK, Control, [Next]_vars PROVE CollectorKept
    OBVIOUS
<1> USE RegistryAssumption, NullAssumption, EpochAssumption
        DEF TypeOK, Control, Holders, HolderOf, Locals, LocalsOf, CollectorKept, InGuard,
            Scanning, Records, registry, retirees, claiming, collecting, client, Goto
<1>1. ASSUME NEW t \in Threads, EnterGuard(t) PROVE CollectorKept
    BY <1>1, SMTT(40) DEF EnterGuard
<1>2. ASSUME NEW t \in Threads, ClaimOwner(t) PROVE CollectorKept
    BY <1>2, SMTT(40) DEF ClaimOwner
<1>3. ASSUME NEW t \in Threads, SkipRecord(t) PROVE CollectorKept
    BY <1>3, SMTT(40) DEF SkipRecord
<1>4. ASSUME NEW t \in Threads, ClaimThrows(t) PROVE CollectorKept
    BY <1>4, SMTT(40) DEF ClaimThrows
<1>5. ASSUME NEW t \in Threads, FetchEpoch(t) PROVE CollectorKept
    BY <1>5, SMTT(40) DEF FetchEpoch
<1>6. ASSUME NEW t \in Threads, Announce(t) PROVE CollectorKept
    <2>0. owner[slot[t]] = t
        BY <1>6 DEF Announce
    <2>1. ASSUME NEW u \in Threads, pc[u] \in InGuard
          PROVE  slot[u] # slot[t] /\ slot[u] \in Records
        <3>1. u # t
            BY <1>6, <2>1 DEF Announce
        <3> QED BY <2>0, <2>1, <3>1
    <2> QED BY <1>6, <2>1 DEF Announce
<1>7. ASSUME NEW t \in Threads, Activate(t) PROVE CollectorKept
    BY <1>7, SMTT(40) DEF Activate
<1>8. ASSUME NEW t \in Threads, Deactivate(t) PROVE CollectorKept
    BY <1>8, SMTT(40) DEF Deactivate
<1>9. ASSUME NEW t \in Threads, ReleaseOwner(t) PROVE CollectorKept
    BY <1>9, SMTT(40) DEF ReleaseOwner
<1>10. ASSUME NEW t \in Threads, NEW n \in Nodes, Observe(t, n) PROVE CollectorKept
    BY <1>10, SMTT(40) DEF Observe
<1>11. ASSUME NEW t \in Threads, NEW n \in Nodes, Unlink(t, n) PROVE CollectorKept
    BY <1>11, SMTT(40) DEF Unlink
<1>12. ASSUME NEW t \in Threads, NEW n \in Nodes, Sweep(t, n) PROVE CollectorKept
    BY <1>12, SMTT(40) DEF Sweep
<1>13. ASSUME NEW t \in Threads, Stamp(t) PROVE CollectorKept
    BY <1>13, SMTT(40) DEF Stamp
<1>14. ASSUME NEW t \in Threads, PushRetired(t) PROVE CollectorKept
    BY <1>14, SMTT(40) DEF PushRetired
<1>15. ASSUME NEW t \in Threads, CountRetired(t) PROVE CollectorKept
    BY <1>15, SMTT(40) DEF CountRetired, Caller
<1>16. ASSUME NEW t \in Threads, CallCollect(t) PROVE CollectorKept
    BY <1>16, SMTT(40) DEF CallCollect
<1>17. ASSUME NEW t \in Threads, ResetCount(t) PROVE CollectorKept
    BY <1>17, SMTT(40) DEF ResetCount
<1>18. ASSUME NEW t \in Threads, ReadActive(t) PROVE CollectorKept
    BY <1>18, SMTT(40) DEF ReadActive
<1>19. ASSUME NEW t \in Threads, ReadInactive(t) PROVE CollectorKept
    BY <1>19, SMTT(40) DEF ReadInactive, NextRecord
<1>20. ASSUME NEW t \in Threads, ReadEpoch(t) PROVE CollectorKept
    BY <1>20, SMTT(40) DEF ReadEpoch, NextRecord
<1>21. ASSUME NEW t \in Threads, Exchange(t) PROVE CollectorKept
    BY <1>21, SMTT(40) DEF Exchange
<1>22. ASSUME NEW t \in Threads, CollectReturns(t) PROVE CollectorKept
    BY <1>22, SMTT(40) DEF CollectReturns, Caller
<1>23. CASE UNCHANGED vars
    BY <1>23 DEF vars
<1> QED
    BY <1>1, <1>2, <1>3, <1>4, <1>5, <1>6, <1>7, <1>8, <1>9, <1>10, <1>11,
       <1>12, <1>13, <1>14, <1>15, <1>16, <1>17, <1>18, <1>19, <1>20, <1>21, <1>22, <1>23
       DEF Next, Step

-----------------------------------------------------------------------------

(* A new stamp is the global epoch, which no announcement exceeds. *)
LEMMA StampedAfterObserverStep ==
    TypeOK /\ Control /\ AtOnePlace /\ StampedAfterObserver /\ [Next]_vars
        => StampedAfterObserver'
<1> SUFFICES ASSUME TypeOK, Control, AtOnePlace, StampedAfterObserver, [Next]_vars,
                    NEW g \in Threads, NEW n \in refs'[g], Stamped(n)'
             PROVE  announced_epoch'[slot'[g]] <= retire_epoch'[n]
    BY DEF StampedAfterObserver
<1>1. /\ pc[g] \in InGuard /\ n \in refs[g]
      /\ slot'[g] = slot[g] /\ announced_epoch'[slot[g]] = announced_epoch[slot[g]]
      /\ \/ Stamped(n) /\ retire_epoch'[n] = retire_epoch[n]
         \/ retire_epoch'[n] = global_epoch_
    BY ObserverStep DEF ObserverKept
<1>2. slot[g] \in Records
    BY <1>1 DEF Control, Holders, HolderOf, InGuard
<1>3. announced_epoch[slot[g]] \in 0..global_epoch_
    BY <1>2 DEF TypeOK
<1> QED
    BY <1>1, <1>3 DEF StampedAfterObserver, TypeOK

(* A collector finds its own record active and counts it. *)
LEMMA CollectorCountedStep ==
    ~Unguarded /\ TypeOK /\ Control /\ CollectorCounted /\ [Next]_vars
        => CollectorCounted'
<1> SUFFICES ASSUME ~Unguarded, TypeOK, Control, CollectorCounted, [Next]_vars,
                    NEW c \in Threads, pc'[c] \in Scanning, slot'[c] < index'[c]
             PROVE  min_announced'[c] <= announced_epoch'[slot'[c]]
    BY DEF CollectorCounted
<1> DEFINE s == slot[c]
<1>1. /\ pc[c] \in InGuard
      /\ slot'[c] = s /\ announced_epoch'[s] = announced_epoch[s]
      /\ \/ index'[c] = 1
         \/ /\ pc[c] \in Scanning
            /\ index'[c] = index[c] /\ min_announced'[c] = min_announced[c]
         \/ /\ pc[c] \in Scanning /\ index[c] \in Records /\ ~active[index[c]]
            /\ index'[c] = index[c] + 1 /\ min_announced'[c] = min_announced[c]
         \/ /\ pc[c] \in Scanning /\ index[c] \in Records
            /\ index'[c] = index[c] + 1 /\ min_announced'[c] <= min_announced[c]
            /\ min_announced'[c] <= announced_epoch[index[c]]
    BY CollectorStep DEF CollectorKept
<1>2. s \in 1..max_threads /\ active[s]
    BY <1>1 DEF Control, Holders, HolderOf, InGuard, Records
<1>3. /\ announced_epoch[s] \in Nat /\ min_announced[c] \in Nat
      /\ min_announced'[c] \in Nat /\ index[c] \in Nat
    <2>1. TypeOK'
        BY TypeStep DEF Control
    <2>2. min_announced'[c] \in Nat
        BY <2>1 DEF TypeOK
    <2>3. announced_epoch[s] \in 0..global_epoch_
        BY <1>2 DEF TypeOK, Records
    <2> QED BY <2>2, <2>3, RegistryAssumption DEF TypeOK
<1>4. pc[c] \in Scanning /\ s < index[c] => min_announced[c] <= announced_epoch[s]
    BY DEF CollectorCounted
<1> HIDE DEF s
<1>5. CASE index'[c] = 1
    BY <1>1, <1>2, <1>5, RegistryAssumption
<1>6. CASE /\ pc[c] \in Scanning
           /\ index'[c] = index[c] /\ min_announced'[c] = min_announced[c]
    BY <1>1, <1>4, <1>6
<1>7. CASE /\ pc[c] \in Scanning /\ index[c] \in Records /\ ~active[index[c]]
           /\ index'[c] = index[c] + 1 /\ min_announced'[c] = min_announced[c]
    <2>1. s # index[c]
        BY <1>2, <1>7
    <2>2. s < index[c]
        BY <1>1, <1>2, <1>3, <1>7, <2>1, RegistryAssumption
    <2> QED BY <1>1, <1>4, <1>7, <2>2
<1>8. CASE /\ pc[c] \in Scanning /\ index[c] \in Records
           /\ index'[c] = index[c] + 1 /\ min_announced'[c] <= min_announced[c]
           /\ min_announced'[c] <= announced_epoch[index[c]]
    <2>1. s = index[c] \/ s < index[c]
        BY <1>1, <1>2, <1>3, <1>8, RegistryAssumption
    <2> QED BY <1>1, <1>3, <1>4, <1>8, <2>1
<1> QED
    BY <1>1, <1>5, <1>6, <1>7, <1>8

(* A guard missed by the scan became active behind it, so what it observed *)
(* is stamped after the collector announced its own epoch.                 *)
LEMMA PassedGuardsStep ==
    ~Unguarded /\ TypeOK /\ Control /\ AtOnePlace /\ PassedGuards /\ [Next]_vars
        => PassedGuards'
<1> SUFFICES ASSUME ~Unguarded, TypeOK, Control, AtOnePlace, PassedGuards, [Next]_vars,
                    NEW c \in Threads, NEW g \in Threads, NEW n \in refs'[g],
                    pc'[c] \in Scanning, slot'[g] < index'[c], Stamped(n)'
             PROVE  \/ min_announced'[c] <= announced_epoch'[slot'[g]]
                    \/ announced_epoch'[slot'[c]] <= retire_epoch'[n]
    BY DEF PassedGuards
<1> DEFINE s == slot[g]
<1>1. /\ pc[g] \in InGuard /\ n \in refs[g]
      /\ slot'[g] = s /\ announced_epoch'[s] = announced_epoch[s]
      /\ \/ Stamped(n) /\ retire_epoch'[n] = retire_epoch[n]
         \/ retire_epoch'[n] = global_epoch_
    BY ObserverStep DEF ObserverKept
<1>2. /\ pc[c] \in InGuard
      /\ slot'[c] = slot[c] /\ announced_epoch'[slot[c]] = announced_epoch[slot[c]]
      /\ \/ index'[c] = 1
         \/ /\ pc[c] \in Scanning
            /\ index'[c] = index[c] /\ min_announced'[c] = min_announced[c]
         \/ /\ pc[c] \in Scanning /\ index[c] \in Records /\ ~active[index[c]]
            /\ index'[c] = index[c] + 1 /\ min_announced'[c] = min_announced[c]
         \/ /\ pc[c] \in Scanning /\ index[c] \in Records
            /\ index'[c] = index[c] + 1 /\ min_announced'[c] <= min_announced[c]
            /\ min_announced'[c] <= announced_epoch[index[c]]
    BY CollectorStep DEF CollectorKept
<1>3. s \in 1..max_threads /\ active[s] /\ slot[c] \in Records
    BY <1>1, <1>2 DEF Control, Holders, HolderOf, InGuard, Records
<1>4. CASE retire_epoch'[n] = global_epoch_
    <2>1. announced_epoch[slot[c]] \in 0..global_epoch_
        BY <1>3 DEF TypeOK
    <2> QED BY <1>2, <1>4, <2>1 DEF TypeOK
<1>5. CASE Stamped(n) /\ retire_epoch'[n] = retire_epoch[n]
    <2>1. /\ announced_epoch[s] \in Nat /\ min_announced[c] \in Nat
          /\ min_announced'[c] \in Nat /\ index[c] \in Nat
        <3>1. TypeOK'
            BY TypeStep DEF Control
        <3>2. min_announced'[c] \in Nat
            BY <3>1 DEF TypeOK
        <3>3. announced_epoch[s] \in 0..global_epoch_
            BY <1>3 DEF TypeOK, Records
        <3> QED BY <3>2, <3>3, RegistryAssumption DEF TypeOK
    <2>2. pc[c] \in Scanning /\ s < index[c]
             => \/ min_announced[c] <= announced_epoch[s]
                \/ announced_epoch[slot[c]] <= retire_epoch[n]
        BY <1>1, <1>5 DEF PassedGuards
    <2> HIDE DEF s
    <2>3. CASE index'[c] = 1
        BY <1>1, <1>3, <2>3, RegistryAssumption
    <2>4. CASE /\ pc[c] \in Scanning
               /\ index'[c] = index[c] /\ min_announced'[c] = min_announced[c]
        BY <1>1, <1>2, <1>5, <2>2, <2>4
    <2>5. CASE /\ pc[c] \in Scanning /\ index[c] \in Records /\ ~active[index[c]]
               /\ index'[c] = index[c] + 1 /\ min_announced'[c] = min_announced[c]
        <3>1. s # index[c]
            BY <1>3, <2>5
        <3>2. s < index[c]
            BY <1>1, <1>3, <2>1, <2>5, <3>1, RegistryAssumption
        <3> QED BY <1>1, <1>2, <1>5, <2>2, <2>5, <3>2
    <2>6. CASE /\ pc[c] \in Scanning /\ index[c] \in Records
               /\ index'[c] = index[c] + 1 /\ min_announced'[c] <= min_announced[c]
               /\ min_announced'[c] <= announced_epoch[index[c]]
        <3>1. s = index[c] \/ s < index[c]
            BY <1>1, <1>3, <2>1, <2>6, RegistryAssumption
        <3>2. CASE s = index[c]
            BY <1>1, <2>6, <3>2
        <3>3. CASE s < index[c]
            BY <1>1, <1>2, <1>5, <2>1, <2>2, <2>6, <3>3
        <3> QED BY <3>1, <3>2, <3>3
    <2> QED
        BY <1>2, <2>3, <2>4, <2>5, <2>6
<1> QED
    BY <1>1, <1>4, <1>5

(* A node is deleted only if it is stamped before every epoch the scan     *)
(* counted, hence before the announcement of every guard that observed it. *)
LEMMA DeletedUnobserved ==
    ASSUME TypeOK, Control, StampedAfterObserver, CollectorCounted, PassedGuards,
           NEW t \in Threads, NEW n \in Nodes, Sweep(t, n),
           NEW g \in Threads, n \in refs[g]
    PROVE  ~(retire_epoch[n] < min_announced[t])
<1>1. pc[t] \in Scanning /\ n \in list[t] /\ index[t] = max_threads + 1
    BY DEF Sweep, Scanning, Control, Locals, LocalsOf
<1>2. Stamped(n)
    BY <1>1 DEF Stamped
<1>3. pc[g] \in InGuard /\ slot[g] \in Records /\ slot[t] \in Records
    BY <1>1 DEF Control, Holders, HolderOf, InGuard, Scanning
<1>4. slot[g] < index[t] /\ slot[t] < index[t]
    BY <1>1, <1>3, RegistryAssumption DEF Records
<1>5. /\ min_announced[t] \in Nat /\ retire_epoch[n] \in Nat
      /\ announced_epoch[slot[g]] \in Nat /\ announced_epoch[slot[t]] \in Nat
    BY <1>3 DEF TypeOK
<1>6. announced_epoch[slot[g]] <= retire_epoch[n]
    BY <1>2 DEF StampedAfterObserver
<1>7. min_announced[t] <= announced_epoch[slot[t]]
    BY <1>1, <1>4 DEF CollectorCounted
<1>8. \/ min_announced[t] <= announced_epoch[slot[g]]
      \/ announced_epoch[slot[t]] <= retire_epoch[n]
    BY <1>1, <1>2, <1>4 DEF PassedGuards
<1> QED
    BY <1>5, <1>6, <1>7, <1>8

(* Only Sweep deletes, and only what nobody observed; only linked nodes    *)
(* are newly observed, and those are not deleted.                          *)
LEMMA NoUseAfterFreeStep == IInv /\ [Next]_vars => NoUseAfterFree'
<1> SUFFICES ASSUME IInv, [Next]_vars PROVE NoUseAfterFree'
    OBVIOUS
<1> USE DEF NoUseAfterFree, IInv, TypeOK, AtOnePlace, registry, retirees,
            claiming, collecting, client, Goto
<1>1. ASSUME NEW t \in Threads, EnterGuard(t) PROVE NoUseAfterFree'
    BY <1>1, SMTT(40) DEF EnterGuard
<1>2. ASSUME NEW t \in Threads, ClaimOwner(t) PROVE NoUseAfterFree'
    BY <1>2, SMTT(40) DEF ClaimOwner
<1>3. ASSUME NEW t \in Threads, SkipRecord(t) PROVE NoUseAfterFree'
    BY <1>3, SMTT(40) DEF SkipRecord
<1>4. ASSUME NEW t \in Threads, ClaimThrows(t) PROVE NoUseAfterFree'
    BY <1>4, SMTT(40) DEF ClaimThrows
<1>5. ASSUME NEW t \in Threads, FetchEpoch(t) PROVE NoUseAfterFree'
    BY <1>5, SMTT(40) DEF FetchEpoch
<1>6. ASSUME NEW t \in Threads, Announce(t) PROVE NoUseAfterFree'
    BY <1>6, SMTT(40) DEF Announce
<1>7. ASSUME NEW t \in Threads, Activate(t) PROVE NoUseAfterFree'
    BY <1>7, SMTT(40) DEF Activate
<1>8. ASSUME NEW t \in Threads, Deactivate(t) PROVE NoUseAfterFree'
    BY <1>8, SMTT(40) DEF Deactivate
<1>9. ASSUME NEW t \in Threads, ReleaseOwner(t) PROVE NoUseAfterFree'
    BY <1>9, SMTT(40) DEF ReleaseOwner
<1>10. ASSUME NEW t \in Threads, NEW n \in Nodes, Observe(t, n) PROVE NoUseAfterFree'
    BY <1>10, SMTT(40) DEF Observe
<1>11. ASSUME NEW t \in Threads, NEW n \in Nodes, Unlink(t, n) PROVE NoUseAfterFree'
    BY <1>11, SMTT(40) DEF Unlink
<1>12. ASSUME NEW t \in Threads, NEW n \in Nodes, Sweep(t, n) PROVE NoUseAfterFree'
    <2>1. ASSUME NEW g \in Threads, n \in refs[g] PROVE ~(retire_epoch[n] < min_announced[t])
        BY <1>12, <2>1, DeletedUnobserved
    <2>2. CASE retire_epoch[n] < min_announced[t]
        <3>1. \A g \in Threads : n \notin refs[g]
            BY <2>1, <2>2
        <3> QED BY <1>12, <3>1 DEF Sweep
    <2>3. CASE UNCHANGED freed
        BY <1>12, <2>3 DEF Sweep
    <2> QED BY <1>12, <2>2, <2>3 DEF Sweep
<1>13. ASSUME NEW t \in Threads, Stamp(t) PROVE NoUseAfterFree'
    BY <1>13, SMTT(40) DEF Stamp
<1>14. ASSUME NEW t \in Threads, PushRetired(t) PROVE NoUseAfterFree'
    BY <1>14, SMTT(40) DEF PushRetired
<1>15. ASSUME NEW t \in Threads, CountRetired(t) PROVE NoUseAfterFree'
    BY <1>15, SMTT(40) DEF CountRetired, Caller
<1>16. ASSUME NEW t \in Threads, CallCollect(t) PROVE NoUseAfterFree'
    BY <1>16, SMTT(40) DEF CallCollect
<1>17. ASSUME NEW t \in Threads, ResetCount(t) PROVE NoUseAfterFree'
    BY <1>17, SMTT(40) DEF ResetCount
<1>18. ASSUME NEW t \in Threads, ReadActive(t) PROVE NoUseAfterFree'
    BY <1>18, SMTT(40) DEF ReadActive
<1>19. ASSUME NEW t \in Threads, ReadInactive(t) PROVE NoUseAfterFree'
    BY <1>19, SMTT(40) DEF ReadInactive, NextRecord
<1>20. ASSUME NEW t \in Threads, ReadEpoch(t) PROVE NoUseAfterFree'
    BY <1>20, SMTT(40) DEF ReadEpoch, NextRecord
<1>21. ASSUME NEW t \in Threads, Exchange(t) PROVE NoUseAfterFree'
    BY <1>21, SMTT(40) DEF Exchange
<1>22. ASSUME NEW t \in Threads, CollectReturns(t) PROVE NoUseAfterFree'
    BY <1>22, SMTT(40) DEF CollectReturns, Caller
<1>23. CASE UNCHANGED vars
    BY <1>23 DEF vars
<1> QED
    BY <1>1, <1>2, <1>3, <1>4, <1>5, <1>6, <1>7, <1>8, <1>9, <1>10, <1>11,
       <1>12, <1>13, <1>14, <1>15, <1>16, <1>17, <1>18, <1>19, <1>20, <1>21, <1>22, <1>23
       DEF Next, Step

(* A node leaves a place only for another one: the locals that hold nodes  *)
(* are empty whenever an operation overwrites them.                        *)
LEMMA NothingLostStep == TypeOK /\ Locals /\ NothingLost /\ [Next]_vars => NothingLost'
<1> SUFFICES ASSUME TypeOK, Locals, NothingLost, [Next]_vars PROVE NothingLost'
    OBVIOUS
<1> USE NullAssumption
        DEF NothingLost, TypeOK, Locals, LocalsOf, registry, retirees,
            claiming, collecting, client, Goto
<1>1. ASSUME NEW t \in Threads, EnterGuard(t) PROVE NothingLost'
    BY <1>1, SMTT(40) DEF EnterGuard
<1>2. ASSUME NEW t \in Threads, ClaimOwner(t) PROVE NothingLost'
    BY <1>2, SMTT(40) DEF ClaimOwner
<1>3. ASSUME NEW t \in Threads, SkipRecord(t) PROVE NothingLost'
    BY <1>3, SMTT(40) DEF SkipRecord
<1>4. ASSUME NEW t \in Threads, ClaimThrows(t) PROVE NothingLost'
    BY <1>4, SMTT(40) DEF ClaimThrows
<1>5. ASSUME NEW t \in Threads, FetchEpoch(t) PROVE NothingLost'
    BY <1>5, SMTT(40) DEF FetchEpoch
<1>6. ASSUME NEW t \in Threads, Announce(t) PROVE NothingLost'
    BY <1>6, SMTT(40) DEF Announce
<1>7. ASSUME NEW t \in Threads, Activate(t) PROVE NothingLost'
    BY <1>7, SMTT(40) DEF Activate
<1>8. ASSUME NEW t \in Threads, Deactivate(t) PROVE NothingLost'
    BY <1>8, SMTT(40) DEF Deactivate
<1>9. ASSUME NEW t \in Threads, ReleaseOwner(t) PROVE NothingLost'
    BY <1>9, SMTT(40) DEF ReleaseOwner
<1>10. ASSUME NEW t \in Threads, NEW n \in Nodes, Observe(t, n) PROVE NothingLost'
    BY <1>10, SMTT(40) DEF Observe
<1>11. ASSUME NEW t \in Threads, NEW n \in Nodes, Unlink(t, n) PROVE NothingLost'
    BY <1>11, SMTT(40) DEF Unlink
<1>12. ASSUME NEW t \in Threads, NEW n \in Nodes, Sweep(t, n) PROVE NothingLost'
    BY <1>12, SMTT(40) DEF Sweep
<1>13. ASSUME NEW t \in Threads, Stamp(t) PROVE NothingLost'
    BY <1>13, SMTT(40) DEF Stamp
<1>14. ASSUME NEW t \in Threads, PushRetired(t) PROVE NothingLost'
    BY <1>14, SMTT(40) DEF PushRetired
<1>15. ASSUME NEW t \in Threads, CountRetired(t) PROVE NothingLost'
    BY <1>15, SMTT(40) DEF CountRetired, Caller
<1>16. ASSUME NEW t \in Threads, CallCollect(t) PROVE NothingLost'
    BY <1>16, SMTT(40) DEF CallCollect
<1>17. ASSUME NEW t \in Threads, ResetCount(t) PROVE NothingLost'
    BY <1>17, SMTT(40) DEF ResetCount
<1>18. ASSUME NEW t \in Threads, ReadActive(t) PROVE NothingLost'
    BY <1>18, SMTT(40) DEF ReadActive
<1>19. ASSUME NEW t \in Threads, ReadInactive(t) PROVE NothingLost'
    BY <1>19, SMTT(40) DEF ReadInactive, NextRecord
<1>20. ASSUME NEW t \in Threads, ReadEpoch(t) PROVE NothingLost'
    BY <1>20, SMTT(40) DEF ReadEpoch, NextRecord
<1>21. ASSUME NEW t \in Threads, Exchange(t) PROVE NothingLost'
    BY <1>21, SMTT(40) DEF Exchange
<1>22. ASSUME NEW t \in Threads, CollectReturns(t) PROVE NothingLost'
    BY <1>22, SMTT(40) DEF CollectReturns, Caller
<1>23. CASE UNCHANGED vars
    BY <1>23 DEF vars
<1> QED
    BY <1>1, <1>2, <1>3, <1>4, <1>5, <1>6, <1>7, <1>8, <1>9, <1>10, <1>11,
       <1>12, <1>13, <1>14, <1>15, <1>16, <1>17, <1>18, <1>19, <1>20, <1>21, <1>22, <1>23
       DEF Next, Step

-----------------------------------------------------------------------------

(* What holds however the domain is used. *)
Places == TypeOK /\ Locals /\ AtOnePlace /\ NothingLost

(* The two invariants hold initially. *)
LEMMA InitInvs == Init => Places /\ IInv
<1> SUFFICES ASSUME Init PROVE Places /\ IInv
    OBVIOUS
<1> USE RegistryAssumption, NullAssumption DEF Init
<1>1. TypeOK
    BY DEF TypeOK, PCs, Records
<1>2. Holders /\ Locals
    BY DEF Holders, HolderOf, Locals, LocalsOf, InGuard
<1>3. AtOnePlace /\ NothingLost
    BY DEF AtOnePlace, NothingLost
<1>4. StampedAfterObserver /\ CollectorCounted /\ PassedGuards /\ NoUseAfterFree
    BY DEF StampedAfterObserver, CollectorCounted, PassedGuards, Scanning, NoUseAfterFree
<1> QED
    BY <1>1, <1>2, <1>3, <1>4 DEF IInv, Places, Control

(* Every step preserves the first. *)
LEMMA StepPlaces == Places /\ [Next]_vars => Places'
BY TypeStep, LocalsStep, PlaceStep, NothingLostStep DEF Places

(* The second is inductive when retire and collect run in guards only. *)
LEMMA StepIInv == ~Unguarded /\ IInv /\ [Next]_vars => IInv'
BY TypeStep, HoldersStep, LocalsStep, PlaceStep, StampedAfterObserverStep,
   CollectorCountedStep, PassedGuardsStep, NoUseAfterFreeStep DEF IInv, Control

(* As long as every retire and collect runs inside a guard, a guard keeps  *)
(* every node its operation observed allocated, for any number of threads, *)
(* records and guards: the promise of epoch_reclaim.hpp:20.                *)
THEOREM GuardsProtect ==
    ASSUME ~Unguarded
    PROVE  Spec => []NoUseAfterFree
<1>1. IInv => NoUseAfterFree
    BY DEF IInv
<1> QED
    BY <1>1, InitInvs, StepIInv, PTL DEF Spec

(* No retired node is deleted twice or while it is still linked, however   *)
(* many collectors run at once, inside guards and outside.                 *)
THEOREM DeletedOnce == Spec => []AtOnePlace
<1>1. Places => AtOnePlace
    BY DEF Places
<1> QED
    BY <1>1, InitInvs, StepPlaces, PTL DEF Spec

(* Nor is one lost: a collect that may not delete a node puts it back.     *)
THEOREM RetiredKept == Spec => []NothingLost
<1>1. Places => NothingLost
    BY DEF Places
<1> QED
    BY <1>1, InitInvs, StepPlaces, PTL DEF Spec

=============================================================================
