------------------------------ MODULE SkipList ------------------------------
(***************************************************************************)
(* concurrent_skip_list<T> (include/concurrent_skip_list.hpp): a lazy skip *)
(* list.  Searches take no lock; insert locks the predecessors of all its  *)
(* levels, erase marks a node under its lock and then takes it out level   *)
(* by level.  A guard of the epoch domain covers every operation, so a     *)
(* node a thread can still stand on is never reused: retired nodes stay.   *)
(*                                                                         *)
(* A step is one load or store that another thread can notice.  What is    *)
(* done under a mutex to fields that are written only under it belongs to  *)
(* the step that takes the mutex, and the unlocks in a row are one step.   *)
(*                                                                         *)
(* th[t] holds the pc and the locals of a thread's call.  pc:              *)
(*   "idle", "done"   outside, and about to return                         *)
(*   "find"           to load pred->next[level]                            *)
(*   "found" "await"  insert met an equal node                             *)
(*   "lock" "link" "linked" "unlock"          insert                       *)
(*   "check"          erase and contains: the found node's flags           *)
(*   "mark" "walk" "splice" "retire"          erase                        *)
(***************************************************************************)
EXTENDS Naturals, FiniteSets

CONSTANTS
    Threads, NoThread,
    Keys,
    max_level,
    InitialSets,    \* the sets of keys the list may hold at the beginning
    MaxNodes,       \* bound: nodes, the two sentinels among them
    MaxCalls        \* bound: how many calls are made

ASSUME KeysAssumption == Keys \subseteq Nat \ {0} /\ InitialSets \subseteq SUBSET Keys
ASSUME BoundAssumption ==
    /\ {max_level, MaxNodes, MaxCalls} \subseteq Nat
    /\ MaxNodes >= 2
    /\ \A K \in InitialSets : IsFiniteSet(K) /\ Cardinality(K) + 2 <= MaxNodes
ASSUME ThreadAssumption == NoThread \notin Threads

null  == 0
head_ == 1
tail_ == 2
Nodes == 1..MaxNodes
Levels == 0..max_level

VARIABLES
    node,       \* the allocated nodes
    retired,    \* the nodes handed to the epoch domain
    deleted,    \* the nodes the destructor has deleted
    th,
    calls,
    seen        \* history: was the key of a thread's call in the set?  The
                \* answers that were right at some moment of the call

vars == <<node, retired, deleted, th, calls, seen>>

Node(k, next, linked) ==
    [data |-> k, top_level |-> Cardinality(DOMAIN next) - 1, next |-> next,
     marked |-> FALSE, fully_linked |-> linked, owner |-> NoThread]

NoNodes == [l \in Levels |-> null]
Idle == [pc |-> "idle", op |-> "none", key |-> 0, level |-> 0, pred |-> null,
         preds |-> NoNodes, succs |-> NoNodes, node |-> null, result |-> "none"]

(* A list of the keys in K with towers of the heights in tops. *)
InitialList(K, tops) ==
    LET id(k) == 2 + Cardinality({j \in K : j <= k})
        after(k, l) == {j \in K : j > k /\ tops[j] >= l}
        next(k, l) == IF after(k, l) = {} THEN tail_
                      ELSE id(CHOOSE j \in after(k, l) : \A i \in after(k, l) : j <= i)
        keyOf(n) == CHOOSE k \in K : id(k) = n
    IN  [n \in {head_, tail_} \cup {id(k) : k \in K} |->
            CASE n = head_ -> Node(0, [l \in Levels |-> next(0, l)], FALSE)
              [] n = tail_ -> Node(0, NoNodes, FALSE)
              [] OTHER -> Node(keyOf(n), [l \in 0..tops[keyOf(n)] |-> next(keyOf(n), l)], TRUE)]

Init ==
    /\ \E K \in InitialSets : \E tops \in [K -> Levels] : node = InitialList(K, tops)
    /\ retired = {} /\ deleted = {}
    /\ th = [t \in Threads |-> Idle]
    /\ calls = 0
    /\ seen = [t \in Threads |-> {}]

At(t, label) == th[t].pc = label
Becomes(t, r) == th' = [th EXCEPT ![t] = r]
Answer(t, b) ==
    Becomes(t, [Idle EXCEPT !.pc = "done", !.op = th[t].op, !.key = th[t].key, !.result = b])

-----------------------------------------------------------------------------
(* Calls; insert allocates its node, of any height, before it searches *)

StartFind(r) == [r EXCEPT !.pc = "find", !.level = max_level, !.pred = head_,
                          !.preds = NoNodes, !.succs = NoNodes]

Alive == deleted = {}

Call(t, op, k) ==
    /\ At(t, "idle") /\ Alive
    /\ calls < MaxCalls
    /\ calls' = calls + 1
    /\ LET r == StartFind([Idle EXCEPT !.op = op, !.key = k]) IN
       IF op # "insert" THEN Becomes(t, r) /\ UNCHANGED node
       ELSE LET n == CHOOSE n \in Nodes \ DOMAIN node : \A m \in Nodes \ DOMAIN node : n <= m
            IN  /\ Nodes \ DOMAIN node # {}
                /\ Becomes(t, [r EXCEPT !.node = n])
                /\ \E top \in Levels :
                       node' = [m \in DOMAIN node \cup {n} |->
                                   IF m = n THEN Node(k, [l \in 0..top |-> null], FALSE)
                                   ELSE node[m]]
    /\ UNCHANGED retired

(* empty(): one load. *)
Empty(t) ==
    /\ At(t, "idle") /\ Alive
    /\ calls < MaxCalls
    /\ calls' = calls + 1
    /\ Becomes(t, [Idle EXCEPT !.pc = "done", !.op = "empty",
                       !.result = IF node[head_].next[0] = tail_ THEN "true" ELSE "false"])
    /\ UNCHANGED <<node, retired>>

Return(t) ==
    /\ At(t, "done")
    /\ Becomes(t, Idle)
    /\ UNCHANGED <<node, retired, calls>>

-----------------------------------------------------------------------------
(* find *)

Curr(t) == node[th[t].pred].next[th[t].level]
Before(n, k) == n # tail_ /\ node[n].data < k

FindAdvances(t) ==
    /\ At(t, "find")
    /\ Before(Curr(t), th[t].key)
    /\ Becomes(t, [th[t] EXCEPT !.pred = Curr(t)])
    /\ UNCHANGED <<node, retired, calls>>

Recorded(t) == [th[t] EXCEPT !.preds[th[t].level] = th[t].pred, !.succs[th[t].level] = Curr(t)]

FindDescends(t) ==
    /\ At(t, "find") /\ th[t].level > 0
    /\ ~Before(Curr(t), th[t].key)
    /\ Becomes(t, [Recorded(t) EXCEPT !.level = @ - 1])
    /\ UNCHANGED <<node, retired, calls>>

(* find returns, and insert stores the successors in its node. *)
FindEnds(t) ==
    /\ At(t, "find") /\ th[t].level = 0
    /\ ~Before(Curr(t), th[t].key)
    /\ LET r == Recorded(t)
           found == Curr(t) # tail_ /\ node[Curr(t)].data = r.key
       IN  \/ /\ r.op = "insert" /\ ~found
              /\ node' = [node EXCEPT ![r.node].next = [l \in DOMAIN @ |-> r.succs[l]]]
              /\ Becomes(t, [r EXCEPT !.pc = "lock"])
           \/ /\ r.op = "insert" /\ found
              /\ Becomes(t, [r EXCEPT !.pc = "found"])
              /\ UNCHANGED node
           \/ /\ r.op # "insert" /\ found
              /\ Becomes(t, [r EXCEPT !.pc = "check", !.node = Curr(t),
                                      !.preds = NoNodes, !.succs = NoNodes])
              /\ UNCHANGED node
           \/ /\ r.op # "insert" /\ ~found
              /\ Answer(t, "false")
              /\ UNCHANGED node
    /\ UNCHANGED <<retired, calls>>

-----------------------------------------------------------------------------
(* insert *)

(* The equal node is being deleted: search again; else wait for its links. *)
InsertFound(t) ==
    /\ At(t, "found")
    /\ IF node[th[t].succs[0]].marked THEN Becomes(t, StartFind(th[t]))
       ELSE Becomes(t, [th[t] EXCEPT !.pc = "await"])
    /\ UNCHANGED <<node, retired, calls>>

(* delete new_node; return false. *)
InsertFails(t) ==
    /\ At(t, "await")
    /\ node[th[t].succs[0]].fully_linked
    /\ node' = [n \in DOMAIN node \ {th[t].node} |-> node[n]]
    /\ Answer(t, "false")
    /\ UNCHANGED <<retired, calls>>

(* Does level l need no lock of its own? *)
SamePred(r, l) == l > 0 /\ r.preds[l] = r.preds[l - 1]

(* Mutant: the predecessor's mark is not looked at. *)
ValidUnmarked(r, l) ==
    /\ ~node[r.succs[l]].marked
    /\ node[r.preds[l]].next[l] = r.succs[l]

Valid(r, l) ==
    /\ ~node[r.preds[l]].marked
    /\ ~node[r.succs[l]].marked
    /\ node[r.preds[l]].next[l] = r.succs[l]

(* Lock the predecessor at a level and validate; level is highest_locked   *)
(* when the loop ends.                                                     *)
LockPred(t) ==
    /\ At(t, "lock")
    /\ LET r == th[t]
           l == r.level
       IN  /\ \/ SamePred(r, l) /\ UNCHANGED node
              \/ /\ ~SamePred(r, l)
                 /\ node[r.preds[l]].owner = NoThread
                 /\ node' = [node EXCEPT ![r.preds[l]].owner = t]
           /\ Becomes(t, IF ~Valid(r, l) THEN [r EXCEPT !.pc = "unlock"]
                         ELSE IF l < node[r.node].top_level THEN [r EXCEPT !.level = @ + 1]
                         ELSE [r EXCEPT !.pc = "link", !.level = 0])
    /\ UNCHANGED <<retired, calls>>

LinkLevel(t) ==
    /\ At(t, "link")
    /\ LET r == th[t] IN
           /\ node' = [node EXCEPT ![r.preds[r.level]].next[r.level] = r.node]
           /\ Becomes(t, IF r.level < node[r.node].top_level THEN [r EXCEPT !.level = @ + 1]
                         ELSE [r EXCEPT !.pc = "linked"])
    /\ UNCHANGED <<retired, calls>>

(* The moment the key is in the set. *)
FullyLinked(t) ==
    /\ At(t, "linked")
    /\ node' = [node EXCEPT ![th[t].node].fully_linked = TRUE]
    /\ Becomes(t, [th[t] EXCEPT !.pc = "unlock", !.result = "true"])
    /\ UNCHANGED <<retired, calls>>

(* Mutant: the level whose validation failed is not counted as locked. *)
LockedPredsBelow(r) ==
    {r.preds[l] : l \in 0..r.level} \ (IF r.result = "none" THEN {r.preds[r.level]} ELSE {})

LockedPreds(r) == {r.preds[l] : l \in 0..r.level}

(* unlock_preds; then return, or retry with the same node. *)
UnlockPreds(t) ==
    /\ At(t, "unlock")
    /\ node' = [n \in DOMAIN node |-> IF n \in LockedPreds(th[t])
                                      THEN [node[n] EXCEPT !.owner = NoThread] ELSE node[n]]
    /\ IF th[t].result = "true" THEN Answer(t, "true") ELSE Becomes(t, StartFind(th[t]))
    /\ UNCHANGED <<retired, calls>>

-----------------------------------------------------------------------------
(* erase and contains *)

(* Mutant: contains believes in a node that is still being linked. *)
ContainsUnlinked(t) ==
    /\ At(t, "check") /\ th[t].op = "contains"
    /\ Answer(t, IF ~node[th[t].node].marked THEN "true" ELSE "false")
    /\ UNCHANGED <<node, retired, calls>>

(* contains: fully_linked and not marked.  Once fully_linked is true it    *)
(* stays, so the two loads can be taken as one.                            *)
ContainsChecks(t) ==
    /\ At(t, "check") /\ th[t].op = "contains"
    /\ LET n == node[th[t].node] IN
           Answer(t, IF n.fully_linked /\ ~n.marked THEN "true" ELSE "false")
    /\ UNCHANGED <<node, retired, calls>>

EraseChecks(t) ==
    /\ At(t, "check") /\ th[t].op = "erase"
    /\ LET n == node[th[t].node] IN
           \/ ~n.fully_linked /\ Becomes(t, StartFind([th[t] EXCEPT !.node = null]))
           \/ n.fully_linked /\ n.marked /\ Answer(t, "false")
           \/ n.fully_linked /\ ~n.marked /\ Becomes(t, [th[t] EXCEPT !.pc = "mark"])
    /\ UNCHANGED <<node, retired, calls>>

(* Walk along a level from the head. *)
StartWalk(r, l) == [r EXCEPT !.pc = "walk", !.level = l, !.pred = head_]

(* Mutant: the mark is not looked at again under the lock. *)
MarkAnyway(t) ==
    /\ At(t, "mark")
    /\ LET v == th[t].node IN
           /\ node[v].owner = NoThread
           /\ node' = [node EXCEPT ![v].marked = TRUE]
           /\ Becomes(t, StartWalk([th[t] EXCEPT !.result = "true"], node[v].top_level))
    /\ UNCHANGED <<retired, calls>>

(* The critical section on the victim's mutex: the moment the key goes. *)
MarkVictim(t) ==
    /\ At(t, "mark")
    /\ LET v == th[t].node IN
           /\ node[v].owner = NoThread
           /\ IF node[v].marked THEN Answer(t, "false") /\ UNCHANGED node
              ELSE /\ node' = [node EXCEPT ![v].marked = TRUE]
                   /\ Becomes(t, StartWalk([th[t] EXCEPT !.result = "true"],
                                           node[v].top_level))
    /\ UNCHANGED <<retired, calls>>

(* The victim is gone from this level: on to the one below, or retire. *)
NextLevelDown(t) ==
    Becomes(t, IF th[t].level > 0 THEN StartWalk(th[t], th[t].level - 1)
               ELSE [th[t] EXCEPT !.pc = "retire", !.pred = null])

Walk(t) ==
    /\ At(t, "walk")
    /\ \/ /\ Curr(t) = th[t].node
          /\ Becomes(t, [th[t] EXCEPT !.pc = "splice"])
       \/ /\ Curr(t) # th[t].node /\ Before(Curr(t), th[t].key)
          /\ Becomes(t, [th[t] EXCEPT !.pred = Curr(t)])
       \/ /\ Curr(t) # th[t].node /\ ~Before(Curr(t), th[t].key)
          /\ NextLevelDown(t)
    /\ UNCHANGED <<node, retired, calls>>

(* Mutant: after a lost race the level is given up. *)
SpliceOnce(t) ==
    /\ At(t, "splice")
    /\ LET r == th[t] IN
           /\ node[r.pred].owner = NoThread
           /\ IF ~node[r.pred].marked /\ Curr(t) = r.node
              THEN node' = [node EXCEPT ![r.pred].next[r.level] = node[r.node].next[r.level]]
              ELSE UNCHANGED node
           /\ NextLevelDown(t)
    /\ UNCHANGED <<retired, calls>>

(* The critical section on the predecessor's mutex. *)
Splice(t) ==
    /\ At(t, "splice")
    /\ LET r == th[t] IN
           /\ node[r.pred].owner = NoThread
           /\ IF ~node[r.pred].marked /\ Curr(t) = r.node
              THEN /\ node' = [node EXCEPT ![r.pred].next[r.level] = node[r.node].next[r.level]]
                   /\ NextLevelDown(t)
              ELSE Becomes(t, StartWalk(r, r.level)) /\ UNCHANGED node
    /\ UNCHANGED <<retired, calls>>

(* domain_.retire(victim); return true. *)
Retire(t) ==
    /\ At(t, "retire")
    /\ retired' = retired \cup {th[t].node}
    /\ Answer(t, "true")
    /\ UNCHANGED <<node, calls>>

-----------------------------------------------------------------------------

(* The nodes linked at a level: the head's successors, up to the tail. *)
Linked(l) ==
    LET nth[i \in 0..MaxNodes] ==
            IF i = 0 THEN head_
            ELSE IF nth[i - 1] = tail_ THEN tail_ ELSE node[nth[i - 1]].next[l]
    IN  {nth[i] : i \in 0..MaxNodes}

(* ~concurrent_skip_list: "must not run concurrently with any other        *)
(* operation".                                                             *)
Destroy ==
    /\ Alive
    /\ \A t \in Threads : At(t, "idle")
    /\ deleted' = Linked(0)
    /\ UNCHANGED <<node, retired, th, calls>>

Step(t) ==
    \/ \E op \in {"insert", "erase", "contains"}, k \in Keys : Call(t, op, k)
    \/ Empty(t) \/ Return(t)
    \/ FindAdvances(t) \/ FindDescends(t) \/ FindEnds(t)
    \/ InsertFound(t) \/ InsertFails(t) \/ LockPred(t) \/ LinkLevel(t) \/ FullyLinked(t)
    \/ UnlockPreds(t)
    \/ ContainsChecks(t) \/ EraseChecks(t) \/ MarkVictim(t) \/ Walk(t) \/ Splice(t) \/ Retire(t)

(* The set the list stands for. *)
Members == {node[n].data : n \in {m \in DOMAIN node : node[m].fully_linked /\ ~node[m].marked}}

Next ==
    /\ \/ Destroy
       \/ (\E t \in Threads : Step(t)) /\ UNCHANGED deleted
    /\ seen' = [t \in Threads |-> IF th'[t].pc = "idle" THEN {}
                                  ELSE seen[t] \cup {th'[t].key \in Members'}]

Spec == Init /\ [][Next]_vars

-----------------------------------------------------------------------------

(* "keeping the set sorted" (line 48): the keys ascend along every level,  *)
(* every level is part of the one below, and an element of the set is on   *)
(* all levels of its tower: an insert that validated stale predecessors,   *)
(* or a splice that met an insert, would lose one.                         *)
TowersAreWhole ==
    \A l \in Levels :
        /\ \A n \in Linked(l) \ {tail_} :
               node[n].next[l] = tail_ \/ node[n].data < node[node[n].next[l]].data
        /\ l > 0 => Linked(l) \subseteq Linked(l - 1)
        /\ \A n \in DOMAIN node :
               node[n].fully_linked /\ ~node[n].marked /\ l <= node[n].top_level => n \in Linked(l)

(* A node is retired once and only when no level leads to it any more; and *)
(* no node gets lost: each one is linked, in the hands of one thread, or   *)
(* retired, so that the destructor deletes all the others.                 *)
NodesAccountedFor ==
    LET inserting == {th[t].node : t \in {u \in Threads : th[u].op = "insert" /\ th[u].result = "none"}}
        erasing == {th[t].node : t \in {u \in Threads : At(u, "retire")}}
        held == (inserting \cup erasing) \ {null}
    IN  /\ DOMAIN node = Linked(0) \cup held \cup retired
        /\ \A l \in Levels : Linked(l) \cap (erasing \cup retired) = {}
        /\ erasing \cap retired = {}
        /\ ~Alive => deleted \cap retired = {} /\ DOMAIN node = deleted \cup retired

(* The thread that has the mutex t is about to lock, if any. *)
WaitsFor(t) ==
    CASE At(t, "lock") /\ ~SamePred(th[t], th[t].level) -> node[th[t].preds[th[t].level]].owner
      [] At(t, "mark") -> node[th[t].node].owner
      [] At(t, "splice") -> node[th[t].pred].owner
      [] OTHER -> NoThread

(* Insert locks several nodes, in descending order, and erase one at a     *)
(* time ("no lock ordering issues", line 169): no threads wait for each    *)
(* other in a circle, or for one that has returned with a mutex.           *)
NoDeadlock ==
    ~\E S \in (SUBSET Threads) \ {{}} :
        \A t \in S : WaitsFor(t) \in S \cup {u \in Threads : At(u, "idle")}

(* "Returns false if an equal element already exists", "Returns false if   *)
(* not present" (lines 48, 120, 209): contains and the calls that report   *)
(* failure answer what was true at some moment of the call, though find    *)
(* may stand on nodes that have been taken out meanwhile.                  *)
AnswersAreTrue ==
    \A t \in Threads :
        LET r == th[t] IN
        /\ (r.op = "contains" /\ r.result = "true")
               \/ (r.op = "insert" /\ r.result = "false") => TRUE \in seen[t]
        /\ r.op \in {"contains", "erase"} /\ r.result = "false" => FALSE \in seen[t]

(* The skip list is a set: a successful insert changes it when it stores   *)
(* fully_linked, a successful erase at its "logical deletion point".       *)
AbstractSet ==
    INSTANCE KeySet WITH
        set <- Members,
        changed <- {t \in Threads : th[t].op \in {"insert", "erase"} /\ th[t].result = "true"}
ImplementsSet == AbstractSet!Spec

=============================================================================
