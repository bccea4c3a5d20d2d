---------------------------- MODULE LockfreeQueue ----------------------------
(***************************************************************************)
(* lockfree_queue<T> (include/lockfree_queue.hpp): a linked queue with a   *)
(* dummy node at the end, whose nodes are kept alive by a split reference  *)
(* count: external counts in head and tail, an internal one in the node.   *)
(*                                                                         *)
(* A step is one access to an atomic.  A compare_exchange loop that only   *)
(* counts (increase_external_count, free_external_counter, release_ref)    *)
(* takes effect when it succeeds and is one step.  Values differ.          *)
(*                                                                         *)
(* pc of a thread: "idle"; push: "tail" (to count itself in), "data",      *)
(* "next", "help", "set_tail", "free_tail"; pop: "head", "empty", "load",  *)
(* "swap", "take", "free_head", "release".                                 *)
(***************************************************************************)
EXTENDS Integers, FiniteSets, TLC

CONSTANTS
    Threads,
    MaxPushes, MaxPops,     \* bounds: how many calls are made
    MaxNodes                \* bound: how many nodes are ever allocated

null == 0       \* the null pointer, to a node or to a value
Nodes == 1..MaxNodes
Ptr(c, n) == [external_count |-> c, ptr |-> n]

VARIABLES
    head, tail,
    node,           \* the nodes ever allocated
    deleted,        \* those deleted again
    th,
    pushes, pops,   \* number of calls made; the i-th push pushes i
    pushed, popped  \* the values of the calls that have returned

shared == <<head, tail, node, deleted>>
calls  == <<pushes, pops, pushed, popped>>
vars   == <<shared, th, calls>>

NewNode == [data |-> null, internal_count |-> 0, external_counters |-> 2, next |-> Ptr(0, null)]
Idle == [pc |-> "idle", value |-> null, old |-> Ptr(0, null), new_next |-> Ptr(0, null),
         new_tail |-> Ptr(0, null), stored |-> FALSE]

Init ==
    /\ head = Ptr(1, 1) /\ tail = Ptr(1, 1)
    /\ node = (1 :> NewNode)
    /\ deleted = {}
    /\ th = [t \in Threads |-> Idle]
    /\ pushes = 0 /\ pops = 0 /\ pushed = {} /\ popped = {}

Fresh == Cardinality(DOMAIN node) + 1
At(t, label) == th[t].pc = label
Becomes(t, r) == th' = [th EXCEPT ![t] = r]
Alive == head.ptr # null

(* The counts of node n after internal_count (30 bits) and                 *)
(* external_counters (2 bits) have changed; at zero it is deleted.         *)
Count(n, internal, counters) ==
    LET i == (node[n].internal_count + internal) % 2^30
        e == (node[n].external_counters + counters) % 4
    IN  /\ node' = [node EXCEPT ![n].internal_count = i, ![n].external_counters = e]
        /\ deleted' = IF i = 0 /\ e = 0 THEN deleted \cup {n} ELSE deleted

FreeExternalCounter(p) == Count(p.ptr, p.external_count - 2, -1)
ReleaseRef(n) == Count(n, -1, 0)

-----------------------------------------------------------------------------
(* push *)

(* A value and a node of one's own. *)
Push(t) ==
    /\ At(t, "idle") /\ Alive
    /\ pushes < MaxPushes /\ Fresh \in Nodes
    /\ pushes' = pushes + 1
    /\ node' = node @@ (Fresh :> NewNode)
    /\ Becomes(t, [Idle EXCEPT !.pc = "tail", !.value = pushes', !.new_next = Ptr(1, Fresh)])
    /\ UNCHANGED <<head, tail, deleted, pops, pushed, popped>>

(* increase_external_count(tail, old_tail) *)
CountTail(t) ==
    /\ At(t, "tail")
    /\ tail' = [tail EXCEPT !.external_count = @ + 1]
    /\ Becomes(t, [th[t] EXCEPT !.pc = "data", !.old = tail'])
    /\ UNCHANGED <<head, node, deleted, calls>>

(* The value goes into the dummy node, if it has none yet. *)
StoreData(t) ==
    /\ At(t, "data")
    /\ LET n == th[t].old.ptr IN
       IF node[n].data = null
       THEN /\ node' = [node EXCEPT ![n].data = th[t].value]
            /\ Becomes(t, [th[t] EXCEPT !.pc = "next", !.stored = TRUE])
       ELSE UNCHANGED node /\ Becomes(t, [th[t] EXCEPT !.pc = "help"])
    /\ UNCHANGED <<head, tail, deleted, calls>>

(* Link the new node behind it, or delete it if there is one already. *)
LinkNext(t) ==
    /\ At(t, "next")
    /\ LET r == th[t]
           next == node[r.old.ptr].next
       IN  IF next.ptr = null
           THEN /\ node' = [node EXCEPT ![r.old.ptr].next = r.new_next]
                /\ Becomes(t, [r EXCEPT !.pc = "set_tail", !.new_tail = r.new_next])
                /\ UNCHANGED deleted
           ELSE /\ deleted' = deleted \cup {r.new_next.ptr}
                /\ Becomes(t, [r EXCEPT !.pc = "set_tail", !.new_tail = next])
                /\ UNCHANGED node
    /\ UNCHANGED <<head, tail, calls>>

(* Somebody else's value is in: help to move the tail on. *)
HelpNext(t) ==
    /\ At(t, "help")
    /\ LET r == th[t]
           next == node[r.old.ptr].next
       IN  IF next.ptr = null
           THEN /\ Fresh \in Nodes
                /\ node' = [node EXCEPT ![r.old.ptr].next = r.new_next] @@ (Fresh :> NewNode)
                /\ Becomes(t, [r EXCEPT !.pc = "set_tail", !.new_tail = r.new_next,
                                        !.new_next.ptr = Fresh])
           ELSE /\ UNCHANGED node
                /\ Becomes(t, [r EXCEPT !.pc = "set_tail", !.new_tail = next])
    /\ UNCHANGED <<head, tail, deleted, calls>>

(* The loop of set_new_tail is over: push returns, or tries again. *)
TailIsSet(t) ==
    IF th[t].stored THEN Becomes(t, Idle) /\ pushed' = pushed \cup {th[t].value}
    ELSE Becomes(t, [th[t] EXCEPT !.pc = "tail"]) /\ UNCHANGED pushed

(* The compare_exchange of set_new_tail.  When it succeeds, or fails       *)
(* because the tail is another node, nothing is counted off.  A weak one   *)
(* may also fail for no reason.                                            *)
SetNewTail(t) ==
    /\ At(t, "set_tail")
    /\ \/ /\ tail = th[t].old
          /\ tail' = th[t].new_tail
          /\ TailIsSet(t)
       \/ /\ tail.ptr # th[t].old.ptr
          /\ UNCHANGED tail
          /\ TailIsSet(t)
       \/ /\ tail.ptr = th[t].old.ptr
          /\ Becomes(t, [th[t] EXCEPT !.pc = "free_tail", !.old = tail])
          /\ UNCHANGED <<tail, pushed>>
    /\ UNCHANGED <<head, node, deleted, pushes, pops, popped>>

FreeTail(t) ==
    /\ At(t, "free_tail")
    /\ FreeExternalCounter(th[t].old)
    /\ Becomes(t, [th[t] EXCEPT !.pc = "set_tail"])
    /\ UNCHANGED <<head, tail, calls>>

-----------------------------------------------------------------------------
(* pop *)

Pop(t) ==
    /\ At(t, "idle") /\ Alive
    /\ pops < MaxPops
    /\ pops' = pops + 1
    /\ Becomes(t, [Idle EXCEPT !.pc = "head"])
    /\ UNCHANGED <<shared, pushes, pushed, popped>>

CountHead(t) ==
    /\ At(t, "head")
    /\ head' = [head EXCEPT !.external_count = @ + 1]
    /\ Becomes(t, [th[t] EXCEPT !.pc = "empty", !.old = head'])
    /\ UNCHANGED <<tail, node, deleted, calls>>

(* Empty: return nullopt, counted in. *)
TestEmpty(t) ==
    /\ At(t, "empty")
    /\ IF th[t].old.ptr = tail.ptr THEN Becomes(t, Idle)
       ELSE Becomes(t, [th[t] EXCEPT !.pc = "load"])
    /\ UNCHANGED <<shared, calls>>

LoadNext(t) ==
    /\ At(t, "load")
    /\ Becomes(t, [th[t] EXCEPT !.pc = "swap", !.new_next = node[th[t].old.ptr].next])
    /\ UNCHANGED <<shared, calls>>

SwapHead(t) ==
    /\ At(t, "swap")
    /\ IF head = th[t].old
       THEN head' = th[t].new_next /\ Becomes(t, [th[t] EXCEPT !.pc = "take"])
       ELSE UNCHANGED head /\ Becomes(t, [th[t] EXCEPT !.pc = "release"])
    /\ UNCHANGED <<tail, node, deleted, calls>>

(* data.exchange(nullptr) *)
TakeData(t) ==
    /\ At(t, "take")
    /\ LET n == th[t].old.ptr IN
           /\ Becomes(t, [th[t] EXCEPT !.pc = "free_head", !.value = node[n].data])
           /\ node' = [node EXCEPT ![n].data = null]
    /\ UNCHANGED <<head, tail, deleted, calls>>

FreeHead(t) ==
    /\ At(t, "free_head")
    /\ FreeExternalCounter(th[t].old)
    /\ popped' = popped \cup {th[t].value}
    /\ Becomes(t, Idle)
    /\ UNCHANGED <<head, tail, pushes, pops, pushed>>

Release(t) ==
    /\ At(t, "release")
    /\ ReleaseRef(th[t].old.ptr)
    /\ Becomes(t, [th[t] EXCEPT !.pc = "head"])
    /\ UNCHANGED <<head, tail, calls>>

-----------------------------------------------------------------------------

(* The nodes from the head on. *)
Linked ==
    LET nth[i \in Nodes] ==
            IF i = 1 THEN head.ptr
            ELSE IF nth[i - 1] = null THEN null ELSE node[nth[i - 1]].next.ptr
    IN  {nth[i] : i \in Nodes} \ {null}

(* ~lockfree_queue *)
Destroy ==
    /\ Alive
    /\ \A t \in Threads : At(t, "idle")
    /\ deleted' = deleted \cup Linked
    /\ head' = Ptr(0, null)
    /\ UNCHANGED <<tail, node, th, calls>>

Next ==
    \/ \E t \in Threads :
           \/ Push(t) \/ CountTail(t) \/ StoreData(t) \/ LinkNext(t) \/ HelpNext(t)
           \/ SetNewTail(t) \/ FreeTail(t)
           \/ Pop(t) \/ CountHead(t) \/ TestEmpty(t) \/ LoadNext(t) \/ SwapHead(t)
           \/ TakeData(t) \/ FreeHead(t) \/ Release(t)
    \/ Destroy

Spec == Init /\ [][Next]_vars

-----------------------------------------------------------------------------

(* "concurrent push/pop keep element set intact" (test_lockfree.cpp:103):  *)
(* when nobody is in a call, every value pushed has been popped or is in   *)
(* the queue.                                                              *)
ElementsIntact ==
    Alive /\ (\A t \in Threads : At(t, "idle")) =>
        pushed \subseteq popped \cup {node[n].data : n \in Linked}

=============================================================================
