------------------------------ MODULE HashMap ------------------------------
(***************************************************************************)
(* lockfree_hash_map<Key, Value> (include/lockfree_hash_map.hpp): a list   *)
(* ordered by bit-reversed hashes holds the data and a sentinel for every  *)
(* bucket that has been used.  The search is that of lockfree_list, from   *)
(* the bucket's sentinel on; buckets are made when they are first needed,  *)
(* and a put that finds too many elements doubles their number.            *)
(*                                                                         *)
(* A step is one access to an atomic.  No reclaim pass runs: a node that   *)
(* was unlinked is not reused, and what hazard pointers point to makes no  *)
(* difference (see LockfreeList for what they protect).  That one is free  *)
(* does: they are shared with every thread and container of the program,   *)
(* so any construction of an hp_owner may find none and throw.             *)
(*                                                                         *)
(* th[t] holds the pc and the locals of a thread's call; buckets are the   *)
(* calls of find_bucket it is in, the innermost last.  pc:                 *)
(*   "idle" "done"                     outside, and about to return        *)
(*   "find" "validate" "read" "unlink"                         find_from   *)
(*   "place"                           find_bucket: insert the sentinel    *)
(*   "value"                           get                                 *)
(*   "store" "link" "count" "compare" "grow" "size" "double"   put, grow   *)
(*   "next" "mark" "erase" "uncount"                           erase       *)
(***************************************************************************)
EXTENDS Naturals, FiniteSets, FiniteSetsExt, Sequences, SequencesExt, TLC

CONSTANTS
    Threads,
    Keys, Hash,     \* the keys and their hashes
    Bits,           \* the bits of a hash (32)
    Sizes,          \* size_ counts modulo this (2^64)
    InitialMaps,    \* the maps to begin with: number of buckets, keys, and
                    \* the buckets other than 0 that have been made
    MaxCalls        \* bound: how many calls are made

null  == 0
head_ == 1

VARIABLES
    node,           \* the nodes in the list or in the hands of a thread,
                    \* and those unlinked
    bucket_count_, size_,
    retired,        \* the nodes handed to reclaim_later
    leaked,         \* history: the nodes of puts that threw
    th,
    calls,          \* number of calls made; the i-th call puts the value i
    seen            \* history: what the key of a thread's call has been
                    \* bound to during the call ("held", 0 for nothing), and
                    \* what has been stored in a node of that key ("stored")

vars == <<node, bucket_count_, size_, retired, leaked, th, calls, seen>>

-----------------------------------------------------------------------------
(* Split keys: even for sentinels, odd for data *)

reverse_bits(v) ==
    MapThenSumSet(LAMBDA i : ((v \div 2^i) % 2) * 2^(Bits - 1 - i), 0..(Bits - 1))

bucket_split_key(bucket) == 2 * reverse_bits(bucket)
data_split_key(hash) == 2 * reverse_bits(hash) + 1

bucket_of(hash) == hash % bucket_count_

(* The bucket with its most significant bit cleared. *)
Parent(bucket) == bucket - CHOOSE p \in {2^i : i \in 0..Bits} : p <= bucket /\ bucket < 2 * p

-----------------------------------------------------------------------------

Pointer(p) == [ptr |-> p, marked |-> FALSE]
Marked(p)  == [ptr |-> p, marked |-> TRUE]

Sentinel(bucket) ==
    [split_key |-> bucket_split_key(bucket), key |-> 0, value |-> 0, next |-> Pointer(null)]
Data(k, v) ==
    [split_key |-> data_split_key(Hash[k]), key |-> k, value |-> v, next |-> Pointer(null)]

Idle == [pc |-> "idle", op |-> "none", key |-> 0, value |-> 0, buckets |-> << >>,
         sentinel |-> null, new_node |-> null, start |-> null, goal |-> 0,
         pred |-> null, curr |-> null, succ |-> null, num |-> 0, result |-> "none"]

(* The list of a map: its nodes in order, numbered from the head on. *)
InitialList(m) ==
    LET nodes == {Sentinel(b) : b \in m.made \cup {0}} \cup {Data(k, 100) : k \in m.keys}
        before(x, y) == x.split_key < y.split_key \/ (x.split_key = y.split_key /\ x.key < y.key)
        order == SetToSortSeq(nodes, before)
    IN  [i \in DOMAIN order |->
            [order[i] EXCEPT !.next = Pointer(IF i < Len(order) THEN i + 1 ELSE null)]]

Init ==
    /\ \E m \in InitialMaps :
           /\ node = InitialList(m)
           /\ bucket_count_ = m.buckets
           /\ size_ = Cardinality(m.keys)
    /\ retired = {}
    /\ leaked = {}
    /\ th = [t \in Threads |-> Idle]
    /\ calls = 0
    /\ seen = [t \in Threads |-> {}]

At(t, label) == th[t].pc = label
Becomes(t, r) == th' = [th EXCEPT ![t] = r]
AnswerValue(t, result, v) ==
    Becomes(t, [Idle EXCEPT !.pc = "done", !.op = th[t].op, !.key = th[t].key,
                            !.result = result, !.value = v])
Answer(t, result) == AnswerValue(t, result, 0)

(* hp_owner's constructor finds no free hazard pointer and the call throws.*)
(* Nothing owns n, the node it has allocated.                              *)
Throw(t, r, n) ==
    Becomes(t, [Idle EXCEPT !.pc = "done", !.op = r.op, !.key = r.key,
                            !.result = "throw", !.new_node = n])

Fresh(nodes) == CHOOSE n \in 1..(Cardinality(DOMAIN nodes) + 1) : n \notin DOMAIN nodes
Without(n) == [m \in DOMAIN node \ {n} |-> node[m]]

(* A call of find_from. *)
Search(r, start, goal) ==
    [r EXCEPT !.pc = "find", !.start = start, !.goal = goal,
              !.pred = null, !.curr = null, !.succ = null]

-----------------------------------------------------------------------------
(* find_bucket; nodes is the list when the step is over *)

(* The innermost call returns s.  The one around it makes its own sentinel *)
(* and looks for its place from s on; put allocates its node and then its  *)
(* hazard pointers; and the data is searched from the bucket's sentinel on.*)
BucketFound(t, r, s, nodes) ==
    LET outer == Front(r.buckets)
        n == Fresh(nodes)
        goal == data_split_key(Hash[r.key])
    IN  IF outer # << >>
        THEN /\ node' = nodes @@ (n :> Sentinel(Last(outer)))
             /\ Becomes(t, Search([r EXCEPT !.buckets = outer, !.sentinel = n], s,
                                  bucket_split_key(Last(outer))))
        ELSE IF r.op = "put"
        THEN /\ node' = nodes @@ (n :> Data(r.key, r.value))
             /\ \/ Becomes(t, Search([r EXCEPT !.buckets = << >>, !.sentinel = null,
                                               !.new_node = n], s, goal))
                \/ Throw(t, r, n)
        ELSE /\ node' = nodes
             /\ Becomes(t, Search([r EXCEPT !.buckets = << >>, !.sentinel = null], s, goal))

FindBucket(t, r, bucket) ==
    LET called == [r EXCEPT !.buckets = Append(@, bucket), !.sentinel = null]
    IN  IF bucket = 0 THEN BucketFound(t, called, head_, node)
        ELSE /\ \/ Becomes(t, Search(called, head_, bucket_split_key(bucket)))
                \/ Throw(t, r, null)
             /\ UNCHANGED node

(* All but put begin with their hazard pointers. *)
Call(t, op, k) ==
    /\ At(t, "idle")
    /\ calls < MaxCalls
    /\ calls' = calls + 1
    /\ LET r == [Idle EXCEPT !.op = op, !.key = k, !.value = IF op = "put" THEN calls' ELSE 0]
       IN  \/ FindBucket(t, r, bucket_of(Hash[k]))
           \/ op # "put" /\ Throw(t, r, null) /\ UNCHANGED node
    /\ UNCHANGED <<bucket_count_, size_, retired>>

Return(t) ==
    /\ At(t, "done")
    /\ Becomes(t, Idle)
    /\ UNCHANGED <<node, bucket_count_, size_, retired, calls>>

(* Insert the sentinel. *)
Place(t) ==
    /\ At(t, "place")
    /\ LET r == th[t] IN
           /\ node[r.pred].next = Pointer(r.curr)
           /\ BucketFound(t, r, r.sentinel, [node EXCEPT ![r.pred].next = Pointer(r.sentinel)])
    /\ UNCHANGED <<bucket_count_, size_, retired, calls>>

(* Mutant: the loser of the race takes the node it stopped at. *)
PlaceFailsFinds(t) ==
    /\ At(t, "place")
    /\ LET r == th[t] IN
           /\ node[r.pred].next # Pointer(r.curr)
           /\ IF r.curr # null THEN BucketFound(t, r, r.curr, Without(r.sentinel))
              ELSE /\ node' = Without(r.sentinel)
                   /\ Becomes(t, Search([r EXCEPT !.sentinel = null], head_, r.goal))
    /\ UNCHANGED <<bucket_count_, size_, retired, calls>>

(* Lost the race: delete the sentinel and look again. *)
PlaceFails(t) ==
    /\ At(t, "place")
    /\ LET r == th[t] IN
           /\ node[r.pred].next # Pointer(r.curr)
           /\ node' = Without(r.sentinel)
           /\ Becomes(t, Search([r EXCEPT !.sentinel = null], head_, r.goal))
    /\ UNCHANGED <<bucket_count_, size_, retired, calls>>

-----------------------------------------------------------------------------
(* find_from *)

FindStart(t) ==
    /\ At(t, "find")
    /\ LET r == th[t] IN
           Becomes(t, [r EXCEPT !.pc = "validate", !.pred = r.start,
                                !.curr = node[r.start].next.ptr])
    /\ UNCHANGED <<node, bucket_count_, size_, retired, calls>>

Validate(t) ==
    /\ At(t, "validate")
    /\ th[t].curr # null
    /\ Becomes(t, IF node[th[t].pred].next.ptr # th[t].curr
                  THEN Search(th[t], th[t].start, th[t].goal)
                  ELSE [th[t] EXCEPT !.pc = "read"])
    /\ UNCHANGED <<node, bucket_count_, size_, retired, calls>>

ReadMarked(t) ==
    /\ At(t, "read")
    /\ node[th[t].curr].next.marked
    /\ Becomes(t, [th[t] EXCEPT !.pc = "unlink", !.succ = node[th[t].curr].next.ptr])
    /\ UNCHANGED <<node, bucket_count_, size_, retired, calls>>

UnlinkMarked(t) ==
    /\ At(t, "unlink")
    /\ LET r == th[t] IN
       IF node[r.pred].next = Pointer(r.curr)
       THEN /\ node' = [node EXCEPT ![r.pred].next = Pointer(r.succ)]
            /\ retired' = retired \cup {r.curr}
            /\ Becomes(t, [r EXCEPT !.pc = "validate", !.curr = r.succ, !.succ = null])
       ELSE /\ Becomes(t, Search(r, r.start, r.goal))
            /\ UNCHANGED <<node, retired>>
    /\ UNCHANGED <<bucket_count_, size_, calls>>

(* Does the search stop at curr?  Sentinels carry no key. *)
Stops(r) ==
    LET n == node[r.curr] IN
    \/ n.split_key > r.goal
    \/ n.split_key = r.goal /\ (n.key = 0 \/ n.key >= r.key)

Advance(t) ==
    /\ At(t, "read")
    /\ ~node[th[t].curr].next.marked
    /\ ~Stops(th[t])
    /\ Becomes(t, [th[t] EXCEPT !.pc = "validate", !.pred = th[t].curr,
                                !.curr = node[th[t].curr].next.ptr])
    /\ UNCHANGED <<node, bucket_count_, size_, retired, calls>>

(* Is curr what was looked for: a sentinel (find_sentinel) or the key? *)
Hit(r, k) == r.curr # null /\ node[r.curr].split_key = r.goal /\ node[r.curr].key = k

(* find_from returns: to find_bucket, which has looked for the sentinel or *)
(* for the place of the one it made, or to the operation.                  *)
FindReturns(t) ==
    LET r == th[t]
        before(n) == node' = [node EXCEPT ![n].next = Pointer(r.curr)]
        goto(label) == Becomes(t, [r EXCEPT !.pc = label])
    IN  IF r.sentinel # null THEN before(r.sentinel) /\ goto("place")
        ELSE IF r.buckets # << >> THEN
             IF Hit(r, 0) THEN BucketFound(t, r, r.curr, node)
             ELSE FindBucket(t, r, Parent(Last(r.buckets)))
        ELSE IF r.op = "put" /\ ~Hit(r, r.key) THEN before(r.new_node) /\ goto("link")
        ELSE /\ UNCHANGED node
             /\ CASE r.op = "contains" -> Answer(t, IF Hit(r, r.key) THEN "true" ELSE "false")
                  [] r.op = "put" -> goto("store")
                  [] ~Hit(r, r.key) -> Answer(t, "false")
                  [] r.op = "get" -> goto("value")
                  [] r.op = "erase" -> goto("next")

(* Mutant: a marked node at the place looked for counts. *)
FindEndsMarked(t) ==
    /\ \/ At(t, "validate") /\ th[t].curr = null
       \/ At(t, "read") /\ Stops(th[t])
    /\ FindReturns(t)
    /\ UNCHANGED <<bucket_count_, size_, retired, calls>>

FindEnds(t) ==
    /\ \/ At(t, "validate") /\ th[t].curr = null
       \/ At(t, "read") /\ ~node[th[t].curr].next.marked /\ Stops(th[t])
    /\ FindReturns(t)
    /\ UNCHANGED <<bucket_count_, size_, retired, calls>>

-----------------------------------------------------------------------------
(* get and put *)

GetValue(t) ==
    /\ At(t, "value")
    /\ AnswerValue(t, "true", node[th[t].curr].value)
    /\ UNCHANGED <<node, bucket_count_, size_, retired, calls>>

(* The key exists: its value is replaced and the new node deleted. *)
StoreValue(t) ==
    /\ At(t, "store")
    /\ node' = [Without(th[t].new_node) EXCEPT ![th[t].curr].value = th[t].value]
    /\ Answer(t, "false")
    /\ UNCHANGED <<bucket_count_, size_, retired, calls>>

(* Mutant: the mark of pred->next is ignored. *)
LinkAfterMarked(t) ==
    /\ At(t, "link")
    /\ LET r == th[t] IN
       IF node[r.pred].next.ptr = r.curr
       THEN /\ node' = [node EXCEPT ![r.pred].next = Pointer(r.new_node)]
            /\ Becomes(t, [r EXCEPT !.pc = "count", !.result = "true"])
       ELSE Becomes(t, Search(r, r.start, r.goal)) /\ UNCHANGED node
    /\ UNCHANGED <<bucket_count_, size_, retired, calls>>

Link(t) ==
    /\ At(t, "link")
    /\ LET r == th[t] IN
       IF node[r.pred].next = Pointer(r.curr)
       THEN /\ node' = [node EXCEPT ![r.pred].next = Pointer(r.new_node)]
            /\ Becomes(t, [r EXCEPT !.pc = "count", !.result = "true"])
       ELSE Becomes(t, Search(r, r.start, r.goal)) /\ UNCHANGED node
    /\ UNCHANGED <<bucket_count_, size_, retired, calls>>

(* fetch_add and the comparison with bucket_count(), here read after it,   *)
(* though the language leaves the order open: grow looks again anyway.     *)
CountUp(t) ==
    /\ At(t, "count")
    /\ size_' = (size_ + 1) % Sizes
    /\ Becomes(t, [th[t] EXCEPT !.pc = "compare", !.num = size_'])
    /\ UNCHANGED <<node, bucket_count_, retired, calls>>

Compare(t) ==
    /\ At(t, "compare")
    /\ IF th[t].num > bucket_count_ THEN Becomes(t, [th[t] EXCEPT !.pc = "grow"])
       ELSE Answer(t, "true")
    /\ UNCHANGED <<node, bucket_count_, size_, retired, calls>>

(* grow: count, the size, and the exchange. *)
Grow(t) ==
    /\ At(t, "grow")
    /\ Becomes(t, [th[t] EXCEPT !.pc = "size", !.num = bucket_count_])
    /\ UNCHANGED <<node, bucket_count_, size_, retired, calls>>

CheckSize(t) ==
    /\ At(t, "size")
    /\ IF size_ <= th[t].num THEN Answer(t, "true")
       ELSE Becomes(t, [th[t] EXCEPT !.pc = "double"])
    /\ UNCHANGED <<node, bucket_count_, size_, retired, calls>>

Double(t) ==
    /\ At(t, "double")
    /\ bucket_count_' = IF bucket_count_ = th[t].num THEN 2 * bucket_count_ ELSE bucket_count_
    /\ Answer(t, "true")
    /\ UNCHANGED <<node, size_, retired, calls>>

-----------------------------------------------------------------------------
(* erase *)

ReadNext(t) ==
    /\ At(t, "next")
    /\ Becomes(t, [th[t] EXCEPT !.pc = "mark", !.succ = node[th[t].curr].next.ptr])
    /\ UNCHANGED <<node, bucket_count_, size_, retired, calls>>

(* Mark curr->next, or look the key up again, in the bucket it is in now. *)
MarkCurr(t) ==
    /\ At(t, "mark")
    /\ LET r == th[t] IN
       IF node[r.curr].next = Pointer(r.succ)
       THEN /\ node' = [node EXCEPT ![r.curr].next = Marked(r.succ)]
            /\ Becomes(t, [r EXCEPT !.pc = "erase", !.result = "true"])
       ELSE FindBucket(t, r, bucket_of(Hash[r.key]))
    /\ UNCHANGED <<bucket_count_, size_, retired, calls>>

(* Mutant: only the thread that unlinks the node counts it out. *)
EraseCountsUnlinked(t) ==
    /\ At(t, "erase")
    /\ LET r == th[t] IN
       IF node[r.pred].next = Pointer(r.curr)
       THEN /\ node' = [node EXCEPT ![r.pred].next = Pointer(r.succ)]
            /\ retired' = retired \cup {r.curr}
            /\ Becomes(t, [r EXCEPT !.pc = "uncount"])
       ELSE Answer(t, "true") /\ UNCHANGED <<node, retired>>
    /\ UNCHANGED <<bucket_count_, size_, calls>>

(* One attempt to unlink the node; a search does it otherwise. *)
EraseUnlinks(t) ==
    /\ At(t, "erase")
    /\ LET r == th[t] IN
       IF node[r.pred].next = Pointer(r.curr)
       THEN /\ node' = [node EXCEPT ![r.pred].next = Pointer(r.succ)]
            /\ retired' = retired \cup {r.curr}
       ELSE UNCHANGED <<node, retired>>
    /\ Becomes(t, [th[t] EXCEPT !.pc = "uncount"])
    /\ UNCHANGED <<bucket_count_, size_, calls>>

CountDown(t) ==
    /\ At(t, "uncount")
    /\ size_' = (size_ + Sizes - 1) % Sizes
    /\ Answer(t, "true")
    /\ UNCHANGED <<node, bucket_count_, retired, calls>>

-----------------------------------------------------------------------------

Step(t) ==
    \/ \E op \in {"get", "put", "erase", "contains"}, k \in Keys : Call(t, op, k)
    \/ Return(t)
    \/ Place(t) \/ PlaceFails(t)
    \/ FindStart(t) \/ Validate(t) \/ ReadMarked(t) \/ UnlinkMarked(t) \/ Advance(t) \/ FindEnds(t)
    \/ GetValue(t) \/ StoreValue(t) \/ Link(t)
    \/ CountUp(t) \/ Compare(t) \/ Grow(t) \/ CheckSize(t) \/ Double(t)
    \/ ReadNext(t) \/ MarkCurr(t) \/ EraseUnlinks(t) \/ CountDown(t)

(* The nodes in the list, from the head on. *)
Linked ==
    LET nth[i \in 1..Cardinality(DOMAIN node)] ==
            IF i = 1 THEN head_ ELSE IF nth[i - 1] = null THEN null ELSE node[nth[i - 1]].next.ptr
    IN  {nth[i] : i \in 1..Cardinality(DOMAIN node)} \ {null}

Live == {n \in Linked : node[n].key # 0 /\ ~node[n].next.marked}
Members == {node[n].key : n \in Live}

(* What the keys are bound to, 0 for nothing. *)
Bindings ==
    LET live == Live IN
    [k \in Keys |-> MapThenSumSet(LAMBDA n : node[n].value, {n \in live : node[n].key = k})]

Stored(k) ==
    {node'[n].value : n \in {m \in DOMAIN node \cap DOMAIN node' :
                                /\ node[m].key = k /\ node'[m].key = k
                                /\ node'[m].value # node[m].value}}

Next ==
    /\ \E t \in Threads : Step(t)
    /\ seen' = LET bindings == Bindings' IN
               [t \in Threads |->
                  IF th'[t].pc = "idle" THEN {}
                  ELSE seen[t] \cup {<<"held", bindings[th'[t].key]>>}
                               \cup {<<"stored", v>> : v \in Stored(th'[t].key)}]
    /\ leaked' = leaked \cup ({th'[t].new_node : t \in {u \in Threads : th'[u].result = "throw"}}
                             \ {null})

Spec == Init /\ [][Next]_vars

-----------------------------------------------------------------------------

(* "ordered by bit-reversed keys.  Data nodes of a bucket sort right after *)
(* the bucket's sentinel" (line 12): split keys ascend along the list, no  *)
(* key is there twice, and every search starts at a sentinel in the list   *)
(* that comes before what it looks for, though two threads may have made   *)
(* sentinels for one bucket and the number of buckets may have doubled     *)
(* since.  No node is lost but that of a put which throws for want of a    *)
(* hazard pointer (line 79): it is never linked and nobody deletes it.     *)
SplitOrdered ==
    LET before(m, n) == \/ m.split_key < n.split_key
                        \/ /\ m.split_key = n.split_key
                           /\ m.key < n.key \/ (m.key = 0 /\ n.key = 0)
        held == {th[t].new_node : t \in {u \in Threads : th[u].result = "none"}}
                \cup {th[t].sentinel : t \in Threads}
        linked == Linked
    IN  /\ \A n \in linked : node[n].next.ptr # null => before(node[n], node[node[n].next.ptr])
        /\ DOMAIN node = linked \cup retired \cup (held \ {null}) \cup leaked
        /\ linked \cap (retired \cup held \cup leaked) = {}
        /\ \A t \in Threads :
               th[t].start # null =>
                   /\ th[t].start \in linked
                   /\ node[th[t].start].key = 0 /\ node[th[t].start].split_key <= th[t].goal

(* The size is "approximate under concurrent modification" (line 162) and  *)
(* exact without: an erase may count a node out before the put counts it   *)
(* in, below zero.                                                         *)
SizeIsExact ==
    (\A t \in Threads : th[t].pc \in {"idle", "done"}) => size_ = Cardinality(Members)

(* "readers see either the old or the new value" (line 21): get returns    *)
(* what the key was bound to at some moment of the call, or what a put     *)
(* meanwhile stored in its node; absence, and the key that a put replaced  *)
(* or a contains found, were a fact at some moment of the call.            *)
LookupsAreTrue ==
    \A t \in Threads :
        LET r == th[t]
        IN  r.pc = "done" =>
              /\ r.op = "get" /\ r.result = "true" =>
                     {<<"held", r.value>>, <<"stored", r.value>>} \cap seen[t] # {}
              /\ r.op # "put" /\ r.result = "false" => <<"held", 0>> \in seen[t]
              /\ (r.op = "contains" /\ r.result = "true") \/ (r.op = "put" /\ r.result = "false") =>
                     \E s \in seen[t] : s[1] = "held" /\ s[2] # 0

(* The keys of the map are a set: a put that returns true adds one when it *)
(* links its node, an erase removes one when it marks the node.            *)
AbstractSet ==
    INSTANCE KeySet WITH
        set <- Members,
        changed <- {t \in Threads : th[t].op \in {"put", "erase"} /\ th[t].result = "true"}
KeysAreASet == AbstractSet!Spec

=============================================================================
