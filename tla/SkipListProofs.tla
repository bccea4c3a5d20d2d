--------------------------- MODULE SkipListProofs ---------------------------
(***************************************************************************)
(* Proofs about concurrent_skip_list, for any number of threads, keys,     *)
(* levels, nodes and calls: its towers are whole and sorted, its mutexes   *)
(* never deadlock, its nodes are retired once and none is lost, it is a    *)
(* set, and the calls that change nothing answer what was true.            *)
(*                                                                         *)
(* The model, like the code, has no list of the nodes on a level: On says  *)
(* who is there, from what has been linked (Entered) and what an erase has *)
(* taken out (Left).  The invariant ListInv orders those nodes by key, as  *)
(* a KeyChain, and keeps what a search may rely on that stands on a node   *)
(* taken out long ago: its pointers lead on, to larger keys (Forward).     *)
(* Place says what a thread has recorded and which of it still holds: an   *)
(* insert that has locked and validated a predecessor owns the gap behind  *)
(* it, since every change of a next pointer is made with the mutex of its  *)
(* node, and so is every mark.                                             *)
(*                                                                         *)
(* The answers are a matter of hindsight: a search need not stand on any   *)
(* node of the present list.  Guides and Sight say that it stands among    *)
(* nodes from which all ways lead to the node with the key, as long as the *)
(* key has been in the set since the call.                                 *)
(***************************************************************************)
EXTENDS SkipList, FiniteSetTheorems, ListLemmas, TLAPS

-----------------------------------------------------------------------------
(* Types *)

Ops == {"none", "insert", "erase", "contains", "empty"}
Labels == {"idle", "done", "find", "found", "await", "lock", "link", "linked", "unlock",
           "check", "mark", "walk", "splice", "retire"}
Pointers == Nodes \cup {null}

(* The pointers of a tower, of any height. *)
Nexts == UNION {[0..l -> Pointers] : l \in Levels}

NodeRecords ==
    [data : Keys \cup {0}, top_level : Levels, next : Nexts,
     marked : BOOLEAN, fully_linked : BOOLEAN, owner : Threads \cup {NoThread}]

ThreadRecords ==
    [pc : Labels, op : Ops, key : Keys \cup {0}, level : Levels, pred : Pointers,
     preds : [Levels -> Pointers], succs : [Levels -> Pointers], node : Pointers,
     result : {"none", "true", "false"}]

NodesOK ==
    /\ DOMAIN node \subseteq Nodes /\ {head_, tail_} \subseteq DOMAIN node
    /\ node \in [DOMAIN node -> NodeRecords]
    /\ \A n \in DOMAIN node : node[n].next \in [0..node[n].top_level -> Pointers]
    /\ \A n \in DOMAIN node \ {head_, tail_} : node[n].data \in Keys
    /\ node[head_].data = 0 /\ node[head_].top_level = max_level
    /\ \A n \in {head_, tail_} : ~node[n].marked /\ ~node[n].fully_linked

ThreadsOK == th \in [Threads -> ThreadRecords]

-----------------------------------------------------------------------------
(* Which nodes are on which level *)

(* An insert has linked level l of its node. *)
Linking(t, n, l) ==
    /\ th[t].op = "insert" /\ th[t].node = n
    /\ th[t].pc = "linked" \/ (th[t].pc = "link" /\ l < th[t].level)

(* Level l of n has been linked, whether or not it has been taken out      *)
(* since.                                                                  *)
Entered(n, l) ==
    \/ n = head_
    \/ /\ n \in DOMAIN node \ {head_, tail_}
       /\ l <= node[n].top_level
       /\ node[n].fully_linked \/ \E t \in Threads : Linking(t, n, l)

(* An erase works on n, and has taken level l of n out. *)
Erases(t, n) == th[t].pc \in {"walk", "splice", "retire"} /\ th[t].node = n
Past(t, l) == th[t].pc = "retire" \/ (th[t].pc \in {"walk", "splice"} /\ th[t].level < l)

Left(n, l) == n \in retired \/ \E t \in Threads : Erases(t, n) /\ Past(t, l)

On(l) == {n \in DOMAIN node : Entered(n, l) /\ ~Left(n, l)}

-----------------------------------------------------------------------------
(* Whose hands the nodes are in *)

Inserts(t, n) == th[t].op = "insert" /\ th[t].result = "none" /\ th[t].node = n

(* A node is an insert's own until it is fully linked, and marked once, by *)
(* the erase that takes it out and retires it.                             *)
Hands ==
    /\ \A t \in Threads : \A n \in Pointers : Inserts(t, n) =>
           n \in DOMAIN node \ {head_, tail_} /\ ~node[n].fully_linked
    /\ \A t, u \in Threads : \A n \in Nodes : Inserts(t, n) /\ Inserts(u, n) => t = u
    /\ \A n \in DOMAIN node \ {head_, tail_} :
           node[n].fully_linked \/ \E t \in Threads : Inserts(t, n)

Marks ==
    /\ retired \subseteq DOMAIN node /\ \A n \in retired : node[n].marked
    /\ \A n \in DOMAIN node : node[n].marked =>
           node[n].fully_linked /\ (n \in retired \/ \E t \in Threads : Erases(t, n))
    /\ \A t \in Threads : \A n \in Pointers : Erases(t, n) =>
           n \in DOMAIN node \ retired /\ node[n].marked
    /\ \A t, u \in Threads : \A n \in Nodes : Erases(t, n) /\ Erases(u, n) => t = u

-----------------------------------------------------------------------------
(* The order of the keys *)

(* A linked level leads on, upwards, even from a node that has been taken  *)
(* out.                                                                    *)
Onward(n, l) ==
    \/ node[n].next[l] = tail_
    \/ Entered(node[n].next[l], l) /\ node[n].data < node[node[n].next[l]].data
Forward == \A l \in Levels : \A n \in DOMAIN node : Entered(n, l) => Onward(n, l)

(* The nodes on a level are a chain. *)
Ptrs(l) == [n \in Nodes |-> node[n].next[l]]
Data == [n \in Nodes |-> node[n].data]
Chains == \A l \in Levels : KeyChain(On(l), head_, tail_, Ptrs(l), Data)

-----------------------------------------------------------------------------
(* Where a thread stands *)

Inserting == {"found", "await", "lock", "link", "linked", "unlock"}

Control(t) ==
    /\ th[t].pc = "idle" => th[t] = Idle
    /\ th[t].pc = "done" => th[t].node = null /\ th[t].result # "none"
    /\ th[t].pc \notin {"idle", "done"} => th[t].key \in Keys
    /\ th[t].pc = "find" => /\ th[t].op \in {"insert", "erase", "contains"}
                            /\ th[t].result = "none"
                            /\ th[t].op # "insert" => th[t].node = null
    /\ th[t].pc \in Inserting => th[t].op = "insert" /\ th[t].result # "false"
    /\ th[t].pc \in Inserting \ {"unlock"} => th[t].result = "none"
    /\ th[t].pc = "check" => th[t].op \in {"erase", "contains"} /\ th[t].result = "none"
    /\ th[t].pc = "mark" => th[t].op = "erase" /\ th[t].result = "none"
    /\ th[t].pc \in {"walk", "splice", "retire"} => th[t].op = "erase" /\ th[t].result = "true"

(* What find has recorded of level j. *)
Noted(t, j) ==
    /\ Entered(th[t].preds[j], j) /\ node[th[t].preds[j]].data < th[t].key
    /\ \/ th[t].succs[j] = tail_
       \/ Entered(th[t].succs[j], j) /\ th[t].key <= node[th[t].succs[j]].data

(* The key of m is not behind the key of n, and equal only if m is n. *)
Lower(m, n) == m = n \/ node[m].data < node[n].data

Searches(t) == th[t].pc = "find" =>
    /\ Entered(th[t].pred, th[t].level) /\ node[th[t].pred].data < th[t].key
    /\ \A j \in Levels : th[t].level < j => Noted(t, j) /\ Lower(th[t].preds[j], th[t].pred)
    /\ \A i, j \in Levels : th[t].level < i /\ i < j => Lower(th[t].preds[j], th[t].preds[i])

Found(t) == th[t].pc \in Inserting =>
    /\ \A j \in Levels : Noted(t, j)
    /\ \A i, j \in Levels : i < j => Lower(th[t].preds[j], th[t].preds[i])
    /\ th[t].pc \in {"found", "await"} =>
           th[t].succs[0] # tail_ /\ node[th[t].succs[0]].data = th[t].key
    /\ th[t].pc = "lock" => th[t].succs[0] = tail_ \/ th[t].key < node[th[t].succs[0]].data

(* The node an insert has made; level is one of its levels. *)
Made(t) ==
    /\ Inserts(t, th[t].node) => node[th[t].node].data = th[t].key
    /\ th[t].pc \in {"lock", "link"} => th[t].level <= node[th[t].node].top_level
    /\ th[t].pc = "linked" => th[t].level = node[th[t].node].top_level

(* The levels whose predecessor an insert has locked, those of them it has *)
(* validated and not linked, and the levels it has to link.                *)
Locked(t, j) ==
    \/ th[t].pc = "lock" /\ j < th[t].level
    \/ th[t].pc = "link" /\ j <= node[th[t].node].top_level
    \/ th[t].pc \in {"linked", "unlock"} /\ j <= th[t].level
Validated(t, j) ==
    \/ th[t].pc = "lock" /\ j < th[t].level
    \/ th[t].pc = "link" /\ th[t].level <= j /\ j <= node[th[t].node].top_level
Unlinked(t, j) ==
    /\ th[t].pc = "lock" \/ (th[t].pc = "link" /\ th[t].level <= j)
    /\ j <= node[th[t].node].top_level

Holds(t, j) ==
    /\ Locked(t, j) => node[th[t].preds[j]].owner = t
    /\ Validated(t, j) =>
           /\ ~node[th[t].preds[j]].marked
           /\ node[th[t].preds[j]].next[j] = th[t].succs[j]
           /\ th[t].succs[j] = tail_ \/ th[t].key < node[th[t].succs[j]].data
    /\ Unlinked(t, j) => node[th[t].node].next[j] = th[t].succs[j]

(* From p, level l leads to n: n is in every set that has p and what its   *)
(* members lead to.                                                        *)
Closed(S, l) == \A x \in S : Entered(x, l) => node[x].next[l] \in S
Leads(p, l, n) == \A S \in SUBSET Nodes : p \in S /\ Closed(S, l) => n \in S

(* The node contains and erase have found, and where erase walks. *)
Chosen(t) ==
    /\ th[t].pc = "check" => /\ Entered(th[t].node, 0) /\ th[t].node # head_
                             /\ node[th[t].node].data = th[t].key
    /\ th[t].pc = "mark" => /\ th[t].node \in DOMAIN node \ {head_, tail_}
                            /\ node[th[t].node].fully_linked
    /\ th[t].pc \in {"mark", "walk", "splice", "retire"} => node[th[t].node].data = th[t].key
    /\ th[t].pc \in {"walk", "splice"} =>
           /\ th[t].level <= node[th[t].node].top_level
           /\ Entered(th[t].pred, th[t].level) /\ node[th[t].pred].data < th[t].key
    /\ th[t].pc = "walk" => Leads(th[t].pred, th[t].level, th[t].node)

Place(t) ==
    /\ Control(t) /\ Searches(t) /\ Found(t) /\ Made(t) /\ Chosen(t)
    /\ \A j \in Levels : Holds(t, j)

(* A mutex is held by a thread that remembers to unlock it. *)
Owners ==
    \A n \in DOMAIN node : \A t \in Threads :
        node[n].owner = t => \E j \in Levels : Locked(t, j) /\ th[t].preds[j] = n

ListInv ==
    /\ NodesOK /\ ThreadsOK /\ Hands /\ Marks /\ Forward /\ Chains /\ Owners
    /\ \A t \in Threads : Place(t)

-----------------------------------------------------------------------------
(* Facts about the types *)

(* The sentinels and the levels. *)
LEMMA Constants ==
    /\ max_level \in Nat /\ MaxNodes \in Nat /\ Levels \subseteq Nat /\ 0 \in Levels /\ max_level \in Levels
    /\ head_ \in Nodes /\ tail_ \in Nodes /\ head_ # tail_ /\ null \notin Nodes
    /\ Keys \subseteq Nat /\ 0 \notin Keys /\ Nodes \subseteq Nat
BY KeysAssumption, BoundAssumption DEF Levels, Nodes, head_, tail_, null

(* What is known of an allocated node. *)
LEMMA NodeFacts ==
    ASSUME NodesOK, NEW n \in DOMAIN node
    PROVE  /\ n \in Nodes /\ n # null /\ n \in Pointers /\ node[n] \in NodeRecords
           /\ node[n].data \in Nat /\ node[n].top_level \in Levels /\ node[n].top_level \in Nat
           /\ node[n].marked \in BOOLEAN /\ node[n].fully_linked \in BOOLEAN
           /\ node[n].owner \in Threads \cup {NoThread}
           /\ node[n].next \in [0..node[n].top_level -> Pointers]
           /\ \A j \in 0..node[n].top_level : j \in Levels
           /\ \A j \in Levels : j <= node[n].top_level => j \in 0..node[n].top_level /\ node[n].next[j] \in Pointers
<1>1. n \in Nodes /\ n # null /\ n \in Pointers
    BY Constants DEF NodesOK, Pointers
<1>2. node[n] \in NodeRecords
    BY DEF NodesOK
<1>3. /\ node[n].data \in Keys \cup {0} /\ node[n].top_level \in Levels /\ node[n].owner \in Threads \cup {NoThread}
      /\ node[n].marked \in BOOLEAN /\ node[n].fully_linked \in BOOLEAN
    BY <1>2 DEF NodeRecords
<1>4. node[n].data \in Nat /\ node[n].top_level \in Nat
    BY <1>3, Constants
<1>5. node[n].next \in [0..node[n].top_level -> Pointers]
    BY DEF NodesOK
<1>6. \A j \in 0..node[n].top_level : j \in Levels
    BY <1>3, Constants DEF Levels
<1>7. \A j \in Levels : j <= node[n].top_level => j \in 0..node[n].top_level
    BY <1>4, Constants
<1> QED BY <1>1, <1>2, <1>3, <1>4, <1>5, <1>6, <1>7

(* A tower of pointers. *)
LEMMA TowerType ==
    ASSUME NEW top \in Levels, NEW f \in [0..top -> Pointers]
    PROVE  f \in Nexts
BY DEF Nexts

(* The fields of a thread's record. *)
LEMMA ThreadFacts ==
    ASSUME ThreadsOK, NEW t \in Threads
    PROVE  /\ th[t] \in ThreadRecords
           /\ th[t].pc \in Labels /\ th[t].op \in Ops /\ th[t].key \in Keys \cup {0} /\ th[t].key \in Nat
           /\ th[t].level \in Levels /\ th[t].level \in Nat /\ th[t].pred \in Pointers
           /\ th[t].preds \in [Levels -> Pointers] /\ th[t].succs \in [Levels -> Pointers]
           /\ th[t].node \in Pointers /\ th[t].result \in {"none", "true", "false"}
<1>1. th[t] \in ThreadRecords
    BY DEF ThreadsOK
<1>2. /\ th[t].pc \in Labels /\ th[t].op \in Ops /\ th[t].key \in Keys \cup {0}
      /\ th[t].level \in Levels /\ th[t].pred \in Pointers
      /\ th[t].preds \in [Levels -> Pointers] /\ th[t].succs \in [Levels -> Pointers]
      /\ th[t].node \in Pointers /\ th[t].result \in {"none", "true", "false"}
    BY <1>1 DEF ThreadRecords
<1>3. th[t].key \in Nat /\ th[t].level \in Nat
    BY <1>2, Constants
<1> QED BY <1>1, <1>2, <1>3

(* A linked level: the node is there, and so is the one behind it. *)
LEMMA EnteredFacts ==
    ASSUME NodesOK, NEW l \in Levels, NEW n, Entered(n, l)
    PROVE  /\ n \in DOMAIN node /\ n \in Nodes /\ n # tail_ /\ n # null /\ l <= node[n].top_level
           /\ l \in 0..node[n].top_level /\ node[n].data \in Nat /\ node[n].next[l] \in Pointers
<1>1. n \in DOMAIN node /\ n # tail_
    BY Constants DEF Entered, NodesOK
<1>2. l <= node[n].top_level
    <2>1. CASE n = head_
        BY <2>1, Constants DEF NodesOK, Levels
    <2>2. CASE n # head_
        BY <2>2 DEF Entered
    <2> QED BY <2>1, <2>2
<1> QED BY <1>1, <1>2, NodeFacts

(* Where it leads. *)
LEMMA ForwardFacts ==
    ASSUME NodesOK, Forward, NEW l \in Levels, NEW n, Entered(n, l)
    PROVE  /\ node[n].next[l] \in DOMAIN node
           /\ node[n].next[l] # tail_ =>
                  Entered(node[n].next[l], l) /\ node[n].data < node[node[n].next[l]].data
<1>1. n \in DOMAIN node
    BY EnteredFacts
<1>2. Onward(n, l)
    BY <1>1 DEF Forward
<1>3. CASE node[n].next[l] = tail_
    BY <1>3 DEF NodesOK
<1>4. CASE node[n].next[l] # tail_
    <2>1. Entered(node[n].next[l], l) /\ node[n].data < node[node[n].next[l]].data
        BY <1>2, <1>4 DEF Onward
    <2>2. node[n].next[l] \in DOMAIN node
        BY <2>1, EnteredFacts
    <2> QED BY <2>1, <2>2
<1> QED BY <1>3, <1>4

(* A step of t gives t a new record and leaves the others theirs. *)
LEMMA ThreadStep ==
    ASSUME ThreadsOK, NEW t \in Threads, NEW r, Becomes(t, r)
    PROVE  th'[t] = r /\ \A u \in Threads : u # t => th'[u] = th[u]
BY DEF ThreadsOK, Becomes

(* Its type. *)
LEMMA ThreadsOKStep ==
    ASSUME ThreadsOK, NEW t \in Threads, NEW r \in ThreadRecords, Becomes(t, r)
    PROVE  ThreadsOK'
BY DEF ThreadsOK, Becomes

-----------------------------------------------------------------------------
(* What the steps do to the nodes *)

SameId(n) == node'[n].data = node[n].data /\ node'[n].top_level = node[n].top_level
SameFlags(n) == node'[n].marked = node[n].marked /\ node'[n].fully_linked = node[n].fully_linked
SameOwner(n) == node'[n].owner = node[n].owner
SameNext(n) == node'[n].next = node[n].next

(* One node becomes r. *)
Updates(p, r) ==
    /\ DOMAIN node' = DOMAIN node /\ node'[p] = r
    /\ \A n \in DOMAIN node : n # p => node'[n] = node[n]

(* The types of the nodes after that. *)
LEMMA UpdateType ==
    ASSUME NodesOK, NEW p \in DOMAIN node, NEW r \in NodeRecords, node' = [node EXCEPT ![p] = r],
           r.data = node[p].data, r.top_level = node[p].top_level,
           r.next \in [0..node[p].top_level -> Pointers],
           p \in {head_, tail_} => ~r.marked /\ ~r.fully_linked
    PROVE  NodesOK' /\ Updates(p, r)
<1>1. /\ DOMAIN node' = DOMAIN node /\ node' \in [DOMAIN node' -> NodeRecords]
      /\ node'[p] = r /\ \A n \in DOMAIN node : n # p => node'[n] = node[n]
    BY DEF NodesOK
<1>2. \A n \in DOMAIN node : node'[n].data = node[n].data /\ node'[n].top_level = node[n].top_level
    BY <1>1
<1>3. \A n \in DOMAIN node : node'[n].next \in [0..node'[n].top_level -> Pointers]
    <2> TAKE n \in DOMAIN node
    <2>1. CASE n = p
        BY <1>1, <2>1
    <2>2. CASE n # p
        BY <1>1, <2>2 DEF NodesOK
    <2> QED BY <2>1, <2>2
<1>4. \A n \in {head_, tail_} : ~node'[n].marked /\ ~node'[n].fully_linked
    <2> TAKE n \in {head_, tail_}
    <2>1. CASE n = p
        BY <1>1, <2>1
    <2>2. CASE n # p
        BY <1>1, <2>2 DEF NodesOK
    <2> QED BY <2>1, <2>2
<1>5. \A n \in DOMAIN node \ {head_, tail_} : node'[n].data \in Keys
    BY <1>2 DEF NodesOK
<1>6. node'[head_].data = 0 /\ node'[head_].top_level = max_level
    BY <1>2 DEF NodesOK
<1>7. DOMAIN node' \subseteq Nodes /\ {head_, tail_} \subseteq DOMAIN node'
    BY <1>1 DEF NodesOK
<1>8. NodesOK'
    BY <1>1, <1>3, <1>4, <1>5, <1>6, <1>7 DEF NodesOK
<1> QED BY <1>1, <1>8 DEF Updates

(* A pointer is stored. *)
LEMMA SetNext ==
    ASSUME NodesOK, NEW p \in DOMAIN node, NEW l \in 0..node[p].top_level, NEW q \in Pointers,
           node' = [node EXCEPT ![p].next[l] = q]
    PROVE  /\ NodesOK' /\ DOMAIN node' = DOMAIN node
           /\ \A n \in DOMAIN node : SameId(n) /\ SameFlags(n) /\ SameOwner(n)
           /\ \A n \in DOMAIN node : n # p => SameNext(n)
           /\ node'[p].next[l] = q
           /\ \A j \in 0..node[p].top_level : j # l => node'[p].next[j] = node[p].next[j]
<1> DEFINE f == [node[p].next EXCEPT ![l] = q]
           r == [node[p] EXCEPT !.next = f]
<1>1. node[p] \in NodeRecords /\ node[p].next \in [0..node[p].top_level -> Pointers] /\ node[p].top_level \in Levels
    BY NodeFacts
<1>2. f \in [0..node[p].top_level -> Pointers] /\ f[l] = q
      /\ \A j \in 0..node[p].top_level : j # l => f[j] = node[p].next[j]
    BY <1>1
<1>3. node' = [node EXCEPT ![p] = r]
    OBVIOUS
<1> HIDE DEF f
<1>4. f \in Nexts
    BY <1>1, <1>2, TowerType
<1>5. /\ r \in NodeRecords /\ r.data = node[p].data /\ r.top_level = node[p].top_level /\ r.next = f
    BY <1>1, <1>4 DEF NodeRecords
<1>6. r.marked = node[p].marked
    BY <1>1 DEF NodeRecords
<1>7. r.fully_linked = node[p].fully_linked
    BY <1>1 DEF NodeRecords
<1>8. r.owner = node[p].owner
    BY <1>1 DEF NodeRecords
<1> HIDE DEF r
<1>9. p \in {head_, tail_} => ~r.marked /\ ~r.fully_linked
    BY <1>6, <1>7 DEF NodesOK
<1>10. NodesOK' /\ Updates(p, r)
    BY <1>2, <1>3, <1>5, <1>9, UpdateType
<1>11. \A n \in DOMAIN node : SameId(n) /\ SameFlags(n) /\ SameOwner(n)
    BY <1>5, <1>6, <1>7, <1>8, <1>10 DEF Updates, SameId, SameFlags, SameOwner
<1>12. \A n \in DOMAIN node : n # p => SameNext(n)
    BY <1>10 DEF Updates, SameNext
<1>13. node'[p].next = f /\ DOMAIN node' = DOMAIN node
    BY <1>5, <1>10 DEF Updates
<1> QED BY <1>2, <1>10, <1>11, <1>12, <1>13

(* A tower is filled in. *)
LEMMA SetTower ==
    ASSUME NodesOK, NEW p \in DOMAIN node, NEW s \in [Levels -> Pointers],
           node' = [node EXCEPT ![p].next = [l \in DOMAIN @ |-> s[l]]]
    PROVE  /\ NodesOK' /\ DOMAIN node' = DOMAIN node
           /\ \A n \in DOMAIN node : SameId(n) /\ SameFlags(n) /\ SameOwner(n)
           /\ \A n \in DOMAIN node : n # p => SameNext(n)
           /\ \A j \in 0..node[p].top_level : node'[p].next[j] = s[j]
<1> DEFINE f == [l \in DOMAIN node[p].next |-> s[l]]
           r == [node[p] EXCEPT !.next = f]
<1>1. node[p] \in NodeRecords /\ node[p].next \in [0..node[p].top_level -> Pointers] /\ node[p].top_level \in Levels
      /\ \A j \in 0..node[p].top_level : j \in Levels
    BY NodeFacts
<1>2. f \in [0..node[p].top_level -> Pointers] /\ \A j \in 0..node[p].top_level : f[j] = s[j]
    BY <1>1
<1>3. node' = [node EXCEPT ![p] = r]
    OBVIOUS
<1> HIDE DEF f
<1>4. f \in Nexts
    BY <1>1, <1>2, TowerType
<1>5. /\ r \in NodeRecords /\ r.data = node[p].data /\ r.top_level = node[p].top_level /\ r.next = f
    BY <1>1, <1>4 DEF NodeRecords
<1>6. r.marked = node[p].marked
    BY <1>1 DEF NodeRecords
<1>7. r.fully_linked = node[p].fully_linked
    BY <1>1 DEF NodeRecords
<1>8. r.owner = node[p].owner
    BY <1>1 DEF NodeRecords
<1> HIDE DEF r
<1>9. p \in {head_, tail_} => ~r.marked /\ ~r.fully_linked
    BY <1>6, <1>7 DEF NodesOK
<1>10. NodesOK' /\ Updates(p, r)
    BY <1>2, <1>3, <1>5, <1>9, UpdateType
<1>11. \A n \in DOMAIN node : SameId(n) /\ SameFlags(n) /\ SameOwner(n)
    BY <1>5, <1>6, <1>7, <1>8, <1>10 DEF Updates, SameId, SameFlags, SameOwner
<1>12. \A n \in DOMAIN node : n # p => SameNext(n)
    BY <1>10 DEF Updates, SameNext
<1>13. node'[p].next = f /\ DOMAIN node' = DOMAIN node
    BY <1>5, <1>10 DEF Updates
<1> QED BY <1>2, <1>10, <1>11, <1>12, <1>13

(* A node is marked. *)
LEMMA SetMarked ==
    ASSUME NodesOK, NEW p \in DOMAIN node \ {head_, tail_}, node' = [node EXCEPT ![p].marked = TRUE]
    PROVE  /\ NodesOK' /\ DOMAIN node' = DOMAIN node
           /\ \A n \in DOMAIN node : SameId(n) /\ SameNext(n) /\ SameOwner(n)
           /\ \A n \in DOMAIN node : node'[n].fully_linked = node[n].fully_linked
           /\ \A n \in DOMAIN node : n # p => node'[n].marked = node[n].marked
           /\ node'[p].marked
<1> DEFINE r == [node[p] EXCEPT !.marked = TRUE]
<1>1. node[p] \in NodeRecords /\ node[p].next \in [0..node[p].top_level -> Pointers]
    BY NodeFacts
<1>3. node' = [node EXCEPT ![p] = r]
    OBVIOUS
<1>5. r \in NodeRecords /\ r.data = node[p].data /\ r.top_level = node[p].top_level /\ r.next = node[p].next
    BY <1>1 DEF NodeRecords
<1>6. r.marked = TRUE
    BY <1>1 DEF NodeRecords
<1>7. r.fully_linked = node[p].fully_linked
    BY <1>1 DEF NodeRecords
<1>8. r.owner = node[p].owner
    BY <1>1 DEF NodeRecords
<1> HIDE DEF r
<1>10. NodesOK' /\ Updates(p, r)
    BY <1>1, <1>3, <1>5, UpdateType
<1>11. \A n \in DOMAIN node : SameId(n) /\ SameNext(n) /\ SameOwner(n)
    BY <1>5, <1>8, <1>10 DEF Updates, SameId, SameNext, SameOwner
<1>12. \A n \in DOMAIN node : node'[n].fully_linked = node[n].fully_linked
    BY <1>7, <1>10 DEF Updates
<1>13. node'[p].marked /\ DOMAIN node' = DOMAIN node /\ \A n \in DOMAIN node : n # p => node'[n].marked = node[n].marked
    BY <1>6, <1>10 DEF Updates
<1> QED BY <1>10, <1>11, <1>12, <1>13

(* A node is fully linked. *)
LEMMA SetFullyLinked ==
    ASSUME NodesOK, NEW p \in DOMAIN node \ {head_, tail_}, node' = [node EXCEPT ![p].fully_linked = TRUE]
    PROVE  /\ NodesOK' /\ DOMAIN node' = DOMAIN node
           /\ \A n \in DOMAIN node : SameId(n) /\ SameNext(n) /\ SameOwner(n)
           /\ \A n \in DOMAIN node : node'[n].marked = node[n].marked
           /\ \A n \in DOMAIN node : n # p => node'[n].fully_linked = node[n].fully_linked
           /\ node'[p].fully_linked
<1> DEFINE r == [node[p] EXCEPT !.fully_linked = TRUE]
<1>1. node[p] \in NodeRecords /\ node[p].next \in [0..node[p].top_level -> Pointers]
    BY NodeFacts
<1>3. node' = [node EXCEPT ![p] = r]
    OBVIOUS
<1>5. r \in NodeRecords /\ r.data = node[p].data /\ r.top_level = node[p].top_level /\ r.next = node[p].next
    BY <1>1 DEF NodeRecords
<1>6. r.marked = node[p].marked
    BY <1>1 DEF NodeRecords
<1>7. r.fully_linked = TRUE
    BY <1>1 DEF NodeRecords
<1>8. r.owner = node[p].owner
    BY <1>1 DEF NodeRecords
<1> HIDE DEF r
<1>10. NodesOK' /\ Updates(p, r)
    BY <1>1, <1>3, <1>5, UpdateType
<1>11. \A n \in DOMAIN node : SameId(n) /\ SameNext(n) /\ SameOwner(n)
    BY <1>5, <1>8, <1>10 DEF Updates, SameId, SameNext, SameOwner
<1>12. \A n \in DOMAIN node : node'[n].marked = node[n].marked
    BY <1>6, <1>10 DEF Updates
<1>13. /\ node'[p].fully_linked /\ DOMAIN node' = DOMAIN node
       /\ \A n \in DOMAIN node : n # p => node'[n].fully_linked = node[n].fully_linked
    BY <1>7, <1>10 DEF Updates
<1> QED BY <1>10, <1>11, <1>12, <1>13

(* Mutexes are taken or given back. *)
OnlyOwners ==
    /\ DOMAIN node' = DOMAIN node
    /\ \A n \in DOMAIN node : SameId(n) /\ SameFlags(n) /\ SameNext(n)

(* One is taken. *)
LEMMA SetOwner ==
    ASSUME NodesOK, NEW p \in DOMAIN node, NEW t \in Threads, node' = [node EXCEPT ![p].owner = t]
    PROVE  /\ NodesOK' /\ OnlyOwners
           /\ \A n \in DOMAIN node : n # p => SameOwner(n)
           /\ node'[p].owner = t
<1> DEFINE r == [node[p] EXCEPT !.owner = t]
<1>1. node[p] \in NodeRecords /\ node[p].next \in [0..node[p].top_level -> Pointers]
    BY NodeFacts
<1>3. node' = [node EXCEPT ![p] = r]
    OBVIOUS
<1>5. r \in NodeRecords /\ r.data = node[p].data /\ r.top_level = node[p].top_level /\ r.next = node[p].next
    BY <1>1 DEF NodeRecords
<1>6. r.marked = node[p].marked
    BY <1>1 DEF NodeRecords
<1>7. r.fully_linked = node[p].fully_linked
    BY <1>1 DEF NodeRecords
<1>8. r.owner = t
    BY <1>1 DEF NodeRecords
<1> HIDE DEF r
<1>9. p \in {head_, tail_} => ~r.marked /\ ~r.fully_linked
    BY <1>6, <1>7 DEF NodesOK
<1>10. NodesOK' /\ Updates(p, r)
    BY <1>1, <1>3, <1>5, <1>9, UpdateType
<1>11. \A n \in DOMAIN node : SameId(n) /\ SameFlags(n) /\ SameNext(n)
    BY <1>5, <1>6, <1>7, <1>10 DEF Updates, SameId, SameFlags, SameNext
<1>12. \A n \in DOMAIN node : n # p => SameOwner(n)
    BY <1>10 DEF Updates, SameOwner
<1>13. node'[p].owner = t /\ DOMAIN node' = DOMAIN node
    BY <1>8, <1>10 DEF Updates
<1> QED BY <1>10, <1>11, <1>12, <1>13 DEF OnlyOwners

(* Those of a set of nodes are given back. *)
LEMMA ClearOwners ==
    ASSUME NodesOK, NEW S,
           node' = [n \in DOMAIN node |-> IF n \in S THEN [node[n] EXCEPT !.owner = NoThread] ELSE node[n]]
    PROVE  /\ NodesOK' /\ OnlyOwners
           /\ \A n \in DOMAIN node : n \notin S => SameOwner(n)
           /\ \A n \in DOMAIN node : n \in S => node'[n].owner = NoThread
<1>1. /\ DOMAIN node' = DOMAIN node /\ \A n \in DOMAIN node : n \notin S => node'[n] = node[n]
      /\ \A n \in DOMAIN node : n \in S => node'[n] = [node[n] EXCEPT !.owner = NoThread]
    OBVIOUS
<1>2. ASSUME NEW n \in DOMAIN node
      PROVE  node'[n] \in NodeRecords /\ SameId(n) /\ SameFlags(n) /\ SameNext(n)
             /\ (n \in S => node'[n].owner = NoThread)
    <2>1. CASE n \notin S
        BY <1>1, <2>1, NodeFacts DEF SameId, SameFlags, SameNext
    <2>2. CASE n \in S
        <3>1. node[n] \in NodeRecords /\ node'[n] = [node[n] EXCEPT !.owner = NoThread]
            BY <1>1, <2>2, NodeFacts
        <3>2. node'[n] \in NodeRecords /\ SameId(n) /\ SameNext(n) /\ node'[n].owner = NoThread
            BY <3>1 DEF NodeRecords, SameId, SameNext
        <3>3. node'[n].marked = node[n].marked
            BY <3>1 DEF NodeRecords
        <3>4. node'[n].fully_linked = node[n].fully_linked
            BY <3>1 DEF NodeRecords
        <3> QED BY <3>2, <3>3, <3>4 DEF SameFlags
    <2> QED BY <2>1, <2>2
<1>3. node' \in [DOMAIN node' -> NodeRecords]
    <2>1. node' = [n \in DOMAIN node' |-> node'[n]]
        BY <1>1
    <2>2. \A n \in DOMAIN node' : node'[n] \in NodeRecords
        BY <1>1, <1>2
    <2> QED BY <2>1, <2>2, Zenon
<1>4. \A n \in DOMAIN node' : node'[n].next \in [0..node'[n].top_level -> Pointers]
    BY <1>1, <1>2, NodeFacts DEF SameId, SameNext
<1>5. \A n \in DOMAIN node \ {head_, tail_} : node'[n].data \in Keys
    BY <1>2 DEF NodesOK, SameId
<1>6. head_ \in DOMAIN node /\ tail_ \in DOMAIN node
    BY DEF NodesOK
<1>7. node'[head_].data = 0 /\ node'[head_].top_level = max_level
    BY <1>2, <1>6 DEF NodesOK, SameId
<1>8. \A n \in {head_, tail_} : ~node'[n].marked /\ ~node'[n].fully_linked
    BY <1>2, <1>6 DEF NodesOK, SameFlags
<1>9. DOMAIN node' \subseteq Nodes /\ {head_, tail_} \subseteq DOMAIN node'
    BY <1>1 DEF NodesOK
<1>10. NodesOK'
    BY <1>1, <1>3, <1>4, <1>5, <1>7, <1>8, <1>9 DEF NodesOK
<1> QED BY <1>1, <1>2, <1>10 DEF OnlyOwners, SameOwner

(* A node is added. *)
Adds(p, k, top) ==
    node' = [m \in DOMAIN node \cup {p} |->
                IF m = p THEN Node(k, [l \in 0..top |-> null], FALSE) ELSE node[m]]

(* What that does. *)
LEMMA AddNode ==
    ASSUME NodesOK, NEW p \in Nodes \ DOMAIN node, NEW k \in Keys, NEW top \in Levels, Adds(p, k, top)
    PROVE  /\ NodesOK' /\ DOMAIN node' = DOMAIN node \cup {p} /\ p \notin {head_, tail_}
           /\ \A n \in DOMAIN node : node'[n] = node[n]
           /\ node'[p].data = k /\ node'[p].top_level = top
           /\ ~node'[p].fully_linked /\ ~node'[p].marked /\ node'[p].owner = NoThread
<1> DEFINE f == [l \in 0..top |-> null]
<1>1. f \in [0..top -> Pointers] /\ f \in Nexts
    <2>1. f \in [0..top -> Pointers]
        BY DEF Pointers
    <2> HIDE DEF f
    <2> QED BY <2>1, TowerType
<1>2. DOMAIN f = 0..top /\ top \in Nat /\ Cardinality(0..top) - 1 = top
    BY Constants, FS_Interval
<1> DEFINE r == Node(k, f, FALSE)
<1>3. DOMAIN node' = DOMAIN node \cup {p} /\ node'[p] = r /\ \A n \in DOMAIN node : node'[n] = node[n]
    BY DEF Adds
<1> HIDE DEF f
<1>4. r = [data |-> k, top_level |-> top, next |-> f, marked |-> FALSE, fully_linked |-> FALSE, owner |-> NoThread]
    BY <1>2 DEF Node
<1> HIDE DEF r
<1>5. r \in NodeRecords /\ r.data = k /\ r.top_level = top /\ r.next = f /\ r.owner = NoThread
    BY <1>1, <1>4 DEF NodeRecords
<1>6. r.marked = FALSE /\ r.fully_linked = FALSE
    BY <1>4
<1>7. p \notin {head_, tail_}
    BY DEF NodesOK
<1>8. DOMAIN node' \subseteq Nodes /\ {head_, tail_} \subseteq DOMAIN node'
    BY <1>3 DEF NodesOK
<1>9. node' \in [DOMAIN node' -> NodeRecords]
    <2>1. node' = [n \in DOMAIN node' |-> node'[n]]
        BY DEF Adds
    <2>2. \A n \in DOMAIN node' : node'[n] \in NodeRecords
        BY <1>3, <1>5, NodeFacts
    <2> QED BY <2>1, <2>2, Zenon
<1>10. \A n \in DOMAIN node' : node'[n].next \in [0..node'[n].top_level -> Pointers]
    <2> SUFFICES ASSUME NEW n \in DOMAIN node' PROVE node'[n].next \in [0..node'[n].top_level -> Pointers]
        OBVIOUS
    <2>1. CASE n = p
        BY <1>1, <1>3, <1>5, <2>1
    <2>2. CASE n # p
        BY <1>3, <2>2, NodeFacts
    <2> QED BY <2>1, <2>2
<1>11. \A n \in DOMAIN node' \ {head_, tail_} : node'[n].data \in Keys
    BY <1>3, <1>5 DEF NodesOK
<1>12. node'[head_].data = 0 /\ node'[head_].top_level = max_level
       /\ \A n \in {head_, tail_} : ~node'[n].marked /\ ~node'[n].fully_linked
    BY <1>3, <1>7 DEF NodesOK
<1>13. NodesOK'
    BY <1>8, <1>9, <1>10, <1>11, <1>12 DEF NodesOK
<1> QED BY <1>3, <1>5, <1>6, <1>7, <1>13

(* A node is deleted. *)
LEMMA DropNode ==
    ASSUME NodesOK, NEW p \in DOMAIN node \ {head_, tail_}, node' = [n \in DOMAIN node \ {p} |-> node[n]]
    PROVE  /\ NodesOK' /\ DOMAIN node' = DOMAIN node \ {p}
           /\ \A n \in DOMAIN node' : node'[n] = node[n]
<1>1. DOMAIN node' = DOMAIN node \ {p} /\ \A n \in DOMAIN node' : node'[n] = node[n]
    OBVIOUS
<1>2. DOMAIN node' \subseteq Nodes /\ {head_, tail_} \subseteq DOMAIN node'
    BY <1>1 DEF NodesOK
<1>3. node' \in [DOMAIN node' -> NodeRecords]
    <2>1. node' = [n \in DOMAIN node' |-> node'[n]]
        BY <1>1
    <2>2. \A n \in DOMAIN node' : node'[n] \in NodeRecords
        BY <1>1, NodeFacts
    <2> QED BY <2>1, <2>2, Zenon
<1>4. \A n \in DOMAIN node' : node'[n].next \in [0..node'[n].top_level -> Pointers]
    BY <1>1, NodeFacts
<1>5. \A n \in DOMAIN node' \ {head_, tail_} : node'[n].data \in Keys
    BY <1>1 DEF NodesOK
<1>6. node'[head_].data = 0 /\ node'[head_].top_level = max_level
      /\ \A n \in {head_, tail_} : ~node'[n].marked /\ ~node'[n].fully_linked
    BY <1>1, <1>2 DEF NodesOK
<1>7. NodesOK'
    BY <1>2, <1>3, <1>4, <1>5, <1>6 DEF NodesOK
<1> QED BY <1>1, <1>7

-----------------------------------------------------------------------------
(* What the steps do to the record of their thread *)

SameCall(t) == /\ th'[t].op = th[t].op /\ th'[t].key = th[t].key
               /\ th'[t].node = th[t].node /\ th'[t].result = th[t].result
SameNotes(t) == th'[t].preds = th[t].preds /\ th'[t].succs = th[t].succs
SamePlace(t) == th'[t].level = th[t].level /\ th'[t].pred = th[t].pred

Answers(t, b) == /\ th'[t].pc = "done" /\ th'[t].op = th[t].op /\ th'[t].key = th[t].key
                 /\ th'[t].result = b /\ th'[t].node = null

(* find begins. *)
AtHead(t) == th'[t].pc = "find" /\ th'[t].level = max_level /\ th'[t].pred = head_

(* What find has found at this level is recorded. *)
Notes(t) ==
    /\ th'[t].preds = [th[t].preds EXCEPT ![th[t].level] = th[t].pred]
    /\ th'[t].succs = [th[t].succs EXCEPT ![th[t].level] = Curr(t)]

(* erase begins at the head of level l. *)
Walks(t, l) == th'[t].pc = "walk" /\ th'[t].level = l /\ th'[t].pred = head_ /\ th'[t].op = th[t].op
               /\ th'[t].key = th[t].key /\ th'[t].node = th[t].node /\ th'[t].result = "true"

(* The record of a thread outside of a call. *)
LEMMA IdleRecord == Idle \in ThreadRecords
<1>1. NoNodes \in [Levels -> Pointers] /\ null \in Pointers
    BY DEF NoNodes, Pointers
<1> QED BY <1>1, Constants DEF Idle, ThreadRecords, Labels, Ops

(* Answer. *)
LEMMA AnswerTurn ==
    ASSUME ThreadsOK, NEW t \in Threads, NEW b \in {"true", "false"}, Answer(t, b)
    PROVE  ThreadsOK' /\ Answers(t, b) /\ \A u \in Threads : u # t => th'[u] = th[u]
<1> DEFINE r == [Idle EXCEPT !.pc = "done", !.op = th[t].op, !.key = th[t].key, !.result = b]
<1>1. Becomes(t, r)
    BY DEF Answer
<1>2. r \in ThreadRecords
    BY IdleRecord, ThreadFacts DEF ThreadRecords, Labels
<1>3. r.pc = "done" /\ r.op = th[t].op /\ r.key = th[t].key /\ r.result = b /\ r.node = null
    BY DEF Idle
<1> HIDE DEF r
<1>4. ThreadsOK' /\ th'[t] = r /\ \A u \in Threads : u # t => th'[u] = th[u]
    BY <1>1, <1>2, ThreadsOKStep, ThreadStep
<1> QED BY <1>3, <1>4 DEF Answers

(* A search from the head, of a thread with the record r. *)
LEMMA StartFindTurn ==
    ASSUME ThreadsOK, NEW t \in Threads, NEW r \in ThreadRecords, Becomes(t, StartFind(r))
    PROVE  /\ ThreadsOK' /\ AtHead(t) /\ \A u \in Threads : u # t => th'[u] = th[u]
           /\ th'[t].op = r.op /\ th'[t].key = r.key /\ th'[t].node = r.node /\ th'[t].result = r.result
<1> DEFINE q == StartFind(r)
<1>1. NoNodes \in [Levels -> Pointers] /\ head_ \in Pointers
    BY Constants DEF NoNodes, Pointers
<1>2. q \in ThreadRecords
    BY <1>1, Constants DEF StartFind, ThreadRecords, Labels
<1>3. q.pc = "find" /\ q.level = max_level /\ q.pred = head_
      /\ q.op = r.op /\ q.key = r.key /\ q.node = r.node /\ q.result = r.result
    BY DEF StartFind, ThreadRecords
<1> HIDE DEF q
<1>4. ThreadsOK' /\ th'[t] = q /\ \A u \in Threads : u # t => th'[u] = th[u]
    BY <1>2, ThreadsOKStep, ThreadStep DEF q
<1> QED BY <1>3, <1>4 DEF AtHead

(* A walk from the head of a level. *)
LEMMA StartWalkTurn ==
    ASSUME ThreadsOK, NEW t \in Threads, NEW r \in ThreadRecords, NEW l \in Levels, Becomes(t, StartWalk(r, l)),
           r.result = "true", r.op = th[t].op, r.key = th[t].key, r.node = th[t].node
    PROVE  ThreadsOK' /\ Walks(t, l) /\ \A u \in Threads : u # t => th'[u] = th[u]
<1> DEFINE q == StartWalk(r, l)
<1>1. head_ \in Pointers
    BY Constants DEF Pointers
<1>2. q \in ThreadRecords
    BY <1>1 DEF StartWalk, ThreadRecords, Labels
<1>3. q.pc = "walk" /\ q.level = l /\ q.pred = head_
      /\ q.op = r.op /\ q.key = r.key /\ q.node = r.node /\ q.result = r.result
    BY DEF StartWalk, ThreadRecords
<1> HIDE DEF q
<1>4. ThreadsOK' /\ th'[t] = q /\ \A u \in Threads : u # t => th'[u] = th[u]
    BY <1>2, ThreadsOKStep, ThreadStep DEF q
<1> QED BY <1>3, <1>4 DEF Walks

(* The calls. *)
LEMMA CallTurn ==
    ASSUME NodesOK, ThreadsOK, NEW t \in Threads, NEW op \in {"insert", "erase", "contains"}, NEW k \in Keys,
           Call(t, op, k)
    PROVE  /\ ThreadsOK' /\ NodesOK' /\ AtHead(t) /\ \A u \in Threads : u # t => th'[u] = th[u]
           /\ th[t].pc = "idle" /\ th'[t].op = op /\ th'[t].key = k /\ th'[t].result = "none"
           /\ retired' = retired
           /\ op # "insert" => th'[t].node = null /\ node' = node
           /\ op = "insert" =>
                 /\ th'[t].node \in Nodes \ DOMAIN node /\ DOMAIN node' = DOMAIN node \cup {th'[t].node}
                 /\ th'[t].node \notin {head_, tail_} /\ \A n \in DOMAIN node : node'[n] = node[n]
                 /\ node'[th'[t].node].data = k /\ ~node'[th'[t].node].fully_linked
                 /\ ~node'[th'[t].node].marked /\ node'[th'[t].node].owner = NoThread
<1> DEFINE i == [Idle EXCEPT !.op = op, !.key = k]
           r == StartFind(i)
<1>0. th[t].pc = "idle" /\ retired' = retired
    BY DEF Call, At
<1>1. i \in ThreadRecords /\ i.op = op /\ i.key = k /\ i.node = null /\ i.result = "none"
    <2>1. i \in ThreadRecords
        BY IdleRecord DEF ThreadRecords, Ops
    <2> QED BY <2>1 DEF Idle
<1>2. CASE op # "insert"
    <2>1. Becomes(t, StartFind(i)) /\ node' = node
        BY <1>2 DEF Call
    <2> HIDE DEF i
    <2>2. /\ ThreadsOK' /\ AtHead(t) /\ \A u \in Threads : u # t => th'[u] = th[u]
          /\ th'[t].op = op /\ th'[t].key = k /\ th'[t].node = null /\ th'[t].result = "none"
        BY <1>1, <2>1, StartFindTurn
    <2>3. NodesOK'
        BY <2>1 DEF NodesOK
    <2> QED BY <1>0, <1>2, <2>1, <2>2, <2>3
<1>3. CASE op = "insert"
    <2> DEFINE Free == Nodes \ DOMAIN node
               p == CHOOSE n \in Free : \A m \in Free : n <= m
               q == [i EXCEPT !.node = p]
    <2>1. /\ Free # {} /\ Becomes(t, [StartFind(i) EXCEPT !.node = p])
          /\ \E top \in Levels : Adds(p, k, top)
        BY <1>3 DEF Call, Adds
    <2>2. p \in Free
        <3>1. Free \subseteq Nat
            BY Constants
        <3> HIDE DEF Free
        <3>2. \E n \in Free : \A m \in Free : n <= m
            BY <2>1, <3>1, Least
        <3> QED BY <3>2
    <2>3. p \in Nodes \ DOMAIN node /\ p \in Pointers
        BY <2>2 DEF Pointers
    <2> HIDE DEF p, Free
    <2>4. q \in ThreadRecords /\ q.op = op /\ q.key = k /\ q.node = p /\ q.result = "none"
        <3> HIDE DEF i
        <3> QED BY <1>1, <2>3 DEF ThreadRecords
    <2>5. [StartFind(i) EXCEPT !.node = p] = StartFind(q)
        <3> HIDE DEF i
        <3> QED BY <1>1 DEF StartFind, ThreadRecords
    <2> HIDE DEF q, i
    <2>6. /\ ThreadsOK' /\ AtHead(t) /\ \A u \in Threads : u # t => th'[u] = th[u]
          /\ th'[t].op = op /\ th'[t].key = k /\ th'[t].node = p /\ th'[t].result = "none"
        BY <2>1, <2>4, <2>5, StartFindTurn
    <2>7. PICK top \in Levels : Adds(p, k, top)
        BY <2>1
    <2>8. /\ NodesOK' /\ DOMAIN node' = DOMAIN node \cup {p} /\ p \notin {head_, tail_}
          /\ \A n \in DOMAIN node : node'[n] = node[n]
          /\ node'[p].data = k /\ node'[p].top_level = top
          /\ ~node'[p].fully_linked /\ ~node'[p].marked /\ node'[p].owner = NoThread
        BY <2>3, <2>7, AddNode
    <2> QED BY <1>0, <1>3, <2>3, <2>6, <2>8
<1> QED BY <1>2, <1>3

(* empty() and the return from a call. *)
LEMMA OtherTurns ==
    ASSUME NodesOK, ThreadsOK, NEW t \in Threads, Empty(t) \/ Return(t)
    PROVE  /\ ThreadsOK' /\ node' = node /\ NodesOK' /\ retired' = retired /\ \A u \in Threads : u # t => th'[u] = th[u]
           /\ th[t].pc \in {"idle", "done"}
           /\ \/ /\ th'[t].pc = "done" /\ th'[t].node = null /\ th'[t].op = "empty" /\ th'[t].result # "none"
              \/ th'[t] = Idle
<1>1. CASE Empty(t)
    <2> DEFINE b == IF node[head_].next[0] = tail_ THEN "true" ELSE "false"
               r == [Idle EXCEPT !.pc = "done", !.op = "empty", !.result = b]
    <2>1. th[t].pc = "idle" /\ Becomes(t, r) /\ node' = node /\ retired' = retired
        BY <1>1 DEF Empty, At
    <2>2. b \in {"true", "false"}
        OBVIOUS
    <2> HIDE DEF b
    <2>3. r \in ThreadRecords
        BY <2>2, IdleRecord DEF ThreadRecords, Labels, Ops
    <2>4. r.pc = "done" /\ r.node = null /\ r.op = "empty" /\ r.result # "none"
        BY <2>2 DEF Idle
    <2> HIDE DEF r
    <2>5. ThreadsOK' /\ th'[t] = r /\ \A u \in Threads : u # t => th'[u] = th[u]
        BY <2>1, <2>3, ThreadsOKStep, ThreadStep
    <2>6. NodesOK'
        BY <2>1 DEF NodesOK
    <2> QED BY <2>1, <2>4, <2>5, <2>6
<1>2. CASE Return(t)
    <2>1. th[t].pc = "done" /\ Becomes(t, Idle) /\ node' = node /\ retired' = retired
        BY <1>2 DEF Return, At
    <2>2. ThreadsOK' /\ th'[t] = Idle /\ \A u \in Threads : u # t => th'[u] = th[u]
        BY <2>1, IdleRecord, ThreadsOKStep, ThreadStep
    <2>3. NodesOK'
        BY <2>1 DEF NodesOK
    <2> QED BY <2>1, <2>2, <2>3
<1> QED BY <1>1, <1>2

(* The node behind the one a thread stands on. *)
LEMMA CurrFacts ==
    ASSUME NodesOK, ThreadsOK, Forward, NEW t \in Threads, Entered(th[t].pred, th[t].level)
    PROVE  /\ Curr(t) \in DOMAIN node /\ Curr(t) \in Nodes /\ Curr(t) \in Pointers
           /\ Curr(t) # tail_ => /\ Entered(Curr(t), th[t].level)
                                 /\ node[th[t].pred].data < node[Curr(t)].data
<1>1. th[t].level \in Levels
    BY ThreadFacts
<1>2. /\ Curr(t) \in DOMAIN node
      /\ Curr(t) # tail_ => Entered(Curr(t), th[t].level) /\ node[th[t].pred].data < node[Curr(t)].data
    BY <1>1, ForwardFacts DEF Curr
<1> QED BY <1>2, NodeFacts

(* find goes on. *)
LEMMA FindTurn ==
    ASSUME NodesOK, ThreadsOK, Forward, NEW t \in Threads, Searches(t), FindAdvances(t) \/ FindDescends(t)
    PROVE  /\ ThreadsOK' /\ node' = node /\ NodesOK' /\ retired' = retired
           /\ th[t].pc = "find" /\ th'[t].pc = "find" /\ SameCall(t) /\ \A u \in Threads : u # t => th'[u] = th[u]
           /\ \/ /\ Before(Curr(t), th[t].key) /\ th'[t].pred = Curr(t) /\ th'[t].level = th[t].level
                 /\ SameNotes(t)
              \/ /\ ~Before(Curr(t), th[t].key) /\ th[t].level > 0 /\ th'[t].level = th[t].level - 1
                 /\ th'[t].pred = th[t].pred /\ Notes(t)
<1>1. th[t].pc = "find" /\ node' = node /\ retired' = retired
    BY DEF FindAdvances, FindDescends, At
<1>2. Entered(th[t].pred, th[t].level)
    BY <1>1 DEF Searches
<1>3. Curr(t) \in Pointers
    BY <1>2, CurrFacts
<1>4. NodesOK'
    BY <1>1 DEF NodesOK
<1>5. th[t] \in ThreadRecords
    BY ThreadFacts
<1>6. CASE FindAdvances(t)
    <2> DEFINE r == [th[t] EXCEPT !.pred = Curr(t)]
    <2>1. Before(Curr(t), th[t].key) /\ Becomes(t, r)
        BY <1>6 DEF FindAdvances
    <2>2. r \in ThreadRecords /\ r.pc = th[t].pc /\ r.op = th[t].op /\ r.key = th[t].key /\ r.node = th[t].node
          /\ r.result = th[t].result /\ r.preds = th[t].preds /\ r.succs = th[t].succs
          /\ r.level = th[t].level /\ r.pred = Curr(t)
        BY <1>3, <1>5 DEF ThreadRecords
    <2> HIDE DEF r
    <2>3. ThreadsOK' /\ th'[t] = r /\ \A u \in Threads : u # t => th'[u] = th[u]
        BY <2>1, <2>2, ThreadsOKStep, ThreadStep
    <2> QED BY <1>1, <1>4, <2>1, <2>2, <2>3 DEF SameCall, SameNotes
<1>7. CASE FindDescends(t)
    <2> DEFINE f == [th[t].preds EXCEPT ![th[t].level] = th[t].pred]
               g == [th[t].succs EXCEPT ![th[t].level] = Curr(t)]
               r == [th[t] EXCEPT !.preds = f, !.succs = g, !.level = th[t].level - 1]
    <2>1. ~Before(Curr(t), th[t].key) /\ th[t].level > 0 /\ Becomes(t, [Recorded(t) EXCEPT !.level = @ - 1])
        BY <1>7 DEF FindDescends
    <2>2. f \in [Levels -> Pointers] /\ g \in [Levels -> Pointers]
        BY <1>3, ThreadFacts
    <2>3. th[t].level - 1 \in Levels
        BY <2>1, ThreadFacts, Constants DEF Levels
    <2>4. [Recorded(t) EXCEPT !.level = @ - 1] = r
        BY <1>5 DEF Recorded, ThreadRecords
    <2> HIDE DEF f, g
    <2>5. r \in ThreadRecords /\ r.pc = th[t].pc /\ r.op = th[t].op /\ r.key = th[t].key /\ r.node = th[t].node
          /\ r.result = th[t].result /\ r.preds = f /\ r.succs = g
          /\ r.level = th[t].level - 1 /\ r.pred = th[t].pred
        BY <1>5, <2>2, <2>3 DEF ThreadRecords
    <2> HIDE DEF r
    <2>6. ThreadsOK' /\ th'[t] = r /\ \A u \in Threads : u # t => th'[u] = th[u]
        BY <2>1, <2>4, <2>5, ThreadsOKStep, ThreadStep
    <2>7. Notes(t)
        BY <2>5, <2>6 DEF f, g, Notes
    <2> QED BY <1>1, <1>4, <2>1, <2>5, <2>6, <2>7 DEF SameCall
<1> QED BY <1>6, <1>7

(* find has come to the end; an insert fills in its node. *)
FindsFree(t) ==
    /\ th[t].op = "insert" /\ th'[t].pc = "lock" /\ SameCall(t) /\ SamePlace(t) /\ Notes(t)
    /\ Curr(t) = tail_ \/ th[t].key < node[Curr(t)].data
    /\ DOMAIN node' = DOMAIN node
    /\ \A n \in DOMAIN node : SameId(n) /\ SameFlags(n) /\ SameOwner(n)
    /\ \A n \in DOMAIN node : n # th[t].node => SameNext(n)
    /\ \A j \in 0..node[th[t].node].top_level : node'[th[t].node].next[j] = th'[t].succs[j]
FindsEqual(t) ==
    /\ th[t].op = "insert" /\ th'[t].pc = "found" /\ SameCall(t) /\ SamePlace(t) /\ Notes(t)
    /\ Curr(t) # tail_ /\ node[Curr(t)].data = th[t].key /\ node' = node
FindsIt(t) ==
    /\ th[t].op # "insert" /\ th'[t].pc = "check" /\ th'[t].op = th[t].op /\ th'[t].key = th[t].key
    /\ th'[t].result = th[t].result /\ th'[t].node = Curr(t)
    /\ Curr(t) # tail_ /\ node[Curr(t)].data = th[t].key /\ node' = node
FindsNothing(t) ==
    /\ th[t].op # "insert" /\ Answers(t, "false") /\ node' = node
    /\ Curr(t) = tail_ \/ th[t].key < node[Curr(t)].data

(* The end of find is one of these. *)
LEMMA FindEndsTurn ==
    ASSUME NodesOK, ThreadsOK, Forward, NEW t \in Threads, Searches(t), FindEnds(t),
           th[t].op = "insert" => th[t].node \in DOMAIN node
    PROVE  /\ ThreadsOK' /\ NodesOK' /\ retired' = retired /\ \A u \in Threads : u # t => th'[u] = th[u]
           /\ th[t].pc = "find" /\ th[t].level = 0 /\ ~Before(Curr(t), th[t].key)
           /\ FindsFree(t) \/ FindsEqual(t) \/ FindsIt(t) \/ FindsNothing(t)
<1> DEFINE f == [th[t].preds EXCEPT ![th[t].level] = th[t].pred]
           g == [th[t].succs EXCEPT ![th[t].level] = Curr(t)]
           r == [th[t] EXCEPT !.preds = f, !.succs = g]
           found == Curr(t) # tail_ /\ node[Curr(t)].data = r.key
<1>1. th[t].pc = "find" /\ th[t].level = 0 /\ ~Before(Curr(t), th[t].key) /\ retired' = retired
    BY DEF FindEnds, At
<1>2. Entered(th[t].pred, th[t].level)
    BY <1>1 DEF Searches
<1>3. Curr(t) \in Pointers /\ Curr(t) \in DOMAIN node
    BY <1>2, CurrFacts
<1>4. th[t] \in ThreadRecords /\ th[t].key \in Nat /\ node[Curr(t)].data \in Nat
    BY <1>3, ThreadFacts, NodeFacts
<1>5. f \in [Levels -> Pointers] /\ g \in [Levels -> Pointers]
    BY <1>3, ThreadFacts
<1>6. Recorded(t) = r
    BY <1>4 DEF Recorded, ThreadRecords
<1>7. \/ /\ r.op = "insert" /\ ~found
         /\ node' = [node EXCEPT ![r.node].next = [l \in DOMAIN @ |-> r.succs[l]]]
         /\ Becomes(t, [r EXCEPT !.pc = "lock"])
      \/ /\ r.op = "insert" /\ found
         /\ Becomes(t, [r EXCEPT !.pc = "found"])
         /\ node' = node
      \/ /\ r.op # "insert" /\ found
         /\ Becomes(t, [r EXCEPT !.pc = "check", !.node = Curr(t), !.preds = NoNodes, !.succs = NoNodes])
         /\ node' = node
      \/ /\ r.op # "insert" /\ ~found
         /\ Answer(t, "false")
         /\ node' = node
    BY <1>6 DEF FindEnds
<1> HIDE DEF f, g
<1>8. r \in ThreadRecords /\ r.pc = th[t].pc /\ r.op = th[t].op /\ r.key = th[t].key /\ r.node = th[t].node
      /\ r.result = th[t].result /\ r.preds = f /\ r.succs = g
      /\ r.level = th[t].level /\ r.pred = th[t].pred
    BY <1>4, <1>5 DEF ThreadRecords
<1>9. ~found => Curr(t) = tail_ \/ th[t].key < node[Curr(t)].data
    <2>1. Curr(t) # tail_ => ~(node[Curr(t)].data < th[t].key)
        BY <1>1 DEF Before
    <2> QED BY <1>4, <1>8, <2>1
<1>10. found => Curr(t) # tail_ /\ node[Curr(t)].data = th[t].key
    BY <1>8
<1> HIDE DEF r, found
<1>11. node' = node => NodesOK'
    BY DEF NodesOK
<1>12. CASE r.op = "insert" /\ ~found
    <2> DEFINE q == [r EXCEPT !.pc = "lock"]
    <2>1. /\ node' = [node EXCEPT ![th[t].node].next = [l \in DOMAIN @ |-> g[l]]]
          /\ Becomes(t, q)
        BY <1>7, <1>8, <1>12
    <2>2. q \in ThreadRecords /\ q.pc = "lock" /\ q.op = r.op /\ q.key = r.key /\ q.node = r.node
          /\ q.result = r.result /\ q.preds = f /\ q.succs = g /\ q.level = r.level /\ q.pred = r.pred
        BY <1>8 DEF ThreadRecords, Labels
    <2> HIDE DEF q
    <2>3. ThreadsOK' /\ th'[t] = q /\ \A u \in Threads : u # t => th'[u] = th[u]
        BY <2>1, <2>2, ThreadsOKStep, ThreadStep
    <2>4. th[t].node \in DOMAIN node
        BY <1>8, <1>12
    <2>5. /\ NodesOK' /\ DOMAIN node' = DOMAIN node
          /\ \A n \in DOMAIN node : SameId(n) /\ SameFlags(n) /\ SameOwner(n)
          /\ \A n \in DOMAIN node : n # th[t].node => SameNext(n)
          /\ \A j \in 0..node[th[t].node].top_level : node'[th[t].node].next[j] = g[j]
        BY <1>5, <2>1, <2>4, SetTower
    <2>6. SameCall(t) /\ SamePlace(t) /\ th'[t].pc = "lock" /\ th[t].op = "insert" /\ th'[t].succs = g
        BY <1>8, <1>12, <2>2, <2>3 DEF SameCall, SamePlace
    <2>7. Notes(t)
        BY <2>2, <2>3 DEF f, g, Notes
    <2>8. FindsFree(t)
        BY <1>9, <1>12, <2>5, <2>6, <2>7 DEF FindsFree
    <2> QED BY <1>1, <2>3, <2>5, <2>8
<1>13. CASE r.op = "insert" /\ found
    <2> DEFINE q == [r EXCEPT !.pc = "found"]
    <2>1. node' = node /\ Becomes(t, q)
        BY <1>7, <1>13
    <2>2. q \in ThreadRecords /\ q.pc = "found" /\ q.op = r.op /\ q.key = r.key /\ q.node = r.node
          /\ q.result = r.result /\ q.preds = f /\ q.succs = g /\ q.level = r.level /\ q.pred = r.pred
        BY <1>8 DEF ThreadRecords, Labels
    <2> HIDE DEF q
    <2>3. ThreadsOK' /\ th'[t] = q /\ \A u \in Threads : u # t => th'[u] = th[u]
        BY <2>1, <2>2, ThreadsOKStep, ThreadStep
    <2>6. SameCall(t) /\ SamePlace(t) /\ th'[t].pc = "found" /\ th[t].op = "insert"
        BY <1>8, <1>13, <2>2, <2>3 DEF SameCall, SamePlace
    <2>7. Notes(t)
        BY <2>2, <2>3 DEF f, g, Notes
    <2>8. FindsEqual(t)
        BY <1>10, <1>13, <2>1, <2>6, <2>7 DEF FindsEqual
    <2> QED BY <1>1, <1>11, <2>1, <2>3, <2>8
<1>14. CASE r.op # "insert" /\ found
    <2> DEFINE q == [r EXCEPT !.pc = "check", !.node = Curr(t), !.preds = NoNodes, !.succs = NoNodes]
    <2>1. node' = node /\ Becomes(t, q)
        BY <1>7, <1>14
    <2>2. q \in ThreadRecords /\ q.pc = "check" /\ q.op = r.op /\ q.key = r.key /\ q.node = Curr(t)
          /\ q.result = r.result
        <3>1. NoNodes \in [Levels -> Pointers]
            BY DEF NoNodes, Pointers
        <3> QED BY <1>3, <1>8, <3>1 DEF ThreadRecords, Labels
    <2> HIDE DEF q
    <2>3. ThreadsOK' /\ th'[t] = q /\ \A u \in Threads : u # t => th'[u] = th[u]
        BY <2>1, <2>2, ThreadsOKStep, ThreadStep
    <2>4. FindsIt(t)
        BY <1>8, <1>10, <1>14, <2>1, <2>2, <2>3 DEF FindsIt
    <2> QED BY <1>1, <1>11, <2>1, <2>3, <2>4
<1>15. CASE r.op # "insert" /\ ~found
    <2>1. node' = node /\ Answer(t, "false")
        BY <1>7, <1>15
    <2>2. ThreadsOK' /\ Answers(t, "false") /\ \A u \in Threads : u # t => th'[u] = th[u]
        BY <2>1, AnswerTurn
    <2>3. FindsNothing(t)
        BY <1>8, <1>9, <1>15, <2>1, <2>2 DEF FindsNothing
    <2> QED BY <1>1, <1>11, <2>1, <2>2, <2>3
<1> QED BY <1>12, <1>13, <1>14, <1>15

(* What find has recorded. *)
LEMMA NotedFacts ==
    ASSUME NodesOK, ThreadsOK, NEW t \in Threads, Found(t), th[t].pc \in Inserting, NEW j \in Levels
    PROVE  /\ Entered(th[t].preds[j], j) /\ th[t].preds[j] \in DOMAIN node
           /\ j \in 0..node[th[t].preds[j]].top_level
           /\ node[th[t].preds[j]].data < th[t].key /\ node[th[t].preds[j]].data \in Nat
           /\ th[t].succs[j] \in DOMAIN node /\ node[th[t].succs[j]].data \in Nat
           /\ th[t].succs[j] # tail_ => Entered(th[t].succs[j], j) /\ th[t].key <= node[th[t].succs[j]].data
<1>1. Noted(t, j)
    BY DEF Found
<1>2. /\ Entered(th[t].preds[j], j) /\ node[th[t].preds[j]].data < th[t].key
      /\ th[t].succs[j] # tail_ => Entered(th[t].succs[j], j) /\ th[t].key <= node[th[t].succs[j]].data
    BY <1>1 DEF Noted
<1>3. /\ th[t].preds[j] \in DOMAIN node /\ j \in 0..node[th[t].preds[j]].top_level
      /\ node[th[t].preds[j]].data \in Nat
    BY <1>2, EnteredFacts
<1>4. th[t].succs[j] \in DOMAIN node
    <2>1. CASE th[t].succs[j] = tail_
        BY <2>1 DEF NodesOK
    <2>2. CASE th[t].succs[j] # tail_
        BY <1>2, <2>2, EnteredFacts
    <2> QED BY <2>1, <2>2
<1> QED BY <1>2, <1>3, <1>4, NodeFacts

(* The node of an insert. *)
LEMMA OwnNode ==
    ASSUME NodesOK, ThreadsOK, Hands, NEW t \in Threads, th[t].op = "insert", th[t].result = "none"
    PROVE  th[t].node \in DOMAIN node \ {head_, tail_} /\ ~node[th[t].node].fully_linked
           /\ node[th[t].node].top_level \in Levels /\ node[th[t].node].top_level \in Nat /\ th[t].node \in Nodes
<1>1. th[t].node \in Pointers /\ Inserts(t, th[t].node)
    BY ThreadFacts DEF Inserts
<1>2. th[t].node \in DOMAIN node \ {head_, tail_} /\ ~node[th[t].node].fully_linked
    BY <1>1 DEF Hands
<1> QED BY <1>2, NodeFacts

(* insert has met an equal node. *)
LEMMA InsertFoundTurn ==
    ASSUME ListInv, NEW t \in Threads, InsertFound(t)
    PROVE  /\ ThreadsOK' /\ NodesOK' /\ node' = node /\ retired' = retired /\ \A u \in Threads : u # t => th'[u] = th[u]
           /\ th[t].pc = "found" /\ SameCall(t)
           /\ \/ node[th[t].succs[0]].marked /\ AtHead(t)
              \/ ~node[th[t].succs[0]].marked /\ th'[t].pc = "await" /\ SameNotes(t)
<1>0. NodesOK /\ ThreadsOK
    BY DEF ListInv
<1>1. th[t].pc = "found" /\ node' = node /\ retired' = retired
    BY DEF InsertFound, At
<1>2. NodesOK'
    BY <1>0, <1>1 DEF NodesOK
<1>3. th[t] \in ThreadRecords
    BY <1>0, ThreadFacts
<1>4. CASE node[th[t].succs[0]].marked
    <2>1. Becomes(t, StartFind(th[t]))
        BY <1>4 DEF InsertFound
    <2>2. /\ ThreadsOK' /\ AtHead(t) /\ \A u \in Threads : u # t => th'[u] = th[u]
          /\ th'[t].op = th[t].op /\ th'[t].key = th[t].key /\ th'[t].node = th[t].node /\ th'[t].result = th[t].result
        BY <1>0, <1>3, <2>1, StartFindTurn
    <2> QED BY <1>1, <1>2, <1>4, <2>2 DEF SameCall
<1>5. CASE ~node[th[t].succs[0]].marked
    <2> DEFINE q == [th[t] EXCEPT !.pc = "await"]
    <2>1. Becomes(t, q)
        BY <1>5 DEF InsertFound
    <2>2. q \in ThreadRecords /\ q.pc = "await" /\ q.op = th[t].op /\ q.key = th[t].key /\ q.node = th[t].node
          /\ q.result = th[t].result /\ q.preds = th[t].preds /\ q.succs = th[t].succs
        BY <1>3 DEF ThreadRecords, Labels
    <2> HIDE DEF q
    <2>3. ThreadsOK' /\ th'[t] = q /\ \A u \in Threads : u # t => th'[u] = th[u]
        BY <1>0, <2>1, <2>2, ThreadsOKStep, ThreadStep
    <2> QED BY <1>1, <1>2, <1>5, <2>2, <2>3 DEF SameCall, SameNotes
<1> QED BY <1>4, <1>5

(* insert gives up. *)
LEMMA InsertFailsTurn ==
    ASSUME ListInv, NEW t \in Threads, InsertFails(t)
    PROVE  /\ ThreadsOK' /\ NodesOK' /\ retired' = retired /\ \A u \in Threads : u # t => th'[u] = th[u]
           /\ th[t].pc = "await" /\ Answers(t, "false") /\ node[th[t].succs[0]].fully_linked
           /\ Inserts(t, th[t].node) /\ DOMAIN node' = DOMAIN node \ {th[t].node}
           /\ \A n \in DOMAIN node' : node'[n] = node[n]
<1>0. NodesOK /\ ThreadsOK /\ Hands /\ Control(t)
    BY DEF ListInv, Place
<1>1. /\ th[t].pc = "await" /\ retired' = retired /\ node[th[t].succs[0]].fully_linked
      /\ node' = [n \in DOMAIN node \ {th[t].node} |-> node[n]] /\ Answer(t, "false")
    BY DEF InsertFails, At
<1>2. th[t].op = "insert" /\ th[t].result = "none"
    BY <1>0, <1>1 DEF Control, Inserting
<1>3. th[t].node \in DOMAIN node \ {head_, tail_}
    BY <1>0, <1>2, OwnNode
<1>4. NodesOK' /\ DOMAIN node' = DOMAIN node \ {th[t].node} /\ \A n \in DOMAIN node' : node'[n] = node[n]
    BY <1>0, <1>1, <1>3, DropNode
<1>5. ThreadsOK' /\ Answers(t, "false") /\ \A u \in Threads : u # t => th'[u] = th[u]
    BY <1>0, <1>1, AnswerTurn
<1> QED BY <1>1, <1>2, <1>4, <1>5 DEF Inserts

(* insert locks the predecessor at a level. *)
LEMMA LockPredTurn ==
    ASSUME ListInv, NEW t \in Threads, LockPred(t)
    PROVE  /\ ThreadsOK' /\ NodesOK' /\ retired' = retired /\ \A u \in Threads : u # t => th'[u] = th[u]
           /\ th[t].pc = "lock" /\ SameCall(t) /\ SameNotes(t) /\ OnlyOwners
           /\ \A n \in DOMAIN node : n # th[t].preds[th[t].level] => SameOwner(n)
           /\ \/ SamePred(th[t], th[t].level) /\ node' = node
              \/ /\ ~SamePred(th[t], th[t].level) /\ node[th[t].preds[th[t].level]].owner = NoThread
                 /\ node'[th[t].preds[th[t].level]].owner = t
           /\ \/ ~Valid(th[t], th[t].level) /\ th'[t].pc = "unlock" /\ th'[t].level = th[t].level
              \/ /\ Valid(th[t], th[t].level) /\ th[t].level < node[th[t].node].top_level
                 /\ th'[t].pc = "lock" /\ th'[t].level = th[t].level + 1
              \/ /\ Valid(th[t], th[t].level) /\ th[t].level = node[th[t].node].top_level
                 /\ th'[t].pc = "link" /\ th'[t].level = 0
<1>0. NodesOK /\ ThreadsOK /\ Hands /\ Control(t) /\ Found(t) /\ Made(t)
    BY DEF ListInv, Place
<1> DEFINE r == th[t]
           p == th[t].preds[th[t].level]
           q == IF ~Valid(r, r.level) THEN [r EXCEPT !.pc = "unlock"]
                ELSE IF r.level < node[r.node].top_level THEN [r EXCEPT !.level = @ + 1]
                ELSE [r EXCEPT !.pc = "link", !.level = 0]
<1>1. /\ r.pc = "lock" /\ retired' = retired /\ Becomes(t, q)
      /\ \/ SamePred(r, r.level) /\ node' = node
         \/ ~SamePred(r, r.level) /\ node[p].owner = NoThread /\ node' = [node EXCEPT ![p].owner = t]
    BY DEF LockPred, At
<1>2. r \in ThreadRecords /\ r.level \in Levels /\ r.level \in Nat
    BY <1>0, ThreadFacts
<1>3. r.op = "insert" /\ r.result = "none" /\ r.pc \in Inserting
    BY <1>0, <1>1 DEF Control, Inserting
<1>4. node[r.node].top_level \in Levels /\ node[r.node].top_level \in Nat
    BY <1>0, <1>3, OwnNode
<1>5. r.level <= node[r.node].top_level
    BY <1>0, <1>1 DEF Made
<1>6. p \in DOMAIN node
    BY <1>0, <1>2, <1>3, NotedFacts
<1>7. r.level < node[r.node].top_level => r.level + 1 \in Levels
    BY <1>2, <1>4, Constants DEF Levels
<1> HIDE DEF r, p
<1>8. /\ q \in ThreadRecords /\ q.op = r.op /\ q.key = r.key /\ q.node = r.node /\ q.result = r.result
      /\ q.preds = r.preds /\ q.succs = r.succs
      /\ \/ ~Valid(r, r.level) /\ q.pc = "unlock" /\ q.level = r.level
         \/ Valid(r, r.level) /\ r.level < node[r.node].top_level /\ q.pc = "lock" /\ q.level = r.level + 1
         \/ Valid(r, r.level) /\ r.level = node[r.node].top_level /\ q.pc = "link" /\ q.level = 0
    <2>1. CASE ~Valid(r, r.level)
        BY <1>2, <2>1 DEF ThreadRecords, Labels
    <2>2. CASE Valid(r, r.level) /\ r.level < node[r.node].top_level
        BY <1>1, <1>2, <1>7, <2>2 DEF ThreadRecords, Labels
    <2>3. CASE Valid(r, r.level) /\ ~(r.level < node[r.node].top_level)
        <3>1. r.level = node[r.node].top_level
            BY <1>2, <1>4, <1>5, <2>3
        <3>2. q = [r EXCEPT !.pc = "link", !.level = 0]
            BY <2>3
        <3> QED BY <1>2, <2>3, <3>1, <3>2, Constants DEF ThreadRecords, Labels
    <2> QED BY <2>1, <2>2, <2>3
<1> HIDE DEF q
<1>9. ThreadsOK' /\ th'[t] = q /\ \A u \in Threads : u # t => th'[u] = th[u]
    BY <1>0, <1>1, <1>8, ThreadsOKStep, ThreadStep
<1>10. /\ NodesOK' /\ OnlyOwners /\ \A n \in DOMAIN node : n # p => SameOwner(n)
       /\ ~SamePred(r, r.level) => node'[p].owner = t
    <2>1. CASE SamePred(r, r.level)
        <3>1. node' = node
            BY <1>1, <2>1
        <3>2. NodesOK'
            BY <1>0, <3>1 DEF NodesOK
        <3> QED BY <2>1, <3>1, <3>2 DEF OnlyOwners, SameId, SameFlags, SameNext, SameOwner
    <2>2. CASE ~SamePred(r, r.level)
        <3>1. node' = [node EXCEPT ![p].owner = t]
            BY <1>1, <2>2
        <3> QED BY <1>0, <1>6, <3>1, SetOwner
    <2> QED BY <2>1, <2>2
<1>11. SameCall(t) /\ SameNotes(t)
    BY <1>8, <1>9 DEF SameCall, SameNotes, r
<1> QED BY <1>1, <1>8, <1>9, <1>10, <1>11 DEF r, p

(* A thread's record with one more field set. *)
LEMMA SetPc ==
    ASSUME ThreadsOK, NEW t \in Threads, NEW label \in Labels, NEW b \in {"none", "true", "false"},
           Becomes(t, [th[t] EXCEPT !.pc = label, !.result = b])
    PROVE  /\ ThreadsOK' /\ \A u \in Threads : u # t => th'[u] = th[u]
           /\ th'[t].pc = label /\ th'[t].op = th[t].op /\ th'[t].key = th[t].key /\ th'[t].node = th[t].node
           /\ th'[t].result = b /\ SameNotes(t) /\ SamePlace(t)
<1> DEFINE q == [th[t] EXCEPT !.pc = label, !.result = b]
<1>1. th[t] \in ThreadRecords
    BY ThreadFacts
<1>2. q \in ThreadRecords /\ q.pc = label /\ q.op = th[t].op /\ q.key = th[t].key /\ q.node = th[t].node
      /\ q.result = b /\ q.preds = th[t].preds /\ q.succs = th[t].succs
      /\ q.level = th[t].level /\ q.pred = th[t].pred
    BY <1>1 DEF ThreadRecords
<1> HIDE DEF q
<1>3. ThreadsOK' /\ th'[t] = q /\ \A u \in Threads : u # t => th'[u] = th[u]
    BY <1>2, ThreadsOKStep, ThreadStep DEF q
<1> QED BY <1>2, <1>3 DEF SameNotes, SamePlace

(* insert links a level. *)
LEMMA LinkLevelTurn ==
    ASSUME ListInv, NEW t \in Threads, LinkLevel(t)
    PROVE  /\ ThreadsOK' /\ NodesOK' /\ retired' = retired /\ \A u \in Threads : u # t => th'[u] = th[u]
           /\ th[t].pc = "link" /\ SameCall(t) /\ SameNotes(t) /\ Inserts(t, th[t].node)
           /\ DOMAIN node' = DOMAIN node
           /\ \A n \in DOMAIN node : SameId(n) /\ SameFlags(n) /\ SameOwner(n)
           /\ \A n \in DOMAIN node : n # th[t].preds[th[t].level] => SameNext(n)
           /\ node'[th[t].preds[th[t].level]].next[th[t].level] = th[t].node
           /\ \A j \in 0..node[th[t].preds[th[t].level]].top_level : j # th[t].level =>
                 node'[th[t].preds[th[t].level]].next[j] = node[th[t].preds[th[t].level]].next[j]
           /\ \/ /\ th[t].level < node[th[t].node].top_level
                 /\ th'[t].pc = "link" /\ th'[t].level = th[t].level + 1
              \/ /\ th[t].level = node[th[t].node].top_level
                 /\ th'[t].pc = "linked" /\ th'[t].level = th[t].level
<1>0. NodesOK /\ ThreadsOK /\ Hands /\ Control(t) /\ Found(t) /\ Made(t)
    BY DEF ListInv, Place
<1> DEFINE r == th[t]
           p == th[t].preds[th[t].level]
           q == IF r.level < node[r.node].top_level THEN [r EXCEPT !.level = @ + 1]
                ELSE [r EXCEPT !.pc = "linked"]
<1>1. /\ r.pc = "link" /\ retired' = retired /\ Becomes(t, q)
      /\ node' = [node EXCEPT ![p].next[r.level] = r.node]
    BY DEF LinkLevel, At
<1>2. r \in ThreadRecords /\ r.level \in Levels /\ r.level \in Nat /\ r.node \in Pointers
    BY <1>0, ThreadFacts
<1>3. r.op = "insert" /\ r.result = "none" /\ r.pc \in Inserting
    BY <1>0, <1>1 DEF Control, Inserting
<1>4. node[r.node].top_level \in Levels /\ node[r.node].top_level \in Nat
    BY <1>0, <1>3, OwnNode
<1>5. r.level <= node[r.node].top_level
    BY <1>0, <1>1 DEF Made
<1>6. p \in DOMAIN node /\ r.level \in 0..node[p].top_level
    BY <1>0, <1>2, <1>3, NotedFacts
<1>7. r.level < node[r.node].top_level => r.level + 1 \in Levels
    BY <1>2, <1>4, Constants DEF Levels
<1> HIDE DEF r, p
<1>8. /\ q \in ThreadRecords /\ q.op = r.op /\ q.key = r.key /\ q.node = r.node /\ q.result = r.result
      /\ q.preds = r.preds /\ q.succs = r.succs
      /\ \/ r.level < node[r.node].top_level /\ q.pc = "link" /\ q.level = r.level + 1
         \/ r.level = node[r.node].top_level /\ q.pc = "linked" /\ q.level = r.level
    <2>2. CASE r.level < node[r.node].top_level
        BY <1>1, <1>2, <1>7, <2>2 DEF ThreadRecords, Labels
    <2>3. CASE ~(r.level < node[r.node].top_level)
        <3>1. r.level = node[r.node].top_level
            BY <1>2, <1>4, <1>5, <2>3
        <3>2. q = [r EXCEPT !.pc = "linked"]
            BY <2>3
        <3> QED BY <1>2, <2>3, <3>1, <3>2 DEF ThreadRecords, Labels
    <2> QED BY <2>2, <2>3
<1> HIDE DEF q
<1>9. ThreadsOK' /\ th'[t] = q /\ \A u \in Threads : u # t => th'[u] = th[u]
    BY <1>0, <1>1, <1>8, ThreadsOKStep, ThreadStep
<1>10. /\ NodesOK' /\ DOMAIN node' = DOMAIN node
       /\ \A n \in DOMAIN node : SameId(n) /\ SameFlags(n) /\ SameOwner(n)
       /\ \A n \in DOMAIN node : n # p => SameNext(n)
       /\ node'[p].next[r.level] = r.node
       /\ \A j \in 0..node[p].top_level : j # r.level => node'[p].next[j] = node[p].next[j]
    BY <1>0, <1>1, <1>2, <1>6, SetNext
<1>11. SameCall(t) /\ SameNotes(t) /\ Inserts(t, th[t].node)
    BY <1>3, <1>8, <1>9 DEF SameCall, SameNotes, r, Inserts
<1> QED BY <1>1, <1>8, <1>9, <1>10, <1>11 DEF r, p

(* insert has linked all levels. *)
LEMMA FullyLinkedTurn ==
    ASSUME ListInv, NEW t \in Threads, FullyLinked(t)
    PROVE  /\ ThreadsOK' /\ NodesOK' /\ retired' = retired /\ \A u \in Threads : u # t => th'[u] = th[u]
           /\ th[t].pc = "linked" /\ th'[t].pc = "unlock" /\ th'[t].op = th[t].op /\ th'[t].key = th[t].key
           /\ th'[t].node = th[t].node /\ th'[t].result = "true" /\ SameNotes(t) /\ SamePlace(t)
           /\ Inserts(t, th[t].node) /\ DOMAIN node' = DOMAIN node
           /\ \A n \in DOMAIN node : SameId(n) /\ SameNext(n) /\ SameOwner(n)
           /\ \A n \in DOMAIN node : node'[n].marked = node[n].marked
           /\ \A n \in DOMAIN node : n # th[t].node => node'[n].fully_linked = node[n].fully_linked
           /\ node'[th[t].node].fully_linked
<1>0. NodesOK /\ ThreadsOK /\ Hands /\ Control(t)
    BY DEF ListInv, Place
<1>1. /\ th[t].pc = "linked" /\ retired' = retired
      /\ Becomes(t, [th[t] EXCEPT !.pc = "unlock", !.result = "true"])
      /\ node' = [node EXCEPT ![th[t].node].fully_linked = TRUE]
    BY DEF FullyLinked, At
<1>2. th[t].op = "insert" /\ th[t].result = "none"
    BY <1>0, <1>1 DEF Control, Inserting
<1>3. th[t].node \in DOMAIN node \ {head_, tail_}
    BY <1>0, <1>2, OwnNode
<1>4. /\ ThreadsOK' /\ \A u \in Threads : u # t => th'[u] = th[u]
      /\ th'[t].pc = "unlock" /\ th'[t].op = th[t].op /\ th'[t].key = th[t].key /\ th'[t].node = th[t].node
      /\ th'[t].result = "true" /\ SameNotes(t) /\ SamePlace(t)
    BY <1>0, <1>1, SetPc DEF Labels
<1>5. /\ NodesOK' /\ DOMAIN node' = DOMAIN node
      /\ \A n \in DOMAIN node : SameId(n) /\ SameNext(n) /\ SameOwner(n)
      /\ \A n \in DOMAIN node : node'[n].marked = node[n].marked
      /\ \A n \in DOMAIN node : n # th[t].node => node'[n].fully_linked = node[n].fully_linked
      /\ node'[th[t].node].fully_linked
    BY <1>0, <1>1, <1>3, SetFullyLinked
<1> QED BY <1>1, <1>2, <1>4, <1>5 DEF Inserts

(* insert unlocks, and returns or tries again. *)
LEMMA UnlockPredsTurn ==
    ASSUME ListInv, NEW t \in Threads, UnlockPreds(t)
    PROVE  /\ ThreadsOK' /\ NodesOK' /\ retired' = retired /\ \A u \in Threads : u # t => th'[u] = th[u]
           /\ th[t].pc = "unlock" /\ OnlyOwners
           /\ \A n \in DOMAIN node : n \notin LockedPreds(th[t]) => SameOwner(n)
           /\ \A n \in DOMAIN node : n \in LockedPreds(th[t]) => node'[n].owner = NoThread
           /\ \/ th[t].result = "true" /\ Answers(t, "true")
              \/ th[t].result # "true" /\ AtHead(t) /\ SameCall(t)
<1>0. NodesOK /\ ThreadsOK
    BY DEF ListInv
<1>1. /\ th[t].pc = "unlock" /\ retired' = retired
      /\ node' = [n \in DOMAIN node |-> IF n \in LockedPreds(th[t])
                                        THEN [node[n] EXCEPT !.owner = NoThread] ELSE node[n]]
      /\ th[t].result = "true" => Answer(t, "true")
      /\ th[t].result # "true" => Becomes(t, StartFind(th[t]))
    BY DEF UnlockPreds, At
<1>2. /\ NodesOK' /\ OnlyOwners
      /\ \A n \in DOMAIN node : n \notin LockedPreds(th[t]) => SameOwner(n)
      /\ \A n \in DOMAIN node : n \in LockedPreds(th[t]) => node'[n].owner = NoThread
    <2> DEFINE S == LockedPreds(th[t])
    <2>1. node' = [n \in DOMAIN node |-> IF n \in S THEN [node[n] EXCEPT !.owner = NoThread] ELSE node[n]]
        BY <1>1
    <2> HIDE DEF S
    <2>2. /\ NodesOK' /\ OnlyOwners
          /\ \A n \in DOMAIN node : n \notin S => SameOwner(n)
          /\ \A n \in DOMAIN node : n \in S => node'[n].owner = NoThread
        BY <1>0, <2>1, ClearOwners
    <2> QED BY <2>2 DEF S
<1>3. CASE th[t].result = "true"
    <2>1. ThreadsOK' /\ Answers(t, "true") /\ \A u \in Threads : u # t => th'[u] = th[u]
        BY <1>0, <1>1, <1>3, AnswerTurn
    <2> QED BY <1>1, <1>2, <1>3, <2>1
<1>4. CASE th[t].result # "true"
    <2>1. th[t] \in ThreadRecords
        BY <1>0, ThreadFacts
    <2>2. /\ ThreadsOK' /\ AtHead(t) /\ \A u \in Threads : u # t => th'[u] = th[u]
          /\ th'[t].op = th[t].op /\ th'[t].key = th[t].key /\ th'[t].node = th[t].node /\ th'[t].result = th[t].result
        BY <1>0, <1>1, <1>4, <2>1, StartFindTurn
    <2> QED BY <1>1, <1>2, <1>4, <2>2 DEF SameCall
<1> QED BY <1>3, <1>4

(* contains and erase look at the flags of the node they have found. *)
LEMMA ChecksTurn ==
    ASSUME ListInv, NEW t \in Threads, ContainsChecks(t) \/ EraseChecks(t)
    PROVE  /\ ThreadsOK' /\ NodesOK' /\ node' = node /\ retired' = retired /\ \A u \in Threads : u # t => th'[u] = th[u]
           /\ th[t].pc = "check"
           /\ \/ /\ th[t].op = "contains" /\ node[th[t].node].fully_linked /\ ~node[th[t].node].marked
                 /\ Answers(t, "true")
              \/ /\ th[t].op = "contains" /\ ~(node[th[t].node].fully_linked /\ ~node[th[t].node].marked)
                 /\ Answers(t, "false")
              \/ /\ th[t].op = "erase" /\ ~node[th[t].node].fully_linked /\ AtHead(t)
                 /\ th'[t].op = th[t].op /\ th'[t].key = th[t].key /\ th'[t].node = null
                 /\ th'[t].result = th[t].result
              \/ /\ th[t].op = "erase" /\ node[th[t].node].fully_linked /\ node[th[t].node].marked
                 /\ Answers(t, "false")
              \/ /\ th[t].op = "erase" /\ node[th[t].node].fully_linked /\ ~node[th[t].node].marked
                 /\ th'[t].pc = "mark" /\ SameCall(t)
<1>0. NodesOK /\ ThreadsOK
    BY DEF ListInv
<1>1. th[t].pc = "check" /\ node' = node /\ retired' = retired
    BY DEF ContainsChecks, EraseChecks, At
<1>2. NodesOK'
    BY <1>0, <1>1 DEF NodesOK
<1>3. th[t] \in ThreadRecords /\ th[t].result \in {"none", "true", "false"}
    BY <1>0, ThreadFacts
<1> DEFINE ok == node[th[t].node].fully_linked /\ ~node[th[t].node].marked
<1>4. CASE ContainsChecks(t) /\ ok
    <2>1. th[t].op = "contains" /\ Answer(t, "true")
        BY <1>4 DEF ContainsChecks
    <2>2. ThreadsOK' /\ Answers(t, "true") /\ \A u \in Threads : u # t => th'[u] = th[u]
        BY <1>0, <2>1, AnswerTurn
    <2> QED BY <1>1, <1>2, <1>4, <2>1, <2>2
<1>5. CASE ContainsChecks(t) /\ ~ok
    <2>1. th[t].op = "contains" /\ Answer(t, "false")
        BY <1>5 DEF ContainsChecks
    <2>2. ThreadsOK' /\ Answers(t, "false") /\ \A u \in Threads : u # t => th'[u] = th[u]
        BY <1>0, <2>1, AnswerTurn
    <2> QED BY <1>1, <1>2, <1>5, <2>1, <2>2
<1>6. CASE EraseChecks(t) /\ ~node[th[t].node].fully_linked
    <2> DEFINE q == [th[t] EXCEPT !.node = null]
    <2>1. th[t].op = "erase" /\ Becomes(t, StartFind(q))
        BY <1>6 DEF EraseChecks
    <2>2. q \in ThreadRecords /\ q.op = th[t].op /\ q.key = th[t].key /\ q.node = null /\ q.result = th[t].result
        BY <1>3 DEF ThreadRecords, Pointers
    <2> HIDE DEF q
    <2>3. /\ ThreadsOK' /\ AtHead(t) /\ \A u \in Threads : u # t => th'[u] = th[u]
          /\ th'[t].op = q.op /\ th'[t].key = q.key /\ th'[t].node = q.node /\ th'[t].result = q.result
        BY <1>0, <2>1, <2>2, StartFindTurn
    <2> QED BY <1>1, <1>2, <1>6, <2>1, <2>2, <2>3
<1>7. CASE EraseChecks(t) /\ node[th[t].node].fully_linked /\ node[th[t].node].marked
    <2>1. th[t].op = "erase" /\ Answer(t, "false")
        BY <1>7 DEF EraseChecks
    <2>2. ThreadsOK' /\ Answers(t, "false") /\ \A u \in Threads : u # t => th'[u] = th[u]
        BY <1>0, <2>1, AnswerTurn
    <2> QED BY <1>1, <1>2, <1>7, <2>1, <2>2
<1>8. CASE EraseChecks(t) /\ node[th[t].node].fully_linked /\ ~node[th[t].node].marked
    <2>1. th[t].op = "erase" /\ Becomes(t, [th[t] EXCEPT !.pc = "mark"])
        BY <1>8 DEF EraseChecks
    <2>2. [th[t] EXCEPT !.pc = "mark"] = [th[t] EXCEPT !.pc = "mark", !.result = th[t].result]
        BY <1>3 DEF ThreadRecords
    <2>3. /\ ThreadsOK' /\ \A u \in Threads : u # t => th'[u] = th[u]
          /\ th'[t].pc = "mark" /\ th'[t].op = th[t].op /\ th'[t].key = th[t].key /\ th'[t].node = th[t].node
          /\ th'[t].result = th[t].result
        BY <1>0, <1>3, <2>1, <2>2, SetPc DEF Labels
    <2> QED BY <1>1, <1>2, <1>8, <2>1, <2>3 DEF SameCall
<1> QED BY <1>4, <1>5, <1>6, <1>7, <1>8

(* erase marks its victim, unless another erase has done so. *)
Marking(t) ==
    /\ ~node[th[t].node].marked /\ Walks(t, node[th[t].node].top_level)
    /\ DOMAIN node' = DOMAIN node
    /\ \A n \in DOMAIN node : SameId(n) /\ SameNext(n) /\ SameOwner(n)
    /\ \A n \in DOMAIN node : node'[n].fully_linked = node[n].fully_linked
    /\ \A n \in DOMAIN node : n # th[t].node => node'[n].marked = node[n].marked
    /\ node'[th[t].node].marked

(* What that step does. *)
LEMMA MarkVictimTurn ==
    ASSUME ListInv, NEW t \in Threads, MarkVictim(t)
    PROVE  /\ ThreadsOK' /\ NodesOK' /\ retired' = retired /\ \A u \in Threads : u # t => th'[u] = th[u]
           /\ th[t].pc = "mark" /\ node[th[t].node].owner = NoThread
           /\ th[t].node \in DOMAIN node \ {head_, tail_} /\ node[th[t].node].fully_linked
           /\ \/ node[th[t].node].marked /\ Answers(t, "false") /\ node' = node
              \/ Marking(t)
<1>0. NodesOK /\ ThreadsOK /\ Chosen(t)
    BY DEF ListInv, Place
<1>1. th[t].pc = "mark" /\ retired' = retired /\ node[th[t].node].owner = NoThread
    BY DEF MarkVictim, At
<1>2. th[t].node \in DOMAIN node \ {head_, tail_} /\ node[th[t].node].fully_linked
    BY <1>0, <1>1 DEF Chosen
<1>3. th[t] \in ThreadRecords /\ node[th[t].node].top_level \in Levels
    BY <1>0, <1>2, ThreadFacts, NodeFacts
<1>4. CASE node[th[t].node].marked
    <2>1. Answer(t, "false") /\ node' = node
        BY <1>4 DEF MarkVictim
    <2>2. ThreadsOK' /\ Answers(t, "false") /\ \A u \in Threads : u # t => th'[u] = th[u]
        BY <1>0, <2>1, AnswerTurn
    <2>3. NodesOK'
        BY <1>0, <2>1 DEF NodesOK
    <2> QED BY <1>1, <1>2, <1>4, <2>1, <2>2, <2>3
<1>5. CASE ~node[th[t].node].marked
    <2> DEFINE q == [th[t] EXCEPT !.result = "true"]
               top == node[th[t].node].top_level
    <2>1. /\ node' = [node EXCEPT ![th[t].node].marked = TRUE]
          /\ Becomes(t, StartWalk(q, top))
        BY <1>5 DEF MarkVictim
    <2>2. q \in ThreadRecords /\ q.op = th[t].op /\ q.key = th[t].key /\ q.node = th[t].node /\ q.result = "true"
        BY <1>3 DEF ThreadRecords
    <2>3. top \in Levels
        BY <1>3
    <2> HIDE DEF q, top
    <2>4. ThreadsOK' /\ Walks(t, top) /\ \A u \in Threads : u # t => th'[u] = th[u]
        BY <1>0, <2>1, <2>2, <2>3, StartWalkTurn
    <2>5. /\ NodesOK' /\ DOMAIN node' = DOMAIN node
          /\ \A n \in DOMAIN node : SameId(n) /\ SameNext(n) /\ SameOwner(n)
          /\ \A n \in DOMAIN node : node'[n].fully_linked = node[n].fully_linked
          /\ \A n \in DOMAIN node : n # th[t].node => node'[n].marked = node[n].marked
          /\ node'[th[t].node].marked
        BY <1>0, <1>2, <2>1, SetMarked
    <2> QED BY <1>1, <1>2, <1>5, <2>4, <2>5 DEF Marking, top
<1> QED BY <1>4, <1>5

(* The victim of an erase. *)
LEMMA Victim ==
    ASSUME ListInv, NEW t \in Threads, th[t].pc \in {"walk", "splice", "retire"}
    PROVE  /\ th[t].node \in DOMAIN node \ {head_, tail_} /\ th[t].node \in Nodes /\ th[t].node \notin retired
           /\ Erases(t, th[t].node) /\ node[th[t].node].marked /\ node[th[t].node].fully_linked
           /\ node[th[t].node].data = th[t].key /\ th[t].key \in Nat
           /\ th[t].op = "erase" /\ th[t].result = "true"
<1>0. NodesOK /\ ThreadsOK /\ Marks /\ Control(t) /\ Chosen(t)
    BY DEF ListInv, Place
<1>1. th[t].node \in Pointers /\ th[t].key \in Nat
    BY <1>0, ThreadFacts
<1>2. Erases(t, th[t].node)
    BY DEF Erases
<1>3. th[t].node \in DOMAIN node \ retired /\ node[th[t].node].marked
    BY <1>0, <1>1, <1>2 DEF Marks
<1>4. node[th[t].node].fully_linked
    BY <1>0, <1>3 DEF Marks
<1>5. th[t].node \notin {head_, tail_}
    BY <1>0, <1>4 DEF NodesOK
<1>6. node[th[t].node].data = th[t].key /\ th[t].op = "erase" /\ th[t].result = "true"
    BY <1>0 DEF Chosen, Control
<1>7. th[t].node \in Nodes
    BY <1>0, <1>3, NodeFacts
<1> QED BY <1>1, <1>2, <1>3, <1>4, <1>5, <1>6, <1>7

(* The victim's level has been taken out. *)
Down(t) ==
    \/ th[t].level > 0 /\ Walks(t, th[t].level - 1)
    \/ th[t].level = 0 /\ th'[t].pc = "retire" /\ SameCall(t)

(* NextLevelDown. *)
LEMMA DownTurn ==
    ASSUME ListInv, NEW t \in Threads, th[t].pc \in {"walk", "splice"}, NextLevelDown(t)
    PROVE  ThreadsOK' /\ Down(t) /\ \A u \in Threads : u # t => th'[u] = th[u]
<1>0. ThreadsOK
    BY DEF ListInv
<1>1. th[t] \in ThreadRecords /\ th[t].level \in Levels /\ th[t].level \in Nat
    BY <1>0, ThreadFacts
<1>2. th[t].result = "true"
    BY Victim
<1>3. CASE th[t].level > 0
    <2>1. Becomes(t, StartWalk(th[t], th[t].level - 1))
        BY <1>3 DEF NextLevelDown
    <2>2. th[t].level - 1 \in Levels
        BY <1>1, <1>3, Constants DEF Levels
    <2>3. ThreadsOK' /\ Walks(t, th[t].level - 1) /\ \A u \in Threads : u # t => th'[u] = th[u]
        BY <1>0, <1>1, <1>2, <2>1, <2>2, StartWalkTurn
    <2> QED BY <1>3, <2>3 DEF Down
<1>4. CASE ~(th[t].level > 0)
    <2> DEFINE q == [th[t] EXCEPT !.pc = "retire", !.pred = null]
    <2>1. Becomes(t, q) /\ th[t].level = 0
        BY <1>1, <1>4 DEF NextLevelDown
    <2>2. q \in ThreadRecords /\ q.pc = "retire" /\ q.op = th[t].op /\ q.key = th[t].key /\ q.node = th[t].node
          /\ q.result = th[t].result
        BY <1>1 DEF ThreadRecords, Labels, Pointers
    <2> HIDE DEF q
    <2>3. ThreadsOK' /\ th'[t] = q /\ \A u \in Threads : u # t => th'[u] = th[u]
        BY <1>0, <2>1, <2>2, ThreadsOKStep, ThreadStep
    <2> QED BY <2>1, <2>2, <2>3 DEF Down, SameCall
<1> QED BY <1>3, <1>4

(* A walk does not get past its victim. *)
LEMMA NotPast ==
    ASSUME ListInv, NEW t \in Threads, th[t].pc = "walk", Curr(t) # th[t].node
    PROVE  Before(Curr(t), th[t].key)
<1> SUFFICES ASSUME ~Before(Curr(t), th[t].key) PROVE FALSE
    OBVIOUS
<1>0. NodesOK /\ ThreadsOK /\ Forward /\ Chosen(t)
    BY DEF ListInv, Place
<1> DEFINE p == th[t].pred
           l == th[t].level
           v == th[t].node
           k == th[t].key
           S == {p, tail_, Curr(t)} \cup {x \in DOMAIN node : k < node[x].data}
<1>1. Entered(p, l) /\ node[p].data < k /\ Leads(p, l, v) /\ l \in Levels
    BY <1>0, ThreadFacts DEF Chosen
<1>2. v \in DOMAIN node \ {head_, tail_} /\ node[v].data = k /\ k \in Nat
    BY Victim
<1>3. /\ Curr(t) \in DOMAIN node /\ Curr(t) \in Nodes
      /\ Curr(t) # tail_ => Entered(Curr(t), l)
    BY <1>0, <1>1, CurrFacts
<1>4. p \in Nodes /\ p \in DOMAIN node /\ node[p].data \in Nat /\ node[Curr(t)].data \in Nat
    BY <1>0, <1>1, <1>3, EnteredFacts, NodeFacts
<1>5. Curr(t) # tail_ => ~(node[Curr(t)].data < k)
    BY DEF Before
<1>6. S \in SUBSET Nodes /\ p \in S
    <2>1. {x \in DOMAIN node : k < node[x].data} \subseteq Nodes
        BY <1>0 DEF NodesOK
    <2> QED BY <1>3, <1>4, <2>1, Constants
<1>7. ASSUME NEW x \in S, Entered(x, l) PROVE node[x].next[l] \in S
    <2>1. x \in DOMAIN node /\ x # tail_ /\ node[x].data \in Nat
        BY <1>0, <1>1, <1>7, EnteredFacts
    <2>2. /\ node[x].next[l] \in DOMAIN node
          /\ node[x].next[l] # tail_ => node[x].data < node[node[x].next[l]].data
        BY <1>0, <1>1, <1>7, ForwardFacts
    <2>3. node[node[x].next[l]].data \in Nat
        BY <1>0, <2>2, NodeFacts
    <2>4. CASE x = p
        BY <2>4 DEF Curr
    <2>5. CASE x # p
        <3>1. k <= node[x].data
            BY <1>2, <1>4, <1>5, <2>1, <2>5
        <3>2. node[x].next[l] # tail_ => k < node[node[x].next[l]].data
            BY <1>2, <2>1, <2>2, <2>3, <3>1
        <3> QED BY <2>2, <3>2
    <2> QED BY <2>4, <2>5
<1>8. v \notin S
    BY <1>1, <1>2, <1>4
<1> HIDE DEF S
<1>9. Closed(S, l)
    BY <1>7 DEF Closed
<1> QED BY <1>1, <1>6, <1>8, <1>9 DEF Leads

(* erase walks along a level. *)
LEMMA WalkTurn ==
    ASSUME ListInv, NEW t \in Threads, Walk(t)
    PROVE  /\ ThreadsOK' /\ NodesOK' /\ node' = node /\ retired' = retired /\ \A u \in Threads : u # t => th'[u] = th[u]
           /\ th[t].pc = "walk" /\ SameCall(t) /\ th'[t].level = th[t].level
           /\ \/ Curr(t) = th[t].node /\ th'[t].pc = "splice" /\ th'[t].pred = th[t].pred
              \/ /\ Curr(t) # th[t].node /\ Before(Curr(t), th[t].key)
                 /\ th'[t].pc = "walk" /\ th'[t].pred = Curr(t)
<1>0. NodesOK /\ ThreadsOK /\ Forward /\ Chosen(t)
    BY DEF ListInv, Place
<1>1. th[t].pc = "walk" /\ node' = node /\ retired' = retired
    BY DEF Walk, At
<1>2. NodesOK'
    BY <1>0, <1>1 DEF NodesOK
<1>3. th[t] \in ThreadRecords /\ th[t].result \in {"none", "true", "false"}
    BY <1>0, ThreadFacts
<1>4. Curr(t) # th[t].node => Before(Curr(t), th[t].key)
    BY <1>1, NotPast
<1>5. Entered(th[t].pred, th[t].level)
    BY <1>0, <1>1 DEF Chosen
<1>6. Curr(t) \in Pointers
    BY <1>0, <1>5, CurrFacts
<1>7. CASE Curr(t) = th[t].node
    <2>1. Becomes(t, [th[t] EXCEPT !.pc = "splice"])
        BY <1>7 DEF Walk
    <2>2. [th[t] EXCEPT !.pc = "splice"] = [th[t] EXCEPT !.pc = "splice", !.result = th[t].result]
        BY <1>3 DEF ThreadRecords
    <2>3. /\ ThreadsOK' /\ \A u \in Threads : u # t => th'[u] = th[u]
          /\ th'[t].pc = "splice" /\ th'[t].op = th[t].op /\ th'[t].key = th[t].key /\ th'[t].node = th[t].node
          /\ th'[t].result = th[t].result /\ SamePlace(t)
        BY <1>0, <1>3, <2>1, <2>2, SetPc DEF Labels
    <2> QED BY <1>1, <1>2, <1>7, <2>3 DEF SameCall, SamePlace
<1>8. CASE Curr(t) # th[t].node
    <2> DEFINE q == [th[t] EXCEPT !.pred = Curr(t)]
    <2>1. Becomes(t, q)
        BY <1>4, <1>8 DEF Walk
    <2>2. q \in ThreadRecords /\ q.pc = th[t].pc /\ q.op = th[t].op /\ q.key = th[t].key /\ q.node = th[t].node
          /\ q.result = th[t].result /\ q.level = th[t].level /\ q.pred = Curr(t)
        BY <1>3, <1>6 DEF ThreadRecords
    <2> HIDE DEF q
    <2>3. ThreadsOK' /\ th'[t] = q /\ \A u \in Threads : u # t => th'[u] = th[u]
        BY <1>0, <2>1, <2>2, ThreadsOKStep, ThreadStep
    <2> QED BY <1>1, <1>2, <1>4, <1>8, <2>2, <2>3 DEF SameCall
<1> QED BY <1>7, <1>8

(* erase takes a level of its victim out, or walks again. *)
Splices(t) ==
    /\ ~node[th[t].pred].marked /\ Curr(t) = th[t].node /\ Down(t)
    /\ DOMAIN node' = DOMAIN node
    /\ \A n \in DOMAIN node : SameId(n) /\ SameFlags(n) /\ SameOwner(n)
    /\ \A n \in DOMAIN node : n # th[t].pred => SameNext(n)
    /\ node'[th[t].pred].next[th[t].level] = node[th[t].node].next[th[t].level]
    /\ \A j \in 0..node[th[t].pred].top_level : j # th[t].level =>
          node'[th[t].pred].next[j] = node[th[t].pred].next[j]

(* What that step does. *)
LEMMA SpliceTurn ==
    ASSUME ListInv, NEW t \in Threads, Splice(t)
    PROVE  /\ ThreadsOK' /\ NodesOK' /\ retired' = retired /\ \A u \in Threads : u # t => th'[u] = th[u]
           /\ th[t].pc = "splice" /\ node[th[t].pred].owner = NoThread
           /\ Splices(t) \/ (Walks(t, th[t].level) /\ node' = node)
<1>0. NodesOK /\ ThreadsOK /\ Chosen(t)
    BY DEF ListInv, Place
<1>1. th[t].pc = "splice" /\ retired' = retired /\ node[th[t].pred].owner = NoThread
    BY DEF Splice, At
<1>2. th[t] \in ThreadRecords /\ th[t].level \in Levels
    BY <1>0, ThreadFacts
<1>3. Entered(th[t].pred, th[t].level) /\ th[t].level <= node[th[t].node].top_level
    BY <1>0, <1>1 DEF Chosen
<1>4. th[t].pred \in DOMAIN node /\ th[t].level \in 0..node[th[t].pred].top_level
    BY <1>0, <1>2, <1>3, EnteredFacts
<1>5. th[t].node \in DOMAIN node /\ th[t].result = "true"
    BY <1>1, Victim
<1>6. CASE ~node[th[t].pred].marked /\ Curr(t) = th[t].node
    <2> DEFINE q == node[th[t].node].next[th[t].level]
    <2>1. node' = [node EXCEPT ![th[t].pred].next[th[t].level] = q] /\ NextLevelDown(t)
        BY <1>6 DEF Splice
    <2>2. q \in Pointers
        BY <1>0, <1>2, <1>3, <1>5, NodeFacts
    <2>3. ThreadsOK' /\ Down(t) /\ \A u \in Threads : u # t => th'[u] = th[u]
        BY <1>1, <2>1, DownTurn
    <2> HIDE DEF q
    <2>4. /\ NodesOK' /\ DOMAIN node' = DOMAIN node
          /\ \A n \in DOMAIN node : SameId(n) /\ SameFlags(n) /\ SameOwner(n)
          /\ \A n \in DOMAIN node : n # th[t].pred => SameNext(n)
          /\ node'[th[t].pred].next[th[t].level] = q
          /\ \A j \in 0..node[th[t].pred].top_level : j # th[t].level =>
                node'[th[t].pred].next[j] = node[th[t].pred].next[j]
        BY <1>0, <1>4, <2>1, <2>2, SetNext
    <2> QED BY <1>1, <1>6, <2>3, <2>4 DEF q, Splices
<1>7. CASE ~(~node[th[t].pred].marked /\ Curr(t) = th[t].node)
    <2>1. Becomes(t, StartWalk(th[t], th[t].level)) /\ node' = node
        BY <1>7 DEF Splice
    <2>2. ThreadsOK' /\ Walks(t, th[t].level) /\ \A u \in Threads : u # t => th'[u] = th[u]
        BY <1>0, <1>2, <1>5, <2>1, StartWalkTurn
    <2>3. NodesOK'
        BY <1>0, <2>1 DEF NodesOK
    <2> QED BY <1>1, <2>1, <2>2, <2>3
<1> QED BY <1>6, <1>7

(* erase retires its victim. *)
LEMMA RetireTurn ==
    ASSUME ListInv, NEW t \in Threads, Retire(t)
    PROVE  /\ ThreadsOK' /\ NodesOK' /\ node' = node /\ retired' = retired \cup {th[t].node}
           /\ \A u \in Threads : u # t => th'[u] = th[u]
           /\ th[t].pc = "retire" /\ Answers(t, "true")
<1>0. NodesOK /\ ThreadsOK
    BY DEF ListInv
<1>1. th[t].pc = "retire" /\ node' = node /\ retired' = retired \cup {th[t].node} /\ Answer(t, "true")
    BY DEF Retire, At
<1>2. NodesOK'
    BY <1>0, <1>1 DEF NodesOK
<1>3. ThreadsOK' /\ Answers(t, "true") /\ \A u \in Threads : u # t => th'[u] = th[u]
    BY <1>0, <1>1, AnswerTurn
<1> QED BY <1>1, <1>2, <1>3

-----------------------------------------------------------------------------
(* The nodes on the levels, after a step *)

Others(t) == \A u \in Threads : u # t => th'[u] = th[u]

(* What the others do, they still do. *)
LEMMA OtherWork ==
    ASSUME NEW t \in Threads, Others(t), NEW u \in Threads, u # t, NEW n, NEW l
    PROVE  /\ Linking(u, n, l)' <=> Linking(u, n, l)
           /\ Erases(u, n)' <=> Erases(u, n)
           /\ Past(u, l)' <=> Past(u, l)
           /\ Inserts(u, n)' <=> Inserts(u, n)
<1>1. th'[u] = th[u]
    BY DEF Others
<1> QED BY <1>1 DEF Linking, Erases, Past, Inserts

(* Only the insert that has made a node links it. *)
LEMMA LinkingInserts ==
    ASSUME ListInv, NEW t \in Threads, NEW n, NEW l, Linking(t, n, l)
    PROVE  Inserts(t, n) /\ n \in Pointers
<1>1. Control(t) /\ ThreadsOK
    BY DEF ListInv, Place
<1>2. th[t].pc \in {"link", "linked"} /\ th[t].op = "insert" /\ th[t].node = n
    BY DEF Linking
<1>3. th[t].result = "none"
    BY <1>1, <1>2 DEF Control, Inserting
<1> QED BY <1>1, <1>2, <1>3, ThreadFacts DEF Inserts

(* A level that an insert has not linked. *)
LEMMA NotEntered ==
    ASSUME ListInv, NEW t \in Threads, NEW n, Inserts(t, n), NEW l, ~Linking(t, n, l)
    PROVE  ~Entered(n, l) /\ n \in DOMAIN node \ {head_, tail_} /\ n \in Nodes /\ n \in Pointers /\ ~node[n].fully_linked
<1>0. NodesOK /\ ThreadsOK /\ Hands
    BY DEF ListInv
<1>1. n = th[t].node /\ th[t].op = "insert" /\ th[t].result = "none"
    BY DEF Inserts
<1>2. n \in DOMAIN node \ {head_, tail_} /\ n \in Nodes /\ ~node[n].fully_linked
    BY <1>0, <1>1, OwnNode
<1>3. ASSUME NEW u \in Threads, Linking(u, n, l) PROVE FALSE
    <2>1. Inserts(u, n)
        BY <1>3, LinkingInserts
    <2>2. u = t
        BY <1>0, <1>2, <2>1 DEF Hands
    <2> QED BY <1>3, <2>2
<1> QED BY <1>2, <1>3 DEF Entered, Pointers

(* Every level is linked at the same nodes. *)
SameLevels ==
    /\ \A l \in Levels : \A n \in Nodes : Entered(n, l)' <=> Entered(n, l)
    /\ \A l \in Levels : \A n \in Nodes : Entered(n, l) => SameId(n) /\ node'[n].next[l] = node[n].next[l]
    /\ \A l \in Levels : On(l)' = On(l)

(* The nodes on a level. *)
LEMMA OnFacts ==
    ASSUME NodesOK, NEW l \in Levels, NEW n \in On(l)
    PROVE  /\ Entered(n, l) /\ ~Left(n, l) /\ n \in DOMAIN node /\ n \in Nodes /\ n # tail_
           /\ Ptrs(l)[n] = node[n].next[l] /\ Data[n] = node[n].data /\ node[n].data \in Nat
<1>1. Entered(n, l) /\ ~Left(n, l)
    BY DEF On
<1>2. n \in DOMAIN node /\ n \in Nodes /\ n # tail_ /\ node[n].data \in Nat
    BY <1>1, EnteredFacts
<1> QED BY <1>1, <1>2 DEF Ptrs, Data

(* The facts about the nodes, and those on a level, after a step. *)
NodesTyped == NodesOK => \A n \in DOMAIN node :
    /\ n \in Nodes /\ n # null /\ n \in Pointers
    /\ node[n].data \in Nat /\ node[n].top_level \in Levels /\ node[n].top_level \in Nat
    /\ node[n].owner \in Threads \cup {NoThread}
    /\ \A j \in Levels : j <= node[n].top_level => j \in 0..node[n].top_level /\ node[n].next[j] \in Pointers
OnTyped == NodesOK => \A l \in Levels : \A n \in On(l) :
    /\ Entered(n, l) /\ ~Left(n, l) /\ n \in DOMAIN node /\ n \in Nodes /\ n # tail_
    /\ Ptrs(l)[n] = node[n].next[l] /\ Data[n] = node[n].data /\ node[n].data \in Nat

(* NodeFacts and OnFacts as formulas. *)
LEMMA Typed == NodesTyped /\ OnTyped
<1>1. NodesTyped
    BY NodeFacts DEF NodesTyped
<1>2. OnTyped
    BY OnFacts DEF OnTyped
<1> QED BY <1>1, <1>2

(* They hold in the next state too. *)
LEMMA NextTyped == NodesTyped' /\ OnTyped'
BY Typed, PTL

(* OnFacts after a step. *)
LEMMA NextOnFacts ==
    ASSUME NodesOK', NEW l \in Levels, NEW n \in On(l)'
    PROVE  /\ Entered(n, l)' /\ ~Left(n, l)' /\ n \in DOMAIN node' /\ n \in Nodes /\ n # tail_
           /\ Ptrs(l)'[n] = node'[n].next[l] /\ Data'[n] = node'[n].data /\ node'[n].data \in Nat
BY NextTyped DEF OnTyped

(* EnteredFacts after a step. *)
LEMMA NextEnteredFacts ==
    ASSUME NodesOK', NEW l \in Levels, NEW n, Entered(n, l)'
    PROVE  /\ n \in DOMAIN node' /\ n \in Nodes /\ n # tail_ /\ n # null /\ l <= node'[n].top_level
           /\ l \in 0..node'[n].top_level /\ node'[n].data \in Nat /\ node'[n].next[l] \in Pointers
<1>1. n \in DOMAIN node' /\ n # tail_
    BY Constants DEF Entered, NodesOK
<1>2. l <= node'[n].top_level
    <2>1. CASE n = head_
        BY <2>1, Constants DEF NodesOK, Levels
    <2>2. CASE n # head_
        BY <2>2 DEF Entered
    <2> QED BY <2>1, <2>2
<1> QED BY <1>1, <1>2, NextTyped DEF NodesTyped

(* The order and the chains are kept then. *)
LEMMA SameLevelsKeep ==
    ASSUME ListInv, NodesOK', SameLevels
    PROVE  Forward' /\ Chains'
<1>0. NodesOK /\ Forward /\ Chains
    BY DEF ListInv
<1>1. ASSUME NEW l \in Levels, NEW n, Entered(n, l)' PROVE Onward(n, l)'
    <2>1. n \in Nodes
        BY <1>1, NextEnteredFacts
    <2>2. Entered(n, l) /\ SameId(n) /\ node'[n].next[l] = node[n].next[l]
        BY <1>1, <2>1 DEF SameLevels
    <2>3. PICK m : m = node[n].next[l]
        OBVIOUS
    <2>4. CASE m = tail_
        BY <2>2, <2>3, <2>4 DEF Onward
    <2>5. CASE m # tail_
        <3>1. Entered(m, l) /\ m \in Nodes /\ node[n].data < node[m].data
            BY <1>0, <2>2, <2>3, <2>5, ForwardFacts, EnteredFacts
        <3>2. Entered(m, l)' /\ SameId(m)
            BY <3>1 DEF SameLevels
        <3>3. node'[n].data < node'[m].data
            BY <2>2, <3>1, <3>2 DEF SameId
        <3>4. node'[n].next[l] = m
            BY <2>2, <2>3
        <3> QED BY <3>2, <3>3, <3>4 DEF Onward
    <2> QED BY <2>4, <2>5
<1>2. Forward'
    BY <1>1 DEF Forward
<1>3. ASSUME NEW l \in Levels PROVE KeyChain(On(l)', head_, tail_, Ptrs(l)', Data')
    <2>1. KeyChain(On(l), head_, tail_, Ptrs(l), Data) /\ On(l)' = On(l)
        BY <1>0 DEF Chains, SameLevels
    <2>2. ASSUME NEW n \in On(l) PROVE Ptrs(l)'[n] = Ptrs(l)[n] /\ Data'[n] = Data[n]
        <3>1. Entered(n, l) /\ n \in Nodes /\ Ptrs(l)[n] = node[n].next[l] /\ Data[n] = node[n].data
            BY <1>0, OnFacts
        <3>2. Ptrs(l)'[n] = node'[n].next[l] /\ Data'[n] = node'[n].data
            BY <2>1, NextOnFacts
        <3>3. SameId(n) /\ node'[n].next[l] = node[n].next[l]
            BY <3>1 DEF SameLevels
        <3> QED BY <3>1, <3>2, <3>3 DEF SameId
    <2>3. tail_ \notin On(l)
        BY <1>0, OnFacts
    <2> DEFINE q == Ptrs(l)'
               c == Data'
    <2>4. \A n \in On(l) : q[n] = Ptrs(l)[n] /\ c[n] = Data[n]
        BY <2>2
    <2> HIDE DEF q, c
    <2>5. KeyChain(On(l), head_, tail_, q, c)
        BY <2>1, <2>3, <2>4, SameKeyChain
    <2> QED BY <2>1, <2>5 DEF q, c
<1>4. Chains'
    BY <1>3 DEF Chains
<1> QED BY <1>2, <1>4

-----------------------------------------------------------------------------
(* The other threads, after a step *)

(* A step takes nothing from the others: what has been linked stays, their *)
(* nodes and their mutexes are theirs.                                     *)
Gentle(t) ==
    /\ \A n \in Nodes : \A l \in Levels : Entered(n, l) => Entered(n, l)' /\ SameId(n)
    /\ \A n \in DOMAIN node : node[n].fully_linked =>
           n \in DOMAIN node' /\ node'[n].fully_linked /\ SameId(n)
    /\ \A u \in Threads : \A n \in Nodes : u # t /\ Inserts(u, n) => n \in DOMAIN node' /\ SameId(n)
    /\ \A u \in Threads : \A n \in Nodes : \A l \in Levels :
           u # t /\ Inserts(u, n) /\ l <= node[n].top_level /\ ~Linking(u, n, l) =>
               node'[n].next[l] = node[n].next[l]
    /\ \A u \in Threads : \A n \in DOMAIN node : u # t /\ node[n].owner = u =>
           n \in DOMAIN node' /\ node'[n].owner = u /\ node'[n].marked = node[n].marked /\ SameNext(n)
    /\ \A u \in Threads : \A n \in DOMAIN node' : u # t /\ node'[n].owner = u =>
           n \in DOMAIN node /\ node[n].owner = u

(* What is linked stays linked. *)
LEMMA GentleEntered ==
    ASSUME NodesOK, NEW t \in Threads, Gentle(t), NEW l \in Levels, NEW n, Entered(n, l)
    PROVE  Entered(n, l)' /\ node'[n].data = node[n].data /\ node'[n].top_level = node[n].top_level
<1>1. n \in Nodes
    BY EnteredFacts
<1> QED BY <1>1 DEF Gentle, SameId

(* Validated levels are locked. *)
LEMMA ValidatedLocked ==
    ASSUME NEW t \in Threads, NEW j, Validated(t, j)
    PROVE  Locked(t, j)
BY DEF Validated, Locked

(* The node of another insert. *)
LEMMA OtherNode ==
    ASSUME ListInv, NEW t \in Threads, Others(t), Gentle(t), NEW u \in Threads, u # t,
           th[u].op = "insert", th[u].result = "none"
    PROVE  /\ th[u].node \in DOMAIN node' /\ node'[th[u].node].data = node[th[u].node].data
           /\ node'[th[u].node].top_level = node[th[u].node].top_level
           /\ \A l \in Levels : l <= node[th[u].node].top_level /\ ~Linking(u, th[u].node, l) =>
                 node'[th[u].node].next[l] = node[th[u].node].next[l]
<1>0. NodesOK /\ ThreadsOK /\ Hands
    BY DEF ListInv
<1>1. th[u].node \in Nodes /\ Inserts(u, th[u].node)
    BY <1>0, OwnNode DEF Inserts
<1>2. th[u].node \in DOMAIN node' /\ SameId(th[u].node)
    BY <1>1 DEF Gentle
<1>3. \A l \in Levels : l <= node[th[u].node].top_level /\ ~Linking(u, th[u].node, l) =>
          node'[th[u].node].next[l] = node[th[u].node].next[l]
    BY <1>1 DEF Gentle
<1> QED BY <1>2, <1>3 DEF SameId

(* What another insert has locked. *)
LEMMA OtherLocked ==
    ASSUME ListInv, NEW t \in Threads, Others(t), Gentle(t), NEW u \in Threads, u # t, NEW j
    PROVE  /\ Locked(u, j)' <=> Locked(u, j)
           /\ Validated(u, j)' <=> Validated(u, j)
           /\ Unlinked(u, j)' <=> Unlinked(u, j)
<1>0. Control(u)
    BY DEF ListInv, Place
<1>1. th'[u] = th[u]
    BY DEF Others
<1>2. CASE th[u].pc \in {"lock", "link"}
    <2>1. th[u].op = "insert" /\ th[u].result = "none"
        BY <1>0, <1>2 DEF Control, Inserting
    <2>2. node'[th[u].node].top_level = node[th[u].node].top_level
        BY <2>1, OtherNode
    <2> QED BY <1>1, <2>2 DEF Locked, Validated, Unlinked
<1>3. CASE th[u].pc \notin {"lock", "link"}
    BY <1>1, <1>3 DEF Locked, Validated, Unlinked
<1> QED BY <1>2, <1>3

(* The others' searches. *)
LEMMA OtherNotes ==
    ASSUME ListInv, NEW t \in Threads, Others(t), Gentle(t), NEW u \in Threads, u # t
    PROVE  /\ \A j \in Levels : Noted(u, j) => Noted(u, j)'
           /\ \A i, j \in Levels : Noted(u, i) /\ Noted(u, j) /\ Lower(th[u].preds[j], th[u].preds[i]) =>
                  Lower(th[u].preds[j], th[u].preds[i])'
           /\ Searches(u)'
<1>0. NodesOK /\ ThreadsOK /\ Searches(u)
    BY DEF ListInv, Place
<1>1. th'[u] = th[u] /\ th[u].level \in Levels
    BY <1>0, ThreadFacts DEF Others
<1>2. ASSUME NEW j \in Levels, Noted(u, j) PROVE Noted(u, j)' /\ node'[th[u].preds[j]].data = node[th[u].preds[j]].data
    <2> PICK p : p = th[u].preds[j]
        OBVIOUS
    <2> PICK s : s = th[u].succs[j]
        OBVIOUS
    <2>1. /\ Entered(p, j) /\ node[p].data < th[u].key
          /\ s = tail_ \/ (Entered(s, j) /\ th[u].key <= node[s].data)
        BY <1>2 DEF Noted
    <2>2. Entered(p, j)' /\ node'[p].data = node[p].data
        BY <1>0, <2>1, GentleEntered
    <2>3. s # tail_ => Entered(s, j)' /\ node'[s].data = node[s].data
        BY <1>0, <2>1, GentleEntered
    <2> QED BY <1>1, <2>1, <2>2, <2>3 DEF Noted
<1>3. \A j \in Levels : Noted(u, j) => Noted(u, j)'
    BY <1>2
<1>4. ASSUME NEW i \in Levels, NEW j \in Levels, Noted(u, i), Noted(u, j), Lower(th[u].preds[j], th[u].preds[i])
      PROVE  Lower(th[u].preds[j], th[u].preds[i])'
    BY <1>1, <1>2, <1>4 DEF Lower
<1>5. Searches(u)'
    <2>5. CASE th[u].pc = "find"
        <3> PICK p : p = th[u].pred
            OBVIOUS
        <3> PICK l \in Levels : l = th[u].level
            BY <1>1
        <3>1. /\ Entered(p, l) /\ node[p].data < th[u].key
              /\ \A j \in Levels : l < j => Noted(u, j) /\ Lower(th[u].preds[j], p)
              /\ \A i, j \in Levels : l < i /\ i < j => Lower(th[u].preds[j], th[u].preds[i])
            BY <1>0, <2>5 DEF Searches
        <3>2. Entered(p, l)' /\ node'[p].data = node[p].data
            BY <1>0, <3>1, GentleEntered
        <3>3. ASSUME NEW j \in Levels, l < j PROVE Noted(u, j)' /\ Lower(th[u].preds[j], th[u].pred)'
            <4>1. Noted(u, j) /\ Lower(th[u].preds[j], p)
                BY <3>1, <3>3
            <4>2. Noted(u, j)' /\ node'[th[u].preds[j]].data = node[th[u].preds[j]].data
                BY <1>2, <4>1
            <4> QED BY <1>1, <3>2, <4>1, <4>2 DEF Lower
        <3>4. ASSUME NEW i \in Levels, NEW j \in Levels, l < i, i < j PROVE Lower(th[u].preds[j], th[u].preds[i])'
            <4>0. l \in Nat /\ i \in Nat /\ j \in Nat
                BY Constants
            <4>1. l < j
                BY <3>4, <4>0
            <4>2. Noted(u, i) /\ Noted(u, j) /\ Lower(th[u].preds[j], th[u].preds[i])
                BY <3>1, <3>4, <4>1
            <4> QED BY <1>4, <4>2
        <3>5. th'[u].pred = p /\ th'[u].level = l /\ th'[u].key = th[u].key
            BY <1>1
        <3>6. Entered(th[u].pred, th[u].level)' /\ (node[th[u].pred].data < th[u].key)'
            BY <3>1, <3>2, <3>5
        <3> QED BY <3>3, <3>4, <3>5, <3>6 DEF Searches
    <2>6. CASE th[u].pc # "find"
        BY <1>1, <2>6 DEF Searches
    <2> QED BY <2>5, <2>6
<1> QED BY <1>3, <1>4, <1>5

(* The others are where they were. *)
LEMMA OtherPlace ==
    ASSUME ListInv, NEW t \in Threads, Others(t), Gentle(t), NEW u \in Threads, u # t,
           th[u].pc = "walk" => Leads(th[u].pred, th[u].level, th[u].node)'
    PROVE  Place(u)'
<1>0. NodesOK /\ ThreadsOK /\ Hands /\ Marks /\ Control(u) /\ Found(u) /\ Made(u) /\ Chosen(u)
      /\ \A j \in Levels : Holds(u, j)
    BY DEF ListInv, Place
<1>1. th'[u] = th[u] /\ th[u].level \in Levels /\ th[u].node \in Pointers
    BY <1>0, ThreadFacts DEF Others
<1>2. Control(u)'
    BY <1>0, <1>1 DEF Control
<1>3. Searches(u)'
    BY OtherNotes
<1>4. Found(u)'
    <2>1. CASE th[u].pc \in Inserting
        <3>1. \A j \in Levels : Noted(u, j)
            BY <1>0, <2>1 DEF Found
        <3>2. \A j \in Levels : Noted(u, j)'
            BY <3>1, OtherNotes
        <3>3. \A i, j \in Levels : i < j => Lower(th[u].preds[j], th[u].preds[i])
            BY <1>0, <2>1 DEF Found
        <3>4. \A i, j \in Levels : i < j => Lower(th[u].preds[j], th[u].preds[i])'
            BY <3>1, <3>3, OtherNotes
        <3>5. th[u].succs[0] # tail_ => node'[th[u].succs[0]].data = node[th[u].succs[0]].data
            <4>1. 0 \in Levels /\ (th[u].succs[0] # tail_ => Entered(th[u].succs[0], 0))
                BY <1>0, <2>1, Constants, NotedFacts
            <4> QED BY <1>0, <4>1, GentleEntered
        <3>6. th[u].pc \in {"found", "await"} =>
                  th[u].succs[0] # tail_ /\ node'[th[u].succs[0]].data = th[u].key
            BY <1>0, <2>1, <3>5 DEF Found
        <3>7. th[u].pc = "lock" => th[u].succs[0] = tail_ \/ th[u].key < node'[th[u].succs[0]].data
            BY <1>0, <2>1, <3>5 DEF Found
        <3> QED BY <1>1, <3>2, <3>4, <3>6, <3>7 DEF Found
    <2>2. CASE th[u].pc \notin Inserting
        BY <1>1, <2>2 DEF Found
    <2> QED BY <2>1, <2>2
<1>5. Made(u)'
    <2>1. CASE th[u].op = "insert" /\ th[u].result = "none"
        <3>1. /\ node'[th[u].node].data = node[th[u].node].data
              /\ node'[th[u].node].top_level = node[th[u].node].top_level
            BY <2>1, OtherNode
        <3> QED BY <1>0, <1>1, <3>1 DEF Made, Inserts
    <2>2. CASE ~(th[u].op = "insert" /\ th[u].result = "none")
        <3>1. ~Inserts(u, th[u].node)' /\ th'[u].pc \notin {"lock", "link", "linked"}
            BY <1>0, <1>1, <2>2 DEF Inserts, Control, Inserting
        <3> QED BY <3>1 DEF Made
    <2> QED BY <2>1, <2>2
<1>6. Chosen(u)'
    <2> PICK v : v = th[u].node
        OBVIOUS
    <2>1. CASE th[u].pc = "check"
        <3>1. Entered(v, 0) /\ v # head_ /\ node[v].data = th[u].key /\ 0 \in Levels
            BY <1>0, <2>1, Constants DEF Chosen
        <3>2. Entered(v, 0)' /\ node'[v].data = node[v].data
            BY <1>0, <3>1, GentleEntered
        <3>3. Entered(th[u].node, 0)'
            BY <1>1, <3>2
        <3> QED BY <1>1, <2>1, <3>1, <3>2, <3>3 DEF Chosen
    <2>2. CASE th[u].pc = "mark"
        <3>1. v \in DOMAIN node \ {head_, tail_} /\ node[v].fully_linked /\ node[v].data = th[u].key
            BY <1>0, <2>2 DEF Chosen
        <3>2. v \in DOMAIN node' /\ node'[v].fully_linked /\ node'[v].data = node[v].data
            BY <3>1 DEF Gentle, SameId
        <3> QED BY <1>1, <2>2, <3>1, <3>2 DEF Chosen
    <2>3. CASE th[u].pc \in {"walk", "splice", "retire"}
        <3>1. v \in DOMAIN node /\ node[v].fully_linked /\ node[v].data = th[u].key
            BY <2>3, Victim
        <3>2. v \in DOMAIN node' /\ node'[v].data = node[v].data /\ node'[v].top_level = node[v].top_level
            BY <3>1 DEF Gentle, SameId
        <3>3. CASE th[u].pc \in {"walk", "splice"}
            <4> PICK p : p = th[u].pred
                OBVIOUS
            <4> PICK l \in Levels : l = th[u].level
                BY <1>1
            <4>1. l <= node[v].top_level /\ Entered(p, l) /\ node[p].data < th[u].key
                BY <1>0, <3>3 DEF Chosen
            <4>2. Entered(p, l)' /\ node'[p].data = node[p].data
                BY <1>0, <4>1, GentleEntered
            <4>3. Entered(th[u].pred, th[u].level)'
                BY <1>1, <4>2
            <4> QED BY <1>1, <3>1, <3>2, <3>3, <4>1, <4>2, <4>3 DEF Chosen
        <3>4. CASE th[u].pc = "retire"
            BY <1>1, <3>1, <3>2, <3>4 DEF Chosen
        <3> QED BY <2>3, <3>3, <3>4
    <2>4. CASE th[u].pc \notin {"check", "mark", "walk", "splice", "retire"}
        BY <1>1, <2>4 DEF Chosen
    <2> QED BY <2>1, <2>2, <2>3, <2>4
<1>7. ASSUME NEW j \in Levels PROVE Holds(u, j)'
    <2>1. CASE th[u].pc \in {"lock", "link", "linked", "unlock"}
        <3> PICK p : p = th[u].preds[j]
            OBVIOUS
        <3> PICK s : s = th[u].succs[j]
            OBVIOUS
        <3>1. th[u].pc \in Inserting /\ p \in DOMAIN node /\ (s # tail_ => Entered(s, j))
            BY <1>0, <2>1, NotedFacts DEF Inserting
        <3>2. Locked(u, j) => node[p].owner = u
            BY <1>0 DEF Holds
        <3>3. Locked(u, j) => node'[p].owner = u /\ node'[p].marked = node[p].marked /\ node'[p].next = node[p].next
            BY <3>1, <3>2 DEF Gentle, SameNext
        <3>4. Validated(u, j) => /\ Locked(u, j) /\ ~node[p].marked /\ node[p].next[j] = s
                                 /\ s = tail_ \/ th[u].key < node[s].data
            BY <1>0, ValidatedLocked DEF Holds
        <3>5. s # tail_ => node'[s].data = node[s].data
            BY <1>0, <3>1, GentleEntered
        <3>6. ASSUME Unlinked(u, j) PROVE node'[th[u].node].next[j] = s
            <4>1. th[u].op = "insert" /\ th[u].result = "none"
                BY <1>0, <3>6 DEF Unlinked, Control, Inserting
            <4>2. j <= node[th[u].node].top_level /\ ~Linking(u, th[u].node, j) /\ node[th[u].node].next[j] = s
                BY <1>0, <1>1, <3>6, Constants DEF Unlinked, Linking, Holds
            <4> QED BY <4>1, <4>2, OtherNode
        <3>7. Locked(u, j)' => (node[th[u].preds[j]].owner = u)'
            BY <1>1, <3>3, OtherLocked
        <3>8. Validated(u, j)' => /\ (~node[th[u].preds[j]].marked)'
                                  /\ (node[th[u].preds[j]].next[j] = th[u].succs[j])'
                                  /\ (th[u].succs[j] = tail_ \/ th[u].key < node[th[u].succs[j]].data)'
            BY <1>1, <3>3, <3>4, <3>5, OtherLocked
        <3>9. Unlinked(u, j)' => (node[th[u].node].next[j] = th[u].succs[j])'
            BY <1>1, <3>6, OtherLocked
        <3> QED BY <3>7, <3>8, <3>9 DEF Holds
    <2>2. CASE th[u].pc \notin {"lock", "link", "linked", "unlock"}
        BY <1>1, <2>2 DEF Holds, Locked, Validated, Unlinked
    <2> QED BY <2>1, <2>2
<1> QED BY <1>2, <1>3, <1>4, <1>5, <1>6, <1>7 DEF Place

(* The others' mutexes. *)
LEMMA OtherOwners ==
    ASSUME ListInv, NEW t \in Threads, Others(t), Gentle(t), NEW u \in Threads, u # t,
           NEW n \in DOMAIN node', node'[n].owner = u
    PROVE  \E j \in Levels : Locked(u, j)' /\ th'[u].preds[j] = n
<1>0. Owners
    BY DEF ListInv
<1>1. n \in DOMAIN node /\ node[n].owner = u
    BY DEF Gentle
<1>2. PICK j \in Levels : Locked(u, j) /\ th[u].preds[j] = n
    BY <1>0, <1>1 DEF Owners
<1>3. Locked(u, j)' /\ th'[u] = th[u]
    BY <1>2, OtherLocked DEF Others
<1> QED BY <1>2, <1>3

-----------------------------------------------------------------------------
(* Where a level leads, after a step *)

(* It is as it was. *)
LEMMA LeadsStill ==
    ASSUME NEW p, NEW l \in Levels, NEW n, Leads(p, l, n),
           \A x \in Nodes : Entered(x, l) => Entered(x, l)' /\ node'[x].next[l] = node[x].next[l]
    PROVE  Leads(p, l, n)'
<1> SUFFICES ASSUME NEW S \in SUBSET Nodes, p \in S, Closed(S, l)' PROVE n \in S
    BY DEF Leads
<1>1. Closed(S, l)
    BY DEF Closed
<1> QED BY <1>1 DEF Leads

(* A node has been linked in. *)
LEMMA LeadsThrough ==
    ASSUME NEW p, NEW l \in Levels, NEW n, Leads(p, l, n), NEW a, NEW o, Entered(a, l)', Entered(o, l)',
           node'[a].next[l] = o, node'[o].next[l] = node[a].next[l],
           \A x \in Nodes : Entered(x, l) /\ x # a => Entered(x, l)' /\ node'[x].next[l] = node[x].next[l]
    PROVE  Leads(p, l, n)'
<1> SUFFICES ASSUME NEW S \in SUBSET Nodes, p \in S, Closed(S, l)' PROVE n \in S
    BY DEF Leads
<1>1. \A x \in S : Entered(x, l)' => node'[x].next[l] \in S
    BY DEF Closed
<1>2. ASSUME NEW x \in S, Entered(x, l) PROVE node[x].next[l] \in S
    <2>1. CASE x = a
        <3>1. o \in S
            BY <1>1, <2>1
        <3> QED BY <1>1, <2>1, <3>1
    <2>2. CASE x # a
        BY <1>1, <1>2, <2>2
    <2> QED BY <2>1, <2>2
<1>3. Closed(S, l)
    BY <1>2 DEF Closed
<1> QED BY <1>3 DEF Leads

(* Another node has been taken out. *)
LEMMA LeadsPast ==
    ASSUME NEW p, NEW l \in Levels, NEW n, Leads(p, l, n), NEW a, NEW c \in Nodes, c # n, Entered(a, l)',
           node[a].next[l] = c, node'[a].next[l] = node[c].next[l],
           \A x \in Nodes : Entered(x, l) /\ x # a => Entered(x, l)' /\ node'[x].next[l] = node[x].next[l]
    PROVE  Leads(p, l, n)'
<1> SUFFICES ASSUME NEW S \in SUBSET Nodes, p \in S, Closed(S, l)' PROVE n \in S
    BY DEF Leads
<1>1. \A x \in S : Entered(x, l)' => node'[x].next[l] \in S
    BY DEF Closed
<1>2. CASE a \notin S
    <2>1. Closed(S, l)
        BY <1>1, <1>2 DEF Closed
    <2> QED BY <2>1 DEF Leads
<1>3. CASE a \in S
    <2> DEFINE R == S \cup {c}
    <2>1. ASSUME NEW x \in R, Entered(x, l) PROVE node[x].next[l] \in R
        <3>1. CASE x = a
            BY <3>1
        <3>2. CASE x = c
            BY <1>1, <1>3, <3>2
        <3>3. CASE x # a /\ x # c
            BY <1>1, <2>1, <3>3
        <3> QED BY <3>1, <3>2, <3>3
    <2>2. R \in SUBSET Nodes /\ p \in R
        OBVIOUS
    <2>3. Closed(R, l)
        BY <2>1 DEF Closed
    <2>4. n \in R
        BY <2>2, <2>3 DEF Leads
    <2> QED BY <2>4
<1> QED BY <1>2, <1>3

-----------------------------------------------------------------------------
(* Steps that change nothing of the list *)

(* t does the same work on the same node as before, and links nothing. *)
SameWork(t) ==
    /\ \A n \in Pointers : \A l \in Levels : ~Linking(t, n, l) /\ ~Linking(t, n, l)'
    /\ \A n \in Pointers : Erases(t, n)' <=> Erases(t, n)
    /\ \A n \in Pointers : Inserts(t, n)' <=> Inserts(t, n)
    /\ \A l \in Levels : Past(t, l)' <=> Past(t, l)

(* At most, it takes or gives back mutexes or fills in its own node. *)
Calm(t) ==
    /\ retired' = retired /\ DOMAIN node' = DOMAIN node
    /\ \A n \in DOMAIN node : SameId(n) /\ SameFlags(n)
    /\ \A n \in DOMAIN node : SameNext(n) \/ Inserts(t, n)
    /\ \A u \in Threads : \A n \in DOMAIN node : u # t => (node'[n].owner = u <=> node[n].owner = u)

(* The levels are as they were then. *)
LEMMA CalmLevels ==
    ASSUME ListInv, NodesOK', NEW t \in Threads, Others(t), SameWork(t), Calm(t)
    PROVE  SameLevels
<1>0. NodesOK /\ ThreadsOK
    BY DEF ListInv
<1>1. ASSUME NEW l \in Levels, NEW n \in Nodes, NEW u \in Threads
      PROVE  /\ Linking(u, n, l)' <=> Linking(u, n, l)
             /\ Erases(u, n)' <=> Erases(u, n)
             /\ Past(u, l)' <=> Past(u, l)
    <2>1. CASE u = t
        BY <2>1 DEF SameWork, Pointers
    <2>2. CASE u # t
        BY <2>2, OtherWork
    <2> QED BY <2>1, <2>2
<1>2. ASSUME NEW l \in Levels, NEW n \in Nodes
      PROVE  (Entered(n, l)' <=> Entered(n, l)) /\ (Left(n, l)' <=> Left(n, l))
    <2>1. /\ (\E u \in Threads : Linking(u, n, l)') <=> \E u \in Threads : Linking(u, n, l)
          /\ (\E u \in Threads : Erases(u, n)' /\ Past(u, l)') <=> \E u \in Threads : Erases(u, n) /\ Past(u, l)
        BY <1>1
    <2>2. n \in DOMAIN node => /\ node'[n].top_level = node[n].top_level
                               /\ node'[n].fully_linked = node[n].fully_linked
        BY DEF Calm, SameId, SameFlags
    <2>3. Entered(n, l)' <=> Entered(n, l)
        BY <2>1, <2>2 DEF Calm, Entered
    <2>4. Left(n, l)' <=> Left(n, l)
        BY <2>1 DEF Calm, Left
    <2> QED BY <2>3, <2>4
<1>3. ASSUME NEW l \in Levels, NEW n \in Nodes, Entered(n, l)
      PROVE  SameId(n) /\ node'[n].next[l] = node[n].next[l]
    <2>1. n \in DOMAIN node
        BY <1>0, <1>3, EnteredFacts
    <2>2. ~Inserts(t, n)
        <3>1. ~Linking(t, n, l)
            BY DEF SameWork, Pointers
        <3> QED BY <1>3, <3>1, NotEntered
    <2> QED BY <2>1, <2>2 DEF Calm, SameNext
<1>4. ASSUME NEW l \in Levels PROVE On(l)' = On(l)
    <2>1. DOMAIN node \subseteq Nodes /\ DOMAIN node' = DOMAIN node
        BY <1>0 DEF NodesOK, Calm
    <2> QED BY <1>2, <2>1 DEF On
<1> QED BY <1>2, <1>3, <1>4 DEF SameLevels

(* A locked node is a predecessor, and linked. *)
LEMMA OwnedEntered ==
    ASSUME ListInv, NEW u \in Threads, NEW n \in DOMAIN node, node[n].owner = u
    PROVE  /\ \E j \in Levels : Locked(u, j) /\ th[u].preds[j] = n /\ Entered(n, j)
           /\ th[u].pc \in {"lock", "link", "linked", "unlock"}
<1>0. NodesOK /\ ThreadsOK /\ Owners /\ Found(u)
    BY DEF ListInv, Place
<1>1. PICK j \in Levels : Locked(u, j) /\ th[u].preds[j] = n
    BY <1>0 DEF Owners
<1>2. th[u].pc \in {"lock", "link", "linked", "unlock"}
    BY <1>1 DEF Locked
<1>3. Entered(n, j)
    BY <1>0, <1>1, <1>2, NotedFacts DEF Inserting
<1> QED BY <1>1, <1>2, <1>3

(* The invariant after a step, from its parts. *)
LEMMA Together ==
    ASSUME ListInv, NEW t \in Threads, NodesOK', ThreadsOK', Others(t), Gentle(t),
           Hands', Marks', Forward', Chains', Place(t)',
           \A u \in Threads : u # t /\ th[u].pc = "walk" => Leads(th[u].pred, th[u].level, th[u].node)',
           \A n \in DOMAIN node' : node'[n].owner = t => \E j \in Levels : Locked(t, j)' /\ th'[t].preds[j] = n
    PROVE  ListInv'
<1>1. \A u \in Threads : Place(u)'
    <2> TAKE u \in Threads
    <2>1. CASE u = t
        BY <2>1
    <2>2. CASE u # t
        BY <2>2, OtherPlace
    <2> QED BY <2>1, <2>2
<1>2. \A n \in DOMAIN node' : \A u \in Threads :
          node'[n].owner = u => \E j \in Levels : Locked(u, j)' /\ th'[u].preds[j] = n
    <2> TAKE n \in DOMAIN node'
    <2> TAKE u \in Threads
    <2>1. CASE u = t
        BY <2>1
    <2>2. CASE u # t
        BY <2>2, OtherOwners
    <2> QED BY <2>1, <2>2
<1>3. Owners'
    BY <1>2 DEF Owners
<1> QED BY <1>1, <1>3 DEF ListInv

(* A calm step keeps the invariant, if it keeps what it says of t. *)
LEMMA CalmStep ==
    ASSUME ListInv, NEW t \in Threads, NodesOK', ThreadsOK', Others(t), SameWork(t), Calm(t), Place(t)',
           \A n \in DOMAIN node' : node'[n].owner = t => \E j \in Levels : Locked(t, j)' /\ th'[t].preds[j] = n
    PROVE  ListInv'
<1>0. NodesOK /\ ThreadsOK /\ Hands /\ Marks
    BY DEF ListInv
<1>1. SameLevels
    BY CalmLevels
<1>2. Forward' /\ Chains'
    BY <1>1, SameLevelsKeep
<1>3. ASSUME NEW u \in Threads, NEW n \in Pointers
      PROVE  (Erases(u, n)' <=> Erases(u, n)) /\ (Inserts(u, n)' <=> Inserts(u, n))
    <2>1. CASE u = t
        BY <2>1 DEF SameWork
    <2>2. CASE u # t
        BY <2>2, OtherWork
    <2> QED BY <2>1, <2>2
<1>4. /\ retired' = retired /\ DOMAIN node' = DOMAIN node /\ DOMAIN node \subseteq Pointers /\ Nodes \subseteq Pointers
      /\ \A n \in DOMAIN node : node'[n].marked = node[n].marked /\ node'[n].fully_linked = node[n].fully_linked
    BY <1>0 DEF Calm, SameFlags, NodesOK, Pointers
<1>5. Hands'
    <2>1. \A u \in Threads : \A n \in Pointers : Inserts(u, n)' =>
              n \in DOMAIN node' \ {head_, tail_} /\ ~node'[n].fully_linked
        BY <1>0, <1>3, <1>4 DEF Hands
    <2>2. \A u, w \in Threads : \A n \in Nodes : Inserts(u, n)' /\ Inserts(w, n)' => u = w
        BY <1>0, <1>3, <1>4 DEF Hands
    <2>3. \A n \in DOMAIN node' \ {head_, tail_} : node'[n].fully_linked \/ \E u \in Threads : Inserts(u, n)'
        BY <1>0, <1>3, <1>4 DEF Hands
    <2> QED BY <2>1, <2>2, <2>3 DEF Hands
<1>6. Marks'
    <2>1. retired' \subseteq DOMAIN node' /\ \A n \in retired' : node'[n].marked
        BY <1>0, <1>4 DEF Marks
    <2>2. \A n \in DOMAIN node' : node'[n].marked =>
              node'[n].fully_linked /\ (n \in retired' \/ \E u \in Threads : Erases(u, n)')
        BY <1>0, <1>3, <1>4 DEF Marks
    <2>3. \A u \in Threads : \A n \in Pointers : Erases(u, n)' =>
              n \in DOMAIN node' \ retired' /\ node'[n].marked
        BY <1>0, <1>3, <1>4 DEF Marks
    <2>4. \A u, w \in Threads : \A n \in Nodes : Erases(u, n)' /\ Erases(w, n)' => u = w
        BY <1>0, <1>3, <1>4 DEF Marks
    <2> QED BY <2>1, <2>2, <2>3, <2>4 DEF Marks
<1>7. Gentle(t)
    <2>1. \A n \in Nodes : \A l \in Levels : Entered(n, l) => Entered(n, l)' /\ SameId(n)
        BY <1>1 DEF SameLevels
    <2>2. \A n \in DOMAIN node : node[n].fully_linked => n \in DOMAIN node' /\ node'[n].fully_linked /\ SameId(n)
        BY <1>4 DEF Calm
    <2>3. ASSUME NEW u \in Threads, NEW n \in Nodes, u # t, Inserts(u, n)
          PROVE  n \in DOMAIN node' /\ SameId(n) /\ SameNext(n)
        <3>1. n \in DOMAIN node
            BY <1>0, <1>4, <2>3 DEF Hands
        <3>2. ~Inserts(t, n)
            BY <1>0, <2>3 DEF Hands
        <3> QED BY <1>4, <3>1, <3>2 DEF Calm
    <2>4. ASSUME NEW u \in Threads, NEW n \in DOMAIN node, u # t, node[n].owner = u
          PROVE  n \in DOMAIN node' /\ node'[n].owner = u /\ node'[n].marked = node[n].marked /\ SameNext(n)
        <3>1. PICK j \in Levels : Entered(n, j)
            BY <2>4, OwnedEntered
        <3>2. ~Inserts(t, n)
            <4>1. ~Linking(t, n, j)
                BY <1>4 DEF SameWork
            <4> QED BY <3>1, <4>1, NotEntered
        <3> QED BY <1>4, <2>4, <3>2 DEF Calm
    <2>5. \A u \in Threads : \A n \in DOMAIN node' : u # t /\ node'[n].owner = u =>
              n \in DOMAIN node /\ node[n].owner = u
        BY <1>4 DEF Calm
    <2> QED BY <2>1, <2>2, <2>3, <2>4, <2>5 DEF Gentle, SameNext
<1>8. ASSUME NEW u \in Threads, u # t, th[u].pc = "walk" PROVE Leads(th[u].pred, th[u].level, th[u].node)'
    <2> PICK l \in Levels : l = th[u].level
        BY <1>0, ThreadFacts
    <2> PICK p : p = th[u].pred
        OBVIOUS
    <2> PICK v : v = th[u].node
        OBVIOUS
    <2>1. Leads(p, l, v)
        BY <1>8 DEF ListInv, Place, Chosen
    <2>2. Leads(p, l, v)'
        BY <1>1, <2>1, LeadsStill DEF SameLevels
    <2>3. th'[u] = th[u]
        BY <1>8 DEF Others
    <2>4. th'[u].pred = p /\ th'[u].level = l /\ th'[u].node = v
        BY <2>3
    <2> QED BY <2>2, <2>4
<1> QED BY <1>2, <1>5, <1>6, <1>7, <1>8, Together

-----------------------------------------------------------------------------
(* The thread that takes the step *)

(* A call is over. *)
Rests(t) ==
    \/ th'[t] = Idle
    \/ th'[t].pc = "done" /\ th'[t].node = null /\ th'[t].result # "none"

(* Nothing is said of t then. *)
LEMMA RestPlace ==
    ASSUME NEW t \in Threads, Rests(t)
    PROVE  /\ Place(t)' /\ th'[t].pc \in {"idle", "done"}
           /\ \A n : ~Inserts(t, n)' /\ ~Erases(t, n)'
           /\ \A n, l : ~Linking(t, n, l)' /\ ~Past(t, l)'
<1>1. /\ th'[t].pc \in {"idle", "done"} /\ ~(th'[t].op = "insert" /\ th'[t].result = "none")
      /\ th'[t].pc = "idle" => th'[t] = Idle
      /\ th'[t].pc = "done" => th'[t].node = null /\ th'[t].result # "none"
    BY DEF Rests, Idle
<1>2. Control(t)'
    BY <1>1 DEF Control, Inserting
<1>3. Searches(t)' /\ Found(t)' /\ Chosen(t)' /\ \A j \in Levels : Holds(t, j)'
    BY <1>1 DEF Searches, Found, Chosen, Holds, Locked, Validated, Unlinked, Inserting
<1>4. Made(t)'
    BY <1>1 DEF Made, Inserts
<1> QED BY <1>1, <1>2, <1>3, <1>4 DEF Place, Inserts, Erases, Linking, Past

(* A search begins. *)
LEMMA HeadPlace ==
    ASSUME NodesOK', NEW t \in Threads, AtHead(t), th'[t].key \in Keys, th'[t].result = "none",
           th'[t].op \in {"insert", "erase", "contains"}, th'[t].op # "insert" => th'[t].node = null,
           th'[t].op = "insert" => node'[th'[t].node].data = th'[t].key
    PROVE  Place(t)'
<1>1. th'[t].pc = "find" /\ th'[t].level = max_level /\ th'[t].pred = head_
    BY DEF AtHead
<1>2. Control(t)'
    BY <1>1 DEF Control, Inserting
<1>3. Entered(th[t].pred, th[t].level)'
    BY <1>1 DEF Entered
<1>4. (node[th[t].pred].data < th[t].key)'
    BY <1>1, Constants DEF NodesOK
<1>5. \A j \in Levels : ~(th'[t].level < j)
    BY <1>1, Constants DEF Levels
<1>6. Searches(t)'
    BY <1>3, <1>4, <1>5 DEF Searches
<1>7. Found(t)' /\ Chosen(t)' /\ \A j \in Levels : Holds(t, j)'
    BY <1>1 DEF Found, Chosen, Holds, Locked, Validated, Unlinked, Inserting
<1>8. Made(t)'
    BY <1>1 DEF Made, Inserts
<1> QED BY <1>2, <1>6, <1>7, <1>8 DEF Place

Busy == {"lock", "link", "linked", "unlock", "walk", "splice", "retire"}

(* A step that only changes the record of t, which holds no mutex. *)
LEMMA QuietStep ==
    ASSUME ListInv, NEW t \in Threads, NodesOK', ThreadsOK', Others(t), node' = node, retired' = retired,
           th[t].pc \notin Busy, th'[t].pc \notin Busy,
           \A n \in Pointers : Inserts(t, n)' <=> Inserts(t, n), Place(t)'
    PROVE  ListInv'
<1>1. SameWork(t)
    BY DEF SameWork, Linking, Erases, Past, Busy
<1>2. Calm(t)
    BY DEF Calm, SameId, SameFlags, SameNext
<1>3. \A n \in DOMAIN node' : node'[n].owner # t
    BY OwnedEntered DEF Busy
<1> QED BY <1>1, <1>2, <1>3, CalmStep

(* empty(), and the return from a call. *)
LEMMA OtherSteps ==
    ASSUME ListInv, NEW t \in Threads, Empty(t) \/ Return(t)
    PROVE  ListInv'
<1>0. NodesOK /\ ThreadsOK /\ Control(t)
    BY DEF ListInv, Place
<1>1. /\ ThreadsOK' /\ node' = node /\ NodesOK' /\ retired' = retired /\ Others(t)
      /\ th[t].pc \in {"idle", "done"}
      /\ \/ /\ th'[t].pc = "done" /\ th'[t].node = null /\ th'[t].op = "empty" /\ th'[t].result # "none"
         \/ th'[t] = Idle
    BY <1>0, OtherTurns DEF Others
<1>2. Rests(t)
    BY <1>1 DEF Rests
<1>3. \A n \in Pointers : ~Inserts(t, n)
    BY <1>0, <1>1 DEF Control, Inserts, Idle
<1>4. /\ Place(t)' /\ th'[t].pc \in {"idle", "done"} /\ \A n : ~Inserts(t, n)'
    BY <1>2, RestPlace
<1> QED BY <1>1, <1>3, <1>4, QuietStep DEF Busy

(* A call of erase or contains. *)
LEMMA LookupCallStep ==
    ASSUME ListInv, NEW t \in Threads, NEW op \in {"erase", "contains"}, NEW k \in Keys, Call(t, op, k)
    PROVE  ListInv'
<1>0. NodesOK /\ ThreadsOK /\ Control(t)
    BY DEF ListInv, Place
<1>1. /\ ThreadsOK' /\ NodesOK' /\ AtHead(t) /\ Others(t)
      /\ th[t].pc = "idle" /\ th'[t].op = op /\ th'[t].key = k /\ th'[t].result = "none"
      /\ retired' = retired /\ th'[t].node = null /\ node' = node
    BY <1>0, CallTurn DEF Others
<1>2. Place(t)'
    BY <1>1, HeadPlace
<1>3. \A n \in Pointers : Inserts(t, n)' <=> Inserts(t, n)
    BY <1>0, <1>1 DEF Control, Inserts, Idle
<1>4. th[t].pc \notin Busy /\ th'[t].pc \notin Busy
    BY <1>1 DEF AtHead, Busy
<1> QED BY <1>1, <1>2, <1>3, <1>4, QuietStep

(* contains and erase look at the flags of the node they have found. *)
LEMMA ChecksStep ==
    ASSUME ListInv, NEW t \in Threads, ContainsChecks(t) \/ EraseChecks(t)
    PROVE  ListInv'
<1>0. NodesOK /\ ThreadsOK /\ Control(t) /\ Chosen(t)
    BY DEF ListInv, Place
<1>1. /\ ThreadsOK' /\ NodesOK' /\ node' = node /\ retired' = retired /\ Others(t) /\ th[t].pc = "check"
      /\ \/ Answers(t, "true")
         \/ Answers(t, "false")
         \/ /\ th[t].op = "erase" /\ AtHead(t)
            /\ th'[t].op = th[t].op /\ th'[t].key = th[t].key /\ th'[t].node = null
            /\ th'[t].result = th[t].result
         \/ /\ th[t].op = "erase" /\ node[th[t].node].fully_linked
            /\ th'[t].pc = "mark" /\ SameCall(t)
    BY ChecksTurn DEF Others
<1>2. th[t].op \in {"erase", "contains"} /\ th[t].result = "none" /\ th[t].key \in Keys /\ th[t].pc \notin Busy
    BY <1>0, <1>1 DEF Control, Busy
<1>3. \A n \in Pointers : ~Inserts(t, n)
    BY <1>2 DEF Inserts
<1>4. CASE Answers(t, "true") \/ Answers(t, "false")
    <2>1. Rests(t)
        BY <1>4 DEF Rests, Answers
    <2>2. Place(t)' /\ th'[t].pc \in {"idle", "done"} /\ \A n : ~Inserts(t, n)'
        BY <2>1, RestPlace
    <2> QED BY <1>1, <1>2, <1>3, <2>2, QuietStep DEF Busy
<1>5. CASE /\ th[t].op = "erase" /\ AtHead(t) /\ th'[t].op = th[t].op /\ th'[t].key = th[t].key
           /\ th'[t].node = null /\ th'[t].result = th[t].result
    <2>1. Place(t)'
        BY <1>1, <1>2, <1>5, HeadPlace
    <2>2. th'[t].pc \notin Busy /\ \A n \in Pointers : ~Inserts(t, n)'
        BY <1>2, <1>5 DEF Busy, AtHead, Inserts
    <2> QED BY <1>1, <1>2, <1>3, <2>1, <2>2, QuietStep
<1>6. CASE th[t].op = "erase" /\ node[th[t].node].fully_linked /\ th'[t].pc = "mark" /\ SameCall(t)
    <2>1. /\ th'[t].op = "erase" /\ th'[t].key = th[t].key /\ th'[t].node = th[t].node /\ th'[t].result = "none"
        BY <1>2, <1>6 DEF SameCall
    <2>2. Control(t)'
        BY <1>2, <1>6, <2>1 DEF Control, Inserting
    <2>3. Searches(t)' /\ Found(t)' /\ \A j \in Levels : Holds(t, j)'
        BY <1>6 DEF Searches, Found, Holds, Locked, Validated, Unlinked, Inserting
    <2>4. Made(t)' /\ \A n \in Pointers : ~Inserts(t, n)'
        BY <1>6, <2>1 DEF Made, Inserts
    <2>5. th[t].node \in DOMAIN node \ {head_, tail_} /\ node[th[t].node].data = th[t].key
        <3>1. Entered(th[t].node, 0) /\ th[t].node # head_ /\ node[th[t].node].data = th[t].key
            BY <1>0, <1>1 DEF Chosen
        <3> QED BY <1>0, <3>1, EnteredFacts, Constants
    <2>6. Chosen(t)'
        BY <1>1, <1>6, <2>1, <2>5 DEF Chosen
    <2>7. Place(t)'
        BY <2>2, <2>3, <2>4, <2>6 DEF Place
    <2> QED BY <1>1, <1>2, <1>3, <1>6, <2>4, <2>7, QuietStep DEF Busy
<1> QED BY <1>1, <1>4, <1>5, <1>6

(* insert has met an equal node. *)
LEMMA InsertFoundStep ==
    ASSUME ListInv, NEW t \in Threads, InsertFound(t)
    PROVE  ListInv'
<1>0. NodesOK /\ ThreadsOK /\ Hands /\ Control(t) /\ Found(t) /\ Made(t)
    BY DEF ListInv, Place
<1>1. /\ ThreadsOK' /\ NodesOK' /\ node' = node /\ retired' = retired /\ Others(t)
      /\ th[t].pc = "found" /\ SameCall(t)
      /\ AtHead(t) \/ (th'[t].pc = "await" /\ SameNotes(t))
    BY InsertFoundTurn DEF Others
<1>2. th[t].op = "insert" /\ th[t].result = "none" /\ th[t].key \in Keys /\ th[t].pc \notin Busy
      /\ node[th[t].node].data = th[t].key
    BY <1>0, <1>1 DEF Control, Busy, Inserting, Made, Inserts
<1>3. th'[t].op = "insert" /\ th'[t].result = "none" /\ th'[t].key = th[t].key /\ th'[t].node = th[t].node
      /\ \A n \in Pointers : Inserts(t, n)' <=> Inserts(t, n)
    BY <1>1, <1>2 DEF Inserts, SameCall
<1>4. CASE AtHead(t)
    <2>1. Place(t)'
        BY <1>1, <1>2, <1>3, <1>4, HeadPlace
    <2>2. th'[t].pc \notin Busy
        BY <1>4 DEF Busy, AtHead
    <2> QED BY <1>1, <1>2, <1>3, <2>1, <2>2, QuietStep
<1>5. CASE th'[t].pc = "await" /\ SameNotes(t)
    <2>0. SameWork(t) /\ Calm(t)
        BY <1>1, <1>3, <1>5 DEF SameWork, Linking, Erases, Past, Calm, SameId, SameFlags, SameNext
    <2>1. SameLevels
        BY <1>1, <2>0, CalmLevels
    <2>2. \A j \in Levels : Noted(t, j)'
        <3> TAKE j \in Levels
        <3>1. Noted(t, j) /\ th[t].preds[j] \in Nodes /\ th[t].succs[j] \in Nodes
            <4>1. Noted(t, j)
                BY <1>0, <1>1 DEF Found, Inserting
            <4> QED BY <1>0, <1>1, <4>1, NotedFacts, NodeFacts DEF Inserting
        <3> PICK p \in Nodes : p = th[t].preds[j]
            BY <3>1
        <3> PICK s \in Nodes : s = th[t].succs[j]
            BY <3>1
        <3>2. (Entered(p, j)' <=> Entered(p, j)) /\ (Entered(s, j)' <=> Entered(s, j))
            BY <2>1 DEF SameLevels
        <3>3. th'[t].preds[j] = p /\ th'[t].succs[j] = s
            BY <1>5 DEF SameNotes
        <3>4. /\ Entered(p, j)' /\ node'[p].data < th'[t].key
              /\ s = tail_ \/ (Entered(s, j)' /\ th'[t].key <= node'[s].data)
            BY <1>1, <1>3, <3>1, <3>2 DEF Noted
        <3> QED BY <3>3, <3>4 DEF Noted
    <2>3. \A i, j \in Levels : i < j => Lower(th[t].preds[j], th[t].preds[i])'
        BY <1>0, <1>1, <1>5 DEF Found, Inserting, Lower, SameNotes
    <2>4. th'[t].succs[0] # tail_ /\ node'[th'[t].succs[0]].data = th'[t].key
        BY <1>0, <1>1, <1>3, <1>5 DEF Found, Inserting, SameNotes
    <2>5. Found(t)'
        BY <1>5, <2>2, <2>3, <2>4 DEF Found
    <2>6. Control(t)'
        BY <1>2, <1>3, <1>5 DEF Control, Inserting
    <2>7. Searches(t)' /\ Chosen(t)' /\ \A j \in Levels : Holds(t, j)'
        BY <1>5 DEF Searches, Chosen, Holds, Locked, Validated, Unlinked, Inserting
    <2>8. Made(t)'
        BY <1>1, <1>2, <1>3, <1>5 DEF Made, Inserts
    <2>9. Place(t)'
        BY <2>5, <2>6, <2>7, <2>8 DEF Place
    <2> QED BY <1>1, <1>2, <1>3, <1>5, <2>9, QuietStep DEF Busy
<1> QED BY <1>1, <1>4, <1>5

-----------------------------------------------------------------------------
(* find *)

(* What is linked stays linked. *)
Stays == \A n \in Nodes : \A l \in Levels : Entered(n, l) => Entered(n, l)' /\ SameId(n)

(* What find has recorded stays true. *)
LEMMA NotedStays ==
    ASSUME NodesOK, Stays, NEW t \in Threads, NEW j \in Levels, Noted(t, j), th'[t].key = th[t].key,
           th'[t].preds[j] = th[t].preds[j], th'[t].succs[j] = th[t].succs[j]
    PROVE  Noted(t, j)' /\ node'[th[t].preds[j]].data = node[th[t].preds[j]].data
<1> PICK p : p = th[t].preds[j]
    OBVIOUS
<1> PICK s : s = th[t].succs[j]
    OBVIOUS
<1>1. /\ Entered(p, j) /\ node[p].data < th[t].key
      /\ s = tail_ \/ (Entered(s, j) /\ th[t].key <= node[s].data)
    BY DEF Noted
<1>2. p \in Nodes /\ (s # tail_ => s \in Nodes)
    BY <1>1, EnteredFacts
<1>3. Entered(p, j)' /\ node'[p].data = node[p].data
    BY <1>1, <1>2 DEF Stays, SameId
<1>4. s # tail_ => Entered(s, j)' /\ node'[s].data = node[s].data
    BY <1>1, <1>2 DEF Stays, SameId
<1>5. th'[t].preds[j] = p /\ th'[t].succs[j] = s
    OBVIOUS
<1> QED BY <1>1, <1>3, <1>4, <1>5 DEF Noted

(* A node that is linked at a level is linked at the levels below. *)
LEMMA EnteredBelow ==
    ASSUME NodesOK, ThreadsOK, NEW l \in Levels, NEW n, Entered(n, l), NEW i \in Levels, i <= l
    PROVE  Entered(n, i)
<1>1. CASE n = head_
    BY <1>1 DEF Entered
<1>2. CASE n # head_
    <2>1. n \in DOMAIN node \ {head_, tail_} /\ l <= node[n].top_level
          /\ (node[n].fully_linked \/ \E t \in Threads : Linking(t, n, l))
        BY <1>2 DEF Entered
    <2>2. i <= node[n].top_level
        BY <2>1, NodeFacts, Constants
    <2>3. \A t \in Threads : Linking(t, n, l) => Linking(t, n, i)
        <3> SUFFICES ASSUME NEW t \in Threads, Linking(t, n, l) PROVE Linking(t, n, i)
            OBVIOUS
        <3>1. th[t].level \in Nat
            BY ThreadFacts
        <3>2. l < th[t].level => i < th[t].level
            BY <3>1, Constants
        <3> QED BY <3>2 DEF Linking
    <2> QED BY <2>1, <2>2, <2>3 DEF Entered
<1> QED BY <1>1, <1>2

(* find records a level and those above are recorded. *)
LEMMA NotesTaken ==
    ASSUME ListInv, Stays, NEW t \in Threads, th[t].pc = "find", ~Before(Curr(t), th[t].key),
           Notes(t), th'[t].key = th[t].key
    PROVE  /\ \A j \in Levels : th[t].level <= j =>
                 Noted(t, j)' /\ (th'[t].preds[j] = th[t].pred \/ node'[th'[t].preds[j]].data < node'[th[t].pred].data)
           /\ \A i, j \in Levels : th[t].level <= i /\ i < j => Lower(th[t].preds[j], th[t].preds[i])'
           /\ th'[t].preds[th[t].level] = th[t].pred /\ th'[t].succs[th[t].level] = Curr(t)
<1>0. NodesOK /\ ThreadsOK /\ Forward /\ Searches(t)
    BY DEF ListInv, Place
<1>1. th[t].level \in Levels /\ th[t].preds \in [Levels -> Pointers] /\ th[t].succs \in [Levels -> Pointers]
      /\ th[t].key \in Nat
    BY <1>0, ThreadFacts
<1> PICK l \in Levels : l = th[t].level
    BY <1>1
<1> PICK p : p = th[t].pred
    OBVIOUS
<1> PICK c : c = Curr(t)
    OBVIOUS
<1>2. /\ th'[t].preds[l] = p /\ th'[t].succs[l] = c
      /\ \A j \in Levels : j # l => th'[t].preds[j] = th[t].preds[j] /\ th'[t].succs[j] = th[t].succs[j]
    BY <1>1 DEF Notes
<1>3. /\ Entered(p, l) /\ node[p].data < th[t].key
      /\ \A j \in Levels : l < j => Noted(t, j) /\ Lower(th[t].preds[j], p)
      /\ \A i, j \in Levels : l < i /\ i < j => Lower(th[t].preds[j], th[t].preds[i])
    BY <1>0 DEF Searches
<1>4. Entered(p, l)' /\ node'[p].data = node[p].data
    <2>1. p \in Nodes
        BY <1>0, <1>3, EnteredFacts
    <2> QED BY <1>3, <2>1 DEF Stays, SameId
<1>5. c = tail_ \/ (Entered(c, l)' /\ th[t].key <= node'[c].data)
    <2>1. CASE c = tail_
        BY <2>1
    <2>2. CASE c # tail_
        <3>1. Entered(c, l) /\ c \in Nodes /\ c \in DOMAIN node
            BY <1>0, <1>3, <2>2, CurrFacts
        <3>2. Entered(c, l)' /\ node'[c].data = node[c].data
            BY <3>1 DEF Stays, SameId
        <3>3. ~(node[c].data < th[t].key) /\ node[c].data \in Nat
            BY <1>0, <2>2, <3>1, NodeFacts DEF Before
        <3> QED BY <1>1, <3>2, <3>3
    <2> QED BY <2>1, <2>2
<1>6. Noted(t, l)'
    <2>1. Entered(th[t].preds[l], l)' /\ (th[t].succs[l] = tail_ \/ Entered(th[t].succs[l], l))'
        BY <1>2, <1>4, <1>5
    <2> QED BY <1>2, <1>3, <1>4, <1>5, <2>1 DEF Noted
<1>7. ASSUME NEW j \in Levels, l < j
      PROVE  /\ Noted(t, j)' /\ th'[t].preds[j] = th[t].preds[j]
             /\ node'[th[t].preds[j]].data = node[th[t].preds[j]].data
    <2>1. j # l /\ Noted(t, j)
        BY <1>3, <1>7, Constants
    <2> QED BY <1>0, <1>2, <2>1, NotedStays
<1>8. ASSUME NEW j \in Levels, l <= j
      PROVE  Noted(t, j)' /\ (th'[t].preds[j] = p \/ node'[th'[t].preds[j]].data < node'[p].data)
    <2>1. CASE j = l
        BY <1>2, <1>6, <2>1
    <2>2. CASE j # l
        <3>1. l < j
            BY <1>8, <2>2, Constants
        <3>2. Lower(th[t].preds[j], p)
            BY <1>3, <3>1
        <3> QED BY <1>4, <1>7, <3>1, <3>2 DEF Lower
    <2> QED BY <2>1, <2>2
<1>9. ASSUME NEW i \in Levels, NEW j \in Levels, l <= i, i < j PROVE Lower(th[t].preds[j], th[t].preds[i])'
    <2>1. CASE i = l
        <3>1. th'[t].preds[j] = p \/ node'[th'[t].preds[j]].data < node'[p].data
            BY <1>8, <1>9, <2>1, Constants
        <3> QED BY <1>2, <2>1, <3>1 DEF Lower
    <2>2. CASE i # l
        <3>1. l < i /\ l < j
            BY <1>9, <2>2, Constants
        <3>2. Lower(th[t].preds[j], th[t].preds[i])
            BY <1>3, <1>9, <3>1
        <3> QED BY <1>7, <3>1, <3>2 DEF Lower
    <2> QED BY <2>1, <2>2
<1> QED BY <1>2, <1>8, <1>9

(* find goes on. *)
LEMMA FindStep ==
    ASSUME ListInv, NEW t \in Threads, FindAdvances(t) \/ FindDescends(t)
    PROVE  ListInv'
<1>0. NodesOK /\ ThreadsOK /\ Forward /\ Control(t) /\ Searches(t) /\ Made(t)
    BY DEF ListInv, Place
<1>1. /\ ThreadsOK' /\ node' = node /\ NodesOK' /\ retired' = retired /\ Others(t)
      /\ th[t].pc = "find" /\ th'[t].pc = "find" /\ SameCall(t)
      /\ \/ /\ Before(Curr(t), th[t].key) /\ th'[t].pred = Curr(t) /\ th'[t].level = th[t].level
            /\ SameNotes(t)
         \/ /\ ~Before(Curr(t), th[t].key) /\ th[t].level > 0 /\ th'[t].level = th[t].level - 1
            /\ th'[t].pred = th[t].pred /\ Notes(t)
    BY <1>0, FindTurn DEF Others
<1>2. \A n \in Pointers : Inserts(t, n)' <=> Inserts(t, n)
    BY <1>1 DEF Inserts, SameCall
<1>3. SameWork(t) /\ Calm(t)
    BY <1>1, <1>2 DEF SameWork, Linking, Erases, Past, Calm, SameId, SameFlags, SameNext
<1>4. SameLevels
    BY <1>1, <1>3, CalmLevels
<1>5. Stays
    BY <1>4 DEF SameLevels, Stays
<1>6. th[t].level \in Levels /\ th[t].level \in Nat /\ th[t].key \in Nat /\ th'[t].key = th[t].key
    BY <1>0, <1>1, ThreadFacts DEF SameCall
<1> PICK l \in Levels : l = th[t].level
    BY <1>6
<1> PICK p : p = th[t].pred
    OBVIOUS
<1>7. /\ Entered(p, l) /\ node[p].data < th[t].key /\ p \in Nodes /\ node[p].data \in Nat
      /\ \A j \in Levels : l < j => Noted(t, j) /\ Lower(th[t].preds[j], p)
      /\ \A i, j \in Levels : l < i /\ i < j => Lower(th[t].preds[j], th[t].preds[i])
    BY <1>0, <1>1, EnteredFacts DEF Searches
<1>8. Searches(t)'
    <2>1. CASE Before(Curr(t), th[t].key) /\ th'[t].pred = Curr(t) /\ th'[t].level = th[t].level /\ SameNotes(t)
        <3> PICK c : c = Curr(t)
            OBVIOUS
        <3>1. c # tail_ /\ node[c].data < th[t].key
            BY <2>1 DEF Before
        <3>2. Entered(c, l) /\ c \in Nodes /\ node[p].data < node[c].data /\ c \in DOMAIN node
            BY <1>0, <1>7, <3>1, CurrFacts
        <3>3. Entered(c, l)'
            BY <1>5, <3>2 DEF Stays
        <3>4. th'[t].pred = c /\ th'[t].level = l /\ node[c].data \in Nat
            BY <1>0, <2>1, <3>2, NodeFacts
        <3>5. Entered(th[t].pred, th[t].level)' /\ (node[th[t].pred].data < th[t].key)'
            BY <1>1, <1>6, <3>1, <3>3, <3>4
        <3>6. ASSUME NEW j \in Levels, l < j PROVE Noted(t, j)' /\ Lower(th[t].preds[j], th[t].pred)'
            <4>1. Noted(t, j) /\ Lower(th[t].preds[j], p) /\ th'[t].preds = th[t].preds /\ th'[t].succs = th[t].succs
                BY <1>7, <2>1, <3>6 DEF SameNotes
            <4>2. Noted(t, j)'
                BY <1>0, <1>5, <1>6, <4>1, NotedStays
            <4>3. th[t].preds[j] \in DOMAIN node /\ node[th[t].preds[j]].data \in Nat
                <5>1. Entered(th[t].preds[j], j)
                    BY <4>1 DEF Noted
                <5> QED BY <1>0, <5>1, EnteredFacts
            <4>4. node[th[t].preds[j]].data < node[c].data
                BY <1>7, <3>2, <3>4, <4>1, <4>3 DEF Lower
            <4> QED BY <1>1, <3>4, <4>1, <4>2, <4>4 DEF Lower
        <3>7. \A i, j \in Levels : l < i /\ i < j => Lower(th[t].preds[j], th[t].preds[i])'
            BY <1>1, <1>7, <2>1 DEF Lower, SameNotes
        <3> QED BY <3>4, <3>5, <3>6, <3>7 DEF Searches
    <2>2. CASE /\ ~Before(Curr(t), th[t].key) /\ th[t].level > 0 /\ th'[t].level = th[t].level - 1
               /\ th'[t].pred = th[t].pred /\ Notes(t)
        <3>0. l - 1 \in Levels /\ l - 1 < l
            BY <1>6, <2>2, Constants DEF Levels
        <3> PICK i \in Levels : i = l - 1 /\ i < l
            BY <3>0
        <3>1. Entered(p, i)
            BY <1>0, <1>7, EnteredBelow, Constants
        <3>2. Entered(p, i)'
            BY <1>5, <1>7, <3>1 DEF Stays
        <3>3. th'[t].pred = p /\ th'[t].level = i
            BY <2>2
        <3>4. Entered(th[t].pred, th[t].level)' /\ (node[th[t].pred].data < th[t].key)'
            BY <1>1, <1>6, <1>7, <3>2, <3>3
        <3>5. /\ \A j \in Levels : l <= j =>
                     Noted(t, j)' /\ (th'[t].preds[j] = p \/ node'[th'[t].preds[j]].data < node'[p].data)
              /\ \A h, j \in Levels : l <= h /\ h < j => Lower(th[t].preds[j], th[t].preds[h])'
            BY <1>1, <1>5, <1>6, <2>2, NotesTaken
        <3>6. \A j \in Levels : i < j => l <= j
            BY Constants
        <3>7. \A j \in Levels : i < j => Noted(t, j)' /\ Lower(th[t].preds[j], th[t].pred)'
            BY <3>3, <3>5, <3>6 DEF Lower
        <3>8. \A h, j \in Levels : i < h /\ h < j => Lower(th[t].preds[j], th[t].preds[h])'
            BY <3>5, <3>6
        <3> QED BY <3>3, <3>4, <3>7, <3>8 DEF Searches
    <2> QED BY <1>1, <2>1, <2>2
<1>9. Control(t)'
    BY <1>0, <1>1 DEF Control, SameCall, Inserting
<1>10. Found(t)' /\ Chosen(t)' /\ \A j \in Levels : Holds(t, j)'
    BY <1>1 DEF Found, Chosen, Holds, Locked, Validated, Unlinked, Inserting
<1>11. Made(t)'
    BY <1>0, <1>1 DEF Made, Inserts, SameCall
<1>12. Place(t)'
    BY <1>8, <1>9, <1>10, <1>11 DEF Place
<1> QED BY <1>1, <1>2, <1>12, QuietStep DEF Busy

(* The end of find. *)
LEMMA FindEndsStep ==
    ASSUME ListInv, NEW t \in Threads, FindEnds(t)
    PROVE  ListInv'
<1>0. NodesOK /\ ThreadsOK /\ Hands /\ Forward /\ Control(t) /\ Searches(t) /\ Made(t)
    BY DEF ListInv, Place
<1>1. th[t].pc = "find" /\ th[t].key \in Nat /\ th[t].preds \in [Levels -> Pointers] /\ th[t].succs \in [Levels -> Pointers]
    BY <1>0, ThreadFacts DEF FindEnds, At
<1>2. th[t].op \in {"insert", "erase", "contains"} /\ th[t].result = "none" /\ th[t].key \in Keys
    BY <1>0, <1>1 DEF Control
<1>3. th[t].op = "insert" => th[t].node \in DOMAIN node \ {head_, tail_} /\ node[th[t].node].data = th[t].key
    BY <1>0, <1>2, OwnNode DEF Made, Inserts
<1>4. /\ ThreadsOK' /\ NodesOK' /\ retired' = retired /\ Others(t)
      /\ th[t].level = 0 /\ ~Before(Curr(t), th[t].key)
      /\ FindsFree(t) \/ FindsEqual(t) \/ FindsIt(t) \/ FindsNothing(t)
    BY <1>0, <1>3, FindEndsTurn DEF Others
<1>5. /\ Entered(th[t].pred, 0) /\ 0 \in Levels
    BY <1>0, <1>1, <1>4, Constants DEF Searches
<1>6. /\ Curr(t) \in DOMAIN node /\ Curr(t) \in Nodes
      /\ Curr(t) # tail_ => Entered(Curr(t), 0) /\ node[th[t].pred].data < node[Curr(t)].data
    BY <1>0, <1>4, <1>5, CurrFacts
<1>7. node[th[t].pred].data \in Nat /\ \A j \in Levels : 0 <= j
    BY <1>0, <1>5, EnteredFacts, Constants
<1>8. ASSUME th'[t].pc \in {"lock", "found"}, SameCall(t), Notes(t), SamePlace(t), th[t].op = "insert",
             SameWork(t), Calm(t)
      PROVE  /\ Control(t)' /\ Searches(t)' /\ Made(t)' /\ Chosen(t)' /\ SameLevels
             /\ th'[t].succs[0] = Curr(t) /\ \A j \in Levels : Noted(t, j)'
             /\ \A i, j \in Levels : i < j => Lower(th[t].preds[j], th[t].preds[i])'
    <2>1. SameLevels
        BY <1>4, <1>8, CalmLevels
    <2>2. Stays
        BY <2>1 DEF SameLevels, Stays
    <2>3. th'[t].op = "insert" /\ th'[t].key = th[t].key /\ th'[t].node = th[t].node /\ th'[t].result = "none"
        BY <1>2, <1>8 DEF SameCall
    <2>4. /\ \A j \in Levels : th[t].level <= j => Noted(t, j)'
          /\ \A i, j \in Levels : th[t].level <= i /\ i < j => Lower(th[t].preds[j], th[t].preds[i])'
          /\ th'[t].succs[th[t].level] = Curr(t)
        BY <1>1, <1>4, <1>8, <2>2, <2>3, NotesTaken
    <2>5. Control(t)'
        BY <1>2, <1>8, <2>3 DEF Control, Inserting
    <2>6. Searches(t)' /\ Chosen(t)'
        BY <1>8 DEF Searches, Chosen
    <2>7. th'[t].level <= node'[th[t].node].top_level
        <3>1. node[th[t].node].top_level \in Nat
            BY <1>0, <1>2, <1>8, OwnNode
        <3>2. node'[th[t].node].top_level = node[th[t].node].top_level
            BY <1>3, <1>8 DEF Calm, SameId
        <3> QED BY <1>4, <1>8, <3>1, <3>2 DEF SamePlace
    <2>8. node'[th[t].node].data = th[t].key
        BY <1>3, <1>8 DEF Calm, SameId
    <2>9. Made(t)'
        BY <1>8, <2>3, <2>7, <2>8 DEF Made, Inserts
    <2> QED BY <1>4, <1>7, <2>1, <2>4, <2>5, <2>6, <2>9
<1>9. CASE FindsFree(t)
    <2>1. /\ th[t].op = "insert" /\ th'[t].pc = "lock" /\ SameCall(t) /\ SamePlace(t) /\ Notes(t)
          /\ Curr(t) = tail_ \/ th[t].key < node[Curr(t)].data
          /\ DOMAIN node' = DOMAIN node
          /\ \A n \in DOMAIN node : SameId(n) /\ SameFlags(n) /\ SameOwner(n)
          /\ \A n \in DOMAIN node : n # th[t].node => SameNext(n)
          /\ \A j \in 0..node[th[t].node].top_level : node'[th[t].node].next[j] = th'[t].succs[j]
        BY <1>9 DEF FindsFree
    <2>2. Inserts(t, th[t].node) /\ \A n \in Pointers : Inserts(t, n)' <=> Inserts(t, n)
        BY <1>2, <2>1 DEF Inserts, SameCall
    <2>3. SameWork(t)
        BY <1>1, <2>1, <2>2 DEF SameWork, Linking, Erases, Past
    <2>4. Calm(t)
        BY <1>4, <2>1, <2>2 DEF Calm, SameOwner
    <2>5. /\ Control(t)' /\ Searches(t)' /\ Made(t)' /\ Chosen(t)' /\ SameLevels
          /\ th'[t].succs[0] = Curr(t) /\ \A j \in Levels : Noted(t, j)'
          /\ \A i, j \in Levels : i < j => Lower(th[t].preds[j], th[t].preds[i])'
        BY <1>8, <2>1, <2>3, <2>4
    <2>6. Curr(t) = tail_ \/ th[t].key < node'[Curr(t)].data
        BY <1>6, <2>1 DEF SameId
    <2>7. (th[t].succs[0] = tail_ \/ th[t].key < node[th[t].succs[0]].data)'
        BY <2>1, <2>5, <2>6 DEF SameCall
    <2>8. Found(t)'
        BY <2>1, <2>5, <2>7 DEF Found
    <2>9. ASSUME NEW j \in Levels PROVE Holds(t, j)'
        <3>1. th'[t].level = 0 /\ th'[t].node = th[t].node /\ node'[th[t].node].top_level = node[th[t].node].top_level
            BY <1>3, <1>4, <2>1 DEF SamePlace, SameCall, SameId
        <3>2. ~Locked(t, j)' /\ ~Validated(t, j)'
            BY <1>7, <2>1, <3>1, Constants DEF Locked, Validated
        <3>3. j <= node[th[t].node].top_level => j \in 0..node[th[t].node].top_level
            BY <1>0, <1>3, <2>1, NodeFacts
        <3>4. Unlinked(t, j)' => (node[th[t].node].next[j] = th[t].succs[j])'
            BY <2>1, <3>1, <3>3 DEF Unlinked
        <3> QED BY <3>2, <3>4 DEF Holds
    <2>10. Place(t)'
        BY <2>5, <2>8, <2>9 DEF Place
    <2>11. \A n \in DOMAIN node' : node'[n].owner # t
        <3>1. \A n \in DOMAIN node : node[n].owner # t
            BY <1>1, OwnedEntered
        <3> QED BY <2>1, <3>1 DEF SameOwner
    <2> QED BY <1>4, <2>3, <2>4, <2>10, <2>11, CalmStep
<1>10. CASE FindsEqual(t)
    <2>1. /\ th[t].op = "insert" /\ th'[t].pc = "found" /\ SameCall(t) /\ SamePlace(t) /\ Notes(t)
          /\ Curr(t) # tail_ /\ node[Curr(t)].data = th[t].key /\ node' = node
        BY <1>10 DEF FindsEqual
    <2>2. \A n \in Pointers : Inserts(t, n)' <=> Inserts(t, n)
        BY <1>2, <2>1 DEF Inserts, SameCall
    <2>3. SameWork(t)
        BY <1>1, <2>1, <2>2 DEF SameWork, Linking, Erases, Past
    <2>4. Calm(t)
        BY <1>4, <2>1 DEF Calm, SameId, SameFlags, SameNext
    <2>5. /\ Control(t)' /\ Searches(t)' /\ Made(t)' /\ Chosen(t)'
          /\ th'[t].succs[0] = Curr(t) /\ \A j \in Levels : Noted(t, j)'
          /\ \A i, j \in Levels : i < j => Lower(th[t].preds[j], th[t].preds[i])'
        BY <1>8, <2>1, <2>3, <2>4
    <2>6. (th[t].succs[0] # tail_ /\ node[th[t].succs[0]].data = th[t].key)'
        BY <2>1, <2>5 DEF SameCall
    <2>7. Found(t)'
        BY <2>1, <2>5, <2>6 DEF Found
    <2>8. \A j \in Levels : Holds(t, j)'
        BY <2>1 DEF Holds, Locked, Validated, Unlinked
    <2>9. Place(t)'
        BY <2>5, <2>7, <2>8 DEF Place
    <2> QED BY <1>1, <1>4, <2>1, <2>2, <2>9, QuietStep DEF Busy
<1>11. CASE FindsIt(t)
    <2>1. /\ th[t].op # "insert" /\ th'[t].pc = "check" /\ th'[t].op = th[t].op /\ th'[t].key = th[t].key
          /\ th'[t].result = th[t].result /\ th'[t].node = Curr(t)
          /\ Curr(t) # tail_ /\ node[Curr(t)].data = th[t].key /\ node' = node
        BY <1>11 DEF FindsIt
    <2>2. \A n \in Pointers : Inserts(t, n)' <=> Inserts(t, n)
        BY <2>1 DEF Inserts
    <2>3. SameWork(t) /\ Calm(t)
        BY <1>1, <1>4, <2>1, <2>2 DEF SameWork, Linking, Erases, Past, Calm, SameId, SameFlags, SameNext
    <2>4. SameLevels
        BY <1>4, <2>3, CalmLevels
    <2> PICK c \in Nodes : c = Curr(t)
        BY <1>6
    <2>5. Entered(c, 0)'
        BY <1>5, <1>6, <2>1, <2>4 DEF SameLevels
    <2>6. c # head_
        BY <1>0, <1>2, <2>1, Constants DEF NodesOK
    <2>7. Entered(th[t].node, 0)' /\ (th[t].node # head_)' /\ (node[th[t].node].data = th[t].key)'
        BY <2>1, <2>5, <2>6
    <2>8. Chosen(t)'
        BY <2>1, <2>7 DEF Chosen
    <2>9. Control(t)'
        BY <1>2, <2>1 DEF Control, Inserting
    <2>10. Searches(t)' /\ Found(t)' /\ \A j \in Levels : Holds(t, j)'
        BY <2>1 DEF Searches, Found, Holds, Locked, Validated, Unlinked, Inserting
    <2>11. Made(t)'
        BY <2>1 DEF Made, Inserts
    <2>12. Place(t)'
        BY <2>8, <2>9, <2>10, <2>11 DEF Place
    <2> QED BY <1>1, <1>4, <2>1, <2>2, <2>12, QuietStep DEF Busy
<1>12. CASE FindsNothing(t)
    <2>1. th[t].op # "insert" /\ Answers(t, "false") /\ node' = node
        BY <1>12 DEF FindsNothing
    <2>2. Rests(t)
        BY <2>1 DEF Rests, Answers
    <2>3. Place(t)' /\ th'[t].pc \in {"idle", "done"} /\ \A n : ~Inserts(t, n)'
        BY <2>2, RestPlace
    <2>4. \A n \in Pointers : ~Inserts(t, n)
        BY <2>1 DEF Inserts
    <2> QED BY <1>1, <1>4, <2>1, <2>3, <2>4, QuietStep DEF Busy
<1> QED BY <1>4, <1>9, <1>10, <1>11, <1>12

-----------------------------------------------------------------------------
(* The mutexes *)

(* A linked node that is not marked has not left. *)
LEMMA UnmarkedOn ==
    ASSUME ListInv, NEW l \in Levels, NEW n, Entered(n, l), ~node[n].marked
    PROVE  n \in On(l)
<1>0. NodesOK /\ Marks
    BY DEF ListInv
<1>1. n \in DOMAIN node /\ n \in Pointers
    BY <1>0, EnteredFacts, NodeFacts
<1>2. ~Left(n, l)
    BY <1>0, <1>1 DEF Left, Marks
<1> QED BY <1>1, <1>2 DEF On

(* A locked and validated level 0 rules out that a level above it leads to *)
(* an equal key.                                                           *)
LEMMA NoEqualAhead ==
    ASSUME ListInv, NEW t \in Threads, th[t].pc = "lock", Valid(th[t], th[t].level),
           th[t].succs[th[t].level] # tail_
    PROVE  th[t].key < node[th[t].succs[th[t].level]].data
<1>0. NodesOK /\ ThreadsOK /\ Found(t) /\ Chains /\ \A j \in Levels : Holds(t, j)
    BY DEF ListInv, Place
<1>1. th[t].level \in Levels /\ th[t].level \in Nat /\ th[t].key \in Nat /\ 0 \in Levels /\ th[t].pc \in Inserting
    BY <1>0, ThreadFacts, Constants DEF Inserting
<1> DEFINE l == th[t].level
           s == th[t].succs[l]
           p == th[t].preds[0]
           o == th[t].succs[0]
<1>2. CASE l = 0
    BY <1>0, <1>1, <1>2 DEF Found
<1>3. CASE l # 0
    <2>1. Entered(s, l) /\ th[t].key <= node[s].data /\ s \in DOMAIN node /\ node[s].data \in Nat
        BY <1>0, <1>1, NotedFacts
    <2>2. ~node[s].marked
        BY DEF Valid
    <2>3. Entered(s, 0)
        BY <1>0, <1>1, <2>1, EnteredBelow
    <2>4. s \in On(0)
        BY <1>1, <2>2, <2>3, UnmarkedOn
    <2>5. Validated(t, 0)
        BY <1>1, <1>3 DEF Validated
    <2>6. ~node[p].marked /\ node[p].next[0] = o /\ (o = tail_ \/ th[t].key < node[o].data)
        BY <1>0, <1>1, <2>5 DEF Holds
    <2>7. Entered(p, 0) /\ node[p].data < th[t].key /\ node[p].data \in Nat /\ o \in DOMAIN node /\ node[o].data \in Nat
        BY <1>0, <1>1, NotedFacts
    <2>8. p \in On(0)
        BY <1>1, <2>6, <2>7, UnmarkedOn
    <2>9. KeyChain(On(0), head_, tail_, Ptrs(0), Data)
        BY <1>0, <1>1 DEF Chains
    <2>10. Ptrs(0)[p] = o /\ Data[p] = node[p].data /\ Data[s] = node[s].data
        BY <1>0, <1>1, <2>4, <2>6, <2>8, OnFacts
    <2>11. Data[p] < Data[s]
        BY <1>1, <2>1, <2>7, <2>10
    <2>12. o # tail_ /\ Data[o] <= Data[s]
        BY <2>4, <2>8, <2>9, <2>10, <2>11 DEF KeyChain
    <2>13. Data[o] = node[o].data
        BY <1>0, <2>7, NodeFacts DEF Data
    <2> QED BY <1>1, <2>1, <2>6, <2>7, <2>10, <2>12, <2>13
<1> QED BY <1>2, <1>3

(* insert locks a predecessor. *)
LEMMA LockPredStep ==
    ASSUME ListInv, NEW t \in Threads, LockPred(t)
    PROVE  ListInv'
<1>0. NodesOK /\ ThreadsOK /\ Hands /\ Owners /\ Control(t) /\ Found(t) /\ Made(t) /\ \A j \in Levels : Holds(t, j)
    BY DEF ListInv, Place
<1>1. /\ ThreadsOK' /\ NodesOK' /\ retired' = retired /\ Others(t)
      /\ th[t].pc = "lock" /\ SameCall(t) /\ SameNotes(t) /\ OnlyOwners
      /\ \A n \in DOMAIN node : n # th[t].preds[th[t].level] => SameOwner(n)
      /\ \/ SamePred(th[t], th[t].level) /\ node' = node
         \/ /\ ~SamePred(th[t], th[t].level) /\ node[th[t].preds[th[t].level]].owner = NoThread
            /\ node'[th[t].preds[th[t].level]].owner = t
      /\ \/ ~Valid(th[t], th[t].level) /\ th'[t].pc = "unlock" /\ th'[t].level = th[t].level
         \/ /\ Valid(th[t], th[t].level) /\ th[t].level < node[th[t].node].top_level
            /\ th'[t].pc = "lock" /\ th'[t].level = th[t].level + 1
         \/ /\ Valid(th[t], th[t].level) /\ th[t].level = node[th[t].node].top_level
            /\ th'[t].pc = "link" /\ th'[t].level = 0
    BY LockPredTurn DEF Others
<1> PICK l : l = th[t].level
    OBVIOUS
<1> PICK p : p = th[t].preds[l]
    OBVIOUS
<1>2. l \in Levels /\ l \in Nat /\ th[t].key \in Nat /\ th[t].pc \in Inserting
    BY <1>0, <1>1, ThreadFacts DEF Inserting
<1>3. th[t].op = "insert" /\ th[t].result = "none" /\ th[t].key \in Keys
    BY <1>0, <1>1 DEF Control, Inserting
<1>4. /\ th[t].node \in DOMAIN node /\ node[th[t].node].top_level \in Nat /\ l <= node[th[t].node].top_level
      /\ node[th[t].node].data = th[t].key
    BY <1>0, <1>1, <1>3, OwnNode DEF Made, Inserts
<1>5. /\ th'[t].op = "insert" /\ th'[t].result = "none" /\ th'[t].key = th[t].key /\ th'[t].node = th[t].node
      /\ th'[t].preds = th[t].preds /\ th'[t].succs = th[t].succs
    BY <1>1, <1>3 DEF SameCall, SameNotes
<1>6. DOMAIN node' = DOMAIN node /\ \A n \in DOMAIN node : SameId(n) /\ SameFlags(n) /\ SameNext(n)
    BY <1>1 DEF OnlyOwners
<1>7. p \in DOMAIN node
    BY <1>0, <1>2, NotedFacts
<1>8. SameWork(t)
    <2>1. \A n \in Pointers : Inserts(t, n)' <=> Inserts(t, n)
        BY <1>3, <1>5 DEF Inserts
    <2>2. \A n \in Pointers : \A j \in Levels : ~Linking(t, n, j) /\ ~Linking(t, n, j)'
        <3>1. \A j \in Levels : ~(j < 0)
            BY Constants
        <3>2. th'[t].pc \in {"unlock", "lock"} \/ (th'[t].pc = "link" /\ th'[t].level = 0)
            BY <1>1
        <3> QED BY <1>1, <3>1, <3>2 DEF Linking
    <2> QED BY <1>1, <2>1, <2>2 DEF SameWork, Erases, Past
<1>9. Calm(t)
    <2>1. ASSUME NEW u \in Threads, NEW n \in DOMAIN node, u # t PROVE node'[n].owner = u <=> node[n].owner = u
        <3>1. CASE n = p
            BY <1>1, <2>1, <3>1, ThreadAssumption
        <3>2. CASE n # p
            BY <1>1, <3>2 DEF SameOwner
        <3> QED BY <3>1, <3>2
    <2> QED BY <1>1, <1>6, <2>1 DEF Calm
<1>10. Stays
    <2>1. SameLevels
        BY <1>1, <1>8, <1>9, CalmLevels
    <2> QED BY <2>1 DEF SameLevels, Stays
<1>11. \A j \in Levels : Noted(t, j)'
    <2> TAKE j \in Levels
    <2>1. Noted(t, j)
        BY <1>0, <1>2 DEF Found
    <2> QED BY <1>0, <1>5, <1>10, <2>1, NotedStays
<1>12. ASSUME NEW j \in Levels
       PROVE  /\ th[t].preds[j] \in DOMAIN node /\ j \in 0..node[th[t].preds[j]].top_level
              /\ th[t].succs[j] \in DOMAIN node
    BY <1>0, <1>2, NotedFacts
<1>13. \A i, j \in Levels : i < j => Lower(th[t].preds[j], th[t].preds[i])'
    BY <1>0, <1>2, <1>5, <1>6, <1>12 DEF Found, Lower, SameId
<1>14. Found(t)'
    <2>1. th'[t].pc = "lock" => (th[t].succs[0] = tail_ \/ th[t].key < node[th[t].succs[0]].data)'
        BY <1>0, <1>1, <1>2, <1>5, <1>6, <1>12, Constants DEF Found, SameId
    <2>2. th'[t].pc \notin {"found", "await"}
        BY <1>1
    <2> QED BY <1>11, <1>13, <2>1, <2>2 DEF Found
<1>15. Control(t)' /\ Searches(t)' /\ Chosen(t)'
    BY <1>1, <1>3, <1>5 DEF Control, Inserting, Searches, Chosen
<1>16. Made(t)'
    <2>1. node'[th[t].node].top_level = node[th[t].node].top_level /\ node'[th[t].node].data = th[t].key
        BY <1>4, <1>6 DEF SameId
    <2>2. th'[t].pc \in {"lock", "link"} => th'[t].level <= node[th[t].node].top_level
        BY <1>1, <1>2, <1>4
    <2> QED BY <1>1, <1>5, <2>1, <2>2 DEF Made, Inserts
<1>17. node'[p].owner = t
    <2>1. CASE SamePred(th[t], l)
        <3>1. l > 0 /\ l - 1 \in Levels /\ l - 1 < l /\ th[t].preds[l - 1] = p
            BY <1>2, <2>1, Constants DEF SamePred, Levels
        <3>2. Locked(t, l - 1)
            BY <1>1, <3>1 DEF Locked
        <3>3. node[p].owner = t
            BY <1>0, <3>1, <3>2 DEF Holds
        <3> QED BY <1>1, <2>1, <3>3
    <2>2. CASE ~SamePred(th[t], l)
        BY <1>1, <2>2
    <2> QED BY <2>1, <2>2
<1>18. ASSUME NEW j \in Levels PROVE (Locked(t, j)' <=> j <= l) /\ (Validated(t, j)' => j <= l /\ Valid(th[t], l))
    <2>1. node'[th[t].node].top_level = node[th[t].node].top_level /\ j \in Nat
        BY <1>4, <1>6, Constants DEF SameId
    <2>2. j < l + 1 <=> j <= l
        BY <1>2, <2>1
    <2> QED BY <1>1, <1>5, <2>1, <2>2 DEF Locked, Validated
<1>19. ASSUME NEW j \in Levels PROVE Holds(t, j)'
    <2> PICK q : q = th[t].preds[j]
        OBVIOUS
    <2> PICK s : s = th[t].succs[j]
        OBVIOUS
    <2>1. q \in DOMAIN node /\ s \in DOMAIN node
        BY <1>12
    <2>2. j < l => Locked(t, j) /\ Validated(t, j)
        BY <1>1 DEF Locked, Validated
    <2>3. ASSUME Locked(t, j)' PROVE node'[q].owner = t
        <3>1. CASE j = l
            BY <1>17, <3>1
        <3>2. CASE j # l
            <4>1. j < l
                BY <1>2, <1>18, <2>3, <3>2, Constants
            <4>2. node[q].owner = t
                BY <1>0, <2>2, <4>1 DEF Holds
            <4> QED BY <1>1, <1>17, <2>1, <4>2 DEF SameOwner
        <3> QED BY <3>1, <3>2
    <2>4. ASSUME Validated(t, j)'
          PROVE  ~node[q].marked /\ node[q].next[j] = s /\ (s = tail_ \/ th[t].key < node[s].data)
        <3>1. j <= l /\ Valid(th[t], l)
            BY <1>18, <2>4
        <3>2. CASE j = l
            BY <1>1, <3>1, <3>2, NoEqualAhead DEF Valid
        <3>3. CASE j # l
            <4>1. j < l
                BY <1>2, <3>1, <3>3, Constants
            <4> QED BY <1>0, <2>2, <4>1 DEF Holds
        <3> QED BY <3>2, <3>3
    <2>5. node'[q].marked = node[q].marked /\ node'[q].next = node[q].next /\ node'[s].data = node[s].data
        BY <1>6, <2>1 DEF SameFlags, SameNext, SameId
    <2>6. ASSUME Unlinked(t, j)' PROVE node'[th[t].node].next[j] = s
        <3>1. node'[th[t].node].top_level = node[th[t].node].top_level /\ node'[th[t].node].next = node[th[t].node].next
            BY <1>4, <1>6 DEF SameId, SameNext
        <3>2. Unlinked(t, j)
            BY <1>1, <1>5, <2>6, <3>1 DEF Unlinked
        <3> QED BY <1>0, <3>1, <3>2 DEF Holds
    <2>7. th'[t].preds[j] = q /\ th'[t].succs[j] = s
        BY <1>5
    <2>8. Locked(t, j)' => (node[th[t].preds[j]].owner = t)'
        BY <2>3, <2>7
    <2>9. Validated(t, j)' => /\ (~node[th[t].preds[j]].marked)'
                              /\ (node[th[t].preds[j]].next[j] = th[t].succs[j])'
                              /\ (th[t].succs[j] = tail_ \/ th[t].key < node[th[t].succs[j]].data)'
        BY <1>5, <2>4, <2>5, <2>7
    <2>10. Unlinked(t, j)' => (node[th[t].node].next[j] = th[t].succs[j])'
        BY <1>5, <2>6, <2>7
    <2> QED BY <2>8, <2>9, <2>10 DEF Holds
<1>20. Place(t)'
    BY <1>14, <1>15, <1>16, <1>19 DEF Place
<1>21. ASSUME NEW n \in DOMAIN node', node'[n].owner = t
       PROVE  \E j \in Levels : Locked(t, j)' /\ th'[t].preds[j] = n
    <2>1. CASE n = p
        <3>1. Locked(t, l)'
            BY <1>2, <1>18
        <3> QED BY <1>2, <1>5, <2>1, <3>1
    <2>2. CASE n # p
        <3>1. node[n].owner = t /\ n \in DOMAIN node
            BY <1>1, <1>6, <1>21, <2>2 DEF SameOwner
        <3>2. PICK j \in Levels : Locked(t, j) /\ th[t].preds[j] = n
            BY <1>0, <3>1 DEF Owners
        <3>3. j < l
            BY <1>1, <3>2 DEF Locked
        <3>4. Locked(t, j)'
            BY <1>2, <1>18, <3>3, Constants
        <3> QED BY <1>5, <3>2, <3>4
    <2> QED BY <2>1, <2>2
<1> QED BY <1>1, <1>8, <1>9, <1>20, <1>21, CalmStep

(* insert unlocks. *)
LEMMA UnlockPredsStep ==
    ASSUME ListInv, NEW t \in Threads, UnlockPreds(t)
    PROVE  ListInv'
<1>0. NodesOK /\ ThreadsOK /\ Owners /\ Control(t) /\ Found(t) /\ Made(t) /\ \A j \in Levels : Holds(t, j)
    BY DEF ListInv, Place
<1>1. /\ ThreadsOK' /\ NodesOK' /\ retired' = retired /\ Others(t) /\ th[t].pc = "unlock"
      /\ DOMAIN node' = DOMAIN node /\ \A n \in DOMAIN node : SameId(n) /\ SameFlags(n) /\ SameNext(n)
      /\ \A n \in DOMAIN node : n \notin LockedPreds(th[t]) => SameOwner(n)
      /\ \A n \in DOMAIN node : n \in LockedPreds(th[t]) => node'[n].owner = NoThread
      /\ \/ th[t].result = "true" /\ Answers(t, "true")
         \/ th[t].result # "true" /\ AtHead(t) /\ SameCall(t)
    BY UnlockPredsTurn DEF Others, OnlyOwners
<1>2. th[t].op = "insert" /\ th[t].result \in {"none", "true"} /\ th[t].key \in Keys /\ th[t].level \in Levels
    BY <1>0, <1>1, ThreadFacts DEF Control, Inserting
<1>3. ASSUME NEW n \in LockedPreds(th[t]) PROVE node[n].owner = t
    <2>1. PICK j \in 0..th[t].level : n = th[t].preds[j]
        BY DEF LockedPreds
    <2>2. j \in Levels /\ j <= th[t].level
        BY <1>2, Constants DEF Levels
    <2>3. Locked(t, j)
        BY <1>1, <2>2 DEF Locked
    <2> QED BY <1>0, <2>1, <2>2, <2>3 DEF Holds
<1>4. \A n \in DOMAIN node' : node'[n].owner # t
    <2> SUFFICES ASSUME NEW n \in DOMAIN node', node'[n].owner = t PROVE FALSE
        OBVIOUS
    <2>1. n \in DOMAIN node /\ n \notin LockedPreds(th[t]) /\ node[n].owner = t
        BY <1>1, ThreadAssumption DEF SameOwner
    <2>2. PICK j \in Levels : Locked(t, j) /\ th[t].preds[j] = n
        BY <1>0, <2>1 DEF Owners
    <2>3. j \in 0..th[t].level
        BY <1>1, <1>2, <2>2, Constants DEF Locked
    <2> QED BY <2>1, <2>2, <2>3 DEF LockedPreds
<1>5. Calm(t)
    <2>1. ASSUME NEW u \in Threads, NEW n \in DOMAIN node, u # t PROVE node'[n].owner = u <=> node[n].owner = u
        <3>1. CASE n \in LockedPreds(th[t])
            BY <1>1, <1>3, <2>1, <3>1, ThreadAssumption
        <3>2. CASE n \notin LockedPreds(th[t])
            BY <1>1, <3>2 DEF SameOwner
        <3> QED BY <3>1, <3>2
    <2> QED BY <1>1, <2>1 DEF Calm
<1>6. CASE th[t].result = "true" /\ Answers(t, "true")
    <2>1. Rests(t)
        BY <1>6 DEF Rests, Answers
    <2>2. /\ Place(t)' /\ \A n : ~Inserts(t, n)' /\ ~Erases(t, n)'
          /\ \A n, l : ~Linking(t, n, l)' /\ ~Past(t, l)'
        BY <2>1, RestPlace
    <2>3. SameWork(t)
        BY <1>1, <1>6, <2>2 DEF SameWork, Linking, Erases, Inserts, Past
    <2> QED BY <1>1, <1>4, <1>5, <2>2, <2>3, CalmStep
<1>7. CASE th[t].result # "true" /\ AtHead(t) /\ SameCall(t)
    <2>1. th'[t].op = "insert" /\ th'[t].result = "none" /\ th'[t].key = th[t].key /\ th'[t].node = th[t].node
          /\ th[t].result = "none"
        BY <1>2, <1>7 DEF SameCall
    <2>2. SameWork(t)
        BY <1>1, <1>2, <1>7, <2>1 DEF SameWork, Linking, Erases, Inserts, Past, AtHead
    <2>3. th[t].node \in DOMAIN node /\ node[th[t].node].data = th[t].key
        BY <1>0, <1>2, <2>1, OwnNode DEF Made, Inserts, ListInv
    <2>4. Place(t)'
        BY <1>1, <1>2, <1>7, <2>1, <2>3, HeadPlace DEF SameId
    <2> QED BY <1>1, <1>4, <1>5, <2>2, <2>4, CalmStep
<1> QED BY <1>1, <1>6, <1>7

-----------------------------------------------------------------------------
(* erase walks *)

(* From the head, a level leads to every node that is on it. *)
LEMMA ChainLeads ==
    ASSUME NodesOK, Chains, NEW l \in Levels, NEW v \in On(l)
    PROVE  Leads(head_, l, v)
<1> SUFFICES ASSUME NEW S \in SUBSET Nodes, head_ \in S, Closed(S, l), v \notin S PROVE FALSE
    BY DEF Leads
<1>1. KeyChain(On(l), head_, tail_, Ptrs(l), Data)
    BY DEF Chains
<1>2. ASSUME NEW x \in On(l)
      PROVE  /\ Entered(x, l) /\ Ptrs(l)[x] = node[x].next[l] /\ Data[x] \in Nat /\ x # tail_
    BY OnFacts
<1> DEFINE T == {Data[v] - Data[x] : x \in {y \in On(l) \cap S : Data[y] < Data[v]}}
<1>3. T \subseteq Nat
    BY <1>2
<1>4. T # {}
    <2>1. head_ \in On(l) /\ Data[head_] = 0
        BY <1>1 DEF KeyChain
    <2>2. Data[v] # 0
        BY <1>1, <2>1 DEF KeyChain
    <2>3. Data[head_] < Data[v]
        BY <1>2, <2>1, <2>2
    <2> QED BY <2>1, <2>3
<1> HIDE DEF T
<1>5. PICK m \in T : \A n \in T : m <= n
    BY <1>3, <1>4, Least
<1>6. PICK x \in On(l) \cap S : Data[x] < Data[v] /\ m = Data[v] - Data[x]
    BY <1>5 DEF T
<1> DEFINE y == Ptrs(l)[x]
<1>7. y # tail_ /\ Data[y] <= Data[v] /\ y \in On(l) \cup {tail_}
    BY <1>1, <1>6 DEF KeyChain
<1>8. Data[x] < Data[y]
    BY <1>1, <1>6, <1>7 DEF KeyChain
<1>9. y \in S
    BY <1>2, <1>6 DEF Closed
<1>10. y \in On(l) \cap S /\ Data[y] \in Nat /\ Data[x] \in Nat /\ Data[v] \in Nat
    BY <1>2, <1>6, <1>7, <1>9
<1> HIDE DEF y
<1>11. CASE Data[y] = Data[v]
    <2>1. y = v
        BY <1>1, <1>10, <1>11 DEF KeyChain
    <2> QED BY <1>9, <2>1
<1>12. CASE Data[y] # Data[v]
    <2>1. Data[y] < Data[v]
        BY <1>7, <1>10, <1>12
    <2>2. Data[v] - Data[y] \in T
        BY <1>10, <2>1 DEF T
    <2>3. m <= Data[v] - Data[y]
        BY <1>5, <2>2
    <2> QED BY <1>6, <1>8, <1>10, <2>3
<1> QED BY <1>11, <1>12

(* The same as a formula, and after a step. *)
HeadLeads == NodesOK /\ Chains => \A l \in Levels : \A v \in On(l) : Leads(head_, l, v)

(* ChainLeads. *)
LEMMA HeadLeadsHolds == HeadLeads
BY ChainLeads DEF HeadLeads

(* ChainLeads after a step. *)
LEMMA NextHeadLeads == HeadLeads'
BY HeadLeadsHolds, PTL

(* A walk begins on a level its victim is on. *)
LEMMA WalksPlace ==
    ASSUME NodesOK', Chains', NEW t \in Threads, NEW l \in Levels, Walks(t, l), th[t].op = "erase", th[t].key \in Keys,
           th[t].node \in On(l)', l <= node'[th[t].node].top_level, node'[th[t].node].data = th[t].key
    PROVE  Place(t)'
<1>1. th'[t].pc = "walk" /\ th'[t].level = l /\ th'[t].pred = head_ /\ th'[t].op = "erase"
      /\ th'[t].key = th[t].key /\ th'[t].node = th[t].node /\ th'[t].result = "true"
    BY DEF Walks
<1> PICK v : v = th[t].node
    OBVIOUS
<1>2. Leads(head_, l, v)'
    BY NextHeadLeads DEF HeadLeads
<1>3. Leads(th[t].pred, th[t].level, th[t].node)'
    BY <1>1, <1>2
<1>4. Entered(th[t].pred, th[t].level)' /\ (node[th[t].pred].data < th[t].key)'
    BY <1>1, Constants DEF Entered, NodesOK
<1>5. Chosen(t)'
    BY <1>1, <1>3, <1>4 DEF Chosen
<1>6. Control(t)'
    BY <1>1 DEF Control, Inserting
<1>7. Searches(t)' /\ Found(t)' /\ \A j \in Levels : Holds(t, j)'
    BY <1>1 DEF Searches, Found, Holds, Locked, Validated, Unlinked, Inserting
<1>8. Made(t)'
    BY <1>1 DEF Made, Inserts
<1> QED BY <1>5, <1>6, <1>7, <1>8 DEF Place

(* The victim is on the levels that have not been taken out. *)
LEMMA VictimOn ==
    ASSUME ListInv, NEW t \in Threads, th[t].pc \in {"walk", "splice"}, NEW j \in Levels, j <= th[t].level
    PROVE  th[t].node \in On(j) /\ Entered(th[t].node, j)
<1>0. NodesOK /\ ThreadsOK /\ Marks /\ Chosen(t)
    BY DEF ListInv, Place
<1>1. /\ th[t].node \in DOMAIN node \ {head_, tail_} /\ th[t].node \in Nodes /\ th[t].node \notin retired
      /\ Erases(t, th[t].node) /\ node[th[t].node].fully_linked
    BY Victim
<1>2. th[t].level \in Nat /\ j \in Nat /\ node[th[t].node].top_level \in Nat /\ th[t].level <= node[th[t].node].top_level
    BY <1>0, <1>1, ThreadFacts, NodeFacts, Constants DEF Chosen
<1>3. Entered(th[t].node, j)
    BY <1>1, <1>2 DEF Entered
<1>4. ASSUME NEW u \in Threads, Erases(u, th[t].node), Past(u, j) PROVE FALSE
    <2>1. u = t
        BY <1>0, <1>1, <1>4 DEF Marks
    <2>2. th[t].level < j
        BY <1>4, <2>1 DEF Past
    <2> QED BY <1>2, <2>2
<1> QED BY <1>1, <1>3, <1>4 DEF On, Left

(* erase walks along a level. *)
LEMMA WalkStep ==
    ASSUME ListInv, NEW t \in Threads, Walk(t)
    PROVE  ListInv'
<1>0. NodesOK /\ ThreadsOK /\ Forward /\ Control(t) /\ Chosen(t)
    BY DEF ListInv, Place
<1>1. /\ ThreadsOK' /\ NodesOK' /\ node' = node /\ retired' = retired /\ Others(t)
      /\ th[t].pc = "walk" /\ SameCall(t) /\ th'[t].level = th[t].level
      /\ \/ Curr(t) = th[t].node /\ th'[t].pc = "splice" /\ th'[t].pred = th[t].pred
         \/ /\ Curr(t) # th[t].node /\ Before(Curr(t), th[t].key)
            /\ th'[t].pc = "walk" /\ th'[t].pred = Curr(t)
    BY WalkTurn DEF Others
<1>2. /\ th'[t].op = th[t].op /\ th'[t].key = th[t].key /\ th'[t].node = th[t].node /\ th'[t].result = th[t].result
      /\ th'[t].pc \in {"walk", "splice"}
    BY <1>1 DEF SameCall
<1>3. SameWork(t) /\ Calm(t)
    BY <1>1, <1>2 DEF SameWork, Linking, Erases, Inserts, Past, Calm, SameId, SameFlags, SameNext
<1>4. SameLevels
    BY <1>1, <1>3, CalmLevels
<1>5. /\ th[t].level \in Levels /\ th[t].level <= node[th[t].node].top_level /\ node[th[t].node].data = th[t].key
      /\ Entered(th[t].pred, th[t].level) /\ node[th[t].pred].data < th[t].key
      /\ Leads(th[t].pred, th[t].level, th[t].node)
    BY <1>0, <1>1, ThreadFacts DEF Chosen
<1> PICK l \in Levels : l = th[t].level
    BY <1>5
<1> PICK p : p = th[t].pred
    OBVIOUS
<1> PICK v : v = th[t].node
    OBVIOUS
<1> PICK c : c = Curr(t)
    OBVIOUS
<1>6. p \in Nodes /\ node[p].data \in Nat /\ th[t].key \in Nat
    BY <1>0, <1>5, EnteredFacts, ThreadFacts
<1>7. ASSUME NEW q, Entered(q, l), node[q].data < th[t].key, th'[t].pred = q,
             th'[t].pc = "walk" => Leads(q, l, v)
      PROVE  Place(t)'
    <2>1. q \in Nodes
        BY <1>0, <1>7, EnteredFacts
    <2>2. Entered(q, l)'
        BY <1>4, <1>7, <2>1 DEF SameLevels
    <2>3. th'[t].pc = "walk" => Leads(q, l, v)'
        BY <1>4, <1>7, LeadsStill DEF SameLevels
    <2>4. th'[t].level = l /\ th'[t].node = v
        BY <1>1, <1>2
    <2>5. Entered(th[t].pred, th[t].level)' /\ (node[th[t].pred].data < th[t].key)'
        BY <1>1, <1>2, <1>7, <2>2, <2>4
    <2>6. th'[t].pc = "walk" => Leads(th[t].pred, th[t].level, th[t].node)'
        BY <1>7, <2>3, <2>4
    <2>7. Chosen(t)'
        BY <1>1, <1>2, <1>5, <2>4, <2>5, <2>6 DEF Chosen
    <2>8. Control(t)'
        BY <1>0, <1>1, <1>2 DEF Control, Inserting
    <2>9. Searches(t)' /\ Found(t)' /\ \A j \in Levels : Holds(t, j)'
        BY <1>2 DEF Searches, Found, Holds, Locked, Validated, Unlinked, Inserting
    <2>10. Made(t)'
        <3>1. th'[t].op = "erase"
            BY <1>0, <1>1, <1>2 DEF Control
        <3> QED BY <1>2, <3>1 DEF Made, Inserts
    <2> QED BY <2>7, <2>8, <2>9, <2>10 DEF Place
<1>8. Place(t)'
    <2>1. CASE th'[t].pc = "splice" /\ th'[t].pred = th[t].pred
        BY <1>5, <1>7, <2>1
    <2>2. CASE Before(Curr(t), th[t].key) /\ th'[t].pc = "walk" /\ th'[t].pred = Curr(t)
        <3>1. c # tail_ /\ node[c].data < th[t].key
            BY <2>2 DEF Before
        <3>2. Entered(c, l) /\ c \in Nodes
            BY <1>0, <1>5, <3>1, CurrFacts
        <3>3. Leads(c, l, v)
            <4> SUFFICES ASSUME NEW S \in SUBSET Nodes, c \in S, Closed(S, l) PROVE v \in S
                BY DEF Leads
            <4> DEFINE R == S \cup {p}
            <4>1. R \in SUBSET Nodes /\ p \in R
                BY <1>6
            <4>2. Closed(R, l)
                BY DEF Closed, Curr
            <4>3. v \in R
                BY <1>5, <4>1, <4>2 DEF Leads
            <4>4. v # p
                BY <1>5, <1>6
            <4> QED BY <4>3, <4>4
        <3> QED BY <1>7, <2>2, <3>1, <3>2, <3>3
    <2> QED BY <1>1, <2>1, <2>2
<1>9. \A n \in DOMAIN node' : node'[n].owner # t
    BY <1>1, OwnedEntered
<1> QED BY <1>1, <1>3, <1>8, <1>9, CalmStep

(* A splice that has lost the race. *)
LEMMA SpliceAgainStep ==
    ASSUME ListInv, NEW t \in Threads, NodesOK', ThreadsOK', Others(t), node' = node, retired' = retired,
           th[t].pc = "splice", Walks(t, th[t].level)
    PROVE  ListInv'
<1>0. NodesOK /\ ThreadsOK /\ Control(t) /\ Chosen(t)
    BY DEF ListInv, Place
<1>1. /\ th'[t].pc = "walk" /\ th'[t].level = th[t].level /\ th'[t].op = th[t].op
      /\ th'[t].key = th[t].key /\ th'[t].node = th[t].node /\ th'[t].result = "true" /\ th[t].result = "true"
      /\ th[t].op = "erase" /\ th[t].key \in Keys
    BY <1>0 DEF Walks, Control
<1>2. SameWork(t) /\ Calm(t)
    BY <1>1 DEF SameWork, Linking, Erases, Inserts, Past, Calm, SameId, SameFlags, SameNext
<1>3. SameLevels
    BY <1>2, CalmLevels
<1>4. Chains'
    BY <1>3, SameLevelsKeep
<1>5. th[t].level \in Levels /\ th[t].level \in Nat /\ th[t].level <= node[th[t].node].top_level /\ node[th[t].node].data = th[t].key
    BY <1>0, ThreadFacts DEF Chosen
<1> PICK l \in Levels : l = th[t].level
    BY <1>5
<1>6. th[t].node \in On(l)
    BY <1>5, VictimOn
<1>7. th[t].node \in On(l)'
    BY <1>3, <1>6 DEF SameLevels
<1>8. Place(t)'
    BY <1>1, <1>4, <1>5, <1>7, WalksPlace
<1>9. \A n \in DOMAIN node' : node'[n].owner # t
    BY OwnedEntered
<1> QED BY <1>2, <1>8, <1>9, CalmStep

(* A mark that has lost the race. *)
LEMMA MarkLostStep ==
    ASSUME ListInv, NEW t \in Threads, NodesOK', ThreadsOK', Others(t), node' = node, retired' = retired,
           th[t].pc = "mark", Answers(t, "false")
    PROVE  ListInv'
<1>1. Rests(t)
    BY DEF Rests, Answers
<1>2. Place(t)' /\ th'[t].pc \in {"idle", "done"} /\ \A n : ~Inserts(t, n)'
    BY <1>1, RestPlace
<1>3. Control(t)
    BY DEF ListInv, Place
<1>4. \A n \in Pointers : ~Inserts(t, n)
    BY <1>3 DEF Control, Inserts
<1> QED BY <1>2, <1>4, QuietStep DEF Busy

-----------------------------------------------------------------------------
(* Steps that leave the levels as they are, but not the hands *)

(* The others' walks. *)
LEMMA LeadsOthers ==
    ASSUME ListInv, NEW t \in Threads, Others(t), SameLevels, NEW u \in Threads, u # t, th[u].pc = "walk"
    PROVE  Leads(th[u].pred, th[u].level, th[u].node)'
<1> PICK l \in Levels : l = th[u].level
    BY ThreadFacts DEF ListInv
<1> PICK p : p = th[u].pred
    OBVIOUS
<1> PICK v : v = th[u].node
    OBVIOUS
<1>1. Leads(p, l, v)
    BY DEF ListInv, Place, Chosen
<1>2. Leads(p, l, v)'
    BY <1>1, LeadsStill DEF SameLevels
<1>3. th'[u].pred = p /\ th'[u].level = l /\ th'[u].node = v
    BY DEF Others
<1> QED BY <1>2, <1>3

(* The levels are the same if their parts are. *)
LEMMA LevelsFromParts ==
    ASSUME ListInv, NodesOK',
           \A l \in Levels : \A n \in Nodes : Entered(n, l)' <=> Entered(n, l),
           \A l \in Levels : \A n \in Nodes : Entered(n, l) => SameId(n) /\ SameNext(n) /\ (Left(n, l)' <=> Left(n, l))
    PROVE  SameLevels
<1>0. NodesOK
    BY DEF ListInv
<1>1. ASSUME NEW l \in Levels, NEW n
      PROVE  n \in On(l)' <=> n \in On(l)
    <2>1. n \in On(l)' => n \in Nodes /\ Entered(n, l)' /\ ~Left(n, l)'
        BY NextOnFacts
    <2>2. n \in On(l) => n \in Nodes /\ Entered(n, l) /\ ~Left(n, l)
        BY <1>0, OnFacts
    <2>3. Entered(n, l) => n \in DOMAIN node
        BY <1>0, EnteredFacts
    <2>4. Entered(n, l)' => n \in DOMAIN node'
        BY NextEnteredFacts
    <2>5. Entered(n, l)' /\ ~Left(n, l)' => n \in On(l)'
        BY <2>4 DEF On
    <2>6. Entered(n, l) /\ ~Left(n, l) => n \in On(l)
        BY <2>3 DEF On
    <2> QED BY <2>1, <2>2, <2>5, <2>6
<1>2. \A l \in Levels : On(l)' = On(l)
    BY <1>1
<1> QED BY <1>2 DEF SameLevels, SameNext

(* insert is called. *)
LEMMA InsertCallStep ==
    ASSUME ListInv, NEW t \in Threads, NEW k \in Keys, Call(t, "insert", k)
    PROVE  ListInv'
<1>0. NodesOK /\ ThreadsOK /\ Hands /\ Marks /\ Control(t)
    BY DEF ListInv, Place
<1> PICK o : o = th'[t].node
    OBVIOUS
<1>1. /\ ThreadsOK' /\ NodesOK' /\ AtHead(t) /\ Others(t)
      /\ th[t].pc = "idle" /\ th'[t].op = "insert" /\ th'[t].key = k /\ th'[t].result = "none"
      /\ retired' = retired
      /\ o \in Nodes \ DOMAIN node /\ DOMAIN node' = DOMAIN node \cup {o}
      /\ o \notin {head_, tail_} /\ \A n \in DOMAIN node : node'[n] = node[n]
      /\ node'[o].data = k /\ ~node'[o].fully_linked
      /\ ~node'[o].marked /\ node'[o].owner = NoThread
    BY <1>0, CallTurn DEF Others
<1>2. ASSUME NEW n, NEW l
      PROVE  ~Linking(t, n, l) /\ ~Linking(t, n, l)' /\ ~Erases(t, n) /\ ~Erases(t, n)' /\ ~Inserts(t, n)
             /\ (Inserts(t, n)' <=> n = o)
    BY <1>0, <1>1 DEF Linking, Erases, Inserts, AtHead, Control, Idle
<1>3. ASSUME NEW u \in Threads, NEW n, NEW l
      PROVE  (Linking(u, n, l)' <=> Linking(u, n, l)) /\ (Erases(u, n)' <=> Erases(u, n))
             /\ (u # t => (Inserts(u, n)' <=> Inserts(u, n)) /\ (Past(u, l)' <=> Past(u, l)))
    <2>1. CASE u = t
        BY <1>2, <2>1
    <2>2. CASE u # t
        BY <1>1, <2>2, OtherWork
    <2> QED BY <2>1, <2>2
<1>4. \A u \in Threads : ~Inserts(u, o)
    BY <1>0, <1>1 DEF Hands, Pointers
<1>5. ASSUME NEW l \in Levels, NEW n \in Nodes
      PROVE  Entered(n, l)' <=> Entered(n, l)
    <2>1. CASE n = o
        <3>1. ~Entered(n, l)
            BY <1>1, <2>1 DEF Entered
        <3>2. \A u \in Threads : ~Linking(u, n, l)'
            BY <1>3, <1>4, <2>1, LinkingInserts
        <3>3. ~Entered(n, l)'
            BY <1>1, <2>1, <3>2 DEF Entered
        <3> QED BY <3>1, <3>3
    <2>2. CASE n # o
        <3>1. (\E u \in Threads : Linking(u, n, l)') <=> \E u \in Threads : Linking(u, n, l)
            BY <1>3
        <3>2. n \in DOMAIN node' <=> n \in DOMAIN node
            BY <1>1, <2>2
        <3> QED BY <1>1, <3>1, <3>2 DEF Entered
    <2> QED BY <2>1, <2>2
<1>6. ASSUME NEW l \in Levels, NEW n \in Nodes
      PROVE  Left(n, l)' <=> Left(n, l)
    <2>1. \A u \in Threads : (Erases(u, n)' /\ Past(u, l)') <=> (Erases(u, n) /\ Past(u, l))
        BY <1>2, <1>3
    <2> QED BY <1>1, <2>1 DEF Left
<1>7. SameLevels
    <2>1. \A l \in Levels : \A n \in Nodes : Entered(n, l) => SameId(n) /\ SameNext(n)
        BY <1>0, <1>1, EnteredFacts DEF SameId, SameNext
    <2> QED BY <1>1, <1>5, <1>6, <2>1, LevelsFromParts
<1>8. Forward' /\ Chains'
    BY <1>1, <1>7, SameLevelsKeep
<1>9. Hands'
    <2>1. \A u \in Threads : \A n \in Pointers : Inserts(u, n)' =>
              n \in DOMAIN node' \ {head_, tail_} /\ ~node'[n].fully_linked
        <3> SUFFICES ASSUME NEW u \in Threads, NEW n \in Pointers, Inserts(u, n)'
                     PROVE  n \in DOMAIN node' \ {head_, tail_} /\ ~node'[n].fully_linked
            OBVIOUS
        <3>1. CASE u = t
            BY <1>1, <1>2, <3>1
        <3>2. CASE u # t
            <4>1. n \in DOMAIN node \ {head_, tail_} /\ ~node[n].fully_linked
                BY <1>0, <1>3, <3>2 DEF Hands
            <4> QED BY <1>1, <4>1
        <3> QED BY <3>1, <3>2
    <2>2. \A u, w \in Threads : \A n \in Nodes : Inserts(u, n)' /\ Inserts(w, n)' => u = w
        <3> SUFFICES ASSUME NEW u \in Threads, NEW w \in Threads, NEW n \in Nodes, Inserts(u, n)', Inserts(w, n)'
                     PROVE  u = w
            OBVIOUS
        <3>1. CASE n = o
            BY <1>3, <1>4, <3>1
        <3>2. CASE n # o
            <4>1. u # t /\ w # t
                BY <1>2, <3>2
            <4>2. Inserts(u, n) /\ Inserts(w, n)
                BY <1>3, <4>1
            <4> QED BY <1>0, <4>2 DEF Hands
        <3> QED BY <3>1, <3>2
    <2>3. \A n \in DOMAIN node' \ {head_, tail_} : node'[n].fully_linked \/ \E u \in Threads : Inserts(u, n)'
        <3> TAKE n \in DOMAIN node' \ {head_, tail_}
        <3>1. CASE n = o
            BY <1>2, <3>1
        <3>2. CASE n # o
            <4>1. n \in DOMAIN node \ {head_, tail_}
                BY <1>1, <3>2
            <4>2. node[n].fully_linked \/ \E u \in Threads : Inserts(u, n)
                BY <1>0, <4>1 DEF Hands
            <4> QED BY <1>1, <1>2, <1>3, <4>1, <4>2
        <3> QED BY <3>1, <3>2
    <2> QED BY <2>1, <2>2, <2>3 DEF Hands
<1>10. Marks'
    <2>1. retired' \subseteq DOMAIN node' /\ \A n \in retired' : node'[n].marked
        BY <1>0, <1>1 DEF Marks
    <2>2. \A n \in DOMAIN node' : node'[n].marked =>
              node'[n].fully_linked /\ (n \in retired' \/ \E u \in Threads : Erases(u, n)')
        BY <1>0, <1>1, <1>3 DEF Marks
    <2>3. \A u \in Threads : \A n \in Pointers : Erases(u, n)' =>
              n \in DOMAIN node' \ retired' /\ node'[n].marked
        BY <1>0, <1>1, <1>3 DEF Marks
    <2>4. \A u, w \in Threads : \A n \in Nodes : Erases(u, n)' /\ Erases(w, n)' => u = w
        BY <1>0, <1>3 DEF Marks
    <2> QED BY <2>1, <2>2, <2>3, <2>4 DEF Marks
<1>11. Gentle(t)
    <2>1. \A n \in Nodes : \A l \in Levels : Entered(n, l) => Entered(n, l)' /\ SameId(n)
        BY <1>7 DEF SameLevels
    <2>2. \A n \in DOMAIN node : n \in DOMAIN node' /\ SameId(n) /\ SameNext(n) /\ SameFlags(n) /\ SameOwner(n)
        BY <1>1 DEF SameId, SameNext, SameFlags, SameOwner
    <2>3. \A u \in Threads : \A n \in Nodes : Inserts(u, n) => n \in DOMAIN node
        BY <1>0 DEF Hands, Pointers
    <2>4. \A u \in Threads : \A n \in DOMAIN node' : node'[n].owner = u => n \in DOMAIN node
        BY <1>1, ThreadAssumption
    <2> QED BY <2>1, <2>2, <2>3, <2>4 DEF Gentle, SameNext, SameFlags, SameOwner
<1>12. Place(t)'
    BY <1>1, HeadPlace
<1>13. \A n \in DOMAIN node' : node'[n].owner # t
    <2>1. \A n \in DOMAIN node : node[n].owner # t
        BY <1>1, OwnedEntered
    <2> QED BY <1>1, <2>1, ThreadAssumption
<1> QED BY <1>1, <1>7, <1>8, <1>9, <1>10, <1>11, <1>12, <1>13, LeadsOthers, Together

(* insert deletes its node. *)
LEMMA InsertFailsStep ==
    ASSUME ListInv, NEW t \in Threads, InsertFails(t)
    PROVE  ListInv'
<1>0. NodesOK /\ ThreadsOK /\ Hands /\ Marks
    BY DEF ListInv
<1> PICK o : o = th[t].node
    OBVIOUS
<1>1. /\ ThreadsOK' /\ NodesOK' /\ retired' = retired /\ Others(t)
      /\ th[t].pc = "await" /\ Answers(t, "false")
      /\ Inserts(t, o) /\ DOMAIN node' = DOMAIN node \ {o}
      /\ \A n \in DOMAIN node' : node'[n] = node[n]
    BY InsertFailsTurn DEF Others
<1>2. Rests(t)
    BY <1>1 DEF Rests, Answers
<1>3. /\ Place(t)' /\ \A n : ~Inserts(t, n)' /\ ~Erases(t, n)'
      /\ \A n, l : ~Linking(t, n, l)' /\ ~Past(t, l)'
    BY <1>2, RestPlace
<1>4. ASSUME NEW u \in Threads, NEW n, NEW l
      PROVE  (Linking(u, n, l)' <=> Linking(u, n, l)) /\ (Erases(u, n)' <=> Erases(u, n)) /\ (Past(u, l)' <=> Past(u, l))
             /\ (u # t => (Inserts(u, n)' <=> Inserts(u, n)))
    <2>1. CASE u = t
        BY <1>1, <1>3, <2>1 DEF Linking, Erases, Past
    <2>2. CASE u # t
        BY <1>1, <2>2, OtherWork
    <2> QED BY <2>1, <2>2
<1>5. /\ \A l \in Levels : ~Entered(o, l)
      /\ o \in DOMAIN node \ {head_, tail_} /\ o \in Nodes /\ ~node[o].fully_linked
    <2>1. \A l \in Levels : ~Linking(t, o, l)
        BY <1>1 DEF Linking
    <2> QED BY <1>1, <2>1, NotEntered, Constants
<1>6. ASSUME NEW l \in Levels, NEW n \in Nodes
      PROVE  (Entered(n, l)' <=> Entered(n, l)) /\ (Left(n, l)' <=> Left(n, l))
    <2>1. (\E u \in Threads : Linking(u, n, l)') <=> \E u \in Threads : Linking(u, n, l)
        BY <1>4
    <2>2. Left(n, l)' <=> Left(n, l)
        BY <1>1, <1>4 DEF Left
    <2>3. CASE n = o
        <3>1. ~Entered(n, l)'
            BY <1>1, <1>5, <2>3 DEF Entered
        <3> QED BY <1>5, <2>2, <2>3, <3>1
    <2>4. CASE n # o
        <3>1. n \in DOMAIN node' <=> n \in DOMAIN node
            BY <1>1, <2>4
        <3> QED BY <1>1, <2>1, <2>2, <3>1 DEF Entered
    <2> QED BY <2>3, <2>4
<1>7. SameLevels
    <2>1. ASSUME NEW l \in Levels, NEW n \in Nodes, Entered(n, l) PROVE SameId(n) /\ SameNext(n)
        <3>1. n \in DOMAIN node'
            BY <1>0, <1>1, <1>5, <2>1, EnteredFacts
        <3> QED BY <1>1, <3>1 DEF SameId, SameNext
    <2> QED BY <1>1, <1>6, <2>1, LevelsFromParts
<1>8. Forward' /\ Chains'
    BY <1>1, <1>7, SameLevelsKeep
<1>9. \A u \in Threads : u # t => ~Inserts(u, o)
    BY <1>0, <1>1, <1>5 DEF Hands
<1>10. Hands'
    <2>1. \A u \in Threads : \A n \in Pointers : Inserts(u, n)' =>
              n \in DOMAIN node' \ {head_, tail_} /\ ~node'[n].fully_linked
        <3> SUFFICES ASSUME NEW u \in Threads, NEW n \in Pointers, Inserts(u, n)'
                     PROVE  n \in DOMAIN node' \ {head_, tail_} /\ ~node'[n].fully_linked
            OBVIOUS
        <3>1. u # t /\ Inserts(u, n)
            BY <1>3, <1>4
        <3>2. n \in DOMAIN node \ {head_, tail_} /\ ~node[n].fully_linked
            BY <1>0, <3>1 DEF Hands
        <3>3. n # o
            BY <1>9, <3>1
        <3> QED BY <1>1, <3>2, <3>3
    <2>2. \A u, w \in Threads : \A n \in Nodes : Inserts(u, n)' /\ Inserts(w, n)' => u = w
        BY <1>0, <1>3, <1>4 DEF Hands
    <2>3. \A n \in DOMAIN node' \ {head_, tail_} : node'[n].fully_linked \/ \E u \in Threads : Inserts(u, n)'
        <3> TAKE n \in DOMAIN node' \ {head_, tail_}
        <3>1. n \in DOMAIN node \ {head_, tail_} /\ n # o
            BY <1>1
        <3>2. node[n].fully_linked \/ \E u \in Threads : Inserts(u, n)
            BY <1>0, <3>1 DEF Hands
        <3>3. ~Inserts(t, n)
            BY <3>1 DEF Inserts
        <3> QED BY <1>1, <1>4, <3>1, <3>2, <3>3
    <2> QED BY <2>1, <2>2, <2>3 DEF Hands
<1>11. \A n \in DOMAIN node : node[n].marked => n # o
    BY <1>0, <1>5 DEF Marks
<1>12. Marks'
    <2>1. retired' \subseteq DOMAIN node' /\ \A n \in retired' : node'[n].marked
        BY <1>0, <1>1, <1>11 DEF Marks
    <2>2. \A n \in DOMAIN node' : node'[n].marked =>
              node'[n].fully_linked /\ (n \in retired' \/ \E u \in Threads : Erases(u, n)')
        BY <1>0, <1>1, <1>4 DEF Marks
    <2>3. \A u \in Threads : \A n \in Pointers : Erases(u, n)' =>
              n \in DOMAIN node' \ retired' /\ node'[n].marked
        BY <1>0, <1>1, <1>4, <1>11 DEF Marks
    <2>4. \A u, w \in Threads : \A n \in Nodes : Erases(u, n)' /\ Erases(w, n)' => u = w
        BY <1>0, <1>4 DEF Marks
    <2> QED BY <2>1, <2>2, <2>3, <2>4 DEF Marks
<1>13. Gentle(t)
    <2>1. \A n \in Nodes : \A l \in Levels : Entered(n, l) => Entered(n, l)' /\ SameId(n)
        BY <1>7 DEF SameLevels
    <2>2. \A n \in DOMAIN node : n # o =>
              n \in DOMAIN node' /\ SameId(n) /\ SameNext(n) /\ SameFlags(n) /\ SameOwner(n)
        BY <1>1 DEF SameId, SameNext, SameFlags, SameOwner
    <2>3. \A u \in Threads : \A n \in Nodes : u # t /\ Inserts(u, n) => n \in DOMAIN node /\ n # o
        BY <1>0, <1>9 DEF Hands, Pointers
    <2>4. \A u \in Threads : \A n \in DOMAIN node : node[n].owner = u => n # o
        BY <1>5, OwnedEntered
    <2>5. \A n \in DOMAIN node' : n \in DOMAIN node /\ n # o
        BY <1>1
    <2> QED BY <1>5, <2>1, <2>2, <2>3, <2>4, <2>5 DEF Gentle, SameNext, SameFlags, SameOwner
<1>14. \A n \in DOMAIN node' : node'[n].owner # t
    BY <1>1, OwnedEntered
<1> QED BY <1>1, <1>3, <1>7, <1>8, <1>10, <1>12, <1>13, <1>14, LeadsOthers, Together

(* The node of an insert is in the set. *)
LEMMA FullyLinkedStep ==
    ASSUME ListInv, NEW t \in Threads, FullyLinked(t)
    PROVE  ListInv'
<1>0. NodesOK /\ ThreadsOK /\ Hands /\ Marks /\ Control(t) /\ Found(t) /\ Made(t) /\ Owners /\ \A j \in Levels : Holds(t, j)
    BY DEF ListInv, Place
<1> PICK o : o = th[t].node
    OBVIOUS
<1>1. /\ ThreadsOK' /\ NodesOK' /\ retired' = retired /\ Others(t)
      /\ th[t].pc = "linked" /\ th'[t].pc = "unlock" /\ th'[t].op = th[t].op /\ th'[t].key = th[t].key
      /\ th'[t].node = o /\ th'[t].result = "true" /\ SameNotes(t) /\ SamePlace(t)
      /\ Inserts(t, o) /\ DOMAIN node' = DOMAIN node
      /\ \A n \in DOMAIN node : SameId(n) /\ SameNext(n) /\ SameOwner(n)
      /\ \A n \in DOMAIN node : node'[n].marked = node[n].marked
      /\ \A n \in DOMAIN node : n # o => node'[n].fully_linked = node[n].fully_linked
      /\ node'[o].fully_linked
    BY FullyLinkedTurn DEF Others
<1>2. th[t].op = "insert" /\ th[t].result = "none" /\ th[t].key \in Keys /\ th[t].level \in Levels
      /\ th[t].pc \in Inserting /\ th[t].key \in Nat
    BY <1>0, <1>1, ThreadFacts DEF Control, Inserting
<1>3. o \in DOMAIN node \ {head_, tail_} /\ o \in Nodes /\ ~node[o].fully_linked
    BY <1>0, <1>2, OwnNode
<1>4. ASSUME NEW n, NEW l
      PROVE  /\ Linking(t, n, l) <=> n = o
             /\ ~Linking(t, n, l)' /\ ~Inserts(t, n)' /\ ~Erases(t, n) /\ ~Erases(t, n)'
    BY <1>1, <1>2 DEF Linking, Inserts, Erases
<1>5. ASSUME NEW u \in Threads, NEW n, NEW l, u # t
      PROVE  /\ Linking(u, n, l)' <=> Linking(u, n, l)
             /\ Erases(u, n)' <=> Erases(u, n)
             /\ Past(u, l)' <=> Past(u, l)
             /\ Inserts(u, n)' <=> Inserts(u, n)
    BY <1>1, <1>5, OtherWork
<1>6. ASSUME NEW l \in Levels, NEW n \in Nodes
      PROVE  Entered(n, l)' <=> Entered(n, l)
    <2>1. CASE n = o
        <3>1. Entered(n, l) <=> l <= node[o].top_level
            BY <1>3, <1>4, <2>1 DEF Entered
        <3>2. Entered(n, l)' <=> l <= node'[o].top_level
            BY <1>1, <1>3, <2>1 DEF Entered
        <3> QED BY <1>1, <1>3, <3>1, <3>2 DEF SameId
    <2>2. CASE n # o
        <3>1. (\E u \in Threads : Linking(u, n, l)') <=> \E u \in Threads : Linking(u, n, l)
            BY <1>4, <1>5, <2>2
        <3>2. n \in DOMAIN node => node'[n].fully_linked = node[n].fully_linked /\ node'[n].top_level = node[n].top_level
            BY <1>1, <2>2 DEF SameId
        <3> QED BY <1>1, <3>1, <3>2 DEF Entered
    <2> QED BY <2>1, <2>2
<1>7. ASSUME NEW l \in Levels, NEW n \in Nodes
      PROVE  Left(n, l)' <=> Left(n, l)
    <2>1. \A u \in Threads : (Erases(u, n)' /\ Past(u, l)') <=> (Erases(u, n) /\ Past(u, l))
        BY <1>4, <1>5
    <2> QED BY <1>1, <2>1 DEF Left
<1>8. SameLevels
    <2>1. \A l \in Levels : \A n \in Nodes : Entered(n, l) => SameId(n) /\ SameNext(n)
        BY <1>0, <1>1, EnteredFacts
    <2> QED BY <1>1, <1>6, <1>7, <2>1, LevelsFromParts
<1>9. Forward' /\ Chains'
    BY <1>1, <1>8, SameLevelsKeep
<1>10. \A u \in Threads : u # t => ~Inserts(u, o)
    BY <1>0, <1>1, <1>3 DEF Hands
<1>11. Hands'
    <2>1. \A u \in Threads : \A n \in Pointers : Inserts(u, n)' =>
              n \in DOMAIN node' \ {head_, tail_} /\ ~node'[n].fully_linked
        <3> SUFFICES ASSUME NEW u \in Threads, NEW n \in Pointers, Inserts(u, n)'
                     PROVE  n \in DOMAIN node' \ {head_, tail_} /\ ~node'[n].fully_linked
            OBVIOUS
        <3>1. u # t
            BY <1>4
        <3>2. Inserts(u, n)
            BY <1>5, <3>1
        <3>3. n \in DOMAIN node \ {head_, tail_} /\ ~node[n].fully_linked
            BY <1>0, <3>2 DEF Hands
        <3>4. n # o
            BY <1>10, <3>1, <3>2
        <3> QED BY <1>1, <3>3, <3>4
    <2>2. \A u, w \in Threads : \A n \in Nodes : Inserts(u, n)' /\ Inserts(w, n)' => u = w
        BY <1>0, <1>4, <1>5 DEF Hands
    <2>3. \A n \in DOMAIN node' \ {head_, tail_} : node'[n].fully_linked \/ \E u \in Threads : Inserts(u, n)'
        <3> TAKE n \in DOMAIN node' \ {head_, tail_}
        <3>1. CASE n = o
            BY <1>1, <3>1
        <3>2. CASE n # o
            <4>1. node[n].fully_linked \/ \E u \in Threads : Inserts(u, n)
                BY <1>0, <1>1 DEF Hands
            <4>2. ~Inserts(t, n)
                BY <3>2 DEF Inserts
            <4> QED BY <1>1, <1>5, <3>2, <4>1, <4>2
        <3> QED BY <3>1, <3>2
    <2> QED BY <2>1, <2>2, <2>3 DEF Hands
<1>12. ASSUME NEW u \in Threads, NEW n PROVE Erases(u, n)' <=> Erases(u, n)
    <2>1. CASE u = t
        BY <1>4, <2>1
    <2>2. CASE u # t
        BY <1>5, <2>2
    <2> QED BY <2>1, <2>2
<1>13. Marks'
    <2>1. retired' \subseteq DOMAIN node' /\ \A n \in retired' : node'[n].marked
        BY <1>0, <1>1 DEF Marks
    <2>2. \A n \in DOMAIN node' : node'[n].marked =>
              node'[n].fully_linked /\ (n \in retired' \/ \E u \in Threads : Erases(u, n)')
        BY <1>0, <1>1, <1>12 DEF Marks
    <2>3. \A u \in Threads : \A n \in Pointers : Erases(u, n)' =>
              n \in DOMAIN node' \ retired' /\ node'[n].marked
        BY <1>0, <1>1, <1>12 DEF Marks
    <2>4. \A u, w \in Threads : \A n \in Nodes : Erases(u, n)' /\ Erases(w, n)' => u = w
        BY <1>0, <1>12 DEF Marks
    <2> QED BY <2>1, <2>2, <2>3, <2>4 DEF Marks
<1>14. Gentle(t)
    <2>1. \A n \in Nodes : \A l \in Levels : Entered(n, l) => Entered(n, l)' /\ SameId(n)
        BY <1>8 DEF SameLevels
    <2>2. \A n \in DOMAIN node : node[n].fully_linked => n \in DOMAIN node' /\ node'[n].fully_linked /\ SameId(n)
        BY <1>1, <1>3
    <2>3. \A u \in Threads : \A n \in Nodes : Inserts(u, n) => n \in DOMAIN node
        BY <1>0 DEF Hands, Pointers
    <2> QED BY <1>1, <2>1, <2>2, <2>3 DEF Gentle, SameNext, SameOwner
<1>15. Stays
    BY <1>8 DEF SameLevels, Stays
<1>16. th'[t].preds = th[t].preds /\ th'[t].succs = th[t].succs /\ th'[t].level = th[t].level
    BY <1>1 DEF SameNotes, SamePlace
<1>17. Found(t)'
    <2>1. ASSUME NEW j \in Levels PROVE Noted(t, j)'
        <3>1. Noted(t, j)
            BY <1>0, <1>2 DEF Found
        <3> QED BY <1>0, <1>1, <1>15, <1>16, <3>1, NotedStays
    <2>2. \A j \in Levels : th[t].preds[j] \in DOMAIN node
        BY <1>0, <1>2, NotedFacts
    <2>3. \A i, j \in Levels : i < j => Lower(th[t].preds[j], th[t].preds[i])'
        BY <1>0, <1>1, <1>2, <1>16, <2>2 DEF Found, Lower, SameId
    <2> QED BY <1>1, <2>1, <2>3 DEF Found
<1>18. Control(t)' /\ Searches(t)' /\ Chosen(t)' /\ Made(t)'
    BY <1>1, <1>2 DEF Control, Inserting, Searches, Chosen, Made, Inserts
<1>19. ASSUME NEW j \in Levels PROVE Holds(t, j)' /\ (Locked(t, j)' <=> Locked(t, j))
    <2>1. Locked(t, j)' <=> Locked(t, j)
        BY <1>1, <1>16 DEF Locked
    <2>2. ~Validated(t, j)' /\ ~Unlinked(t, j)'
        BY <1>1 DEF Validated, Unlinked
    <2>3. th[t].preds[j] \in DOMAIN node
        BY <1>0, <1>2, NotedFacts
    <2>4. Locked(t, j)' => node'[th[t].preds[j]].owner = t
        BY <1>0, <1>1, <2>1, <2>3 DEF Holds, SameOwner
    <2> QED BY <1>16, <2>1, <2>2, <2>4 DEF Holds
<1>20. Place(t)'
    BY <1>17, <1>18, <1>19 DEF Place
<1>21. \A n \in DOMAIN node' : node'[n].owner = t => \E j \in Levels : Locked(t, j)' /\ th'[t].preds[j] = n
    BY <1>0, <1>1, <1>16, <1>19 DEF Owners, SameOwner
<1> QED BY <1>1, <1>8, <1>9, <1>11, <1>13, <1>14, <1>20, <1>21, LeadsOthers, Together

(* erase marks its victim. *)
LEMMA MarkingStep ==
    ASSUME ListInv, NEW t \in Threads, NodesOK', ThreadsOK', Others(t), retired' = retired,
           th[t].pc = "mark", node[th[t].node].owner = NoThread, Marking(t)
    PROVE  ListInv'
<1>0. NodesOK /\ ThreadsOK /\ Hands /\ Marks /\ Control(t) /\ Chosen(t)
    BY DEF ListInv, Place
<1> PICK v : v = th[t].node
    OBVIOUS
<1> PICK top : top = node[v].top_level
    OBVIOUS
<1>1. /\ v \in DOMAIN node \ {head_, tail_} /\ node[v].fully_linked /\ node[v].data = th[t].key
      /\ v \in Nodes /\ top \in Levels /\ top \in Nat /\ node[v].owner = NoThread /\ ~node[v].marked
    BY <1>0, NodeFacts DEF Chosen, Marking
<1>2. /\ DOMAIN node' = DOMAIN node /\ Walks(t, top)
      /\ \A n \in DOMAIN node : SameId(n) /\ SameNext(n) /\ SameOwner(n)
      /\ \A n \in DOMAIN node : node'[n].fully_linked = node[n].fully_linked
      /\ \A n \in DOMAIN node : n # v => node'[n].marked = node[n].marked
      /\ node'[v].marked
    BY DEF Marking
<1>3. th[t].op = "erase" /\ th[t].key \in Keys
    BY <1>0 DEF Control
<1>4. ASSUME NEW n, NEW l
      PROVE  /\ ~Linking(t, n, l) /\ ~Linking(t, n, l)' /\ ~Inserts(t, n) /\ ~Inserts(t, n)'
             /\ ~Erases(t, n) /\ (Erases(t, n)' <=> n = v) /\ (Past(t, l)' <=> top < l)
    BY <1>2, <1>3 DEF Linking, Inserts, Erases, Past, Walks
<1>5. ASSUME NEW u \in Threads, NEW n, NEW l, u # t
      PROVE  /\ Linking(u, n, l)' <=> Linking(u, n, l)
             /\ Erases(u, n)' <=> Erases(u, n)
             /\ Past(u, l)' <=> Past(u, l)
             /\ Inserts(u, n)' <=> Inserts(u, n)
    BY <1>5, OtherWork
<1>6. ASSUME NEW l \in Levels, NEW n \in Nodes
      PROVE  Entered(n, l)' <=> Entered(n, l)
    <2>1. (\E u \in Threads : Linking(u, n, l)') <=> \E u \in Threads : Linking(u, n, l)
        BY <1>4, <1>5
    <2>2. n \in DOMAIN node => node'[n].fully_linked = node[n].fully_linked /\ node'[n].top_level = node[n].top_level
        BY <1>2 DEF SameId
    <2> QED BY <1>2, <2>1, <2>2 DEF Entered
<1>7. ASSUME NEW l \in Levels, NEW n \in Nodes, Entered(n, l)
      PROVE  Left(n, l)' <=> Left(n, l)
    <2>1. ASSUME NEW u \in Threads
          PROVE  (Erases(u, n)' /\ Past(u, l)') <=> (Erases(u, n) /\ Past(u, l))
        <3>1. CASE u = t
            <4>1. n = v => ~(top < l)
                BY <1>0, <1>1, <1>7, EnteredFacts, Constants
            <4> QED BY <1>4, <3>1, <4>1
        <3>2. CASE u # t
            BY <1>5, <3>2
        <3> QED BY <3>1, <3>2
    <2> QED BY <2>1 DEF Left
<1>8. SameLevels
    <2>1. \A l \in Levels : \A n \in Nodes : Entered(n, l) => SameId(n) /\ SameNext(n)
        BY <1>0, <1>2, EnteredFacts
    <2> QED BY <1>6, <1>7, <2>1, LevelsFromParts
<1>9. Forward' /\ Chains'
    BY <1>8, SameLevelsKeep
<1>10. Hands'
    <2>1. \A u \in Threads : \A n : Inserts(u, n)' <=> Inserts(u, n)
        BY <1>4, <1>5
    <2> QED BY <1>0, <1>2, <2>1 DEF Hands
<1>11. \A u \in Threads : ~Erases(u, v)
    BY <1>0, <1>1 DEF Marks, Pointers
<1>12. Marks'
    <2>1. retired' \subseteq DOMAIN node' /\ \A n \in retired' : node'[n].marked
        BY <1>0, <1>1, <1>2 DEF Marks
    <2>2. ASSUME NEW n \in DOMAIN node', node'[n].marked
          PROVE  node'[n].fully_linked /\ (n \in retired' \/ \E u \in Threads : Erases(u, n)')
        <3>1. CASE n = v
            BY <1>1, <1>2, <1>4, <3>1
        <3>2. CASE n # v
            <4>1. node[n].fully_linked /\ (n \in retired \/ \E u \in Threads : Erases(u, n))
                BY <1>0, <1>2, <2>2, <3>2 DEF Marks
            <4> QED BY <1>2, <1>4, <1>5, <4>1
        <3> QED BY <3>1, <3>2
    <2>3. ASSUME NEW u \in Threads, NEW n \in Pointers, Erases(u, n)'
          PROVE  n \in DOMAIN node' \ retired' /\ node'[n].marked
        <3>1. CASE u = t
            <4>1. n = v
                BY <1>4, <2>3, <3>1
            <4> QED BY <1>0, <1>1, <1>2, <4>1 DEF Marks
        <3>2. CASE u # t
            <4>1. Erases(u, n)
                BY <1>5, <2>3, <3>2
            <4>2. n \in DOMAIN node \ retired /\ node[n].marked
                BY <1>0, <4>1 DEF Marks
            <4> QED BY <1>1, <1>2, <4>2
        <3> QED BY <3>1, <3>2
    <2>4. ASSUME NEW u \in Threads, NEW w \in Threads, NEW n \in Nodes, Erases(u, n)', Erases(w, n)'
          PROVE  u = w
        <3>1. CASE n = v
            BY <1>5, <1>11, <2>4, <3>1
        <3>2. CASE n # v
            <4>1. u # t /\ w # t
                BY <1>4, <2>4, <3>2
            <4>2. Erases(u, n) /\ Erases(w, n)
                BY <1>5, <2>4, <4>1
            <4> QED BY <1>0, <4>2 DEF Marks
        <3> QED BY <3>1, <3>2
    <2> QED BY <2>1, <2>2, <2>3, <2>4 DEF Marks
<1>13. Gentle(t)
    <2>1. \A n \in Nodes : \A l \in Levels : Entered(n, l) => Entered(n, l)' /\ SameId(n)
        BY <1>8 DEF SameLevels
    <2>2. \A u \in Threads : \A n \in Nodes : Inserts(u, n) => n \in DOMAIN node
        BY <1>0 DEF Hands, Pointers
    <2>3. \A u \in Threads : \A n \in DOMAIN node : node[n].owner = u => n # v
        BY <1>1, ThreadAssumption
    <2> QED BY <1>2, <2>1, <2>2, <2>3 DEF Gentle, SameNext, SameOwner
<1>14. v \in On(top)'
    <2>1. Entered(v, top)
        BY <1>1 DEF Entered
    <2>2. v \in On(top)
        BY <1>1, <2>1, UnmarkedOn
    <2> QED BY <1>1, <1>8, <2>2 DEF SameLevels
<1>15. node'[v].top_level = top /\ node'[v].data = th[t].key
    BY <1>1, <1>2 DEF SameId
<1>16. Place(t)'
    BY <1>1, <1>2, <1>3, <1>9, <1>14, <1>15, WalksPlace
<1>17. \A n \in DOMAIN node' : node'[n].owner # t
    <2>1. \A n \in DOMAIN node : node[n].owner # t
        BY OwnedEntered
    <2> QED BY <1>2, <2>1 DEF SameOwner
<1> QED BY <1>8, <1>9, <1>10, <1>12, <1>13, <1>16, <1>17, LeadsOthers, Together

(* MarkVictim, whether or not it marks. *)
LEMMA MarkVictimStep ==
    ASSUME ListInv, NEW t \in Threads, MarkVictim(t)
    PROVE  ListInv'
BY MarkVictimTurn, MarkingStep, MarkLostStep DEF Others

(* erase retires its victim, which is on no level any more. *)
LEMMA RetireStep ==
    ASSUME ListInv, NEW t \in Threads, Retire(t)
    PROVE  ListInv'
<1>0. NodesOK /\ ThreadsOK /\ Hands /\ Marks
    BY DEF ListInv
<1> PICK v : v = th[t].node
    OBVIOUS
<1>1. /\ ThreadsOK' /\ NodesOK' /\ node' = node /\ retired' = retired \cup {v}
      /\ Others(t) /\ th[t].pc = "retire" /\ Answers(t, "true")
    BY RetireTurn DEF Others
<1>2. /\ v \in DOMAIN node \ {head_, tail_} /\ v \in Nodes /\ v \notin retired /\ Erases(t, v)
      /\ node[v].marked /\ th[t].op = "erase"
    BY <1>1, Victim
<1>3. Rests(t)
    BY <1>1 DEF Rests, Answers
<1>4. /\ Place(t)' /\ \A n : ~Inserts(t, n)' /\ ~Erases(t, n)'
      /\ \A n, l : ~Linking(t, n, l)' /\ ~Past(t, l)'
    BY <1>3, RestPlace
<1>5. ASSUME NEW n, NEW l
      PROVE  ~Linking(t, n, l) /\ ~Inserts(t, n) /\ (Erases(t, n) <=> n = v) /\ Past(t, l)
    BY <1>1, <1>2 DEF Linking, Inserts, Erases, Past
<1>6. ASSUME NEW u \in Threads, NEW n, NEW l, u # t
      PROVE  /\ Linking(u, n, l)' <=> Linking(u, n, l)
             /\ Erases(u, n)' <=> Erases(u, n)
             /\ Past(u, l)' <=> Past(u, l)
             /\ Inserts(u, n)' <=> Inserts(u, n)
    BY <1>1, <1>6, OtherWork
<1>7. ASSUME NEW l \in Levels, NEW n \in Nodes
      PROVE  (Entered(n, l)' <=> Entered(n, l)) /\ (Left(n, l)' <=> Left(n, l))
    <2>1. (\E u \in Threads : Linking(u, n, l)') <=> \E u \in Threads : Linking(u, n, l)
        BY <1>4, <1>5, <1>6
    <2>2. Entered(n, l)' <=> Entered(n, l)
        BY <1>1, <2>1 DEF Entered
    <2>3. CASE n = v
        <3>1. Left(n, l)' /\ Left(n, l)
            BY <1>1, <1>5, <2>3 DEF Left
        <3> QED BY <2>2, <3>1
    <2>4. CASE n # v
        <3>1. \A u \in Threads : (Erases(u, n)' /\ Past(u, l)') <=> (Erases(u, n) /\ Past(u, l))
            BY <1>4, <1>5, <1>6, <2>4
        <3>2. n \in retired' <=> n \in retired
            BY <1>1, <2>4
        <3>3. Left(n, l)' <=> Left(n, l)
            BY <3>1, <3>2 DEF Left
        <3> QED BY <2>2, <3>3
    <2> QED BY <2>3, <2>4
<1>8. SameLevels
    <2>1. \A n : SameId(n) /\ SameNext(n)
        BY <1>1 DEF SameId, SameNext
    <2> QED BY <1>1, <1>7, <2>1, LevelsFromParts
<1>9. Forward' /\ Chains'
    BY <1>1, <1>8, SameLevelsKeep
<1>10. Hands'
    <2>1. \A u \in Threads : \A n : Inserts(u, n)' <=> Inserts(u, n)
        BY <1>4, <1>5, <1>6
    <2> QED BY <1>0, <1>1, <2>1 DEF Hands
<1>11. Marks'
    <2>1. retired' \subseteq DOMAIN node' /\ \A n \in retired' : node'[n].marked
        BY <1>0, <1>1, <1>2 DEF Marks
    <2>2. ASSUME NEW n \in DOMAIN node', node'[n].marked
          PROVE  node'[n].fully_linked /\ (n \in retired' \/ \E u \in Threads : Erases(u, n)')
        <3>1. node[n].fully_linked /\ (n \in retired \/ \E u \in Threads : Erases(u, n))
            BY <1>0, <1>1, <2>2 DEF Marks
        <3>2. Erases(t, n) => n \in retired'
            BY <1>1, <1>5
        <3> QED BY <1>1, <1>6, <3>1, <3>2
    <2>3. ASSUME NEW u \in Threads, NEW n \in Pointers, Erases(u, n)'
          PROVE  n \in DOMAIN node' \ retired' /\ node'[n].marked
        <3>1. u # t
            BY <1>4, <2>3
        <3>2. Erases(u, n)
            BY <1>6, <2>3, <3>1
        <3>3. n \in DOMAIN node \ retired /\ node[n].marked
            BY <1>0, <3>2 DEF Marks
        <3>4. n # v
            BY <1>0, <1>2, <3>1, <3>2 DEF Marks
        <3> QED BY <1>1, <3>3, <3>4
    <2>4. \A u, w \in Threads : \A n \in Nodes : Erases(u, n)' /\ Erases(w, n)' => u = w
        BY <1>0, <1>4, <1>6 DEF Marks
    <2> QED BY <2>1, <2>2, <2>3, <2>4 DEF Marks
<1>12. Gentle(t)
    <2>1. \A n \in Nodes : \A l \in Levels : Entered(n, l) => Entered(n, l)' /\ SameId(n)
        BY <1>8 DEF SameLevels
    <2>2. \A u \in Threads : \A n \in Nodes : Inserts(u, n) => n \in DOMAIN node
        BY <1>0 DEF Hands, Pointers
    <2> QED BY <1>1, <2>1, <2>2 DEF Gentle, SameNext, SameId
<1>13. \A n \in DOMAIN node' : node'[n].owner # t
    BY <1>1, OwnedEntered
<1> QED BY <1>1, <1>4, <1>8, <1>9, <1>10, <1>11, <1>12, <1>13, LeadsOthers, Together

-----------------------------------------------------------------------------
(* Steps that change a level *)

(* insert links a level of its node. *)
LEMMA LinkLevelStep ==
    ASSUME ListInv, NEW t \in Threads, LinkLevel(t)
    PROVE  ListInv'
<1>0. /\ NodesOK /\ ThreadsOK /\ Hands /\ Marks /\ Forward /\ Chains /\ Owners
      /\ Control(t) /\ Found(t) /\ Made(t) /\ \A j \in Levels : Holds(t, j)
    BY DEF ListInv, Place
<1> PICK o : o = th[t].node
    OBVIOUS
<1> PICK l : l = th[t].level
    OBVIOUS
<1> PICK a : a = th[t].preds[l]
    OBVIOUS
<1> PICK s : s = th[t].succs[l]
    OBVIOUS
<1> PICK top : top = node[o].top_level
    OBVIOUS
<1>1. /\ ThreadsOK' /\ NodesOK' /\ retired' = retired /\ Others(t)
      /\ th[t].pc = "link" /\ SameCall(t) /\ SameNotes(t) /\ Inserts(t, o)
      /\ DOMAIN node' = DOMAIN node
      /\ \A n \in DOMAIN node : SameId(n) /\ SameFlags(n) /\ SameOwner(n)
      /\ \A n \in DOMAIN node : n # a => SameNext(n)
      /\ node'[a].next[l] = o
      /\ \A j \in 0..node[a].top_level : j # l => node'[a].next[j] = node[a].next[j]
      /\ \/ l < top /\ th'[t].pc = "link" /\ th'[t].level = l + 1
         \/ l = top /\ th'[t].pc = "linked" /\ th'[t].level = l
    BY LinkLevelTurn DEF Others
<1>1a. /\ th[t].pc = "link"
       /\ \/ l < top /\ th'[t].pc = "link" /\ th'[t].level = l + 1
          \/ l = top /\ th'[t].pc = "linked" /\ th'[t].level = l
    BY <1>1, Zenon
<1>2. th[t].op = "insert" /\ th[t].result = "none" /\ th[t].key \in Keys /\ l \in Levels /\ l \in Nat
      /\ th[t].pc \in Inserting /\ th[t].key \in Nat
    BY <1>0, <1>1, ThreadFacts DEF Control, Inserting
<1>3. o \in DOMAIN node \ {head_, tail_} /\ o \in Nodes /\ ~node[o].fully_linked /\ top \in Levels /\ top \in Nat
      /\ node[o].data = th[t].key /\ l <= top
    BY <1>0, <1>1, <1>2, OwnNode DEF Made
<1>4. /\ th'[t].op = "insert" /\ th'[t].result = "none" /\ th'[t].key = th[t].key /\ th'[t].node = o
      /\ th'[t].preds = th[t].preds /\ th'[t].succs = th[t].succs
    BY <1>1, <1>2 DEF SameCall, SameNotes
<1>5. ASSUME NEW j \in Levels
      PROVE  /\ th[t].preds[j] \in DOMAIN node /\ th[t].succs[j] \in DOMAIN node
             /\ j \in 0..node[th[t].preds[j]].top_level
    BY <1>0, <1>2, NotedFacts
<1>6. /\ node[a].owner = t /\ ~node[a].marked /\ node[a].next[l] = s /\ node[o].next[l] = s
      /\ s = tail_ \/ th[t].key < node[s].data
    <2>0. l <= l
        BY <1>2
    <2>1. Locked(t, l) /\ Validated(t, l) /\ Unlinked(t, l)
        BY <1>1a, <1>3, <2>0 DEF Locked, Validated, Unlinked
    <2> QED BY <1>0, <1>2, <2>1 DEF Holds
<1>7. Entered(a, l) /\ a \in DOMAIN node /\ node[a].data < th[t].key /\ (s # tail_ => Entered(s, l))
      /\ a \in Nodes /\ l \in 0..node[a].top_level
    BY <1>0, <1>2, NotedFacts, NodeFacts
<1>8. ~Entered(o, l)
    <2>1. ~(l < l)
        BY <1>2
    <2>2. ~Linking(t, o, l)
        BY <1>1, <2>1 DEF Linking
    <2> QED BY <1>1, <2>2, NotEntered
<1>9. a # o /\ a \in On(l)
    BY <1>2, <1>6, <1>7, <1>8, UnmarkedOn
<1>10. ASSUME NEW n, NEW j \in Levels
       PROVE  /\ n # o => ~Linking(t, n, j) /\ ~Linking(t, n, j)'
              /\ j <= top => (Linking(t, o, j)' <=> Linking(t, o, j) \/ j = l)
              /\ ~Erases(t, n) /\ ~Erases(t, n)' /\ (Inserts(t, n)' <=> Inserts(t, n))
    <2>1. j < l + 1 <=> j < l \/ j = l
        BY <1>2, Constants
    <2>2. j <= l <=> j < l \/ j = l
        BY <1>2, Constants
    <2>3. n # o => ~Linking(t, n, j) /\ ~Linking(t, n, j)'
        BY <1>4 DEF Linking
    <2>4. Linking(t, o, j) <=> j < l
        BY <1>1a, <1>2 DEF Linking
    <2>5. CASE l < top
        <3>0. l # top
            BY <1>2, <1>3, <2>5
        <3>1. th'[t].pc = "link" /\ th'[t].level = l + 1
            BY <1>1a, <3>0
        <3>2. Linking(t, o, j)' <=> j < l + 1
            BY <1>4, <3>1 DEF Linking
        <3> QED BY <1>1, <1>2, <1>4, <2>1, <2>3, <2>4, <3>1, <3>2 DEF Erases, Inserts
    <2>6. CASE l = top
        <3>0. ~(l < top)
            BY <1>2, <2>6
        <3>1. th'[t].pc = "linked"
            BY <1>1a, <3>0
        <3>2. Linking(t, o, j)'
            BY <1>4, <3>1 DEF Linking
        <3> QED BY <1>1, <1>2, <1>4, <2>2, <2>3, <2>4, <2>6, <3>1, <3>2 DEF Erases, Inserts
    <2> QED BY <1>1, <2>5, <2>6
<1>11. ASSUME NEW u \in Threads, NEW n, NEW j, u # t
       PROVE  /\ Linking(u, n, j)' <=> Linking(u, n, j)
              /\ Erases(u, n)' <=> Erases(u, n)
              /\ Past(u, j)' <=> Past(u, j)
              /\ Inserts(u, n)' <=> Inserts(u, n)
    BY <1>1, <1>11, OtherWork
<1>12. ASSUME NEW j \in Levels, NEW n
       PROVE  Entered(n, j)' <=> Entered(n, j) \/ (n = o /\ j = l)
    <2>1. CASE n = o
        <3>1. j <= top => ((\E u \in Threads : Linking(u, o, j)') <=> (\E u \in Threads : Linking(u, o, j)) \/ j = l)
            BY <1>10, <1>11
        <3>2. /\ o \in DOMAIN node' /\ node'[o].top_level = top /\ node'[o].fully_linked = node[o].fully_linked
            BY <1>1, <1>3 DEF SameId, SameFlags
        <3> QED BY <1>3, <2>1, <3>1, <3>2 DEF Entered
    <2>2. CASE n # o
        <3>1. (\E u \in Threads : Linking(u, n, j)') <=> \E u \in Threads : Linking(u, n, j)
            BY <1>10, <1>11, <2>2
        <3>2. n \in DOMAIN node => node'[n].fully_linked = node[n].fully_linked /\ node'[n].top_level = node[n].top_level
            BY <1>1 DEF SameId, SameFlags
        <3> QED BY <1>1, <2>2, <3>1, <3>2 DEF Entered
    <2> QED BY <2>1, <2>2
<1>13. ASSUME NEW j \in Levels, NEW n
       PROVE  Left(n, j)' <=> Left(n, j)
    <2>1. \A u \in Threads : (Erases(u, n)' /\ Past(u, j)') <=> (Erases(u, n) /\ Past(u, j))
        BY <1>10, <1>11
    <2> QED BY <1>1, <2>1 DEF Left
<1>14. ~Left(o, l)
    <2>1. ~node[o].marked
        BY <1>0, <1>3 DEF Marks
    <2> QED BY <1>0, <1>3, <2>1 DEF Left, Marks, Pointers
<1>15. ASSUME NEW j \in Levels PROVE On(j)' = IF j = l THEN On(j) \cup {o} ELSE On(j)
    <2>1. ASSUME NEW n PROVE n \in On(j)' <=> n \in On(j) \/ (n = o /\ j = l)
        BY <1>1, <1>3, <1>12, <1>13, <1>14 DEF On
    <2> QED BY <2>1
<1>16. ASSUME NEW j \in Levels, NEW n, Entered(n, j), n # a \/ j # l
       PROVE  node'[n].next[j] = node[n].next[j]
    <2>1. n \in DOMAIN node /\ j \in 0..node[n].top_level
        BY <1>0, <1>16, EnteredFacts
    <2>2. CASE n = a
        BY <1>1, <1>16, <2>1, <2>2
    <2>3. CASE n # a
        BY <1>1, <2>1, <2>3 DEF SameNext
    <2> QED BY <2>2, <2>3
<1>17. \A n \in DOMAIN node : node'[n].data = node[n].data
    BY <1>1 DEF SameId
<1>18. node'[o].next[l] = s
    BY <1>1, <1>3, <1>6, <1>9 DEF SameNext
<1>19. Forward'
    <2> SUFFICES ASSUME NEW j \in Levels, NEW n \in DOMAIN node', Entered(n, j)' PROVE Onward(n, j)'
        BY DEF Forward
    <2>1. CASE n = a /\ j = l
        <3>1. Entered(o, l)' /\ node'[a].data < node'[o].data
            BY <1>2, <1>3, <1>7, <1>12, <1>17
        <3> QED BY <1>1, <2>1, <3>1 DEF Onward
    <2>2. CASE n = o /\ j = l
        <3>1. CASE s = tail_
            BY <1>18, <2>2, <3>1 DEF Onward
        <3>2. CASE s # tail_
            <4>1. Entered(s, l)' /\ s \in DOMAIN node
                BY <1>2, <1>5, <1>7, <1>12, <3>2
            <4>2. node'[o].data < node'[s].data
                BY <1>3, <1>6, <1>17, <3>2, <4>1
            <4> QED BY <1>18, <2>2, <4>1, <4>2 DEF Onward
        <3> QED BY <3>1, <3>2
    <2>3. CASE ~(n = a /\ j = l) /\ ~(n = o /\ j = l)
        <3>1. Entered(n, j) /\ n \in DOMAIN node
            BY <1>1, <1>12, <2>3
        <3>2. node'[n].next[j] = node[n].next[j]
            BY <1>16, <2>3, <3>1
        <3>3. PICK m : m = node[n].next[j]
            OBVIOUS
        <3>4. CASE m = tail_
            BY <3>2, <3>3, <3>4 DEF Onward
        <3>5. CASE m # tail_
            <4>1. Entered(m, j) /\ m \in DOMAIN node /\ node[n].data < node[m].data
                BY <1>0, <3>1, <3>3, <3>5, ForwardFacts
            <4>2. Entered(m, j)'
                BY <1>12, <4>1
            <4>3. node'[n].data < node'[m].data
                BY <1>17, <3>1, <4>1
            <4>4. node'[n].next[j] = m
                BY <3>2, <3>3
            <4> QED BY <4>2, <4>3, <4>4 DEF Onward
        <3> QED BY <3>4, <3>5
    <2> QED BY <2>1, <2>2, <2>3
<1>20. Chains'
    <2>1. ASSUME NEW j \in Levels PROVE KeyChain(On(j)', head_, tail_, Ptrs(j)', Data')
        <3> DEFINE q == Ptrs(j)'
                   c == Data'
        <3>1. KeyChain(On(j), head_, tail_, Ptrs(j), Data) /\ tail_ \notin On(j)
            BY <1>0, OnFacts DEF Chains
        <3>2. ASSUME NEW n \in On(j)
              PROVE  /\ n \in DOMAIN node /\ n \in Nodes /\ Entered(n, j) /\ n # tail_ /\ Data[n] \in Nat
                     /\ Ptrs(j)[n] = node[n].next[j] /\ Data[n] = node[n].data
            BY <1>0, OnFacts
        <3>3. ASSUME NEW n \in Nodes PROVE q[n] = node'[n].next[j] /\ c[n] = node'[n].data
            BY DEF Ptrs, Data
        <3>4. ASSUME NEW n \in On(j) PROVE c[n] = Data[n]
            BY <1>17, <3>2, <3>3
        <3>5. ASSUME NEW n \in On(j), n # a \/ j # l PROVE q[n] = Ptrs(j)[n]
            BY <1>16, <3>2, <3>3, <3>5
        <3>6. CASE j # l
            <4>1. \A n \in On(j) : q[n] = Ptrs(j)[n] /\ c[n] = Data[n]
                BY <3>4, <3>5, <3>6
            <4> HIDE DEF q, c
            <4>2. KeyChain(On(j), head_, tail_, q, c)
                BY <3>1, <4>1, SameKeyChain
            <4> QED BY <1>15, <3>6, <4>2 DEF q, c
        <3>7. CASE j = l
            <4>1. q[a] = o /\ q[o] = s
                BY <1>1, <1>3, <1>7, <1>18, <3>3, <3>7
            <4>2. Ptrs(j)[a] = s /\ Data[a] = node[a].data /\ Data[o] = node[o].data /\ Data[s] = node[s].data
                <5>1. s \in Nodes
                    BY <1>0, <1>2, <1>5, NodeFacts
                <5> QED BY <1>3, <1>6, <1>7, <3>7, <5>1 DEF Ptrs, Data
            <4>3. Data[a] < Data[o] /\ (s # tail_ => Data[o] < Data[s]) /\ Data[o] \in Nat
                BY <1>2, <1>3, <1>6, <1>7, <4>2
            <4>4. o \notin On(j) /\ o # tail_ /\ a \in On(j)
                BY <1>3, <1>8, <1>9, <3>2, <3>7
            <4>5. \A n \in On(j) : n # a => q[n] = Ptrs(j)[n]
                BY <3>5
            <4>6. c[o] = Data[o]
                BY <1>3, <1>17, <3>3, <4>2
            <4>7. \A n \in On(j) : Data[n] \in Nat
                BY <3>2
            <4> HIDE DEF q, c
            <4>8. KeyChain(On(j) \cup {o}, head_, tail_, q, Data)
                BY <3>1, <4>1, <4>2, <4>3, <4>4, <4>5, <4>7, LinkIn
            <4>9. \A n \in On(j) \cup {o} : q[n] = q[n] /\ c[n] = Data[n]
                BY <3>4, <4>6
            <4>10. KeyChain(On(j) \cup {o}, head_, tail_, q, c)
                BY <3>1, <4>4, <4>8, <4>9, SameKeyChain
            <4> QED BY <1>15, <3>7, <4>10 DEF q, c
        <3> QED BY <3>6, <3>7
    <2> QED BY <2>1 DEF Chains
<1>21. ASSUME NEW u \in Threads, u # t, th[u].pc = "walk"
       PROVE  Leads(th[u].pred, th[u].level, th[u].node)'
    <2>1. PICK j \in Levels : j = th[u].level
        BY <1>0, ThreadFacts
    <2>2. PICK p : p = th[u].pred
        OBVIOUS
    <2>3. PICK v : v = th[u].node
        OBVIOUS
    <2>4. Leads(p, j, v)
        BY <1>21, <2>1, <2>2, <2>3 DEF ListInv, Place, Chosen
    <2>5. CASE j = l
        <3>1. Entered(a, j)' /\ Entered(o, j)' /\ node'[a].next[j] = o /\ node'[o].next[j] = node[a].next[j]
            BY <1>1, <1>6, <1>7, <1>12, <1>18, <2>5
        <3>2. \A x \in Nodes : Entered(x, j) /\ x # a => Entered(x, j)' /\ node'[x].next[j] = node[x].next[j]
            BY <1>12, <1>16
        <3>3. Leads(p, j, v)'
            BY <2>4, <3>1, <3>2, LeadsThrough
        <3>4. th'[u].pred = p /\ th'[u].level = j /\ th'[u].node = v
            BY <1>1, <1>21, <2>1, <2>2, <2>3 DEF Others
        <3> QED BY <3>3, <3>4
    <2>6. CASE j # l
        <3>1. \A x \in Nodes : Entered(x, j) => Entered(x, j)' /\ node'[x].next[j] = node[x].next[j]
            BY <1>12, <1>16, <2>6
        <3>2. Leads(p, j, v)'
            BY <2>4, <3>1, LeadsStill
        <3>3. th'[u].pred = p /\ th'[u].level = j /\ th'[u].node = v
            BY <1>1, <1>21, <2>1, <2>2, <2>3 DEF Others
        <3> QED BY <3>2, <3>3
    <2> QED BY <2>5, <2>6
<1>22. \A u \in Threads : \A n : (Inserts(u, n)' <=> Inserts(u, n)) /\ (Erases(u, n)' <=> Erases(u, n))
    BY <1>2, <1>10, <1>11
<1>23. Hands' /\ Marks'
    <2>1. \A n \in DOMAIN node : node'[n].marked = node[n].marked /\ node'[n].fully_linked = node[n].fully_linked
        BY <1>1 DEF SameFlags
    <2>2. Hands'
        BY <1>0, <1>1, <1>22, <2>1 DEF Hands
    <2>3. Marks'
        BY <1>0, <1>1, <1>22, <2>1 DEF Marks
    <2> QED BY <2>2, <2>3
<1>24. Stays
    BY <1>0, <1>1, <1>12, EnteredFacts DEF Stays
<1>25. Gentle(t)
    <2>1. \A u \in Threads : \A n \in Nodes : Inserts(u, n) => n \in DOMAIN node
        BY <1>0 DEF Hands, Pointers
    <2>2. ASSUME NEW u \in Threads, NEW n \in Nodes, NEW j \in Levels, u # t, Inserts(u, n), j <= node[n].top_level,
                 ~Linking(u, n, j)
          PROVE  node'[n].next[j] = node[n].next[j]
        <3>1. n \in DOMAIN node /\ ~Entered(n, j)
            BY <2>1, <2>2, NotEntered
        <3>2. CASE n = a
            <4>1. j # l
                BY <1>7, <3>1, <3>2
            <4>2. j \in 0..node[a].top_level
                BY <1>0, <2>2, <3>1, <3>2, NodeFacts
            <4> QED BY <1>1, <3>2, <4>1, <4>2
        <3>3. CASE n # a
            BY <1>1, <3>1, <3>3 DEF SameNext
        <3> QED BY <3>2, <3>3
    <2>3. \A u \in Threads : \A n \in DOMAIN node : u # t /\ node[n].owner = u => n # a
        BY <1>6
    <2>4. \A n \in DOMAIN node : node[n].fully_linked => n \in DOMAIN node' /\ node'[n].fully_linked /\ SameId(n)
        BY <1>1 DEF SameFlags
    <2>5. \A u \in Threads : \A n \in DOMAIN node : u # t /\ node[n].owner = u =>
              n \in DOMAIN node' /\ node'[n].owner = u /\ node'[n].marked = node[n].marked /\ SameNext(n)
        BY <1>1, <2>3 DEF SameOwner, SameFlags
    <2>6. \A u \in Threads : \A n \in DOMAIN node' : u # t /\ node'[n].owner = u => n \in DOMAIN node /\ node[n].owner = u
        BY <1>1 DEF SameOwner
    <2>7. \A u \in Threads : \A n \in Nodes : u # t /\ Inserts(u, n) => n \in DOMAIN node' /\ SameId(n)
        BY <1>1, <2>1
    <2> QED BY <1>24, <2>2, <2>4, <2>5, <2>6, <2>7 DEF Gentle, Stays
<1>26. Found(t)'
    <2>1. ASSUME NEW j \in Levels PROVE Noted(t, j)'
        <3>1. Noted(t, j)
            BY <1>0, <1>2 DEF Found
        <3> QED BY <1>0, <1>4, <1>24, <3>1, NotedStays
    <2>2. \A i, j \in Levels : i < j => Lower(th[t].preds[j], th[t].preds[i])'
        BY <1>0, <1>2, <1>4, <1>5, <1>17 DEF Found, Lower
    <2> QED BY <1>1, <2>1, <2>2 DEF Found
<1>27. Control(t)' /\ Searches(t)' /\ Chosen(t)'
    BY <1>1, <1>2, <1>4 DEF Control, Inserting, Searches, Chosen
<1>28. node'[o].top_level = top /\ node'[o].data = th[t].key
    BY <1>1, <1>3 DEF SameId
<1>29. Made(t)'
    <2>1. l < top => l + 1 <= top
        BY <1>2, <1>3
    <2> QED BY <1>1, <1>4, <1>28, <2>1 DEF Made
<1>30. ASSUME NEW j \in Levels
       PROVE  (Locked(t, j)' <=> j <= top) /\ (Locked(t, j) <=> j <= top)
              /\ (Validated(t, j)' => Validated(t, j) /\ j # l) /\ (Unlinked(t, j)' => Unlinked(t, j))
    <2>1. Locked(t, j) <=> j <= top
        BY <1>1 DEF Locked
    <2>2. l + 1 <= j => l <= j /\ j # l
        BY <1>2, Constants
    <2>3. Locked(t, j)' <=> j <= top
        BY <1>1, <1>4, <1>28 DEF Locked
    <2>4. Validated(t, j)' => Validated(t, j) /\ j # l
        BY <1>1, <1>4, <1>28, <2>2 DEF Validated
    <2>5. Unlinked(t, j)' => Unlinked(t, j)
        BY <1>1, <1>4, <1>28, <2>2 DEF Unlinked
    <2> QED BY <2>1, <2>3, <2>4, <2>5
<1>31. ASSUME NEW j \in Levels PROVE Holds(t, j)'
    <2> PICK q : q = th[t].preds[j]
        OBVIOUS
    <2> PICK m : m = th[t].succs[j]
        OBVIOUS
    <2>1. q \in DOMAIN node /\ m \in DOMAIN node /\ Entered(q, j)
        BY <1>0, <1>2, NotedFacts
    <2>2. Locked(t, j)' => node'[q].owner = t
        BY <1>0, <1>1, <1>30, <2>1 DEF Holds, SameOwner
    <2>3. ASSUME Validated(t, j)'
          PROVE  ~node'[q].marked /\ node'[q].next[j] = m /\ (m = tail_ \/ th[t].key < node'[m].data)
        <3>1. ~node[q].marked /\ node[q].next[j] = m /\ (m = tail_ \/ th[t].key < node[m].data) /\ j # l
            BY <1>0, <1>30, <2>3 DEF Holds
        <3> QED BY <1>1, <1>16, <1>17, <2>1, <3>1 DEF SameFlags
    <2>4. Unlinked(t, j)' => node'[o].next[j] = m
        <3>1. node'[o].next = node[o].next
            BY <1>1, <1>3, <1>9 DEF SameNext
        <3>2. Unlinked(t, j) => node[o].next[j] = m
            BY <1>0 DEF Holds
        <3> QED BY <1>30, <3>1, <3>2
    <2>5. th'[t].preds[j] = q /\ th'[t].succs[j] = m
        BY <1>4
    <2>6. Locked(t, j)' => (node[th[t].preds[j]].owner = t)'
        BY <2>2, <2>5
    <2>7. Validated(t, j)' => /\ (~node[th[t].preds[j]].marked)'
                              /\ (node[th[t].preds[j]].next[j] = th[t].succs[j])'
                              /\ (th[t].succs[j] = tail_ \/ th[t].key < node[th[t].succs[j]].data)'
        BY <1>4, <2>3, <2>5
    <2>8. Unlinked(t, j)' => (node[th[t].node].next[j] = th[t].succs[j])'
        BY <1>4, <2>4, <2>5
    <2> QED BY <2>6, <2>7, <2>8 DEF Holds
<1>32. Place(t)'
    BY <1>26, <1>27, <1>29, <1>31 DEF Place
<1>33. \A n \in DOMAIN node' : node'[n].owner = t => \E j \in Levels : Locked(t, j)' /\ th'[t].preds[j] = n
    <2>1. ASSUME NEW n \in DOMAIN node', node'[n].owner = t
          PROVE  \E j \in Levels : Locked(t, j)' /\ th'[t].preds[j] = n
        <3>1. n \in DOMAIN node /\ node[n].owner = t
            BY <1>1, <2>1 DEF SameOwner
        <3>2. PICK j \in Levels : Locked(t, j) /\ th[t].preds[j] = n
            BY <1>0, <3>1 DEF Owners
        <3> QED BY <1>4, <1>30, <3>2
    <2> QED BY <2>1
<1> QED BY <1>1, <1>19, <1>20, <1>21, <1>23, <1>25, <1>32, <1>33, Together

(* erase takes a level of its victim out. *)
LEMMA SplicesStep ==
    ASSUME ListInv, NEW t \in Threads, NodesOK', ThreadsOK', Others(t), retired' = retired,
           th[t].pc = "splice", node[th[t].pred].owner = NoThread, Splices(t)
    PROVE  ListInv'
<1>0. /\ NodesOK /\ ThreadsOK /\ Hands /\ Marks /\ Forward /\ Chains /\ Control(t) /\ Chosen(t)
    BY DEF ListInv, Place
<1> PICK c : c = th[t].node
    OBVIOUS
<1> PICK l : l = th[t].level
    OBVIOUS
<1> PICK a : a = th[t].pred
    OBVIOUS
<1> PICK m : m = node[c].next[l]
    OBVIOUS
<1>1. /\ DOMAIN node' = DOMAIN node /\ Down(t)
      /\ \A n \in DOMAIN node : SameId(n) /\ SameFlags(n) /\ SameOwner(n)
      /\ \A n \in DOMAIN node : n # a => SameNext(n)
      /\ node'[a].next[l] = m /\ node[a].next[l] = c /\ ~node[a].marked
      /\ \A j \in 0..node[a].top_level : j # l => node'[a].next[j] = node[a].next[j]
    BY DEF Splices, Curr
<1>2. /\ c \in DOMAIN node \ {head_, tail_} /\ c \in Nodes /\ c \notin retired
      /\ Erases(t, c) /\ node[c].marked /\ node[c].data = th[t].key /\ th[t].key \in Nat
      /\ th[t].op = "erase" /\ th[t].result = "true" /\ th[t].key \in Keys
      /\ l \in Levels /\ l \in Nat
    BY <1>0, Victim, ThreadFacts DEF Control
<1>3. /\ Entered(a, l) /\ node[a].data < th[t].key /\ a \in DOMAIN node /\ a \in Nodes /\ node[a].data \in Nat
      /\ l <= node[c].top_level
    BY <1>0, <1>2, EnteredFacts DEF Chosen
<1>4. c \in On(l) /\ Entered(c, l) /\ a \in On(l) /\ a # c
    <2>1. l <= l /\ a # c
        BY <1>2, <1>3
    <2> QED BY <1>1, <1>2, <1>3, <2>1, VictimOn, UnmarkedOn
<1>5. m \in DOMAIN node /\ (m # tail_ => Entered(m, l) /\ node[c].data < node[m].data)
    BY <1>0, <1>2, <1>4, ForwardFacts
<1>6. /\ th'[t].op = "erase" /\ th'[t].key = th[t].key /\ th'[t].node = c /\ th'[t].result = "true"
      /\ \/ l > 0 /\ th'[t].pc = "walk" /\ th'[t].level = l - 1
         \/ l = 0 /\ th'[t].pc = "retire"
    BY <1>1, <1>2 DEF Down, Walks, SameCall
<1>7. ASSUME NEW n, NEW j \in Levels
      PROVE  /\ ~Linking(t, n, j) /\ ~Linking(t, n, j)' /\ ~Inserts(t, n) /\ ~Inserts(t, n)'
             /\ (Erases(t, n) <=> n = c) /\ (Erases(t, n)' <=> n = c)
             /\ (Past(t, j) <=> l < j) /\ (Past(t, j)' <=> l < j \/ j = l)
    <2>1. l > 0 => (l - 1 < j <=> l < j \/ j = l)
        BY <1>2, Constants
    <2>2. l = 0 => l < j \/ j = l
        BY <1>2, Constants
    <2>3. Past(t, j) <=> l < j
        BY DEF Past
    <2>4. Past(t, j)' <=> l < j \/ j = l
        <3>1. CASE l > 0 /\ th'[t].pc = "walk" /\ th'[t].level = l - 1
            BY <2>1, <3>1 DEF Past
        <3>2. CASE l = 0 /\ th'[t].pc = "retire"
            BY <2>2, <3>2 DEF Past
        <3> QED BY <1>6, <3>1, <3>2
    <2>5. (Erases(t, n) <=> n = c) /\ (Erases(t, n)' <=> n = c)
        BY <1>6 DEF Erases
    <2>6. ~Linking(t, n, j) /\ ~Linking(t, n, j)' /\ ~Inserts(t, n) /\ ~Inserts(t, n)'
        BY <1>2, <1>6 DEF Linking, Inserts
    <2> QED BY <2>3, <2>4, <2>5, <2>6
<1>8. ASSUME NEW u \in Threads, NEW n, NEW j, u # t
       PROVE  /\ Linking(u, n, j)' <=> Linking(u, n, j)
              /\ Erases(u, n)' <=> Erases(u, n)
              /\ Past(u, j)' <=> Past(u, j)
              /\ Inserts(u, n)' <=> Inserts(u, n)
    BY <1>8, OtherWork
<1>9. ASSUME NEW j \in Levels, NEW n
      PROVE  Entered(n, j)' <=> Entered(n, j)
    <2>1. (\E u \in Threads : Linking(u, n, j)') <=> \E u \in Threads : Linking(u, n, j)
        BY <1>7, <1>8
    <2>2. n \in DOMAIN node => node'[n].fully_linked = node[n].fully_linked /\ node'[n].top_level = node[n].top_level
        BY <1>1 DEF SameId, SameFlags
    <2> QED BY <1>1, <2>1, <2>2 DEF Entered
<1>10. ASSUME NEW j \in Levels, NEW n
       PROVE  Left(n, j)' <=> Left(n, j) \/ (n = c /\ j = l)
    <2>1. \A u \in Threads : u # t => ((Erases(u, n)' /\ Past(u, j)') <=> (Erases(u, n) /\ Past(u, j)))
        BY <1>8
    <2>2. (Erases(t, n)' /\ Past(t, j)') <=> (Erases(t, n) /\ Past(t, j)) \/ (n = c /\ j = l)
        BY <1>7
    <2> QED BY <2>1, <2>2 DEF Left
<1>11. ASSUME NEW j \in Levels PROVE On(j)' = IF j = l THEN On(j) \ {c} ELSE On(j)
    <2>1. ASSUME NEW n PROVE n \in On(j)' <=> n \in On(j) /\ ~(n = c /\ j = l)
        BY <1>1, <1>9, <1>10 DEF On
    <2> QED BY <2>1
<1>12. ASSUME NEW j \in Levels, NEW n, Entered(n, j), n # a \/ j # l
       PROVE  node'[n].next[j] = node[n].next[j]
    <2>1. n \in DOMAIN node /\ j \in 0..node[n].top_level
        BY <1>0, <1>12, EnteredFacts
    <2>2. CASE n = a
        BY <1>1, <1>12, <2>1, <2>2
    <2>3. CASE n # a
        BY <1>1, <2>1, <2>3 DEF SameNext
    <2> QED BY <2>2, <2>3
<1>13. \A n \in DOMAIN node : node'[n].data = node[n].data
    BY <1>1 DEF SameId
<1>14. Forward'
    <2> SUFFICES ASSUME NEW j \in Levels, NEW n \in DOMAIN node', Entered(n, j)' PROVE Onward(n, j)'
        BY DEF Forward
    <2>1. Entered(n, j) /\ n \in DOMAIN node
        BY <1>1, <1>9
    <2>2. CASE n = a /\ j = l
        <3>1. CASE m = tail_
            BY <1>1, <2>2, <3>1 DEF Onward
        <3>2. CASE m # tail_
            <4>1. Entered(m, l)'
                BY <1>2, <1>5, <1>9, <3>2
            <4>2. node[m].data \in Nat
                BY <1>0, <1>5, NodeFacts
            <4>3. node[a].data < node[m].data
                BY <1>2, <1>3, <1>5, <3>2, <4>2
            <4>4. node'[a].data < node'[m].data
                BY <1>3, <1>5, <1>13, <4>3
            <4> QED BY <1>1, <2>2, <4>1, <4>4 DEF Onward
        <3> QED BY <3>1, <3>2
    <2>3. CASE ~(n = a /\ j = l)
        <3>2. node'[n].next[j] = node[n].next[j]
            BY <1>12, <2>1, <2>3
        <3>3. PICK q : q = node[n].next[j]
            OBVIOUS
        <3>4. CASE q = tail_
            BY <3>2, <3>3, <3>4 DEF Onward
        <3>5. CASE q # tail_
            <4>1. Entered(q, j) /\ q \in DOMAIN node /\ node[n].data < node[q].data
                BY <1>0, <2>1, <3>3, <3>5, ForwardFacts
            <4>2. Entered(q, j)'
                BY <1>9, <4>1
            <4>3. node'[n].data < node'[q].data
                BY <1>13, <2>1, <4>1
            <4>4. node'[n].next[j] = q
                BY <3>2, <3>3
            <4> QED BY <4>2, <4>3, <4>4 DEF Onward
        <3> QED BY <3>4, <3>5
    <2> QED BY <2>2, <2>3
<1>15. Chains'
    <2>1. ASSUME NEW j \in Levels PROVE KeyChain(On(j)', head_, tail_, Ptrs(j)', Data')
        <3> DEFINE q == Ptrs(j)'
                   d == Data'
        <3>1. KeyChain(On(j), head_, tail_, Ptrs(j), Data) /\ tail_ \notin On(j)
            BY <1>0, OnFacts DEF Chains
        <3>2. ASSUME NEW n \in On(j)
              PROVE  /\ n \in DOMAIN node /\ n \in Nodes /\ Entered(n, j) /\ n # tail_ /\ Data[n] \in Nat
                     /\ Ptrs(j)[n] = node[n].next[j] /\ Data[n] = node[n].data
            BY <1>0, OnFacts
        <3>3. ASSUME NEW n \in Nodes PROVE q[n] = node'[n].next[j] /\ d[n] = node'[n].data
            BY DEF Ptrs, Data
        <3>4. ASSUME NEW n \in On(j) PROVE d[n] = Data[n]
            BY <1>13, <3>2, <3>3
        <3>5. ASSUME NEW n \in On(j), n # a \/ j # l PROVE q[n] = Ptrs(j)[n]
            BY <1>12, <3>2, <3>3, <3>5
        <3>6. CASE j # l
            <4>1. \A n \in On(j) : q[n] = Ptrs(j)[n] /\ d[n] = Data[n]
                BY <3>4, <3>5, <3>6
            <4> HIDE DEF q, d
            <4>2. KeyChain(On(j), head_, tail_, q, d)
                BY <3>1, <4>1, SameKeyChain
            <4> QED BY <1>11, <3>6, <4>2 DEF q, d
        <3>7. CASE j = l
            <4>1. q[a] = m
                BY <1>1, <1>3, <3>3, <3>7
            <4>2. Ptrs(j)[a] = c /\ Ptrs(j)[c] = m /\ a \in On(j) /\ c \in On(j)
                BY <1>1, <1>4, <3>2, <3>7
            <4>3. \A n \in On(j) : n # a => q[n] = Ptrs(j)[n]
                BY <3>5
            <4>4. \A n \in On(j) : Data[n] \in Nat
                BY <3>2
            <4> HIDE DEF q, d
            <4>5. KeyChain(On(j) \ {c}, head_, tail_, q, Data)
                BY <3>1, <4>1, <4>2, <4>3, <4>4, TakeOut
            <4>6. \A n \in On(j) \ {c} : q[n] = q[n] /\ d[n] = Data[n]
                BY <3>4
            <4>7. KeyChain(On(j) \ {c}, head_, tail_, q, d)
                BY <3>1, <4>5, <4>6, SameKeyChain
            <4> QED BY <1>11, <3>7, <4>7 DEF q, d
        <3> QED BY <3>6, <3>7
    <2> QED BY <2>1 DEF Chains
<1>16. ASSUME NEW u \in Threads, u # t, th[u].pc = "walk"
       PROVE  Leads(th[u].pred, th[u].level, th[u].node)'
    <2>1. PICK j \in Levels : j = th[u].level
        BY <1>0, ThreadFacts
    <2>2. PICK p : p = th[u].pred
        OBVIOUS
    <2>3. PICK v : v = th[u].node
        OBVIOUS
    <2>4. Leads(p, j, v)
        BY <1>16, <2>1, <2>2, <2>3 DEF ListInv, Place, Chosen
    <2>5. th'[u].pred = p /\ th'[u].level = j /\ th'[u].node = v
        BY <1>16, <2>1, <2>2, <2>3 DEF Others
    <2>6. CASE j = l
        <3>1. c # v
            <4>1. Erases(u, v)
                BY <1>16, <2>3 DEF Erases
            <4> QED BY <1>0, <1>2, <1>16, <4>1 DEF Marks
        <3>2. Entered(a, j)' /\ node[a].next[j] = c /\ node'[a].next[j] = node[c].next[j]
            BY <1>1, <1>3, <1>9, <2>6
        <3>3. \A x \in Nodes : Entered(x, j) /\ x # a => Entered(x, j)' /\ node'[x].next[j] = node[x].next[j]
            BY <1>9, <1>12
        <3>4. Leads(p, j, v)'
            BY <1>2, <2>4, <3>1, <3>2, <3>3, LeadsPast
        <3> QED BY <2>5, <3>4
    <2>7. CASE j # l
        <3>1. \A x \in Nodes : Entered(x, j) => Entered(x, j)' /\ node'[x].next[j] = node[x].next[j]
            BY <1>9, <1>12, <2>7
        <3>2. Leads(p, j, v)'
            BY <2>4, <3>1, LeadsStill
        <3> QED BY <2>5, <3>2
    <2> QED BY <2>6, <2>7
<1>17. \A u \in Threads : \A n : (Inserts(u, n)' <=> Inserts(u, n)) /\ (Erases(u, n)' <=> Erases(u, n))
    BY <1>2, <1>7, <1>8
<1>18. Hands' /\ Marks'
    <2>1. \A n \in DOMAIN node : node'[n].marked = node[n].marked /\ node'[n].fully_linked = node[n].fully_linked
        BY <1>1 DEF SameFlags
    <2>2. Hands'
        BY <1>0, <1>1, <1>17, <2>1 DEF Hands
    <2>3. Marks'
        BY <1>0, <1>1, <1>17, <2>1 DEF Marks
    <2> QED BY <2>2, <2>3
<1>19. Gentle(t)
    <2>0. \A n \in Nodes : \A j \in Levels : Entered(n, j) => Entered(n, j)' /\ SameId(n)
        BY <1>0, <1>1, <1>9, EnteredFacts
    <2>1. \A u \in Threads : \A n \in Nodes : Inserts(u, n) => n \in DOMAIN node
        BY <1>0 DEF Hands, Pointers
    <2>2. ASSUME NEW u \in Threads, NEW n \in Nodes, NEW j \in Levels, u # t, Inserts(u, n), j <= node[n].top_level,
                 ~Linking(u, n, j)
          PROVE  node'[n].next[j] = node[n].next[j]
        <3>1. n \in DOMAIN node /\ ~Entered(n, j)
            BY <2>1, <2>2, NotEntered
        <3>2. CASE n = a
            <4>1. j # l
                BY <1>3, <3>1, <3>2
            <4>2. j \in 0..node[a].top_level
                BY <1>0, <2>2, <3>1, <3>2, NodeFacts
            <4> QED BY <1>1, <3>2, <4>1, <4>2
        <3>3. CASE n # a
            BY <1>1, <3>1, <3>3 DEF SameNext
        <3> QED BY <3>2, <3>3
    <2>3. \A u \in Threads : \A n \in DOMAIN node : u # t /\ node[n].owner = u => n # a
        BY ThreadAssumption
    <2>4. \A n \in DOMAIN node : node[n].fully_linked => n \in DOMAIN node' /\ node'[n].fully_linked /\ SameId(n)
        BY <1>1 DEF SameFlags
    <2>5. \A u \in Threads : \A n \in DOMAIN node : u # t /\ node[n].owner = u =>
              n \in DOMAIN node' /\ node'[n].owner = u /\ node'[n].marked = node[n].marked /\ SameNext(n)
        BY <1>1, <2>3 DEF SameOwner, SameFlags
    <2>6. \A u \in Threads : \A n \in DOMAIN node' : u # t /\ node'[n].owner = u => n \in DOMAIN node /\ node[n].owner = u
        BY <1>1 DEF SameOwner
    <2>7. \A u \in Threads : \A n \in Nodes : u # t /\ Inserts(u, n) => n \in DOMAIN node' /\ SameId(n)
        BY <1>1, <2>1
    <2> QED BY <2>0, <2>2, <2>4, <2>5, <2>6, <2>7 DEF Gentle
<1>20. node'[c].top_level = node[c].top_level /\ node'[c].data = th[t].key /\ node[c].top_level \in Nat
    BY <1>0, <1>1, <1>2, NodeFacts DEF SameId
<1>21. Place(t)'
    <2>1. CASE l > 0 /\ Walks(t, l - 1)
        <3>1. PICK i \in Levels : i = l - 1
            BY <1>2, <2>1, Constants DEF Levels
        <3>2. i <= l /\ i # l /\ i <= node'[c].top_level
            BY <1>2, <1>3, <1>20, <2>1, <3>1
        <3>3. c \in On(i)
            BY <3>2, VictimOn
        <3>4. c \in On(i)'
            BY <1>11, <3>2, <3>3
        <3> QED BY <1>2, <1>15, <1>20, <2>1, <3>1, <3>2, <3>4, WalksPlace
    <2>2. CASE l = 0 /\ th'[t].pc = "retire" /\ SameCall(t)
        <3>1. Control(t)' /\ Searches(t)' /\ Found(t)' /\ Made(t)' /\ Chosen(t)'
            BY <1>2, <1>6, <1>20, <2>2 DEF Control, Inserting, Searches, Found, Made, Inserts, Chosen
        <3>2. \A j \in Levels : Holds(t, j)'
            BY <2>2 DEF Holds, Locked, Validated, Unlinked
        <3> QED BY <3>1, <3>2 DEF Place
    <2> QED BY <1>1, <2>1, <2>2 DEF Down
<1>22. \A n \in DOMAIN node' : node'[n].owner # t
    <2>1. \A n \in DOMAIN node : node[n].owner # t
        BY OwnedEntered
    <2> QED BY <1>1, <2>1 DEF SameOwner
<1> QED BY <1>14, <1>15, <1>16, <1>18, <1>19, <1>21, <1>22, Together

(* Splice, whether or not it loses the race. *)
LEMMA SpliceStep ==
    ASSUME ListInv, NEW t \in Threads, Splice(t)
    PROVE  ListInv'
BY SpliceTurn, SplicesStep, SpliceAgainStep DEF Others

-----------------------------------------------------------------------------
(* The invariant *)

(* A thread's step keeps it. *)
LEMMA ListInvStep ==
    ASSUME ListInv, NEW t \in Threads, Step(t)
    PROVE  ListInv'
<1>1. CASE \E op \in {"insert", "erase", "contains"}, k \in Keys : Call(t, op, k)
    BY <1>1, LookupCallStep, InsertCallStep
<1>2. CASE Empty(t) \/ Return(t)
    BY <1>2, OtherSteps
<1>3. CASE FindAdvances(t) \/ FindDescends(t)
    BY <1>3, FindStep
<1>4. CASE FindEnds(t)
    BY <1>4, FindEndsStep
<1>5. CASE InsertFound(t)
    BY <1>5, InsertFoundStep
<1>6. CASE InsertFails(t)
    BY <1>6, InsertFailsStep
<1>7. CASE LockPred(t)
    BY <1>7, LockPredStep
<1>8. CASE LinkLevel(t)
    BY <1>8, LinkLevelStep
<1>9. CASE FullyLinked(t)
    BY <1>9, FullyLinkedStep
<1>10. CASE UnlockPreds(t)
    BY <1>10, UnlockPredsStep
<1>11. CASE ContainsChecks(t) \/ EraseChecks(t)
    BY <1>11, ChecksStep
<1>12. CASE MarkVictim(t)
    BY <1>12, MarkVictimStep
<1>13. CASE Walk(t)
    BY <1>13, WalkStep
<1>14. CASE Splice(t)
    BY <1>14, SpliceStep
<1>15. CASE Retire(t)
    BY <1>15, RetireStep
<1> QED BY <1>1, <1>2, <1>3, <1>4, <1>5, <1>6, <1>7, <1>8, <1>9, <1>10, <1>11, <1>12, <1>13, <1>14, <1>15 DEF Step

(* It is about the nodes, the retired ones and the threads. *)
LEMMA ListInvSame ==
    ASSUME ListInv, UNCHANGED <<node, retired, th>>
    PROVE  ListInv'
<1>1. \A n, l : (Entered(n, l)' <=> Entered(n, l)) /\ (Left(n, l)' <=> Left(n, l))
    BY DEF Entered, Linking, Left, Erases, Past
<1>2. \A l : On(l)' = On(l) /\ Ptrs(l)' = Ptrs(l)
    BY <1>1 DEF On, Ptrs
<1>3. Data' = Data /\ Chains'
    BY <1>2 DEF Data, Chains, ListInv
<1>4. NodesOK' /\ ThreadsOK' /\ Hands' /\ Marks' /\ Owners'
    BY DEF ListInv, NodesOK, ThreadsOK, Hands, Marks, Owners, Inserts, Erases, Locked
<1>5. Forward'
    BY <1>1 DEF ListInv, Forward, Onward
<1>6. ASSUME NEW t \in Threads PROVE Place(t)'
    <2>1. Place(t)
        BY DEF ListInv
    <2>2. \A p, l, n : Leads(p, l, n)' <=> Leads(p, l, n)
        BY <1>1 DEF Leads, Closed
    <2>3. \A j : Noted(t, j)' <=> Noted(t, j)
        BY <1>1 DEF Noted
    <2>4. Control(t)' /\ Made(t)' /\ \A j \in Levels : Holds(t, j)'
        BY <2>1 DEF Place, Control, Made, Inserts, Holds, Locked, Validated, Unlinked
    <2>5. Searches(t)' /\ Found(t)'
        BY <1>1, <2>1, <2>3 DEF Place, Searches, Found, Lower
    <2>6. Chosen(t)'
        BY <1>1, <2>1, <2>2 DEF Place, Chosen
    <2> QED BY <2>4, <2>5, <2>6 DEF Place
<1> QED BY <1>3, <1>4, <1>5, <1>6 DEF ListInv

(* So does every step. *)
LEMMA ListInvNext ==
    ASSUME ListInv, [Next]_vars
    PROVE  ListInv'
<1>1. CASE UNCHANGED vars \/ Destroy
    BY <1>1, ListInvSame DEF vars, Destroy
<1>2. CASE \E t \in Threads : Step(t)
    BY <1>2, ListInvStep
<1> QED BY <1>1, <1>2 DEF Next

-----------------------------------------------------------------------------
(* The initial list *)

(* InitialList's node for a key, the keys behind it on a level, what its   *)
(* pointer is, and the key of a node.                                      *)
Rank(K, k) == 2 + Cardinality({j \in K : j <= k})
After(K, tops, k, l) == {j \in K : j > k /\ tops[j] >= l}
Behind(K, tops, k, l) ==
    IF After(K, tops, k, l) = {} THEN tail_
    ELSE Rank(K, CHOOSE j \in After(K, tops, k, l) : \A i \in After(K, tops, k, l) : j <= i)
KeyAt(K, n) == CHOOSE k \in K : Rank(K, k) = n

(* Every key has a node of its own. *)
LEMMA RankFacts ==
    ASSUME NEW K \in InitialSets
    PROVE  /\ K \subseteq Keys /\ K \subseteq Nat
           /\ \A k \in K : Rank(K, k) \in Nodes /\ Rank(K, k) \notin {head_, tail_} /\ KeyAt(K, Rank(K, k)) = k
           /\ \A j, k \in K : Rank(K, j) = Rank(K, k) => j = k
<1>1. K \subseteq Keys /\ K \subseteq Nat /\ IsFiniteSet(K) /\ Cardinality(K) + 2 <= MaxNodes /\ MaxNodes \in Nat
    BY KeysAssumption, BoundAssumption
<1>2. ASSUME NEW k \in K
      PROVE  /\ IsFiniteSet({j \in K : j <= k}) /\ Cardinality({j \in K : j <= k}) \in Nat
             /\ Cardinality({j \in K : j <= k}) # 0 /\ Cardinality({j \in K : j <= k}) <= Cardinality(K)
    <2> DEFINE T == {j \in K : j <= k}
    <2>1. T \in SUBSET K /\ k \in T
        BY <1>1
    <2> HIDE DEF T
    <2>2. IsFiniteSet(T) /\ Cardinality(T) <= Cardinality(K)
        BY <1>1, <2>1, FS_Subset
    <2>3. Cardinality(T) \in Nat /\ Cardinality(T) # 0
        BY <2>1, <2>2, FS_CardinalityType, FS_EmptySet
    <2> QED BY <2>2, <2>3 DEF T
<1>3. Cardinality(K) \in Nat
    BY <1>1, FS_CardinalityType
<1>4. ASSUME NEW k \in K PROVE Rank(K, k) \in Nodes /\ Rank(K, k) \notin {head_, tail_}
    <2>1. PICK c : c = Cardinality({j \in K : j <= k})
        OBVIOUS
    <2>2. c \in Nat /\ c # 0 /\ c <= Cardinality(K)
        BY <1>2, <2>1
    <2>3. 2 + c \in 1..MaxNodes /\ 2 + c # 1 /\ 2 + c # 2
        BY <1>1, <1>3, <2>2
    <2> QED BY <2>1, <2>3 DEF Rank, Nodes, head_, tail_
<1>5. ASSUME NEW j \in K, NEW k \in K, j < k PROVE Rank(K, j) # Rank(K, k)
    <2> DEFINE S == {i \in K : i <= j}
               T == {i \in K : i <= k}
    <2>0. j \in Nat /\ k \in Nat /\ ~(k <= j)
        BY <1>1, <1>5
    <2>1. k \in T /\ k \notin S
        BY <2>0
    <2>5. ASSUME NEW i \in S PROVE i \in T
        <3>1. i \in K /\ i \in Nat /\ i <= j
            BY <1>1
        <3>2. i <= k
            BY <1>5, <2>0, <3>1
        <3> QED BY <3>1, <3>2
    <2>6. S \in SUBSET T
        BY <2>5
    <2>2. IsFiniteSet(T) /\ Cardinality(S) \in Nat /\ Cardinality(T) \in Nat
        BY <1>2
    <2> HIDE DEF S, T
    <2>3. Cardinality(S) # Cardinality(T)
        BY <2>1, <2>2, <2>6, FS_Subset
    <2>4. 2 + Cardinality(S) # 2 + Cardinality(T)
        BY <2>2, <2>3
    <2> QED BY <2>4 DEF S, T, Rank
<1>6. ASSUME NEW j \in K, NEW k \in K, Rank(K, j) = Rank(K, k) PROVE j = k
    <2>1. j \in Nat /\ k \in Nat /\ ~(j < k) /\ ~(k < j)
        BY <1>1, <1>5, <1>6
    <2> QED BY <2>1
<1>7. \A k \in K : KeyAt(K, Rank(K, k)) = k
    BY <1>6 DEF KeyAt
<1> QED BY <1>1, <1>4, <1>6, <1>7

(* A pointer leads to the next key of its level. *)
LEMMA BehindFacts ==
    ASSUME NEW K \in InitialSets, NEW tops \in [K -> Levels], NEW k, NEW l
    PROVE  /\ Behind(K, tops, k, l) \in Nodes
           /\ \/ After(K, tops, k, l) = {} /\ Behind(K, tops, k, l) = tail_
              \/ \E j \in After(K, tops, k, l) :
                     Behind(K, tops, k, l) = Rank(K, j) /\ \A i \in After(K, tops, k, l) : j <= i
<1> DEFINE A == After(K, tops, k, l)
<1>1. A \subseteq K /\ A \subseteq Nat
    BY RankFacts DEF After
<1>2. CASE A = {}
    BY <1>2, Constants DEF Behind
<1>3. CASE A # {}
    <2> HIDE DEF A
    <2>1. \E j \in A : \A i \in A : j <= i
        BY <1>1, <1>3, Least
    <2>2. PICK j \in A : j = (CHOOSE x \in A : \A i \in A : x <= i) /\ \A i \in A : j <= i
        BY <2>1
    <2>3. Behind(K, tops, k, l) = Rank(K, j)
        BY <1>3, <2>2 DEF Behind, A
    <2>4. Rank(K, j) \in Nodes
        BY <1>1, <2>2, RankFacts
    <2> QED BY <2>2, <2>3, <2>4 DEF A
<1> QED BY <1>2, <1>3

(* The record of a node. *)
IsNode(r, k, top, f, b) ==
    /\ r \in NodeRecords /\ r.data = k /\ r.top_level = top /\ r.next = f /\ r.owner = NoThread
    /\ r.marked = FALSE /\ r.fully_linked = b

(* A node of the initial list. *)
LEMMA NodeRecord ==
    ASSUME NEW k \in Keys \cup {0}, NEW top \in Levels, NEW f \in [0..top -> Pointers], NEW b \in BOOLEAN,
           NEW r, r = Node(k, f, b)
    PROVE  IsNode(r, k, top, f, b)
<1>1. DOMAIN f = 0..top /\ top \in Nat /\ Cardinality(0..top) - 1 = top
    BY Constants, FS_Interval
<1>2. f \in Nexts
    BY TowerType
<1>3. r = [data |-> k, top_level |-> top, next |-> f, marked |-> FALSE, fully_linked |-> b, owner |-> NoThread]
    BY <1>1 DEF Node
<1>4. r \in NodeRecords /\ r.data = k /\ r.top_level = top /\ r.next = f /\ r.owner = NoThread
    BY <1>2, <1>3 DEF NodeRecords
<1>5. r.marked = FALSE /\ r.fully_linked = b
    <2>1. CASE b = TRUE
        BY <1>3, <2>1
    <2>2. CASE b = FALSE
        BY <1>3, <2>2
    <2> QED BY <2>1, <2>2
<1> QED BY <1>4, <1>5 DEF IsNode

(* The nodes of the initial list. *)
LEMMA InitialNodes ==
    ASSUME NEW K \in InitialSets, NEW tops \in [K -> Levels], node = InitialList(K, tops)
    PROVE  /\ NodesOK /\ DOMAIN node = {head_, tail_} \cup {Rank(K, k) : k \in K}
           /\ \A l \in Levels : node[head_].next[l] = Behind(K, tops, 0, l)
           /\ \A k \in K : /\ node[Rank(K, k)].data = k /\ node[Rank(K, k)].top_level = tops[k]
                           /\ node[Rank(K, k)].fully_linked /\ ~node[Rank(K, k)].marked
                           /\ \A l \in Levels : l <= tops[k] => node[Rank(K, k)].next[l] = Behind(K, tops, k, l)
           /\ \A n \in DOMAIN node : node[n].owner = NoThread /\ ~node[n].marked
<1> DEFINE g(k, top) == [l \in 0..top |-> Behind(K, tops, k, l)]
           F(n) == CASE n = head_ -> Node(0, [l \in Levels |-> Behind(K, tops, 0, l)], FALSE)
                     [] n = tail_ -> Node(0, NoNodes, FALSE)
                     [] OTHER -> Node(KeyAt(K, n), g(KeyAt(K, n), tops[KeyAt(K, n)]), TRUE)
           D == {head_, tail_} \cup {Rank(K, k) : k \in K}
<1>1. node = [n \in D |-> F(n)]
    BY DEF InitialList, Rank, After, Behind, KeyAt
<1>2. Levels = 0..max_level /\ max_level \in Levels
    BY Constants DEF Levels
<1>3. F(head_) = Node(0, g(0, max_level), FALSE) /\ F(tail_) = Node(0, NoNodes, FALSE)
    BY <1>2, Constants
<1>4. ASSUME NEW k \in K PROVE F(Rank(K, k)) = Node(k, g(k, tops[k]), TRUE)
    BY RankFacts
<1>5. ASSUME NEW k, NEW top \in Levels PROVE g(k, top) \in [0..top -> Pointers]
    <2>1. \A l \in 0..top : Behind(K, tops, k, l) \in Pointers
        BY BehindFacts DEF Pointers
    <2> QED BY <2>1
<1>6. NoNodes \in [0..max_level -> Pointers]
    BY <1>2 DEF NoNodes, Pointers
<1>7. ASSUME NEW k, NEW top \in Levels, NEW l \in 0..top PROVE g(k, top)[l] = Behind(K, tops, k, l)
    OBVIOUS
<1> HIDE DEF F, g, D
<1>8. DOMAIN node = D /\ \A n \in D : node[n] = F(n)
    BY <1>1, Zenon
<1>9. head_ \in D /\ tail_ \in D /\ \A k \in K : Rank(K, k) \in D
    BY DEF D
<1>10. IsNode(node[head_], 0, max_level, g(0, max_level), FALSE)
    <2>1. PICK f : f = g(0, max_level)
        OBVIOUS
    <2>2. f \in [0..max_level -> Pointers]
        BY <1>2, <1>5, <2>1
    <2>3. node[head_] = Node(0, f, FALSE)
        BY <1>3, <1>8, <1>9, <2>1
    <2>4. 0 \in Keys \cup {0}
        OBVIOUS
    <2>5. IsNode(node[head_], 0, max_level, f, FALSE)
        BY <1>2, <2>2, <2>3, <2>4, NodeRecord
    <2> QED BY <2>1, <2>5
<1>11. IsNode(node[tail_], 0, max_level, NoNodes, FALSE)
    <2>1. node[tail_] = Node(0, NoNodes, FALSE) /\ 0 \in Keys \cup {0}
        BY <1>3, <1>8, <1>9
    <2> QED BY <1>2, <1>6, <2>1, NodeRecord
<1>12. ASSUME NEW k \in K
       PROVE  k \in Keys /\ tops[k] \in Levels /\ IsNode(node[Rank(K, k)], k, tops[k], g(k, tops[k]), TRUE)
    <2>1. k \in Keys /\ k \in Keys \cup {0} /\ tops[k] \in Levels
        BY RankFacts
    <2>2. PICK f : f = g(k, tops[k])
        OBVIOUS
    <2>3. f \in [0..tops[k] -> Pointers]
        BY <1>5, <2>1, <2>2
    <2>4. node[Rank(K, k)] = Node(k, f, TRUE)
        BY <1>4, <1>8, <1>9, <2>2
    <2>5. IsNode(node[Rank(K, k)], k, tops[k], f, TRUE)
        BY <2>1, <2>3, <2>4, NodeRecord
    <2> QED BY <2>1, <2>2, <2>5
<1>13. ASSUME NEW n \in D PROVE n = head_ \/ n = tail_ \/ \E k \in K : n = Rank(K, k)
    BY DEF D
<1>14. ASSUME NEW n \in D
       PROVE  /\ node[n] \in NodeRecords /\ n \in Nodes /\ node[n].owner = NoThread /\ ~node[n].marked
              /\ node[n].next \in [0..node[n].top_level -> Pointers]
              /\ n \notin {head_, tail_} => node[n].data \in Keys
    <2>1. CASE n = head_
        BY <1>2, <1>5, <1>10, <2>1, Constants DEF IsNode
    <2>2. CASE n = tail_
        BY <1>6, <1>11, <2>2, Constants DEF IsNode
    <2>3. CASE \E k \in K : n = Rank(K, k)
        <3>1. PICK k \in K : n = Rank(K, k)
            BY <2>3
        <3>2. n \in Nodes
            BY <3>1, RankFacts
        <3>3. tops[k] \in Levels /\ g(k, tops[k]) \in [0..tops[k] -> Pointers]
            BY <1>5, <1>12
        <3>4. k \in Keys /\ IsNode(node[n], k, tops[k], g(k, tops[k]), TRUE)
            BY <1>12, <3>1
        <3> QED BY <3>2, <3>3, <3>4 DEF IsNode
    <2> QED BY <1>13, <2>1, <2>2, <2>3
<1>15. NodesOK
    <2>1. node \in [DOMAIN node -> NodeRecords]
        <3>1. node = [n \in D |-> node[n]]
            BY <1>1
        <3> QED BY <1>8, <1>14, <3>1, Zenon
    <2>2. /\ node[head_].data = 0 /\ node[head_].top_level = max_level
          /\ \A n \in {head_, tail_} : ~node[n].marked /\ ~node[n].fully_linked
        BY <1>10, <1>11 DEF IsNode
    <2> QED BY <1>8, <1>9, <1>14, <2>1, <2>2 DEF NodesOK
<1>16. \A l \in Levels : node[head_].next[l] = Behind(K, tops, 0, l)
    BY <1>2, <1>7, <1>10 DEF IsNode
<1>17. ASSUME NEW k \in K
       PROVE  /\ node[Rank(K, k)].data = k /\ node[Rank(K, k)].top_level = tops[k]
              /\ node[Rank(K, k)].fully_linked /\ ~node[Rank(K, k)].marked
              /\ \A l \in Levels : l <= tops[k] => node[Rank(K, k)].next[l] = Behind(K, tops, k, l)
    <2>1. tops[k] \in Levels /\ IsNode(node[Rank(K, k)], k, tops[k], g(k, tops[k]), TRUE)
        BY <1>12
    <2>2. \A l \in Levels : l <= tops[k] => l \in 0..tops[k]
        BY <2>1, Constants
    <2>3. \A l \in Levels : l <= tops[k] => g(k, tops[k])[l] = Behind(K, tops, k, l)
        BY <1>7, <2>1, <2>2
    <2> QED BY <2>1, <2>3 DEF IsNode
<1> QED BY <1>8, <1>14, <1>15, <1>16, <1>17 DEF D

(* n is the node of key k, and has a level l. *)
Carries(K, tops, n, k, l) == (n = head_ /\ k = 0) \/ (k \in K /\ n = Rank(K, k) /\ l <= tops[k])

(* The initial levels. *)
LEMMA InitialLevels ==
    ASSUME NEW K \in InitialSets, NEW tops \in [K -> Levels], node = InitialList(K, tops), NEW l \in Levels
    PROVE  /\ \A n, k : Carries(K, tops, n, k, l) =>
                  /\ n \in DOMAIN node /\ n \in Nodes /\ n # tail_ /\ node[n].data = k /\ k \in Nat
                  /\ \/ node[n].next[l] = tail_ /\ After(K, tops, k, l) = {}
                     \/ \E j \in After(K, tops, k, l) :
                            /\ Carries(K, tops, node[n].next[l], j, l) /\ k < j /\ node[node[n].next[l]].data = j
                            /\ node[n].next[l] # tail_
                            /\ \A i \in After(K, tops, k, l) : j <= i
           /\ \A m, n, k : Carries(K, tops, m, k, l) /\ Carries(K, tops, n, k, l) => m = n
           /\ \A m, n, j, k : Carries(K, tops, m, j, l) /\ Carries(K, tops, n, k, l) /\ j < k => k \in After(K, tops, j, l)
<1>1. /\ K \subseteq Keys /\ K \subseteq Nat /\ 0 \notin K
      /\ \A k \in K : Rank(K, k) \in Nodes /\ Rank(K, k) \notin {head_, tail_} /\ tops[k] \in Levels
    BY RankFacts, Constants
<1>2. /\ NodesOK /\ DOMAIN node = {head_, tail_} \cup {Rank(K, k) : k \in K}
      /\ node[head_].next[l] = Behind(K, tops, 0, l)
      /\ \A k \in K : /\ node[Rank(K, k)].data = k
                      /\ l <= tops[k] => node[Rank(K, k)].next[l] = Behind(K, tops, k, l)
    BY InitialNodes
<1>3. ASSUME NEW n, NEW k, Carries(K, tops, n, k, l)
      PROVE  /\ n \in DOMAIN node /\ n \in Nodes /\ n # tail_ /\ node[n].data = k /\ k \in Nat
             /\ node[n].next[l] = Behind(K, tops, k, l)
    <2>1. CASE n = head_ /\ k = 0
        BY <1>2, <2>1, Constants DEF NodesOK
    <2>2. CASE k \in K /\ n = Rank(K, k) /\ l <= tops[k]
        BY <1>1, <1>2, <2>2
    <2> QED BY <1>3, <2>1, <2>2 DEF Carries
<1>4. ASSUME NEW k, k \in Nat, NEW j \in After(K, tops, k, l)
      PROVE  k < j /\ j \in K /\ l <= tops[j] /\ Carries(K, tops, Rank(K, j), j, l)
    <2>1. j \in K /\ j > k /\ tops[j] >= l
        BY DEF After
    <2>2. j \in Nat /\ tops[j] \in Nat /\ l \in Nat
        BY <1>1, <2>1, Constants
    <2>3. k < j /\ l <= tops[j]
        BY <1>4, <2>1, <2>2
    <2> QED BY <2>1, <2>3 DEF Carries
<1>5. ASSUME NEW n, NEW k, Carries(K, tops, n, k, l)
      PROVE  \/ node[n].next[l] = tail_ /\ After(K, tops, k, l) = {}
             \/ \E j \in After(K, tops, k, l) :
                    /\ Carries(K, tops, node[n].next[l], j, l) /\ k < j /\ node[node[n].next[l]].data = j
                    /\ node[n].next[l] # tail_
                    /\ \A i \in After(K, tops, k, l) : j <= i
    <2>1. k \in Nat /\ node[n].next[l] = Behind(K, tops, k, l)
        BY <1>3, <1>5
    <2>2. CASE After(K, tops, k, l) = {} /\ Behind(K, tops, k, l) = tail_
        BY <2>1, <2>2
    <2>3. CASE \E j \in After(K, tops, k, l) :
                   Behind(K, tops, k, l) = Rank(K, j) /\ \A i \in After(K, tops, k, l) : j <= i
        <3>1. PICK j \in After(K, tops, k, l) :
                   Behind(K, tops, k, l) = Rank(K, j) /\ \A i \in After(K, tops, k, l) : j <= i
            BY <2>3
        <3>2. k < j /\ j \in K /\ Carries(K, tops, Rank(K, j), j, l)
            BY <1>4, <2>1
        <3>3. node[n].next[l] = Rank(K, j) /\ Rank(K, j) # tail_ /\ node[Rank(K, j)].data = j
            BY <1>1, <1>2, <2>1, <3>1, <3>2
        <3> QED BY <3>1, <3>2, <3>3
    <2> QED BY <2>2, <2>3, BehindFacts
<1>6. \A m, n, k : Carries(K, tops, m, k, l) /\ Carries(K, tops, n, k, l) => m = n
    BY <1>1 DEF Carries
<1>7. ASSUME NEW m, NEW n, NEW j, NEW k, Carries(K, tops, m, j, l), Carries(K, tops, n, k, l), j < k
      PROVE  k \in After(K, tops, j, l)
    <2>1. j \in Nat /\ k \in Nat
        BY <1>3, <1>7
    <2>2. k # 0
        BY <1>7, <2>1
    <2>3. k \in K /\ l <= tops[k]
        BY <1>7, <2>2 DEF Carries
    <2>4. tops[k] \in Nat /\ l \in Nat
        BY <1>1, <2>3, Constants
    <2>5. k > j /\ tops[k] >= l
        BY <1>7, <2>1, <2>3, <2>4
    <2> QED BY <2>3, <2>5 DEF After
<1> QED BY <1>3, <1>5, <1>6, <1>7

(* The invariant holds at the beginning. *)
LEMMA ListInvInit == Init => ListInv
<1> SUFFICES ASSUME Init PROVE ListInv
    OBVIOUS
<1>1. PICK K \in InitialSets : \E tops \in [K -> Levels] : node = InitialList(K, tops)
    BY DEF Init
<1>2. PICK tops \in [K -> Levels] : node = InitialList(K, tops)
    BY <1>1
<1>3. retired = {} /\ th = [t \in Threads |-> Idle]
    BY DEF Init
<1>4. ThreadsOK
    BY <1>3, IdleRecord DEF ThreadsOK
<1>5. ASSUME NEW t \in Threads
      PROVE  th[t] = Idle /\ th[t].pc = "idle" /\ th[t].op = "none" /\ th[t].result = "none"
    BY <1>3 DEF Idle
<1>6. ASSUME NEW t \in Threads, NEW n, NEW l
      PROVE  ~Linking(t, n, l) /\ ~Inserts(t, n) /\ ~Erases(t, n)
    BY <1>5 DEF Linking, Inserts, Erases
<1>7. /\ NodesOK /\ DOMAIN node = {head_, tail_} \cup {Rank(K, k) : k \in K}
      /\ \A k \in K : node[Rank(K, k)].top_level = tops[k] /\ node[Rank(K, k)].fully_linked
      /\ \A n \in DOMAIN node : node[n].owner = NoThread /\ ~node[n].marked
    BY <1>2, InitialNodes
<1>8. \A k \in K : Rank(K, k) \notin {head_, tail_} /\ k \in Nat
    BY RankFacts
<1>9. Hands
    BY <1>6, <1>7 DEF Hands
<1>10. Marks
    BY <1>3, <1>6, <1>7 DEF Marks
<1>11. ASSUME NEW n, NEW l PROVE ~Left(n, l)
    BY <1>3, <1>6 DEF Left
<1>12. ASSUME NEW n, NEW l \in Levels
       PROVE  Entered(n, l) <=> \E k \in K \cup {0} : Carries(K, tops, n, k, l)
    <2>1. ASSUME Entered(n, l) PROVE \E k \in K \cup {0} : Carries(K, tops, n, k, l)
        <3>1. CASE n = head_
            BY <3>1 DEF Carries
        <3>2. CASE n # head_
            <4>1. n \in DOMAIN node \ {head_, tail_} /\ l <= node[n].top_level
                BY <2>1, <3>2 DEF Entered
            <4>2. PICK k \in K : n = Rank(K, k)
                BY <1>7, <4>1
            <4>3. l <= tops[k]
                BY <1>7, <4>1, <4>2
            <4> QED BY <4>2, <4>3 DEF Carries
        <3> QED BY <3>1, <3>2
    <2>2. ASSUME NEW k, Carries(K, tops, n, k, l) PROVE Entered(n, l)
        <3>1. CASE n = head_
            BY <3>1 DEF Entered
        <3>2. CASE k \in K /\ n = Rank(K, k) /\ l <= tops[k]
            BY <1>7, <1>8, <3>2 DEF Entered
        <3> QED BY <2>2, <3>1, <3>2 DEF Carries
    <2> QED BY <2>1, <2>2
<1>13. ASSUME NEW l \in Levels
       PROVE  KeyChain(On(l), head_, tail_, Ptrs(l), Data) /\ \A n \in DOMAIN node : Entered(n, l) => Onward(n, l)
    <2>1. /\ \A n, k : Carries(K, tops, n, k, l) =>
                  /\ n \in DOMAIN node /\ n \in Nodes /\ n # tail_ /\ node[n].data = k /\ k \in Nat
                  /\ \/ node[n].next[l] = tail_ /\ After(K, tops, k, l) = {}
                     \/ \E j \in After(K, tops, k, l) :
                            /\ Carries(K, tops, node[n].next[l], j, l) /\ k < j /\ node[node[n].next[l]].data = j
                            /\ node[n].next[l] # tail_
                            /\ \A i \in After(K, tops, k, l) : j <= i
          /\ \A m, n, k : Carries(K, tops, m, k, l) /\ Carries(K, tops, n, k, l) => m = n
          /\ \A m, n, j, k : Carries(K, tops, m, j, l) /\ Carries(K, tops, n, k, l) /\ j < k => k \in After(K, tops, j, l)
        BY <1>2, InitialLevels
    <2>2. ASSUME NEW n PROVE n \in On(l) <=> \E k \in K \cup {0} : Carries(K, tops, n, k, l)
        BY <1>11, <1>12, <2>1 DEF On
    <2>3. ASSUME NEW n \in On(l)
          PROVE  /\ Carries(K, tops, n, Data[n], l) /\ Data[n] = node[n].data /\ Ptrs(l)[n] = node[n].next[l]
                 /\ Data[n] \in Nat
        <3>1. PICK k \in K \cup {0} : Carries(K, tops, n, k, l)
            BY <2>2
        <3>2. n \in Nodes /\ node[n].data = k /\ k \in Nat
            BY <2>1, <3>1
        <3>3. Data[n] = node[n].data /\ Ptrs(l)[n] = node[n].next[l]
            BY <3>2 DEF Data, Ptrs
        <3> QED BY <3>1, <3>2, <3>3
    <2>4. ASSUME NEW n \in On(l), Ptrs(l)[n] # tail_
          PROVE  /\ Ptrs(l)[n] \in On(l) /\ Data[n] < Data[Ptrs(l)[n]]
                 /\ \A i \in After(K, tops, Data[n], l) : Data[Ptrs(l)[n]] <= i
        <3>1. PICK m : m = node[n].next[l]
            OBVIOUS
        <3>2. PICK j \in After(K, tops, Data[n], l) :
                  /\ Carries(K, tops, m, j, l) /\ Data[n] < j /\ node[m].data = j
                  /\ \A i \in After(K, tops, Data[n], l) : j <= i
            BY <2>1, <2>3, <2>4, <3>1
        <3>3. j \in K
            BY DEF After
        <3>4. m \in On(l)
            BY <2>2, <3>2, <3>3
        <3>5. Data[m] = j /\ Ptrs(l)[n] = m
            BY <2>3, <3>1, <3>2, <3>4
        <3> QED BY <3>2, <3>4, <3>5
    <2>5. head_ \in On(l) /\ Data[head_] = 0
        <3>1. Carries(K, tops, head_, 0, l)
            BY DEF Carries
        <3>2. head_ \in On(l)
            BY <2>2, <3>1
        <3> QED BY <1>7, <2>3, <3>2 DEF NodesOK
    <2>6. \A m, n \in On(l) : Data[m] = Data[n] => m = n
        BY <2>1, <2>3
    <2>7. ASSUME NEW m \in On(l), NEW n \in On(l), Data[m] < Data[n]
          PROVE  Ptrs(l)[m] # tail_ /\ Data[Ptrs(l)[m]] <= Data[n]
        <3>1. Data[n] \in After(K, tops, Data[m], l)
            BY <2>1, <2>3, <2>7
        <3>2. Ptrs(l)[m] # tail_
            <4>1. Carries(K, tops, m, Data[m], l) /\ Ptrs(l)[m] = node[m].next[l]
                BY <2>3
            <4> QED BY <2>1, <3>1, <4>1
        <3> QED BY <2>4, <3>1, <3>2
    <2>8. KeyChain(On(l), head_, tail_, Ptrs(l), Data)
        BY <2>4, <2>5, <2>6, <2>7 DEF KeyChain
    <2>9. ASSUME NEW n, Entered(n, l) PROVE Onward(n, l)
        <3>1. n \in On(l)
            BY <1>12, <2>2, <2>9
        <3>2. PICK m : m = node[n].next[l]
            OBVIOUS
        <3>3. CASE m # tail_
            <4>1. m \in On(l) /\ Data[n] < Data[m]
                BY <2>3, <2>4, <3>1, <3>2, <3>3
            <4>2. Entered(m, l)
                BY <1>12, <2>2, <4>1
            <4>3. Data[n] = node[n].data /\ Data[m] = node[m].data
                BY <2>3, <3>1, <4>1
            <4> QED BY <3>2, <4>1, <4>2, <4>3 DEF Onward
        <3> QED BY <3>2, <3>3 DEF Onward
    <2> QED BY <2>8, <2>9
<1>14. Chains /\ Forward
    BY <1>13 DEF Chains, Forward
<1>15. Owners
    BY <1>7, ThreadAssumption DEF Owners
<1>16. ASSUME NEW t \in Threads PROVE Place(t)
    <2>1. Control(t) /\ Searches(t) /\ Found(t) /\ Made(t) /\ Chosen(t)
        BY <1>5 DEF Control, Inserting, Searches, Found, Made, Inserts, Chosen
    <2>2. \A j \in Levels : Holds(t, j)
        BY <1>5 DEF Holds, Locked, Validated, Unlinked
    <2> QED BY <2>1, <2>2 DEF Place
<1> QED BY <1>4, <1>7, <1>9, <1>10, <1>14, <1>15, <1>16 DEF ListInv

(* The invariant of the skip list. *)
THEOREM ListInvHolds == Spec => []ListInv
<1>1. Init => ListInv
    BY ListInvInit
<1>2. ListInv /\ [Next]_vars => ListInv'
    BY ListInvNext
<1> QED BY <1>1, <1>2, PTL DEF Spec

-----------------------------------------------------------------------------
(* The levels as the destructor walks them *)

(* Linked walks from the head; what it meets are the nodes on the level. *)
LEMMA LinkedIs ==
    ASSUME ListInv, NEW l \in Levels
    PROVE  Linked(l) = On(l) \cup {tail_}
<1>0. NodesOK /\ KeyChain(On(l), head_, tail_, Ptrs(l), Data)
    BY DEF ListInv, Chains
<1> DEFINE E(g, i) == IF i = 0 THEN head_ ELSE IF g[i - 1] = tail_ THEN tail_ ELSE node[g[i - 1]].next[l]
           G(g) == g = [i \in 0..MaxNodes |-> E(g, i)]
           nth == CHOOSE g : G(g)
<1>1. Linked(l) = {nth[i] : i \in 0..MaxNodes}
    BY DEF Linked
<1>2. MaxNodes \in Nat /\ IsFiniteSet(Nodes) /\ Cardinality(Nodes) <= MaxNodes
    BY BoundAssumption, FS_Interval DEF Nodes
<1>3. /\ \A n \in On(l) : /\ n \in Nodes /\ n # tail_ /\ Data[n] \in Nat
                          /\ Ptrs(l)[n] = node[n].next[l]
      /\ On(l) \subseteq Nodes /\ tail_ \notin On(l)
    BY <1>0, OnFacts
<1>4. \E g : G(g)
    <2>1. PICK f : Steps(f, MaxNodes, head_, tail_, Ptrs(l))
        BY <1>2, StepsExist
    <2>2. \A i \in 0..MaxNodes : f[i] \in On(l) \cup {tail_}
        BY <1>0, <1>2, <2>1, StepsAscend
    <2> DEFINE F(i) == IF i = 0 THEN head_ ELSE IF f[i - 1] = tail_ THEN tail_ ELSE Ptrs(l)[f[i - 1]]
    <2>3. f = [i \in 0..MaxNodes |-> F(i)]
        BY <2>1 DEF Steps
    <2>4. ASSUME NEW i \in 0..MaxNodes PROVE F(i) = E(f, i)
        <3>1. i = 0 \/ i - 1 \in 0..MaxNodes
            BY <1>2
        <3> QED BY <1>3, <2>2, <3>1
    <2> HIDE DEF F, E
    <2>5. f = [i \in 0..MaxNodes |-> E(f, i)]
        BY <2>3, <2>4, Zenon
    <2> QED BY <2>5
<1>5. G(nth)
    <2> HIDE DEF G
    <2> QED BY <1>4, Zenon
<1> HIDE DEF nth
<1> DEFINE V == Nodes \cup {nth[i] : i \in 0..MaxNodes}
           p == [n \in V |-> node[n].next[l]]
<1>6. Steps(nth, MaxNodes, head_, tail_, p)
    <2> DEFINE F(i) == IF i = 0 THEN head_ ELSE IF nth[i - 1] = tail_ THEN tail_ ELSE p[nth[i - 1]]
    <2>1. ASSUME NEW i \in 0..MaxNodes PROVE F(i) = E(nth, i)
        <3>1. i = 0 \/ i - 1 \in 0..MaxNodes
            BY <1>2
        <3>2. i - 1 \in 0..MaxNodes => p[nth[i - 1]] = node[nth[i - 1]].next[l]
            OBVIOUS
        <3> QED BY <3>1, <3>2
    <2> HIDE DEF F, E
    <2>2. nth = [i \in 0..MaxNodes |-> F(i)]
        BY <1>5, <2>1, Zenon
    <2> QED BY <2>2 DEF Steps, F
<1>7. \A n \in On(l) : p[n] = Ptrs(l)[n] /\ Data[n] = Data[n]
    BY <1>3
<1> HIDE DEF p
<1>8. KeyChain(On(l), head_, tail_, p, Data)
    BY <1>0, <1>3, <1>7, SameKeyChain
<1>9. {nth[i] : i \in 0..MaxNodes} = On(l) \cup {tail_}
    BY <1>2, <1>3, <1>6, <1>8, StepsCover
<1> QED BY <1>1, <1>9

(* A level is part of the one below it. *)
LEMMA OnBelow ==
    ASSUME ListInv, NEW l \in Levels, NEW i \in Levels, i <= l, NEW n \in On(l)
    PROVE  n \in On(i)
<1>0. NodesOK /\ ThreadsOK
    BY DEF ListInv
<1>1. Entered(n, l) /\ ~Left(n, l) /\ n \in DOMAIN node
    BY <1>0, OnFacts
<1>2. Entered(n, i)
    BY <1>0, <1>1, EnteredBelow
<1>3. ASSUME NEW t \in Threads, Past(t, i) PROVE Past(t, l)
    <2>1. th[t].level \in Nat /\ i \in Nat /\ l \in Nat
        BY <1>0, ThreadFacts, Constants
    <2> QED BY <1>3, <2>1 DEF Past
<1>4. ~Left(n, i)
    BY <1>1, <1>3 DEF Left
<1> QED BY <1>1, <1>2, <1>4 DEF On

(* "keeping the set sorted" (line 48): the keys ascend along every level,  *)
(* a level is part of the one below it, and what is in the set is on every *)
(* level of its tower.                                                     *)
THEOREM TowersStayWhole == Spec => []TowersAreWhole
<1>1. ASSUME ListInv PROVE TowersAreWhole
    <2>0. NodesOK /\ Forward
        BY <1>1 DEF ListInv
    <2> SUFFICES ASSUME NEW l \in Levels
                 PROVE  /\ \A n \in Linked(l) \ {tail_} :
                               node[n].next[l] = tail_ \/ node[n].data < node[node[n].next[l]].data
                        /\ l > 0 => Linked(l) \subseteq Linked(l - 1)
                        /\ \A n \in DOMAIN node :
                               node[n].fully_linked /\ ~node[n].marked /\ l <= node[n].top_level => n \in Linked(l)
        BY DEF TowersAreWhole
    <2>1. Linked(l) = On(l) \cup {tail_}
        BY <1>1, LinkedIs
    <2>2. \A n \in Linked(l) \ {tail_} : node[n].next[l] = tail_ \/ node[n].data < node[node[n].next[l]].data
        BY <2>0, <2>1, OnFacts, ForwardFacts
    <2>3. ASSUME l > 0 PROVE Linked(l) \subseteq Linked(l - 1)
        <3>1. PICK i : i = l - 1
            OBVIOUS
        <3>2. i \in Levels /\ i <= l
            BY <2>3, <3>1, Constants DEF Levels
        <3>3. Linked(i) = On(i) \cup {tail_}
            BY <1>1, <3>2, LinkedIs
        <3>4. On(l) \subseteq On(i)
            BY <1>1, <3>2, OnBelow
        <3> QED BY <2>1, <3>1, <3>3, <3>4
    <2>4. ASSUME NEW n \in DOMAIN node, node[n].fully_linked, ~node[n].marked, l <= node[n].top_level
          PROVE  n \in Linked(l)
        <3>1. Entered(n, l)
            BY <2>0, <2>4 DEF Entered, NodesOK
        <3> QED BY <1>1, <2>1, <2>4, <3>1, UnmarkedOn
    <2> QED BY <2>2, <2>3, <2>4
<1> QED BY <1>1, ListInvHolds, PTL

-----------------------------------------------------------------------------
(* The mutexes *)

(* The keys of the predecessors a search has recorded fall with the level; *)
(* the one that has a lock of its own is before those below it.            *)
LEMMA FallingPreds ==
    ASSUME ListInv, NEW t \in Threads, th[t].pc = "lock", ~SamePred(th[t], th[t].level),
           NEW j \in Levels, j < th[t].level
    PROVE  node[th[t].preds[th[t].level]].data < node[th[t].preds[j]].data
<1>0. NodesOK /\ ThreadsOK /\ Found(t)
    BY DEF ListInv, Place
<1>1. th[t].level \in Levels /\ th[t].level \in Nat /\ th[t].pc \in Inserting /\ j \in Nat
    BY <1>0, ThreadFacts, Constants DEF Inserting
<1>2. PICK i : i = th[t].level - 1
    OBVIOUS
<1>3. i \in Levels /\ i < th[t].level /\ j <= i /\ th[t].level > 0
    BY <1>1, <1>2, Constants DEF Levels
<1>4. \A m \in Levels : node[th[t].preds[m]].data \in Nat
    BY <1>0, <1>1, NotedFacts
<1>5. th[t].preds[th[t].level] # th[t].preds[i]
    BY <1>2, <1>3 DEF SamePred
<1>6. node[th[t].preds[th[t].level]].data < node[th[t].preds[i]].data
    BY <1>0, <1>1, <1>3, <1>5 DEF Found, Lower
<1>7. CASE j = i
    BY <1>6, <1>7
<1>8. CASE j # i
    <2>1. j < i
        BY <1>1, <1>2, <1>3, <1>8
    <2>2. th[t].preds[i] = th[t].preds[j] \/ node[th[t].preds[i]].data < node[th[t].preds[j]].data
        BY <1>0, <1>1, <1>3, <2>1 DEF Found, Lower
    <2> QED BY <1>1, <1>3, <1>4, <1>6, <2>2
<1> QED BY <1>7, <1>8

(* Whom a thread waits for is in an insert, and waits for a mutex only if  *)
(* it is locking.                                                          *)
LEMMA WaitsForInsert ==
    ASSUME ListInv, NEW t \in Threads, WaitsFor(t) \in Threads
    PROVE  /\ th[WaitsFor(t)].pc \in {"lock", "link", "linked", "unlock"}
           /\ th[t].pc \in {"lock", "mark", "splice"}
           /\ th[t].pc = "lock" =>
                  /\ ~SamePred(th[t], th[t].level) /\ th[t].preds[th[t].level] \in DOMAIN node
                  /\ WaitsFor(t) = node[th[t].preds[th[t].level]].owner
<1>0. NodesOK /\ ThreadsOK /\ Found(t) /\ Chosen(t)
    BY DEF ListInv, Place
<1>1. th[t].level \in Levels
    BY <1>0, ThreadFacts
<1>2. CASE th[t].pc = "lock" /\ ~SamePred(th[t], th[t].level)
    <2>1. WaitsFor(t) = node[th[t].preds[th[t].level]].owner
        BY <1>2 DEF WaitsFor, At
    <2>2. th[t].preds[th[t].level] \in DOMAIN node
        BY <1>0, <1>1, <1>2, NotedFacts DEF Inserting
    <2> QED BY <1>2, <2>1, <2>2, OwnedEntered
<1>3. CASE th[t].pc = "mark"
    <2>1. WaitsFor(t) = node[th[t].node].owner
        BY <1>3 DEF WaitsFor, At
    <2>2. th[t].node \in DOMAIN node
        BY <1>0, <1>3 DEF Chosen
    <2> QED BY <1>3, <2>1, <2>2, OwnedEntered
<1>4. CASE th[t].pc = "splice"
    <2>1. WaitsFor(t) = node[th[t].pred].owner
        BY <1>4 DEF WaitsFor, At
    <2>2. th[t].pred \in DOMAIN node
        BY <1>0, <1>1, <1>4, EnteredFacts DEF Chosen
    <2> QED BY <1>4, <2>1, <2>2, OwnedEntered
<1>5. CASE ~(th[t].pc = "lock" /\ ~SamePred(th[t], th[t].level)) /\ th[t].pc # "mark" /\ th[t].pc # "splice"
    <2>1. WaitsFor(t) = NoThread
        BY <1>5 DEF WaitsFor, At
    <2> QED BY <2>1, ThreadAssumption
<1> QED BY <1>2, <1>3, <1>4, <1>5

(* "no lock ordering issues" (line 169): insert locks its predecessors in  *)
(* the order of falling keys and erase holds one mutex at a time, so that  *)
(* among threads that wait for each other in a circle there would be none  *)
(* that waits for the least key.                                           *)
THEOREM LocksNeverDeadlock == Spec => []NoDeadlock
<1>1. ASSUME ListInv PROVE NoDeadlock
    <2> SUFFICES ASSUME NEW S \in (SUBSET Threads) \ {{}},
                        \A t \in S : WaitsFor(t) \in S \cup {u \in Threads : At(u, "idle")}
                 PROVE  FALSE
        BY Zenon DEF NoDeadlock
    <2> S \in SUBSET Threads /\ S # {}
        BY Zenon
    <2>0. NodesOK /\ ThreadsOK /\ Owners
        BY <1>1 DEF ListInv
    <2>1. ASSUME NEW t \in S
          PROVE  /\ WaitsFor(t) \in S /\ th[WaitsFor(t)].pc = "lock"
        <3>1. t \in Threads /\ WaitsFor(t) \in Threads
            OBVIOUS
        <3>2. th[WaitsFor(t)].pc \in {"lock", "link", "linked", "unlock"}
            BY <1>1, <3>1, WaitsForInsert
        <3>3. WaitsFor(t) \in S
            BY <3>2 DEF At
        <3>4. WaitsFor(WaitsFor(t)) \in Threads
            BY <3>3
        <3>5. th[WaitsFor(t)].pc \in {"lock", "mark", "splice"}
            BY <1>1, <3>1, <3>4, WaitsForInsert
        <3> QED BY <3>2, <3>3, <3>5
    <2> DEFINE Locking == {t \in S : th[t].pc = "lock"}
               awaited(t) == th[t].preds[th[t].level]
               T == {node[awaited(t)].data : t \in Locking}
    <2>2. ASSUME NEW t \in Locking
          PROVE  /\ t \in Threads /\ t \in S /\ th[t].pc = "lock" /\ ~SamePred(th[t], th[t].level)
                 /\ awaited(t) \in DOMAIN node /\ WaitsFor(t) = node[awaited(t)].owner
                 /\ WaitsFor(t) \in Locking /\ node[awaited(t)].data \in Nat
        <3>1. t \in Threads /\ t \in S /\ th[t].pc = "lock" /\ WaitsFor(t) \in Threads /\ WaitsFor(t) \in Locking
            BY <2>1
        <3>2. ~SamePred(th[t], th[t].level) /\ awaited(t) \in DOMAIN node /\ WaitsFor(t) = node[awaited(t)].owner
            BY <1>1, <3>1, WaitsForInsert
        <3> QED BY <2>0, <3>1, <3>2, NodeFacts
    <2>3. T # {} /\ T \subseteq Nat
        <3>1. PICK t \in S : TRUE
            OBVIOUS
        <3>2. WaitsFor(t) \in Locking
            BY <2>1
        <3> QED BY <2>2, <3>2
    <2> HIDE DEF T
    <2>4. PICK m \in T : \A k \in T : m <= k
        BY <2>3, Least
    <2>5. PICK t \in Locking : m = node[awaited(t)].data
        BY DEF T
    <2>6. PICK w : w = WaitsFor(t)
        OBVIOUS
    <2>7. w \in Locking /\ w \in Threads /\ node[awaited(t)].owner = w /\ awaited(t) \in DOMAIN node
        BY <2>2, <2>6
    <2>8. PICK j \in Levels : Locked(w, j) /\ th[w].preds[j] = awaited(t)
        BY <2>0, <2>7 DEF Owners
    <2>9. th[w].pc = "lock" /\ ~SamePred(th[w], th[w].level)
        BY <2>2, <2>7
    <2>10. j < th[w].level
        BY <2>8, <2>9 DEF Locked
    <2>11. node[awaited(w)].data < node[awaited(t)].data
        BY <1>1, <2>7, <2>8, <2>9, <2>10, FallingPreds
    <2>12. node[awaited(w)].data \in T
        BY <2>7 DEF T
    <2>13. m <= node[awaited(w)].data /\ m \in Nat /\ node[awaited(w)].data \in Nat
        BY <2>3, <2>4, <2>12
    <2> QED BY <2>5, <2>11, <2>13
<1> QED BY <1>1, ListInvHolds, PTL

-----------------------------------------------------------------------------
(* No node is lost *)

(* Nobody comes after the destructor, and it has deleted what is linked. *)
Destroyed == ~Alive => (\A t \in Threads : th[t].pc = "idle") /\ deleted = Linked(0)

(* The walk is along the nodes. *)
LEMMA LinkedSame ==
    ASSUME node' = node, NEW l
    PROVE  Linked(l)' = Linked(l)
BY DEF Linked

(* Every step keeps it. *)
LEMMA DestroyedStep ==
    ASSUME Destroyed, [Next]_vars
    PROVE  Destroyed'
<1>1. CASE UNCHANGED vars
    <2>1. node' = node /\ th' = th /\ deleted' = deleted
        BY <1>1 DEF vars
    <2>2. Linked(0)' = Linked(0)
        BY <2>1, LinkedSame
    <2> QED BY <2>1, <2>2 DEF Destroyed, Alive
<1>2. CASE Destroy
    <2>1. node' = node /\ th' = th /\ deleted' = Linked(0) /\ \A t \in Threads : th[t].pc = "idle"
        BY <1>2 DEF Destroy, At
    <2>2. Linked(0)' = Linked(0)
        BY <2>1, LinkedSame
    <2> QED BY <2>1, <2>2 DEF Destroyed
<1>3. ASSUME NEW t \in Threads, Step(t), UNCHANGED deleted PROVE Destroyed'
    <2>1. Alive
        <3> SUFFICES ASSUME ~Alive PROVE FALSE
            OBVIOUS
        <3>1. th[t].pc = "idle"
            BY DEF Destroyed
        <3>2. ~Empty(t) /\ \A op, k : ~Call(t, op, k)
            BY DEF Empty, Call
        <3>3. ~Return(t) /\ ~FindAdvances(t) /\ ~FindDescends(t) /\ ~FindEnds(t)
              /\ ~InsertFound(t) /\ ~InsertFails(t) /\ ~LockPred(t) /\ ~LinkLevel(t) /\ ~FullyLinked(t)
            BY <3>1 DEF Return, FindAdvances, FindDescends, FindEnds, InsertFound, InsertFails, LockPred,
                        LinkLevel, FullyLinked, At
        <3>4. ~UnlockPreds(t) /\ ~ContainsChecks(t) /\ ~EraseChecks(t) /\ ~MarkVictim(t) /\ ~Walk(t)
              /\ ~Splice(t) /\ ~Retire(t)
            BY <3>1 DEF UnlockPreds, ContainsChecks, EraseChecks, MarkVictim, Walk, Splice, Retire, At
        <3> QED BY <1>3, <3>2, <3>3, <3>4 DEF Step
    <2> QED BY <1>3, <2>1 DEF Destroyed, Alive
<1> QED BY <1>1, <1>2, <1>3 DEF Next

(* The nodes and the hands they are in. *)
LEMMA NodesHeld ==
    ASSUME ListInv,
           NEW inserting, inserting = {th[t].node : t \in {u \in Threads : th[u].op = "insert" /\ th[u].result = "none"}},
           NEW erasing, erasing = {th[t].node : t \in {u \in Threads : th[u].pc = "retire"}}
    PROVE  /\ DOMAIN node = Linked(0) \cup ((inserting \cup erasing) \ {null}) \cup retired
           /\ \A l \in Levels : Linked(l) \cap (erasing \cup retired) = {}
           /\ erasing \cap retired = {}
<1>0. NodesOK /\ ThreadsOK /\ Hands /\ Marks /\ {head_, tail_} \subseteq DOMAIN node /\ 0 \in Levels
    BY Constants DEF ListInv, NodesOK
<1>1. Linked(0) = On(0) \cup {tail_} /\ \A l \in Levels : Linked(l) = On(l) \cup {tail_}
    BY <1>0, LinkedIs
<1>2. ASSUME NEW n \in inserting PROVE n \in DOMAIN node /\ n # null /\ \E t \in Threads : Inserts(t, n)
    <2>1. PICK t \in Threads : th[t].op = "insert" /\ th[t].result = "none" /\ n = th[t].node
        OBVIOUS
    <2>2. n \in DOMAIN node
        BY <1>0, <2>1, OwnNode
    <2> QED BY <1>0, <2>1, <2>2, NodeFacts DEF Inserts
<1>3. ASSUME NEW n \in erasing
      PROVE  n \in DOMAIN node \ {head_, tail_} /\ n # null /\ n \notin retired /\ \A l \in Levels : Left(n, l)
    <2>1. PICK t \in Threads : th[t].pc = "retire" /\ n = th[t].node
        OBVIOUS
    <2>2. n \in DOMAIN node \ {head_, tail_} /\ n \notin retired /\ Erases(t, n)
        BY <2>1, Victim
    <2>3. \A l \in Levels : Left(n, l)
        BY <2>1, <2>2 DEF Left, Past
    <2> QED BY <1>0, <2>2, <2>3, NodeFacts
<1>4. ASSUME NEW n \in DOMAIN node PROVE n \in Linked(0) \cup ((inserting \cup erasing) \ {null}) \cup retired
    <2>1. CASE n = tail_
        BY <1>1, <2>1
    <2>2. CASE n = head_
        <3>1. Entered(n, 0) /\ ~node[n].marked
            BY <1>0, <2>2 DEF Entered, NodesOK
        <3> QED BY <1>0, <1>1, <3>1, UnmarkedOn
    <2>3. CASE n \notin {head_, tail_} /\ ~node[n].fully_linked
        <3>1. PICK t \in Threads : Inserts(t, n)
            BY <1>0, <2>3 DEF Hands
        <3>2. n \in inserting
            BY <3>1 DEF Inserts
        <3> QED BY <1>2, <3>2
    <2>4. CASE n \notin {head_, tail_} /\ node[n].fully_linked
        <3>1. 0 <= node[n].top_level
            BY <1>0, NodeFacts
        <3>2. Entered(n, 0)
            BY <2>4, <3>1 DEF Entered
        <3>3. CASE ~Left(n, 0)
            BY <1>1, <3>2, <3>3 DEF On
        <3>4. ASSUME NEW t \in Threads, Erases(t, n), Past(t, 0) PROVE n \in erasing
            <4>1. ~(th[t].level < 0)
                BY <1>0, ThreadFacts
            <4>2. th[t].pc = "retire" /\ th[t].node = n
                BY <3>4, <4>1 DEF Past, Erases
            <4> QED BY <4>2
        <3> QED BY <1>3, <3>3, <3>4 DEF Left
    <2> QED BY <2>1, <2>2, <2>3, <2>4
<1>5. Linked(0) \cup ((inserting \cup erasing) \ {null}) \cup retired \subseteq DOMAIN node
    BY <1>0, <1>1, <1>2, <1>3 DEF On, Marks
<1>6. ASSUME NEW l \in Levels, NEW n \in Linked(l) PROVE n \notin erasing \cup retired
    <2>1. CASE n = tail_
        BY <1>0, <1>3, <2>1 DEF Marks, NodesOK
    <2>2. CASE n \in On(l)
        <3>1. ~Left(n, l)
            BY <2>2 DEF On
        <3> QED BY <1>3, <3>1 DEF Left
    <2> QED BY <1>1, <1>6, <2>1, <2>2
<1> QED BY <1>3, <1>4, <1>5, <1>6

(* A node is retired once and only when no level leads to it any more; and *)
(* each one is linked, in the hands of one thread, or retired, so that the *)
(* destructor deletes all the others.                                      *)
THEOREM NodesStayAccountedFor == Spec => []NodesAccountedFor
<1>1. ASSUME ListInv, Destroyed PROVE NodesAccountedFor
    <2>1. PICK inserting :
              inserting = {th[t].node : t \in {u \in Threads : th[u].op = "insert" /\ th[u].result = "none"}}
        OBVIOUS
    <2>2. PICK erasing : erasing = {th[t].node : t \in {u \in Threads : th[u].pc = "retire"}}
        OBVIOUS
    <2>3. /\ DOMAIN node = Linked(0) \cup ((inserting \cup erasing) \ {null}) \cup retired
          /\ \A l \in Levels : Linked(l) \cap (erasing \cup retired) = {}
          /\ erasing \cap retired = {}
        <3>1. ListInv
            BY <1>1
        <3> QED BY <2>1, <2>2, <3>1, NodesHeld
    <2>4. ASSUME ~Alive PROVE deleted \cap retired = {} /\ DOMAIN node = deleted \cup retired
        <3>1. (\A t \in Threads : th[t].pc = "idle") /\ deleted = Linked(0)
            BY <1>1, <2>4 DEF Destroyed
        <3>2. \A t \in Threads : th[t].op = "none"
            BY <1>1, <3>1 DEF ListInv, Place, Control, Idle
        <3>3. inserting = {} /\ erasing = {}
            BY <2>1, <2>2, <3>1, <3>2
        <3> QED BY <2>3, <3>1, <3>3, Constants
    <2> QED BY <2>1, <2>2, <2>3, <2>4 DEF NodesAccountedFor, At
<1>2. Init => Destroyed
    BY DEF Init, Destroyed, Alive
<1>3. Destroyed /\ [Next]_vars => Destroyed'
    BY DestroyedStep
<1> QED BY <1>1, <1>2, <1>3, ListInvHolds, PTL DEF Spec

-----------------------------------------------------------------------------
(* The set *)

Live(n) == n \in DOMAIN node /\ node[n].fully_linked /\ ~node[n].marked

(* A node of the set is on the lowest level, where no other has its key. *)
LEMMA LiveFacts ==
    ASSUME ListInv, NEW n, Live(n)
    PROVE  /\ n \in DOMAIN node \ {head_, tail_} /\ n \in Nodes /\ Entered(n, 0) /\ n \in On(0)
           /\ \A m : Entered(m, 0) /\ ~node[m].marked /\ node[m].data = node[n].data => m = n
<1>0. NodesOK /\ Chains /\ 0 \in Levels
    BY Constants DEF ListInv
<1>1. n \in DOMAIN node \ {head_, tail_}
    BY <1>0 DEF Live, NodesOK
<1>2. Entered(n, 0) /\ n \in Nodes
    <2>1. n \in Nodes /\ 0 <= node[n].top_level
        BY <1>0, <1>1, NodeFacts
    <2> QED BY <1>1, <2>1 DEF Entered, Live
<1>3. n \in On(0)
    BY <1>0, <1>2, UnmarkedOn DEF Live
<1>4. ASSUME NEW m, Entered(m, 0), ~node[m].marked, node[m].data = node[n].data PROVE m = n
    <2>1. m \in On(0)
        BY <1>0, <1>4, UnmarkedOn
    <2>2. Data[m] = node[m].data /\ Data[n] = node[n].data
        BY <1>0, <1>3, <2>1, OnFacts
    <2>3. KeyChain(On(0), head_, tail_, Ptrs(0), Data)
        BY <1>0 DEF Chains
    <2> QED BY <1>3, <1>4, <2>1, <2>2, <2>3 DEF KeyChain
<1> QED BY <1>1, <1>2, <1>3, <1>4

(* The call of t has changed the set. *)
HasChanged(t) == th[t].op \in {"insert", "erase"} /\ th[t].result = "true"
Changed == {t \in Threads : th[t].op \in {"insert", "erase"} /\ th[t].result = "true"}

(* What a step can do to the set: nothing, or a node comes into it, or one *)
(* goes.                                                                   *)
SameData == \A n : Live(n) => node'[n].data = node[n].data
SameLive == SameData /\ \A n : Live(n)' <=> Live(n)
Enters(t, n) ==
    /\ ~HasChanged(t) /\ HasChanged(t)' /\ th[t].key \in Keys
    /\ SameData /\ \A m : Live(m)' <=> Live(m) \/ m = n
    /\ node'[n].data = th[t].key /\ \A m : Live(m) => node[m].data # th[t].key
Leaves(t, n) ==
    /\ ~HasChanged(t) /\ HasChanged(t)' /\ th[t].key \in Keys
    /\ SameData /\ \A m : Live(m)' <=> Live(m) /\ m # n
    /\ Live(n) /\ \A m : Live(m) => (node[m].data = th[t].key <=> m = n)

(* Steps that leave the flags as they are. *)
LEMMA FlagsLive ==
    ASSUME DOMAIN node' = DOMAIN node, \A n \in DOMAIN node : SameId(n) /\ SameFlags(n)
    PROVE  SameLive
BY DEF SameLive, SameData, Live, SameId, SameFlags

(* Steps that touch no node. *)
LEMMA SameNodesLive ==
    ASSUME node' = node
    PROVE  SameLive
BY DEF SameLive, SameData, Live

(* The node of an insert comes into the set. *)
LEMMA FullyLinkedEnters ==
    ASSUME ListInv, NEW t \in Threads, FullyLinked(t)
    PROVE  Enters(t, th[t].node)
<1>0. NodesOK /\ ThreadsOK /\ Hands /\ Marks /\ Control(t) /\ Made(t) /\ 0 \in Levels
    BY Constants DEF ListInv, Place
<1> PICK o : o = th[t].node
    OBVIOUS
<1>1. /\ th[t].pc = "linked" /\ th'[t].op = th[t].op /\ th'[t].result = "true"
      /\ Inserts(t, o) /\ DOMAIN node' = DOMAIN node
      /\ \A n \in DOMAIN node : SameId(n)
      /\ \A n \in DOMAIN node : node'[n].marked = node[n].marked
      /\ \A n \in DOMAIN node : n # o => node'[n].fully_linked = node[n].fully_linked
      /\ node'[o].fully_linked
    BY FullyLinkedTurn
<1>2. th[t].op = "insert" /\ th[t].result = "none" /\ th[t].key \in Keys
    BY <1>0, <1>1 DEF Control, Inserting
<1>3. o \in DOMAIN node \ {head_, tail_} /\ ~node[o].fully_linked /\ node[o].top_level \in Nat
    BY <1>0, <1>2, OwnNode
<1>4. ~node[o].marked /\ node[o].data = th[t].key
    BY <1>0, <1>1, <1>3 DEF Marks, Made
<1>5. Entered(o, 0)
    <2>1. Linking(t, o, 0)
        BY <1>1, <1>2 DEF Linking
    <2> QED BY <1>3, <2>1 DEF Entered
<1>6. SameData
    BY <1>1 DEF SameData, Live, SameId
<1>7. \A m : Live(m)' <=> Live(m) \/ m = o
    BY <1>1, <1>3, <1>4 DEF Live
<1>8. ASSUME NEW m, Live(m), node[m].data = th[t].key PROVE FALSE
    <2>1. o = m
        BY <1>4, <1>5, <1>8, LiveFacts
    <2> QED BY <1>3, <1>8, <2>1 DEF Live
<1>9. node'[o].data = th[t].key
    BY <1>1, <1>3, <1>4 DEF SameId
<1> QED BY <1>1, <1>2, <1>6, <1>7, <1>8, <1>9 DEF Enters, HasChanged

(* The victim of an erase goes. *)
LEMMA MarkingLeaves ==
    ASSUME ListInv, NEW t \in Threads, th[t].pc = "mark", Marking(t)
    PROVE  Leaves(t, th[t].node)
<1>0. NodesOK /\ ThreadsOK /\ Control(t) /\ Chosen(t)
    BY DEF ListInv, Place
<1> PICK o : o = th[t].node
    OBVIOUS
<1>1. /\ ~node[o].marked /\ DOMAIN node' = DOMAIN node
      /\ \A n \in DOMAIN node : SameId(n)
      /\ \A n \in DOMAIN node : node'[n].fully_linked = node[n].fully_linked
      /\ \A n \in DOMAIN node : n # o => node'[n].marked = node[n].marked
      /\ node'[o].marked /\ th'[t].op = th[t].op /\ th'[t].result = "true"
    BY DEF Marking, Walks
<1>2. th[t].op = "erase" /\ th[t].result = "none" /\ th[t].key \in Keys
    BY <1>0 DEF Control
<1>3. Live(o) /\ node[o].data = th[t].key
    BY <1>0, <1>1 DEF Live, Chosen
<1>6. SameData
    BY <1>1 DEF SameData, Live, SameId
<1>7. \A m : Live(m)' <=> Live(m) /\ m # o
    BY <1>1, <1>3 DEF Live
<1>8. ASSUME NEW m, Live(m), node[m].data = th[t].key PROVE m = o
    <2>1. Entered(m, 0) /\ ~node[m].marked
        BY <1>8, LiveFacts DEF Live
    <2> QED BY <1>3, <1>8, <2>1, LiveFacts
<1> QED BY <1>1, <1>2, <1>3, <1>6, <1>7, <1>8 DEF Leaves, HasChanged

(* Every step is one of these, and only a return ends the call of a thread *)
(* that has changed the set.                                               *)
LEMMA SetStep ==
    ASSUME ListInv, NEW t \in Threads, Step(t)
    PROVE  /\ Others(t)
           /\ \/ SameLive /\ (HasChanged(t)' <=> HasChanged(t))
              \/ SameLive /\ ~HasChanged(t)'
              \/ FullyLinked(t) /\ Enters(t, th[t].node)
              \/ MarkVictim(t) /\ Leaves(t, th[t].node)
<1>0. NodesOK /\ ThreadsOK /\ Forward /\ Hands /\ Control(t) /\ Searches(t)
    BY DEF ListInv, Place
<1>1. ASSUME NEW op \in {"insert", "erase", "contains"}, NEW k \in Keys, Call(t, op, k)
      PROVE  Others(t) /\ SameLive /\ ~HasChanged(t)'
    <2>1. /\ Others(t) /\ th'[t].result = "none"
          /\ op # "insert" => node' = node
        BY <1>0, <1>1, CallTurn DEF Others
    <2>2. op = "insert" =>
             /\ th'[t].node \notin DOMAIN node /\ DOMAIN node' = DOMAIN node \cup {th'[t].node}
             /\ ~node'[th'[t].node].fully_linked /\ \A n \in DOMAIN node : node'[n] = node[n]
        BY <1>0, <1>1, CallTurn
    <2>3. SameLive
        <3>1. CASE op = "insert"
            BY <2>2, <3>1 DEF SameLive, SameData, Live
        <3>2. CASE op # "insert"
            BY <2>1, <3>2, SameNodesLive
        <3> QED BY <3>1, <3>2
    <2> QED BY <2>1, <2>3 DEF HasChanged
<1>2. CASE Empty(t) \/ Return(t)
    <2>1. /\ Others(t) /\ node' = node
          /\ th'[t].op = "empty" \/ th'[t] = Idle
        BY <1>0, <1>2, OtherTurns DEF Others
    <2> QED BY <2>1, SameNodesLive DEF HasChanged, Idle
<1>3. CASE FindAdvances(t) \/ FindDescends(t)
    BY <1>0, <1>3, FindTurn, SameNodesLive DEF Others, SameCall, HasChanged
<1>4. CASE FindEnds(t)
    <2>1. th[t].pc = "find" /\ th[t].result = "none"
        BY <1>0, <1>4 DEF FindEnds, At, Control
    <2>2. th[t].op = "insert" => th[t].node \in DOMAIN node
        BY <1>0, <2>1, OwnNode
    <2>3. Others(t) /\ (FindsFree(t) \/ FindsEqual(t) \/ FindsIt(t) \/ FindsNothing(t))
        BY <1>0, <1>4, <2>2, FindEndsTurn DEF Others
    <2>4. ~HasChanged(t) /\ ~HasChanged(t)'
        BY <2>1, <2>3 DEF HasChanged, FindsFree, FindsEqual, FindsIt, FindsNothing, SameCall, Answers
    <2>5. SameLive
        BY <2>3, FlagsLive, SameNodesLive DEF FindsFree, FindsEqual, FindsIt, FindsNothing
    <2> QED BY <2>3, <2>4, <2>5
<1>5. CASE InsertFound(t)
    BY <1>5, InsertFoundTurn, SameNodesLive DEF Others, SameCall, HasChanged
<1>6. CASE InsertFails(t)
    <2>1. /\ Others(t) /\ Answers(t, "false") /\ Inserts(t, th[t].node)
          /\ DOMAIN node' = DOMAIN node \ {th[t].node} /\ \A n \in DOMAIN node' : node'[n] = node[n]
        BY <1>6, InsertFailsTurn DEF Others
    <2>2. ~node[th[t].node].fully_linked
        BY <1>0, <2>1, OwnNode DEF Inserts
    <2>3. SameLive
        BY <2>1, <2>2 DEF SameLive, SameData, Live
    <2> QED BY <2>1, <2>3 DEF Answers, HasChanged
<1>7. CASE LockPred(t)
    BY <1>7, LockPredTurn, FlagsLive DEF Others, SameCall, HasChanged, OnlyOwners
<1>8. CASE LinkLevel(t)
    BY <1>8, LinkLevelTurn, FlagsLive DEF Others, SameCall, HasChanged
<1>9. CASE FullyLinked(t)
    BY <1>9, FullyLinkedTurn, FullyLinkedEnters DEF Others
<1>10. CASE UnlockPreds(t)
    BY <1>10, UnlockPredsTurn, FlagsLive DEF Others, SameCall, HasChanged, OnlyOwners, Answers
<1>11. CASE ContainsChecks(t) \/ EraseChecks(t)
    <2>1. th[t].result = "none" /\ th[t].pc = "check" /\ node' = node /\ Others(t)
        BY <1>0, <1>11, ChecksTurn DEF Others, Control
    <2>2. ~HasChanged(t) /\ ~HasChanged(t)'
        BY <1>11, <2>1, ChecksTurn DEF HasChanged, SameCall, Answers
    <2> QED BY <2>1, <2>2, SameNodesLive
<1>12. CASE MarkVictim(t)
    <2>1. th[t].pc = "mark" /\ Others(t)
          /\ ((node' = node /\ Answers(t, "false")) \/ Marking(t))
        BY <1>12, MarkVictimTurn DEF Others
    <2>2. CASE Marking(t)
        BY <1>12, <2>1, <2>2, MarkingLeaves
    <2>3. CASE node' = node /\ Answers(t, "false")
        BY <2>1, <2>3, SameNodesLive DEF Answers, HasChanged
    <2> QED BY <2>1, <2>2, <2>3
<1>13. CASE Walk(t)
    BY <1>13, WalkTurn, SameNodesLive DEF Others, SameCall, HasChanged
<1>14. CASE Splice(t)
    <2>1. th[t].pc = "splice" /\ Others(t) /\ (Splices(t) \/ (Walks(t, th[t].level) /\ node' = node))
        BY <1>14, SpliceTurn DEF Others
    <2>2. th[t].op = "erase" /\ th[t].result = "true"
        BY <1>0, <2>1 DEF Control
    <2>3. HasChanged(t)' /\ HasChanged(t)
        BY <2>1, <2>2 DEF HasChanged, Splices, Down, Walks, SameCall
    <2>4. SameLive
        BY <2>1, FlagsLive, SameNodesLive DEF Splices
    <2> QED BY <2>1, <2>3, <2>4
<1>15. CASE Retire(t)
    <2>1. th[t].pc = "retire" /\ Others(t) /\ node' = node /\ Answers(t, "true")
        BY <1>15, RetireTurn DEF Others
    <2>2. th[t].op = "erase" /\ th[t].result = "true"
        BY <1>0, <2>1 DEF Control
    <2> QED BY <2>1, <2>2, SameNodesLive DEF Answers, HasChanged
<1> QED BY <1>1, <1>2, <1>3, <1>4, <1>5, <1>6, <1>7, <1>8, <1>9, <1>10, <1>11, <1>12, <1>13, <1>14, <1>15 DEF Step

(* The keys of the set. *)
LEMMA MembersAre ==
    ASSUME NEW k
    PROVE  /\ k \in Members <=> \E n : Live(n) /\ node[n].data = k
           /\ k \in Members' <=> \E n : Live(n)' /\ node'[n].data = k
BY DEF Members, Live

(* What that means for the keys. *)
LEMMA MembersStep ==
    ASSUME NEW t \in Threads
    PROVE  /\ SameLive => Members' = Members
           /\ \A n : Enters(t, n) => th[t].key \notin Members /\ Members' = Members \cup {th[t].key}
           /\ \A n : Leaves(t, n) => th[t].key \in Members /\ Members' = Members \ {th[t].key}
<1>1. ASSUME SameLive PROVE Members' = Members
    <2>1. \A k : k \in Members' <=> k \in Members
        BY <1>1, MembersAre DEF SameLive, SameData
    <2> QED BY <2>1
<1>2. ASSUME NEW n, Enters(t, n) PROVE th[t].key \notin Members /\ Members' = Members \cup {th[t].key}
    <2>1. th[t].key \notin Members
        BY <1>2, MembersAre DEF Enters
    <2>2. \A k : k \in Members' <=> k \in Members \/ k = th[t].key
        BY <1>2, MembersAre DEF Enters, SameData
    <2> QED BY <2>1, <2>2
<1>3. ASSUME NEW n, Leaves(t, n) PROVE th[t].key \in Members /\ Members' = Members \ {th[t].key}
    <2>1. th[t].key \in Members
        BY <1>3, MembersAre DEF Leaves
    <2>2. \A k : k \in Members' <=> k \in Members /\ k # th[t].key
        BY <1>3, MembersAre DEF Leaves, SameData
    <2> QED BY <2>1, <2>2
<1> QED BY <1>1, <1>2, <1>3

(* Each step is a step of the set, or changes nothing of it. *)
LEMMA SetRefined ==
    ListInv /\ [Next]_vars => [AbstractSet!Next]_<<Members, Changed>>
<1> SUFFICES ASSUME ListInv, [Next]_vars
             PROVE  AbstractSet!Next \/ (Members' = Members /\ Changed' = Changed)
    OBVIOUS
<1>1. ASSUME NEW t \in Threads, Step(t)
      PROVE  AbstractSet!Next \/ (Members' = Members /\ Changed' = Changed)
    <2>1. /\ Others(t)
          /\ \/ SameLive /\ (HasChanged(t)' <=> HasChanged(t))
             \/ SameLive /\ ~HasChanged(t)'
             \/ FullyLinked(t) /\ Enters(t, th[t].node)
             \/ MarkVictim(t) /\ Leaves(t, th[t].node)
        BY <1>1, SetStep
    <2>2. /\ \A u : u \in Changed <=> u \in Threads /\ HasChanged(u)
          /\ \A u : u \in Changed' <=> u \in Threads /\ HasChanged(u)'
        BY DEF Changed, HasChanged
    <2>3. \A u \in Threads : u # t => (HasChanged(u)' <=> HasChanged(u))
        BY <2>1 DEF Others, HasChanged
    <2>4. ASSUME NEW u, u = t PROVE HasChanged(u)' <=> HasChanged(t)'
        BY <2>4 DEF HasChanged
    <2>5. CASE SameLive /\ (HasChanged(t)' <=> HasChanged(t))
        <3>1. Changed' = Changed
            BY <2>2, <2>3, <2>4, <2>5
        <3> QED BY <2>5, <3>1, MembersStep
    <2>6. CASE SameLive /\ ~HasChanged(t)'
        <3>1. Changed' = Changed \ {t}
            BY <2>2, <2>3, <2>4, <2>6
        <3>2. AbstractSet!Return(t)
            BY <2>6, <3>1, MembersStep DEF AbstractSet!Return, Changed
        <3> QED BY <3>2 DEF AbstractSet!Next
    <2>7. CASE Enters(t, th[t].node)
        <3>1. t \notin Changed /\ Changed' = Changed \cup {t} /\ th[t].key \in Keys
            BY <2>2, <2>3, <2>4, <2>7 DEF Enters
        <3>2. PICK k \in Keys : k = th[t].key
            BY <3>1
        <3>3. AbstractSet!Insert(t, k)
            BY <2>7, <3>1, <3>2, MembersStep DEF AbstractSet!Insert, Changed
        <3> QED BY <3>3 DEF AbstractSet!Next
    <2>8. CASE Leaves(t, th[t].node)
        <3>1. t \notin Changed /\ Changed' = Changed \cup {t} /\ th[t].key \in Keys
            BY <2>2, <2>3, <2>4, <2>8 DEF Leaves
        <3>2. PICK k \in Keys : k = th[t].key
            BY <3>1
        <3>3. AbstractSet!Erase(t, k)
            BY <2>8, <3>1, <3>2, MembersStep DEF AbstractSet!Erase, Changed
        <3> QED BY <3>3 DEF AbstractSet!Next
    <2> QED BY <2>1, <2>5, <2>6, <2>7, <2>8
<1>2. CASE UNCHANGED vars \/ Destroy
    <2>1. UNCHANGED <<node, th>>
        BY <1>2 DEF vars, Destroy
    <2>2. Changed' = Changed /\ Members' = Members
        BY <2>1 DEF Changed, Members
    <2> QED BY <2>2
<1> QED BY <1>1, <1>2 DEF Next

(* At the beginning nothing has changed. *)
LEMMA SetRefinedInit == Init => AbstractSet!Init
<1> SUFFICES ASSUME Init PROVE AbstractSet!Init
    OBVIOUS
<1>1. Changed = {}
    BY DEF Init, Changed, Idle
<1>2. ListInv
    BY ListInvInit
<1>3. \A n : Live(n) => node[n].data \in Keys
    BY <1>2, LiveFacts DEF ListInv, NodesOK
<1>4. Members \subseteq Keys
    BY <1>3, MembersAre
<1> QED BY <1>1, <1>4 DEF AbstractSet!Init, Changed

(* The skip list is a set: a successful insert changes it where it stores  *)
(* fully_linked, a successful erase where it marks its victim.             *)
THEOREM SkipListImplementsSet == Spec => ImplementsSet
<1>1. Init => AbstractSet!Init
    BY SetRefinedInit
<1>2. ListInv /\ [Next]_vars => [AbstractSet!Next]_<<Members, Changed>>
    BY SetRefined
<1> QED BY <1>1, <1>2, ListInvHolds, PTL DEF Spec, ImplementsSet, AbstractSet!Spec, Changed

-----------------------------------------------------------------------------
(* What a search can rely on *)

(* A linked level of a node stays linked. *)
LEMMA EnteredKept ==
    ASSUME NEW t \in Threads, Others(t), NEW l \in Levels, NEW n, Entered(n, l), n \in DOMAIN node', SameId(n),
           node[n].fully_linked => node'[n].fully_linked,
           Linking(t, n, l) => Linking(t, n, l)' \/ node'[n].fully_linked
    PROVE  Entered(n, l)'
<1>1. CASE n = head_
    BY <1>1 DEF Entered
<1>2. CASE n # head_
    <2>1. /\ n \in DOMAIN node \ {head_, tail_} /\ l <= node[n].top_level
          /\ node[n].fully_linked \/ \E u \in Threads : Linking(u, n, l)
        BY <1>2 DEF Entered
    <2>2. n \in DOMAIN node' \ {head_, tail_} /\ l <= node'[n].top_level
        BY <2>1 DEF SameId
    <2>3. \A u \in Threads : u # t => (Linking(u, n, l)' <=> Linking(u, n, l))
        BY OtherWork
    <2>4. node'[n].fully_linked \/ \E u \in Threads : Linking(u, n, l)'
        BY <2>1, <2>3
    <2> QED BY <2>2, <2>4 DEF Entered
<1> QED BY <1>1, <1>2

(* A linked node keeps its key, and its pointer is changed only while it   *)
(* is not marked: a node that has been taken out leads where it led then.  *)
(* It is not marked in the step in which it becomes fully linked.          *)
LEMMA Kept ==
    ASSUME ListInv, NEW t \in Threads, Step(t), NEW l \in Levels, NEW n, Entered(n, l)
    PROVE  /\ Entered(n, l)' /\ node'[n].data = node[n].data
           /\ node'[n].next[l] = node[n].next[l] \/ ~node'[n].marked
           /\ node'[n].fully_linked => node[n].fully_linked \/ ~node'[n].marked
<1>0. /\ NodesOK /\ ThreadsOK /\ Forward /\ Hands /\ Marks
      /\ Control(t) /\ Searches(t) /\ Found(t) /\ Made(t) /\ Chosen(t)
      /\ \A j \in Levels : Holds(t, j)
    BY DEF ListInv, Place
<1> DEFINE Goal == /\ Entered(n, l)' /\ node'[n].data = node[n].data
                   /\ node'[n].next[l] = node[n].next[l] \/ ~node'[n].marked
                   /\ node'[n].fully_linked => node[n].fully_linked \/ ~node'[n].marked
<1>1. n \in DOMAIN node /\ l \in 0..node[n].top_level
    BY <1>0, EnteredFacts
<1>2. ASSUME th[t].pc \notin {"link", "linked"} PROVE ~Linking(t, n, l)
    BY <1>2 DEF Linking
<1>3. ASSUME node' = node, Others(t), th[t].pc \notin {"link", "linked"} PROVE Goal
    <2>1. SameId(n)
        BY <1>3 DEF SameId
    <2> QED BY <1>1, <1>2, <1>3, <2>1, EnteredKept
<1>4. ASSUME n \in DOMAIN node', SameId(n), SameFlags(n), SameNext(n), Others(t), th[t].pc \notin {"link", "linked"}
      PROVE  Goal
    <2>1. Entered(n, l)'
        BY <1>2, <1>4, EnteredKept DEF SameFlags
    <2> QED BY <1>4, <2>1 DEF SameId, SameNext, SameFlags
<1> SUFFICES Goal
    OBVIOUS
<1> HIDE DEF Goal
<1>5. ASSUME NEW op \in {"insert", "erase", "contains"}, NEW k \in Keys, Call(t, op, k) PROVE Goal
    <2>1. Others(t) /\ th[t].pc = "idle"
        BY <1>0, <1>5, CallTurn DEF Others
    <2>2. CASE op # "insert"
        <3>1. node' = node
            BY <1>0, <1>5, <2>2, CallTurn
        <3> QED BY <1>3, <2>1, <3>1
    <2>3. CASE op = "insert"
        <3>1. n \in DOMAIN node' /\ node'[n] = node[n]
            BY <1>0, <1>1, <1>5, <2>3, CallTurn
        <3> QED BY <1>4, <2>1, <3>1 DEF SameId, SameFlags, SameNext
    <2> QED BY <2>2, <2>3
<1>6. CASE Empty(t) \/ Return(t)
    <2>1. node' = node /\ Others(t) /\ th[t].pc \in {"idle", "done"}
        BY <1>0, <1>6, OtherTurns DEF Others
    <2> QED BY <1>3, <2>1
<1>7. CASE FindAdvances(t) \/ FindDescends(t)
    <2>1. node' = node /\ Others(t) /\ th[t].pc = "find"
        BY <1>0, <1>7, FindTurn DEF Others
    <2> QED BY <1>3, <2>1
<1>8. CASE FindEnds(t)
    <2>1. th[t].pc = "find" /\ th[t].result = "none"
        BY <1>0, <1>8 DEF FindEnds, At, Control
    <2>2. th[t].op = "insert" => th[t].node \in DOMAIN node
        BY <1>0, <2>1, OwnNode
    <2>3. Others(t) /\ (FindsFree(t) \/ FindsEqual(t) \/ FindsIt(t) \/ FindsNothing(t))
        BY <1>0, <1>8, <2>2, FindEndsTurn DEF Others
    <2>4. CASE FindsFree(t)
        <3>1. /\ th[t].op = "insert" /\ DOMAIN node' = DOMAIN node
              /\ SameId(n) /\ SameFlags(n) /\ (n # th[t].node => SameNext(n))
            BY <1>1, <2>4 DEF FindsFree
        <3>2. n # th[t].node
            BY <1>2, <2>1, <3>1, NotEntered DEF Inserts
        <3> QED BY <1>1, <1>4, <2>1, <2>3, <3>1, <3>2
    <2>5. CASE FindsEqual(t) \/ FindsIt(t) \/ FindsNothing(t)
        BY <1>3, <2>1, <2>3, <2>5 DEF FindsEqual, FindsIt, FindsNothing
    <2> QED BY <2>3, <2>4, <2>5
<1>9. CASE InsertFound(t)
    <2>1. node' = node /\ Others(t) /\ th[t].pc = "found"
        BY <1>9, InsertFoundTurn DEF Others
    <2> QED BY <1>3, <2>1
<1>10. CASE InsertFails(t)
    <2>1. /\ Others(t) /\ th[t].pc = "await" /\ Inserts(t, th[t].node)
          /\ DOMAIN node' = DOMAIN node \ {th[t].node} /\ \A m \in DOMAIN node' : node'[m] = node[m]
        BY <1>10, InsertFailsTurn DEF Others
    <2>2. n # th[t].node
        BY <1>2, <2>1, NotEntered
    <2> QED BY <1>1, <1>4, <2>1, <2>2 DEF SameId, SameFlags, SameNext
<1>11. CASE LockPred(t)
    <2>1. Others(t) /\ th[t].pc = "lock" /\ OnlyOwners
        BY <1>11, LockPredTurn DEF Others
    <2> QED BY <1>1, <1>4, <2>1 DEF OnlyOwners
<1>12. CASE LinkLevel(t)
    <2>1. /\ Others(t) /\ th[t].pc = "link" /\ SameCall(t)
          /\ DOMAIN node' = DOMAIN node /\ SameId(n) /\ SameFlags(n)
          /\ n # th[t].preds[th[t].level] => SameNext(n)
          /\ \A j \in 0..node[th[t].preds[th[t].level]].top_level : j # th[t].level =>
                node'[th[t].preds[th[t].level]].next[j] = node[th[t].preds[th[t].level]].next[j]
          /\ \/ th'[t].pc = "link" /\ th'[t].level = th[t].level + 1
             \/ th'[t].pc = "linked" /\ th'[t].level = th[t].level
        BY <1>1, <1>12, LinkLevelTurn DEF Others
    <2>2. th[t].level \in Levels /\ th[t].level \in Nat /\ l \in Nat
        BY <1>0, ThreadFacts, Constants
    <2>3. Linking(t, n, l) => Linking(t, n, l)'
        BY <2>1, <2>2 DEF Linking, SameCall
    <2>4. Entered(n, l)'
        BY <1>1, <2>1, <2>3, EnteredKept DEF SameFlags
    <2>5. ASSUME n = th[t].preds[th[t].level], l = th[t].level PROVE ~node'[n].marked
        <3>1. Validated(t, th[t].level)
            BY <1>0, <2>1, <2>2 DEF Validated, Made
        <3>2. ~node[n].marked
            BY <1>0, <2>2, <2>5, <3>1 DEF Holds
        <3> QED BY <2>1, <3>2 DEF SameFlags
    <2>6. node'[n].next[l] = node[n].next[l] \/ ~node'[n].marked
        BY <1>1, <2>1, <2>5 DEF SameNext
    <2> QED BY <2>1, <2>4, <2>6 DEF Goal, SameId, SameFlags
<1>13. CASE FullyLinked(t)
    <2>1. /\ Others(t) /\ DOMAIN node' = DOMAIN node /\ SameId(n) /\ SameNext(n)
          /\ n # th[t].node => node'[n].fully_linked = node[n].fully_linked
          /\ node'[th[t].node].fully_linked /\ node'[n].marked = node[n].marked
        BY <1>1, <1>13, FullyLinkedTurn DEF Others
    <2>2. Linking(t, n, l) => n = th[t].node
        BY DEF Linking
    <2>3. Entered(n, l)'
        BY <1>1, <2>1, <2>2, EnteredKept
    <2>4. node[n].marked => node[n].fully_linked
        BY <1>0, <1>1 DEF Marks
    <2> QED BY <2>1, <2>3, <2>4 DEF Goal, SameId, SameNext
<1>14. CASE UnlockPreds(t)
    <2>1. Others(t) /\ th[t].pc = "unlock" /\ OnlyOwners
        BY <1>14, UnlockPredsTurn DEF Others
    <2> QED BY <1>1, <1>4, <2>1 DEF OnlyOwners
<1>15. CASE ContainsChecks(t) \/ EraseChecks(t)
    <2>1. node' = node /\ Others(t) /\ th[t].pc = "check"
        BY <1>15, ChecksTurn DEF Others
    <2> QED BY <1>3, <2>1
<1>16. CASE MarkVictim(t)
    <2>1. th[t].pc = "mark" /\ Others(t) /\ (node' = node \/ Marking(t))
        BY <1>16, MarkVictimTurn DEF Others
    <2>2. CASE Marking(t)
        <3>1. /\ DOMAIN node' = DOMAIN node /\ SameId(n) /\ SameNext(n)
              /\ node'[n].fully_linked = node[n].fully_linked
            BY <1>1, <2>2 DEF Marking
        <3>2. Entered(n, l)'
            BY <1>1, <1>2, <2>1, <3>1, EnteredKept
        <3> QED BY <3>1, <3>2 DEF Goal, SameId, SameNext
    <2> QED BY <1>3, <2>1, <2>2
<1>17. CASE Walk(t)
    <2>1. node' = node /\ Others(t) /\ th[t].pc = "walk"
        BY <1>17, WalkTurn DEF Others
    <2> QED BY <1>3, <2>1
<1>18. CASE Splice(t)
    <2>1. th[t].pc = "splice" /\ Others(t) /\ (Splices(t) \/ node' = node)
        BY <1>18, SpliceTurn DEF Others
    <2>2. CASE Splices(t)
        <3>1. /\ ~node[th[t].pred].marked /\ DOMAIN node' = DOMAIN node /\ SameId(n) /\ SameFlags(n)
              /\ n # th[t].pred => SameNext(n)
            BY <1>1, <2>2 DEF Splices
        <3>2. Entered(n, l)'
            BY <1>1, <1>2, <2>1, <3>1, EnteredKept DEF SameFlags
        <3> QED BY <3>1, <3>2 DEF Goal, SameId, SameNext, SameFlags
    <2> QED BY <1>3, <2>1, <2>2
<1>19. CASE Retire(t)
    <2>1. node' = node /\ Others(t) /\ th[t].pc = "retire"
        BY <1>19, RetireTurn DEF Others
    <2> QED BY <1>3, <2>1
<1> QED
    BY <1>5, <1>6, <1>7, <1>8, <1>9, <1>10, <1>11, <1>12, <1>13, <1>14, <1>15, <1>16, <1>17, <1>18, <1>19 DEF Step

(* The node n of the set has the key k.  A search for k that stands on a   *)
(* node of S[l] at level l gets to n: S is closed under what the search    *)
(* does, and the lowest level does not lead out of it but to n.            *)
Guides(n, k, S) ==
    /\ Live(n) /\ node[n].data = k
    /\ \A l \in Levels : \A m \in S[l] :
           /\ Entered(m, l) /\ node[m].data < k
           /\ \A i \in Levels : i < l => m \in S[i]
           /\ \/ node[m].next[l] \in S[l]
              \/ ~Before(node[m].next[l], k) /\ (l = 0 => node[m].next[l] = n)

(* The nodes on the levels with keys before k. *)
Front(k) == [l \in Levels |-> {m \in On(l) : node[m].data < k}]
FrontGuides == ListInv => \A n, k : Live(n) /\ node[n].data = k => Guides(n, k, Front(k))

(* They guide to k if it is in the set. *)
LEMMA FrontGuidesHolds == FrontGuides
<1> SUFFICES ASSUME ListInv, NEW n, NEW k, Live(n), node[n].data = k PROVE Guides(n, k, Front(k))
    BY DEF FrontGuides
<1>0. NodesOK /\ Chains /\ 0 \in Levels
    BY Constants DEF ListInv
<1>1. n \in DOMAIN node /\ n \in On(0) /\ Data[n] = k /\ k \in Nat
    BY <1>0, LiveFacts, OnFacts
<1>2. \A l \in Levels : \A m : m \in Front(k)[l] <=> m \in On(l) /\ node[m].data < k
    BY DEF Front
<1> SUFFICES ASSUME NEW l \in Levels, NEW m \in On(l), node[m].data < k
             PROVE  /\ Entered(m, l)
                    /\ \A i \in Levels : i < l => m \in On(i)
                    /\ \/ node[m].next[l] \in On(l) /\ node[node[m].next[l]].data < k
                       \/ ~Before(node[m].next[l], k) /\ (l = 0 => node[m].next[l] = n)
    BY <1>2 DEF Guides
<1>3. /\ Entered(m, l) /\ m \in DOMAIN node /\ Ptrs(l)[m] = node[m].next[l] /\ Data[m] = node[m].data
      /\ node[m].data \in Nat
    BY <1>0, OnFacts
<1>4. ASSUME NEW i \in Levels, i < l PROVE m \in On(i)
    BY <1>4, OnBelow, Constants
<1>5. KeyChain(On(l), head_, tail_, Ptrs(l), Data)
    BY <1>0 DEF Chains
<1> PICK o : o = node[m].next[l]
    OBVIOUS
<1>6. o \in On(l) \/ o = tail_
    BY <1>3, <1>5 DEF KeyChain
<1>7. CASE o \in On(l) /\ node[o].data < k
    BY <1>3, <1>4, <1>7
<1>8. CASE ~(o \in On(l) /\ node[o].data < k)
    <2>1. ~Before(o, k)
        BY <1>6, <1>8 DEF Before
    <2>2. ASSUME l = 0 PROVE o = n
        <3>1. Data[m] < Data[n]
            BY <1>1, <1>3
        <3>2. o # tail_ /\ Data[o] <= Data[n]
            BY <1>1, <1>3, <1>5, <2>2, <3>1 DEF KeyChain
        <3>3. o \in On(0) /\ Data[o] = node[o].data /\ node[o].data \in Nat
            BY <1>0, <1>6, <2>2, <3>2, OnFacts
        <3>4. Data[o] = Data[n]
            BY <1>1, <1>8, <2>2, <3>2, <3>3
        <3> QED BY <1>1, <1>5, <2>2, <3>3, <3>4 DEF KeyChain
    <2> QED BY <1>3, <1>4, <2>1, <2>2
<1> QED BY <1>7, <1>8

(* They do in the next state. *)
LEMMA NextFrontGuides == FrontGuides'
BY FrontGuidesHolds, PTL

(* A node stays in the set as long as its key does. *)
LEMMA LiveKept ==
    ASSUME ListInv, NEW t \in Threads, Step(t), NEW n, Live(n), node[n].data \in Members'
    PROVE  Live(n)' /\ node'[n].data = node[n].data
<1>1. \/ SameLive
      \/ Enters(t, th[t].node)
      \/ Leaves(t, th[t].node)
    BY SetStep
<1>2. CASE SameLive \/ Enters(t, th[t].node)
    BY <1>2 DEF SameLive, Enters, SameData
<1>3. CASE Leaves(t, th[t].node)
    <2>1. Members' = Members \ {th[t].key}
        BY <1>3, MembersStep
    <2> QED BY <1>3, <2>1 DEF Leaves, SameData
<1> QED BY <1>1, <1>2, <1>3

(* A linked node that is not marked is on its level. *)
UnmarkedStays == ListInv => \A l \in Levels : \A n : Entered(n, l) /\ ~node[n].marked => n \in On(l)

(* So it is after a step. *)
LEMMA NextUnmarkedOn == UnmarkedStays'
<1>1. UnmarkedStays
    BY UnmarkedOn DEF UnmarkedStays
<1> QED BY <1>1, PTL

(* What guides a search still guides it after a step, and the nodes on the *)
(* levels join it.                                                         *)
LEMMA GuidesStep ==
    ASSUME ListInv, ListInv', NEW t \in Threads, Step(t), NEW n, NEW k, NEW S, Guides(n, k, S), k \in Members'
    PROVE  \E T : Guides(n, k, T)' /\ \A l \in Levels : S[l] \subseteq T[l]
<1>0. NodesOK /\ Forward
    BY DEF ListInv
<1>1. Live(n) /\ node[n].data = k
    BY DEF Guides
<1>2. Live(n)' /\ node'[n].data = k
    BY <1>1, LiveKept
<1>3. Guides(n, k, Front(k))'
    BY <1>2, NextFrontGuides DEF FrontGuides
<1> PICK F : F = Front(k)'
    OBVIOUS
<1>4. \A l \in Levels : \A m : m \in F[l] <=> m \in On(l)' /\ node'[m].data < k
    BY DEF Front
<1>5. ASSUME NEW l \in Levels, NEW m \in F[l]
      PROVE  /\ Entered(m, l)' /\ node'[m].data < k
             /\ \A i \in Levels : i < l => m \in F[i]
             /\ \/ node'[m].next[l] \in F[l]
                \/ (node'[m].next[l] = tail_ \/ ~(node'[node'[m].next[l]].data < k)) /\ (l = 0 => node'[m].next[l] = n)
    BY <1>3 DEF Guides, Before
<1> DEFINE T == [l \in Levels |-> S[l] \cup F[l]]
<1>6. ASSUME NEW l \in Levels, NEW m \in S[l]
      PROVE  /\ Entered(m, l)' /\ node'[m].data < k
             /\ \A i \in Levels : i < l => m \in S[i]
             /\ \/ node'[m].next[l] \in S[l]
                \/ (node'[m].next[l] = tail_ \/ ~(node'[node'[m].next[l]].data < k)) /\ (l = 0 => node'[m].next[l] = n)
                \/ m \in F[l]
    <2>1. /\ Entered(m, l) /\ node[m].data < k
          /\ \A i \in Levels : i < l => m \in S[i]
          /\ \/ node[m].next[l] \in S[l]
             \/ ~Before(node[m].next[l], k) /\ (l = 0 => node[m].next[l] = n)
        BY <1>6 DEF Guides
    <2>2. /\ Entered(m, l)' /\ node'[m].data = node[m].data
          /\ node'[m].next[l] = node[m].next[l] \/ ~node'[m].marked
        BY <2>1, Kept
    <2>3. CASE ~node'[m].marked
        <3>1. m \in On(l)'
            BY <2>2, <2>3, NextUnmarkedOn DEF UnmarkedStays
        <3> QED BY <1>4, <2>1, <2>2, <3>1
    <2>4. CASE node'[m].next[l] = node[m].next[l]
        <3> PICK o : o = node[m].next[l]
            OBVIOUS
        <3>1. o # tail_ => Entered(o, l)
            BY <1>0, <2>1, ForwardFacts
        <3>2. o # tail_ => node'[o].data = node[o].data
            BY <3>1, Kept
        <3> QED BY <2>1, <2>2, <2>4, <3>2 DEF Before
    <2> QED BY <2>2, <2>3, <2>4
<1>7. \A l \in Levels : \A m : m \in T[l] <=> m \in S[l] \/ m \in F[l]
    OBVIOUS
<1> HIDE DEF T
<1>8. ASSUME NEW l \in Levels, NEW m \in T[l]
      PROVE  /\ Entered(m, l)' /\ node'[m].data < k
             /\ \A i \in Levels : i < l => m \in T[i]
             /\ \/ node'[m].next[l] \in T[l]
                \/ (node'[m].next[l] = tail_ \/ ~(node'[node'[m].next[l]].data < k)) /\ (l = 0 => node'[m].next[l] = n)
    <2>1. CASE m \in F[l]
        BY <1>5, <1>7, <2>1
    <2>2. CASE m \in S[l] /\ m \notin F[l]
        BY <1>6, <1>7, <2>2
    <2> QED BY <1>7, <1>8, <2>1, <2>2
<1>9. Guides(n, k, T)'
    BY <1>2, <1>8 DEF Guides, Before
<1>10. \A l \in Levels : S[l] \subseteq T[l]
    BY <1>7
<1> QED BY <1>9, <1>10

-----------------------------------------------------------------------------
(* Answers that leave the set as it is *)

(* What a step adds to the history. *)
NextSeen == seen' = [t \in Threads |-> IF th'[t].pc = "idle" THEN {}
                                       ELSE seen[t] \cup {th'[t].key \in Members'}]

AnswersTrue(t) ==
    /\ (th[t].op = "contains" /\ th[t].result = "true")
           \/ (th[t].op = "insert" /\ th[t].result = "false") => TRUE \in seen[t]
    /\ th[t].op \in {"contains", "erase"} /\ th[t].result = "false" => FALSE \in seen[t]

(* The history of a call has the present state in it; an insert that waits *)
(* for an equal node has seen the key once that node is fully linked; and  *)
(* if the key has been in the set since the call, then a search is guided  *)
(* to the node with the key, and has found it at the end.                  *)
Sight(t) ==
    /\ AnswersTrue(t)
    /\ th[t].pc # "idle" /\ th[t].key \in Members => TRUE \in seen[t]
    /\ th[t].pc # "idle" /\ th[t].key \notin Members => FALSE \in seen[t]
    /\ th[t].pc = "await" /\ node[th[t].succs[0]].fully_linked => TRUE \in seen[t]
    /\ th[t].pc = "find" /\ th[t].op # "insert" /\ FALSE \notin seen[t] =>
           \E n, S : Guides(n, th[t].key, S) /\ th[t].pred \in S[th[t].level]
    /\ th[t].pc \in {"check", "mark"} /\ FALSE \notin seen[t] => Live(th[t].node)

(* What a thread has seen is not forgotten before it returns. *)
LEMMA SeenGrows ==
    ASSUME NextSeen, NEW t \in Threads, th'[t].pc # "idle"
    PROVE  /\ \A b \in seen[t] : b \in seen'[t]
           /\ th'[t].key \in Members' => TRUE \in seen'[t]
           /\ th'[t].key \notin Members' => FALSE \in seen'[t]
<1>1. seen'[t] = seen[t] \cup {th'[t].key \in Members'}
    BY Zenon DEF NextSeen
<1>2. th'[t].key \in Members' => (th'[t].key \in Members') = TRUE
    OBVIOUS
<1>3. th'[t].key \notin Members' => (th'[t].key \in Members') = FALSE
    OBVIOUS
<1> QED BY <1>1, <1>2, <1>3, Zenon

(* Outside of a search there is little to see. *)
LEMMA PlainSight ==
    ASSUME NextSeen, NEW t \in Threads, AnswersTrue(t)', th'[t].pc \notin {"await", "check", "mark"},
           th'[t].pc # "find" \/ th'[t].op = "insert"
    PROVE  Sight(t)'
BY SeenGrows DEF Sight

(* A search that begins at the head is guided. *)
LEMMA HeadSight ==
    ASSUME ListInv', NextSeen, NEW t \in Threads, AtHead(t), NEW k \in Keys, th'[t].key = k, FALSE \notin seen'[t]
    PROVE  \E n, S : Guides(n, k, S)' /\ th'[t].pred \in S[th'[t].level]
<1>1. k \in Members' /\ th'[t].pc = "find" /\ th'[t].level = max_level /\ th'[t].pred = head_
    <2>1. th'[t].pc = "find" /\ th'[t].level = max_level /\ th'[t].pred = head_
        BY DEF AtHead
    <2>2. th'[t].key \notin Members' => FALSE \in seen'[t]
        BY <2>1, SeenGrows
    <2> QED BY <2>1, <2>2
<1>2. PICK n : Live(n)' /\ node'[n].data = k
    BY <1>1, MembersAre
<1>3. Guides(n, k, Front(k))'
    BY <1>2, NextFrontGuides DEF FrontGuides
<1>4. NodesOK' /\ Chains' /\ max_level \in Levels
    BY Constants DEF ListInv
<1>5. head_ \in On(max_level)'
    BY <1>4 DEF Chains, KeyChain
<1>6. node'[head_].data < k
    BY <1>4, KeysAssumption DEF NodesOK
<1>7. head_ \in Front(k)'[max_level]
    BY <1>4, <1>5, <1>6 DEF Front
<1> PICK S : S = Front(k)'
    OBVIOUS
<1>8. Guides(n, k, S)' /\ th'[t].pred \in S[th'[t].level]
    BY <1>1, <1>3, <1>7
<1> QED BY <1>8

(* The other threads see what a step does. *)
LEMMA OtherSight ==
    ASSUME ListInv, ListInv', NextSeen, NEW t \in Threads, Step(t), NEW u \in Threads, u # t, Sight(u)
    PROVE  Sight(u)'
<1>0. NodesOK /\ ThreadsOK /\ Control(u) /\ Found(u) /\ Chosen(u) /\ 0 \in Levels
    BY Constants DEF ListInv, Place
<1> PICK r : r = th[u]
    OBVIOUS
<1>1. th'[u] = r
    BY SetStep DEF Others
<1>2. CASE r.pc = "idle"
    <2>1. r.op = "none"
        BY <1>0, <1>2 DEF Control, Idle
    <2>2. AnswersTrue(u)'
        BY <1>1, <2>1 DEF AnswersTrue
    <2> QED BY <1>1, <1>2, <2>2, PlainSight
<1>3. CASE r.pc # "idle"
    <2>1. /\ \A b \in seen[u] : b \in seen'[u]
          /\ r.key \in Members' => TRUE \in seen'[u]
          /\ r.key \notin Members' => FALSE \in seen'[u]
        BY <1>1, <1>3, SeenGrows
    <2>2. AnswersTrue(u)'
        BY <1>1, <2>1 DEF Sight, AnswersTrue
    <2>3. ASSUME r.pc = "await", node'[r.succs[0]].fully_linked PROVE TRUE \in seen'[u]
        <3> PICK m : m = r.succs[0]
            OBVIOUS
        <3>1. Entered(m, 0) /\ node[m].data = r.key
            BY <1>0, <2>3, NotedFacts DEF Found, Inserting
        <3>2. /\ Entered(m, 0)' /\ node'[m].data = r.key
              /\ node'[m].fully_linked => node[m].fully_linked \/ ~node'[m].marked
            BY <1>0, <3>1, Kept
        <3>3. CASE node[m].fully_linked
            BY <2>1, <2>3, <3>3 DEF Sight
        <3>4. CASE ~node[m].fully_linked
            <4>1. m \in DOMAIN node'
                BY <1>0, <3>2, NextEnteredFacts DEF ListInv
            <4>2. Live(m)'
                BY <2>3, <3>2, <3>4, <4>1 DEF Live
            <4>3. r.key \in Members'
                BY <3>2, <4>2, MembersAre
            <4> QED BY <2>1, <4>3
        <3> QED BY <3>3, <3>4
    <2>4. ASSUME FALSE \notin seen'[u] PROVE FALSE \notin seen[u] /\ r.key \in Members'
        BY <2>1, <2>4
    <2>5. ASSUME r.pc = "find", r.op # "insert", FALSE \notin seen'[u]
          PROVE  \E n, S : Guides(n, r.key, S)' /\ r.pred \in S[r.level]
        <3>1. PICK n, S : Guides(n, r.key, S) /\ r.pred \in S[r.level]
            BY <2>4, <2>5 DEF Sight
        <3>2. PICK T : Guides(n, r.key, T)' /\ \A l \in Levels : S[l] \subseteq T[l]
            BY <2>4, <2>5, <3>1, GuidesStep
        <3>3. r.level \in Levels
            BY <1>0, ThreadFacts
        <3> QED BY <3>1, <3>2, <3>3
    <2>6. ASSUME r.pc \in {"check", "mark"}, FALSE \notin seen'[u] PROVE Live(r.node)'
        <3> PICK m : m = r.node
            OBVIOUS
        <3>1. Live(m) /\ node[m].data = r.key
            BY <1>0, <2>4, <2>6 DEF Sight, Chosen
        <3> QED BY <2>4, <2>6, <3>1, LiveKept
    <2> QED BY <1>1, <2>1, <2>2, <2>3, <2>5, <2>6 DEF Sight
<1> QED BY <1>2, <1>3

(* Where the end of a guided search stands. *)
LEMMA GuidedEnd ==
    ASSUME ListInv, NEW t \in Threads, th[t].pc = "find", th[t].level = 0, ~Before(Curr(t), th[t].key),
           NEW n, NEW S, Guides(n, th[t].key, S), th[t].pred \in S[th[t].level]
    PROVE  Curr(t) = n /\ Live(n) /\ node[n].data = th[t].key
<1>0. NodesOK /\ 0 \in Levels
    BY Constants DEF ListInv
<1>1. Curr(t) \in S[0] \/ Curr(t) = n
    BY <1>0 DEF Guides, Curr
<1>2. ASSUME Curr(t) \in S[0] PROVE FALSE
    <2>1. Entered(Curr(t), 0) /\ node[Curr(t)].data < th[t].key
        BY <1>0, <1>2 DEF Guides
    <2>2. Curr(t) # tail_
        BY <1>0, <2>1, EnteredFacts
    <2> QED BY <2>1, <2>2 DEF Before
<1> QED BY <1>1, <1>2 DEF Guides

(* find goes on, and stays guided. *)
LEMMA FindSight ==
    ASSUME ListInv, ListInv', NextSeen, NEW t \in Threads, Step(t), Sight(t), FindAdvances(t) \/ FindDescends(t)
    PROVE  Sight(t)'
<1>0. NodesOK /\ ThreadsOK /\ Forward /\ Control(t) /\ Searches(t)
    BY DEF ListInv, Place
<1>1. /\ th[t].pc = "find" /\ th'[t].pc = "find" /\ SameCall(t)
      /\ \/ Before(Curr(t), th[t].key) /\ th'[t].pred = Curr(t) /\ th'[t].level = th[t].level
         \/ th[t].level > 0 /\ th'[t].level = th[t].level - 1 /\ th'[t].pred = th[t].pred
    BY <1>0, FindTurn
<1> PICK k : k = th[t].key
    OBVIOUS
<1>2. th'[t].key = k /\ th'[t].op = th[t].op /\ th'[t].result = "none" /\ th[t].result = "none"
    BY <1>0, <1>1 DEF SameCall, Control
<1>3. /\ \A b \in seen[t] : b \in seen'[t]
      /\ k \in Members' => TRUE \in seen'[t]
      /\ k \notin Members' => FALSE \in seen'[t]
    BY <1>1, <1>2, SeenGrows
<1>4. AnswersTrue(t)'
    BY <1>2 DEF AnswersTrue
<1>5. ASSUME th'[t].op # "insert", FALSE \notin seen'[t]
      PROVE  \E n, S : Guides(n, k, S)' /\ th'[t].pred \in S[th'[t].level]
    <2>1. FALSE \notin seen[t] /\ k \in Members'
        BY <1>3, <1>5
    <2>2. PICK n, S : Guides(n, k, S) /\ th[t].pred \in S[th[t].level]
        BY <1>1, <1>2, <1>5, <2>1 DEF Sight
    <2>3. PICK T : Guides(n, k, T)' /\ \A l \in Levels : S[l] \subseteq T[l]
        BY <2>1, <2>2, GuidesStep
    <2>4. th[t].level \in Levels /\ th'[t].level \in Levels /\ th[t].level \in Nat
        BY <1>0, <1>1, ThreadFacts, Constants DEF Levels
    <2>5. th'[t].pred \in S[th'[t].level]
        <3>1. CASE Before(Curr(t), k) /\ th'[t].pred = Curr(t) /\ th'[t].level = th[t].level
            BY <2>2, <2>4, <3>1 DEF Guides, Curr
        <3>2. CASE th[t].level > 0 /\ th'[t].level = th[t].level - 1 /\ th'[t].pred = th[t].pred
            <4>1. th'[t].level < th[t].level
                BY <2>4, <3>2
            <4> QED BY <2>2, <2>4, <3>2, <4>1 DEF Guides
        <3> QED BY <1>1, <3>1, <3>2
    <2> QED BY <2>3, <2>4, <2>5
<1> QED BY <1>1, <1>2, <1>3, <1>4, <1>5 DEF Sight

(* A search that has been guided ends at the node with the key: one that   *)
(* ends elsewhere has seen the set without it.                             *)
LEMMA FindEndsSight ==
    ASSUME ListInv, ListInv', NextSeen, NEW t \in Threads, Sight(t), FindEnds(t)
    PROVE  Sight(t)'
<1>0. NodesOK /\ ThreadsOK /\ Forward /\ Hands /\ Control(t) /\ Searches(t)
    BY DEF ListInv, Place
<1>1. th[t].pc = "find" /\ th[t].result = "none"
    BY <1>0 DEF FindEnds, At, Control
<1>2. th[t].op = "insert" => th[t].node \in DOMAIN node
    BY <1>0, <1>1, OwnNode
<1>3. /\ th[t].level = 0 /\ ~Before(Curr(t), th[t].key)
      /\ FindsFree(t) \/ FindsEqual(t) \/ FindsIt(t) \/ FindsNothing(t)
    BY <1>0, <1>2, FindEndsTurn
<1>4. CASE FindsFree(t) \/ FindsEqual(t)
    <2>1. th'[t].pc \in {"lock", "found"} /\ th'[t].op = "insert" /\ th'[t].result = "none"
        BY <1>1, <1>4 DEF FindsFree, FindsEqual, SameCall
    <2>2. AnswersTrue(t)'
        BY <2>1 DEF AnswersTrue
    <2> QED BY <2>1, <2>2, PlainSight
<1>5. ASSUME th[t].op # "insert", FALSE \notin seen[t]
      PROVE  Live(Curr(t)) /\ node[Curr(t)].data = th[t].key
    <2>1. PICK n, S : Guides(n, th[t].key, S) /\ th[t].pred \in S[th[t].level]
        BY <1>1, <1>5 DEF Sight
    <2> QED BY <1>1, <1>3, <2>1, GuidedEnd
<1>6. CASE FindsIt(t)
    <2>1. /\ th[t].op # "insert" /\ th'[t].pc = "check" /\ th'[t].op = th[t].op /\ th'[t].result = "none"
          /\ th'[t].node = Curr(t) /\ node' = node
        BY <1>1, <1>6 DEF FindsIt
    <2>2. /\ \A b \in seen[t] : b \in seen'[t]
          /\ th'[t].key \in Members' => TRUE \in seen'[t]
          /\ th'[t].key \notin Members' => FALSE \in seen'[t]
        BY <2>1, SeenGrows
    <2>3. AnswersTrue(t)'
        BY <2>1 DEF AnswersTrue
    <2> PICK m : m = Curr(t)
        OBVIOUS
    <2>4. FALSE \notin seen'[t] => Live(m)'
        BY <1>5, <2>1, <2>2 DEF Live
    <2> QED BY <2>1, <2>2, <2>3, <2>4 DEF Sight
<1>7. CASE FindsNothing(t)
    <2>1. /\ th[t].op # "insert" /\ th'[t].pc = "done" /\ th'[t].op = th[t].op /\ th'[t].result = "false"
          /\ Curr(t) = tail_ \/ th[t].key < node[Curr(t)].data
        BY <1>7 DEF FindsNothing, Answers
    <2>2. \A b \in seen[t] : b \in seen'[t]
        BY <2>1, SeenGrows
    <2>3. FALSE \in seen[t]
        <3> SUFFICES ASSUME FALSE \notin seen[t] PROVE FALSE
            OBVIOUS
        <3>1. Live(Curr(t)) /\ node[Curr(t)].data = th[t].key
            BY <1>5, <2>1
        <3>2. Curr(t) # tail_
            BY <3>1, LiveFacts
        <3>3. th[t].key \in Nat
            BY <1>0, ThreadFacts
        <3> QED BY <2>1, <3>1, <3>2, <3>3
    <2>4. AnswersTrue(t)'
        BY <2>1, <2>2, <2>3 DEF AnswersTrue
    <2> QED BY <2>1, <2>4, PlainSight
<1> QED BY <1>3, <1>4, <1>6, <1>7

(* insert has met an equal node, and waits for it; in the end it says that *)
(* the key was in the set.                                                 *)
LEMMA InsertSight ==
    ASSUME ListInv, ListInv', NextSeen, NEW t \in Threads, Sight(t), InsertFound(t) \/ InsertFails(t)
    PROVE  Sight(t)'
<1>0. NodesOK /\ ThreadsOK /\ Control(t) /\ Found(t) /\ 0 \in Levels
    BY Constants DEF ListInv, Place
<1>1. CASE InsertFound(t)
    <2>1. /\ node' = node /\ th[t].pc = "found" /\ SameCall(t)
          /\ \/ AtHead(t)
             \/ ~node[th[t].succs[0]].marked /\ th'[t].pc = "await" /\ SameNotes(t)
        BY <1>1, InsertFoundTurn
    <2>2. th[t].op = "insert" /\ th[t].result = "none" /\ th'[t].op = "insert" /\ th'[t].result = "none"
          /\ th'[t].key = th[t].key
        BY <1>0, <2>1 DEF Control, Inserting, SameCall
    <2>3. AnswersTrue(t)'
        BY <2>2 DEF AnswersTrue
    <2>4. CASE AtHead(t)
        BY <2>2, <2>3, <2>4, PlainSight DEF AtHead
    <2>5. CASE ~node[th[t].succs[0]].marked /\ th'[t].pc = "await" /\ SameNotes(t)
        <3> PICK m : m = th[t].succs[0]
            OBVIOUS
        <3>1. m \in DOMAIN node /\ node[m].data = th[t].key
            BY <1>0, <2>1, NotedFacts DEF Found, Inserting
        <3>2. /\ \A b \in seen[t] : b \in seen'[t]
              /\ th'[t].key \in Members' => TRUE \in seen'[t]
              /\ th'[t].key \notin Members' => FALSE \in seen'[t]
            BY <2>5, SeenGrows
        <3>3. ASSUME node'[m].fully_linked PROVE TRUE \in seen'[t]
            <4>1. Live(m)
                BY <2>1, <2>5, <3>1, <3>3 DEF Live
            <4>2. th[t].key \in Members
                BY <3>1, <4>1, MembersAre
            <4> QED BY <2>1, <3>2, <4>2 DEF Sight
        <3>4. th'[t].succs[0] = m
            BY <2>5 DEF SameNotes
        <3> QED BY <2>2, <2>3, <2>5, <3>2, <3>3, <3>4 DEF Sight
    <2> QED BY <2>1, <2>4, <2>5
<1>2. CASE InsertFails(t)
    <2>1. th[t].pc = "await" /\ Answers(t, "false") /\ node[th[t].succs[0]].fully_linked
        BY <1>2, InsertFailsTurn
    <2>2. th'[t].pc = "done" /\ th'[t].op = "insert" /\ th'[t].result = "false"
        BY <1>0, <2>1 DEF Answers, Control, Inserting
    <2>3. \A b \in seen[t] : b \in seen'[t]
        BY <2>2, SeenGrows
    <2>4. AnswersTrue(t)'
        BY <2>1, <2>2, <2>3 DEF Sight, AnswersTrue
    <2> QED BY <2>2, <2>4, PlainSight
<1> QED BY <1>1, <1>2

(* contains and erase look at the node they have found. *)
LEMMA ChecksSight ==
    ASSUME ListInv, ListInv', NextSeen, NEW t \in Threads, Sight(t), ContainsChecks(t) \/ EraseChecks(t)
    PROVE  Sight(t)'
<1>0. NodesOK /\ ThreadsOK /\ Control(t) /\ Chosen(t) /\ 0 \in Levels
    BY Constants DEF ListInv, Place
<1> PICK m : m = th[t].node
    OBVIOUS
<1>1. /\ node' = node /\ th[t].pc = "check"
      /\ \/ th[t].op = "contains" /\ node[m].fully_linked /\ ~node[m].marked /\ Answers(t, "true")
         \/ ~(node[m].fully_linked /\ ~node[m].marked) /\ Answers(t, "false")
         \/ th[t].op = "erase" /\ AtHead(t) /\ th'[t].op = th[t].op /\ th'[t].key = th[t].key
            /\ th'[t].result = th[t].result
         \/ node[m].fully_linked /\ ~node[m].marked /\ th'[t].pc = "mark" /\ SameCall(t)
    BY ChecksTurn
<1>2. /\ th[t].op \in {"erase", "contains"} /\ th[t].result = "none" /\ th[t].key \in Keys
      /\ m \in DOMAIN node /\ node[m].data = th[t].key
    BY <1>0, <1>1, EnteredFacts DEF Control, Chosen
<1>3. Live(m) <=> node[m].fully_linked /\ ~node[m].marked
    BY <1>2 DEF Live
<1>4. CASE th[t].op = "contains" /\ Live(m) /\ Answers(t, "true")
    <2>1. th[t].key \in Members
        BY <1>2, <1>4, MembersAre
    <2>2. th'[t].pc = "done" /\ th'[t].op = "contains" /\ th'[t].result = "true"
        BY <1>4 DEF Answers
    <2>3. TRUE \in seen'[t]
        BY <1>1, <2>1, <2>2, SeenGrows DEF Sight
    <2>4. AnswersTrue(t)'
        BY <2>2, <2>3 DEF AnswersTrue
    <2> QED BY <2>2, <2>4, PlainSight
<1>5. CASE ~Live(m) /\ Answers(t, "false")
    <2>1. th'[t].pc = "done" /\ th'[t].op = th[t].op /\ th'[t].result = "false"
        BY <1>5 DEF Answers
    <2>2. FALSE \in seen'[t]
        BY <1>1, <1>5, <2>1, SeenGrows DEF Sight
    <2>3. AnswersTrue(t)'
        BY <1>2, <2>1, <2>2 DEF AnswersTrue
    <2> QED BY <2>1, <2>3, PlainSight
<1>6. CASE AtHead(t) /\ th'[t].op = th[t].op /\ th'[t].key = th[t].key /\ th'[t].result = th[t].result
    <2> PICK k : k = th[t].key
        OBVIOUS
    <2>1. th'[t].pc = "find" /\ th'[t].key = k /\ k \in Keys /\ th'[t].result = "none"
        BY <1>2, <1>6 DEF AtHead
    <2>2. /\ th'[t].key \in Members' => TRUE \in seen'[t]
          /\ th'[t].key \notin Members' => FALSE \in seen'[t]
        BY <2>1, SeenGrows
    <2>3. AnswersTrue(t)'
        BY <2>1 DEF AnswersTrue
    <2>4. FALSE \notin seen'[t] => \E n, S : Guides(n, k, S)' /\ th'[t].pred \in S[th'[t].level]
        BY <1>6, <2>1, HeadSight
    <2> QED BY <2>1, <2>2, <2>3, <2>4 DEF Sight
<1>7. CASE Live(m) /\ th'[t].pc = "mark" /\ SameCall(t)
    <2>1. th'[t].node = m /\ th'[t].result = "none"
        BY <1>2, <1>7 DEF SameCall
    <2>2. /\ th'[t].key \in Members' => TRUE \in seen'[t]
          /\ th'[t].key \notin Members' => FALSE \in seen'[t]
        BY <1>7, SeenGrows
    <2>3. AnswersTrue(t)'
        BY <2>1 DEF AnswersTrue
    <2>4. Live(m)'
        BY <1>1, <1>7 DEF Live
    <2> QED BY <1>7, <2>1, <2>2, <2>3, <2>4 DEF Sight
<1> QED BY <1>1, <1>3, <1>4, <1>5, <1>6, <1>7

(* A thread sees what its own step does. *)
LEMMA OwnSight ==
    ASSUME ListInv, ListInv', NextSeen, NEW t \in Threads, Step(t), Sight(t)
    PROVE  Sight(t)'
<1>0. NodesOK /\ ThreadsOK /\ Control(t) /\ 0 \in Levels
    BY Constants DEF ListInv, Place
<1>1. ASSUME NEW op \in {"insert", "erase", "contains"}, NEW k \in Keys, Call(t, op, k)
      PROVE  Sight(t)'
    <2>1. AtHead(t) /\ th'[t].op = op /\ th'[t].key = k /\ th'[t].result = "none" /\ th'[t].pc = "find"
        BY <1>0, <1>1, CallTurn DEF AtHead
    <2>2. AnswersTrue(t)'
        BY <2>1 DEF AnswersTrue
    <2>3. /\ th'[t].key \in Members' => TRUE \in seen'[t]
          /\ th'[t].key \notin Members' => FALSE \in seen'[t]
        BY <2>1, SeenGrows
    <2>4. FALSE \notin seen'[t] => \E n, S : Guides(n, k, S)' /\ th'[t].pred \in S[th'[t].level]
        BY <2>1, HeadSight
    <2> QED BY <2>1, <2>2, <2>3, <2>4 DEF Sight
<1>2. CASE Empty(t) \/ Return(t)
    <2>1. th'[t].pc \in {"done", "idle"} /\ th'[t].op \in {"empty", "none"}
        BY <1>0, <1>2, OtherTurns DEF Idle
    <2>2. AnswersTrue(t)'
        BY <2>1 DEF AnswersTrue
    <2> QED BY <2>1, <2>2, PlainSight
<1>3. CASE FindAdvances(t) \/ FindDescends(t)
    BY <1>3, FindSight
<1>4. CASE FindEnds(t)
    BY <1>4, FindEndsSight
<1>5. CASE InsertFound(t) \/ InsertFails(t)
    BY <1>5, InsertSight
<1>6. ASSUME th'[t].op = "insert", th'[t].result # "false", th'[t].pc # "await",
             th'[t].pc \notin {"check", "mark"}
      PROVE  Sight(t)'
    <2>1. AnswersTrue(t)'
        BY <1>6 DEF AnswersTrue
    <2> QED BY <1>6, <2>1, PlainSight
<1>7. CASE LockPred(t)
    <2>1. th[t].pc = "lock" /\ SameCall(t) /\ th'[t].pc \in {"unlock", "lock", "link"}
        BY <1>7, LockPredTurn
    <2> QED BY <1>0, <1>6, <2>1 DEF SameCall, Control, Inserting
<1>8. CASE LinkLevel(t)
    <2>1. th[t].pc = "link" /\ SameCall(t) /\ th'[t].pc \in {"link", "linked"}
        BY <1>8, LinkLevelTurn
    <2> QED BY <1>0, <1>6, <2>1 DEF SameCall, Control, Inserting
<1>9. CASE FullyLinked(t)
    <2>1. th[t].pc = "linked" /\ th'[t].pc = "unlock" /\ th'[t].op = th[t].op /\ th'[t].result = "true"
        BY <1>9, FullyLinkedTurn
    <2> QED BY <1>0, <1>6, <2>1 DEF Control, Inserting
<1>10. CASE UnlockPreds(t)
    <2>1. /\ th[t].pc = "unlock"
          /\ Answers(t, "true") \/ (AtHead(t) /\ SameCall(t))
        BY <1>10, UnlockPredsTurn
    <2>2. th[t].op = "insert" /\ th[t].result # "false"
        BY <1>0, <2>1 DEF Control, Inserting
    <2>3. th'[t].op = "insert" /\ th'[t].result # "false" /\ th'[t].pc \in {"done", "find"}
        BY <2>1, <2>2 DEF SameCall, Answers, AtHead
    <2> QED BY <1>6, <2>3
<1>11. CASE ContainsChecks(t) \/ EraseChecks(t)
    BY <1>11, ChecksSight
<1>12. ASSUME th'[t].op = "erase", th'[t].result = "true", th'[t].pc \in {"walk", "splice", "retire", "done"}
       PROVE  Sight(t)'
    <2>1. AnswersTrue(t)'
        BY <1>12 DEF AnswersTrue
    <2> QED BY <1>12, <2>1, PlainSight
<1>13. CASE MarkVictim(t)
    <2>1. /\ th[t].pc = "mark"
          /\ (node[th[t].node].marked /\ Answers(t, "false")) \/ Marking(t)
        BY <1>13, MarkVictimTurn
    <2>2. th[t].op = "erase"
        BY <1>0, <2>1 DEF Control
    <2>3. CASE Marking(t)
        BY <1>12, <2>2, <2>3 DEF Marking, Walks
    <2>4. CASE node[th[t].node].marked /\ Answers(t, "false")
        <3>1. th'[t].pc = "done" /\ th'[t].op = "erase" /\ th'[t].result = "false"
            BY <2>2, <2>4 DEF Answers
        <3>2. ~Live(th[t].node)
            BY <2>4 DEF Live
        <3>3. FALSE \in seen'[t]
            BY <2>1, <3>1, <3>2, SeenGrows DEF Sight
        <3>4. AnswersTrue(t)'
            BY <3>1, <3>3 DEF AnswersTrue
        <3> QED BY <3>1, <3>4, PlainSight
    <2> QED BY <2>1, <2>3, <2>4
<1>14. CASE Walk(t) \/ Splice(t) \/ Retire(t)
    <2>1. th[t].pc \in {"walk", "splice", "retire"}
        BY <1>14 DEF Walk, Splice, Retire, At
    <2>2. th[t].op = "erase" /\ th[t].result = "true"
        BY <1>0, <2>1 DEF Control
    <2>3. CASE Walk(t)
        BY <1>12, <2>2, <2>3, WalkTurn DEF SameCall
    <2>4. CASE Splice(t)
        <3>1. Splices(t) \/ Walks(t, th[t].level)
            BY <2>4, SpliceTurn
        <3>2. th'[t].op = "erase" /\ th'[t].result = "true" /\ th'[t].pc \in {"walk", "retire"}
            BY <2>2, <3>1 DEF Splices, Down, Walks, SameCall
        <3> QED BY <1>12, <3>2
    <2>5. CASE Retire(t)
        BY <1>12, <2>2, <2>5, RetireTurn DEF Answers
    <2> QED BY <1>14, <2>3, <2>4, <2>5
<1> QED BY <1>1, <1>2, <1>3, <1>4, <1>5, <1>7, <1>8, <1>9, <1>10, <1>11, <1>13, <1>14 DEF Step

SightInv == \A t \in Threads : Sight(t)

(* Every step keeps it. *)
LEMMA SightStep ==
    ASSUME ListInv, ListInv', SightInv, [Next]_vars
    PROVE  SightInv'
<1>1. CASE UNCHANGED vars
    <2>1. node' = node /\ th' = th /\ seen' = seen /\ retired' = retired
        BY <1>1 DEF vars
    <2>2. Members' = Members
        BY <2>1 DEF Members
    <2>3. \A n, l : Entered(n, l)' <=> Entered(n, l)
        BY <2>1 DEF Entered, Linking
    <2>4. \A n : Live(n)' <=> Live(n)
        BY <2>1 DEF Live
    <2>5. \A n, k, S : Guides(n, k, S)' <=> Guides(n, k, S)
        BY <2>1, <2>3, <2>4 DEF Guides, Before
    <2>6. ASSUME NEW t \in Threads PROVE Sight(t)'
        <3>1. Sight(t)
            BY DEF SightInv
        <3> QED BY <2>1, <2>2, <2>4, <2>5, <3>1 DEF Sight, AnswersTrue
    <2> QED BY <2>6 DEF SightInv
<1>2. CASE Next
    <2>1. NextSeen
        BY <1>2 DEF Next, NextSeen
    <2>2. CASE Destroy
        <3> SUFFICES ASSUME NEW t \in Threads PROVE Sight(t)'
            BY DEF SightInv
        <3>1. th'[t].pc = "idle" /\ th' = th /\ Control(t)
            BY <2>2 DEF Destroy, At, ListInv, Place
        <3>2. th'[t].op = "none"
            BY <3>1 DEF Control, Idle
        <3>3. AnswersTrue(t)'
            BY <3>2 DEF AnswersTrue
        <3> QED BY <2>1, <3>1, <3>3, PlainSight
    <2>3. ASSUME NEW t \in Threads, Step(t) PROVE SightInv'
        <3>1. Sight(t)'
            BY <2>1, <2>3, OwnSight DEF SightInv
        <3>2. \A u \in Threads : u # t => Sight(u)'
            BY <2>1, <2>3, OtherSight DEF SightInv
        <3> QED BY <3>1, <3>2 DEF SightInv
    <2> QED BY <1>2, <2>2, <2>3 DEF Next
<1> QED BY <1>1, <1>2

(* "Returns false if an equal element already exists", "Returns false if   *)
(* not present" (lines 48, 120, 209): what contains and the calls that     *)
(* fail answer was true at some moment of the call, whatever find stood on *)
(* when the nodes were taken out.                                          *)
THEOREM AnswersStayTrue == Spec => []AnswersAreTrue
<1>1. Init => SightInv
    <2> SUFFICES ASSUME Init, NEW t \in Threads PROVE Sight(t)
        BY DEF SightInv
    <2>1. th[t] = Idle
        BY DEF Init
    <2>2. th[t].pc = "idle" /\ th[t].op = "none"
        BY <2>1 DEF Idle
    <2> QED BY <2>2 DEF Sight, AnswersTrue
<1>2. ListInv /\ ListInv' /\ SightInv /\ [Next]_vars => SightInv'
    BY SightStep
<1>3. SightInv => AnswersAreTrue
    BY DEF SightInv, Sight, AnswersTrue, AnswersAreTrue
<1> QED BY <1>1, <1>2, <1>3, ListInvHolds, PTL DEF Spec

=============================================================================
