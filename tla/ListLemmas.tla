----------------------------- MODULE ListLemmas -----------------------------
(***************************************************************************)
(* What the proofs about linked lists share: induction over an interval of *)
(* numbers, stated with a set of them instead of a predicate, by which a   *)
(* walk is followed node by node, how a sequence of values changes when a  *)
(* node is linked in or taken off at an end, and lists kept in the order   *)
(* of their keys.                                                          *)
(***************************************************************************)
EXTENDS Integers, Sequences, FiniteSetTheorems, SequenceTheorems, WellFoundedInduction, TLAPS

(* A relation that contains < has its minimal numbers where < has. *)
LEMMA LeastBy ==
    ASSUME NEW R, \A p \in Nat, q \in Nat : p < q => <<p, q>> \in R,
           NEW T, T \subseteq Nat, \E m \in T : \A n \in T : <<n, m>> \notin R
    PROVE  \E m \in T : \A n \in T : m <= n
<1>1. PICK m \in T : \A n \in T : <<n, m>> \notin R
    OBVIOUS
<1>2. \A n \in T : ~ (n < m)
    BY <1>1
<1> QED BY <1>2

(* The relation < on the numbers. *)
Below == OpToRel(<, Nat)

(* Every non-empty set of numbers has a least one. *)
LEMMA Least ==
    ASSUME NEW T, T \subseteq Nat, T # {}
    PROVE  \E m \in T : \A n \in T : m <= n
<1>1. ASSUME NEW p \in Nat, NEW q \in Nat, p < q PROVE <<p, q>> \in Below
    BY <1>1, Zenon DEF Below, OpToRel
<1>2. IsWellFoundedOn(Below, Nat)
    BY NatLessThanWellFounded, Zenon DEF Below
<1>3. \E m \in T : \A n \in T : <<n, m>> \notin Below
    BY <1>2, WFMin
<1> QED BY <1>1, <1>3, LeastBy

(* A set that has an interval's first number, and with each number but the *)
(* last the next one, has them all.                                        *)
LEMMA IntervalInduction ==
    ASSUME NEW lo \in Nat, NEW hi \in Nat, NEW T,
           lo \in T, \A i \in lo..(hi - 1) : i \in T => i + 1 \in T
    PROVE  \A i \in lo..hi : i \in T
<1> SUFFICES ASSUME NEW j \in lo..hi, j \notin T PROVE FALSE
    OBVIOUS
<1> DEFINE Missing == (lo..hi) \ T
<1>1. Missing \subseteq Nat /\ Missing # {}
    OBVIOUS
<1>2. PICK m \in Missing : \A n \in Missing : m <= n
    BY <1>1, Least
<1>3. m - 1 \in lo..(hi - 1) /\ m = (m - 1) + 1
    BY <1>2
<1>4. m - 1 \in T
    BY <1>2, <1>3
<1> QED BY <1>2, <1>3, <1>4

(* Tail takes the first element off. *)
LEMMA TailByIndex ==
    ASSUME NEW V, NEW q \in Seq(V), NEW m \in Nat, Len(q) = m, q # << >>
    PROVE  [i \in 1..(m - 1) |-> q[i + 1]] = Tail(q)
<1> DEFINE r == [i \in 1..(m - 1) |-> q[i + 1]]
<1>1. m - 1 \in Nat /\ \A i \in 1..(m - 1) : i + 1 \in 1..m
    BY EmptySeq
<1>2. \A i \in 1..(m - 1) : q[i + 1] \in V
    BY <1>1, ElementOfSeq
<1>3. r \in [1..(m - 1) -> V]
    BY <1>2
<1>4. r \in Seq(V) /\ Len(r) = m - 1
    BY <1>1, <1>3
<1>5. Tail(q) \in Seq(V) /\ Len(Tail(q)) = m - 1 /\ \A i \in 1..(m - 1) : Tail(q)[i] = q[i + 1]
    BY HeadTailProperties
<1>6. \A i \in 1..(m - 1) : r[i] = Tail(q)[i]
    BY <1>5
<1> HIDE DEF r
<1>7. r = Tail(q)
    BY <1>4, <1>5, <1>6, SeqEqual
<1> QED BY <1>7 DEF r

(* Append puts one behind the last. *)
LEMMA AppendByIndex ==
    ASSUME NEW V, NEW q \in Seq(V), NEW m \in Nat, Len(q) = m, NEW v \in V
    PROVE  [i \in 1..(m + 1) |-> IF i = m + 1 THEN v ELSE q[i]] = Append(q, v)
<1> DEFINE r == [i \in 1..(m + 1) |-> IF i = m + 1 THEN v ELSE q[i]]
<1>1. \A i \in 1..(m + 1) : i # m + 1 => i \in 1..m
    OBVIOUS
<1>2. \A i \in 1..(m + 1) : r[i] \in V
    BY <1>1, ElementOfSeq
<1>3. r \in [1..(m + 1) -> V] /\ m + 1 \in Nat
    BY <1>2
<1>4. r \in Seq(V) /\ Len(r) = m + 1
    BY <1>3
<1>5. /\ Append(q, v) \in Seq(V) /\ Len(Append(q, v)) = m + 1
      /\ \A i \in 1..m : Append(q, v)[i] = q[i]
      /\ Append(q, v)[m + 1] = v
    BY AppendProperties
<1>6. \A i \in 1..(m + 1) : r[i] = Append(q, v)[i]
    BY <1>1, <1>5
<1> HIDE DEF r
<1>7. r = Append(q, v)
    BY <1>4, <1>5, <1>6, SeqEqual
<1> QED BY <1>7 DEF r

-----------------------------------------------------------------------------
(* Lists in the order of their keys *)

(* The nodes L, with pointers p and keys d, are a chain from h in the      *)
(* order of their keys; behind the last one is e.                          *)
KeyChain(L, h, e, p, d) ==
    /\ h \in L /\ d[h] = 0
    /\ \A n \in L : p[n] \in L \cup {e}
    /\ \A n \in L : p[n] # e => d[n] < d[p[n]]
    /\ \A m, n \in L : d[m] = d[n] => m = n
    /\ \A m, n \in L : d[m] < d[n] => p[m] # e /\ d[p[m]] <= d[n]

(* A chain is linked at the same nodes. *)
LEMMA SameKeyChain ==
    ASSUME NEW L, NEW h, NEW e, NEW p, NEW d, NEW q, NEW c, KeyChain(L, h, e, p, d), e \notin L,
           \A n \in L : q[n] = p[n] /\ c[n] = d[n]
    PROVE  KeyChain(L, h, e, q, c)
<1>1. /\ h \in L /\ c[h] = 0
      /\ \A n \in L : q[n] \in L \cup {e}
      /\ \A m, n \in L : c[m] = c[n] => m = n
    BY DEF KeyChain
<1>2. \A n \in L : q[n] # e => c[n] < c[q[n]]
    BY DEF KeyChain
<1>3. \A m, n \in L : c[m] < c[n] => q[m] # e /\ c[q[m]] <= c[n]
    BY DEF KeyChain
<1> QED BY <1>1, <1>2, <1>3 DEF KeyChain

(* A node is linked in behind a, where its key belongs. *)
LEMMA LinkIn ==
    ASSUME NEW L, NEW h, NEW e, NEW p, NEW d, NEW q, KeyChain(L, h, e, p, d),
           NEW a \in L, NEW o, o \notin L, o # e, e \notin L, \A n \in L \cup {o} : d[n] \in Nat,
           d[a] < d[o], p[a] # e => d[o] < d[p[a]],
           q[a] = o, q[o] = p[a], \A n \in L : n # a => q[n] = p[n]
    PROVE  KeyChain(L \cup {o}, h, e, q, d)
<1>1. h \in L \cup {o} /\ d[h] = 0 /\ \A n \in L \cup {o} : q[n] \in L \cup {o, e}
    BY DEF KeyChain
<1>2. \A n \in L \cup {o} : q[n] # e => d[n] < d[q[n]]
    BY DEF KeyChain
<1>3. ASSUME NEW n \in L
      PROVE  /\ d[n] # d[o] /\ (d[n] < d[o] => d[n] <= d[a])
             /\ d[o] < d[n] => p[a] # e /\ d[p[a]] <= d[n]
    <2>1. d[n] \in Nat /\ d[a] \in Nat /\ d[o] \in Nat
        OBVIOUS
    <2>2. d[a] < d[n] => p[a] # e /\ d[p[a]] <= d[n] /\ d[p[a]] \in Nat
        BY DEF KeyChain
    <2> QED BY <2>1, <2>2
<1>4. \A m, n \in L \cup {o} : d[m] = d[n] => m = n
    BY <1>3 DEF KeyChain
<1>5. ASSUME NEW m \in L \cup {o}, NEW n \in L \cup {o}, d[m] < d[n]
      PROVE  q[m] # e /\ d[q[m]] <= d[n]
    <2>0. d[m] \in Nat /\ d[n] \in Nat /\ d[o] \in Nat /\ d[a] \in Nat
        OBVIOUS
    <2>1. CASE m = o
        <3>1. n \in L /\ d[o] < d[n]
            BY <1>5, <2>0, <2>1
        <3> QED BY <1>3, <2>1, <3>1
    <2>2. CASE m = a
        <3>1. n = o \/ (n \in L /\ d[o] <= d[n])
            BY <1>3, <1>5, <2>0, <2>2
        <3> QED BY <2>0, <2>2, <3>1
    <2>3. CASE m # o /\ m # a
        <3>1. m \in L /\ q[m] = p[m]
            BY <2>3
        <3>2. CASE n = o
            <4>1. d[m] < d[a]
                <5>1. d[m] # d[a] /\ d[m] <= d[a]
                    BY <1>3, <1>5, <2>3, <3>1, <3>2 DEF KeyChain
                <5> QED BY <2>0, <5>1
            <4>2. p[m] # e /\ d[p[m]] <= d[a] /\ d[p[m]] \in Nat
                BY <3>1, <4>1 DEF KeyChain
            <4> QED BY <2>0, <3>1, <3>2, <4>2
        <3>3. CASE n # o
            BY <1>5, <3>1, <3>3 DEF KeyChain
        <3> QED BY <3>2, <3>3
    <2> QED BY <2>1, <2>2, <2>3
<1> QED BY <1>1, <1>2, <1>4, <1>5 DEF KeyChain

(* The node behind a is taken out. *)
LEMMA TakeOut ==
    ASSUME NEW L, NEW h, NEW e, NEW p, NEW d, NEW q, KeyChain(L, h, e, p, d),
           NEW a \in L, NEW c \in L, p[a] = c, e \notin L, \A n \in L : d[n] \in Nat,
           q[a] = p[c], \A n \in L : n # a => q[n] = p[n]
    PROVE  KeyChain(L \ {c}, h, e, q, d) /\ a # c /\ c # h /\ \A n \in L : p[n] = c => n = a
<1>1. d[a] < d[c] /\ d[a] \in Nat /\ d[c] \in Nat /\ c # e
    BY DEF KeyChain
<1>2. a # c /\ c # h
    BY <1>1 DEF KeyChain
<1>3. ASSUME NEW n \in L, p[n] = c PROVE n = a
    <2>1. d[n] < d[c] /\ d[n] \in Nat
        BY <1>1, <1>3 DEF KeyChain
    <2>2. ~ (d[n] < d[a])
        <3>1. d[n] < d[a] => d[c] <= d[a]
            BY <1>3 DEF KeyChain
        <3> QED BY <1>1, <3>1
    <2>3. ~ (d[a] < d[n])
        <3>1. d[a] < d[n] => d[c] <= d[n]
            BY DEF KeyChain
        <3> QED BY <1>1, <2>1, <3>1
    <2>4. d[n] = d[a]
        BY <1>1, <2>1, <2>2, <2>3
    <2> QED BY <2>4 DEF KeyChain
<1>4. p[c] # c /\ p[c] \in L \cup {e} /\ (p[c] # e => d[c] < d[p[c]] /\ d[p[c]] \in Nat)
    BY <1>1 DEF KeyChain
<1>5. \A n \in L \ {c} : q[n] \in (L \ {c}) \cup {e}
    BY <1>3, <1>4 DEF KeyChain
<1>6. ASSUME NEW n \in L \ {c}, q[n] # e PROVE d[n] < d[q[n]]
    <2>1. CASE n = a
        BY <1>1, <1>4, <1>6, <2>1
    <2>2. CASE n # a
        BY <1>6, <2>2 DEF KeyChain
    <2> QED BY <2>1, <2>2
<1>7. ASSUME NEW m \in L \ {c}, NEW n \in L \ {c}, d[m] < d[n]
      PROVE  q[m] # e /\ d[q[m]] <= d[n]
    <2>1. CASE m = a
        <3>1. d[c] <= d[n] /\ d[c] # d[n] /\ d[n] \in Nat
            BY <1>7, <2>1 DEF KeyChain
        <3>2. d[c] < d[n]
            BY <1>1, <3>1
        <3>3. p[c] # e /\ d[p[c]] <= d[n]
            BY <3>2 DEF KeyChain
        <3> QED BY <2>1, <3>3
    <2>2. CASE m # a
        BY <1>7, <2>2 DEF KeyChain
    <2> QED BY <2>1, <2>2
<1>8. \A m, n \in L \ {c} : d[m] = d[n] => m = n
    BY DEF KeyChain
<1>9. h \in L \ {c} /\ d[h] = 0
    BY <1>2 DEF KeyChain
<1> QED BY <1>2, <1>3, <1>5, <1>6, <1>7, <1>8, <1>9 DEF KeyChain

-----------------------------------------------------------------------------
(* The walk along a chain *)

(* f is a walk of N steps from h that stops at e. *)
Steps(f, N, h, e, p) ==
    f = [i \in 0..N |-> IF i = 0 THEN h ELSE IF f[i - 1] = e THEN e ELSE p[f[i - 1]]]

(* A walk of any length can be made: its recursive definition has a        *)
(* solution.                                                               *)
LEMMA StepsExist ==
    ASSUME NEW N \in Nat, NEW h, NEW e, NEW p
    PROVE  \E f : Steps(f, N, h, e, p)
<1> USE DEF Steps
<1> DEFINE T == {m \in 0..N : \E f : Steps(f, m, h, e, p)}
<1>1. 0 \in T
    <2>1. PICK f : f = [i \in 0..0 |-> h]
        OBVIOUS
    <2>2. Steps(f, 0, h, e, p)
        BY <2>1
    <2> QED BY <2>2
<1>2. ASSUME NEW m \in 0..(N - 1), m \in T PROVE m + 1 \in T
    <2>1. PICK f : Steps(f, m, h, e, p)
        BY <1>2
    <2>2. PICK g : g = [i \in 0..(m + 1) |-> IF i = m + 1 THEN IF f[m] = e THEN e ELSE p[f[m]]
                                             ELSE f[i]]
        OBVIOUS
    <2>3. \A i \in 0..m : i \in 0..(m + 1) /\ i # m + 1 /\ g[i] = f[i]
        BY <2>2
    <2>4. m + 1 \in 0..(m + 1) /\ g[m + 1] = IF f[m] = e THEN e ELSE p[f[m]]
        BY <2>2
    <2>5. \A i \in 0..m : f[i] = IF i = 0 THEN h ELSE IF f[i - 1] = e THEN e ELSE p[f[i - 1]]
        BY <2>1
    <2>6. ASSUME NEW i \in 0..(m + 1)
          PROVE  g[i] = IF i = 0 THEN h ELSE IF g[i - 1] = e THEN e ELSE p[g[i - 1]]
        <3>1. CASE i = m + 1
            <4>1. i # 0 /\ i - 1 = m /\ m \in 0..m
                BY <3>1
            <4>2. g[i - 1] = f[m]
                BY <2>3, <4>1
            <4> QED BY <2>4, <3>1, <4>1, <4>2
        <3>2. CASE i = 0
            <4>1. i \in 0..m
                BY <3>2
            <4> QED BY <2>3, <2>5, <3>2, <4>1
        <3>3. CASE i # m + 1 /\ i # 0
            <4>1. i \in 0..m /\ i - 1 \in 0..m
                BY <3>3
            <4>2. g[i] = f[i] /\ g[i - 1] = f[i - 1]
                BY <2>3, <4>1
            <4>3. f[i] = IF f[i - 1] = e THEN e ELSE p[f[i - 1]]
                BY <2>5, <3>3, <4>1
            <4> QED BY <3>3, <4>2, <4>3
        <3> QED BY <3>1, <3>2, <3>3
    <2>7. g = [i \in 0..(m + 1) |-> g[i]]
        BY <2>2
    <2>8. Steps(g, m + 1, h, e, p)
        BY <2>6, <2>7
    <2>9. m + 1 \in 0..N
        OBVIOUS
    <2> HIDE DEF Steps
    <2> QED BY <2>8, <2>9
<1> HIDE DEF T
<1>3. \A m \in 0..N : m \in T
    BY <1>1, <1>2, IntervalInduction
<1>4. N \in T
    BY <1>3
<1> QED BY <1>4 DEF T

(* What its definition says of a walk, step by step. *)
LEMMA StepsFollow ==
    ASSUME NEW N \in Nat, NEW h, NEW e, NEW p, NEW f, Steps(f, N, h, e, p)
    PROVE  /\ DOMAIN f = 0..N /\ f[0] = h
           /\ \A i \in 1..N : f[i] = IF f[i - 1] = e THEN e ELSE p[f[i - 1]]
<1> DEFINE F(i) == IF i = 0 THEN h ELSE IF f[i - 1] = e THEN e ELSE p[f[i - 1]]
<1>1. f = [i \in 0..N |-> F(i)]
    BY DEF Steps
<1>2. F(0) = h /\ \A i \in 1..N : F(i) = IF f[i - 1] = e THEN e ELSE p[f[i - 1]]
    OBVIOUS
<1> HIDE DEF F
<1>3. DOMAIN f = 0..N /\ \A i \in 0..N : f[i] = F(i)
    BY <1>1, Zenon
<1>4. 0 \in 0..N /\ \A i \in 1..N : i \in 0..N
    OBVIOUS
<1>5. f[0] = h
    BY <1>2, <1>3, <1>4
<1>6. \A i \in 1..N : f[i] = IF f[i - 1] = e THEN e ELSE p[f[i - 1]]
    BY <1>2, <1>3, <1>4, Zenon
<1> QED BY <1>3, <1>5, <1>6

(* Along a chain it meets nodes of the chain, upwards. *)
LEMMA StepsAscend ==
    ASSUME NEW N \in Nat, NEW L, NEW h, NEW e, NEW p, NEW d, NEW f,
           KeyChain(L, h, e, p, d), Steps(f, N, h, e, p)
    PROVE  /\ \A i \in 0..N : f[i] \in L \cup {e}
           /\ \A i \in 1..N : f[i] # e =>
                 f[i - 1] # e /\ f[i - 1] \in L /\ d[f[i - 1]] < d[f[i]]
<1> DEFINE T == {i \in 0..N : f[i] \in L \cup {e}}
<1>0. DOMAIN f = 0..N /\ f[0] = h /\ \A i \in 1..N : f[i] = IF f[i - 1] = e THEN e ELSE p[f[i - 1]]
    BY StepsFollow
<1>9. h \in L /\ \A n \in L : p[n] \in L \cup {e}
    BY DEF KeyChain
<1>1. 0 \in T
    BY <1>0, <1>9
<1>2. ASSUME NEW i \in 0..(N - 1), i \in T PROVE i + 1 \in T
    <2>1. i + 1 \in 1..N /\ i + 1 \in 0..N /\ (i + 1) - 1 = i
        OBVIOUS
    <2>2. f[i + 1] = IF f[i] = e THEN e ELSE p[f[i]]
        BY <1>0, <2>1
    <2> QED BY <1>2, <1>9, <2>1, <2>2
<1> HIDE DEF T
<1>3. \A i \in 0..N : i \in T
    BY <1>1, <1>2, IntervalInduction
<1>4. \A i \in 0..N : f[i] \in L \cup {e}
    BY <1>3 DEF T
<1>5. ASSUME NEW i \in 1..N, f[i] # e
      PROVE  f[i - 1] # e /\ f[i - 1] \in L /\ d[f[i - 1]] < d[f[i]]
    <2>1. i - 1 \in 0..N
        OBVIOUS
    <2>2. f[i - 1] # e /\ f[i - 1] \in L /\ f[i] = p[f[i - 1]]
        BY <1>0, <1>4, <1>5, <2>1
    <2> QED BY <1>5, <2>2 DEF KeyChain
<1> QED BY <1>4, <1>5

(* A walk with a step for each node comes to the end. *)
LEMMA StepsEnd ==
    ASSUME NEW N \in Nat, NEW L, NEW h, NEW e, NEW p, NEW d, NEW f,
           KeyChain(L, h, e, p, d), Steps(f, N, h, e, p), \A n \in L : d[n] \in Nat,
           NEW All, L \subseteq All, IsFiniteSet(All), Cardinality(All) <= N
    PROVE  \E i \in 0..N : f[i] = e
<1> SUFFICES ASSUME \A i \in 0..N : f[i] # e PROVE FALSE
    OBVIOUS
<1>1. \A i \in 0..N : f[i] \in L /\ d[f[i]] \in Nat
    BY StepsAscend
<1>2. ASSUME NEW i \in 1..N PROVE d[f[i - 1]] < d[f[i]]
    <2>1. i \in 0..N
        OBVIOUS
    <2> QED BY <2>1, StepsAscend
<1>3. ASSUME NEW i \in 0..N PROVE \A j \in 0..N : i < j => d[f[i]] < d[f[j]]
    <2> DEFINE U == {j \in 0..N : i < j => d[f[i]] < d[f[j]]}
    <2>1. 0 \in U
        OBVIOUS
    <2>2. ASSUME NEW j \in 0..(N - 1), j \in U PROVE j + 1 \in U
        <3>1. j + 1 \in 1..N /\ j + 1 \in 0..N /\ (j + 1) - 1 = j /\ j \in 0..N
            OBVIOUS
        <3>2. d[f[j]] < d[f[j + 1]]
            BY <1>2, <3>1
        <3>3. d[f[i]] \in Nat /\ d[f[j]] \in Nat /\ d[f[j + 1]] \in Nat
            BY <1>1, <3>1
        <3>4. CASE i < j
            BY <2>2, <3>1, <3>2, <3>3, <3>4
        <3>5. CASE i = j
            BY <3>1, <3>2, <3>5
        <3>6. CASE j < i
            BY <3>1, <3>6
        <3> QED BY <3>4, <3>5, <3>6
    <2> HIDE DEF U
    <2>3. \A j \in 0..N : j \in U
        BY <2>1, <2>2, IntervalInduction
    <2> QED BY <2>3 DEF U
<1>4. \A i, j \in 0..N : f[i] = f[j] => i = j
    <2> SUFFICES ASSUME NEW i \in 0..N, NEW j \in 0..N, f[i] = f[j], i # j PROVE FALSE
        OBVIOUS
    <2>1. i < j \/ j < i
        OBVIOUS
    <2>2. d[f[i]] < d[f[j]] \/ d[f[j]] < d[f[i]]
        BY <1>3, <2>1
    <2> QED BY <1>1, <2>2
<1>5. PICK g : g = [i \in 0..N |-> f[i]]
    OBVIOUS
<1>6. g \in Injection(0..N, All)
    BY <1>1, <1>4, <1>5 DEF Injection, IsInjective
<1>7. Cardinality(0..N) <= Cardinality(All) /\ Cardinality(All) \in Nat
    BY <1>6, FS_Injection, FS_CardinalityType
<1>8. Cardinality(0..N) = N - 0 + 1
    BY FS_Interval
<1> QED BY <1>7, <1>8

(* It has met all of them. *)
LEMMA StepsCover ==
    ASSUME NEW N \in Nat, NEW L, NEW h, NEW e, NEW p, NEW d, NEW f,
           KeyChain(L, h, e, p, d), Steps(f, N, h, e, p), \A n \in L : d[n] \in Nat, e \notin L,
           NEW All, L \subseteq All, IsFiniteSet(All), Cardinality(All) <= N
    PROVE  {f[i] : i \in 0..N} = L \cup {e}
<1>0. DOMAIN f = 0..N /\ f[0] = h /\ \A i \in 1..N : f[i] = IF f[i - 1] = e THEN e ELSE p[f[i - 1]]
    BY StepsFollow
<1>1. \A i \in 0..N : f[i] \in L \cup {e}
    BY StepsAscend
<1>2. \E i \in 0..N : f[i] = e
    BY StepsEnd
<1>3. ASSUME NEW n \in L, \A i \in 0..N : f[i] # n PROVE FALSE
    <2> DEFINE T == {i \in 0..N : f[i] \in L /\ d[f[i]] < d[n]}
    <2>0. h \in L /\ d[h] = 0 /\ 0 \in 0..N
        BY DEF KeyChain
    <2>1. 0 \in T
        <3>1. n # h
            BY <1>0, <1>3, <2>0
        <3>2. d[n] # 0 /\ d[n] \in Nat
            BY <2>0, <3>1 DEF KeyChain
        <3> QED BY <1>0, <2>0, <3>2
    <2>2. ASSUME NEW i \in 0..(N - 1), i \in T PROVE i + 1 \in T
        <3>1. i + 1 \in 1..N /\ i + 1 \in 0..N /\ (i + 1) - 1 = i
            OBVIOUS
        <3>2. f[i] \in L /\ d[f[i]] < d[n]
            BY <2>2
        <3>3. f[i + 1] = p[f[i]]
            BY <1>0, <3>1, <3>2
        <3>4. p[f[i]] # e /\ d[p[f[i]]] <= d[n]
            BY <3>2 DEF KeyChain
        <3>5. f[i + 1] \in L /\ f[i + 1] # n
            BY <1>1, <1>3, <3>1, <3>3, <3>4
        <3>6. d[f[i + 1]] # d[n] /\ d[f[i + 1]] \in Nat /\ d[n] \in Nat
            BY <3>5 DEF KeyChain
        <3>7. d[f[i + 1]] < d[n]
            BY <3>3, <3>4, <3>6
        <3> QED BY <3>1, <3>5, <3>7
    <2> HIDE DEF T
    <2>3. \A i \in 0..N : i \in T
        BY <2>1, <2>2, IntervalInduction
    <2>4. \A i \in 0..N : f[i] \in L
        BY <2>3 DEF T
    <2> QED BY <1>2, <2>4
<1> QED BY <1>1, <1>2, <1>3

=============================================================================
