------------------------------- MODULE KeySet -------------------------------
(***************************************************************************)
(* What lockfree_list<T> promises: a set of keys that a successful insert  *)
(* and a successful erase change at one moment each.  Each successful call *)
(* is counted, so one that reports success has changed the set once.       *)
(***************************************************************************)
EXTENDS Naturals

CONSTANTS Threads, Keys

VARIABLES
    set,        \* the keys in the set
    changed     \* the threads whose call has changed the set and not returned

Init == set \subseteq Keys /\ changed = {}

Insert(t, k) ==
    /\ t \notin changed /\ k \notin set
    /\ set' = set \cup {k}
    /\ changed' = changed \cup {t}

Erase(t, k) ==
    /\ t \notin changed /\ k \in set
    /\ set' = set \ {k}
    /\ changed' = changed \cup {t}

Return(t) ==
    /\ changed' = changed \ {t}
    /\ UNCHANGED set

Next == \E t \in Threads : Return(t) \/ \E k \in Keys : Insert(t, k) \/ Erase(t, k)

Spec == Init /\ [][Next]_<<set, changed>>

=============================================================================
