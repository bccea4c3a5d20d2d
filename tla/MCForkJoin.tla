----------------------------- MODULE MCForkJoin -----------------------------
(* One caller and a pool of two workers.  A range of three elements gives  *)
(* two submitted tasks, one of four gives three; the five-element range of *)
(* any_of a chain of three tasks that each wait for the next, more than    *)
(* there are workers; the seven elements of quick_sort reach depth 0.      *)
(* 7 makes func and pred throw, keys equal to 1 match.                     *)
EXTENDS ForkJoin

Ranges ==
    [a \in {"for_each", "transform"} |-> {<<3, 7, 2>>, <<3, 1, 2, 4>>}]
    @@ [a \in {"count_if"} |-> {<<1, 3, 7>>, <<3, 1, 11, 2>>}]
    @@ [a \in {"any_of"} |-> {<<7, 1, 3>>, <<1, 7, 3>>, <<3, 2, 4, 3, 2>>, <<3, 2, 1>>}]
    @@ [a \in {"find"} |-> {<<7, 1, 3>>, <<1, 3, 7>>, <<3, 1, 2, 1>>, <<3, 2, 4>>}]
    @@ [a \in {"merge_sort"} |-> {<<3, 1, 11, 2>>}]
    @@ [a \in {"quick_sort"} |-> {<< >>, <<6, 2, 4, 1, 11, 3, 8>>}]
    @@ [a \in Scans |-> {<<1>>, <<3, 1, 2, 4, 5>>}]
    @@ [a \in {"submit"} |-> {<< >>}]
=============================================================================
