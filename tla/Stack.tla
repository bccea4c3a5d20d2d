------------------------------- MODULE Stack -------------------------------
(***************************************************************************)
(* What lockfree_stack<T> promises its callers: push and pop take effect   *)
(* at one moment each, in last-in first-out order, and a pop returns the   *)
(* value it took off the stack.                                            *)
(***************************************************************************)
EXTENDS Naturals, Sequences

CONSTANTS Threads, Values

VARIABLES
    stack,      \* the values, top first
    taken       \* the value a thread's pop took and has not returned, 0 if none

Init ==
    /\ stack = << >>
    /\ taken = [t \in Threads |-> 0]

Push(v) ==
    /\ stack' = <<v>> \o stack
    /\ UNCHANGED taken

Pop(t) ==
    /\ taken[t] = 0
    /\ stack # << >>
    /\ stack' = Tail(stack)
    /\ taken' = [taken EXCEPT ![t] = Head(stack)]

Return(t) ==
    /\ taken' = [taken EXCEPT ![t] = 0]
    /\ UNCHANGED stack

Next ==
    \/ \E v \in Values : Push(v)
    \/ \E t \in Threads : Pop(t) \/ Return(t)

Spec == Init /\ [][Next]_<<stack, taken>>

============================================================================
