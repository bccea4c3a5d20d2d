----------------------------- MODULE FifoQueue -----------------------------
(***************************************************************************)
(* What a queue shared by threads promises: a push and a pop take effect   *)
(* at one moment each, values come out in the order they went in, each to  *)
(* one caller, and a caller is told "empty" only at a moment when the      *)
(* queue is empty.                                                         *)
(***************************************************************************)
EXTENDS Naturals, Sequences

CONSTANTS
    Threads, Values,
    None,       \* no answer pending
    Empty       \* the answer that there was nothing

VARIABLES
    queue,      \* the values, oldest first
    answer      \* the answer a thread got and has not returned yet

Init ==
    /\ queue = << >>
    /\ answer = [t \in Threads |-> None]

Answer(t, a) == answer[t] = None /\ answer' = [answer EXCEPT ![t] = a]

Push(v) == queue' = Append(queue, v) /\ UNCHANGED answer

Pop(t) ==
    /\ queue # << >>
    /\ queue' = Tail(queue)
    /\ Answer(t, Head(queue))

SeeEmpty(t) ==
    /\ queue = << >>
    /\ Answer(t, Empty)
    /\ UNCHANGED queue

Return(t) ==
    /\ answer' = [answer EXCEPT ![t] = None]
    /\ UNCHANGED queue

Next ==
    \/ \E v \in Values : Push(v)
    \/ \E t \in Threads : Pop(t) \/ SeeEmpty(t) \/ Return(t)

Spec == Init /\ [][Next]_<<queue, answer>>

============================================================================
