------------------------------ MODULE ForkJoin ------------------------------
(***************************************************************************)
(* The parallel algorithms that run on the shared thread_pool, and plain   *)
(* submit calls.  for_each, transform, count_if, any_of, find, merge_sort  *)
(* and quick_sort divide: one part is submitted, the other one is done by  *)
(* a recursive call, and then the thread waits for the future and runs     *)
(* pending tasks meanwhile.  The two scans submit one task per block,      *)
(* twice, and wait for them in order.                                      *)
(*                                                                         *)
(* stack[t] is the call stack of thread t: a task that is run while a call *)
(* waits lies above that call and has to return first.  A frame has the    *)
(* call's arguments, a label, a position, a value, the task it submitted   *)
(* and whether it is a task itself (its result goes to the future).        *)
(*                                                                         *)
(* Labels: "begin"; "leaf" and "found", in the sequential loop; "inline",  *)
(* below the frame of the recursive call; "wait"; and for the scans        *)
(* "totals", "sum", "scans", "join", which submit and await in turn.       *)
(***************************************************************************)
EXTENDS ThreadPool

CONSTANTS
    Inputs,         \* for every algorithm (and "submit") the ranges the callers
                    \* may give it, sequences of numbers
    Match, Bad,     \* pred and == accept Match; func, pred and == throw on Bad
    Depth,          \* the depth of the outermost call (8)
    min_per_thread, sequential_threshold,       \* (25 and 512)
    hardware_threads    \* std::thread::hardware_concurrency()

ASSUME InputsAssumption == \A a \in DOMAIN Inputs : \A s \in Inputs[a] : s \in Seq(Nat)
ASSUME DepthAssumption == Depth \in Nat /\ min_per_thread \in Nat \ {0}

VARIABLES
    alg,        \* the algorithm of this behaviour
    input,      \* every caller's range
    data,       \* its content now: what for_each, transform (its output),
                \* merge_sort and the scans write
    done,       \* find and any_of: the flag of the call
    stack,
    outcome, value      \* what a caller's call has come to: "none",
                        \* "returned" with a value, or "threw"

job  == <<alg, input>>
vars == <<poolVars, job, data, done, stack, outcome, value>>

Dividing == {"for_each", "transform", "count_if", "any_of", "find", "merge_sort", "quick_sort"}
Scans == {"inclusive_scan", "exclusive_scan"}

(* The value of a call that has none yet, or none at all. *)
Nothing == IF alg = "any_of" THEN FALSE
           ELSE IF alg \in Scans \cup {"quick_sort"} THEN << >> ELSE 0

Frame(call, isTask) ==
    [call |-> call, label |-> "begin", pos |-> 0, value |-> Nothing, sub |-> << >>, isTask |-> isTask]

(* A scan works on a monoid that is not commutative: one-element sequences *)
(* under concatenation.                                                    *)
Cell(x) == IF alg \in Scans THEN <<x>> ELSE x

Init ==
    /\ PoolInit
    /\ alg \in DOMAIN Inputs
    /\ input \in [Callers -> Inputs[alg]]
    /\ data = [c \in Callers |-> [i \in DOMAIN input[c] |-> Cell(input[c][i])]]
    /\ done = [c \in Callers |-> FALSE]
    /\ stack = [t \in Threads |-> << >>]
    /\ outcome = [c \in Callers |-> "none"]
    /\ value = [c \in Callers |-> Nothing]

Top(t)   == Last(stack[t])
Below(t) == Front(stack[t])
Running(t, label) == stack[t] # << >> /\ mode[t] = "run" /\ Top(t).label = label
SetTop(t, frame) == stack' = [stack EXCEPT ![t] = Append(Below(t), frame)]

-----------------------------------------------------------------------------
(* Calls and returns *)

Call(c) ==
    /\ pool = "open"
    /\ outcome[c] = "none" /\ stack[c] = << >>
    /\ LET n == Len(input[c])
           root == IF alg \in Dividing \ {"quick_sort"}
                   THEN [caller |-> c, first |-> 1, last |-> n + 1, depth |-> Depth]
                   ELSE IF alg = "quick_sort"
                   THEN [caller |-> c, chunk |-> input[c], depth |-> Depth]
                   ELSE [caller |-> c, phase |-> "root", block |-> 0, carry |-> << >>]
       IN  stack' = [stack EXCEPT ![c] = <<Frame(root, FALSE)>>]
    /\ UNCHANGED <<poolVars, job, data, done, outcome, value>>

(* The top frame returns v: to a future, to the calling frame or, from the *)
(* outermost call, to the caller's program.                                *)
Return(t, v) ==
    LET f == Top(t)
        below == Below(t)
    IN  /\ IF f.isTask \/ below = << >>
           THEN stack' = [stack EXCEPT ![t] = below]
           ELSE stack' = [stack EXCEPT ![t] =
                             Append(Front(below),
                                    [Last(below) EXCEPT !.label = "wait", !.value = v])]
        /\ IF f.isTask
           THEN /\ future' = [future EXCEPT ![f.call] = Future("ready", v)]
                /\ UNCHANGED <<outcome, value>>
           ELSE /\ UNCHANGED future
                /\ IF below = << >>
                   THEN /\ outcome' = [outcome EXCEPT ![t] = "returned"]
                        /\ value' = [value EXCEPT ![t] = v]
                   ELSE UNCHANGED <<outcome, value>>

(* An exception leaves the calls down to the packaged_task that catches it *)
(* or out of the outermost call; nobody waits for what was submitted.      *)
(* parallel_find_impl sets done on the way.                                *)
Throw(t) ==
    LET tasks == {i \in DOMAIN stack[t] : stack[t][i].isTask}
        depth == IF tasks = {} THEN 1 ELSE CHOOSE i \in tasks : \A j \in tasks : j <= i
    IN  /\ stack' = [stack EXCEPT ![t] = SubSeq(@, 1, depth - 1)]
        /\ IF tasks # {}
           THEN /\ future' = [future EXCEPT ![stack[t][depth].call] = Future("threw", Nothing)]
                /\ UNCHANGED outcome
           ELSE /\ outcome' = [outcome EXCEPT ![t] = "threw"]
                /\ UNCHANGED future
        /\ done' = IF alg = "find" THEN [done EXCEPT ![Top(t).call.caller] = TRUE] ELSE done
        /\ UNCHANGED value

(* run_pending_task has got a task and calls it. *)
RunTask(t, task) ==
    /\ Take(t, task)
    /\ stack' = [stack EXCEPT ![t] = Append(@, Frame(task, TRUE))]
    /\ UNCHANGED <<job, data, done, outcome, value>>

-----------------------------------------------------------------------------
(* The sequential loops *)

Key(x) == x % 10        \* what operator< compares; the rest tells equals apart

EarlyExit == alg \in {"find", "any_of"}

(* What the loop has to say when it found nothing. *)
NotFound(f) ==
    IF alg = "find" THEN f.call.last ELSE f.value

LoopEnds(t) ==
    /\ Running(t, "leaf")
    /\ LET f == Top(t) IN
           /\ f.pos = f.call.last \/ (EarlyExit /\ done[f.call.caller])
           /\ Return(t, NotFound(f))
    /\ UNCHANGED <<queues, done_, pool, search, job, data, done>>

(* One element: func, pred or == is applied to it. *)
Visit(t) ==
    /\ Running(t, "leaf")
    /\ LET f == Top(t)
           c == f.call.caller
           x == input[c][f.pos]
       IN  /\ f.pos < f.call.last /\ ~(EarlyExit /\ done[c])
           /\ x # Bad
           /\ SetTop(t, IF EarlyExit /\ Key(x) = Match THEN [f EXCEPT !.label = "found"]
                        ELSE [f EXCEPT !.pos = @ + 1,
                                       !.value = IF alg = "count_if" /\ Key(x) = Match
                                                 THEN @ + 1 ELSE @])
           /\ data' = IF alg \in {"for_each", "transform"}
                      THEN [data EXCEPT ![c][f.pos] = @ + 100] ELSE data
    /\ UNCHANGED <<poolVars, job, done, outcome, value>>

VisitThrows(t) ==
    /\ Running(t, "leaf")
    /\ LET f == Top(t) IN
           /\ f.pos < f.call.last /\ ~(EarlyExit /\ done[f.call.caller])
           /\ input[f.call.caller][f.pos] = Bad
    /\ Throw(t)
    /\ UNCHANGED <<queues, done_, pool, search, job, data>>

(* done.store(true); return: another thread may have found one, too. *)
Found(t) ==
    /\ Running(t, "found")
    /\ done' = [done EXCEPT ![Top(t).call.caller] = TRUE]
    /\ Return(t, IF alg = "find" THEN Top(t).pos ELSE TRUE)
    /\ UNCHANGED <<queues, done_, pool, search, job, data>>

-----------------------------------------------------------------------------
(* Divide and conquer over a range *)

Ranged == alg \in Dividing \ {"quick_sort"}

Mid(c) == c.first + (c.last - c.first) \div 2
FirstHalf(c)  == [c EXCEPT !.last = Mid(c), !.depth = @ - 1]
SecondHalf(c) == [c EXCEPT !.first = Mid(c), !.depth = @ - 1]

Sequential(c) ==
    \/ c.last - c.first < IF alg = "merge_sort" THEN sequential_threshold ELSE 2 * min_per_thread
    \/ c.depth = 0

(* std::stable_sort: the element that i others precede comes i-th. *)
StableSort(s) ==
    LET before(i) == {j \in DOMAIN s : Key(s[j]) < Key(s[i]) \/ (Key(s[j]) = Key(s[i]) /\ j < i)}
    IN  [k \in DOMAIN s |-> s[CHOOSE i \in DOMAIN s : Cardinality(before(i)) = k - 1]]

(* Mutant: equal elements of the second half come first. *)
InplaceMergeUnstable(a, b) == StableSort(b \o a)

(* std::inplace_merge: what is left of a and b when i and j are taken. *)
InplaceMerge(a, b) ==
    LET rest[i \in 0..Len(a), j \in 0..Len(b)] ==
            IF i = Len(a) THEN SubSeq(b, j + 1, Len(b))
            ELSE IF j = Len(b) THEN SubSeq(a, i + 1, Len(a))
            ELSE IF Key(b[j + 1]) < Key(a[i + 1]) THEN <<b[j + 1]>> \o rest[i, j + 1]
            ELSE <<a[i + 1]>> \o rest[i + 1, j]
    IN  rest[0, 0]

Elements(c) == SubSeq(data[c.caller], c.first, c.last - 1)
(* The range's content replaced by s. *)
Overwrite(c, s) ==
    [data EXCEPT ![c.caller] = [i \in DOMAIN @ |-> IF i \in c.first..(c.last - 1)
                                                   THEN s[i - c.first + 1] ELSE @[i]]]

BeginLoop(t) ==
    /\ Running(t, "begin") /\ Ranged
    /\ Sequential(Top(t).call)
    /\ IF alg = "merge_sort"
       THEN /\ data' = Overwrite(Top(t).call, StableSort(Elements(Top(t).call)))
            /\ Return(t, Nothing)
       ELSE /\ SetTop(t, [Top(t) EXCEPT !.label = "leaf", !.pos = Top(t).call.first])
            /\ UNCHANGED <<data, future, outcome, value>>
    /\ UNCHANGED <<queues, done_, pool, search, job, done>>

(* find and any_of return at once when there is a match already. *)
GiveUp(t) ==
    /\ Running(t, "begin") /\ EarlyExit
    /\ ~Sequential(Top(t).call)
    /\ done[Top(t).call.caller]
    /\ Return(t, NotFound(Top(t)))
    /\ UNCHANGED <<queues, done_, pool, search, job, data, done>>

(* Submit one part and call the algorithm for the other one. *)
Fork(t, submitted, inline, pos) ==
    /\ Submit(t, submitted, Nothing)
    /\ stack' = [stack EXCEPT ![t] =
                    Below(t) \o <<[Top(t) EXCEPT !.label = "inline", !.sub = submitted, !.pos = pos],
                                  Frame(inline, FALSE)>>]
    /\ UNCHANGED <<done_, pool, search, job, data, done, outcome, value>>

Divide(t) ==
    /\ Running(t, "begin") /\ Ranged
    /\ LET c == Top(t).call IN
           /\ ~Sequential(c)
           /\ ~(EarlyExit /\ done[c.caller])
           /\ IF EarlyExit THEN Fork(t, SecondHalf(c), FirstHalf(c), 0)
                           ELSE Fork(t, FirstHalf(c), SecondHalf(c), 0)

-----------------------------------------------------------------------------
(* sorter<T>::do_sort on a list.  The pivot is the first element; which    *)
(* one comes first in a chunk that std::partition has left is unspecified. *)

SortChunk(t) ==
    /\ Running(t, "begin") /\ alg = "quick_sort"
    /\ LET c == Top(t).call IN
           \/ /\ c.chunk = << >> \/ c.depth = 0
              /\ Return(t, StableSort(c.chunk))
              /\ UNCHANGED <<queues, done_, pool, search, job, data, done>>
           \/ /\ c.depth > 0
              /\ \E p \in IF c.depth = Depth THEN {1} \cap DOMAIN c.chunk ELSE DOMAIN c.chunk :
                     LET pivot == c.chunk[p]
                         others == RemoveAt(c.chunk, p)
                         lower == SelectSeq(others, LAMBDA x : Key(x) < Key(pivot))
                         higher == SelectSeq(others, LAMBDA x : Key(x) >= Key(pivot))
                     IN  IF lower = << >> \/ higher = << >>
                         THEN /\ Return(t, StableSort(lower) \o <<pivot>> \o StableSort(higher))
                              /\ UNCHANGED <<queues, done_, pool, search, job, data, done>>
                         ELSE Fork(t, [c EXCEPT !.chunk = lower, !.depth = @ - 1],
                                      [c EXCEPT !.chunk = higher, !.depth = @ - 1], pivot)

-----------------------------------------------------------------------------
(* The scans: block totals, their prefixes, then the scans of the blocks *)

Length(c) == Len(input[c])
NumThreads(c) ==
    LET max_threads == (Length(c) + min_per_thread - 1) \div min_per_thread
        hardware == IF hardware_threads # 0 THEN hardware_threads ELSE 2
    IN  IF hardware < max_threads THEN hardware ELSE max_threads

Block(c, i) ==
    LET size == Length(c) \div NumThreads(c) IN
    [caller |-> c, first |-> (i - 1) * size + 1,
     last |-> IF i = NumThreads(c) THEN Length(c) + 1 ELSE i * size + 1]

Seed == IF alg = "exclusive_scan" THEN <<0>> ELSE << >>
Concat(seed, s) == FoldLeft(LAMBDA x, y : x \o y, seed, s)

(* std::inclusive_scan or std::exclusive_scan of a block, from its seed. *)
ScanBlock(b, seed) ==
    [k \in 1..(b.last - b.first) |->
        Concat(seed, SubSeq(Elements(b), 1, IF alg = "exclusive_scan" THEN k - 1 ELSE k))]

TotalTask(c, i) == [caller |-> c, phase |-> "total", block |-> i, carry |-> << >>]
ScanTask(c, i, totals) ==
    [caller |-> c, phase |-> "scan", block |-> i, carry |-> Concat(Seed, SubSeq(totals, 1, i - 1))]

ScanRange(t) ==
    /\ Running(t, "begin") /\ alg \in Scans
    /\ Top(t).call.phase = "root"
    /\ LET c == Top(t).call.caller IN
       IF Length(c) < 2 * min_per_thread \/ NumThreads(c) < 2
       THEN /\ LET all == [caller |-> c, first |-> 1, last |-> Length(c) + 1] IN
                   data' = Overwrite(all, ScanBlock(all, Seed))
            /\ Return(t, Nothing)
       ELSE /\ SetTop(t, [Top(t) EXCEPT !.label = "totals", !.pos = 1, !.value = << >>])
            /\ UNCHANGED <<data, future, outcome, value>>
    /\ UNCHANGED <<queues, done_, pool, search, job, done>>

(* The four loops of a scan go through the blocks one after the other. *)
LoopOn(t, f, label) ==
    SetTop(t, IF f.pos < NumThreads(f.call.caller) THEN [f EXCEPT !.pos = @ + 1]
              ELSE [f EXCEPT !.label = label, !.pos = 1])

SubmitBlock(t) ==
    /\ \/ /\ Running(t, "totals")
          /\ Submit(t, TotalTask(Top(t).call.caller, Top(t).pos), Nothing)
          /\ LoopOn(t, Top(t), "sum")
       \/ /\ Running(t, "scans")
          /\ Submit(t, ScanTask(Top(t).call.caller, Top(t).pos, Top(t).value), Nothing)
          /\ LoopOn(t, Top(t), "join")
    /\ UNCHANGED <<done_, pool, search, job, data, done, outcome, value>>

BlockTask(t) ==
    /\ Running(t, "begin") /\ alg \in Scans
    /\ LET c == Top(t).call
           b == Block(c.caller, c.block)
       IN  \/ /\ c.phase = "total"
              /\ Return(t, Concat(<< >>, Elements(b)))
              /\ UNCHANGED data
           \/ /\ c.phase = "scan"
              /\ data' = Overwrite(b, ScanBlock(b, c.carry))
              /\ Return(t, Nothing)
    /\ UNCHANGED <<queues, done_, pool, search, job, done>>

-----------------------------------------------------------------------------
(* Waiting for a future *)

Awaited(f) ==
    IF f.label = "sum" THEN TotalTask(f.call.caller, f.pos)
    ELSE IF f.label = "join" THEN ScanTask(f.call.caller, f.pos, f.value)
    ELSE f.sub

Waiting(t) == stack[t] # << >> /\ mode[t] = "run" /\ Top(t).label \in {"wait", "sum", "join"}
Status(t) == future[Awaited(Top(t))].state

(* find does not call get() when its own part has a match. *)
Gets(f) == alg = "find" => f.value = Mid(f.call)

(* Mutant: find does not wait for the other half when it needs no result. *)
PendingUnlessFound(t) == Status(t) = "pending" /\ Gets(Top(t))

Pending(t) == Status(t) = "pending"

(* Mutant: the thread sleeps in get() instead of helping. *)
HelpNever(t) == Waiting(t) /\ Pending(t) /\ UNCHANGED vars

(* wait_for(0) is not ready: the thread helps. *)
Help(t) ==
    /\ Waiting(t)
    /\ Pending(t)
    /\ SetMode(t, "search")
    /\ UNCHANGED <<queues, done_, pool, future, visits, state, job, data, done, stack,
                   outcome, value>>

(* What the call returns from its own part and the future's. *)
Combined(f, got) ==
    CASE alg = "count_if"   -> got + f.value
      [] alg = "any_of"     -> got \/ f.value
      [] alg = "find"       -> IF f.value = Mid(f.call) THEN got ELSE f.value
      [] alg = "quick_sort" -> got \o <<f.pos>> \o f.value
      [] OTHER              -> Nothing

Join(t) ==
    /\ Waiting(t) /\ Top(t).label = "wait"
    /\ ~Pending(t)
    /\ LET f == Top(t)
           c == f.call
           fut == future[f.sub]
       IN  /\ fut.state = "ready" \/ ~Gets(f)
           /\ data' = IF alg = "merge_sort"
                      THEN Overwrite(c, InplaceMerge(Elements(FirstHalf(c)), Elements(SecondHalf(c))))
                      ELSE data
           /\ Return(t, Combined(f, fut.value))
    /\ UNCHANGED <<queues, done_, pool, search, job, done>>

JoinThrows(t) ==
    /\ Waiting(t) /\ Top(t).label = "wait"
    /\ ~Pending(t)
    /\ future[Top(t).sub].state # "ready" /\ Gets(Top(t))
    /\ Throw(t)
    /\ UNCHANGED <<queues, done_, pool, search, job, data>>

(* The scans: the next total, and the end of the next block's scan. *)
JoinBlock(t) ==
    /\ Waiting(t) /\ ~Pending(t)
    /\ LET f == Top(t)
           got == future[Awaited(f)].value
       IN  \/ /\ f.label = "sum"
              /\ LoopOn(t, [f EXCEPT !.value = Append(@, got)], "scans")
              /\ UNCHANGED <<future, outcome, value>>
           \/ /\ f.label = "join"
              /\ IF f.pos < NumThreads(f.call.caller)
                 THEN LoopOn(t, f, "join") /\ UNCHANGED <<future, outcome, value>>
                 ELSE Return(t, Nothing)
    /\ UNCHANGED <<queues, done_, pool, search, job, data, done>>

-----------------------------------------------------------------------------

(* Plain submit calls: the caller submits two tasks and does not wait for  *)
(* them; the first one submits another from inside the pool.               *)
PlainTask(c, i) == [caller |-> c, phase |-> "plain", block |-> i, carry |-> << >>]

Plain(t) ==
    /\ Running(t, "begin") /\ alg = "submit"
    /\ LET f == Top(t)
           todo == IF f.call.phase = "root" THEN <<1, 2>>
                   ELSE IF f.call.block = 1 THEN <<3>> ELSE << >>
       IN  \/ /\ f.pos < Len(todo)
              /\ Submit(t, PlainTask(f.call.caller, todo[f.pos + 1]), Nothing)
              /\ SetTop(t, [f EXCEPT !.pos = @ + 1])
              /\ UNCHANGED <<outcome, value>>
           \/ /\ f.pos = Len(todo)
              /\ Return(t, Nothing)
              /\ UNCHANGED queues
    /\ UNCHANGED <<done_, pool, search, job, data, done>>

(* worker_thread between two tasks. *)
Loop(t) ==
    /\ stack[t] = << >>
    /\ WorkerLoop(t)
    /\ UNCHANGED <<job, data, done, stack, outcome, value>>

(* A step of run_pending_task that does not get a task. *)
SearchOn(t) ==
    /\ BeginSteal(t) \/ StealMisses(t)
    /\ UNCHANGED <<job, data, done, stack, outcome, value>>

Step(t) ==
    \/ BeginLoop(t) \/ LoopEnds(t) \/ Visit(t) \/ VisitThrows(t) \/ Found(t)
    \/ GiveUp(t) \/ Divide(t) \/ SortChunk(t)
    \/ ScanRange(t) \/ SubmitBlock(t) \/ BlockTask(t) \/ JoinBlock(t)
    \/ Help(t) \/ Join(t) \/ JoinThrows(t)
    \/ Plain(t) \/ Loop(t) \/ SearchOn(t)
    \/ \E task \in Queued : RunTask(t, task)

(* "Destruction must not race with any member call": the callers are done. *)
DestroyPool ==
    /\ \A c \in Callers : outcome[c] # "none"
    /\ Destroy
    /\ UNCHANGED <<job, data, done, stack, outcome, value>>

JoinPool ==
    /\ JoinThreads
    /\ UNCHANGED <<job, data, done, stack, outcome, value>>

Next ==
    \/ \E c \in Callers : Call(c)
    \/ \E t \in Threads : Step(t)
    \/ DestroyPool \/ JoinPool

Spec == Init /\ [][Next]_vars

(* A thread that can take a step of its program takes one eventually; the  *)
(* loops that wait for a future or for work never block.                   *)
FairSpec == Spec /\ WF_vars(JoinPool) /\ \A t \in Threads : WF_vars(Step(t))

-----------------------------------------------------------------------------

CanThrow == alg \in {"for_each", "transform", "count_if", "any_of", "find"}

(* "the result matches std::..." (parallel_scan.hpp:14, parallel_predicates*)
(* .hpp:66, test_parallel.cpp): a call that returns has the result of the  *)
(* sequential algorithm, find that of some match, and a call throws only   *)
(* if an element made it throw.                                            *)
ResultIsRight ==
    \A c \in Callers :
        LET s == input[c]
            n == Len(s)
            matches == {i \in 1..n : Key(s[i]) = Match}
        IN  /\ outcome[c] = "threw" => CanThrow /\ \E i \in 1..n : s[i] = Bad
            /\ outcome[c] = "returned" =>
                 CASE alg \in {"for_each", "transform"} -> data[c] = [i \in 1..n |-> s[i] + 100]
                   [] alg = "count_if" -> value[c] = Cardinality(matches)
                   [] alg = "any_of" -> value[c] = (matches # {})
                   [] alg = "find" ->
                        value[c] \in IF matches = {} THEN {n + 1} ELSE matches
                   [] alg = "merge_sort" -> data[c] = StableSort(s)
                   [] alg = "quick_sort" ->
                        /\ [i \in 1..n |-> Key(value[c][i])] = [i \in 1..n |-> Key(StableSort(s)[i])]
                        /\ ToSet(value[c]) = ToSet(s)
                   [] alg = "inclusive_scan" -> data[c] = [i \in 1..n |-> SubSeq(s, 1, i)]
                   [] alg = "exclusive_scan" -> data[c] = [i \in 1..n |-> <<0>> \o SubSeq(s, 1, i - 1)]
                   [] OTHER -> TRUE

(* Tasks refer to the caller's range, output and done flag, which are gone *)
(* when the call is: unless something threw, a call that returns has left  *)
(* no task of its own in a queue or on some thread's stack.                *)
NoStrayTasks ==
    \A c \in Callers :
        /\ outcome[c] = "returned" /\ alg # "submit"
        /\ \A k \in DOMAIN future : k.caller = c => future[k].state # "threw"
        => /\ \A k \in Queued : k.caller # c
           /\ \A t \in Threads : \A i \in DOMAIN stack[t] : stack[t][i].call.caller # c

(* "even a pool narrower than the recursion width cannot deadlock"         *)
(* (parallel_for_each.hpp:11): every call ends, although a task run while  *)
(* waiting keeps the waiting call from going on.                           *)
CallsReturn == \A c \in Callers : stack[c] # << >> ~> stack[c] = << >>

(* Every submitted task is run, or its promise is broken when the pool     *)
(* goes ("instead of hanging", thread_pool.hpp:22); and the destructor's   *)
(* join ends.                                                              *)
FuturesSettle ==
    /\ (\E k \in DOMAIN future : future[k].state = "pending")
           ~> (\A k \in DOMAIN future : future[k].state # "pending")
    /\ pool = "closing" ~> pool = "gone"

=============================================================================
