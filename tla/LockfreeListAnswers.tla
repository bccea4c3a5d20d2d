------------------------ MODULE LockfreeListAnswers ------------------------
(***************************************************************************)
(* LockfreeList with a history variable, to say when an answer that leaves *)
(* the set unchanged is right.  Such a call has no fixed linearization     *)
(* point: find may stand on a node that has been unlinked meanwhile.       *)
(***************************************************************************)
EXTENDS LockfreeList

VARIABLE seen   \* was the key of the thread's call in the set?  The answers
                \* that were right at some moment since the call was made

InitSeen == Init /\ seen = [t \in Threads |-> {}]

NextSeen ==
    /\ Next
    /\ seen' = [t \in Threads |->
                   IF pc'[t] = "idle" THEN {} ELSE seen[t] \cup {key'[t] \in Members'}]

SpecSeen == InitSeen /\ [][NextSeen]_<<vars, seen>>

(* "Returns false if not present", "Returns true if an element equal to    *)
(* value is present" (lockfree_list.hpp:91, 130): contains and the calls   *)
(* that report failure answer what was true at some moment of the call.    *)
AnswersAreTrue ==
    \A t \in Threads :
        /\ (op[t] = "contains" /\ result[t] = "true")
               \/ (op[t] = "insert" /\ result[t] = "false") => TRUE \in seen[t]
        /\ op[t] \in {"contains", "erase"} /\ result[t] = "false" => FALSE \in seen[t]

=============================================================================
