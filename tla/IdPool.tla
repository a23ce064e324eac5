-------------------------------- MODULE IdPool --------------------------------
(***************************************************************************)
(* What the callers of StreamIdAllocator::next rely on: each stream id of  *)
(* one side's series is handed out at most once, and only ids of that      *)
(* series are.  The count makes a second handing out of an id a step.      *)
(***************************************************************************)
EXTENDS Naturals

CONSTANT Series
VARIABLES
    given,      \* the ids handed out so far
    count       \* how often an id has been handed out

Init == given = {} /\ count = 0

Take(id) == id \notin given /\ given' = given \cup {id} /\ count' = count + 1

Next == \E id \in Series : Take(id)

Spec == Init /\ [][Next]_<<given, count>>
===============================================================================
