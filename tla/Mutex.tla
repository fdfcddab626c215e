------------------------------- MODULE Mutex --------------------------------
(***************************************************************************)
(* What the workspace lock promises, with nothing of how it is built:      *)
(* the project's files are in the hands of at most one task, and they pass *)
(* from one task to another only through a moment when nobody has them.    *)
(***************************************************************************)
CONSTANT Tasks

VARIABLE inside            \* the tasks working on the project's files

Init == inside = {}

Enter(t) == inside = {} /\ inside' = {t}
Leave    == inside # {} /\ inside' = {}

Next == Leave \/ \E t \in Tasks : Enter(t)

Spec == Init /\ [][Next]_inside
=============================================================================
