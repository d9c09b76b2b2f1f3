------------------------------ MODULE ForkJoin ------------------------------
(***************************************************************************)
(* What parallel<N, Result> of threaded_task.hpp promises to the one that  *)
(* joins or awaits it: every function runs to its result, and the client   *)
(* goes on once, when all the results are there, and not before.           *)
(***************************************************************************)
CONSTANT Worker

VARIABLES finished,  \* workers whose result is stored
          client     \* "waiting" or "released"

Init == finished = {} /\ client = "waiting"

Finish(w) ==
    /\ w \notin finished
    /\ finished' = finished \cup {w}
    /\ UNCHANGED client

Release ==
    /\ client = "waiting"
    /\ finished = Worker
    /\ client' = "released"
    /\ UNCHANGED finished

Next == Release \/ \E w \in Worker : Finish(w)

Spec == Init /\ [][Next]_<<finished, client>> /\ WF_<<finished, client>>(Next)
=============================================================================
