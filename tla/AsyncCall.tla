----------------------------- MODULE AsyncCall -----------------------------
(***************************************************************************)
(* What co_await of a task promises, whoever schedules the coroutines: an  *)
(* await is a call.  The caller goes on once, after the callee it awaits   *)
(* has finished, and never before; a coroutine that has finished does not  *)
(* run again.                                                              *)
(***************************************************************************)
CONSTANTS Coro, None

VARIABLES phase,  \* of each coroutine; an active one runs or may run
          callee  \* what a coroutine awaits, None if it does not

Init ==
    /\ phase = [c \in Coro |-> "unborn"]
    /\ callee = [c \in Coro |-> None]

Start(c) ==
    /\ phase[c] = "unborn"
    /\ phase' = [phase EXCEPT ![c] = "active"]
    /\ UNCHANGED callee

Call(c, d) ==
    /\ phase[c] = "active"
    /\ callee[c] = None
    /\ phase[d] = "unborn"
    /\ phase' = [phase EXCEPT ![d] = "active"]
    /\ callee' = [callee EXCEPT ![c] = d]

Continue(c) ==
    /\ callee[c] # None
    /\ phase[callee[c]] = "finished"
    /\ callee' = [callee EXCEPT ![c] = None]
    /\ UNCHANGED phase

Finish(c) ==
    /\ phase[c] = "active"
    /\ callee[c] = None
    /\ phase' = [phase EXCEPT ![c] = "finished"]
    /\ UNCHANGED callee

Next == \E c \in Coro : \/ Start(c) \/ Continue(c) \/ Finish(c)
                        \/ \E d \in Coro : Call(c, d)

Spec == Init /\ [][Next]_<<phase, callee>>
=============================================================================
