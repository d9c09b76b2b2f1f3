------------------------------ MODULE Reactor ------------------------------
(***************************************************************************)
(* What the two schedulers of fd_coroutine.hpp promise their readers, with *)
(* no vector, index or pollfd array: run() polls the descriptors that live *)
(* readers await, all of them and no other, and resumes for each one that  *)
(* was reported a reader that awaits it; it returns when no reader lives.  *)
(* The promise is kept until a scheduler loses a reader that lives.        *)
(***************************************************************************)
CONSTANTS Coro, NoCoro, Fd, NoFd,
          Exclusive  \* run() may refuse to go on between two rounds

VARIABLES life,     \* "unborn", "live" or "ended"
          awaits,   \* the descriptor a live reader awaits, NoFd for the others
          input,    \* descriptors with data to read
          ready,    \* descriptors reported by poll() and not served yet
          current,  \* the reader that runs
          outcome,  \* how run() has ended; "none" before
          broken    \* a live reader has been lost

reactorVars == <<life, awaits, input, ready, current, outcome, broken>>

Live(c) == life[c] = "live"

Awaited == {f \in Fd : \E c \in Coro : Live(c) /\ awaits[c] = f}

Between == outcome = "none" /\ current = NoCoro
Running == outcome = "none" /\ current \in Coro

Init ==
    /\ life \in [Coro -> {"unborn", "live", "ended"}]
    /\ awaits \in [Coro -> Fd \cup {NoFd}]
    /\ \A c \in Coro : Live(c) <=> awaits[c] \in Fd
    /\ input = {} /\ ready = {}
    /\ current = NoCoro /\ outcome = "none" /\ broken = FALSE

Arrive(f) ==
    /\ f \notin input
    /\ input' = input \cup {f}
    /\ UNCHANGED <<life, awaits, ready, current, outcome>>

Poll ==
    /\ Between /\ ready = {}
    /\ ready' = Awaited \cap input
    /\ UNCHANGED <<life, awaits, input, current, outcome>>

Serve(c) ==
    /\ Between /\ Live(c) /\ awaits[c] \in ready
    /\ current' = c
    /\ ready' = ready \ {awaits[c]}
    /\ input' \in {input, input \ {awaits[c]}}
    /\ UNCHANGED <<life, awaits, outcome>>

Await(f) ==
    /\ Running
    /\ awaits' = [awaits EXCEPT ![current] = f]
    /\ current' = NoCoro
    /\ UNCHANGED <<life, input, ready, outcome>>

Ends ==
    /\ life' = [life EXCEPT ![current] = "ended"]
    /\ awaits' = [awaits EXCEPT ![current] = NoFd]
    /\ UNCHANGED <<input, ready>>

Finish == Running /\ Ends /\ current' = NoCoro /\ UNCHANGED outcome
Throw  == Running /\ Ends /\ outcome' = "thrown" /\ UNCHANGED current

\* The reader that runs adds one; only a full vector is a crash.
Add(c) ==
    /\ Running /\ life[c] = "unborn"
    /\ \/ /\ life' = [life EXCEPT ![c] = "live"]
          /\ \E f \in Fd : awaits' = [awaits EXCEPT ![c] = f]
       \/ life' = [life EXCEPT ![c] = "ended"] /\ UNCHANGED awaits
    /\ outcome' \in {"none", "crashed"}
    /\ UNCHANGED <<input, ready, current>>

Return ==
    /\ Between /\ ready = {} /\ \A c \in Coro : ~Live(c)
    /\ outcome' = "returned"
    /\ UNCHANGED <<life, awaits, input, ready, current>>

Refuse ==
    /\ Exclusive /\ Between /\ ready = {}
    /\ outcome' = "refused"
    /\ UNCHANGED <<life, awaits, input, ready, current>>

Next ==
    \/ Poll \/ Finish \/ Throw \/ Return \/ Refuse
    \/ \E f \in Fd : Arrive(f) \/ Await(f)
    \/ \E c \in Coro : Serve(c) \/ Add(c)

Spec == Init /\ [][broken' \/ Next]_reactorVars
=============================================================================
