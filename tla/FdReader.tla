------------------------------ MODULE FdReader ------------------------------
(***************************************************************************)
(* The coroutine type of fd_coroutine.hpp, struct fd_reader, and the file  *)
(* descriptors it waits on.  A coroutine body is arbitrary code: what the  *)
(* schedulers see of it is the descriptor it suspended on, whether its     *)
(* frame is done, and the readers it hands back with co_yield.             *)
(* The two schedulers of the file EXTEND this module.                      *)
(***************************************************************************)
EXTENDS Integers, Sequences, FiniteSets

CONSTANTS Coro,     \* coroutine frames the program may create
          NoCoro,   \* no reader is being resumed
          Fd,       \* descriptors, ordered as the pollfd array is
          NoFd,     \* an empty waiting_on_
          Initial,  \* the readers added before run(), in order
          Spawners  \* those that co_await a scheduler_t and may co_yield

ASSUME FdAssumption == Fd \subseteq Nat /\ NoFd \notin Fd

ASSUME CoroAssumption ==
    /\ NoCoro \notin Coro
    /\ Initial \in Seq(Coro)
    /\ \A i, j \in 1..Len(Initial) : Initial[i] = Initial[j] => i = j
    /\ Spawners \subseteq Coro

VARIABLES frame,  \* life of each coroutine frame
          wants,  \* promise_type::waiting_on_ of each frame
          input,  \* descriptors with data to read (POLLIN)
          hungup  \* descriptors whose peer is gone (POLLHUP)

readerVars == <<frame, wants, input, hungup>>

\* A frame is destroyed after its end, or killed: destroyed while suspended.
FrameState == {"unborn", "suspended", "done", "destroyed", "killed"}

ReaderTypeOK ==
    /\ frame \in [Coro -> FrameState]
    /\ wants \in [Coro -> Fd \cup {NoFd}]
    /\ input \subseteq Fd
    /\ hungup \subseteq Fd

\* fd_reader::running: the handle is set and the frame is not done.
Live(c) == frame[c] = "suspended"

(***************************************************************************)
(* initial_suspend never suspends, so a reader runs before it is added:    *)
(* it is on its first descriptor, or already done (it returned, or threw   *)
(* and the exception stayed in the promise).                               *)
(***************************************************************************)
Born(c) == \/ frame[c] = "suspended" /\ wants[c] \in Fd
           \/ frame[c] = "done" /\ wants[c] = NoFd

ReaderInit ==
    LET added == {Initial[i] : i \in 1..Len(Initial)}
    IN  /\ frame \in [Coro -> {"unborn", "suspended", "done"}]
        /\ wants \in [Coro -> Fd \cup {NoFd}]
        /\ \A c \in added : Born(c)
        /\ \A c \in Coro \ added : frame[c] = "unborn" /\ wants[c] = NoFd
        /\ input = {}
        /\ hungup = {}

(***************************************************************************)
(* The kernel's side: data arrives on a descriptor until its peer hangs up.*)
(***************************************************************************)
Arrive(f) ==
    /\ f \notin input \cup hungup
    /\ input' = input \cup {f}
    /\ UNCHANGED <<frame, wants, hungup>>

HangUp(f) ==
    /\ f \notin hungup
    /\ hungup' = hungup \cup {f}
    /\ UNCHANGED <<frame, wants, input>>

(***************************************************************************)
(* What poll() reports: it returns for data and for a hang-up alike, but   *)
(* the schedulers act on POLLIN and POLLPRI only.                          *)
(***************************************************************************)
PollReturns(polled) == polled \cap (input \cup hungup) # {}
Readable(polled)    == polled \cap input

\* A resumed body reads all that is there, or part of it, or nothing.
Reads(f) == input' \in {input, input \ {f}}

\* co_await fd: await_transform(fd_t) replaces waiting_on_ and suspends.
Await(c, g) ==
    /\ wants' = [wants EXCEPT ![c] = g]
    /\ UNCHANGED frame

\* The body ends: return_void clears waiting_on_, final_suspend keeps the
\* frame.
ReturnVoid(c) ==
    /\ frame' = [frame EXCEPT ![c] = "done"]
    /\ wants' = [wants EXCEPT ![c] = NoFd]

\* The body throws: unhandled_exception keeps it for signal_ready to rethrow.
UnhandledException(c) ==
    /\ frame' = [frame EXCEPT ![c] = "done"]
    /\ UNCHANGED wants

\* ~fd_reader destroys the frame, whatever state it is in.
Destroyed(c) == IF Live(c) THEN "killed" ELSE "destroyed"

\* The operand of a co_yield: a new reader, run up to its first suspension.
Create(c) ==
    /\ frame[c] = "unborn"
    /\ \/ /\ frame' = [frame EXCEPT ![c] = "suspended"]
          /\ \E g \in Fd : wants' = [wants EXCEPT ![c] = g]
       \/ /\ frame' = [frame EXCEPT ![c] = "done"]
          /\ UNCHANGED wants

(***************************************************************************)
(* What others can tell of the readers, whoever schedules them.            *)
(***************************************************************************)
life ==
    [c \in Coro |-> CASE frame[c] = "unborn" -> "unborn"
                      [] Live(c) -> "live"
                      [] OTHER -> "ended"]

awaits == [c \in Coro |-> IF Live(c) THEN wants[c] ELSE NoFd]
=============================================================================
