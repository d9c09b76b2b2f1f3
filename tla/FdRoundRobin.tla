---------------------------- MODULE FdRoundRobin ----------------------------
(***************************************************************************)
(* fd_scheduler_round_robin of fd_coroutine.hpp: one thread polls the      *)
(* descriptors its readers wait on and resumes, for each readable          *)
(* descriptor, the reader that has waited on it the longest.               *)
(*                                                                         *)
(* in_waiting maps a descriptor to a deque of pointers into the vector     *)
(* readers: a pointer is a slot of the vector here.  to_delete holds       *)
(* iterators into the same vector, slots too.                              *)
(***************************************************************************)
EXTENDS FdReader

CONSTANT Capacity  \* storage the vector readers has when run() is entered

ASSUME CapacityAssumption == Capacity \in Nat /\ Len(Initial) <= Capacity

VARIABLES pc,        \* where run() is
          readers,   \* the vector of readers
          cursor,    \* the preparation loop's iterator
          fds,       \* the descriptors of the sorted pollfd array
          inWaiting, \* in_waiting; an absent key is an empty queue
          revents,   \* readable descriptors this round has still to visit
          toDelete,  \* slots of the dead readers found by this round
          current,   \* the reader being resumed
          signal     \* the descriptor it was signalled with

schedVars == <<pc, readers, cursor, fds, inWaiting, revents, toDelete,
               current, signal>>
vars == <<readerVars, schedVars>>

Stopped == {"returned", "thrown", "aborted", "crashed"}

TypeOK ==
    /\ ReaderTypeOK
    /\ pc \in {"loop", "prep", "poll", "dispatch", "running", "erase"} \cup Stopped
    /\ readers \in Seq(Coro)
    /\ cursor \in Nat \ {0}
    /\ fds \subseteq Fd
    /\ inWaiting \in [Fd -> Seq(Nat)]
    /\ revents \subseteq Fd
    /\ toDelete \subseteq Nat
    /\ current \in Coro \cup {NoCoro}
    /\ signal \in Fd \cup {NoFd}

NoneWaiting == [f \in Fd |-> << >>]

Init ==
    /\ ReaderInit
    /\ pc = "loop"
    /\ readers = Initial
    /\ cursor = 1
    /\ fds = {}
    /\ inWaiting = NoneWaiting
    /\ revents = {}
    /\ toDelete = {}
    /\ current = NoCoro
    /\ signal = NoFd

-----------------------------------------------------------------------------
(* The loop condition: any_of(readers, running).                           *)
AnyRunning == \E i \in 1..Len(readers) : Live(readers[i])

EnterRoundBeforeBegin ==  \* mutant: the iterator starts before the first reader
    /\ pc = "loop"
    /\ AnyRunning
    /\ pc' = "prep"
    /\ cursor' = 0
    /\ toDelete' = {}
    /\ UNCHANGED <<readerVars, readers, fds, inWaiting, revents, current, signal>>

EnterRound ==
    /\ pc = "loop"
    /\ AnyRunning
    /\ pc' = "prep"
    /\ cursor' = 1
    /\ toDelete' = {}
    /\ UNCHANGED <<readerVars, readers, fds, inWaiting, revents, current, signal>>

Return ==
    /\ pc = "loop"
    /\ ~AnyRunning
    /\ pc' = "returned"
    /\ UNCHANGED <<readerVars, readers, cursor, fds, inWaiting, revents,
                   toDelete, current, signal>>

-----------------------------------------------------------------------------
(* The preparation loop visits the readers in slot order.                  *)
NextReader ==
    IF cursor = Len(readers)
    THEN pc' = "poll" /\ cursor' = 1
    ELSE pc' = "prep" /\ cursor' = cursor + 1

InQueue(slot, q) == \E i \in 1..Len(q) : q[i] = slot

EnqueueAtFront(slot, f) ==  \* mutant: push_front for push_back
    IF InQueue(slot, inWaiting[f])
    THEN inWaiting
    ELSE [inWaiting EXCEPT ![f] = <<slot>> \o @]

Enqueue(slot, f) ==
    IF InQueue(slot, inWaiting[f])
    THEN inWaiting
    ELSE [inWaiting EXCEPT ![f] = Append(@, slot)]

PrepareDeadNext ==  \* mutant: the iterator is advanced before it is kept
    /\ pc = "prep"
    /\ ~Live(readers[cursor])
    /\ toDelete' = toDelete \cup {cursor + 1}
    /\ NextReader
    /\ UNCHANGED <<readerVars, readers, fds, inWaiting, revents, current, signal>>

PrepareDead ==
    /\ pc = "prep"
    /\ ~Live(readers[cursor])
    /\ toDelete' = toDelete \cup {cursor}
    /\ NextReader
    /\ UNCHANGED <<readerVars, readers, fds, inWaiting, revents, current, signal>>

PrepareLive ==
    /\ pc = "prep"
    /\ Live(readers[cursor])
    /\ LET w == wants[readers[cursor]]
       IN  /\ fds' = fds \cup {w}
           /\ inWaiting' = Enqueue(cursor, w)
    /\ NextReader
    /\ UNCHANGED <<readerVars, readers, revents, toDelete, current, signal>>

Poll ==
    /\ pc = "poll"
    /\ PollReturns(fds)
    /\ revents' = Readable(fds)
    /\ pc' = "dispatch"
    /\ UNCHANGED <<readerVars, readers, cursor, fds, inWaiting, toDelete,
                   current, signal>>

-----------------------------------------------------------------------------
(* The dispatch loop visits the readable descriptors in ascending order.   *)
FirstReadable(f) == f \in revents /\ \A g \in revents : f <= g

\* assert(it != in_waiting.end()) fails: nobody waits on a polled descriptor.
AbortOnMissingWaiter(f) ==
    /\ pc = "dispatch"
    /\ FirstReadable(f)
    /\ inWaiting[f] = << >>
    /\ pc' = "aborted"
    /\ UNCHANGED <<readerVars, readers, cursor, fds, inWaiting, revents,
                   toDelete, current, signal>>

NoPopFront(q) == q  \* mutant: the reader stays in its queue
PopFront(q)   == Tail(q)

\* Pop the reader that waits the longest and signal_ready() it.
Resume(f) ==
    /\ pc = "dispatch"
    /\ FirstReadable(f)
    /\ inWaiting[f] # << >>
    /\ revents' = revents \ {f}
    /\ inWaiting' = [inWaiting EXCEPT ![f] = PopFront(@)]
    /\ current' = readers[Head(inWaiting[f])]
    /\ signal' = f
    /\ pc' = "running"
    /\ Reads(f)
    /\ UNCHANGED <<frame, wants, hungup, readers, cursor, fds, toDelete>>

NextDescriptor == pc' = "dispatch" /\ current' = NoCoro /\ signal' = NoFd

\* The body runs until it suspends again, returns or throws; signal_ready()
\* rethrows and the exception leaves run().
BodyAwaits ==
    /\ pc = "running"
    /\ \E g \in Fd : Await(current, g)
    /\ NextDescriptor
    /\ UNCHANGED <<input, hungup, readers, cursor, fds, inWaiting, revents,
                   toDelete>>

BodyReturns ==
    /\ pc = "running"
    /\ ReturnVoid(current)
    /\ NextDescriptor
    /\ UNCHANGED <<input, hungup, readers, cursor, fds, inWaiting, revents,
                   toDelete>>

BodyThrows ==
    /\ pc = "running"
    /\ UnhandledException(current)
    /\ pc' = "thrown"
    /\ UNCHANGED <<input, hungup, readers, cursor, fds, inWaiting, revents,
                   toDelete, current, signal>>

\* co_yield of a new reader calls add(): emplace_back() on the vector that
\* run() iterates.
BodySpawns ==
    /\ pc = "running"
    /\ current \in Spawners
    /\ Len(readers) < Capacity
    /\ \E c \in Coro : Create(c) /\ readers' = Append(readers, c)
    /\ UNCHANGED <<input, hungup, pc, cursor, fds, inWaiting, revents, toDelete,
                   current, signal>>

\* With the storage full, emplace_back() moves every reader to new storage:
\* the fd_reader that signal_ready() runs on is gone and it reads its moved-
\* from handle when the body comes back.
BodySpawnReallocates ==
    /\ pc = "running"
    /\ current \in Spawners
    /\ Len(readers) >= Capacity
    /\ \E c \in Coro : Create(c) /\ readers' = Append(readers, c)
    /\ pc' = "crashed"
    /\ UNCHANGED <<input, hungup, cursor, fds, inWaiting, revents, toDelete,
                   current, signal>>

-----------------------------------------------------------------------------
(* Keep the descriptors that are still waited on, sorted.                  *)
Clean ==
    /\ pc = "dispatch"
    /\ revents = {}
    /\ fds' = {f \in fds : inWaiting[f] # << >>}
    /\ pc' = IF toDelete = {} THEN "loop" ELSE "erase"
    /\ UNCHANGED <<readerVars, readers, cursor, inWaiting, revents, toDelete,
                   current, signal>>

\* vector::erase at slot i moves the readers behind i down by one and drops
\* the last element.  For i past the end nothing moves and the last element
\* is dropped.
EraseNext(s, i) == [j \in 1..(Len(s) - 1) |-> IF j <= i THEN s[j] ELSE s[j + 1]]  \* mutant
EraseAt(s, i)   == [j \in 1..(Len(s) - 1) |-> IF j < i THEN s[j] ELSE s[j + 1]]

\* fd_reader's move assignment overwrites a handle without destroying the
\* frame; only a reader dropped from the last slot still owns one.
FrameAfterErase(s, i) ==
    IF i >= Len(s) THEN [frame EXCEPT ![s[Len(s)]] = Destroyed(s[Len(s)])] ELSE frame

\* One turn of: for (auto it : to_delete) readers.erase(it).  The iterators
\* were taken before the first erase.  After the last one the index is
\* cleared.
EraseDeadKeepsIndex(i) ==  \* mutant: in_waiting is not cleared
    /\ pc = "erase"
    /\ i \in toDelete /\ \A j \in toDelete : i <= j
    /\ readers' = EraseAt(readers, i)
    /\ frame' = FrameAfterErase(readers, i)
    /\ toDelete' = toDelete \ {i}
    /\ pc' = IF toDelete' = {} THEN "loop" ELSE "erase"
    /\ UNCHANGED <<inWaiting, wants, input, hungup, cursor, fds, revents, current, signal>>

EraseDead(i) ==
    /\ pc = "erase"
    /\ i \in toDelete /\ \A j \in toDelete : i <= j
    /\ readers' = EraseAt(readers, i)
    /\ frame' = FrameAfterErase(readers, i)
    /\ toDelete' = toDelete \ {i}
    /\ IF toDelete' = {}
       THEN inWaiting' = NoneWaiting /\ pc' = "loop"
       ELSE UNCHANGED <<inWaiting, pc>>
    /\ UNCHANGED <<wants, input, hungup, cursor, fds, revents, current, signal>>

-----------------------------------------------------------------------------
Body == BodyAwaits \/ BodyReturns \/ BodyThrows \/ BodySpawns \/ BodySpawnReallocates

Scheduler ==
    \/ EnterRound \/ Return
    \/ PrepareDead \/ PrepareLive \/ Poll
    \/ \E f \in Fd : AbortOnMissingWaiter(f) \/ Resume(f)
    \/ Clean
    \/ \E i \in toDelete : EraseDead(i)

Environment == \E f \in Fd : (Arrive(f) \/ HangUp(f)) /\ UNCHANGED schedVars

Next == Scheduler \/ Body \/ Environment

Spec == Init /\ [][Next]_vars

(***************************************************************************)
(* Fairness: the one thread keeps running, a resumed body comes back to    *)
(* the scheduler, and a peer that has not hung up sends again.             *)
(***************************************************************************)
Fairness ==
    /\ WF_vars(Scheduler)
    /\ WF_vars(Body)
    /\ \A f \in Fd : WF_vars(Arrive(f) /\ UNCHANGED schedVars)

FairSpec == Spec /\ Fairness

-----------------------------------------------------------------------------
(* Properties.  A definition above marked "mutant" is a faulty variant of  *)
(* the one that follows it, used to show that a property can fail.         *)

(***************************************************************************)
(* Every pointer of in_waiting designates a live reader of the vector that *)
(* waits on the key it is filed under, whenever the pointers may be used:  *)
(* between rounds, while readers are added, resumed, and finish.  It is    *)
(* what the two asserts at the top of signal_ready() and of waiting_on()   *)
(* rely on.                                                                *)
(***************************************************************************)
WaitersValid ==
    pc \in {"loop", "prep", "poll", "dispatch", "running"} =>
        \A f \in Fd : \A i \in 1..Len(inWaiting[f]) :
            LET slot == inWaiting[f][i]
            IN  /\ slot \in 1..Len(readers)
                /\ Live(readers[slot])
                /\ wants[readers[slot]] = f

(***************************************************************************)
(* Until the first erase() of a clean-up, to_delete designates dead        *)
(* readers only, whatever was resumed, added or finished since it was      *)
(* filled.                                                                 *)
(***************************************************************************)
ToDeleteIsDead ==
    pc \in {"prep", "poll", "dispatch", "running"} =>
        \A i \in toDelete : i \in 1..Len(readers) /\ ~Live(readers[i])

Scheduled(c) == \E i \in 1..Len(readers) : readers[i] = c

\* No live reader has dropped out of the vector, killed or left behind.
NoneLost == \A c \in Coro : frame[c] # "killed" /\ (Live(c) => Scheduled(c))

(***************************************************************************)
(* As long as no round finds two dead readers, erase() never takes a live  *)
(* reader out of the vector and the assert on the waiter of a readable     *)
(* descriptor holds.                                                       *)
(***************************************************************************)
OneDeathPerRoundIsSafe ==
    [](Cardinality(toDelete) <= 1) => [](NoneLost /\ pc # "aborted")

(***************************************************************************)
(* A readable descriptor was found by poll() because someone waits on it:  *)
(* the assert of the dispatch loop, assert(it != in_waiting.end()).        *)
(***************************************************************************)
WaiterFound == pc # "aborted"

(***************************************************************************)
(* Round robin: a reader of the vector is eventually resumed, however many *)
(* others wait on its descriptor, unless its descriptor hangs up, run()    *)
(* stops, or a clean-up of several readers loses it.                       *)
(***************************************************************************)
EventuallyResumed ==
    \A c \in Coro :
        Live(c) ~> \/ pc = "running" /\ current = c
                  \/ wants[c] \in hungup
                  \/ pc \in Stopped
                  \/ ~Scheduled(c)
-----------------------------------------------------------------------------
(***************************************************************************)
(* The scheduler as its readers see it.                                    *)
(***************************************************************************)
Outcome ==
    CASE pc \in {"returned", "thrown", "crashed"} -> pc
      [] pc = "aborted" -> "refused"
      [] OTHER -> "none"

R == INSTANCE Reactor WITH
        life <- life, awaits <- awaits, ready <- revents,
        outcome <- Outcome, Exclusive <- FALSE, broken <- ~NoneLost

(***************************************************************************)
(* Until it erases a live reader the scheduler is a reactor: it polls the  *)
(* descriptors that live readers await, all of them and no other, resumes  *)
(* for each report one reader that awaits the descriptor, and run() ends   *)
(* only when no reader lives, or by what a body does.                      *)
(***************************************************************************)
ImplementsReactor == R!Spec
=============================================================================
