-------------------------- MODULE FdSingleConsumer --------------------------
(***************************************************************************)
(* fd_scheduler_single_consumer of fd_coroutine.hpp: as the round-robin    *)
(* scheduler, with one reader per descriptor.  in_waiting maps a           *)
(* descriptor to one pointer into the vector readers: a slot here, or 0    *)
(* when the key is absent.                                                 *)
(***************************************************************************)
EXTENDS FdReader

CONSTANT Capacity  \* storage the vector readers has when run() is entered

ASSUME CapacityAssumption == Capacity \in Nat /\ Len(Initial) <= Capacity

VARIABLES pc,        \* where run() is
          readers,   \* the vector of readers
          cursor,    \* the preparation loop's iterator
          fds,       \* the descriptors of the sorted pollfd array
          inWaiting, \* in_waiting
          revents,   \* readable descriptors this round has still to visit
          toDelete,  \* slots of the dead readers found by this round
          current,   \* the reader being resumed
          signal     \* the descriptor it was signalled with

schedVars == <<pc, readers, cursor, fds, inWaiting, revents, toDelete,
               current, signal>>
vars == <<readerVars, schedVars>>

Stopped == {"returned", "multiple", "thrown", "aborted", "crashed"}

TypeOK ==
    /\ ReaderTypeOK
    /\ pc \in {"loop", "prep", "poll", "dispatch", "running", "erase"} \cup Stopped
    /\ readers \in Seq(Coro)
    /\ cursor \in Nat \ {0}
    /\ fds \subseteq Fd
    /\ inWaiting \in [Fd -> Nat]
    /\ revents \subseteq Fd
    /\ toDelete \subseteq Nat
    /\ current \in Coro \cup {NoCoro}
    /\ signal \in Fd \cup {NoFd}

NoneWaiting == [f \in Fd |-> 0]

Init ==
    /\ ReaderInit
    /\ pc = "loop"
    /\ readers = Initial
    /\ cursor = 1
    /\ fds = {}
    /\ inWaiting = NoneWaiting
    /\ revents = {}
    /\ toDelete = {}
    /\ current = NoCoro
    /\ signal = NoFd

-----------------------------------------------------------------------------
AllRunning == \A i \in 1..Len(readers) : Live(readers[i])  \* mutant: all_of for any_of
AnyRunning == \E i \in 1..Len(readers) : Live(readers[i])

EnterRoundBeforeBegin ==  \* mutant: the iterator starts before the first reader
    /\ pc = "loop"
    /\ AnyRunning
    /\ pc' = "prep"
    /\ cursor' = 0
    /\ toDelete' = {}
    /\ UNCHANGED <<readerVars, readers, fds, inWaiting, revents, current, signal>>

EnterRound ==
    /\ pc = "loop"
    /\ AnyRunning
    /\ pc' = "prep"
    /\ cursor' = 1
    /\ toDelete' = {}
    /\ UNCHANGED <<readerVars, readers, fds, inWaiting, revents, current, signal>>

Return ==
    /\ pc = "loop"
    /\ ~AnyRunning
    /\ pc' = "returned"
    /\ UNCHANGED <<readerVars, readers, cursor, fds, inWaiting, revents,
                   toDelete, current, signal>>

-----------------------------------------------------------------------------
(* Preparation.  assert(!fds.empty()) always holds after it: the loop      *)
(* condition found a live reader, and it is visited here.                  *)
NextReader ==
    IF cursor = Len(readers)
    THEN pc' = "poll" /\ cursor' = 1
    ELSE pc' = "prep" /\ cursor' = cursor + 1

PrepareDead ==
    /\ pc = "prep"
    /\ ~Live(readers[cursor])
    /\ toDelete' = toDelete \cup {cursor}
    /\ NextReader
    /\ UNCHANGED <<readerVars, readers, fds, inWaiting, revents, current, signal>>

\* emplace() keeps the pointer of a key that is there.
Emplace(f, slot) ==
    IF inWaiting[f] = 0 THEN [inWaiting EXCEPT ![f] = slot] ELSE inWaiting

PrepareLiveShares ==  \* mutant: the descriptor may be polled for another reader
    /\ pc = "prep"
    /\ Live(readers[cursor])
    /\ LET w == wants[readers[cursor]]
       IN  /\ fds' = fds \cup {w}
           /\ inWaiting' = Emplace(w, cursor)
    /\ NextReader
    /\ UNCHANGED <<readerVars, readers, revents, toDelete, current, signal>>

PrepareLive ==
    /\ pc = "prep"
    /\ Live(readers[cursor])
    /\ LET w == wants[readers[cursor]]
       IN  /\ w \notin fds
           /\ fds' = fds \cup {w}
           /\ inWaiting' = Emplace(w, cursor)
    /\ NextReader
    /\ UNCHANGED <<readerVars, readers, revents, toDelete, current, signal>>

\* throw std::runtime_error("Multiple consumers for ...")
ThrowMultipleConsumers ==
    /\ pc = "prep"
    /\ Live(readers[cursor])
    /\ wants[readers[cursor]] \in fds
    /\ pc' = "multiple"
    /\ UNCHANGED <<readerVars, readers, cursor, fds, inWaiting, revents,
                   toDelete, current, signal>>

Poll ==
    /\ pc = "poll"
    /\ PollReturns(fds)
    /\ revents' = Readable(fds)
    /\ pc' = "dispatch"
    /\ UNCHANGED <<readerVars, readers, cursor, fds, inWaiting, toDelete,
                   current, signal>>

-----------------------------------------------------------------------------
FirstReadable(f) == f \in revents /\ \A g \in revents : f <= g

\* assert(it != in_waiting.end()) fails: the reader of a polled descriptor
\* was erased by mistake.
AbortOnMissingConsumer(f) ==
    /\ pc = "dispatch"
    /\ FirstReadable(f)
    /\ inWaiting[f] = 0
    /\ pc' = "aborted"
    /\ UNCHANGED <<readerVars, readers, cursor, fds, inWaiting, revents,
                   toDelete, current, signal>>

\* The map entry is erased after the body has come back.
Resume(f) ==
    /\ pc = "dispatch"
    /\ FirstReadable(f)
    /\ inWaiting[f] # 0
    /\ revents' = revents \ {f}
    /\ current' = readers[inWaiting[f]]
    /\ signal' = f
    /\ pc' = "running"
    /\ Reads(f)
    /\ UNCHANGED <<frame, wants, hungup, readers, cursor, fds, inWaiting, toDelete>>

NextDescriptorKeepsEntry ==  \* mutant: in_waiting.erase(it) is forgotten
    /\ pc' = "dispatch" /\ current' = NoCoro /\ signal' = NoFd
    /\ UNCHANGED inWaiting

NextDescriptor ==
    /\ pc' = "dispatch" /\ current' = NoCoro /\ signal' = NoFd
    /\ inWaiting' = [inWaiting EXCEPT ![signal] = 0]

BodyAwaits ==
    /\ pc = "running"
    /\ \E g \in Fd : Await(current, g)
    /\ NextDescriptor
    /\ UNCHANGED <<input, hungup, readers, cursor, fds, revents, toDelete>>

BodyReturns ==
    /\ pc = "running"
    /\ ReturnVoid(current)
    /\ NextDescriptor
    /\ UNCHANGED <<input, hungup, readers, cursor, fds, revents, toDelete>>

BodyThrows ==
    /\ pc = "running"
    /\ UnhandledException(current)
    /\ pc' = "thrown"
    /\ UNCHANGED <<input, hungup, readers, cursor, fds, inWaiting, revents,
                   toDelete, current, signal>>

\* add() from a co_yield; in new storage when the vector is full.
BodySpawns ==
    /\ pc = "running"
    /\ current \in Spawners
    /\ \E c \in Coro : Create(c) /\ readers' = Append(readers, c)
    /\ pc' = IF Len(readers) < Capacity THEN pc ELSE "crashed"
    /\ UNCHANGED <<input, hungup, cursor, fds, inWaiting, revents, toDelete,
                   current, signal>>

-----------------------------------------------------------------------------
\* assert(fds.size() != last_size): a descriptor was dropped, that is,
\* a reader was resumed; not so when poll() returned for a hang-up alone.
Clean ==
    /\ pc = "dispatch"
    /\ revents = {}
    /\ fds' = {f \in fds : inWaiting[f] # 0}
    /\ pc' = IF fds' = fds THEN "aborted"
             ELSE IF toDelete = {} THEN "loop" ELSE "erase"
    /\ UNCHANGED <<readerVars, readers, cursor, inWaiting, revents, toDelete,
                   current, signal>>

\* As in FdRoundRobin: vector::erase(), also past the end.
EraseAt(s, i) == [j \in 1..(Len(s) - 1) |-> IF j < i THEN s[j] ELSE s[j + 1]]

FrameAfterErase(s, i) ==
    IF i >= Len(s) THEN [frame EXCEPT ![s[Len(s)]] = Destroyed(s[Len(s)])] ELSE frame

EraseDead(i) ==
    /\ pc = "erase"
    /\ i \in toDelete /\ \A j \in toDelete : i <= j
    /\ readers' = EraseAt(readers, i)
    /\ frame' = FrameAfterErase(readers, i)
    /\ toDelete' = toDelete \ {i}
    /\ IF toDelete' = {}
       THEN inWaiting' = NoneWaiting /\ pc' = "loop"
       ELSE UNCHANGED <<inWaiting, pc>>
    /\ UNCHANGED <<wants, input, hungup, cursor, fds, revents, current, signal>>

-----------------------------------------------------------------------------
Body == BodyAwaits \/ BodyReturns \/ BodyThrows \/ BodySpawns

Scheduler ==
    \/ EnterRound \/ Return
    \/ PrepareDead \/ PrepareLive \/ ThrowMultipleConsumers \/ Poll
    \/ \E f \in Fd : AbortOnMissingConsumer(f) \/ Resume(f)
    \/ Clean
    \/ \E i \in toDelete : EraseDead(i)

Environment == \E f \in Fd : (Arrive(f) \/ HangUp(f)) /\ UNCHANGED schedVars

Next == Scheduler \/ Body \/ Environment

Spec == Init /\ [][Next]_vars

-----------------------------------------------------------------------------
(* Properties.  A definition above marked "mutant" is a faulty variant of  *)
(* the one that follows it, used to show that a property can fail.         *)

(***************************************************************************)
(* The pointer filed for a descriptor designates a live reader that waits  *)
(* on it whenever it may be used, also while readers are resumed, finish   *)
(* and are added.                                                          *)
(***************************************************************************)
ConsumersValid ==
    pc \in {"loop", "prep", "poll", "dispatch", "running"} =>
        \A f \in Fd : inWaiting[f] # 0 =>
            LET slot == inWaiting[f]
            IN  /\ slot \in 1..Len(readers)
                /\ Live(readers[slot]) /\ wants[readers[slot]] = f

(***************************************************************************)
(* When poll() is entered every live reader of the vector has the          *)
(* descriptor it waits on for itself, and is the one filed under it.       *)
(***************************************************************************)
OneConsumerPerFd ==
    pc = "poll" =>
        \A i \in 1..Len(readers) : Live(readers[i]) =>
            LET w == wants[readers[i]]
            IN  w \in fds /\ inWaiting[w] = i

(***************************************************************************)
(* "Multiple consumers for ..." is thrown when two live readers wait on    *)
(* one descriptor.                                                         *)
(***************************************************************************)
ThrownForASharedFd ==
    pc = "multiple" =>
        \E i, j \in 1..Len(readers) :
            /\ i # j
            /\ Live(readers[i]) /\ Live(readers[j])
            /\ wants[readers[i]] = wants[readers[j]]
-----------------------------------------------------------------------------
(***************************************************************************)
(* The scheduler as its readers see it.                                    *)
(***************************************************************************)
Outcome ==
    CASE pc \in {"returned", "thrown", "crashed"} -> pc
      [] pc \in {"multiple", "aborted"} -> "refused"
      [] OTHER -> "none"

Scheduled(c) == \E i \in 1..Len(readers) : readers[i] = c

\* No live reader has dropped out of the vector, killed or left behind.
NoneLost == \A c \in Coro : frame[c] # "killed" /\ (Live(c) => Scheduled(c))

R == INSTANCE Reactor WITH
        life <- life, awaits <- awaits, ready <- revents,
        outcome <- Outcome, Exclusive <- TRUE, broken <- ~NoneLost

(***************************************************************************)
(* Until it erases a live reader the scheduler is a reactor: it polls what *)
(* live readers await and resumes for each report the reader that awaits   *)
(* it; it gives up, if it does, between two rounds only.                   *)
(***************************************************************************)
ImplementsReactor == R!Spec
=============================================================================
