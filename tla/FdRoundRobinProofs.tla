------------------------- MODULE FdRoundRobinProofs -------------------------
(***************************************************************************)
(* Proofs about the round-robin scheduler: for any set of coroutines and   *)
(* descriptors, any initial vector and any capacity.                       *)
(***************************************************************************)
EXTENDS FdRoundRobin, FiniteSetTheorems, TLAPS

-----------------------------------------------------------------------------
(* Sequences.                                                              *)

(* Popping the front of a deque keeps the others in their order.           *)
LEMMA TailElements ==
    ASSUME NEW S, NEW q \in Seq(S), q # << >>
    PROVE  /\ Tail(q) \in Seq(S)
           /\ Head(q) = q[1] /\ 1 \in 1..Len(q)
           /\ Len(Tail(q)) = Len(q) - 1
           /\ \A i \in 1..Len(Tail(q)) : Tail(q)[i] = q[i + 1] /\ i + 1 \in 1..Len(q)
  OBVIOUS

(* push_back() leaves what is there in place.                              *)
LEMMA AppendElements ==
    ASSUME NEW S, NEW q \in Seq(S), NEW x \in S
    PROVE  /\ Append(q, x) \in Seq(S)
           /\ Len(Append(q, x)) = Len(q) + 1
           /\ Append(q, x)[Len(q) + 1] = x
           /\ \A i \in 1..Len(q) : Append(q, x)[i] = q[i]
  OBVIOUS

(* vector::erase(), also past the end: each element that stays comes from  *)
(* a slot of its own, and the order is kept.                               *)
LEMMA EraseAtElements ==
    ASSUME NEW S, NEW s \in Seq(S), NEW i \in Nat \ {0}
    PROVE  /\ EraseAt(s, i) \in Seq(S)
           /\ Len(EraseAt(s, i)) = IF s = << >> THEN 0 ELSE Len(s) - 1
           /\ \A j \in 1..Len(EraseAt(s, i)) :
                 /\ j \in 1..Len(s) /\ j + 1 \in 1..Len(s)
                 /\ EraseAt(s, i)[j] = IF j < i THEN s[j] ELSE s[j + 1]
<1>1. CASE s = << >>
  <2>1. Len(s) = 0 /\ 1..(Len(s) - 1) = {}
    BY <1>1
  <2>2. EraseAt(s, i) = << >>
    BY <2>1 DEF EraseAt
  <2>3. << >> \in Seq(S) /\ Len(<< >>) = 0
    OBVIOUS
  <2>4. \A j \in 1..0 : FALSE
    OBVIOUS
  <2>5. Len(EraseAt(s, i)) = 0 /\ EraseAt(s, i) \in Seq(S)
    BY <2>2, <2>3
  <2>6. \A j \in 1..Len(EraseAt(s, i)) : FALSE
    BY <2>5, <2>4
  <2> QED
    BY <1>1, <2>5, <2>6
<1>2. CASE s # << >>
  <2> DEFINE e == EraseAt(s, i)
  <2>1. Len(s) \in Nat /\ Len(s) >= 1 /\ Len(s) - 1 \in Nat
    BY <1>2
  <2>2. \A j \in 1..(Len(s) - 1) : s[j] \in S /\ s[j + 1] \in S
    BY <2>1
  <2>3. e \in [1..(Len(s) - 1) -> S]
    BY <2>2 DEF EraseAt
  <2>4. e \in Seq(S) /\ Len(e) = Len(s) - 1
    BY <2>1, <2>3
  <2>5. \A j \in 1..(Len(s) - 1) : e[j] = IF j < i THEN s[j] ELSE s[j + 1]
    BY DEF EraseAt
  <2> QED
    BY <1>2, <2>1, <2>4, <2>5
<1> QED
  BY <1>1, <1>2

-----------------------------------------------------------------------------
(***************************************************************************)
(* The inductive invariant.  Pointers are compared, in the code, by        *)
(* address; what makes that sound is that a coroutine has one slot in the  *)
(* vector and one entry in one deque, and that the reader being resumed    *)
(* has none: whatever its body does next, no deque can become stale.       *)
(***************************************************************************)
Active == {"loop", "prep", "poll", "dispatch", "running"}

ControlOK ==
    /\ pc = "prep" => cursor \in 1..Len(readers)
    /\ pc = "running" => current \in Coro /\ signal \in Fd
    /\ pc \in {"loop", "prep", "poll", "dispatch", "erase"} => current = NoCoro
    /\ toDelete \subseteq Nat \ {0}

AwaitsADescriptor == \A c \in Coro : Live(c) => wants[c] \in Fd

VectorOK ==
    /\ \A i, j \in 1..Len(readers) : readers[i] = readers[j] => i = j
    /\ \A i \in 1..Len(readers) : frame[readers[i]] \in {"suspended", "done"}

WaitersDistinct ==
    pc \in Active =>
        \A f \in Fd : \A i \in 1..Len(inWaiting[f]) :
            /\ readers[inWaiting[f][i]] # current
            /\ \A j \in 1..Len(inWaiting[f]) :
                  inWaiting[f][i] = inWaiting[f][j] => i = j

PreparedSoFar ==
    pc = "prep" =>
        \A i \in 1..Len(readers) : i < cursor /\ Live(readers[i]) =>
            LET w == wants[readers[i]]
            IN  w \in fds /\ InQueue(i, inWaiting[w])

(***************************************************************************)
(* When run() enters poll(), no live reader of the vector is forgotten: it *)
(* is queued under its descriptor and its descriptor is polled, also when  *)
(* the index was cleared or the reader was added since the last round.     *)
(***************************************************************************)
PollIsComplete ==
    pc = "poll" =>
        \A i \in 1..Len(readers) : Live(readers[i]) =>
            LET w == wants[readers[i]]
            IN  w \in fds /\ InQueue(i, inWaiting[w])

(***************************************************************************)
(* A reader is resumed while suspended, with the descriptor it awaits: the *)
(* slot popped by dispatch was filed one or more rounds ago, under what    *)
(* the reader awaited then.                                                *)
(***************************************************************************)
SignalMatchesAwait ==
    pc = "running" => Live(current) /\ wants[current] = signal

IInv == /\ TypeOK /\ ControlOK /\ AwaitsADescriptor /\ VectorOK
        /\ WaitersValid /\ WaitersDistinct /\ SignalMatchesAwait
        /\ PreparedSoFar /\ PollIsComplete /\ ToDeleteIsDead

LEMMA NoCoroFacts == NoCoro \notin Coro
  BY CoroAssumption

LEMMA InitIInv == Init => IInv
<1> SUFFICES ASSUME Init PROVE IInv
  OBVIOUS
<1>1. NoneWaiting \in [Fd -> Seq(Nat)] /\ \A f \in Fd : Len(NoneWaiting[f]) = 0
  BY DEF NoneWaiting
<1>2. TypeOK
  BY <1>1, CoroAssumption DEF Init, ReaderInit, TypeOK, ReaderTypeOK, FrameState
<1>3. ControlOK /\ SignalMatchesAwait /\ PreparedSoFar /\ PollIsComplete /\ ToDeleteIsDead
  BY DEF Init, ControlOK, Active, SignalMatchesAwait, PreparedSoFar, PollIsComplete,
         ToDeleteIsDead
<1>4. AwaitsADescriptor /\ VectorOK
  <2> DEFINE added == {Initial[i] : i \in 1..Len(Initial)}
  <2>1. \A c \in added : Born(c)
    BY DEF Init, ReaderInit
  <2>2. \A c \in Coro \ added : frame[c] = "unborn"
    BY DEF Init, ReaderInit
  <2>3. AwaitsADescriptor
    BY <2>1, <2>2 DEF AwaitsADescriptor, Born, Live
  <2>4. VectorOK
    BY <2>1, CoroAssumption DEF VectorOK, Born, Init
  <2> QED
    BY <2>3, <2>4
<1>5. WaitersValid /\ WaitersDistinct
  BY <1>1 DEF Init, WaitersValid, WaitersDistinct
<1> QED
  BY <1>2, <1>3, <1>4, <1>5 DEF IInv

-----------------------------------------------------------------------------
(* The kernel and the control steps that leave readers and queues alone.   *)
LEMMA EnvironmentIInv == IInv /\ Environment => IInv'
<1> SUFFICES ASSUME IInv, NEW f \in Fd, (Arrive(f) \/ HangUp(f)) /\ UNCHANGED schedVars
             PROVE  IInv'
  BY DEF Environment
<1>1. /\ UNCHANGED <<frame, wants, pc, readers, cursor, fds, inWaiting, revents,
                     toDelete, current, signal>>
      /\ input' \subseteq Fd /\ hungup' \subseteq Fd
  BY DEF Arrive, HangUp, schedVars, IInv, TypeOK, ReaderTypeOK
<1>2. TypeOK'
  BY <1>1 DEF IInv, TypeOK, ReaderTypeOK, Stopped
<1>3. ControlOK' /\ AwaitsADescriptor' /\ VectorOK' /\ SignalMatchesAwait' /\ ToDeleteIsDead'
  BY <1>1 DEF IInv, ControlOK, AwaitsADescriptor, VectorOK, SignalMatchesAwait,
              ToDeleteIsDead, Live
<1>4. WaitersValid' /\ WaitersDistinct' /\ PreparedSoFar' /\ PollIsComplete'
  BY <1>1 DEF IInv, WaitersValid, WaitersDistinct, PreparedSoFar, PollIsComplete,
              InQueue, Live
<1> QED
  BY <1>2, <1>3, <1>4 DEF IInv

LEMMA ControlIInv ==
    IInv /\ (EnterRound \/ Return \/ Poll \/ Clean
               \/ \E f \in Fd : AbortOnMissingWaiter(f)) => IInv'
<1> SUFFICES ASSUME IInv, EnterRound \/ Return \/ Poll \/ Clean
                            \/ \E f \in Fd : AbortOnMissingWaiter(f)
             PROVE  IInv'
  OBVIOUS
<1>1. UNCHANGED <<frame, wants, input, hungup, readers, inWaiting, current, signal>>
  BY DEF EnterRound, Return, Poll, Clean, AbortOnMissingWaiter, readerVars
<1>2. pc' # "running"
  BY DEF EnterRound, Return, Poll, Clean, AbortOnMissingWaiter
<1>3. pc' \in Active => pc \in Active \ {"running"}
  BY DEF EnterRound, Return, Poll, Clean, AbortOnMissingWaiter, Active
<1>4. TypeOK'
  <2> USE DEF IInv, TypeOK
  <2>1. fds' \subseteq Fd
    BY DEF EnterRound, Return, Poll, Clean, AbortOnMissingWaiter
  <2>2. revents' \subseteq Fd
    BY DEF EnterRound, Return, Poll, Clean, AbortOnMissingWaiter, Readable
  <2>3. (cursor' = 1 \/ cursor' = cursor) /\ (toDelete' = {} \/ toDelete' = toDelete)
    BY DEF EnterRound, Return, Poll, Clean, AbortOnMissingWaiter
  <2>4. pc' \in {"prep", "returned", "dispatch", "loop", "erase", "aborted"}
    BY DEF EnterRound, Return, Poll, Clean, AbortOnMissingWaiter
  <2>5. cursor' \in Nat \ {0}
    BY <2>3
  <2>6. toDelete' \subseteq Nat
    BY <2>3
  <2> QED
    BY <1>1, <2>1, <2>2, <2>4, <2>5, <2>6 DEF ReaderTypeOK, Stopped
<1>5. ControlOK'
  <2>1. pc' = "prep" => cursor' = 1 /\ 1 \in 1..Len(readers)
    BY DEF EnterRound, Return, Poll, Clean, AbortOnMissingWaiter, AnyRunning, IInv, TypeOK
  <2>2. toDelete' \subseteq Nat \ {0}
    BY DEF EnterRound, Return, Poll, Clean, AbortOnMissingWaiter, IInv, ControlOK
  <2>3. pc \in {"loop", "poll", "dispatch"}
    BY DEF EnterRound, Return, Poll, Clean, AbortOnMissingWaiter
  <2>4. current' = NoCoro
    BY <1>1, <2>3 DEF IInv, ControlOK
  <2> QED
    BY <1>1, <1>2, <2>1, <2>2, <2>4 DEF ControlOK
<1>6. AwaitsADescriptor' /\ VectorOK' /\ SignalMatchesAwait'
  BY <1>1, <1>2 DEF IInv, AwaitsADescriptor, VectorOK, SignalMatchesAwait, Live
<1>7. WaitersValid' /\ WaitersDistinct'
  BY <1>1, <1>3 DEF IInv, WaitersValid, WaitersDistinct, Live, Active
<1>8. PreparedSoFar'
  BY <1>1 DEF EnterRound, Return, Poll, Clean, AbortOnMissingWaiter, PreparedSoFar
<1>9. PollIsComplete'
  BY DEF EnterRound, Return, Poll, Clean, AbortOnMissingWaiter, PollIsComplete
<1>10. ToDeleteIsDead'
  BY <1>1 DEF EnterRound, Return, Poll, Clean, AbortOnMissingWaiter, ToDeleteIsDead,
              IInv, Live
<1> QED
  BY <1>4, <1>5, <1>6, <1>7, <1>8, <1>9, <1>10 DEF IInv

-----------------------------------------------------------------------------
(* Preparation: filing a live reader, or noting a dead one.                *)
LEMMA NextReaderSteps ==
    ASSUME IInv, pc = "prep", NextReader
    PROVE  /\ cursor \in 1..Len(readers)
           /\ pc' \in {"prep", "poll"} /\ cursor' \in Nat \ {0}
           /\ pc' = "prep" => cursor' = cursor + 1 /\ cursor' \in 1..Len(readers)
           /\ pc' = "poll" => cursor = Len(readers)
  BY DEF IInv, TypeOK, ControlOK, NextReader

LEMMA PrepareDeadIInv == IInv /\ PrepareDead => IInv'
<1> SUFFICES ASSUME IInv, PrepareDead PROVE IInv'
  OBVIOUS
<1>1. /\ UNCHANGED <<frame, wants, input, hungup, readers, fds, inWaiting, revents,
                     current, signal>>
      /\ pc = "prep" /\ ~Live(readers[cursor]) /\ toDelete' = toDelete \cup {cursor}
      /\ NextReader
  BY DEF PrepareDead, readerVars
<1>2. /\ cursor \in 1..Len(readers)
      /\ pc' \in {"prep", "poll"} /\ cursor' \in Nat \ {0}
      /\ pc' = "prep" => cursor' = cursor + 1 /\ cursor' \in 1..Len(readers)
      /\ pc' = "poll" => cursor = Len(readers)
  BY <1>1, NextReaderSteps
<1>3. TypeOK'
  BY <1>1, <1>2 DEF IInv, TypeOK, ReaderTypeOK
<1>4. ControlOK' /\ AwaitsADescriptor' /\ VectorOK' /\ SignalMatchesAwait'
  BY <1>1, <1>2 DEF IInv, ControlOK, AwaitsADescriptor, VectorOK, SignalMatchesAwait,
                    Live, Active
<1>5. WaitersValid' /\ WaitersDistinct'
  BY <1>1, <1>2 DEF IInv, WaitersValid, WaitersDistinct, Live, Active
<1>6. \A i \in 1..Len(readers) : i < cursor + 1 /\ Live(readers[i]) =>
          LET w == wants[readers[i]] IN w \in fds /\ InQueue(i, inWaiting[w])
  BY <1>1, <1>2 DEF IInv, TypeOK, PreparedSoFar
<1>7. PreparedSoFar'
  BY <1>1, <1>2, <1>6 DEF PreparedSoFar, InQueue, Live
<1>9. PollIsComplete'
  <2>1. pc' = "poll" => \A i \in 1..Len(readers) : i < cursor + 1
    BY <1>2
  <2> QED
    BY <1>1, <1>6, <2>1 DEF PollIsComplete, InQueue, Live
<1>8. ToDeleteIsDead'
  BY <1>1, <1>2 DEF IInv, ToDeleteIsDead, Live
<1> QED
  BY <1>3, <1>4, <1>5, <1>7, <1>8, <1>9 DEF IInv

LEMMA EnqueueFiles ==
    ASSUME IInv, NEW w \in Fd, NEW k \in Nat
    PROVE  /\ Enqueue(k, w) \in [Fd -> Seq(Nat)]
           /\ InQueue(k, Enqueue(k, w)[w])
           /\ \A f \in Fd : \A i \in 1..Len(inWaiting[f]) :
                 i \in 1..Len(Enqueue(k, w)[f]) /\ Enqueue(k, w)[f][i] = inWaiting[f][i]
           /\ \A f \in Fd : \A i \in 1..Len(Enqueue(k, w)[f]) :
                 \/ i \in 1..Len(inWaiting[f]) /\ Enqueue(k, w)[f][i] = inWaiting[f][i]
                 \/ /\ f = w /\ Enqueue(k, w)[f][i] = k
                    /\ i = Len(inWaiting[f]) + 1 /\ ~InQueue(k, inWaiting[f])
<1> DEFINE q == inWaiting[w]
<1>1. inWaiting \in [Fd -> Seq(Nat)] /\ q \in Seq(Nat)
  BY DEF IInv, TypeOK
<1>2. CASE InQueue(k, q)
  BY <1>1, <1>2 DEF Enqueue
<1>3. CASE ~InQueue(k, q)
  <2>1. /\ Append(q, k) \in Seq(Nat)
        /\ Len(Append(q, k)) = Len(q) + 1 /\ Len(q) \in Nat
        /\ Append(q, k)[Len(q) + 1] = k
        /\ \A i \in 1..Len(q) : Append(q, k)[i] = q[i]
    BY <1>1, AppendElements
  <2>2. Enqueue(k, w) = [inWaiting EXCEPT ![w] = Append(q, k)]
    BY <1>3 DEF Enqueue
  <2>3. Enqueue(k, w)[w] = Append(q, k) /\ \A f \in Fd : f # w => Enqueue(k, w)[f] = inWaiting[f]
    BY <1>1, <2>2
  <2>4. InQueue(k, Append(q, k))
    <3>1. Len(q) + 1 \in 1..Len(Append(q, k))
      BY <2>1
    <3> QED
      BY <2>1, <3>1 DEF InQueue
  <2>5. Enqueue(k, w) \in [Fd -> Seq(Nat)]
    BY <1>1, <2>1, <2>2
  <2>6. \A f \in Fd : \A i \in 1..Len(inWaiting[f]) :
           i \in 1..Len(Enqueue(k, w)[f]) /\ Enqueue(k, w)[f][i] = inWaiting[f][i]
    <3> SUFFICES ASSUME NEW f \in Fd, NEW i \in 1..Len(inWaiting[f])
                 PROVE  i \in 1..Len(Enqueue(k, w)[f]) /\ Enqueue(k, w)[f][i] = inWaiting[f][i]
      OBVIOUS
    <3>1. CASE f = w
      BY <2>1, <2>3, <3>1
    <3>2. CASE f # w
      BY <2>3, <3>2
    <3> QED
      BY <3>1, <3>2
  <2>7. \A f \in Fd : \A i \in 1..Len(Enqueue(k, w)[f]) :
           \/ i \in 1..Len(inWaiting[f]) /\ Enqueue(k, w)[f][i] = inWaiting[f][i]
           \/ /\ f = w /\ Enqueue(k, w)[f][i] = k
              /\ i = Len(inWaiting[f]) + 1 /\ ~InQueue(k, inWaiting[f])
    <3> SUFFICES ASSUME NEW f \in Fd, NEW i \in 1..Len(Enqueue(k, w)[f])
                 PROVE  \/ i \in 1..Len(inWaiting[f]) /\ Enqueue(k, w)[f][i] = inWaiting[f][i]
                        \/ /\ f = w /\ Enqueue(k, w)[f][i] = k
                           /\ i = Len(inWaiting[f]) + 1 /\ ~InQueue(k, inWaiting[f])
      OBVIOUS
    <3>1. CASE f = w
      <4>1. i \in 1..Len(q) \/ i = Len(q) + 1
        BY <2>1, <2>3, <3>1
      <4> QED
        BY <1>3, <2>1, <2>3, <3>1, <4>1
    <3>2. CASE f # w
      BY <2>3, <3>2
    <3> QED
      BY <3>1, <3>2
  <2> QED
    BY <2>3, <2>4, <2>5, <2>6, <2>7
<1> QED
  BY <1>2, <1>3

LEMMA PrepareLiveIInv == IInv /\ PrepareLive => IInv'
<1> SUFFICES ASSUME IInv, PrepareLive PROVE IInv'
  OBVIOUS
<1> DEFINE w == wants[readers[cursor]]
<1>1. /\ UNCHANGED <<frame, wants, input, hungup, readers, revents, toDelete,
                     current, signal>>
      /\ pc = "prep" /\ Live(readers[cursor])
      /\ fds' = fds \cup {w} /\ inWaiting' = Enqueue(cursor, w)
      /\ NextReader
  BY DEF PrepareLive, readerVars
<1>2. /\ cursor \in 1..Len(readers) /\ cursor \in Nat
      /\ pc' \in {"prep", "poll"} /\ cursor' \in Nat \ {0}
      /\ pc' = "prep" => cursor' = cursor + 1 /\ cursor' \in 1..Len(readers)
      /\ pc' = "poll" => cursor = Len(readers)
  BY <1>1, NextReaderSteps DEF IInv, TypeOK
<1>3. readers[cursor] \in Coro /\ w \in Fd
  BY <1>1, <1>2 DEF IInv, TypeOK, AwaitsADescriptor
<1>4. /\ inWaiting' \in [Fd -> Seq(Nat)]
      /\ InQueue(cursor, inWaiting'[w])
      /\ \A f \in Fd : \A i \in 1..Len(inWaiting[f]) :
            i \in 1..Len(inWaiting'[f]) /\ inWaiting'[f][i] = inWaiting[f][i]
      /\ \A f \in Fd : \A i \in 1..Len(inWaiting'[f]) :
            \/ i \in 1..Len(inWaiting[f]) /\ inWaiting'[f][i] = inWaiting[f][i]
            \/ /\ f = w /\ inWaiting'[f][i] = cursor
               /\ i = Len(inWaiting[f]) + 1 /\ ~InQueue(cursor, inWaiting[f])
  <2> DEFINE e == Enqueue(cursor, w)
  <2>1. /\ e \in [Fd -> Seq(Nat)]
        /\ InQueue(cursor, e[w])
        /\ \A f \in Fd : \A i \in 1..Len(inWaiting[f]) :
              i \in 1..Len(e[f]) /\ e[f][i] = inWaiting[f][i]
        /\ \A f \in Fd : \A i \in 1..Len(e[f]) :
              \/ i \in 1..Len(inWaiting[f]) /\ e[f][i] = inWaiting[f][i]
              \/ /\ f = w /\ e[f][i] = cursor
                 /\ i = Len(inWaiting[f]) + 1 /\ ~InQueue(cursor, inWaiting[f])
    BY <1>2, <1>3, EnqueueFiles
  <2>2. inWaiting' = e
    BY <1>1
  <2> HIDE DEF e, w
  <2> QED
    BY <2>1, <2>2
<1>5. TypeOK'
  BY <1>1, <1>2, <1>3, <1>4 DEF IInv, TypeOK, ReaderTypeOK
<1>6. ControlOK' /\ AwaitsADescriptor' /\ VectorOK' /\ SignalMatchesAwait' /\ ToDeleteIsDead'
  BY <1>1, <1>2 DEF IInv, ControlOK, AwaitsADescriptor, VectorOK, SignalMatchesAwait,
                    ToDeleteIsDead, Live, Active
<1>7. WaitersValid'
  <2> SUFFICES ASSUME NEW f \in Fd, NEW i \in 1..Len(inWaiting'[f])
               PROVE  /\ inWaiting'[f][i] \in 1..Len(readers)
                      /\ Live(readers[inWaiting'[f][i]])
                      /\ wants[readers[inWaiting'[f][i]]] = f
    BY <1>1 DEF WaitersValid, Live
  <2>1. CASE i \in 1..Len(inWaiting[f]) /\ inWaiting'[f][i] = inWaiting[f][i]
    BY <1>1, <2>1 DEF IInv, WaitersValid
  <2>2. CASE f = w /\ inWaiting'[f][i] = cursor
    BY <1>1, <1>2, <2>2
  <2> QED
    BY <1>4, <2>1, <2>2
<1>8. WaitersDistinct'
  <2>1. current = NoCoro /\ readers[cursor] # current
    BY <1>1, <1>3, NoCoroFacts DEF IInv, ControlOK, Active
  <2> SUFFICES ASSUME NEW f \in Fd, NEW i \in 1..Len(inWaiting'[f])
               PROVE  /\ readers[inWaiting'[f][i]] # current
                      /\ \A j \in 1..Len(inWaiting'[f]) :
                            inWaiting'[f][i] = inWaiting'[f][j] => i = j
    BY <1>1 DEF WaitersDistinct
  <2>2. readers[inWaiting'[f][i]] # current
    <3>1. CASE i \in 1..Len(inWaiting[f]) /\ inWaiting'[f][i] = inWaiting[f][i]
      BY <1>1, <3>1 DEF IInv, WaitersDistinct, Active
    <3>2. CASE inWaiting'[f][i] = cursor
      BY <2>1, <3>2
    <3> QED
      BY <1>4, <3>1, <3>2
  <2>3. ASSUME NEW j \in 1..Len(inWaiting'[f]), inWaiting'[f][i] = inWaiting'[f][j]
        PROVE  i = j
    <3> DEFINE Old(k) == k \in 1..Len(inWaiting[f]) /\ inWaiting'[f][k] = inWaiting[f][k]
               New(k) == /\ inWaiting'[f][k] = cursor /\ k = Len(inWaiting[f]) + 1
                         /\ ~InQueue(cursor, inWaiting[f])
    <3>1. (Old(i) \/ New(i)) /\ (Old(j) \/ New(j))
      BY <1>4
    <3>2. CASE Old(i) /\ Old(j)
      BY <1>1, <2>3, <3>2 DEF IInv, WaitersDistinct, Active
    <3>3. CASE New(i) /\ New(j)
      BY <3>3
    <3>4. CASE Old(i) /\ New(j)
      <4>1. inWaiting[f][i] = cursor /\ i \in 1..Len(inWaiting[f])
        BY <2>3, <3>4
      <4> QED
        BY <3>4, <4>1 DEF InQueue
    <3>5. CASE New(i) /\ Old(j)
      <4>1. inWaiting[f][j] = cursor /\ j \in 1..Len(inWaiting[f])
        BY <2>3, <3>5
      <4> QED
        BY <3>5, <4>1 DEF InQueue
    <3> QED
      BY <3>1, <3>2, <3>3, <3>4, <3>5
  <2> QED
    BY <2>2, <2>3
<1>9. \A f \in Fd, i \in Nat : InQueue(i, inWaiting[f]) => InQueue(i, inWaiting'[f])
  BY <1>4 DEF InQueue
<1>10. \A i \in 1..Len(readers) : i < cursor + 1 /\ Live(readers[i]) =>
          LET v == wants[readers[i]] IN v \in fds' /\ InQueue(i, inWaiting'[v])
  <2> SUFFICES ASSUME NEW i \in 1..Len(readers), i < cursor + 1, Live(readers[i])
               PROVE  wants[readers[i]] \in fds' /\ InQueue(i, inWaiting'[wants[readers[i]]])
    OBVIOUS
  <2>1. CASE i = cursor
    BY <1>1, <1>4, <2>1
  <2>2. CASE i < cursor
    <3>1. wants[readers[i]] \in fds /\ InQueue(i, inWaiting[wants[readers[i]]])
      BY <1>1, <2>2 DEF IInv, PreparedSoFar
    <3> QED
      BY <1>1, <1>9, <3>1 DEF IInv, TypeOK
  <2> QED
    BY <1>2, <2>1, <2>2
<1>11. PreparedSoFar'
  BY <1>1, <1>2, <1>10 DEF PreparedSoFar, Live
<1>12. PollIsComplete'
  <2>1. pc' = "poll" => \A i \in 1..Len(readers) : i < cursor + 1
    BY <1>2
  <2> QED
    BY <1>1, <1>10, <2>1 DEF PollIsComplete, Live
<1> QED
  BY <1>5, <1>6, <1>7, <1>8, <1>11, <1>12 DEF IInv

-----------------------------------------------------------------------------
(* Dispatch.  The reader popped from a deque is in no deque any more.      *)
LEMMA ResumeIInv == ASSUME IInv, NEW f \in Fd, Resume(f) PROVE IInv'
<1> DEFINE q == inWaiting[f]
           s == Head(q)
<1>1. /\ UNCHANGED <<frame, wants, hungup, readers, cursor, fds, toDelete>>
      /\ pc = "dispatch" /\ pc' = "running" /\ q # << >>
      /\ inWaiting' = [inWaiting EXCEPT ![f] = Tail(q)]
      /\ current' = readers[s] /\ signal' = f
      /\ revents' \subseteq Fd /\ input' \subseteq Fd
  BY DEF Resume, Reads, PopFront, IInv, TypeOK, ReaderTypeOK
<1>2. inWaiting \in [Fd -> Seq(Nat)] /\ q \in Seq(Nat)
  BY DEF IInv, TypeOK
<1>3. /\ Tail(q) \in Seq(Nat)
      /\ s = q[1] /\ 1 \in 1..Len(q)
      /\ \A i \in 1..Len(Tail(q)) : Tail(q)[i] = q[i + 1] /\ i + 1 \in 1..Len(q)
  BY <1>1, <1>2, TailElements
<1>4. inWaiting' \in [Fd -> Seq(Nat)] /\ inWaiting'[f] = Tail(q)
      /\ \A g \in Fd : g # f => inWaiting'[g] = inWaiting[g]
  BY <1>1, <1>2, <1>3
<1>5. s \in 1..Len(readers) /\ Live(readers[s]) /\ wants[readers[s]] = f
  BY <1>1, <1>3 DEF IInv, WaitersValid
<1>6. readers[s] \in Coro
  BY <1>5 DEF IInv, TypeOK
<1>7. TypeOK'
  BY <1>1, <1>4, <1>6 DEF IInv, TypeOK, ReaderTypeOK
<1>8. ControlOK' /\ AwaitsADescriptor' /\ VectorOK' /\ SignalMatchesAwait' /\ ToDeleteIsDead'
      /\ PreparedSoFar' /\ PollIsComplete'
  BY <1>1, <1>5, <1>6 DEF IInv, ControlOK, AwaitsADescriptor, VectorOK, SignalMatchesAwait,
     ToDeleteIsDead, PreparedSoFar, PollIsComplete, Live, Active
<1>9. WaitersValid'
  BY <1>1, <1>3, <1>4 DEF IInv, WaitersValid, Live
<1>10. WaitersDistinct'
  <2> SUFFICES ASSUME NEW g \in Fd, NEW i \in 1..Len(inWaiting'[g])
               PROVE  /\ readers[inWaiting'[g][i]] # readers[s]
                      /\ \A j \in 1..Len(inWaiting'[g]) :
                            inWaiting'[g][i] = inWaiting'[g][j] => i = j
    BY <1>1 DEF WaitersDistinct
  <2>1. CASE g = f
    <3>1. inWaiting'[g][i] = q[i + 1] /\ i + 1 \in 1..Len(q) /\ i \in Nat /\ i + 1 # 1
      <4>1. i \in 1..Len(Tail(q))
        BY <1>4, <2>1
      <4>2. i \in Nat /\ i + 1 # 1
        BY <4>1
      <4> QED
        BY <1>3, <1>4, <2>1, <4>1, <4>2
    <3>2. q[i + 1] # q[1] /\ q[i + 1] \in 1..Len(readers)
      BY <1>1, <1>3, <3>1 DEF IInv, WaitersDistinct, WaitersValid, Active
    <3>3. readers[q[i + 1]] # readers[s]
      BY <1>3, <1>5, <3>2 DEF IInv, VectorOK
    <3>4. \A j \in 1..Len(inWaiting'[g]) : inWaiting'[g][j] = q[j + 1] /\ j + 1 \in 1..Len(q)
      BY <1>3, <1>4, <2>1
    <3>5. \A j \in 1..Len(inWaiting'[g]) : q[i + 1] = q[j + 1] => i + 1 = j + 1
      BY <1>1, <3>1, <3>4 DEF IInv, WaitersDistinct, Active
    <3> QED
      BY <3>1, <3>3, <3>4, <3>5
  <2>2. CASE g # f
    <3>1. i \in 1..Len(inWaiting[g]) /\ inWaiting'[g] = inWaiting[g]
      BY <1>4, <2>2
    <3>2. wants[readers[inWaiting[g][i]]] = g
      BY <1>1, <3>1 DEF IInv, WaitersValid
    <3> QED
      BY <1>1, <1>5, <2>2, <3>1, <3>2 DEF IInv, WaitersDistinct, Active
  <2> QED
    BY <2>1, <2>2
<1> QED
  BY <1>7, <1>8, <1>9, <1>10 DEF IInv

-----------------------------------------------------------------------------
(* The resumed body.  Only the entry of the coroutine that runs, and of    *)
(* one that was not born, change: no pointer of in_waiting designates them.*)
LEMMA QueuedIsNotCurrent ==
    ASSUME IInv, pc = "running", NEW f \in Fd, NEW i \in 1..Len(inWaiting[f])
    PROVE  LET s == inWaiting[f][i]
           IN  /\ s \in 1..Len(readers) /\ readers[s] \in Coro
               /\ readers[s] # current
               /\ Live(readers[s]) /\ wants[readers[s]] = f
  BY DEF IInv, TypeOK, WaitersValid, WaitersDistinct, Active

LEMMA BodyEndsIInv == IInv /\ (BodyAwaits \/ BodyReturns \/ BodyThrows) => IInv'
<1> SUFFICES ASSUME IInv, BodyAwaits \/ BodyReturns \/ BodyThrows PROVE IInv'
  OBVIOUS
<1>1. /\ UNCHANGED <<input, hungup, readers, cursor, fds, inWaiting, revents, toDelete>>
      /\ pc = "running" /\ pc' \in {"dispatch", "thrown"}
  BY DEF BodyAwaits, BodyReturns, BodyThrows, NextDescriptor
<1>2. current \in Coro
  BY <1>1 DEF IInv, ControlOK
<1>3. pc' = "dispatch" => current' = NoCoro /\ signal' = NoFd
  BY DEF BodyAwaits, BodyReturns, BodyThrows, NextDescriptor
<1>4. current' \in {current, NoCoro} /\ signal' \in {signal, NoFd}
  BY DEF BodyAwaits, BodyReturns, BodyThrows, NextDescriptor
<1>5. frame \in [Coro -> FrameState] /\ wants \in [Coro -> Fd \cup {NoFd}]
  BY DEF IInv, TypeOK, ReaderTypeOK
<1>6. /\ frame' \in [Coro -> FrameState] /\ wants' \in [Coro -> Fd \cup {NoFd}]
      /\ \A c \in Coro : c # current => frame'[c] = frame[c] /\ wants'[c] = wants[c]
      /\ \/ frame'[current] = frame[current] /\ wants'[current] \in Fd
         \/ frame'[current] = "done"
  <2>1. CASE BodyAwaits
    BY <1>2, <1>5, <2>1 DEF BodyAwaits, Await
  <2>2. CASE BodyReturns
    BY <1>2, <1>5, <2>2 DEF BodyReturns, ReturnVoid, FrameState
  <2>3. CASE BodyThrows
    BY <1>2, <1>5, <2>3 DEF BodyThrows, UnhandledException, FrameState
  <2> QED
    BY <2>1, <2>2, <2>3
<1>7. TypeOK'
  BY <1>1, <1>4, <1>6 DEF IInv, TypeOK, ReaderTypeOK, Stopped
<1>8. ControlOK'
  BY <1>1, <1>3 DEF IInv, ControlOK, Active
<1>9. AwaitsADescriptor'
  BY <1>2, <1>6 DEF IInv, AwaitsADescriptor, Live
<1>10. \A i \in 1..Len(readers) : readers[i] \in Coro
  BY DEF IInv, TypeOK
<1>11. Live(current)
  BY <1>1 DEF IInv, SignalMatchesAwait
<1>12. VectorOK'
  BY <1>1, <1>6, <1>10, <1>11 DEF IInv, VectorOK, Live
<1>13. WaitersValid'
  BY <1>1, <1>6, QueuedIsNotCurrent DEF WaitersValid, Live
<1>14. WaitersDistinct'
  <2> SUFFICES ASSUME pc' = "dispatch",
                      NEW f \in Fd, NEW i \in 1..Len(inWaiting[f])
               PROVE  /\ readers[inWaiting[f][i]] # NoCoro
                      /\ \A j \in 1..Len(inWaiting[f]) :
                            inWaiting[f][i] = inWaiting[f][j] => i = j
    BY <1>1, <1>3 DEF WaitersDistinct, Active
  <2>1. readers[inWaiting[f][i]] \in Coro
    BY <1>1, QueuedIsNotCurrent
  <2> QED
    BY <1>1, <2>1, NoCoroFacts DEF IInv, WaitersDistinct, Active
<1>15. ToDeleteIsDead'
  BY <1>1, <1>6, <1>10, <1>11 DEF IInv, ToDeleteIsDead, Live
<1>16. SignalMatchesAwait' /\ PreparedSoFar' /\ PollIsComplete'
  BY <1>1 DEF SignalMatchesAwait, PreparedSoFar, PollIsComplete
<1> QED
  BY <1>7, <1>8, <1>9, <1>12, <1>13, <1>14, <1>15, <1>16 DEF IInv

LEMMA BodySpawnsIInv == IInv /\ (BodySpawns \/ BodySpawnReallocates) => IInv'
<1> SUFFICES ASSUME IInv, BodySpawns \/ BodySpawnReallocates PROVE IInv'
  OBVIOUS
<1>1. /\ UNCHANGED <<input, hungup, cursor, fds, inWaiting, revents, toDelete,
                     current, signal>>
      /\ pc = "running" /\ pc' \in {"running", "crashed"}
  BY DEF BodySpawns, BodySpawnReallocates
<1>2. PICK c \in Coro : Create(c) /\ readers' = Append(readers, c)
  BY DEF BodySpawns, BodySpawnReallocates
<1>3. frame \in [Coro -> FrameState] /\ wants \in [Coro -> Fd \cup {NoFd}]
      /\ readers \in Seq(Coro)
  BY DEF IInv, TypeOK, ReaderTypeOK
<1>4. /\ frame' \in [Coro -> FrameState] /\ wants' \in [Coro -> Fd \cup {NoFd}]
      /\ \A d \in Coro : d # c => frame'[d] = frame[d] /\ wants'[d] = wants[d]
      /\ frame[c] = "unborn" /\ frame'[c] \in {"suspended", "done"}
      /\ frame'[c] = "suspended" => wants'[c] \in Fd
  BY <1>2, <1>3 DEF Create, FrameState
<1>5. /\ readers' \in Seq(Coro)
      /\ Len(readers') = Len(readers) + 1 /\ Len(readers) \in Nat
      /\ readers'[Len(readers) + 1] = c
      /\ \A i \in 1..Len(readers) : readers'[i] = readers[i]
  BY <1>2, <1>3, AppendElements
<1>6. \A i \in 1..Len(readers) : readers[i] \in Coro /\ readers[i] # c
  BY <1>3, <1>4 DEF IInv, VectorOK
<1>7. current \in Coro /\ current # c
  BY <1>1, <1>4 DEF IInv, ControlOK, SignalMatchesAwait, Live
<1>8. TypeOK'
  BY <1>1, <1>4, <1>5 DEF IInv, TypeOK, ReaderTypeOK, Stopped
<1>9. ControlOK' /\ PreparedSoFar' /\ PollIsComplete'
  BY <1>1 DEF IInv, ControlOK, PreparedSoFar, PollIsComplete, Active
<1>10. AwaitsADescriptor' /\ SignalMatchesAwait'
  BY <1>1, <1>4, <1>7 DEF IInv, AwaitsADescriptor, SignalMatchesAwait, Live
<1>11. \A i \in 1..Len(readers') : i \in 1..Len(readers) \/ i = Len(readers) + 1
  BY <1>5
<1>12. VectorOK'
  <2>1. \A i \in 1..Len(readers') : frame'[readers'[i]] \in {"suspended", "done"}
    BY <1>4, <1>5, <1>6, <1>11 DEF IInv, VectorOK
  <2>2. \A i, j \in 1..Len(readers') : readers'[i] = readers'[j] => i = j
    BY <1>5, <1>6, <1>11 DEF IInv, VectorOK
  <2> QED
    BY <2>1, <2>2 DEF VectorOK
<1>13. \A f \in Fd : \A i \in 1..Len(inWaiting[f]) :
          /\ inWaiting[f][i] \in 1..Len(readers')
          /\ readers'[inWaiting[f][i]] = readers[inWaiting[f][i]]
          /\ readers[inWaiting[f][i]] # current
          /\ readers[inWaiting[f][i]] \in Coro \ {c}
          /\ Live(readers[inWaiting[f][i]]) /\ wants[readers[inWaiting[f][i]]] = f
  BY <1>1, <1>5, <1>6, QueuedIsNotCurrent
<1>14. WaitersValid' /\ WaitersDistinct'
  BY <1>1, <1>4, <1>13 DEF IInv, WaitersValid, WaitersDistinct, Live, Active
<1>15. ToDeleteIsDead'
  BY <1>1, <1>4, <1>5, <1>6 DEF IInv, ToDeleteIsDead, Live
<1> QED
  BY <1>8, <1>9, <1>10, <1>12, <1>14, <1>15 DEF IInv

-----------------------------------------------------------------------------
(* A clean-up keeps the vector free of duplicates and of destroyed frames, *)
(* even when the slot it erases is not the one the iterator was taken for. *)
LEMMA EraseDeadIInv == ASSUME IInv, NEW i \in toDelete, EraseDead(i) PROVE IInv'
<1>1. /\ UNCHANGED <<wants, input, hungup, cursor, fds, revents, current, signal>>
      /\ pc = "erase" /\ readers' = EraseAt(readers, i)
      /\ frame' = FrameAfterErase(readers, i)
      /\ toDelete' \subseteq toDelete
      /\ \/ pc' = "loop" /\ inWaiting' = NoneWaiting
         \/ pc' = "erase" /\ inWaiting' = inWaiting
  BY DEF EraseDead
<1>2. /\ frame \in [Coro -> FrameState] /\ readers \in Seq(Coro)
      /\ inWaiting \in [Fd -> Seq(Nat)] /\ i \in Nat \ {0}
      /\ toDelete \subseteq Nat \ {0}
  BY DEF IInv, TypeOK, ReaderTypeOK, ControlOK
<1>3. /\ readers' \in Seq(Coro)
      /\ Len(readers') = IF readers = << >> THEN 0 ELSE Len(readers) - 1
      /\ \A j \in 1..Len(readers') :
            /\ j \in 1..Len(readers) /\ j + 1 \in 1..Len(readers)
            /\ readers'[j] = IF j < i THEN readers[j] ELSE readers[j + 1]
  BY <1>1, <1>2, EraseAtElements
<1>4. NoneWaiting \in [Fd -> Seq(Nat)] /\ \A f \in Fd : Len(NoneWaiting[f]) = 0
  BY DEF NoneWaiting
<1>5. inWaiting' \in [Fd -> Seq(Nat)]
  BY <1>1, <1>2, <1>4
<1>6. frame' \in [Coro -> FrameState]
      /\ \A c \in Coro : frame'[c] = frame[c] \/ frame'[c] \in {"destroyed", "killed"}
  BY <1>1, <1>2 DEF FrameAfterErase, Destroyed, FrameState
<1>7. TypeOK'
  BY <1>1, <1>2, <1>3, <1>5, <1>6 DEF IInv, TypeOK, ReaderTypeOK
<1>8. current = current' /\ current = NoCoro
  BY <1>1 DEF IInv, ControlOK, Active
<1>9. ControlOK'
  <2>1. toDelete' \subseteq Nat \ {0}
    BY <1>1, <1>2
  <2> QED
    BY <1>1, <1>8, <2>1 DEF ControlOK
<1>10. AwaitsADescriptor'
  BY <1>1, <1>6 DEF IInv, AwaitsADescriptor, Live
<1>11. \A j \in 1..Len(readers') : readers'[j] \in Coro
  BY <1>3
<1>12. \A j, k \in 1..Len(readers') : readers'[j] = readers'[k] => j = k
  <2> SUFFICES ASSUME NEW j \in 1..Len(readers'), NEW k \in 1..Len(readers'),
                      readers'[j] = readers'[k]
               PROVE  j = k
    OBVIOUS
  <2> DEFINE from(n) == IF n < i THEN n ELSE n + 1
  <2>1. /\ from(j) \in 1..Len(readers) /\ readers'[j] = readers[from(j)]
        /\ from(k) \in 1..Len(readers) /\ readers'[k] = readers[from(k)]
    BY <1>3
  <2>2. from(j) = from(k)
    BY <2>1 DEF IInv, VectorOK
  <2>3. j \in Nat /\ k \in Nat
    BY <1>3
  <2> QED
    BY <1>2, <2>2, <2>3
<1>13. \A j \in 1..Len(readers') : frame'[readers'[j]] \in {"suspended", "done"}
  <2> SUFFICES ASSUME NEW j \in 1..Len(readers')
               PROVE  frame'[readers'[j]] \in {"suspended", "done"}
    OBVIOUS
  <2>1. PICK m \in 1..Len(readers) : readers'[j] = readers[m] /\ (j < i => m = j)
    BY <1>3
  <2>2. frame[readers[m]] \in {"suspended", "done"}
    BY DEF IInv, VectorOK
  <2>3. CASE i < Len(readers)
    <3>1. frame' = frame
      BY <1>1, <1>2, <2>3 DEF FrameAfterErase
    <3> QED
      BY <2>1, <2>2, <3>1
  <2>4. CASE ~(i < Len(readers))
    <3>1. Len(readers) \in Nat /\ Len(readers) \in 1..Len(readers) /\ j < Len(readers)
      BY <1>2, <1>3, <2>1
    <3>2. j < i /\ m = j
      BY <1>2, <1>3, <2>1, <2>4, <3>1
    <3>3. readers[m] # readers[Len(readers)] /\ readers[m] \in Coro
      BY <1>2, <3>1, <3>2 DEF IInv, VectorOK
    <3>4. frame' = [frame EXCEPT ![readers[Len(readers)]] = Destroyed(readers[Len(readers)])]
      BY <1>1, <1>2, <2>4, <3>1 DEF FrameAfterErase
    <3> QED
      BY <1>2, <2>1, <2>2, <3>3, <3>4
  <2> QED
    BY <2>3, <2>4
<1>14. VectorOK'
  BY <1>12, <1>13 DEF VectorOK
<1>15. WaitersValid' /\ WaitersDistinct'
  BY <1>1, <1>4 DEF WaitersValid, WaitersDistinct, Active
<1>16. SignalMatchesAwait' /\ PreparedSoFar' /\ PollIsComplete' /\ ToDeleteIsDead'
  BY <1>1 DEF SignalMatchesAwait, PreparedSoFar, PollIsComplete, ToDeleteIsDead
<1> QED
  BY <1>7, <1>9, <1>10, <1>14, <1>15, <1>16 DEF IInv

-----------------------------------------------------------------------------
LEMMA StutterIInv == IInv /\ UNCHANGED vars => IInv'
  BY DEF IInv, TypeOK, ReaderTypeOK, ControlOK, AwaitsADescriptor, VectorOK,
         WaitersValid, WaitersDistinct, SignalMatchesAwait, PreparedSoFar,
         PollIsComplete, ToDeleteIsDead, InQueue, Live, vars, readerVars, schedVars

LEMMA NextIInv == IInv /\ [Next]_vars => IInv'
<1> SUFFICES ASSUME IInv, [Next]_vars PROVE IInv'
  OBVIOUS
<1>1. CASE Environment
  BY <1>1, EnvironmentIInv
<1>2. CASE EnterRound \/ Return \/ Poll \/ Clean \/ \E f \in Fd : AbortOnMissingWaiter(f)
  BY <1>2, ControlIInv
<1>3. CASE PrepareDead
  BY <1>3, PrepareDeadIInv
<1>4. CASE PrepareLive
  BY <1>4, PrepareLiveIInv
<1>5. CASE \E f \in Fd : Resume(f)
  BY <1>5, ResumeIInv
<1>6. CASE BodyAwaits \/ BodyReturns \/ BodyThrows
  BY <1>6, BodyEndsIInv
<1>7. CASE BodySpawns \/ BodySpawnReallocates
  BY <1>7, BodySpawnsIInv
<1>8. CASE \E i \in toDelete : EraseDead(i)
  BY <1>8, EraseDeadIInv
<1>9. CASE UNCHANGED vars
  BY <1>9, StutterIInv
<1> QED
  BY <1>1, <1>2, <1>3, <1>4, <1>5, <1>6, <1>7, <1>8, <1>9 DEF Next, Scheduler, Body

(* The invariant holds of every execution.                                 *)
THEOREM InvariantHolds == Spec => []IInv
<1>1. Init => IInv
  BY InitIInv
<1>2. IInv /\ [Next]_vars => IInv'
  BY NextIInv
<1> QED
  BY <1>1, <1>2, PTL DEF Spec

(* Every variable keeps its type, whatever the coroutines do, also in the  *)
(* rounds that erase the wrong reader.                                     *)
THEOREM TypeCorrect == Spec => []TypeOK
<1>1. IInv => TypeOK
  BY DEF IInv
<1> QED
  BY <1>1, InvariantHolds, PTL

(* in_waiting never holds a dangling, dead or misfiled pointer when run()  *)
(* may use it: the asserts of signal_ready() and waiting_on() hold.        *)
THEOREM WaitersAlwaysValid == Spec => []WaitersValid
<1>1. IInv => WaitersValid
  BY DEF IInv
<1> QED
  BY <1>1, InvariantHolds, PTL

(* poll() is entered with every live reader of the vector filed and its    *)
(* descriptor polled.                                                      *)
THEOREM PollAlwaysComplete == Spec => []PollIsComplete
<1>1. IInv => PollIsComplete
  BY DEF IInv
<1> QED
  BY <1>1, InvariantHolds, PTL

(* A reader is only ever resumed with the descriptor it awaits.            *)
THEOREM SignalAlwaysMatches == Spec => []SignalMatchesAwait
<1>1. IInv => SignalMatchesAwait
  BY DEF IInv
<1> QED
  BY <1>1, InvariantHolds, PTL

(* Up to the first erase() of a round, to_delete designates dead readers.  *)
THEOREM ToDeleteAlwaysDead == Spec => []ToDeleteIsDead
<1>1. IInv => ToDeleteIsDead
  BY DEF IInv
<1> QED
  BY <1>1, InvariantHolds, PTL
-----------------------------------------------------------------------------
(***************************************************************************)
(* What erase() may do to a vector whose iterators it has invalidated.     *)
(* However wrong the slots are, there are no more of them than elements.   *)
(***************************************************************************)
EraseBounded ==
    pc = "erase" => IsFiniteSet(toDelete) /\ Cardinality(toDelete) \in 1..Len(readers)

Scheduling == pc = "running" => Scheduled(current)

Kept == EraseBounded /\ Scheduling

LEMMA EraseBoundedStep == IInv /\ EraseBounded /\ [Next]_vars => EraseBounded'
<1> SUFFICES ASSUME IInv, EraseBounded, [Next]_vars, pc' = "erase"
             PROVE  IsFiniteSet(toDelete') /\ Cardinality(toDelete') \in 1..Len(readers')
  BY DEF EraseBounded
<1>1. readers \in Seq(Coro) /\ Len(readers) \in Nat
  BY DEF IInv, TypeOK
<1>2. CASE Clean
  <2>1. toDelete' = toDelete /\ readers' = readers /\ toDelete # {} /\ pc = "dispatch"
    BY <1>2 DEF Clean
  <2>2. toDelete \subseteq 1..Len(readers)
    BY <2>1 DEF IInv, ToDeleteIsDead
  <2>3. IsFiniteSet(1..Len(readers)) /\ Cardinality(1..Len(readers)) = Len(readers)
    BY <1>1, FS_Interval
  <2>4. IsFiniteSet(toDelete) /\ Cardinality(toDelete) <= Len(readers)
    BY <2>2, <2>3, FS_Subset
  <2>5. Cardinality(toDelete) \in Nat /\ Cardinality(toDelete) # 0
    BY <2>1, <2>4, FS_CardinalityType, FS_EmptySet
  <2> QED
    BY <1>1, <2>1, <2>4, <2>5
<1>3. ASSUME NEW i \in toDelete, EraseDead(i)
      PROVE  IsFiniteSet(toDelete') /\ Cardinality(toDelete') \in 1..Len(readers')
  <2>1. /\ pc = "erase" /\ toDelete' = toDelete \ {i} /\ toDelete' # {}
        /\ readers' = EraseAt(readers, i)
    BY <1>3 DEF EraseDead
  <2>2. IsFiniteSet(toDelete) /\ Cardinality(toDelete) \in 1..Len(readers)
    BY <2>1 DEF EraseBounded
  <2>3. IsFiniteSet(toDelete') /\ Cardinality(toDelete') = Cardinality(toDelete) - 1
    BY <2>1, <2>2, FS_RemoveElement
  <2>4. Cardinality(toDelete') \in Nat /\ Cardinality(toDelete') # 0
    BY <2>1, <2>3, FS_CardinalityType, FS_EmptySet
  <2>5. Len(readers') = Len(readers) - 1
    <3>1. i \in Nat \ {0} /\ readers # << >>
      BY <1>1, <2>2 DEF IInv, ControlOK
    <3> QED
      BY <1>1, <2>1, <3>1, EraseAtElements
  <2> QED
    BY <1>1, <2>2, <2>3, <2>4, <2>5
<1>4. CASE UNCHANGED vars \/ Environment
  <2>1. UNCHANGED <<pc, readers, toDelete>>
    BY <1>4 DEF vars, schedVars, Environment
  <2> QED
    BY <2>1 DEF EraseBounded
<1>5. CASE \/ EnterRound \/ Return \/ PrepareDead \/ PrepareLive \/ Poll \/ Body
           \/ \E f \in Fd : AbortOnMissingWaiter(f) \/ Resume(f)
  BY <1>5 DEF EnterRound, Return, PrepareDead, PrepareLive, NextReader, Poll, Body, BodyAwaits,
              BodyReturns, BodyThrows, BodySpawns, BodySpawnReallocates, NextDescriptor,
              AbortOnMissingWaiter, Resume
<1> QED
  BY <1>2, <1>3, <1>4, <1>5 DEF Next, Scheduler

LEMMA SchedulingStep == IInv /\ Scheduling /\ [Next]_vars => Scheduling'
<1> SUFFICES ASSUME IInv, Scheduling, [Next]_vars, pc' = "running" PROVE Scheduled(current)'
  BY DEF Scheduling
<1>1. readers \in Seq(Coro)
  BY DEF IInv, TypeOK
<1>2. CASE \E f \in Fd : Resume(f)
  <2>1. PICK f \in Fd : Resume(f)
    BY <1>2
  <2>2. /\ pc = "dispatch" /\ inWaiting[f] # << >> /\ readers' = readers
        /\ current' = readers[Head(inWaiting[f])]
    BY <2>1 DEF Resume
  <2>3. inWaiting[f] \in Seq(Nat)
    BY DEF IInv, TypeOK
  <2>4. Head(inWaiting[f]) = inWaiting[f][1] /\ 1 \in 1..Len(inWaiting[f])
    BY <2>2, <2>3, TailElements
  <2>5. Head(inWaiting[f]) \in 1..Len(readers)
    BY <2>2, <2>4 DEF IInv, WaitersValid
  <2> QED
    BY <2>2, <2>5 DEF Scheduled
<1>3. CASE BodySpawns
  <2>1. PICK c \in Coro : readers' = Append(readers, c)
    BY <1>3 DEF BodySpawns
  <2>2. current' = current /\ pc = "running"
    BY <1>3 DEF BodySpawns
  <2>3. PICK i \in 1..Len(readers) : readers[i] = current
    BY <2>2 DEF Scheduling, Scheduled
  <2>4. i \in 1..Len(readers') /\ readers'[i] = readers[i]
    BY <1>1, <2>1, <2>3, AppendElements
  <2> QED
    BY <2>2, <2>3, <2>4 DEF Scheduled
<1>4. CASE UNCHANGED vars \/ Environment
  <2>1. UNCHANGED <<pc, readers, current>>
    BY <1>4 DEF vars, schedVars, Environment
  <2> QED
    BY <2>1 DEF Scheduling, Scheduled
<1>5. CASE \/ EnterRound \/ Return \/ PrepareDead \/ PrepareLive \/ Poll \/ Clean
           \/ BodyAwaits \/ BodyReturns \/ BodyThrows \/ BodySpawnReallocates
           \/ (\E f \in Fd : AbortOnMissingWaiter(f)) \/ \E i \in toDelete : EraseDead(i)
  BY <1>5 DEF EnterRound, Return, PrepareDead, PrepareLive, NextReader, Poll, Clean, BodyAwaits,
              BodyReturns, BodyThrows, BodySpawnReallocates, NextDescriptor,
              AbortOnMissingWaiter, EraseDead
<1> QED
  BY <1>2, <1>3, <1>4, <1>5 DEF Next, Scheduler, Body

LEMMA KeptHolds == Spec => []Kept
<1>1. Init => Kept
  BY DEF Init, Kept, EraseBounded, Scheduling
<1>2. IInv /\ Kept /\ [Next]_vars => Kept'
  BY EraseBoundedStep, SchedulingStep DEF Kept
<1> QED
  BY <1>1, <1>2, InvariantHolds, PTL DEF Spec

(* The frame that an erase() destroys has ended, or is killed.             *)
LEMMA ErasedFrame ==
    ASSUME IInv, Kept, NEW i \in toDelete, EraseDead(i)
    PROVE  /\ \A c \in Coro : \/ frame'[c] = frame[c]
                              \/ frame[c] = "done" /\ frame'[c] = "destroyed"
                              \/ frame[c] = "suspended" /\ frame'[c] = "killed"
           /\ \A j \in 1..Len(readers') : \E k \in 1..Len(readers) : readers'[j] = readers[k]
<1>1. pc = "erase" /\ readers' = EraseAt(readers, i) /\ frame' = FrameAfterErase(readers, i)
  BY DEF EraseDead
<1>2. /\ frame \in [Coro -> FrameState] /\ readers \in Seq(Coro) /\ Len(readers) \in Nat
      /\ i \in Nat \ {0}
  BY DEF IInv, TypeOK, ReaderTypeOK, ControlOK
<1>3. Len(readers) >= 1 /\ Len(readers) \in 1..Len(readers)
  BY <1>1, <1>2 DEF Kept, EraseBounded
<1> DEFINE last == readers[Len(readers)]
<1>4. last \in Coro /\ frame[last] \in {"suspended", "done"}
  BY <1>2, <1>3 DEF IInv, VectorOK
<1>5. frame' = frame \/ frame' = [frame EXCEPT ![last] = Destroyed(last)]
  BY <1>1 DEF FrameAfterErase
<1>6. Destroyed(last) = IF frame[last] = "suspended" THEN "killed" ELSE "destroyed"
  BY DEF Destroyed, Live
<1>7. \A j \in 1..Len(readers') : \E k \in 1..Len(readers) : readers'[j] = readers[k]
  BY <1>1, <1>2, EraseAtElements
<1> HIDE DEF last
<1> QED
  BY <1>2, <1>4, <1>5, <1>6, <1>7

(* A live reader that has left the vector is never resumed or filed again. *)
LEMMA LostForGood == IInv /\ Kept /\ [Next]_vars /\ NoneLost' => NoneLost
<1> SUFFICES ASSUME IInv, Kept, [Next]_vars, NoneLost', NEW c \in Coro
             PROVE  frame[c] # "killed" /\ (Live(c) => Scheduled(c))
  BY DEF NoneLost
<1>1. /\ frame \in [Coro -> FrameState] /\ readers \in Seq(Coro)
      /\ frame'[c] # "killed"
      /\ frame'[c] = "suspended" => \E i \in 1..Len(readers') : readers'[i] = c
  BY DEF IInv, TypeOK, ReaderTypeOK, NoneLost, Live, Scheduled
<1>2. CASE UNCHANGED <<frame, readers>>
  BY <1>1, <1>2 DEF Live, Scheduled
<1>3. CASE BodyReturns \/ BodyThrows
  <2>1. /\ pc = "running" /\ readers' = readers
        /\ frame' = [frame EXCEPT ![current] = "done"]
    BY <1>3 DEF BodyReturns, BodyThrows, ReturnVoid, UnhandledException
  <2>2. Scheduled(current) /\ Live(current)
    BY <2>1 DEF Kept, Scheduling, IInv, SignalMatchesAwait
  <2>3. CASE c = current
    BY <2>2, <2>3 DEF Live
  <2>4. CASE c # current
    BY <1>1, <2>1, <2>4 DEF Live, Scheduled
  <2> QED
    BY <2>3, <2>4
<1>4. CASE BodySpawns \/ BodySpawnReallocates
  <2>1. PICK d \in Coro : Create(d) /\ readers' = Append(readers, d)
    BY <1>4 DEF BodySpawns, BodySpawnReallocates
  <2>2. frame[d] = "unborn" /\ \A x \in Coro : x # d => frame'[x] = frame[x]
    BY <1>1, <2>1 DEF Create
  <2>3. CASE c = d
    BY <2>2, <2>3 DEF Live
  <2>4. CASE c # d
    <3>1. \A i \in 1..Len(readers') : \/ i \in 1..Len(readers) /\ readers'[i] = readers[i]
                                      \/ readers'[i] = d
      <4>1. /\ Len(readers') = Len(readers) + 1 /\ Len(readers) \in Nat
            /\ readers'[Len(readers) + 1] = d
            /\ \A i \in 1..Len(readers) : readers'[i] = readers[i]
        BY <1>1, <2>1, AppendElements
      <4> QED
        BY <4>1
    <3> QED
      BY <1>1, <2>2, <2>4, <3>1 DEF Live, Scheduled
  <2> QED
    BY <2>3, <2>4
<1>5. CASE \E i \in toDelete : EraseDead(i)
  <2>1. /\ \/ frame'[c] = frame[c]
           \/ frame[c] = "done" /\ frame'[c] = "destroyed"
           \/ frame[c] = "suspended" /\ frame'[c] = "killed"
        /\ \A j \in 1..Len(readers') : \E k \in 1..Len(readers) : readers'[j] = readers[k]
    BY <1>5, ErasedFrame
  <2> QED
    BY <1>1, <2>1 DEF Live, Scheduled
<1>6. CASE \/ EnterRound \/ Return \/ PrepareDead \/ PrepareLive \/ Poll \/ Clean \/ BodyAwaits
           \/ (\E f \in Fd : AbortOnMissingWaiter(f) \/ Resume(f))
           \/ Environment \/ UNCHANGED vars
  <2>1. UNCHANGED <<frame, readers>>
    BY <1>6 DEF EnterRound, Return, PrepareDead, PrepareLive, Poll, Clean, BodyAwaits, Await,
                AbortOnMissingWaiter, Resume, Environment, Arrive, HangUp, schedVars, vars,
                readerVars
  <2> QED
    BY <1>2, <2>1
<1> QED
  BY <1>3, <1>4, <1>5, <1>6 DEF Next, Scheduler, Body

-----------------------------------------------------------------------------
(***************************************************************************)
(* What holds until a live reader is lost: every descriptor of the pollfd  *)
(* array, also one that is kept from the round before, has a live reader,  *)
(* and the one that is reported is filed under it.                         *)
(***************************************************************************)
FdsBacked ==
    pc \in {"loop", "prep", "poll", "erase"} =>
        \A f \in fds : \E c \in Coro : Live(c) /\ wants[c] = f

RevsHaveWaiters ==
    pc \in {"dispatch", "running"} => \A f \in revents : inWaiting[f] # << >>

SafeInv == NoneLost /\ pc # "aborted" /\ FdsBacked /\ RevsHaveWaiters

LEMMA InitSafe == Init => SafeInv
<1> SUFFICES ASSUME Init PROVE SafeInv
  OBVIOUS
<1> DEFINE added == {Initial[i] : i \in 1..Len(Initial)}
<1>1. /\ \A c \in Coro \ added : frame[c] = "unborn"
      /\ \A c \in Coro : frame[c] \in {"unborn", "suspended", "done"}
  BY DEF Init, ReaderInit
<1>2. NoneLost
  BY <1>1 DEF Init, NoneLost, Scheduled, Live
<1> QED
  BY <1>2 DEF Init, SafeInv, FdsBacked, RevsHaveWaiters

(* A vector in which nothing moved keeps what it schedules.                *)
LEMMA SameVector ==
    ASSUME NoneLost, UNCHANGED <<frame, readers>> PROVE NoneLost'
  BY DEF NoneLost, Scheduled, Live

LEMMA EnvironmentSafe == SafeInv /\ Environment => SafeInv'
<1> SUFFICES ASSUME SafeInv, Environment PROVE SafeInv'
  OBVIOUS
<1>1. UNCHANGED <<frame, wants, pc, readers, fds, inWaiting, revents, toDelete>>
  BY DEF Environment, Arrive, HangUp, schedVars
<1> QED
  BY <1>1 DEF SafeInv, NoneLost, Scheduled, FdsBacked, RevsHaveWaiters, Live

LEMMA PrepareSafe ==
    IInv /\ SafeInv /\ (EnterRound \/ Return \/ PrepareDead \/ PrepareLive) => SafeInv'
<1> SUFFICES ASSUME IInv, SafeInv, EnterRound \/ Return \/ PrepareDead \/ PrepareLive
             PROVE  SafeInv'
  OBVIOUS
<1>1. /\ UNCHANGED <<frame, wants, readers>>
      /\ pc \in {"loop", "prep"} /\ pc' \in {"prep", "poll", "returned"}
  BY DEF EnterRound, Return, PrepareDead, PrepareLive, readerVars, NextReader
<1>2. NoneLost'
  BY <1>1, SameVector DEF SafeInv
<1>3. FdsBacked'
  <2>1. CASE PrepareLive
    <3> DEFINE w == wants[readers[cursor]]
    <3>1. fds' = fds \cup {w} /\ Live(readers[cursor]) /\ pc = "prep"
      BY <2>1 DEF PrepareLive
    <3>2. readers[cursor] \in Coro
      BY <3>1 DEF IInv, TypeOK, ControlOK
    <3>3. \A f \in fds' : \E c \in Coro : Live(c) /\ wants[c] = f
      BY <3>1, <3>2 DEF SafeInv, FdsBacked
    <3> QED
      BY <1>1, <3>3 DEF FdsBacked, Live
  <2>2. CASE EnterRound \/ Return \/ PrepareDead
    <3>1. fds' = fds
      BY <2>2 DEF EnterRound, Return, PrepareDead
    <3> QED
      BY <1>1, <3>1 DEF SafeInv, FdsBacked, Live
  <2> QED
    BY <2>1, <2>2
<1> QED
  BY <1>1, <1>2, <1>3 DEF SafeInv, RevsHaveWaiters

(* poll() is entered with a queue for every descriptor it is given.        *)
LEMMA PollSafe == IInv /\ SafeInv /\ Poll => SafeInv'
<1> SUFFICES ASSUME IInv, SafeInv, Poll PROVE SafeInv'
  OBVIOUS
<1>1. /\ UNCHANGED <<frame, wants, readers, inWaiting>>
      /\ pc = "poll" /\ pc' = "dispatch" /\ revents' \subseteq fds
  BY DEF Poll, readerVars, Readable
<1>2. \A f \in fds : inWaiting[f] # << >>
  <2> SUFFICES ASSUME NEW f \in fds PROVE inWaiting[f] # << >>
    OBVIOUS
  <2>1. PICK c \in Coro : Live(c) /\ wants[c] = f
    BY <1>1 DEF SafeInv, FdsBacked
  <2>2. PICK i \in 1..Len(readers) : readers[i] = c
    BY <2>1 DEF SafeInv, NoneLost, Scheduled
  <2>3. InQueue(i, inWaiting[f])
    BY <1>1, <2>1, <2>2 DEF IInv, PollIsComplete
  <2> QED
    BY <2>3 DEF InQueue
<1>3. NoneLost'
  BY <1>1, SameVector DEF SafeInv
<1> QED
  BY <1>1, <1>2, <1>3 DEF SafeInv, FdsBacked, RevsHaveWaiters

LEMMA DispatchSafe ==
    ASSUME IInv, SafeInv, NEW f \in Fd, AbortOnMissingWaiter(f) \/ Resume(f)
    PROVE  SafeInv'
<1>1. pc = "dispatch" /\ f \in revents /\ inWaiting[f] # << >>
  BY DEF AbortOnMissingWaiter, Resume, FirstReadable, SafeInv, RevsHaveWaiters
<1>2. /\ UNCHANGED <<frame, readers>> /\ pc' = "running"
      /\ revents' = revents \ {f}
      /\ inWaiting' = [inWaiting EXCEPT ![f] = PopFront(@)]
  BY <1>1 DEF AbortOnMissingWaiter, Resume
<1>3. \A g \in revents' : inWaiting'[g] # << >>
  <2> SUFFICES ASSUME NEW g \in revents' PROVE inWaiting'[g] # << >>
    OBVIOUS
  <2>1. g \in revents /\ g # f /\ g \in Fd
    BY <1>2 DEF IInv, TypeOK
  <2>2. inWaiting'[g] = inWaiting[g]
    BY <1>2, <2>1 DEF IInv, TypeOK
  <2> QED
    BY <1>1, <2>1, <2>2 DEF SafeInv, RevsHaveWaiters
<1>4. NoneLost'
  BY <1>2, SameVector DEF SafeInv
<1> QED
  BY <1>2, <1>3, <1>4 DEF SafeInv, FdsBacked, RevsHaveWaiters

LEMMA BodySafe == IInv /\ SafeInv /\ Body => SafeInv'
<1> SUFFICES ASSUME IInv, SafeInv, Body PROVE SafeInv'
  OBVIOUS
<1>1. /\ UNCHANGED <<inWaiting, revents>>
      /\ pc = "running" /\ pc' \in {"running", "dispatch", "thrown", "crashed"}
  BY DEF Body, BodyAwaits, BodyReturns, BodyThrows, BodySpawns, BodySpawnReallocates,
         NextDescriptor
<1>2. frame \in [Coro -> FrameState] /\ readers \in Seq(Coro)
  BY DEF IInv, TypeOK, ReaderTypeOK
<1>3. NoneLost'
  <2>1. CASE BodyAwaits
    BY <2>1, SameVector DEF BodyAwaits, Await, SafeInv
  <2>2. CASE BodyReturns \/ BodyThrows
    <3>1. readers' = readers /\ frame' = [frame EXCEPT ![current] = "done"]
      BY <2>2 DEF BodyReturns, BodyThrows, ReturnVoid, UnhandledException
    <3>2. \A c \in Coro : frame'[c] = frame[c] \/ frame'[c] = "done"
      BY <1>2, <3>1
    <3> QED
      BY <3>1, <3>2 DEF SafeInv, NoneLost, Scheduled, Live
  <2>3. CASE BodySpawns \/ BodySpawnReallocates
    <3>1. PICK c \in Coro : Create(c) /\ readers' = Append(readers, c)
      BY <2>3 DEF BodySpawns, BodySpawnReallocates
    <3>2. frame'[c] # "killed" /\ \A d \in Coro : d # c => frame'[d] = frame[d]
      BY <1>2, <3>1 DEF Create
    <3>3. /\ Len(readers') = Len(readers) + 1 /\ Len(readers) \in Nat
          /\ readers'[Len(readers) + 1] = c
          /\ \A i \in 1..Len(readers) : readers'[i] = readers[i]
      BY <1>2, <3>1, AppendElements
    <3>4. /\ Len(readers) + 1 \in 1..Len(readers')
          /\ \A i \in 1..Len(readers) : i \in 1..Len(readers')
      BY <3>3
    <3>5. \A d \in Coro : frame'[d] = "suspended" =>
              \E i \in 1..Len(readers') : readers'[i] = d
      <4> SUFFICES ASSUME NEW d \in Coro, frame'[d] = "suspended"
                   PROVE  \E i \in 1..Len(readers') : readers'[i] = d
        OBVIOUS
      <4>1. CASE d = c
        BY <3>3, <3>4, <4>1
      <4>2. CASE d # c
        <5>1. PICK i \in 1..Len(readers) : readers[i] = d
          BY <3>2, <4>2 DEF SafeInv, NoneLost, Scheduled, Live
        <5> QED
          BY <3>3, <3>4, <5>1
      <4> QED
        BY <4>1, <4>2
    <3> QED
      BY <3>2, <3>5 DEF SafeInv, NoneLost, Scheduled, Live
  <2> QED
    BY <2>1, <2>2, <2>3 DEF Body
<1> QED
  BY <1>1, <1>3 DEF SafeInv, FdsBacked, RevsHaveWaiters

(* A descriptor is kept because somebody waits on it.                      *)
LEMMA CleanSafe == IInv /\ SafeInv /\ Clean => SafeInv'
<1> SUFFICES ASSUME IInv, SafeInv, Clean PROVE SafeInv'
  OBVIOUS
<1>1. /\ UNCHANGED <<frame, wants, readers, toDelete>>
      /\ pc = "dispatch" /\ pc' \in {"loop", "erase"}
      /\ fds' = {f \in fds : inWaiting[f] # << >>}
  BY DEF Clean, readerVars
<1>2. \A f \in fds' : \E c \in Coro : Live(c) /\ wants[c] = f
  <2> SUFFICES ASSUME NEW f \in fds' PROVE \E c \in Coro : Live(c) /\ wants[c] = f
    OBVIOUS
  <2>1. f \in Fd /\ inWaiting[f] # << >> /\ inWaiting[f] \in Seq(Nat)
    BY <1>1 DEF IInv, TypeOK
  <2>2. 1 \in 1..Len(inWaiting[f])
    BY <2>1
  <2>3. /\ inWaiting[f][1] \in 1..Len(readers)
        /\ Live(readers[inWaiting[f][1]]) /\ wants[readers[inWaiting[f][1]]] = f
    BY <1>1, <2>1, <2>2 DEF IInv, WaitersValid
  <2>4. readers[inWaiting[f][1]] \in Coro
    BY <2>3 DEF IInv, TypeOK
  <2> QED
    BY <2>3, <2>4
<1>3. NoneLost'
  BY <1>1, SameVector DEF SafeInv
<1> QED
  BY <1>1, <1>2, <1>3 DEF SafeInv, FdsBacked, RevsHaveWaiters, Live

(* As long as it takes none of them away, an erase() keeps what the live   *)
(* readers rely on.                                                        *)
LEMMA EraseSafe ==
    ASSUME IInv, Kept, SafeInv, NoneLost', NEW i \in toDelete, EraseDead(i)
    PROVE  SafeInv'
<1>1. wants' = wants /\ fds' = fds /\ pc = "erase" /\ pc' \in {"loop", "erase"}
  BY DEF EraseDead
<1>2. \A c \in Coro : frame[c] = "suspended" => frame'[c] = "suspended"
  BY ErasedFrame DEF NoneLost
<1>3. FdsBacked'
  BY <1>1, <1>2 DEF SafeInv, FdsBacked, Live
<1> QED
  BY <1>1, <1>3 DEF SafeInv, RevsHaveWaiters

LEMMA NextSafe == IInv /\ Kept /\ SafeInv /\ [Next]_vars /\ NoneLost' => SafeInv'
<1> SUFFICES ASSUME IInv, Kept, SafeInv, [Next]_vars, NoneLost' PROVE SafeInv'
  OBVIOUS
<1>1. CASE UNCHANGED vars
  <2>1. UNCHANGED <<frame, wants, pc, readers, fds, inWaiting, revents, toDelete>>
    BY <1>1 DEF vars, readerVars, schedVars
  <2> QED
    BY <2>1 DEF SafeInv, NoneLost, Scheduled, FdsBacked, RevsHaveWaiters, Live
<1> QED
  BY <1>1, EnvironmentSafe, PrepareSafe, PollSafe, DispatchSafe, BodySafe, CleanSafe,
     EraseSafe DEF Next, Scheduler

LEMMA LostOrSafe == Spec => [](NoneLost => SafeInv)
<1>1. Init => SafeInv
  BY InitSafe
<1>2. IInv /\ Kept /\ (NoneLost => SafeInv) /\ [Next]_vars => (NoneLost => SafeInv)'
  BY LostForGood, NextSafe
<1> QED
  BY <1>1, <1>2, InvariantHolds, KeptHolds, PTL DEF Spec

-----------------------------------------------------------------------------
(***************************************************************************)
(* A live reader is lost by a round that finds two dead ones, and by none  *)
(* other: the first slot that a round erases is the one found dead.        *)
(***************************************************************************)
OneAtMost == Cardinality(toDelete) <= 1

FinitelyMany == IsFiniteSet(toDelete)

EraseIsOfDead ==
    pc = "erase" => \A i \in toDelete : i \in 1..Len(readers) /\ ~Live(readers[i])

OneDeathInv == NoneLost /\ EraseIsOfDead

LEMMA AtMostOneElement ==
    ASSUME NEW S, IsFiniteSet(S), Cardinality(S) <= 1, NEW i \in S
    PROVE  S \ {i} = {}
<1>1. IsFiniteSet(S \ {i}) /\ Cardinality(S \ {i}) = Cardinality(S) - 1
  BY FS_RemoveElement
<1>2. Cardinality(S) \in Nat /\ Cardinality(S \ {i}) \in Nat
  BY <1>1, FS_CardinalityType
<1>3. Cardinality(S \ {i}) = 0
  BY <1>1, <1>2
<1> QED
  BY <1>1, <1>3, FS_EmptySet

(* The one slot that is erased is the one found dead: everyone else stays. *)
LEMMA EraseKeepsLive ==
    ASSUME IInv, Kept, OneDeathInv, FinitelyMany, OneAtMost, NEW i \in toDelete, EraseDead(i)
    PROVE  OneDeathInv'
<1>1. /\ pc = "erase" /\ readers' = EraseAt(readers, i) /\ toDelete' = toDelete \ {i}
      /\ frame' = FrameAfterErase(readers, i)
  BY DEF EraseDead
<1>2. toDelete' = {}
  BY <1>1, AtMostOneElement DEF OneAtMost, FinitelyMany
<1>3. pc' = "loop"
  BY <1>2 DEF EraseDead
<1>4. i \in 1..Len(readers) /\ ~Live(readers[i])
  BY <1>1 DEF OneDeathInv, EraseIsOfDead
<1>5. frame \in [Coro -> FrameState] /\ readers \in Seq(Coro) /\ Len(readers) \in Nat
  BY DEF IInv, TypeOK, ReaderTypeOK
<1>6. \A c \in Coro : /\ frame'[c] = "suspended" => frame[c] = "suspended"
                      /\ frame'[c] # "killed"
  <2>1. CASE i < Len(readers)
    <3>1. frame' = frame
      BY <1>1, <1>4, <1>5, <2>1 DEF FrameAfterErase
    <3> QED
      BY <3>1 DEF OneDeathInv, NoneLost
  <2>2. CASE ~(i < Len(readers))
    <3>1. i = Len(readers) /\ readers[i] \in Coro
      BY <1>4, <1>5, <2>2
    <3>2. frame' = [frame EXCEPT ![readers[i]] = "destroyed"]
      BY <1>1, <1>4, <3>1 DEF FrameAfterErase, Destroyed
    <3> QED
      BY <1>5, <3>1, <3>2 DEF OneDeathInv, NoneLost
  <2> QED
    BY <2>1, <2>2
<1>7. \A c \in Coro : frame[c] = "suspended" => \E j \in 1..Len(readers') : readers'[j] = c
  <2> SUFFICES ASSUME NEW c \in Coro, frame[c] = "suspended"
               PROVE  \E j \in 1..Len(readers') : readers'[j] = c
    OBVIOUS
  <2>1. PICK k \in 1..Len(readers) : readers[k] = c
    BY DEF OneDeathInv, NoneLost, Scheduled, Live
  <2>2. k # i
    BY <1>4, <2>1 DEF Live
  <2>3. /\ Len(readers') = Len(readers) - 1
        /\ \A j \in 1..Len(readers') :
              readers'[j] = IF j < i THEN readers[j] ELSE readers[j + 1]
    <3>1. i \in Nat \ {0} /\ readers # << >>
      BY <1>4, <1>5
    <3> QED
      BY <1>1, <1>5, <3>1, EraseAtElements
  <2>4. CASE k < i
    <3>1. k \in 1..Len(readers')
      BY <1>4, <1>5, <2>3, <2>4
    <3>2. readers'[k] = c
      BY <2>1, <2>3, <2>4, <3>1
    <3> QED
      BY <3>1, <3>2
  <2>5. CASE k > i
    <3>1. k - 1 \in 1..Len(readers') /\ ~(k - 1 < i) /\ (k - 1) + 1 = k
      BY <1>4, <1>5, <2>3, <2>5
    <3>2. readers'[k - 1] = c
      BY <2>1, <2>3, <3>1
    <3> QED
      BY <3>1, <3>2
  <2> QED
    BY <1>4, <1>5, <2>2, <2>4, <2>5
<1> QED
  BY <1>2, <1>6, <1>7 DEF OneDeathInv, NoneLost, Scheduled, EraseIsOfDead, Live

LEMMA OneDeathStep ==
    IInv /\ Kept /\ (NoneLost => SafeInv) /\ FinitelyMany /\ OneAtMost /\ OneDeathInv
      /\ [Next]_vars => OneDeathInv'
<1> SUFFICES ASSUME IInv, Kept, NoneLost => SafeInv, FinitelyMany, OneAtMost, OneDeathInv,
                    [Next]_vars
             PROVE  OneDeathInv'
  OBVIOUS
<1>1. SafeInv
  BY DEF OneDeathInv
<1>2. CASE \E i \in toDelete : EraseDead(i)
  BY <1>2, EraseKeepsLive
<1>3. CASE Clean
  <2>1. UNCHANGED <<frame, readers, toDelete>> /\ pc = "dispatch"
    BY <1>3 DEF Clean, readerVars
  <2> QED
    BY <2>1, SameVector DEF OneDeathInv, EraseIsOfDead, IInv, ToDeleteIsDead, Live
<1>4. CASE UNCHANGED vars \/ Environment
  <2>1. UNCHANGED <<pc, frame, readers, toDelete>>
    BY <1>4 DEF vars, readerVars, schedVars, Environment, Arrive, HangUp
  <2> QED
    BY <2>1, SameVector DEF OneDeathInv, EraseIsOfDead, Live
<1>5. CASE \/ EnterRound \/ Return \/ PrepareDead \/ PrepareLive \/ Poll \/ Body
           \/ \E f \in Fd : AbortOnMissingWaiter(f) \/ Resume(f)
  <2>1. NoneLost'
    BY <1>1, <1>5, PrepareSafe, PollSafe, DispatchSafe, BodySafe DEF SafeInv
  <2>2. pc' # "erase"
    BY <1>5 DEF EnterRound, Return, PrepareDead, PrepareLive, NextReader, Poll, Body, BodyAwaits,
                BodyReturns, BodyThrows, BodySpawns, BodySpawnReallocates, NextDescriptor,
                AbortOnMissingWaiter, Resume
  <2> QED
    BY <2>1, <2>2 DEF OneDeathInv, EraseIsOfDead
<1> QED
  BY <1>2, <1>3, <1>4, <1>5 DEF Next, Scheduler

(* Between two rounds to_delete has finitely many elements, one per slot.  *)
LEMMA ToDeleteFinite == Spec => []FinitelyMany
<1>1. Init => FinitelyMany
  BY FS_EmptySet DEF Init, FinitelyMany
<1>2. FinitelyMany /\ [Next]_vars => FinitelyMany'
  <2> SUFFICES ASSUME IsFiniteSet(toDelete), [Next]_vars PROVE IsFiniteSet(toDelete')
    BY DEF FinitelyMany
  <2>1. \/ toDelete' = toDelete \/ toDelete' = {}
        \/ toDelete' = toDelete \cup {cursor}
        \/ \E i \in toDelete : toDelete' = toDelete \ {i}
    BY DEF Next, Scheduler, Body, Environment, EnterRound, Return, PrepareDead, PrepareLive,
           Poll, AbortOnMissingWaiter, Resume, Clean, EraseDead, BodyAwaits, BodyReturns,
           BodyThrows, BodySpawns, BodySpawnReallocates, vars, schedVars
  <2> QED
    BY <2>1, FS_EmptySet, FS_AddElement, FS_RemoveElement
<1> QED
  BY <1>1, <1>2, PTL DEF Spec

(* While rounds find one dead reader at most, erase() never takes a live   *)
(* reader out of the vector, and assert(it != in_waiting.end()) holds.     *)
THEOREM OneDeathIsSafe == Spec => OneDeathPerRoundIsSafe
<1>1. Init => OneDeathInv
  BY InitSafe DEF SafeInv, OneDeathInv, EraseIsOfDead, Init
<1>2. IInv /\ Kept /\ (NoneLost => SafeInv) /\ FinitelyMany /\ OneAtMost /\ OneDeathInv
        /\ [Next]_vars => OneDeathInv'
  BY OneDeathStep
<1>3. (NoneLost => SafeInv) /\ OneDeathInv => NoneLost /\ pc # "aborted"
  BY DEF SafeInv, OneDeathInv
<1>4. Spec /\ []OneAtMost => [](NoneLost /\ pc # "aborted")
  BY <1>1, <1>2, <1>3, InvariantHolds, KeptHolds, LostOrSafe, ToDeleteFinite, PTL DEF Spec
<1> QED
  BY <1>4 DEF OneDeathPerRoundIsSafe, OneAtMost

-----------------------------------------------------------------------------
(***************************************************************************)
(* The readers as Reactor knows them.                                      *)
(***************************************************************************)
LEMMA ViewFacts ==
    ASSUME NEW c \in Coro
    PROVE  /\ life[c] = "live" <=> Live(c)
           /\ life[c] = "unborn" <=> frame[c] = "unborn"
           /\ frame[c] \in {"done", "destroyed"} => life[c] = "ended"
           /\ awaits[c] = IF Live(c) THEN wants[c] ELSE NoFd
  BY DEF life, awaits, Live

(* A frame that is destroyed has ended before.                             *)
LEMMA SameView ==
    ASSUME wants' = wants,
           \A c \in Coro : frame'[c] = frame[c] \/ {frame[c], frame'[c]} \subseteq {"done", "destroyed"}
    PROVE  UNCHANGED <<life, awaits>>
<1>1. \A c \in Coro : /\ frame'[c] = "unborn" <=> frame[c] = "unborn"
                      /\ frame'[c] = "suspended" <=> frame[c] = "suspended"
  OBVIOUS
<1> QED
  BY <1>1 DEF life, awaits, Live

LEMMA AwaitView ==
    ASSUME NEW c \in Coro, NEW f \in Fd, Live(c), wants \in [Coro -> Fd \cup {NoFd}],
           Await(c, f)
    PROVE  life' = life /\ awaits' = [awaits EXCEPT ![c] = f]
<1>1. /\ frame' = frame /\ wants'[c] = f
      /\ \A d \in Coro : d # c => wants'[d] = wants[d]
  BY DEF Await
<1> QED
  BY <1>1 DEF life, awaits, Live

LEMMA EndView ==
    ASSUME NEW c \in Coro, frame \in [Coro -> FrameState], wants \in [Coro -> Fd \cup {NoFd}],
           ReturnVoid(c) \/ UnhandledException(c)
    PROVE  life' = [life EXCEPT ![c] = "ended"] /\ awaits' = [awaits EXCEPT ![c] = NoFd]
<1>1. /\ frame'[c] = "done"
      /\ \A d \in Coro : d # c => frame'[d] = frame[d] /\ wants'[d] = wants[d]
  BY DEF ReturnVoid, UnhandledException
<1> QED
  BY <1>1 DEF life, awaits, Live

LEMMA CreateView ==
    ASSUME NEW c \in Coro, frame \in [Coro -> FrameState], wants \in [Coro -> Fd \cup {NoFd}],
           Create(c)
    PROVE  /\ life[c] = "unborn"
           /\ \/ /\ life' = [life EXCEPT ![c] = "live"]
                 /\ \E f \in Fd : awaits' = [awaits EXCEPT ![c] = f]
              \/ life' = [life EXCEPT ![c] = "ended"] /\ UNCHANGED awaits
<1>1. life[c] = "unborn" /\ ~Live(c)
  BY ViewFacts DEF Create, Live
<1>2. \A d \in Coro : d # c => frame'[d] = frame[d]
  BY DEF Create
<1>3. ASSUME frame'[c] = "suspended", NEW f \in Fd, wants' = [wants EXCEPT ![c] = f]
      PROVE  /\ life' = [life EXCEPT ![c] = "live"]
             /\ awaits' = [awaits EXCEPT ![c] = f]
  <2>1. wants'[c] = f /\ \A d \in Coro : d # c => wants'[d] = wants[d]
    BY <1>3
  <2> QED
    BY <1>2, <1>3, <2>1 DEF life, awaits, Live
<1>4. ASSUME frame'[c] = "done", wants' = wants
      PROVE  life' = [life EXCEPT ![c] = "ended"] /\ UNCHANGED awaits
  BY <1>1, <1>2, <1>4 DEF life, awaits, Live
<1> QED
  BY <1>1, <1>3, <1>4 DEF Create

-----------------------------------------------------------------------------
(***************************************************************************)
(* The scheduler implements Reactor, step by step.                         *)
(***************************************************************************)
(* The reports of a poll() are all served before the next one.             *)
RoundIsOver == pc \in {"loop", "prep", "poll", "erase"} => revents = {}

LEMMA RoundOverHolds == Spec => []RoundIsOver
<1>1. Init => RoundIsOver
  BY DEF Init, RoundIsOver
<1>2. RoundIsOver /\ [Next]_vars => RoundIsOver'
  <2> SUFFICES ASSUME RoundIsOver, [Next]_vars PROVE RoundIsOver'
    OBVIOUS
  <2>1. CASE EnterRound \/ Return \/ PrepareDead \/ PrepareLive \/ Poll \/ Clean
    BY <2>1 DEF EnterRound, Return, PrepareDead, PrepareLive, NextReader, Poll, Clean, RoundIsOver
  <2>2. CASE \E f \in Fd : AbortOnMissingWaiter(f) \/ Resume(f)
    BY <2>2 DEF AbortOnMissingWaiter, Resume, RoundIsOver
  <2>3. CASE \E i \in toDelete : EraseDead(i)
    BY <2>3 DEF EraseDead, RoundIsOver
  <2>4. CASE Body
    BY <2>4 DEF Body, BodyAwaits, BodyReturns, BodyThrows, BodySpawns, BodySpawnReallocates,
                NextDescriptor, RoundIsOver
  <2>5. CASE Environment \/ UNCHANGED vars
    BY <2>5 DEF Environment, vars, schedVars, RoundIsOver
  <2> QED
    BY <2>1, <2>2, <2>3, <2>4, <2>5 DEF Next, Scheduler
<1> QED
  BY <1>1, <1>2, PTL DEF Spec

reactorView == <<life, awaits, input, revents, current, Outcome>>

LEMMA ReactorInit == Init => R!Init
<1> SUFFICES ASSUME Init PROVE R!Init
  OBVIOUS
<1>1. AwaitsADescriptor
  BY InitIInv DEF IInv
<1>2. wants \in [Coro -> Fd \cup {NoFd}] /\ NoFd \notin Fd
  BY FdAssumption DEF Init, ReaderInit
<1>3. life \in [Coro -> {"unborn", "live", "ended"}] /\ awaits \in [Coro -> Fd \cup {NoFd}]
  BY <1>2 DEF life, awaits
<1>4. \A c \in Coro : life[c] = "live" <=> awaits[c] \in Fd
  BY <1>1, <1>2, ViewFacts DEF AwaitsADescriptor
<1>5. /\ Outcome = "none" /\ input = {} /\ revents = {} /\ current = NoCoro
      /\ NoneLost
  BY InitSafe DEF Init, ReaderInit, Outcome, SafeInv
<1> QED
  BY <1>3, <1>4, <1>5 DEF R!Init, R!Live

(* Data arrives; of a hang-up nothing is seen until poll() reports data.   *)
LEMMA EnvironmentReacts == Environment => [R!Next]_reactorView
<1> SUFFICES ASSUME NEW f \in Fd, Arrive(f) \/ HangUp(f), UNCHANGED schedVars
             PROVE  [R!Next]_reactorView
  BY DEF Environment
<1>1. UNCHANGED <<frame, wants, pc, revents, current>>
  BY DEF Arrive, HangUp, schedVars
<1>2. UNCHANGED <<life, awaits, Outcome>>
  BY <1>1 DEF life, awaits, Live, Outcome
<1>3. CASE Arrive(f)
  <2>1. R!Arrive(f)
    BY <1>1, <1>2, <1>3 DEF Arrive, R!Arrive
  <2> QED
    BY <2>1 DEF R!Next
<1>4. CASE HangUp(f)
  BY <1>1, <1>2, <1>4 DEF HangUp, reactorView
<1> QED
  BY <1>3, <1>4

(* Preparing a round and cleaning up after it are not seen by the readers. *)
LEMMA PrepareReacts ==
    EnterRound \/ PrepareDead \/ PrepareLive \/ Clean => UNCHANGED reactorView
<1> SUFFICES ASSUME EnterRound \/ PrepareDead \/ PrepareLive \/ Clean
             PROVE  UNCHANGED reactorView
  OBVIOUS
<1>1. /\ UNCHANGED <<frame, wants, input, revents, current>>
      /\ pc \in {"loop", "prep", "dispatch"} /\ pc' \in {"prep", "poll", "loop", "erase"}
  BY DEF EnterRound, PrepareDead, PrepareLive, Clean, NextReader, readerVars
<1> QED
  BY <1>1 DEF reactorView, life, awaits, Live, Outcome

(* The erased reader has ended, unless one that lives is lost.             *)
LEMMA EraseReacts ==
    ASSUME IInv, Kept, NoneLost', NEW i \in toDelete, EraseDead(i)
    PROVE  UNCHANGED reactorView
<1>1. /\ UNCHANGED <<wants, input, revents, current>>
      /\ pc = "erase" /\ pc' \in {"erase", "loop"}
  BY DEF EraseDead
<1>2. \A c \in Coro :
         frame'[c] = frame[c] \/ {frame[c], frame'[c]} \subseteq {"done", "destroyed"}
  BY ErasedFrame DEF NoneLost
<1>3. UNCHANGED <<life, awaits>>
  BY <1>1, <1>2, SameView
<1> QED
  BY <1>1, <1>3 DEF reactorView, Outcome

(* poll() is given what the live readers await, all of it and nothing else.*)
LEMMA PollReacts == IInv /\ SafeInv /\ RoundIsOver /\ Poll => R!Poll
<1> SUFFICES ASSUME IInv, SafeInv, RoundIsOver, Poll PROVE R!Poll
  OBVIOUS
<1>1. /\ UNCHANGED <<frame, wants, input, current>> /\ current = NoCoro
      /\ pc = "poll" /\ pc' = "dispatch" /\ revents = {} /\ revents' = fds \cap input
  BY DEF Poll, Readable, readerVars, RoundIsOver, IInv, ControlOK
<1>2. UNCHANGED <<life, awaits>> /\ Outcome = "none" /\ Outcome' = "none"
  BY <1>1 DEF life, awaits, Live, Outcome
<1>3. fds \subseteq R!Awaited
  <2> SUFFICES ASSUME NEW f \in fds PROVE f \in R!Awaited
    OBVIOUS
  <2>1. f \in Fd
    BY DEF IInv, TypeOK
  <2>2. PICK c \in Coro : Live(c) /\ wants[c] = f
    BY <1>1 DEF SafeInv, FdsBacked
  <2> QED
    BY <2>1, <2>2, ViewFacts DEF R!Awaited, R!Live
<1>4. R!Awaited \subseteq fds
  <2> SUFFICES ASSUME NEW c \in Coro, life[c] = "live" PROVE awaits[c] \in fds
    BY DEF R!Awaited, R!Live
  <2>1. Live(c) /\ awaits[c] = wants[c]
    BY ViewFacts
  <2>2. PICK i \in 1..Len(readers) : readers[i] = c
    BY <2>1 DEF SafeInv, NoneLost, Scheduled
  <2> QED
    BY <1>1, <2>1, <2>2 DEF IInv, PollIsComplete
<1> QED
  BY <1>1, <1>2, <1>3, <1>4 DEF R!Poll, R!Between

(* The deque of a reported descriptor holds live readers that await it.    *)
LEMMA ResumeReacts ==
    ASSUME IInv, NEW f \in Fd, Resume(f)
    PROVE  R!Serve(current') /\ current' \in Coro
<1>1. /\ UNCHANGED <<frame, wants>> /\ pc = "dispatch" /\ pc' = "running"
      /\ f \in revents /\ inWaiting[f] # << >> /\ revents' = revents \ {f}
      /\ current' = readers[Head(inWaiting[f])]
      /\ input' \in {input, input \ {f}} /\ current = NoCoro
  BY DEF Resume, FirstReadable, Reads, IInv, ControlOK
<1>2. UNCHANGED <<life, awaits>> /\ Outcome = "none" /\ Outcome' = "none"
  BY <1>1 DEF life, awaits, Live, Outcome
<1>3. inWaiting[f] \in Seq(Nat) /\ readers \in Seq(Coro)
  BY DEF IInv, TypeOK
<1>4. Head(inWaiting[f]) = inWaiting[f][1] /\ 1 \in 1..Len(inWaiting[f])
  BY <1>1, <1>3, TailElements
<1>5. /\ Head(inWaiting[f]) \in 1..Len(readers)
      /\ Live(current') /\ wants[current'] = f
  BY <1>1, <1>4 DEF IInv, WaitersValid
<1>6. current' \in Coro
  BY <1>1, <1>3, <1>5
<1>7. life[current'] = "live" /\ awaits[current'] = f
  BY <1>5, <1>6, ViewFacts
<1> QED
  BY <1>1, <1>2, <1>6, <1>7 DEF R!Serve, R!Between, R!Live

LEMMA BodyReacts == IInv /\ Body => [R!Next]_reactorView
<1> SUFFICES ASSUME IInv, Body PROVE [R!Next]_reactorView
  OBVIOUS
<1>1. /\ pc = "running" /\ current \in Coro /\ Live(current)
      /\ frame \in [Coro -> FrameState] /\ wants \in [Coro -> Fd \cup {NoFd}]
  BY DEF Body, BodyAwaits, BodyReturns, BodyThrows, BodySpawns, BodySpawnReallocates,
         IInv, TypeOK, ReaderTypeOK, ControlOK, SignalMatchesAwait
<1>2. UNCHANGED <<input, revents>> /\ R!Running /\ Outcome = "none"
  BY <1>1 DEF Body, BodyAwaits, BodyReturns, BodyThrows, BodySpawns, BodySpawnReallocates,
              R!Running, Outcome
<1>3. CASE BodyAwaits
  <2>1. PICK g \in Fd : Await(current, g)
    BY <1>3 DEF BodyAwaits
  <2>2. life' = life /\ awaits' = [awaits EXCEPT ![current] = g]
    BY <1>1, <2>1, AwaitView
  <2>3. current' = NoCoro /\ Outcome' = "none"
    BY <1>3 DEF BodyAwaits, NextDescriptor, Outcome
  <2>4. R!Await(g)
    BY <1>2, <2>2, <2>3 DEF R!Await
  <2> QED
    BY <2>4 DEF R!Next
<1>4. CASE BodyReturns
  <2>1. life' = [life EXCEPT ![current] = "ended"] /\ awaits' = [awaits EXCEPT ![current] = NoFd]
    BY <1>1, <1>4, EndView DEF BodyReturns
  <2>2. current' = NoCoro /\ Outcome' = "none"
    BY <1>4 DEF BodyReturns, NextDescriptor, Outcome
  <2>3. R!Finish
    BY <1>2, <2>1, <2>2 DEF R!Finish, R!Ends
  <2> QED
    BY <2>3 DEF R!Next
<1>5. CASE BodyThrows
  <2>1. life' = [life EXCEPT ![current] = "ended"] /\ awaits' = [awaits EXCEPT ![current] = NoFd]
    BY <1>1, <1>5, EndView DEF BodyThrows
  <2>2. current' = current /\ Outcome' = "thrown"
    BY <1>5 DEF BodyThrows, Outcome
  <2>3. R!Throw
    BY <1>2, <2>1, <2>2 DEF R!Throw, R!Ends
  <2> QED
    BY <2>3 DEF R!Next
<1>6. CASE BodySpawns \/ BodySpawnReallocates
  <2>1. PICK c \in Coro : Create(c)
    BY <1>6 DEF BodySpawns, BodySpawnReallocates
  <2>2. /\ life[c] = "unborn"
        /\ \/ /\ life' = [life EXCEPT ![c] = "live"]
              /\ \E f \in Fd : awaits' = [awaits EXCEPT ![c] = f]
           \/ life' = [life EXCEPT ![c] = "ended"] /\ UNCHANGED awaits
    BY <1>1, <2>1, CreateView
  <2>3. current' = current /\ Outcome' \in {"none", "crashed"}
    BY <1>1, <1>6 DEF BodySpawns, BodySpawnReallocates, Outcome
  <2>4. R!Add(c)
    BY <1>2, <2>2, <2>3 DEF R!Add
  <2> QED
    BY <2>4 DEF R!Next
<1> QED
  BY <1>3, <1>4, <1>5, <1>6 DEF Body

(* No live reader is outside the vector that the loop condition looks at.  *)
LEMMA ReturnReacts == IInv /\ SafeInv /\ RoundIsOver /\ Return => R!Return
<1> SUFFICES ASSUME IInv, SafeInv, RoundIsOver, Return PROVE R!Return
  OBVIOUS
<1>1. /\ UNCHANGED <<frame, wants, input, revents, current>> /\ current = NoCoro
      /\ pc = "loop" /\ pc' = "returned" /\ revents = {} /\ ~AnyRunning
  BY DEF Return, readerVars, RoundIsOver, IInv, ControlOK
<1>2. UNCHANGED <<life, awaits>> /\ Outcome = "none" /\ Outcome' = "returned"
  BY <1>1 DEF life, awaits, Live, Outcome
<1>3. \A c \in Coro : ~Live(c)
  BY <1>1 DEF AnyRunning, SafeInv, NoneLost, Scheduled
<1> QED
  BY <1>1, <1>2, <1>3, ViewFacts DEF R!Return, R!Between, R!Live

LEMMA StepReacts ==
    IInv /\ Kept /\ SafeInv /\ RoundIsOver /\ NoneLost' /\ [Next]_vars => [R!Next]_reactorView
<1> SUFFICES ASSUME IInv, Kept, SafeInv, RoundIsOver, NoneLost', [Next]_vars
             PROVE  [R!Next]_reactorView
  OBVIOUS
<1>1. CASE Poll
  BY <1>1, PollReacts DEF R!Next
<1>2. CASE Return
  BY <1>2, ReturnReacts DEF R!Next
<1>3. CASE \E f \in Fd : AbortOnMissingWaiter(f) \/ Resume(f)
  <2>1. PICK f \in Fd : AbortOnMissingWaiter(f) \/ Resume(f)
    BY <1>3
  <2>2. ~AbortOnMissingWaiter(f)
    BY DEF AbortOnMissingWaiter, FirstReadable, SafeInv, RevsHaveWaiters
  <2>3. R!Serve(current') /\ current' \in Coro
    BY <2>1, <2>2, ResumeReacts
  <2> QED
    BY <2>3 DEF R!Next
<1>4. CASE UNCHANGED vars
  BY <1>4 DEF vars, readerVars, schedVars, reactorView, life, awaits, Live, Outcome
<1>5. CASE \E i \in toDelete : EraseDead(i)
  BY <1>5, EraseReacts
<1> QED
  BY <1>1, <1>2, <1>3, <1>4, <1>5, EnvironmentReacts, PrepareReacts, BodyReacts
     DEF Next, Scheduler

(* Until it has erased a live reader the scheduler implements Reactor;     *)
(* OneDeathIsSafe says which rounds can do that.                           *)
THEOREM ImplementsItsPromise == Spec => ImplementsReactor
<1>1. IInv /\ Kept /\ (NoneLost => SafeInv) /\ RoundIsOver /\ [Next]_vars
        => [~NoneLost' \/ R!Next]_<<life, awaits, input, revents, current, Outcome, ~NoneLost>>
  <2> SUFFICES ASSUME IInv, Kept, NoneLost => SafeInv, RoundIsOver, [Next]_vars, NoneLost'
               PROVE  R!Next \/ UNCHANGED <<life, awaits, input, revents, current, Outcome,
                                            ~NoneLost>>
    OBVIOUS
  <2>1. NoneLost
    BY LostForGood
  <2>2. [R!Next]_reactorView
    BY <2>1, StepReacts
  <2> QED
    BY <2>1, <2>2 DEF reactorView
<1> QED
  BY <1>1, ReactorInit, InvariantHolds, KeptHolds, LostOrSafe, RoundOverHolds, PTL
     DEF Spec, ImplementsReactor, R!Spec, R!reactorVars
=============================================================================
