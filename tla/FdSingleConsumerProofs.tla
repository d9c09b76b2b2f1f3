----------------------- MODULE FdSingleConsumerProofs -----------------------
(***************************************************************************)
(* Proofs about the single-consumer scheduler: for any set of coroutines   *)
(* and descriptors, any initial vector and any capacity.                   *)
(***************************************************************************)
EXTENDS FdSingleConsumer, FiniteSetTheorems, TLAPS

-----------------------------------------------------------------------------
(* The vector.                                                             *)

(* push_back() leaves what is there in place.                              *)
LEMMA AppendElements ==
    ASSUME NEW S, NEW q \in Seq(S), NEW x \in S
    PROVE  /\ Append(q, x) \in Seq(S)
           /\ Len(Append(q, x)) = Len(q) + 1
           /\ Append(q, x)[Len(q) + 1] = x
           /\ \A i \in 1..Len(q) : Append(q, x)[i] = q[i]
  OBVIOUS

(* erase() drops one element, and the order of the others is kept.         *)
LEMMA EraseAtElements ==
    ASSUME NEW S, NEW s \in Seq(S), NEW i \in Nat \ {0}
    PROVE  /\ EraseAt(s, i) \in Seq(S)
           /\ Len(EraseAt(s, i)) = IF s = << >> THEN 0 ELSE Len(s) - 1
           /\ \A j \in 1..Len(EraseAt(s, i)) :
                 /\ j \in 1..Len(s) /\ j + 1 \in 1..Len(s)
                 /\ EraseAt(s, i)[j] = IF j < i THEN s[j] ELSE s[j + 1]
<1>1. CASE s = << >>
  <2>1. Len(s) = 0 /\ 1..(Len(s) - 1) = {}
    BY <1>1
  <2>2. EraseAt(s, i) = << >>
    BY <2>1 DEF EraseAt
  <2>3. << >> \in Seq(S) /\ Len(<< >>) = 0
    OBVIOUS
  <2>4. \A j \in 1..0 : FALSE
    OBVIOUS
  <2>5. Len(EraseAt(s, i)) = 0 /\ EraseAt(s, i) \in Seq(S)
    BY <2>2, <2>3
  <2>6. \A j \in 1..Len(EraseAt(s, i)) : FALSE
    BY <2>5, <2>4
  <2> QED
    BY <1>1, <2>5, <2>6
<1>2. CASE s # << >>
  <2> DEFINE e == EraseAt(s, i)
  <2>1. Len(s) \in Nat /\ Len(s) >= 1 /\ Len(s) - 1 \in Nat
    BY <1>2
  <2>2. \A j \in 1..(Len(s) - 1) : s[j] \in S /\ s[j + 1] \in S
    BY <2>1
  <2>3. e \in [1..(Len(s) - 1) -> S]
    BY <2>2 DEF EraseAt
  <2>4. e \in Seq(S) /\ Len(e) = Len(s) - 1
    BY <2>1, <2>3
  <2>5. \A j \in 1..(Len(s) - 1) : e[j] = IF j < i THEN s[j] ELSE s[j + 1]
    BY DEF EraseAt
  <2> QED
    BY <1>2, <2>1, <2>4, <2>5
<1> QED
  BY <1>1, <1>2

-----------------------------------------------------------------------------
(***************************************************************************)
(* The inductive invariant.  emplace() ignores a key that is there, so the *)
(* slot it files is right only because a filed descriptor is always in the *)
(* pollfd array, where the preparation looks first.  The entry of the      *)
(* reader being resumed stays filed while its body runs; it is the only    *)
(* one that this body can make stale, because no two entries designate     *)
(* readers that wait on one descriptor.                                    *)
(***************************************************************************)
Active == {"loop", "prep", "poll", "dispatch", "running"}

ControlOK ==
    /\ pc = "prep" => cursor \in 1..Len(readers)
    /\ toDelete \subseteq Nat \ {0}

AwaitsADescriptor == \A c \in Coro : Live(c) => wants[c] \in Fd

VectorOK ==
    /\ \A i, j \in 1..Len(readers) : readers[i] = readers[j] => i = j
    /\ \A i \in 1..Len(readers) : frame[readers[i]] \in {"suspended", "done"}

FiledIsPolled == pc \in Active => \A f \in Fd : inWaiting[f] # 0 => f \in fds

RunningIsFiled ==
    pc = "running" =>
        signal \in Fd /\ inWaiting[signal] # 0 /\ current = readers[inWaiting[signal]]

PreparedSoFar ==
    pc = "prep" =>
        \A i \in 1..Len(readers) : i < cursor /\ Live(readers[i]) =>
            LET w == wants[readers[i]]
            IN  w \in fds /\ inWaiting[w] = i

IInv == /\ TypeOK /\ ControlOK /\ AwaitsADescriptor /\ VectorOK
        /\ ConsumersValid /\ FiledIsPolled /\ RunningIsFiled
        /\ PreparedSoFar /\ OneConsumerPerFd

LEMMA NoneWaitingFacts == NoneWaiting \in [Fd -> Nat] /\ \A f \in Fd : NoneWaiting[f] = 0
  BY DEF NoneWaiting

LEMMA InitIInv == Init => IInv
<1> SUFFICES ASSUME Init PROVE IInv
  OBVIOUS
<1>1. NoneWaiting \in [Fd -> Nat] /\ \A f \in Fd : NoneWaiting[f] = 0
  BY NoneWaitingFacts
<1>2. TypeOK
  BY <1>1, CoroAssumption DEF Init, ReaderInit, TypeOK, ReaderTypeOK, FrameState
<1>3. ControlOK /\ RunningIsFiled /\ PreparedSoFar /\ OneConsumerPerFd
  BY DEF Init, ControlOK, RunningIsFiled, PreparedSoFar, OneConsumerPerFd
<1>4. AwaitsADescriptor /\ VectorOK
  <2> DEFINE added == {Initial[i] : i \in 1..Len(Initial)}
  <2>1. \A c \in added : Born(c)
    BY DEF Init, ReaderInit
  <2>2. \A c \in Coro \ added : frame[c] = "unborn"
    BY DEF Init, ReaderInit
  <2>3. AwaitsADescriptor
    BY <2>1, <2>2 DEF AwaitsADescriptor, Born, Live
  <2>4. VectorOK
    BY <2>1, CoroAssumption DEF VectorOK, Born, Init
  <2> QED
    BY <2>3, <2>4
<1>5. ConsumersValid /\ FiledIsPolled
  BY <1>1 DEF Init, ConsumersValid, FiledIsPolled
<1> QED
  BY <1>2, <1>3, <1>4, <1>5 DEF IInv

-----------------------------------------------------------------------------
(* The kernel and the control steps that leave readers and entries alone.  *)
LEMMA EnvironmentIInv == IInv /\ Environment => IInv'
<1> SUFFICES ASSUME IInv, NEW f \in Fd, (Arrive(f) \/ HangUp(f)) /\ UNCHANGED schedVars
             PROVE  IInv'
  BY DEF Environment
<1>1. /\ UNCHANGED <<frame, wants, pc, readers, cursor, fds, inWaiting, revents,
                     toDelete, current, signal>>
      /\ input' \subseteq Fd /\ hungup' \subseteq Fd
  BY DEF Arrive, HangUp, schedVars, IInv, TypeOK, ReaderTypeOK
<1>2. TypeOK'
  BY <1>1 DEF IInv, TypeOK, ReaderTypeOK, Stopped
<1>3. ControlOK' /\ AwaitsADescriptor' /\ VectorOK' /\ RunningIsFiled'
  BY <1>1 DEF IInv, ControlOK, AwaitsADescriptor, VectorOK, RunningIsFiled, Live
<1>4. ConsumersValid' /\ FiledIsPolled' /\ PreparedSoFar' /\ OneConsumerPerFd'
  BY <1>1 DEF IInv, ConsumersValid, FiledIsPolled, PreparedSoFar, OneConsumerPerFd, Live
<1> QED
  BY <1>2, <1>3, <1>4 DEF IInv

Control == \/ EnterRound \/ Return \/ Poll \/ Clean \/ ThrowMultipleConsumers
           \/ \E f \in Fd : AbortOnMissingConsumer(f)

LEMMA ControlIInv == IInv /\ Control => IInv'
<1> SUFFICES ASSUME IInv, Control PROVE IInv'
  OBVIOUS
<1>1. UNCHANGED <<frame, wants, input, hungup, readers, inWaiting, current, signal>>
  BY DEF Control, EnterRound, Return, Poll, Clean, ThrowMultipleConsumers,
         AbortOnMissingConsumer, readerVars
<1>2. /\ pc' \in {"prep", "returned", "dispatch", "loop", "erase", "aborted", "multiple"}
      /\ pc' \in Active => pc \in Active
  BY DEF Control, EnterRound, Return, Poll, Clean, ThrowMultipleConsumers,
         AbortOnMissingConsumer, Active
<1>3. TypeOK'
  <2> USE DEF IInv, TypeOK
  <2>1. fds' \subseteq Fd
    BY DEF Control, EnterRound, Return, Poll, Clean, ThrowMultipleConsumers,
           AbortOnMissingConsumer
  <2>5. revents' \subseteq Fd
    BY DEF Control, EnterRound, Return, Poll, Clean, ThrowMultipleConsumers,
           AbortOnMissingConsumer, Readable
  <2>2. (cursor' = 1 \/ cursor' = cursor) /\ (toDelete' = {} \/ toDelete' = toDelete)
    BY DEF Control, EnterRound, Return, Poll, Clean, ThrowMultipleConsumers,
           AbortOnMissingConsumer
  <2>3. cursor' \in Nat \ {0}
    BY <2>2
  <2>4. toDelete' \subseteq Nat
    BY <2>2
  <2> QED
    BY <1>1, <1>2, <2>1, <2>3, <2>4, <2>5 DEF ReaderTypeOK, Stopped
<1>4. ControlOK'
  <2>1. pc' = "prep" => cursor' = 1 /\ 1 \in 1..Len(readers)
    BY DEF Control, EnterRound, Return, Poll, Clean, ThrowMultipleConsumers,
           AbortOnMissingConsumer,
           AnyRunning, IInv, TypeOK
  <2>2. toDelete' \subseteq Nat \ {0}
    BY DEF Control, EnterRound, Return, Poll, Clean, ThrowMultipleConsumers,
           AbortOnMissingConsumer, IInv, ControlOK
  <2> QED
    BY <1>1, <2>1, <2>2 DEF ControlOK
<1>5. AwaitsADescriptor' /\ VectorOK' /\ RunningIsFiled'
  BY <1>1, <1>2 DEF IInv, AwaitsADescriptor, VectorOK, RunningIsFiled, Live
<1>6. ConsumersValid'
  BY <1>1, <1>2 DEF IInv, ConsumersValid, Live, Active
<1>7. FiledIsPolled'
  <2>1. \A f \in Fd : inWaiting[f] # 0 /\ f \in fds => f \in fds'
    BY DEF Control, EnterRound, Return, Poll, Clean, ThrowMultipleConsumers,
           AbortOnMissingConsumer
  <2> QED
    BY <1>1, <1>2, <2>1 DEF IInv, FiledIsPolled
<1>8. PreparedSoFar'
  BY <1>1 DEF Control, EnterRound, Return, Poll, Clean, ThrowMultipleConsumers,
              AbortOnMissingConsumer, PreparedSoFar
<1>9. OneConsumerPerFd'
  BY DEF Control, EnterRound, Return, Poll, Clean, ThrowMultipleConsumers,
         AbortOnMissingConsumer, OneConsumerPerFd
<1> QED
  BY <1>3, <1>4, <1>5, <1>6, <1>7, <1>8, <1>9 DEF IInv

-----------------------------------------------------------------------------
(* Preparation: filing a live reader, or noting a dead one.                *)
LEMMA NextReaderSteps ==
    ASSUME IInv, pc = "prep", NextReader
    PROVE  /\ cursor \in 1..Len(readers) /\ cursor \in Nat \ {0}
           /\ pc' \in {"prep", "poll"} /\ cursor' \in Nat \ {0}
           /\ pc' = "prep" => cursor' = cursor + 1 /\ cursor' \in 1..Len(readers)
           /\ pc' = "poll" => \A i \in 1..Len(readers) : i < cursor + 1
  BY DEF IInv, TypeOK, ControlOK, NextReader

(* What the preparation has filed up to and including the cursor is what   *)
(* the next state promises.                                                *)
LEMMA PreparedOneMore ==
    ASSUME IInv, pc = "prep", NextReader, UNCHANGED <<frame, wants, readers>>,
           \A i \in 1..Len(readers) : i < cursor + 1 /\ Live(readers[i]) =>
               wants[readers[i]] \in fds' /\ inWaiting'[wants[readers[i]]] = i
    PROVE  PreparedSoFar' /\ OneConsumerPerFd'
<1>1. /\ pc' = "prep" => cursor' = cursor + 1
      /\ pc' = "poll" => \A i \in 1..Len(readers) : i < cursor + 1
  BY NextReaderSteps
<1> QED
  BY <1>1 DEF PreparedSoFar, OneConsumerPerFd, Live

LEMMA PrepareDeadIInv == IInv /\ PrepareDead => IInv'
<1> SUFFICES ASSUME IInv, PrepareDead PROVE IInv'
  OBVIOUS
<1>1. /\ UNCHANGED <<frame, wants, input, hungup, readers, fds, inWaiting, revents,
                     current, signal>>
      /\ pc = "prep" /\ ~Live(readers[cursor]) /\ toDelete' = toDelete \cup {cursor}
      /\ NextReader
  BY DEF PrepareDead, readerVars
<1>2. /\ cursor \in 1..Len(readers) /\ cursor \in Nat \ {0}
      /\ pc' \in {"prep", "poll"} /\ cursor' \in Nat \ {0}
      /\ pc' = "prep" => cursor' = cursor + 1 /\ cursor' \in 1..Len(readers)
  BY <1>1, NextReaderSteps
<1>3. TypeOK'
  BY <1>1, <1>2 DEF IInv, TypeOK, ReaderTypeOK
<1>4. ControlOK' /\ AwaitsADescriptor' /\ VectorOK' /\ RunningIsFiled'
  BY <1>1, <1>2 DEF IInv, ControlOK, AwaitsADescriptor, VectorOK, RunningIsFiled, Live
<1>5. ConsumersValid' /\ FiledIsPolled'
  BY <1>1, <1>2 DEF IInv, ConsumersValid, FiledIsPolled, Live, Active
<1>6. \A i \in 1..Len(readers) : i < cursor + 1 /\ Live(readers[i]) =>
          wants[readers[i]] \in fds' /\ inWaiting'[wants[readers[i]]] = i
  BY <1>1, <1>2 DEF IInv, PreparedSoFar
<1>7. PreparedSoFar' /\ OneConsumerPerFd'
  BY <1>1, <1>6, PreparedOneMore
<1> QED
  BY <1>3, <1>4, <1>5, <1>7 DEF IInv

(* A descriptor that is not in the pollfd array is not filed, so emplace() *)
(* files the slot it is given.                                             *)
LEMMA PrepareLiveIInv == IInv /\ PrepareLive => IInv'
<1> SUFFICES ASSUME IInv, PrepareLive PROVE IInv'
  OBVIOUS
<1> DEFINE w == wants[readers[cursor]]
<1>1. /\ UNCHANGED <<frame, wants, input, hungup, readers, revents, toDelete,
                     current, signal>>
      /\ pc = "prep" /\ Live(readers[cursor]) /\ w \notin fds
      /\ fds' = fds \cup {w} /\ inWaiting' = Emplace(w, cursor)
      /\ NextReader
  BY DEF PrepareLive, readerVars
<1>2. /\ cursor \in 1..Len(readers) /\ cursor \in Nat \ {0}
      /\ pc' \in {"prep", "poll"} /\ cursor' \in Nat \ {0}
      /\ pc' = "prep" => cursor' = cursor + 1 /\ cursor' \in 1..Len(readers)
  BY <1>1, NextReaderSteps
<1>3. readers[cursor] \in Coro /\ w \in Fd
  BY <1>1, <1>2 DEF IInv, TypeOK, AwaitsADescriptor
<1>4. inWaiting[w] = 0
  BY <1>1, <1>3 DEF IInv, FiledIsPolled, Active
<1>5. /\ inWaiting' \in [Fd -> Nat] /\ inWaiting'[w] = cursor
      /\ \A f \in Fd : f # w => inWaiting'[f] = inWaiting[f]
  <2>1. inWaiting' = [inWaiting EXCEPT ![w] = cursor]
    BY <1>1, <1>4 DEF Emplace
  <2>2. inWaiting \in [Fd -> Nat]
    BY DEF IInv, TypeOK
  <2> HIDE DEF w
  <2> QED
    BY <1>2, <1>3, <2>1, <2>2
<1>6. TypeOK'
  BY <1>1, <1>2, <1>3, <1>5 DEF IInv, TypeOK, ReaderTypeOK
<1>7. ControlOK' /\ AwaitsADescriptor' /\ VectorOK' /\ RunningIsFiled'
  BY <1>1, <1>2 DEF IInv, ControlOK, AwaitsADescriptor, VectorOK, RunningIsFiled, Live
<1>8. ConsumersValid'
  <2> SUFFICES ASSUME NEW f \in Fd, inWaiting'[f] # 0
               PROVE  /\ inWaiting'[f] \in 1..Len(readers)
                      /\ Live(readers[inWaiting'[f]])
                      /\ wants[readers[inWaiting'[f]]] = f
    BY <1>1 DEF ConsumersValid, Live
  <2>1. CASE f = w
    BY <1>1, <1>2, <1>5, <2>1
  <2>2. CASE f # w
    BY <1>1, <1>5, <2>2 DEF IInv, ConsumersValid
  <2> QED
    BY <2>1, <2>2
<1>9. FiledIsPolled'
  BY <1>1, <1>2, <1>3, <1>5 DEF IInv, FiledIsPolled, Active
<1>10. \A i \in 1..Len(readers) : i < cursor + 1 /\ Live(readers[i]) =>
          wants[readers[i]] \in fds' /\ inWaiting'[wants[readers[i]]] = i
  <2> SUFFICES ASSUME NEW i \in 1..Len(readers), i < cursor + 1, Live(readers[i])
               PROVE  wants[readers[i]] \in fds' /\ inWaiting'[wants[readers[i]]] = i
    OBVIOUS
  <2>1. CASE i = cursor
    BY <1>1, <1>5, <2>1
  <2>2. CASE i < cursor
    <3>1. wants[readers[i]] \in fds /\ inWaiting[wants[readers[i]]] = i
      BY <1>1, <2>2 DEF IInv, PreparedSoFar
    <3>2. wants[readers[i]] # w /\ wants[readers[i]] \in Fd
      BY <1>1, <3>1 DEF IInv, TypeOK
    <3> QED
      BY <1>1, <1>5, <3>1, <3>2
  <2> QED
    BY <1>2, <2>1, <2>2
<1>11. PreparedSoFar' /\ OneConsumerPerFd'
  BY <1>1, <1>10, PreparedOneMore
<1> QED
  BY <1>6, <1>7, <1>8, <1>9, <1>11 DEF IInv

-----------------------------------------------------------------------------
(* Dispatch.                                                               *)
LEMMA ResumeIInv == ASSUME IInv, NEW f \in Fd, Resume(f) PROVE IInv'
<1>1. /\ UNCHANGED <<frame, wants, hungup, readers, cursor, fds, inWaiting, toDelete>>
      /\ pc = "dispatch" /\ pc' = "running"
      /\ inWaiting[f] # 0 /\ current' = readers[inWaiting[f]] /\ signal' = f
      /\ revents' \subseteq Fd /\ input' \subseteq Fd
  BY DEF Resume, Reads, IInv, TypeOK, ReaderTypeOK
<1>2. inWaiting[f] \in 1..Len(readers) /\ current' \in Coro
  BY <1>1 DEF IInv, TypeOK, ConsumersValid
<1>3. TypeOK'
  BY <1>1, <1>2 DEF IInv, TypeOK, ReaderTypeOK
<1>4. ControlOK' /\ AwaitsADescriptor' /\ VectorOK' /\ RunningIsFiled'
  BY <1>1 DEF IInv, ControlOK, AwaitsADescriptor, VectorOK, RunningIsFiled, Live
<1>5. ConsumersValid' /\ FiledIsPolled'
  BY <1>1 DEF IInv, ConsumersValid, FiledIsPolled, Live, Active
<1>6. PreparedSoFar' /\ OneConsumerPerFd'
  BY <1>1 DEF PreparedSoFar, OneConsumerPerFd
<1> QED
  BY <1>3, <1>4, <1>5, <1>6 DEF IInv

-----------------------------------------------------------------------------
(* The resumed body.  The reader it belongs to is live and waits on the    *)
(* descriptor it was signalled with, hence is filed under no other.        *)
LEMMA OthersAreNotCurrent ==
    ASSUME IInv, pc = "running"
    PROVE  /\ signal \in Fd /\ current \in Coro /\ Live(current) /\ wants[current] = signal
           /\ \A f \in Fd \ {signal} : inWaiting[f] # 0 =>
                 LET s == inWaiting[f]
                 IN  /\ s \in 1..Len(readers) /\ readers[s] \in Coro \ {current}
                     /\ Live(readers[s]) /\ wants[readers[s]] = f
<1>1. /\ signal \in Fd /\ inWaiting[signal] # 0
      /\ current = readers[inWaiting[signal]]
  BY DEF IInv, RunningIsFiled
<1>2. \A f \in Fd : inWaiting[f] # 0 =>
          /\ inWaiting[f] \in 1..Len(readers) /\ readers[inWaiting[f]] \in Coro
          /\ Live(readers[inWaiting[f]]) /\ wants[readers[inWaiting[f]]] = f
  BY DEF IInv, TypeOK, ConsumersValid
<1> QED
  BY <1>1, <1>2

LEMMA BodyEndsIInv == IInv /\ (BodyAwaits \/ BodyReturns \/ BodyThrows) => IInv'
<1> SUFFICES ASSUME IInv, BodyAwaits \/ BodyReturns \/ BodyThrows PROVE IInv'
  OBVIOUS
<1>1. /\ UNCHANGED <<input, hungup, readers, cursor, fds, revents, toDelete>>
      /\ pc = "running" /\ pc' \in {"dispatch", "thrown"}
      /\ pc' = "dispatch" => inWaiting' = [inWaiting EXCEPT ![signal] = 0]
      /\ inWaiting' \in {inWaiting, [inWaiting EXCEPT ![signal] = 0]}
      /\ current' \in {current, NoCoro} /\ signal' \in {signal, NoFd}
  BY DEF BodyAwaits, BodyReturns, BodyThrows, NextDescriptor
<1>2. /\ signal \in Fd /\ current \in Coro /\ Live(current)
      /\ \A f \in Fd \ {signal} : inWaiting[f] # 0 =>
             LET s == inWaiting[f]
             IN  /\ s \in 1..Len(readers) /\ readers[s] \in Coro \ {current}
                 /\ Live(readers[s]) /\ wants[readers[s]] = f
  BY <1>1, OthersAreNotCurrent
<1>3. /\ frame \in [Coro -> FrameState] /\ wants \in [Coro -> Fd \cup {NoFd}]
      /\ inWaiting \in [Fd -> Nat]
  BY DEF IInv, TypeOK, ReaderTypeOK
<1>4. /\ frame' \in [Coro -> FrameState] /\ wants' \in [Coro -> Fd \cup {NoFd}]
      /\ \A c \in Coro : c # current => frame'[c] = frame[c] /\ wants'[c] = wants[c]
      /\ \/ frame'[current] = frame[current] /\ wants'[current] \in Fd
         \/ frame'[current] = "done"
  <2>1. CASE BodyAwaits
    BY <1>2, <1>3, <2>1 DEF BodyAwaits, Await
  <2>2. CASE BodyReturns
    BY <1>2, <1>3, <2>2 DEF BodyReturns, ReturnVoid, FrameState
  <2>3. CASE BodyThrows
    BY <1>2, <1>3, <2>3 DEF BodyThrows, UnhandledException, FrameState
  <2> QED
    BY <2>1, <2>2, <2>3
<1>5. inWaiting' \in [Fd -> Nat]
  BY <1>1, <1>3
<1>6. TypeOK'
  BY <1>1, <1>4, <1>5 DEF IInv, TypeOK, ReaderTypeOK, Stopped
<1>7. ControlOK'
  BY <1>1 DEF IInv, ControlOK
<1>8. AwaitsADescriptor'
  BY <1>2, <1>4 DEF IInv, AwaitsADescriptor, Live
<1>9. VectorOK'
  <2>1. \A i \in 1..Len(readers) : readers[i] \in Coro
    BY DEF IInv, TypeOK
  <2> QED
    BY <1>1, <1>2, <1>4, <2>1 DEF IInv, VectorOK, Live
<1>10. pc' = "dispatch" =>
          \A f \in Fd : inWaiting'[f] # 0 => f # signal /\ inWaiting'[f] = inWaiting[f]
  BY <1>1, <1>2, <1>3
<1>11. ConsumersValid'
  <2> SUFFICES ASSUME pc' = "dispatch", NEW f \in Fd, inWaiting'[f] # 0
               PROVE  /\ inWaiting'[f] \in 1..Len(readers)
                      /\ frame'[readers[inWaiting'[f]]] = "suspended"
                      /\ wants'[readers[inWaiting'[f]]] = f
    BY <1>1 DEF ConsumersValid, Live
  <2>1. f # signal /\ inWaiting'[f] = inWaiting[f]
    BY <1>10
  <2> QED
    BY <1>1, <1>2, <1>4, <2>1 DEF Live
<1>12. FiledIsPolled'
  BY <1>1, <1>10 DEF IInv, FiledIsPolled, Active
<1>13. RunningIsFiled' /\ PreparedSoFar' /\ OneConsumerPerFd'
  BY <1>1 DEF RunningIsFiled, PreparedSoFar, OneConsumerPerFd
<1> QED
  BY <1>6, <1>7, <1>8, <1>9, <1>11, <1>12, <1>13 DEF IInv

(* add() moves no slot: the entries still designate the same readers.      *)
LEMMA BodySpawnsIInv == IInv /\ BodySpawns => IInv'
<1> SUFFICES ASSUME IInv, BodySpawns PROVE IInv'
  OBVIOUS
<1>1. /\ UNCHANGED <<input, hungup, cursor, fds, inWaiting, revents, toDelete,
                     current, signal>>
      /\ pc = "running" /\ pc' \in {"running", "crashed"}
  BY DEF BodySpawns
<1>2. PICK c \in Coro : Create(c) /\ readers' = Append(readers, c)
  BY DEF BodySpawns
<1>3. frame \in [Coro -> FrameState] /\ wants \in [Coro -> Fd \cup {NoFd}]
      /\ readers \in Seq(Coro)
  BY DEF IInv, TypeOK, ReaderTypeOK
<1>4. /\ frame' \in [Coro -> FrameState] /\ wants' \in [Coro -> Fd \cup {NoFd}]
      /\ \A d \in Coro : d # c => frame'[d] = frame[d] /\ wants'[d] = wants[d]
      /\ frame[c] = "unborn" /\ frame'[c] \in {"suspended", "done"}
      /\ frame'[c] = "suspended" => wants'[c] \in Fd
  BY <1>2, <1>3 DEF Create, FrameState
<1>5. /\ readers' \in Seq(Coro)
      /\ Len(readers') = Len(readers) + 1 /\ Len(readers) \in Nat
      /\ readers'[Len(readers) + 1] = c
      /\ \A i \in 1..Len(readers) : readers'[i] = readers[i]
  BY <1>2, <1>3, AppendElements
<1>6. \A i \in 1..Len(readers) : readers[i] \in Coro /\ readers[i] # c
  BY <1>3, <1>4 DEF IInv, VectorOK
<1>7. TypeOK'
  BY <1>1, <1>4, <1>5 DEF IInv, TypeOK, ReaderTypeOK, Stopped
<1>8. ControlOK' /\ PreparedSoFar' /\ OneConsumerPerFd'
  BY <1>1 DEF IInv, ControlOK, PreparedSoFar, OneConsumerPerFd
<1>9. AwaitsADescriptor'
  BY <1>4 DEF IInv, AwaitsADescriptor, Live
<1>10. \A i \in 1..Len(readers') : i \in 1..Len(readers) \/ i = Len(readers) + 1
  BY <1>5
<1>11. VectorOK'
  <2>1. \A i \in 1..Len(readers') : frame'[readers'[i]] \in {"suspended", "done"}
    BY <1>4, <1>5, <1>6, <1>10 DEF IInv, VectorOK
  <2>2. \A i, j \in 1..Len(readers') : readers'[i] = readers'[j] => i = j
    BY <1>5, <1>6, <1>10 DEF IInv, VectorOK
  <2> QED
    BY <2>1, <2>2 DEF VectorOK
<1>12. \A f \in Fd : inWaiting[f] # 0 =>
          /\ inWaiting[f] \in 1..Len(readers')
          /\ readers'[inWaiting[f]] = readers[inWaiting[f]]
          /\ readers[inWaiting[f]] \in Coro \ {c}
          /\ Live(readers[inWaiting[f]]) /\ wants[readers[inWaiting[f]]] = f
  BY <1>1, <1>5, <1>6 DEF IInv, ConsumersValid
<1>13. ConsumersValid'
  BY <1>1, <1>4, <1>12 DEF ConsumersValid, Live
<1>14. FiledIsPolled' /\ RunningIsFiled'
  BY <1>1, <1>12 DEF IInv, FiledIsPolled, RunningIsFiled, Active
<1> QED
  BY <1>7, <1>8, <1>9, <1>11, <1>13, <1>14 DEF IInv

-----------------------------------------------------------------------------
(* A clean-up keeps the vector free of duplicates and of destroyed frames, *)
(* even when the slot it erases is not the one the iterator was taken for. *)
LEMMA EraseDeadIInv == ASSUME IInv, NEW i \in toDelete, EraseDead(i) PROVE IInv'
<1>1. /\ UNCHANGED <<wants, input, hungup, cursor, fds, revents, current, signal>>
      /\ pc = "erase" /\ readers' = EraseAt(readers, i)
      /\ frame' = FrameAfterErase(readers, i)
      /\ toDelete' \subseteq toDelete
      /\ \/ pc' = "loop" /\ inWaiting' = NoneWaiting
         \/ pc' = "erase" /\ inWaiting' = inWaiting
  BY DEF EraseDead
<1>2. /\ frame \in [Coro -> FrameState] /\ readers \in Seq(Coro)
      /\ inWaiting \in [Fd -> Nat] /\ i \in Nat \ {0}
      /\ toDelete \subseteq Nat \ {0}
  BY DEF IInv, TypeOK, ReaderTypeOK, ControlOK
<1>3. /\ readers' \in Seq(Coro)
      /\ Len(readers') = IF readers = << >> THEN 0 ELSE Len(readers) - 1
      /\ \A j \in 1..Len(readers') :
            /\ j \in 1..Len(readers) /\ j + 1 \in 1..Len(readers)
            /\ readers'[j] = IF j < i THEN readers[j] ELSE readers[j + 1]
  BY <1>1, <1>2, EraseAtElements
<1>4. NoneWaiting \in [Fd -> Nat] /\ \A f \in Fd : NoneWaiting[f] = 0
  BY NoneWaitingFacts
<1>5. inWaiting' \in [Fd -> Nat]
  BY <1>1, <1>2, <1>4
<1>6. frame' \in [Coro -> FrameState]
      /\ \A c \in Coro : frame'[c] = frame[c] \/ frame'[c] \in {"destroyed", "killed"}
  BY <1>1, <1>2 DEF FrameAfterErase, Destroyed, FrameState
<1>7. TypeOK'
  BY <1>1, <1>2, <1>3, <1>5, <1>6 DEF IInv, TypeOK, ReaderTypeOK
<1>9. ControlOK'
  BY <1>1, <1>2 DEF ControlOK
<1>10. AwaitsADescriptor'
  BY <1>1, <1>6 DEF IInv, AwaitsADescriptor, Live
<1>11. \A j \in 1..Len(readers') : readers'[j] \in Coro
  BY <1>3
<1>12. \A j, k \in 1..Len(readers') : readers'[j] = readers'[k] => j = k
  <2> SUFFICES ASSUME NEW j \in 1..Len(readers'), NEW k \in 1..Len(readers'),
                      readers'[j] = readers'[k]
               PROVE  j = k
    OBVIOUS
  <2> DEFINE from(n) == IF n < i THEN n ELSE n + 1
  <2>1. /\ from(j) \in 1..Len(readers) /\ readers'[j] = readers[from(j)]
        /\ from(k) \in 1..Len(readers) /\ readers'[k] = readers[from(k)]
    BY <1>3
  <2>2. from(j) = from(k)
    BY <2>1 DEF IInv, VectorOK
  <2>3. j \in Nat /\ k \in Nat
    BY <1>3
  <2> QED
    BY <1>2, <2>2, <2>3
<1>13. \A j \in 1..Len(readers') : frame'[readers'[j]] \in {"suspended", "done"}
  <2> SUFFICES ASSUME NEW j \in 1..Len(readers')
               PROVE  frame'[readers'[j]] \in {"suspended", "done"}
    OBVIOUS
  <2>1. PICK m \in 1..Len(readers) : readers'[j] = readers[m] /\ (j < i => m = j)
    BY <1>3
  <2>2. frame[readers[m]] \in {"suspended", "done"}
    BY DEF IInv, VectorOK
  <2>3. CASE i < Len(readers)
    <3>1. frame' = frame
      BY <1>1, <1>2, <2>3 DEF FrameAfterErase
    <3> QED
      BY <2>1, <2>2, <3>1
  <2>4. CASE ~(i < Len(readers))
    <3>1. Len(readers) \in Nat /\ Len(readers) \in 1..Len(readers) /\ j < Len(readers)
      BY <1>2, <1>3, <2>1
    <3>2. j < i /\ m = j
      BY <1>2, <1>3, <2>1, <2>4, <3>1
    <3>3. readers[m] # readers[Len(readers)] /\ readers[m] \in Coro
      BY <1>2, <3>1, <3>2 DEF IInv, VectorOK
    <3>4. frame' = [frame EXCEPT ![readers[Len(readers)]] = Destroyed(readers[Len(readers)])]
      BY <1>1, <1>2, <2>4, <3>1 DEF FrameAfterErase
    <3> QED
      BY <1>2, <2>1, <2>2, <3>3, <3>4
  <2> QED
    BY <2>3, <2>4
<1>14. VectorOK'
  BY <1>12, <1>13 DEF VectorOK
<1>15. ConsumersValid' /\ FiledIsPolled'
  BY <1>1, <1>4 DEF ConsumersValid, FiledIsPolled, Active
<1>16. RunningIsFiled' /\ PreparedSoFar' /\ OneConsumerPerFd'
  BY <1>1 DEF RunningIsFiled, PreparedSoFar, OneConsumerPerFd
<1> QED
  BY <1>7, <1>9, <1>10, <1>14, <1>15, <1>16 DEF IInv

-----------------------------------------------------------------------------
LEMMA StutterIInv == IInv /\ UNCHANGED vars => IInv'
  BY DEF IInv, TypeOK, ReaderTypeOK, ControlOK, AwaitsADescriptor, VectorOK,
         ConsumersValid, FiledIsPolled, RunningIsFiled, PreparedSoFar,
         OneConsumerPerFd, Live, vars, readerVars, schedVars

LEMMA NextIInv == IInv /\ [Next]_vars => IInv'
<1> SUFFICES ASSUME IInv, [Next]_vars PROVE IInv'
  OBVIOUS
<1>1. CASE Environment
  BY <1>1, EnvironmentIInv
<1>2. CASE Control
  BY <1>2, ControlIInv
<1>3. CASE PrepareDead
  BY <1>3, PrepareDeadIInv
<1>4. CASE PrepareLive
  BY <1>4, PrepareLiveIInv
<1>5. CASE \E f \in Fd : Resume(f)
  BY <1>5, ResumeIInv
<1>6. CASE BodyAwaits \/ BodyReturns \/ BodyThrows
  BY <1>6, BodyEndsIInv
<1>7. CASE BodySpawns
  BY <1>7, BodySpawnsIInv
<1>8. CASE \E i \in toDelete : EraseDead(i)
  BY <1>8, EraseDeadIInv
<1>9. CASE UNCHANGED vars
  BY <1>9, StutterIInv
<1> QED
  BY <1>1, <1>2, <1>3, <1>4, <1>5, <1>6, <1>7, <1>8, <1>9
     DEF Next, Scheduler, Body, Control

(* The invariant holds of every execution.                                 *)
THEOREM InvariantHolds == Spec => []IInv
<1>1. Init => IInv
  BY InitIInv
<1>2. IInv /\ [Next]_vars => IInv'
  BY NextIInv
<1> QED
  BY <1>1, <1>2, PTL DEF Spec

(* Every variable keeps its type, also in the rounds that erase the wrong  *)
(* reader.                                                                 *)
THEOREM TypeCorrect == Spec => []TypeOK
<1>1. IInv => TypeOK
  BY DEF IInv
<1> QED
  BY <1>1, InvariantHolds, PTL

(* The pointer filed for a descriptor designates a live reader that waits  *)
(* on it, also while bodies await, finish and add readers.                 *)
THEOREM ConsumersAlwaysValid == Spec => []ConsumersValid
<1>1. IInv => ConsumersValid
  BY DEF IInv
<1> QED
  BY <1>1, InvariantHolds, PTL

(* poll() is entered with every live reader filed, alone, under the        *)
(* descriptor it waits on.                                                 *)
THEOREM AlwaysOneConsumer == Spec => []OneConsumerPerFd
<1>1. IInv => OneConsumerPerFd
  BY DEF IInv
<1> QED
  BY <1>1, InvariantHolds, PTL

(* A reader is only ever resumed with the descriptor it awaits: the assert *)
(* of signal_ready() holds for this scheduler too.                         *)
THEOREM ResumedWithItsFd ==
    Spec => [](pc = "running" => Live(current) /\ wants[current] = signal)
<1>1. IInv => (pc = "running" => Live(current) /\ wants[current] = signal)
  BY OthersAreNotCurrent
<1> QED
  BY <1>1, InvariantHolds, PTL

-----------------------------------------------------------------------------
(***************************************************************************)
(* What erase() may do to a vector whose iterators it has invalidated.     *)
(* However wrong the slots are, there are no more of them than elements.   *)
(***************************************************************************)
FoundDead ==
    pc \in {"prep", "poll", "dispatch", "running"} =>
        \A i \in toDelete : i \in 1..Len(readers) /\ ~Live(readers[i])

EraseBounded ==
    pc = "erase" => IsFiniteSet(toDelete) /\ Cardinality(toDelete) \in 1..Len(readers)

Kept == FoundDead /\ EraseBounded

(* No dead reader runs, so what was found dead stays dead and in its slot. *)
LEMMA FoundDeadStep == IInv /\ FoundDead /\ [Next]_vars => FoundDead'
<1> SUFFICES ASSUME IInv, FoundDead, [Next]_vars PROVE FoundDead'
  OBVIOUS
<1>1. frame \in [Coro -> FrameState] /\ readers \in Seq(Coro)
  BY DEF IInv, TypeOK, ReaderTypeOK
<1>2. CASE PrepareDead
  <2>1. /\ toDelete' = toDelete \cup {cursor} /\ pc = "prep" /\ ~Live(readers[cursor])
        /\ UNCHANGED <<frame, readers>>
    BY <1>2 DEF PrepareDead, readerVars
  <2>2. cursor \in 1..Len(readers)
    BY <2>1 DEF IInv, ControlOK
  <2> QED
    BY <2>1, <2>2 DEF FoundDead, Live
<1>3. CASE Body
  <2>1. toDelete' = toDelete /\ pc = "running"
    BY <1>3 DEF Body, BodyAwaits, BodyReturns, BodyThrows, BodySpawns
  <2>2. \A i \in 1..Len(readers) : /\ i \in 1..Len(readers') /\ readers'[i] = readers[i]
                                  /\ readers[i] \in Coro
                                  /\ frame[readers[i]] \in {"suspended", "done"}
    <3>1. CASE BodySpawns
      BY <1>1, <3>1, AppendElements DEF BodySpawns, IInv, VectorOK
    <3>2. CASE BodyAwaits \/ BodyReturns \/ BodyThrows
      BY <1>1, <3>2 DEF BodyAwaits, BodyReturns, BodyThrows, IInv, VectorOK
    <3> QED
      BY <1>3, <3>1, <3>2 DEF Body
  <2>3. \A c \in Coro : frame'[c] = "suspended" => frame[c] \in {"suspended", "unborn"}
    BY <1>1, <1>3 DEF Body, BodyAwaits, BodyReturns, BodyThrows, BodySpawns, Await, ReturnVoid,
                      UnhandledException, Create
  <2> QED
    BY <2>1, <2>2, <2>3 DEF FoundDead, Live
<1>4. CASE UNCHANGED vars \/ Environment
  <2>1. UNCHANGED <<frame, pc, readers, toDelete>>
    BY <1>4 DEF vars, readerVars, schedVars, Environment, Arrive, HangUp
  <2> QED
    BY <2>1 DEF FoundDead, Live
<1>5. CASE \/ EnterRound \/ Return \/ PrepareLive \/ ThrowMultipleConsumers \/ Poll \/ Clean
           \/ \E f \in Fd : AbortOnMissingConsumer(f) \/ Resume(f)
  <2>1. UNCHANGED <<frame, readers>>
    BY <1>5 DEF EnterRound, Return, PrepareLive, ThrowMultipleConsumers, Poll, Clean,
                AbortOnMissingConsumer, Resume, readerVars
  <2>2. \/ toDelete' = {}
        \/ toDelete' = toDelete /\ pc \in {"prep", "poll", "dispatch"}
        \/ pc' = "returned"
    BY <1>5 DEF EnterRound, Return, PrepareLive, ThrowMultipleConsumers, Poll, Clean,
                AbortOnMissingConsumer, Resume
  <2> QED
    BY <2>1, <2>2 DEF FoundDead, Live
<1>6. CASE \E i \in toDelete : EraseDead(i)
  BY <1>6 DEF EraseDead, FoundDead
<1> QED
  BY <1>2, <1>3, <1>4, <1>5, <1>6 DEF Next, Scheduler

LEMMA EraseBoundedStep == IInv /\ Kept /\ [Next]_vars => EraseBounded'
<1> SUFFICES ASSUME IInv, Kept, [Next]_vars, pc' = "erase"
             PROVE  IsFiniteSet(toDelete') /\ Cardinality(toDelete') \in 1..Len(readers')
  BY DEF EraseBounded
<1>1. readers \in Seq(Coro) /\ Len(readers) \in Nat
  BY DEF IInv, TypeOK
<1>2. CASE Clean
  <2>1. toDelete' = toDelete /\ readers' = readers /\ toDelete # {} /\ pc = "dispatch"
    BY <1>2 DEF Clean
  <2>2. toDelete \subseteq 1..Len(readers)
    BY <2>1 DEF Kept, FoundDead
  <2>3. IsFiniteSet(1..Len(readers)) /\ Cardinality(1..Len(readers)) = Len(readers)
    BY <1>1, FS_Interval
  <2>4. IsFiniteSet(toDelete) /\ Cardinality(toDelete) <= Len(readers)
    BY <2>2, <2>3, FS_Subset
  <2>5. Cardinality(toDelete) \in Nat /\ Cardinality(toDelete) # 0
    BY <2>1, <2>4, FS_CardinalityType, FS_EmptySet
  <2> QED
    BY <1>1, <2>1, <2>4, <2>5
<1>3. ASSUME NEW i \in toDelete, EraseDead(i)
      PROVE  IsFiniteSet(toDelete') /\ Cardinality(toDelete') \in 1..Len(readers')
  <2>1. /\ pc = "erase" /\ toDelete' = toDelete \ {i} /\ toDelete' # {}
        /\ readers' = EraseAt(readers, i)
    BY <1>3 DEF EraseDead
  <2>2. IsFiniteSet(toDelete) /\ Cardinality(toDelete) \in 1..Len(readers)
    BY <2>1 DEF Kept, EraseBounded
  <2>3. IsFiniteSet(toDelete') /\ Cardinality(toDelete') = Cardinality(toDelete) - 1
    BY <2>1, <2>2, FS_RemoveElement
  <2>4. Cardinality(toDelete') \in Nat /\ Cardinality(toDelete') # 0
    BY <2>1, <2>3, FS_CardinalityType, FS_EmptySet
  <2>5. Len(readers') = Len(readers) - 1
    <3>1. i \in Nat \ {0} /\ readers # << >>
      BY <1>1, <2>2 DEF IInv, ControlOK
    <3> QED
      BY <1>1, <2>1, <3>1, EraseAtElements
  <2> QED
    BY <1>1, <2>2, <2>3, <2>4, <2>5
<1>4. CASE UNCHANGED vars \/ Environment
  <2>1. UNCHANGED <<pc, readers, toDelete>>
    BY <1>4 DEF vars, schedVars, Environment
  <2> QED
    BY <2>1 DEF Kept, EraseBounded
<1>5. CASE \/ EnterRound \/ Return \/ PrepareDead \/ PrepareLive \/ Poll \/ Body
           \/ ThrowMultipleConsumers
           \/ \E f \in Fd : AbortOnMissingConsumer(f) \/ Resume(f)
  BY <1>5 DEF EnterRound, Return, PrepareDead, PrepareLive, NextReader, Poll, Body, BodyAwaits,
              BodyReturns, BodyThrows, BodySpawns, NextDescriptor,
              AbortOnMissingConsumer, Resume, ThrowMultipleConsumers
<1> QED
  BY <1>2, <1>3, <1>4, <1>5 DEF Next, Scheduler

LEMMA KeptHolds == Spec => []Kept
<1>1. Init => Kept
  BY DEF Init, Kept, FoundDead, EraseBounded
<1>2. IInv /\ Kept /\ [Next]_vars => Kept'
  BY FoundDeadStep, EraseBoundedStep DEF Kept
<1> QED
  BY <1>1, <1>2, InvariantHolds, PTL DEF Spec

(* The frame that an erase() destroys has ended, or is killed.             *)
LEMMA ErasedFrame ==
    ASSUME IInv, Kept, NEW i \in toDelete, EraseDead(i)
    PROVE  /\ \A c \in Coro : \/ frame'[c] = frame[c]
                              \/ frame[c] = "done" /\ frame'[c] = "destroyed"
                              \/ frame[c] = "suspended" /\ frame'[c] = "killed"
           /\ \A j \in 1..Len(readers') : \E k \in 1..Len(readers) : readers'[j] = readers[k]
<1>1. pc = "erase" /\ readers' = EraseAt(readers, i) /\ frame' = FrameAfterErase(readers, i)
  BY DEF EraseDead
<1>2. /\ frame \in [Coro -> FrameState] /\ readers \in Seq(Coro) /\ Len(readers) \in Nat
      /\ i \in Nat \ {0}
  BY DEF IInv, TypeOK, ReaderTypeOK, ControlOK
<1>3. Len(readers) >= 1 /\ Len(readers) \in 1..Len(readers)
  BY <1>1, <1>2 DEF Kept, EraseBounded
<1> DEFINE last == readers[Len(readers)]
<1>4. last \in Coro /\ frame[last] \in {"suspended", "done"}
  BY <1>2, <1>3 DEF IInv, VectorOK
<1>5. frame' = frame \/ frame' = [frame EXCEPT ![last] = Destroyed(last)]
  BY <1>1 DEF FrameAfterErase
<1>6. Destroyed(last) = IF frame[last] = "suspended" THEN "killed" ELSE "destroyed"
  BY DEF Destroyed, Live
<1>7. \A j \in 1..Len(readers') : \E k \in 1..Len(readers) : readers'[j] = readers[k]
  BY <1>1, <1>2, EraseAtElements
<1> HIDE DEF last
<1> QED
  BY <1>2, <1>4, <1>5, <1>6, <1>7

(* A live reader that has left the vector is never resumed or filed again. *)
LEMMA LostForGood == IInv /\ Kept /\ [Next]_vars /\ NoneLost' => NoneLost
<1> SUFFICES ASSUME IInv, Kept, [Next]_vars, NoneLost', NEW c \in Coro
             PROVE  frame[c] # "killed" /\ (Live(c) => Scheduled(c))
  BY DEF NoneLost
<1>1. /\ frame \in [Coro -> FrameState] /\ readers \in Seq(Coro)
      /\ frame'[c] # "killed"
      /\ frame'[c] = "suspended" => \E i \in 1..Len(readers') : readers'[i] = c
  BY DEF IInv, TypeOK, ReaderTypeOK, NoneLost, Live, Scheduled
<1>2. CASE UNCHANGED <<frame, readers>>
  BY <1>1, <1>2 DEF Live, Scheduled
<1>3. CASE BodyReturns \/ BodyThrows
  <2>1. /\ pc = "running" /\ readers' = readers
        /\ frame' = [frame EXCEPT ![current] = "done"]
    BY <1>3 DEF BodyReturns, BodyThrows, ReturnVoid, UnhandledException
  <2>2. /\ Live(current) /\ inWaiting[signal] \in 1..Len(readers)
        /\ current = readers[inWaiting[signal]]
    BY <2>1, OthersAreNotCurrent DEF IInv, RunningIsFiled, ConsumersValid
  <2>3. CASE c = current
    BY <2>2, <2>3 DEF Live, Scheduled
  <2>4. CASE c # current
    BY <1>1, <2>1, <2>4 DEF Live, Scheduled
  <2> QED
    BY <2>3, <2>4
<1>4. CASE BodySpawns
  <2>1. PICK d \in Coro : Create(d) /\ readers' = Append(readers, d)
    BY <1>4 DEF BodySpawns
  <2>2. frame[d] = "unborn" /\ \A x \in Coro : x # d => frame'[x] = frame[x]
    BY <1>1, <2>1 DEF Create
  <2>3. CASE c = d
    BY <2>2, <2>3 DEF Live
  <2>4. CASE c # d
    <3>1. \A i \in 1..Len(readers') : \/ i \in 1..Len(readers) /\ readers'[i] = readers[i]
                                      \/ readers'[i] = d
      <4>1. /\ Len(readers') = Len(readers) + 1 /\ Len(readers) \in Nat
            /\ readers'[Len(readers) + 1] = d
            /\ \A i \in 1..Len(readers) : readers'[i] = readers[i]
        BY <1>1, <2>1, AppendElements
      <4> QED
        BY <4>1
    <3> QED
      BY <1>1, <2>2, <2>4, <3>1 DEF Live, Scheduled
  <2> QED
    BY <2>3, <2>4
<1>5. CASE \E i \in toDelete : EraseDead(i)
  <2>1. /\ \/ frame'[c] = frame[c]
           \/ frame[c] = "done" /\ frame'[c] = "destroyed"
           \/ frame[c] = "suspended" /\ frame'[c] = "killed"
        /\ \A j \in 1..Len(readers') : \E k \in 1..Len(readers) : readers'[j] = readers[k]
    BY <1>5, ErasedFrame
  <2> QED
    BY <1>1, <2>1 DEF Live, Scheduled
<1>6. CASE \/ EnterRound \/ Return \/ PrepareDead \/ PrepareLive \/ Poll \/ Clean \/ BodyAwaits
           \/ ThrowMultipleConsumers
           \/ (\E f \in Fd : AbortOnMissingConsumer(f) \/ Resume(f))
           \/ Environment \/ UNCHANGED vars
  <2>1. UNCHANGED <<frame, readers>>
    BY <1>6 DEF EnterRound, Return, PrepareDead, PrepareLive, Poll, Clean, BodyAwaits, Await,
                AbortOnMissingConsumer, ThrowMultipleConsumers, Resume, Environment, Arrive, HangUp,
                schedVars, vars, readerVars
  <2> QED
    BY <1>2, <2>1
<1> QED
  BY <1>3, <1>4, <1>5, <1>6 DEF Next, Scheduler, Body

-----------------------------------------------------------------------------
(***************************************************************************)
(* What holds until a live reader is lost: every descriptor of the pollfd  *)
(* array, also one that is kept from the round before, has a live reader,  *)
(* and the one that is reported is filed under it.                         *)
(***************************************************************************)
FdsBacked ==
    pc \in {"loop", "prep", "poll", "erase"} =>
        \A f \in fds : \E c \in Coro : Live(c) /\ wants[c] = f

\* The descriptor being served is not visited again before its entry goes.
RevsFiled ==
    /\ pc \in {"dispatch", "running"} => \A f \in revents : inWaiting[f] # 0
    /\ pc = "running" => signal \notin revents

SafeInv == NoneLost /\ FdsBacked /\ RevsFiled

LEMMA InitSafe == Init => SafeInv
<1> SUFFICES ASSUME Init PROVE SafeInv
  OBVIOUS
<1> DEFINE added == {Initial[i] : i \in 1..Len(Initial)}
<1>1. /\ \A c \in Coro \ added : frame[c] = "unborn"
      /\ \A c \in Coro : frame[c] \in {"unborn", "suspended", "done"}
  BY DEF Init, ReaderInit
<1>2. NoneLost
  BY <1>1 DEF Init, NoneLost, Scheduled, Live
<1> QED
  BY <1>2 DEF Init, SafeInv, FdsBacked, RevsFiled

(* A vector in which nothing moved keeps what it schedules.                *)
LEMMA SameVector ==
    ASSUME NoneLost, UNCHANGED <<frame, readers>> PROVE NoneLost'
  BY DEF NoneLost, Scheduled, Live

LEMMA EnvironmentSafe == SafeInv /\ Environment => SafeInv'
<1> SUFFICES ASSUME SafeInv, Environment PROVE SafeInv'
  OBVIOUS
<1>1. UNCHANGED <<frame, wants, pc, readers, fds, inWaiting, revents, toDelete, signal>>
  BY DEF Environment, Arrive, HangUp, schedVars
<1> QED
  BY <1>1 DEF SafeInv, NoneLost, Scheduled, FdsBacked, RevsFiled, Live

LEMMA PrepareSafe ==
    IInv /\ SafeInv /\ (EnterRound \/ Return \/ PrepareDead \/ PrepareLive
                          \/ ThrowMultipleConsumers) => SafeInv'
<1> SUFFICES ASSUME IInv, SafeInv, EnterRound \/ Return \/ PrepareDead \/ PrepareLive
                                     \/ ThrowMultipleConsumers
             PROVE  SafeInv'
  OBVIOUS
<1>1. /\ UNCHANGED <<frame, wants, readers>>
      /\ pc \in {"loop", "prep"} /\ pc' \in {"prep", "poll", "returned", "multiple"}
  BY DEF EnterRound, Return, PrepareDead, PrepareLive, ThrowMultipleConsumers, readerVars,
         NextReader
<1>2. NoneLost'
  BY <1>1, SameVector DEF SafeInv
<1>3. FdsBacked'
  <2>1. CASE PrepareLive
    <3> DEFINE w == wants[readers[cursor]]
    <3>1. fds' = fds \cup {w} /\ Live(readers[cursor]) /\ pc = "prep"
      BY <2>1 DEF PrepareLive
    <3>2. readers[cursor] \in Coro
      BY <3>1 DEF IInv, TypeOK, ControlOK
    <3>3. \A f \in fds' : \E c \in Coro : Live(c) /\ wants[c] = f
      BY <3>1, <3>2 DEF SafeInv, FdsBacked
    <3> QED
      BY <1>1, <3>3 DEF FdsBacked, Live
  <2>2. CASE EnterRound \/ Return \/ PrepareDead \/ ThrowMultipleConsumers
    <3>1. fds' = fds
      BY <2>2 DEF EnterRound, Return, PrepareDead, ThrowMultipleConsumers
    <3> QED
      BY <1>1, <3>1 DEF SafeInv, FdsBacked, Live
  <2> QED
    BY <2>1, <2>2
<1> QED
  BY <1>1, <1>2, <1>3 DEF SafeInv, RevsFiled

(* poll() is entered with an entry for every descriptor it is given.       *)
LEMMA PollSafe == IInv /\ SafeInv /\ Poll => SafeInv'
<1> SUFFICES ASSUME IInv, SafeInv, Poll PROVE SafeInv'
  OBVIOUS
<1>1. /\ UNCHANGED <<frame, wants, readers, inWaiting>>
      /\ pc = "poll" /\ pc' = "dispatch" /\ revents' \subseteq fds
  BY DEF Poll, readerVars, Readable
<1>2. \A f \in fds : inWaiting[f] # 0
  <2> SUFFICES ASSUME NEW f \in fds PROVE inWaiting[f] # 0
    OBVIOUS
  <2>1. PICK c \in Coro : Live(c) /\ wants[c] = f
    BY <1>1 DEF SafeInv, FdsBacked
  <2>2. PICK i \in 1..Len(readers) : readers[i] = c
    BY <2>1 DEF SafeInv, NoneLost, Scheduled
  <2>3. inWaiting[f] = i
    BY <1>1, <2>1, <2>2 DEF IInv, OneConsumerPerFd
  <2> QED
    BY <2>3
<1>3. NoneLost'
  BY <1>1, SameVector DEF SafeInv
<1> QED
  BY <1>1, <1>2, <1>3 DEF SafeInv, FdsBacked, RevsFiled, Live

LEMMA DispatchSafe ==
    ASSUME IInv, SafeInv, NEW f \in Fd, AbortOnMissingConsumer(f) \/ Resume(f)
    PROVE  SafeInv'
<1>1. pc = "dispatch" /\ f \in revents /\ inWaiting[f] # 0
  BY DEF AbortOnMissingConsumer, Resume, FirstReadable, SafeInv, RevsFiled
<1>2. /\ UNCHANGED <<frame, readers, inWaiting>> /\ pc' = "running"
      /\ revents' = revents \ {f} /\ signal' = f
  BY <1>1 DEF AbortOnMissingConsumer, Resume
<1>3. NoneLost'
  BY <1>2, SameVector DEF SafeInv
<1> QED
  BY <1>1, <1>2, <1>3 DEF SafeInv, FdsBacked, RevsFiled, Live

LEMMA BodySafe == IInv /\ SafeInv /\ Body => SafeInv'
<1> SUFFICES ASSUME IInv, SafeInv, Body PROVE SafeInv'
  OBVIOUS
<1>1. /\ UNCHANGED revents
      /\ pc = "running" /\ pc' \in {"running", "dispatch", "thrown", "crashed"}
      /\ inWaiting' \in {inWaiting, [inWaiting EXCEPT ![signal] = 0]}
      /\ pc' = "running" => inWaiting' = inWaiting /\ signal' = signal
  BY DEF Body, BodyAwaits, BodyReturns, BodyThrows, BodySpawns, NextDescriptor
<1>2. frame \in [Coro -> FrameState] /\ readers \in Seq(Coro)
  BY DEF IInv, TypeOK, ReaderTypeOK
<1>3. NoneLost'
  <2>1. CASE BodyAwaits
    BY <2>1, SameVector DEF BodyAwaits, Await, SafeInv
  <2>2. CASE BodyReturns \/ BodyThrows
    <3>1. readers' = readers /\ frame' = [frame EXCEPT ![current] = "done"]
      BY <2>2 DEF BodyReturns, BodyThrows, ReturnVoid, UnhandledException
    <3>2. \A c \in Coro : frame'[c] = frame[c] \/ frame'[c] = "done"
      BY <1>2, <3>1
    <3> QED
      BY <3>1, <3>2 DEF SafeInv, NoneLost, Scheduled, Live
  <2>3. CASE BodySpawns
    <3>1. PICK c \in Coro : Create(c) /\ readers' = Append(readers, c)
      BY <2>3 DEF BodySpawns
    <3>2. frame'[c] # "killed" /\ \A d \in Coro : d # c => frame'[d] = frame[d]
      BY <1>2, <3>1 DEF Create
    <3>3. /\ Len(readers') = Len(readers) + 1 /\ Len(readers) \in Nat
          /\ readers'[Len(readers) + 1] = c
          /\ \A i \in 1..Len(readers) : readers'[i] = readers[i]
      BY <1>2, <3>1, AppendElements
    <3>4. /\ Len(readers) + 1 \in 1..Len(readers')
          /\ \A i \in 1..Len(readers) : i \in 1..Len(readers')
      BY <3>3
    <3>5. \A d \in Coro : frame'[d] = "suspended" =>
              \E i \in 1..Len(readers') : readers'[i] = d
      <4> SUFFICES ASSUME NEW d \in Coro, frame'[d] = "suspended"
                   PROVE  \E i \in 1..Len(readers') : readers'[i] = d
        OBVIOUS
      <4>1. CASE d = c
        BY <3>3, <3>4, <4>1
      <4>2. CASE d # c
        <5>1. PICK i \in 1..Len(readers) : readers[i] = d
          BY <3>2, <4>2 DEF SafeInv, NoneLost, Scheduled, Live
        <5> QED
          BY <3>3, <3>4, <5>1
      <4> QED
        BY <4>1, <4>2
    <3> QED
      BY <3>2, <3>5 DEF SafeInv, NoneLost, Scheduled, Live
  <2> QED
    BY <2>1, <2>2, <2>3 DEF Body
<1>4. RevsFiled'
  <2>1. signal \in Fd /\ inWaiting \in [Fd -> Nat] /\ revents \subseteq Fd
    BY <1>1, OthersAreNotCurrent DEF IInv, TypeOK
  <2>2. \A f \in revents : inWaiting'[f] = inWaiting[f]
    BY <1>1, <2>1 DEF SafeInv, RevsFiled
  <2> QED
    BY <1>1, <2>2 DEF SafeInv, RevsFiled
<1> QED
  BY <1>1, <1>3, <1>4 DEF SafeInv, FdsBacked

(* A descriptor is kept because its reader was not resumed.                *)
LEMMA CleanSafe == IInv /\ SafeInv /\ Clean => SafeInv'
<1> SUFFICES ASSUME IInv, SafeInv, Clean PROVE SafeInv'
  OBVIOUS
<1>1. /\ UNCHANGED <<frame, wants, readers>>
      /\ pc = "dispatch" /\ pc' \in {"loop", "erase", "aborted"}
      /\ fds' = {f \in fds : inWaiting[f] # 0}
  BY DEF Clean, readerVars
<1>2. \A f \in fds' : \E c \in Coro : Live(c) /\ wants[c] = f
  <2> SUFFICES ASSUME NEW f \in fds' PROVE \E c \in Coro : Live(c) /\ wants[c] = f
    OBVIOUS
  <2>1. f \in Fd /\ inWaiting[f] # 0
    BY <1>1 DEF IInv, TypeOK
  <2>2. /\ inWaiting[f] \in 1..Len(readers)
        /\ Live(readers[inWaiting[f]]) /\ wants[readers[inWaiting[f]]] = f
    BY <1>1, <2>1 DEF IInv, ConsumersValid
  <2> QED
    BY <2>2 DEF IInv, TypeOK
<1>3. NoneLost'
  BY <1>1, SameVector DEF SafeInv
<1> QED
  BY <1>1, <1>2, <1>3 DEF SafeInv, FdsBacked, RevsFiled, Live

(* As long as it takes none of them away, an erase() keeps what the live   *)
(* readers rely on.                                                        *)
LEMMA EraseSafe ==
    ASSUME IInv, Kept, SafeInv, NoneLost', NEW i \in toDelete, EraseDead(i)
    PROVE  SafeInv'
<1>1. wants' = wants /\ fds' = fds /\ pc = "erase" /\ pc' \in {"loop", "erase"}
  BY DEF EraseDead
<1>2. \A c \in Coro : frame[c] = "suspended" => frame'[c] = "suspended"
  BY ErasedFrame DEF NoneLost
<1>3. FdsBacked'
  BY <1>1, <1>2 DEF SafeInv, FdsBacked, Live
<1> QED
  BY <1>1, <1>3 DEF SafeInv, RevsFiled

LEMMA NextSafe == IInv /\ Kept /\ SafeInv /\ [Next]_vars /\ NoneLost' => SafeInv'
<1> SUFFICES ASSUME IInv, Kept, SafeInv, [Next]_vars, NoneLost' PROVE SafeInv'
  OBVIOUS
<1>1. CASE UNCHANGED vars
  <2>1. UNCHANGED <<frame, wants, pc, readers, fds, inWaiting, revents, signal>>
    BY <1>1 DEF vars, readerVars, schedVars
  <2> QED
    BY <2>1 DEF SafeInv, NoneLost, Scheduled, FdsBacked, RevsFiled, Live
<1> QED
  BY <1>1, EnvironmentSafe, PrepareSafe, PollSafe, DispatchSafe, BodySafe, CleanSafe,
     EraseSafe DEF Next, Scheduler

LEMMA LostOrSafe == Spec => [](NoneLost => SafeInv)
<1>1. Init => SafeInv
  BY InitSafe
<1>2. IInv /\ Kept /\ (NoneLost => SafeInv) /\ [Next]_vars => (NoneLost => SafeInv)'
  BY LostForGood, NextSafe
<1> QED
  BY <1>1, <1>2, InvariantHolds, KeptHolds, PTL DEF Spec

-----------------------------------------------------------------------------
(***************************************************************************)
(* A live reader is lost by a round that finds two dead ones, and by none  *)
(* other: the first slot that a round erases is the one found dead.        *)
(***************************************************************************)
OneAtMost == Cardinality(toDelete) <= 1

FinitelyMany == IsFiniteSet(toDelete)

EraseIsOfDead ==
    pc = "erase" => \A i \in toDelete : i \in 1..Len(readers) /\ ~Live(readers[i])

OneDeathInv == NoneLost /\ EraseIsOfDead

LEMMA AtMostOneElement ==
    ASSUME NEW S, IsFiniteSet(S), Cardinality(S) <= 1, NEW i \in S
    PROVE  S \ {i} = {}
<1>1. IsFiniteSet(S \ {i}) /\ Cardinality(S \ {i}) = Cardinality(S) - 1
  BY FS_RemoveElement
<1>2. Cardinality(S) \in Nat /\ Cardinality(S \ {i}) \in Nat
  BY <1>1, FS_CardinalityType
<1>3. Cardinality(S \ {i}) = 0
  BY <1>1, <1>2
<1> QED
  BY <1>1, <1>3, FS_EmptySet

(* The one slot that is erased is the one found dead: everyone else stays. *)
LEMMA EraseKeepsLive ==
    ASSUME IInv, Kept, OneDeathInv, FinitelyMany, OneAtMost, NEW i \in toDelete, EraseDead(i)
    PROVE  OneDeathInv'
<1>1. /\ pc = "erase" /\ readers' = EraseAt(readers, i) /\ toDelete' = toDelete \ {i}
      /\ frame' = FrameAfterErase(readers, i)
  BY DEF EraseDead
<1>2. toDelete' = {}
  BY <1>1, AtMostOneElement DEF OneAtMost, FinitelyMany
<1>3. pc' = "loop"
  BY <1>2 DEF EraseDead
<1>4. i \in 1..Len(readers) /\ ~Live(readers[i])
  BY <1>1 DEF OneDeathInv, EraseIsOfDead
<1>5. frame \in [Coro -> FrameState] /\ readers \in Seq(Coro) /\ Len(readers) \in Nat
  BY DEF IInv, TypeOK, ReaderTypeOK
<1>6. \A c \in Coro : /\ frame'[c] = "suspended" => frame[c] = "suspended"
                      /\ frame'[c] # "killed"
  <2>1. CASE i < Len(readers)
    <3>1. frame' = frame
      BY <1>1, <1>4, <1>5, <2>1 DEF FrameAfterErase
    <3> QED
      BY <3>1 DEF OneDeathInv, NoneLost
  <2>2. CASE ~(i < Len(readers))
    <3>1. i = Len(readers) /\ readers[i] \in Coro
      BY <1>4, <1>5, <2>2
    <3>2. frame' = [frame EXCEPT ![readers[i]] = "destroyed"]
      BY <1>1, <1>4, <3>1 DEF FrameAfterErase, Destroyed
    <3> QED
      BY <1>5, <3>1, <3>2 DEF OneDeathInv, NoneLost
  <2> QED
    BY <2>1, <2>2
<1>7. \A c \in Coro : frame[c] = "suspended" => \E j \in 1..Len(readers') : readers'[j] = c
  <2> SUFFICES ASSUME NEW c \in Coro, frame[c] = "suspended"
               PROVE  \E j \in 1..Len(readers') : readers'[j] = c
    OBVIOUS
  <2>1. PICK k \in 1..Len(readers) : readers[k] = c
    BY DEF OneDeathInv, NoneLost, Scheduled, Live
  <2>2. k # i
    BY <1>4, <2>1 DEF Live
  <2>3. /\ Len(readers') = Len(readers) - 1
        /\ \A j \in 1..Len(readers') :
              readers'[j] = IF j < i THEN readers[j] ELSE readers[j + 1]
    <3>1. i \in Nat \ {0} /\ readers # << >>
      BY <1>4, <1>5
    <3> QED
      BY <1>1, <1>5, <3>1, EraseAtElements
  <2>4. CASE k < i
    <3>1. k \in 1..Len(readers')
      BY <1>4, <1>5, <2>3, <2>4
    <3>2. readers'[k] = c
      BY <2>1, <2>3, <2>4, <3>1
    <3> QED
      BY <3>1, <3>2
  <2>5. CASE k > i
    <3>1. k - 1 \in 1..Len(readers') /\ ~(k - 1 < i) /\ (k - 1) + 1 = k
      BY <1>4, <1>5, <2>3, <2>5
    <3>2. readers'[k - 1] = c
      BY <2>1, <2>3, <3>1
    <3> QED
      BY <3>1, <3>2
  <2> QED
    BY <1>4, <1>5, <2>2, <2>4, <2>5
<1> QED
  BY <1>2, <1>6, <1>7 DEF OneDeathInv, NoneLost, Scheduled, EraseIsOfDead, Live

LEMMA OneDeathStep ==
    IInv /\ Kept /\ (NoneLost => SafeInv) /\ FinitelyMany /\ OneAtMost /\ OneDeathInv
      /\ [Next]_vars => OneDeathInv'
<1> SUFFICES ASSUME IInv, Kept, NoneLost => SafeInv, FinitelyMany, OneAtMost, OneDeathInv,
                    [Next]_vars
             PROVE  OneDeathInv'
  OBVIOUS
<1>1. SafeInv
  BY DEF OneDeathInv
<1>2. CASE \E i \in toDelete : EraseDead(i)
  BY <1>2, EraseKeepsLive
<1>3. CASE Clean
  <2>1. UNCHANGED <<frame, readers, toDelete>> /\ pc = "dispatch"
    BY <1>3 DEF Clean, readerVars
  <2> QED
    BY <2>1, SameVector DEF OneDeathInv, EraseIsOfDead, Kept, FoundDead, Live
<1>4. CASE UNCHANGED vars \/ Environment
  <2>1. UNCHANGED <<pc, frame, readers, toDelete>>
    BY <1>4 DEF vars, readerVars, schedVars, Environment, Arrive, HangUp
  <2> QED
    BY <2>1, SameVector DEF OneDeathInv, EraseIsOfDead, Live
<1>5. CASE \/ EnterRound \/ Return \/ PrepareDead \/ PrepareLive \/ Poll \/ Body
           \/ ThrowMultipleConsumers
           \/ \E f \in Fd : AbortOnMissingConsumer(f) \/ Resume(f)
  <2>1. NoneLost'
    BY <1>1, <1>5, PrepareSafe, PollSafe, DispatchSafe, BodySafe DEF SafeInv
  <2>2. pc' # "erase"
    BY <1>5 DEF EnterRound, Return, PrepareDead, PrepareLive, NextReader, Poll, Body, BodyAwaits,
                BodyReturns, BodyThrows, BodySpawns, NextDescriptor,
                AbortOnMissingConsumer, Resume, ThrowMultipleConsumers
  <2> QED
    BY <2>1, <2>2 DEF OneDeathInv, EraseIsOfDead
<1> QED
  BY <1>2, <1>3, <1>4, <1>5 DEF Next, Scheduler

(* to_delete has finitely many elements, one per slot.                     *)
LEMMA ToDeleteFinite == Spec => []FinitelyMany
<1>1. Init => FinitelyMany
  BY FS_EmptySet DEF Init, FinitelyMany
<1>2. FinitelyMany /\ [Next]_vars => FinitelyMany'
  <2> SUFFICES ASSUME IsFiniteSet(toDelete), [Next]_vars PROVE IsFiniteSet(toDelete')
    BY DEF FinitelyMany
  <2>1. \/ toDelete' = toDelete \/ toDelete' = {}
        \/ toDelete' = toDelete \cup {cursor}
        \/ \E i \in toDelete : toDelete' = toDelete \ {i}
    BY DEF Next, Scheduler, Body, Environment, EnterRound, Return, PrepareDead, PrepareLive,
           ThrowMultipleConsumers, Poll, AbortOnMissingConsumer, Resume, Clean, EraseDead,
           BodyAwaits, BodyReturns, BodyThrows, BodySpawns, vars, schedVars
  <2> QED
    BY <2>1, FS_EmptySet, FS_AddElement, FS_RemoveElement
<1> QED
  BY <1>1, <1>2, PTL DEF Spec

(* While rounds find one dead reader at most, no live reader is destroyed  *)
(* or left out of the vector, and assert(it != in_waiting.end()) holds;    *)
(* the other assert of a round may still fail.                             *)
THEOREM OneDeathKeepsReaders ==
    Spec /\ []OneAtMost =>
        [](NoneLost /\ (pc = "dispatch" => \A f \in revents : inWaiting[f] # 0))
<1>1. Init => OneDeathInv
  BY InitSafe DEF SafeInv, OneDeathInv, EraseIsOfDead, Init
<1>2. IInv /\ Kept /\ (NoneLost => SafeInv) /\ FinitelyMany /\ OneAtMost /\ OneDeathInv
        /\ [Next]_vars => OneDeathInv'
  BY OneDeathStep
<1>3. (NoneLost => SafeInv) /\ OneDeathInv
        => NoneLost /\ (pc = "dispatch" => \A f \in revents : inWaiting[f] # 0)
  BY DEF SafeInv, OneDeathInv, RevsFiled
<1> QED
  BY <1>1, <1>2, <1>3, InvariantHolds, KeptHolds, LostOrSafe, ToDeleteFinite, PTL DEF Spec

-----------------------------------------------------------------------------
(***************************************************************************)
(* The readers as Reactor knows them.                                      *)
(***************************************************************************)
LEMMA ViewFacts ==
    ASSUME NEW c \in Coro
    PROVE  /\ life[c] = "live" <=> Live(c)
           /\ life[c] = "unborn" <=> frame[c] = "unborn"
           /\ frame[c] \in {"done", "destroyed"} => life[c] = "ended"
           /\ awaits[c] = IF Live(c) THEN wants[c] ELSE NoFd
  BY DEF life, awaits, Live

(* A frame that is destroyed has ended before.                             *)
LEMMA SameView ==
    ASSUME wants' = wants,
           \A c \in Coro : frame'[c] = frame[c] \/ {frame[c], frame'[c]} \subseteq {"done", "destroyed"}
    PROVE  UNCHANGED <<life, awaits>>
<1>1. \A c \in Coro : /\ frame'[c] = "unborn" <=> frame[c] = "unborn"
                      /\ frame'[c] = "suspended" <=> frame[c] = "suspended"
  OBVIOUS
<1> QED
  BY <1>1 DEF life, awaits, Live

LEMMA AwaitView ==
    ASSUME NEW c \in Coro, NEW f \in Fd, Live(c), wants \in [Coro -> Fd \cup {NoFd}],
           Await(c, f)
    PROVE  life' = life /\ awaits' = [awaits EXCEPT ![c] = f]
<1>1. /\ frame' = frame /\ wants'[c] = f
      /\ \A d \in Coro : d # c => wants'[d] = wants[d]
  BY DEF Await
<1> QED
  BY <1>1 DEF life, awaits, Live

LEMMA EndView ==
    ASSUME NEW c \in Coro, frame \in [Coro -> FrameState], wants \in [Coro -> Fd \cup {NoFd}],
           ReturnVoid(c) \/ UnhandledException(c)
    PROVE  life' = [life EXCEPT ![c] = "ended"] /\ awaits' = [awaits EXCEPT ![c] = NoFd]
<1>1. /\ frame'[c] = "done"
      /\ \A d \in Coro : d # c => frame'[d] = frame[d] /\ wants'[d] = wants[d]
  BY DEF ReturnVoid, UnhandledException
<1> QED
  BY <1>1 DEF life, awaits, Live

LEMMA CreateView ==
    ASSUME NEW c \in Coro, frame \in [Coro -> FrameState], wants \in [Coro -> Fd \cup {NoFd}],
           Create(c)
    PROVE  /\ life[c] = "unborn"
           /\ \/ /\ life' = [life EXCEPT ![c] = "live"]
                 /\ \E f \in Fd : awaits' = [awaits EXCEPT ![c] = f]
              \/ life' = [life EXCEPT ![c] = "ended"] /\ UNCHANGED awaits
<1>1. life[c] = "unborn" /\ ~Live(c)
  BY ViewFacts DEF Create, Live
<1>2. \A d \in Coro : d # c => frame'[d] = frame[d]
  BY DEF Create
<1>3. ASSUME frame'[c] = "suspended", NEW f \in Fd, wants' = [wants EXCEPT ![c] = f]
      PROVE  /\ life' = [life EXCEPT ![c] = "live"]
             /\ awaits' = [awaits EXCEPT ![c] = f]
  <2>1. wants'[c] = f /\ \A d \in Coro : d # c => wants'[d] = wants[d]
    BY <1>3
  <2> QED
    BY <1>2, <1>3, <2>1 DEF life, awaits, Live
<1>4. ASSUME frame'[c] = "done", wants' = wants
      PROVE  life' = [life EXCEPT ![c] = "ended"] /\ UNCHANGED awaits
  BY <1>1, <1>2, <1>4 DEF life, awaits, Live
<1> QED
  BY <1>1, <1>3, <1>4 DEF Create

-----------------------------------------------------------------------------
(***************************************************************************)
(* The scheduler implements Reactor, step by step.                         *)
(***************************************************************************)
(* The reports of a poll() are all served before the next one, and the     *)
(* scheduler's own steps are taken while no reader runs.                   *)
RoundIsOver ==
    /\ pc \in {"loop", "prep", "poll", "erase"} => revents = {}
    /\ pc \in {"loop", "prep", "poll", "dispatch", "erase"} => current = NoCoro

LEMMA RoundOverHolds == Spec => []RoundIsOver
<1>1. Init => RoundIsOver
  BY DEF Init, RoundIsOver
<1>2. RoundIsOver /\ [Next]_vars => RoundIsOver'
  <2> SUFFICES ASSUME RoundIsOver, [Next]_vars PROVE RoundIsOver'
    OBVIOUS
  <2>1. CASE EnterRound \/ Return \/ PrepareDead \/ PrepareLive \/ Poll \/ Clean
               \/ ThrowMultipleConsumers
    BY <2>1 DEF EnterRound, Return, PrepareDead, PrepareLive, NextReader, Poll, Clean,
                ThrowMultipleConsumers, RoundIsOver
  <2>2. CASE \E f \in Fd : AbortOnMissingConsumer(f) \/ Resume(f)
    BY <2>2 DEF AbortOnMissingConsumer, Resume, RoundIsOver
  <2>3. CASE \E i \in toDelete : EraseDead(i)
    BY <2>3 DEF EraseDead, RoundIsOver
  <2>4. CASE Body
    BY <2>4 DEF Body, BodyAwaits, BodyReturns, BodyThrows, BodySpawns, NextDescriptor, RoundIsOver
  <2>5. CASE Environment \/ UNCHANGED vars
    BY <2>5 DEF Environment, vars, schedVars, RoundIsOver
  <2> QED
    BY <2>1, <2>2, <2>3, <2>4, <2>5 DEF Next, Scheduler
<1> QED
  BY <1>1, <1>2, PTL DEF Spec

reactorView == <<life, awaits, input, revents, current, Outcome>>

LEMMA ReactorInit == Init => R!Init
<1> SUFFICES ASSUME Init PROVE R!Init
  OBVIOUS
<1>1. AwaitsADescriptor
  BY InitIInv DEF IInv
<1>2. wants \in [Coro -> Fd \cup {NoFd}] /\ NoFd \notin Fd
  BY FdAssumption DEF Init, ReaderInit
<1>3. life \in [Coro -> {"unborn", "live", "ended"}] /\ awaits \in [Coro -> Fd \cup {NoFd}]
  BY <1>2 DEF life, awaits
<1>4. \A c \in Coro : life[c] = "live" <=> awaits[c] \in Fd
  BY <1>1, <1>2, ViewFacts DEF AwaitsADescriptor
<1>5. /\ Outcome = "none" /\ input = {} /\ revents = {} /\ current = NoCoro
      /\ NoneLost
  BY InitSafe DEF Init, ReaderInit, Outcome, SafeInv
<1> QED
  BY <1>3, <1>4, <1>5 DEF R!Init, R!Live

(* Data arrives; of a hang-up nothing is seen until poll() reports data.   *)
LEMMA EnvironmentReacts == Environment => [R!Next]_reactorView
<1> SUFFICES ASSUME NEW f \in Fd, Arrive(f) \/ HangUp(f), UNCHANGED schedVars
             PROVE  [R!Next]_reactorView
  BY DEF Environment
<1>1. UNCHANGED <<frame, wants, pc, revents, current>>
  BY DEF Arrive, HangUp, schedVars
<1>2. UNCHANGED <<life, awaits, Outcome>>
  BY <1>1 DEF life, awaits, Live, Outcome
<1>3. CASE Arrive(f)
  <2>1. R!Arrive(f)
    BY <1>1, <1>2, <1>3 DEF Arrive, R!Arrive
  <2> QED
    BY <2>1 DEF R!Next
<1>4. CASE HangUp(f)
  BY <1>1, <1>2, <1>4 DEF HangUp, reactorView
<1> QED
  BY <1>3, <1>4

(* Preparing a round and cleaning up after it are not seen by the readers, *)
(* unless run() gives up there.                                            *)
LEMMA PrepareReacts ==
    RoundIsOver /\ (EnterRound \/ PrepareDead \/ PrepareLive \/ ThrowMultipleConsumers \/ Clean)
      => [R!Next]_reactorView
<1> SUFFICES ASSUME RoundIsOver,
                    EnterRound \/ PrepareDead \/ PrepareLive \/ ThrowMultipleConsumers \/ Clean
             PROVE  [R!Next]_reactorView
  OBVIOUS
<1>1. /\ UNCHANGED <<frame, wants, input, revents, current>>
      /\ pc \in {"loop", "prep", "dispatch"}
      /\ pc' \in {"prep", "poll", "loop", "erase", "multiple", "aborted"}
      /\ pc' \in {"multiple", "aborted"} => revents = {}
  BY DEF EnterRound, PrepareDead, PrepareLive, ThrowMultipleConsumers, Clean, NextReader,
         readerVars, RoundIsOver
<1>2. UNCHANGED <<life, awaits>> /\ Outcome = "none" /\ current = NoCoro
  BY <1>1 DEF life, awaits, Live, Outcome, RoundIsOver
<1>3. CASE pc' \in {"multiple", "aborted"}
  <2>1. Outcome' = "refused"
    BY <1>3 DEF Outcome
  <2>2. R!Refuse
    BY <1>1, <1>2, <1>3, <2>1 DEF R!Refuse, R!Between
  <2> QED
    BY <2>2 DEF R!Next
<1>4. CASE pc' \notin {"multiple", "aborted"}
  <2>1. Outcome' = "none"
    BY <1>1, <1>4 DEF Outcome
  <2> QED
    BY <1>1, <1>2, <2>1 DEF reactorView
<1> QED
  BY <1>3, <1>4

(* The erased reader has ended, unless one that lives is lost.             *)
LEMMA EraseReacts ==
    ASSUME IInv, Kept, NoneLost', NEW i \in toDelete, EraseDead(i)
    PROVE  UNCHANGED reactorView
<1>1. /\ UNCHANGED <<wants, input, revents, current>>
      /\ pc = "erase" /\ pc' \in {"erase", "loop"}
  BY DEF EraseDead
<1>2. \A c \in Coro :
         frame'[c] = frame[c] \/ {frame[c], frame'[c]} \subseteq {"done", "destroyed"}
  BY ErasedFrame DEF NoneLost
<1>3. UNCHANGED <<life, awaits>>
  BY <1>1, <1>2, SameView
<1> QED
  BY <1>1, <1>3 DEF reactorView, Outcome

(* poll() is given what the live readers await, all of it and nothing else.*)
LEMMA PollReacts == IInv /\ SafeInv /\ RoundIsOver /\ Poll => R!Poll
<1> SUFFICES ASSUME IInv, SafeInv, RoundIsOver, Poll PROVE R!Poll
  OBVIOUS
<1>1. /\ UNCHANGED <<frame, wants, input, current>> /\ current = NoCoro
      /\ pc = "poll" /\ pc' = "dispatch" /\ revents = {} /\ revents' = fds \cap input
  BY DEF Poll, Readable, readerVars, RoundIsOver
<1>2. UNCHANGED <<life, awaits>> /\ Outcome = "none" /\ Outcome' = "none"
  BY <1>1 DEF life, awaits, Live, Outcome
<1>3. fds \subseteq R!Awaited
  <2> SUFFICES ASSUME NEW f \in fds PROVE f \in R!Awaited
    OBVIOUS
  <2>1. f \in Fd
    BY DEF IInv, TypeOK
  <2>2. PICK c \in Coro : Live(c) /\ wants[c] = f
    BY <1>1 DEF SafeInv, FdsBacked
  <2> QED
    BY <2>1, <2>2, ViewFacts DEF R!Awaited, R!Live
<1>4. R!Awaited \subseteq fds
  <2> SUFFICES ASSUME NEW c \in Coro, life[c] = "live" PROVE awaits[c] \in fds
    BY DEF R!Awaited, R!Live
  <2>1. Live(c) /\ awaits[c] = wants[c]
    BY ViewFacts
  <2>2. PICK i \in 1..Len(readers) : readers[i] = c
    BY <2>1 DEF SafeInv, NoneLost, Scheduled
  <2> QED
    BY <1>1, <2>1, <2>2 DEF IInv, OneConsumerPerFd
<1> QED
  BY <1>1, <1>2, <1>3, <1>4 DEF R!Poll, R!Between

(* The reader filed for a reported descriptor is live and awaits it.       *)
LEMMA ResumeReacts ==
    ASSUME IInv, RoundIsOver, NEW f \in Fd, Resume(f)
    PROVE  R!Serve(current') /\ current' \in Coro
<1>1. /\ UNCHANGED <<frame, wants>> /\ pc = "dispatch" /\ pc' = "running"
      /\ f \in revents /\ inWaiting[f] # 0 /\ revents' = revents \ {f}
      /\ current' = readers[inWaiting[f]]
      /\ input' \in {input, input \ {f}} /\ current = NoCoro
  BY DEF Resume, FirstReadable, Reads, RoundIsOver
<1>2. UNCHANGED <<life, awaits>> /\ Outcome = "none" /\ Outcome' = "none"
  BY <1>1 DEF life, awaits, Live, Outcome
<1>3. inWaiting[f] \in 1..Len(readers) /\ Live(current') /\ wants[current'] = f
  BY <1>1 DEF IInv, ConsumersValid
<1>4. current' \in Coro
  BY <1>1, <1>3 DEF IInv, TypeOK
<1>5. life[current'] = "live" /\ awaits[current'] = f
  BY <1>3, <1>4, ViewFacts
<1> QED
  BY <1>1, <1>2, <1>4, <1>5 DEF R!Serve, R!Between, R!Live

LEMMA BodyReacts == IInv /\ Body => [R!Next]_reactorView
<1> SUFFICES ASSUME IInv, Body PROVE [R!Next]_reactorView
  OBVIOUS
<1>1. /\ pc = "running" /\ current \in Coro /\ Live(current)
      /\ frame \in [Coro -> FrameState] /\ wants \in [Coro -> Fd \cup {NoFd}]
  BY OthersAreNotCurrent DEF Body, BodyAwaits, BodyReturns, BodyThrows, BodySpawns, IInv, TypeOK,
         ReaderTypeOK
<1>2. UNCHANGED <<input, revents>> /\ R!Running /\ Outcome = "none"
  BY <1>1 DEF Body, BodyAwaits, BodyReturns, BodyThrows, BodySpawns,
              R!Running, Outcome
<1>3. CASE BodyAwaits
  <2>1. PICK g \in Fd : Await(current, g)
    BY <1>3 DEF BodyAwaits
  <2>2. life' = life /\ awaits' = [awaits EXCEPT ![current] = g]
    BY <1>1, <2>1, AwaitView
  <2>3. current' = NoCoro /\ Outcome' = "none"
    BY <1>3 DEF BodyAwaits, NextDescriptor, Outcome
  <2>4. R!Await(g)
    BY <1>2, <2>2, <2>3 DEF R!Await
  <2> QED
    BY <2>4 DEF R!Next
<1>4. CASE BodyReturns
  <2>1. life' = [life EXCEPT ![current] = "ended"] /\ awaits' = [awaits EXCEPT ![current] = NoFd]
    BY <1>1, <1>4, EndView DEF BodyReturns
  <2>2. current' = NoCoro /\ Outcome' = "none"
    BY <1>4 DEF BodyReturns, NextDescriptor, Outcome
  <2>3. R!Finish
    BY <1>2, <2>1, <2>2 DEF R!Finish, R!Ends
  <2> QED
    BY <2>3 DEF R!Next
<1>5. CASE BodyThrows
  <2>1. life' = [life EXCEPT ![current] = "ended"] /\ awaits' = [awaits EXCEPT ![current] = NoFd]
    BY <1>1, <1>5, EndView DEF BodyThrows
  <2>2. current' = current /\ Outcome' = "thrown"
    BY <1>5 DEF BodyThrows, Outcome
  <2>3. R!Throw
    BY <1>2, <2>1, <2>2 DEF R!Throw, R!Ends
  <2> QED
    BY <2>3 DEF R!Next
<1>6. CASE BodySpawns
  <2>1. PICK c \in Coro : Create(c)
    BY <1>6 DEF BodySpawns
  <2>2. /\ life[c] = "unborn"
        /\ \/ /\ life' = [life EXCEPT ![c] = "live"]
              /\ \E f \in Fd : awaits' = [awaits EXCEPT ![c] = f]
           \/ life' = [life EXCEPT ![c] = "ended"] /\ UNCHANGED awaits
    BY <1>1, <2>1, CreateView
  <2>3. current' = current /\ Outcome' \in {"none", "crashed"}
    BY <1>1, <1>6 DEF BodySpawns, Outcome
  <2>4. R!Add(c)
    BY <1>2, <2>2, <2>3 DEF R!Add
  <2> QED
    BY <2>4 DEF R!Next
<1> QED
  BY <1>3, <1>4, <1>5, <1>6 DEF Body

(* No live reader is outside the vector that the loop condition looks at.  *)
LEMMA ReturnReacts == IInv /\ SafeInv /\ RoundIsOver /\ Return => R!Return
<1> SUFFICES ASSUME IInv, SafeInv, RoundIsOver, Return PROVE R!Return
  OBVIOUS
<1>1. /\ UNCHANGED <<frame, wants, input, revents, current>> /\ current = NoCoro
      /\ pc = "loop" /\ pc' = "returned" /\ revents = {} /\ ~AnyRunning
  BY DEF Return, readerVars, RoundIsOver
<1>2. UNCHANGED <<life, awaits>> /\ Outcome = "none" /\ Outcome' = "returned"
  BY <1>1 DEF life, awaits, Live, Outcome
<1>3. \A c \in Coro : ~Live(c)
  BY <1>1 DEF AnyRunning, SafeInv, NoneLost, Scheduled
<1> QED
  BY <1>1, <1>2, <1>3, ViewFacts DEF R!Return, R!Between, R!Live

LEMMA StepReacts ==
    IInv /\ Kept /\ SafeInv /\ RoundIsOver /\ NoneLost' /\ [Next]_vars => [R!Next]_reactorView
<1> SUFFICES ASSUME IInv, Kept, SafeInv, RoundIsOver, NoneLost', [Next]_vars
             PROVE  [R!Next]_reactorView
  OBVIOUS
<1>1. CASE Poll
  BY <1>1, PollReacts DEF R!Next
<1>2. CASE Return
  BY <1>2, ReturnReacts DEF R!Next
<1>3. CASE \E f \in Fd : AbortOnMissingConsumer(f) \/ Resume(f)
  <2>1. PICK f \in Fd : AbortOnMissingConsumer(f) \/ Resume(f)
    BY <1>3
  <2>2. ~AbortOnMissingConsumer(f)
    BY DEF AbortOnMissingConsumer, FirstReadable, SafeInv, RevsFiled
  <2>3. R!Serve(current') /\ current' \in Coro
    BY <2>1, <2>2, ResumeReacts
  <2> QED
    BY <2>3 DEF R!Next
<1>4. CASE UNCHANGED vars
  BY <1>4 DEF vars, readerVars, schedVars, reactorView, life, awaits, Live, Outcome
<1>5. CASE \E i \in toDelete : EraseDead(i)
  BY <1>5, EraseReacts
<1> QED
  BY <1>1, <1>2, <1>3, <1>4, <1>5, EnvironmentReacts, PrepareReacts, BodyReacts
     DEF Next, Scheduler

(* Until it has erased a live reader the scheduler implements Reactor;     *)
(* OneDeathKeepsReaders says which rounds can do that.  A second reader of *)
(* a descriptor, or a round that served nobody, makes run() give up, with  *)
(* every report served.                                                    *)
THEOREM ImplementsItsPromise == Spec => ImplementsReactor
<1>1. IInv /\ Kept /\ (NoneLost => SafeInv) /\ RoundIsOver /\ [Next]_vars
        => [~NoneLost' \/ R!Next]_<<life, awaits, input, revents, current, Outcome, ~NoneLost>>
  <2> SUFFICES ASSUME IInv, Kept, NoneLost => SafeInv, RoundIsOver, [Next]_vars, NoneLost'
               PROVE  R!Next \/ UNCHANGED <<life, awaits, input, revents, current, Outcome,
                                            ~NoneLost>>
    OBVIOUS
  <2>1. NoneLost
    BY LostForGood
  <2>2. [R!Next]_reactorView
    BY <2>1, StepReacts
  <2> QED
    BY <2>1, <2>2 DEF reactorView
<1> QED
  BY <1>1, ReactorInit, InvariantHolds, KeptHolds, LostOrSafe, RoundOverHolds, PTL
     DEF Spec, ImplementsReactor, R!Spec, R!reactorVars
=============================================================================
