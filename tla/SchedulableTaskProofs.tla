----------------------- MODULE SchedulableTaskProofs -----------------------
(***************************************************************************)
(* Proofs about the two executors, for any set of coroutines: each of them *)
(* holds at most one handle of a coroutine, and makes an await a call.     *)
(***************************************************************************)
EXTENDS SchedulableTask, SequenceTheorems, TLAPS

-----------------------------------------------------------------------------
(* Sequences.                                                              *)

(* tasks.pop() shifts the queue.                                           *)
LEMMA PopFront ==
    ASSUME NEW S, NEW q \in Seq(S), q # << >>
    PROVE  /\ Tail(q) \in Seq(S)
           /\ Head(q) = q[1] /\ q[1] \in S /\ 1 \in 1..Len(q)
           /\ Len(q) \in Nat /\ Len(Tail(q)) = Len(q) - 1
           /\ \A i \in 1..Len(Tail(q)) : Tail(q)[i] = q[i + 1] /\ i + 1 \in 1..Len(q)
           /\ \A i \in 1..Len(q) : i # 1 => i - 1 \in 1..Len(Tail(q)) /\ Tail(q)[i - 1] = q[i]
  OBVIOUS

(* push() and push_back() leave what is there in place.                    *)
LEMMA PushBack ==
    ASSUME NEW S, NEW q \in Seq(S), NEW x \in S
    PROVE  /\ Append(q, x) \in Seq(S)
           /\ Len(q) \in Nat /\ Len(Append(q, x)) = Len(q) + 1
           /\ Append(q, x)[Len(q) + 1] = x
           /\ \A i \in 1..Len(q) : Append(q, x)[i] = q[i]
  OBVIOUS

(* back() and pop_back().                                                  *)
LEMMA PopBack ==
    ASSUME NEW S, NEW q \in Seq(S), q # << >>
    PROVE  /\ SubSeq(q, 1, Len(q) - 1) \in Seq(S)
           /\ Len(q) \in 1..Len(q) /\ q[Len(q)] \in S
           /\ Len(SubSeq(q, 1, Len(q) - 1)) = Len(q) - 1
           /\ \A i \in 1..(Len(q) - 1) : /\ SubSeq(q, 1, Len(q) - 1)[i] = q[i]
                                         /\ i \in 1..Len(q)
<1>1. Len(q) \in Nat /\ Len(q) >= 1 /\ \A i \in 1..Len(q) : q[i] \in S
  OBVIOUS
<1> DEFINE n == Len(q) - 1
<1>2. n \in Int /\ 1 \in Int /\ \A i \in 1..n : q[i] \in S
  BY <1>1
<1>3. /\ SubSeq(q, 1, n) \in Seq(S)
      /\ Len(SubSeq(q, 1, n)) = IF 1 <= n THEN n - 1 + 1 ELSE 0
      /\ \A i \in 1..(n - 1 + 1) : SubSeq(q, 1, n)[i] = q[1 + i - 1]
  <2> HIDE DEF n
  <2> QED
    BY <1>2, SubSeqProperties
<1>4. n - 1 + 1 = n /\ \A i \in 1..n : 1 + i - 1 = i
  BY <1>2
<1>5. Len(SubSeq(q, 1, n)) = n
  <2> DEFINE l == Len(SubSeq(q, 1, n))
  <2>1. l = (IF 1 <= n THEN n - 1 + 1 ELSE 0) /\ n \in Nat
    BY <1>1, <1>3
  <2> HIDE DEF n, l
  <2>2. l = n
    BY <2>1
  <2> QED
    BY <2>2 DEF l
<1>6. \A i \in 1..n : SubSeq(q, 1, n)[i] = q[i]
  BY <1>3, <1>4
<1> QED
  BY <1>1, <1>3, <1>5, <1>6

-----------------------------------------------------------------------------
(***************************************************************************)
(* The inductive invariant.  A caller waits in the stack; what it awaits   *)
(* is above it in the stack, or the second of a queued pair (its own       *)
(* callee is queued), or runs, or is done.  The stack is popped when       *)
(* nothing is queued and nothing runs: then the top one's callee is done.  *)
(***************************************************************************)
RunningOK ==
    /\ \A c \in Coro : frame[c] = "running" <=> c = running
    /\ running # None => source[running] = None

UnbornAwaitsNothing == \A c \in Coro : frame[c] = "unborn" => source[c] = None

TrivialQueuesNothing == executor = "trivial" => tasks = << >>

QueuedPairs ==
    \A i \in 1..Len(tasks) :
        /\ source[tasks[i].first] = None
        /\ tasks[i].second # None => source[tasks[i].second] = tasks[i].first

Pending(d, i) ==
    \/ frame[d] = "done"
    \/ d = running
    \/ \E j \in 1..Len(stack) : j > i /\ stack[j] = d
    \/ \E k \in 1..Len(tasks) : tasks[k].second = d

StackedWait ==
    \A i \in 1..Len(stack) :
        source[stack[i]] \in Coro /\ Pending(source[stack[i]], i)

IInv ==
    /\ TypeOK
    /\ HandlesSuspended
    /\ RunningOK
    /\ UnbornAwaitsNothing
    /\ TrivialQueuesNothing
    /\ QueuedPairs
    /\ StackedWait

LEMMA NoneFacts == None \notin Coro
  BY NoneAssumption

(* Nothing is scheduled at the start.                                      *)
LEMMA InitIInv == Init => IInv
<1> SUFFICES ASSUME Init
             PROVE  IInv
  OBVIOUS
<1> USE NoneFacts DEF Init
<1>1. \A i \in 1..0 : FALSE
  OBVIOUS
<1>2. Len(tasks) = 0 /\ Len(stack) = 0
  OBVIOUS
<1>3. TypeOK
  BY DEF TypeOK
<1>4. HandlesSuspended /\ QueuedPairs /\ StackedWait
  BY <1>1, <1>2 DEF HandlesSuspended, QueuedPairs, StackedWait
<1>5. RunningOK /\ UnbornAwaitsNothing /\ TrivialQueuesNothing
  BY DEF RunningOK, UnbornAwaitsNothing, TrivialQueuesNothing
<1> QED
  BY <1>3, <1>4, <1>5 DEF IInv

(* execute() begins and ends: only pc changes.                             *)
LEMMA MainIInv == IInv /\ (Execute \/ ExecuteReturns \/ UNCHANGED vars) => IInv'
<1> SUFFICES ASSUME IInv, Execute \/ ExecuteReturns \/ UNCHANGED vars
             PROVE  IInv'
  OBVIOUS
<1>1. UNCHANGED <<executor, frame, source, tasks, stack, running>>
  BY DEF Execute, ExecuteReturns, vars
<1>2. TypeOK'
  BY <1>1 DEF IInv, TypeOK, Execute, ExecuteReturns, vars
<1> QED
  BY <1>1, <1>2 DEF IInv, HandlesSuspended, RunningOK, UnbornAwaitsNothing,
       TrivialQueuesNothing, QueuedPairs, StackedWait, Pending

(* The coroutine that runs, and one that is not born, have no handle in    *)
(* the executor.                                                           *)
LEMMA NotHeld ==
    ASSUME IInv, NEW c \in Coro, frame[c] # "suspended"
    PROVE  /\ \A i \in 1..Len(tasks) : tasks[i].first # c /\ tasks[i].second # c
           /\ \A i \in 1..Len(stack) : stack[i] # c
  BY NoneFacts DEF IInv, TypeOK, HandlesSuspended

(* A coroutine that is not born is nobody's callee.                        *)
LEMMA UnbornNotPending ==
    ASSUME IInv, NEW d \in Coro, frame[d] = "unborn"
    PROVE  /\ \A i \in 1..Len(stack) : source[stack[i]] # d
           /\ d # running
<1>1. d # running
  BY DEF IInv, RunningOK
<1>2. \A i \in 1..Len(stack) : ~Pending(d, i)
  BY <1>1, NotHeld DEF Pending
<1> QED
  BY <1>1, <1>2 DEF IInv, StackedWait

(* The end of a coroutine.                                                 *)
LEMMA ReturnIInv == IInv /\ Return => IInv'
<1> SUFFICES ASSUME IInv, Return
             PROVE  IInv'
  OBVIOUS
<1> USE DEF Return
<1>1. running \in Coro /\ frame[running] = "running"
  BY DEF IInv, TypeOK, RunningOK
<1>2. TypeOK'
  BY <1>1 DEF IInv, TypeOK
<1>3. HandlesSuspended'
  BY <1>1, NotHeld, NoneFacts DEF IInv, TypeOK, HandlesSuspended
<1>4. RunningOK' /\ UnbornAwaitsNothing' /\ TrivialQueuesNothing' /\ QueuedPairs'
  BY <1>1, NoneFacts DEF IInv, TypeOK, RunningOK, UnbornAwaitsNothing, TrivialQueuesNothing, QueuedPairs
<1>5. StackedWait'
  <2> SUFFICES ASSUME NEW i \in 1..Len(stack)
               PROVE  source[stack[i]] \in Coro /\ Pending(source[stack[i]], i)'
    BY DEF StackedWait
  <2>1. source[stack[i]] \in Coro /\ Pending(source[stack[i]], i)
    BY DEF IInv, StackedWait
  <2> QED
    BY <2>1, <1>1 DEF Pending, IInv, TypeOK
<1> QED
  BY <1>2, <1>3, <1>4, <1>5 DEF IInv

(* A turn of the inner loop: the caller is stacked, its callee runs.       *)
LEMMA LaunchIInv == IInv /\ Launch => IInv'
<1> SUFFICES ASSUME IInv, Launch
             PROVE  IInv'
  OBVIOUS
<1> DEFINE c == tasks[1].first
           s == tasks[1].second
<1>1. /\ tasks \in Seq(Pair) /\ tasks # << >>
      /\ stack \in Seq(Coro)
  BY DEF IInv, TypeOK, Launch
<1>2. /\ tasks' = Tail(tasks) /\ tasks' \in Seq(Pair)
      /\ tasks[1] \in Pair /\ 1 \in 1..Len(tasks) /\ Len(tasks) \in Nat
      /\ Len(tasks') = Len(tasks) - 1
      /\ \A i \in 1..Len(tasks') : tasks'[i] = tasks[i + 1] /\ i + 1 \in 1..Len(tasks)
      /\ \A i \in 1..Len(tasks) : i # 1 => i - 1 \in 1..Len(tasks') /\ tasks'[i - 1] = tasks[i]
  BY <1>1, PopFront DEF Launch
<1>3. /\ c \in Coro /\ s \in Coro \cup {None}
      /\ running = None /\ running' = c
      /\ frame' = [frame EXCEPT ![c] = "running"]
      /\ UNCHANGED <<executor, pc, source>>
  BY <1>1, <1>2, PopFront DEF Launch, Pair
<1>4. s = None => stack' = stack
  BY <1>1, PopFront DEF Launch, Stacked
<1>5. s # None => /\ stack' = Append(stack, s) /\ s \in Coro
                  /\ Len(stack') = Len(stack) + 1 /\ Len(stack) \in Nat
                  /\ stack'[Len(stack) + 1] = s
                  /\ \A i \in 1..Len(stack) : stack'[i] = stack[i]
  BY <1>1, <1>3, PopFront, PushBack DEF Launch, Stacked
<1>6. /\ stack' \in Seq(Coro)
      /\ \A i \in 1..Len(stack') :
            \/ i \in 1..Len(stack) /\ stack'[i] = stack[i]
            \/ s # None /\ i = Len(stack) + 1 /\ stack'[i] = s
      /\ \A i \in 1..Len(stack) : i \in 1..Len(stack') /\ stack'[i] = stack[i]
      /\ Len(stack) \in Nat
  <2>1. CASE s = None
    BY <2>1, <1>1, <1>4
  <2>2. CASE s # None
    BY <2>2, <1>1, <1>5, PushBack
  <2> QED
    BY <2>1, <2>2
<1>7. /\ frame[c] = "suspended" /\ source[c] = None
      /\ s # None => frame[s] = "suspended" /\ source[s] = c
      /\ s # c
      /\ \A i \in 1..Len(tasks') : /\ tasks'[i].first \notin {c, s}
                                   /\ tasks'[i].second # c
                                   /\ tasks'[i].second # None => tasks'[i].second # s
      /\ \A i \in 1..Len(stack) : stack[i] \notin {c, s}
  BY <1>2, <1>3 DEF IInv, HandlesSuspended, QueuedPairs
<1>8. TypeOK'
  BY <1>2, <1>3, <1>6 DEF IInv, TypeOK
<1>9. HandlesSuspended'
  <2>1. \A i \in 1..Len(tasks') :
            /\ tasks'[i].first \in Coro /\ tasks'[i].second \in Coro \cup {None}
            /\ frame[tasks'[i].first] = "suspended"
            /\ tasks'[i].second # None => frame[tasks'[i].second] = "suspended"
    <3> SUFFICES ASSUME NEW i \in 1..Len(tasks')
                 PROVE  /\ tasks[i + 1].first \in Coro /\ tasks[i + 1].second \in Coro \cup {None}
                        /\ frame[tasks[i + 1].first] = "suspended"
                        /\ tasks[i + 1].second # None => frame[tasks[i + 1].second] = "suspended"
      BY <1>2
    <3>1. i + 1 \in 1..Len(tasks) /\ tasks[i + 1] \in Pair
      BY <1>1, <1>2
    <3> QED
      BY <3>1 DEF IInv, HandlesSuspended, Pair
  <2>2. \A i \in 1..Len(tasks') :
            /\ frame'[tasks'[i].first] = "suspended"
            /\ tasks'[i].second # None => frame'[tasks'[i].second] = "suspended"
    BY <2>1, <1>3, <1>7 DEF IInv, TypeOK
  <2>3. \A i, j \in 1..Len(tasks') :
            /\ tasks'[i].first = tasks'[j].first => i = j
            /\ tasks'[i].second = tasks'[j].second /\ tasks'[i].second # None => i = j
            /\ tasks'[i].first # tasks'[j].second
    <3> SUFFICES ASSUME NEW i \in 1..Len(tasks'), NEW j \in 1..Len(tasks')
                 PROVE  /\ tasks[i + 1].first = tasks[j + 1].first => i = j
                        /\ tasks[i + 1].second = tasks[j + 1].second /\ tasks[i + 1].second # None => i = j
                        /\ tasks[i + 1].first # tasks[j + 1].second
      BY <1>2
    <3>1. i + 1 \in 1..Len(tasks) /\ j + 1 \in 1..Len(tasks)
      BY <1>2
    <3> QED
      BY <3>1 DEF IInv, HandlesSuspended
  <2>4. \A i \in 1..Len(stack) : stack[i] \in Coro /\ frame[stack[i]] = "suspended"
    BY <1>1 DEF IInv, HandlesSuspended
  <2>5. \A i \in 1..Len(stack') : frame'[stack'[i]] = "suspended"
    BY <2>4, <1>3, <1>6, <1>7 DEF IInv, TypeOK
  <2>6. \A i, j \in 1..Len(stack') : stack'[i] = stack'[j] => i = j
    BY <1>6, <1>7 DEF IInv, HandlesSuspended
  <2>7. \A i \in 1..Len(stack) : \A j \in 1..Len(tasks') :
            stack[i] \notin {tasks'[j].first, tasks'[j].second}
    BY <1>2 DEF IInv, HandlesSuspended
  <2>8. \A i \in 1..Len(stack') : \A j \in 1..Len(tasks') :
            stack'[i] \notin {tasks'[j].first, tasks'[j].second}
    BY <2>7, <1>6, <1>7
  <2> QED
    BY <2>2, <2>3, <2>5, <2>6, <2>8 DEF HandlesSuspended
<1>10. RunningOK' /\ UnbornAwaitsNothing'
  BY <1>3, <1>7, NoneFacts DEF IInv, TypeOK, RunningOK, UnbornAwaitsNothing
<1>11. TrivialQueuesNothing'
  BY <1>1, <1>3 DEF IInv, TrivialQueuesNothing
<1>12. QueuedPairs'
  BY <1>2, <1>3 DEF IInv, QueuedPairs
<1>13. StackedWait'
  <2> SUFFICES ASSUME NEW i \in 1..Len(stack'), NEW d, d = source[stack'[i]]
               PROVE  d \in Coro /\ Pending(d, i)'
    BY <1>3 DEF StackedWait, Pending
  <2>1. CASE s # None /\ i = Len(stack) + 1 /\ stack'[i] = s
    BY <2>1, <1>3, <1>7 DEF Pending
  <2>2. CASE i \in 1..Len(stack) /\ stack'[i] = stack[i]
    <3>1. d \in Coro /\ Pending(d, i)
      BY <2>2 DEF IInv, StackedWait
    <3>2. CASE frame[d] = "done"
      BY <3>1, <3>2, <1>3, <1>7 DEF Pending, IInv, TypeOK
    <3>3. CASE d = running
      BY <3>1, <3>3, <1>3, NoneFacts
    <3>4. CASE \E j \in 1..Len(stack) : j > i /\ stack[j] = d
      BY <3>4, <1>6 DEF Pending
    <3>5. CASE \E k \in 1..Len(tasks) : tasks[k].second = d
      <4>1. PICK k \in 1..Len(tasks) : tasks[k].second = d
        BY <3>5
      <4>2. CASE k = 1
        <5>1. s = d /\ s # None
          BY <4>1, <4>2, <3>1, NoneFacts
        <5>2. Len(stack) + 1 \in 1..Len(stack') /\ Len(stack) + 1 > i
          BY <5>1, <1>5, <2>2
        <5> QED
          BY <5>1, <5>2, <1>5 DEF Pending
      <4>3. CASE k # 1
        <5>1. k - 1 \in 1..Len(tasks') /\ tasks'[k - 1].second = d
          BY <4>1, <4>3, <1>2
        <5> QED
          BY <3>1, <5>1 DEF Pending
      <4> QED
        BY <4>2, <4>3
    <3> QED
      BY <3>1, <3>2, <3>3, <3>4, <3>5 DEF Pending
  <2> QED
    BY <2>1, <2>2, <1>6
<1> QED
  BY <1>8, <1>9, <1>10, <1>11, <1>12, <1>13 DEF IInv

(* What a new coroutine d and the one that runs have in common: after      *)
(* either is suspended, the executor's other handles are as they were.     *)
LEMMA ScheduleNowIInv ==
    ASSUME IInv, NEW d \in Coro, frame[d] = "unborn", ScheduleNow(d, running),
           frame' = IF running = None THEN [frame EXCEPT ![d] = Given]
                    ELSE [frame EXCEPT ![running] = "suspended", ![d] = Given],
           source' = IF running = None THEN source ELSE [source EXCEPT ![running] = d],
           UNCHANGED <<executor, pc>>
    PROVE  IInv'
<1> DEFINE s == running
<1>1. /\ executor = "trivial" /\ tasks = << >> /\ tasks' = << >> /\ running' = d
      /\ Len(tasks) = 0 /\ Len(tasks') = 0
      /\ Given = "running"
  BY DEF ScheduleNow, IInv, TrivialQueuesNothing, Given
<1>2. /\ frame \in [Coro -> {"unborn", "suspended", "running", "done"}]
      /\ source \in [Coro -> Coro \cup {None}]
      /\ stack \in Seq(Coro) /\ Len(stack) \in Nat
      /\ s \in Coro \cup {None}
      /\ \A c \in Coro : frame[c] = "running" <=> c = s
      /\ d # s /\ source[d] = None
  BY DEF IInv, TypeOK, RunningOK, UnbornAwaitsNothing
<1>3. /\ frame' \in [Coro -> {"unborn", "suspended", "running", "done"}]
      /\ frame'[d] = "running"
      /\ s # None => frame'[s] = "suspended" /\ source'[s] = d
      /\ \A c \in Coro : c \notin {d, s} => frame'[c] = frame[c] /\ source'[c] = source[c]
      /\ source' \in [Coro -> Coro \cup {None}]
      /\ source'[d] = None
  BY <1>1, <1>2, NoneFacts
<1>4. /\ \A i \in 1..Len(stack) : stack[i] \in Coro /\ stack[i] \notin {d, s}
      /\ \A i \in 1..Len(stack) : source[stack[i]] # d
  <2>1. \A i \in 1..Len(stack) : stack[i] \in Coro
    BY <1>2
  <2>2. \A i \in 1..Len(stack) : stack[i] # d /\ source[stack[i]] # d
    BY NotHeld, UnbornNotPending
  <2>3. s # None => \A i \in 1..Len(stack) : stack[i] # s
    BY <1>2, NotHeld
  <2> QED
    BY <2>1, <2>2, <2>3, NoneFacts
<1>5. /\ stack' \in Seq(Coro)
      /\ \A i \in 1..Len(stack') :
            \/ i \in 1..Len(stack) /\ stack'[i] = stack[i]
            \/ s # None /\ i = Len(stack) + 1 /\ stack'[i] = s
      /\ \A i \in 1..Len(stack) : i \in 1..Len(stack') /\ stack'[i] = stack[i]
      /\ s # None => Len(stack) + 1 \in 1..Len(stack') /\ stack'[Len(stack) + 1] = s
  <2>1. CASE s = None
    BY <2>1, <1>2 DEF ScheduleNow
  <2>2. CASE s # None
    <3>1. stack' = Append(stack, s) /\ s \in Coro
      BY <2>2, <1>2 DEF ScheduleNow
    <3> QED
      BY <3>1, <2>2, <1>2, PushBack
  <2> QED
    BY <2>1, <2>2
<1>6. TypeOK'
  BY <1>1, <1>2, <1>3, <1>5 DEF IInv, TypeOK
<1>7. \A i \in 1..0 : FALSE
  OBVIOUS
<1>8. HandlesSuspended'
  <2>1. \A i \in 1..Len(stack') : frame'[stack'[i]] = "suspended"
    BY <1>3, <1>4, <1>5 DEF IInv, HandlesSuspended
  <2>2. \A i, j \in 1..Len(stack') : stack'[i] = stack'[j] => i = j
    BY <1>4, <1>5 DEF IInv, HandlesSuspended
  <2> QED
    BY <2>1, <2>2, <1>1, <1>7 DEF HandlesSuspended
<1>9. RunningOK' /\ UnbornAwaitsNothing'
  BY <1>1, <1>2, <1>3, NoneFacts DEF IInv, RunningOK, UnbornAwaitsNothing
<1>10. TrivialQueuesNothing' /\ QueuedPairs'
  BY <1>1, <1>7 DEF TrivialQueuesNothing, QueuedPairs
<1>11. StackedWait'
  <2> SUFFICES ASSUME NEW i \in 1..Len(stack'), NEW e, e = source'[stack'[i]]
               PROVE  e \in Coro /\ Pending(e, i)'
    BY DEF StackedWait, Pending
  <2>1. CASE s # None /\ i = Len(stack) + 1 /\ stack'[i] = s
    BY <2>1, <1>1, <1>3 DEF Pending
  <2>2. CASE i \in 1..Len(stack) /\ stack'[i] = stack[i]
    <3>1. e = source[stack[i]] /\ e \in Coro /\ Pending(e, i) /\ e # d
      BY <2>2, <1>3, <1>4 DEF IInv, StackedWait
    <3>2. CASE frame[e] = "done"
      BY <3>1, <3>2, <1>2, <1>3 DEF Pending
    <3>3. CASE e = s
      <4>1. s # None /\ Len(stack) + 1 > i
        BY <3>1, <3>3, <2>2, NoneFacts
      <4> QED
        BY <4>1, <3>1, <3>3, <1>5 DEF Pending
    <3>4. CASE \E j \in 1..Len(stack) : j > i /\ stack[j] = e
      BY <3>1, <3>4, <1>5 DEF Pending
    <3> QED
      BY <3>1, <3>2, <3>3, <3>4, <1>1, <1>7 DEF Pending
  <2> QED
    BY <2>1, <2>2, <1>5
<1> QED
  BY <1>6, <1>8, <1>9, <1>10, <1>11 DEF IInv

LEMMA ScheduleLaterIInv ==
    ASSUME IInv, NEW d \in Coro, frame[d] = "unborn", ScheduleLater(d, running),
           frame' = IF running = None THEN [frame EXCEPT ![d] = Given]
                    ELSE [frame EXCEPT ![running] = "suspended", ![d] = Given],
           source' = IF running = None THEN source ELSE [source EXCEPT ![running] = d],
           UNCHANGED <<executor, pc>>
    PROVE  IInv'
<1> DEFINE s == running
           p == [first |-> d, second |-> s]
           n == Len(tasks) + 1
<1>1. /\ executor = "delayed" /\ running' = None /\ stack' = stack
      /\ tasks' = Append(tasks, p)
      /\ Given = "suspended"
  BY DEF ScheduleLater, Given
<1>2. /\ frame \in [Coro -> {"unborn", "suspended", "running", "done"}]
      /\ source \in [Coro -> Coro \cup {None}]
      /\ stack \in Seq(Coro) /\ tasks \in Seq(Pair)
      /\ s \in Coro \cup {None}
      /\ \A c \in Coro : frame[c] = "running" <=> c = s
      /\ d # s /\ source[d] = None
      /\ s # None => source[s] = None
  BY DEF IInv, TypeOK, RunningOK, UnbornAwaitsNothing
<1>3. /\ frame' \in [Coro -> {"unborn", "suspended", "running", "done"}]
      /\ frame'[d] = "suspended"
      /\ s # None => frame'[s] = "suspended" /\ source'[s] = d
      /\ \A c \in Coro : c \notin {d, s} => frame'[c] = frame[c] /\ source'[c] = source[c]
      /\ source' \in [Coro -> Coro \cup {None}]
      /\ source'[d] = None
  BY <1>1, <1>2, NoneFacts
<1>4. /\ \A i \in 1..Len(stack) : stack[i] \in Coro /\ stack[i] \notin {d, s}
      /\ \A i \in 1..Len(stack) : source[stack[i]] # d
      /\ \A i \in 1..Len(tasks) :
            /\ tasks[i].first \in Coro /\ tasks[i].first \notin {d, s}
            /\ tasks[i].second # None => tasks[i].second \in Coro /\ tasks[i].second \notin {d, s}
  <2>1. /\ \A i \in 1..Len(stack) : stack[i] \in Coro
        /\ \A i \in 1..Len(tasks) : tasks[i] \in Pair
    BY <1>2
  <2>2. \A i \in 1..Len(tasks) : tasks[i].first \in Coro /\ tasks[i].second \in Coro \cup {None}
    BY <2>1 DEF Pair
  <2>3. /\ \A i \in 1..Len(stack) : stack[i] # d /\ source[stack[i]] # d
        /\ \A i \in 1..Len(tasks) : tasks[i].first # d /\ tasks[i].second # d
    BY NotHeld, UnbornNotPending
  <2>4. s # None => /\ \A i \in 1..Len(stack) : stack[i] # s
                    /\ \A i \in 1..Len(tasks) : tasks[i].first # s /\ tasks[i].second # s
    BY <1>2, NotHeld
  <2> QED
    BY <2>1, <2>2, <2>3, <2>4, NoneFacts
<1>5. /\ p \in Pair /\ tasks' \in Seq(Pair)
      /\ n \in 1..Len(tasks') /\ tasks'[n] = p
      /\ \A i \in 1..Len(tasks) : i \in 1..Len(tasks') /\ tasks'[i] = tasks[i]
      /\ \A i \in 1..Len(tasks') :
            \/ i \in 1..Len(tasks) /\ tasks'[i] = tasks[i]
            \/ i = n /\ tasks'[i] = p
  <2>1. p \in Pair
    BY <1>2 DEF Pair
  <2> QED
    BY <2>1, <1>1, <1>2, PushBack
<1>6. p.first = d /\ p.second = s
  OBVIOUS
<1> HIDE DEF p, n
<1>7. TypeOK'
  BY <1>1, <1>2, <1>3, <1>5 DEF IInv, TypeOK
<1>8. HandlesSuspended'
  <2>1. \A i \in 1..Len(stack') : frame'[stack'[i]] = "suspended"
    BY <1>1, <1>3, <1>4 DEF IInv, HandlesSuspended
  <2>2. \A i \in 1..Len(tasks) :
            /\ frame'[tasks[i].first] = "suspended"
            /\ tasks[i].second # None => frame'[tasks[i].second] = "suspended"
    <3>1. \A i \in 1..Len(tasks) :
              /\ frame[tasks[i].first] = "suspended"
              /\ tasks[i].second # None => frame[tasks[i].second] = "suspended"
      BY DEF IInv, HandlesSuspended
    <3> QED
      BY <3>1, <1>3, <1>4
  <2>3. \A i \in 1..Len(tasks') :
            /\ frame'[tasks'[i].first] = "suspended"
            /\ tasks'[i].second # None => frame'[tasks'[i].second] = "suspended"
    <3> SUFFICES ASSUME NEW i \in 1..Len(tasks')
                 PROVE  /\ frame'[tasks'[i].first] = "suspended"
                        /\ tasks'[i].second # None => frame'[tasks'[i].second] = "suspended"
      OBVIOUS
    <3>1. CASE i \in 1..Len(tasks) /\ tasks'[i] = tasks[i]
      BY <3>1, <2>2
    <3>2. CASE tasks'[i] = p
      BY <3>2, <1>3, <1>6
    <3> QED
      BY <3>1, <3>2, <1>5
  <2>4. \A i, j \in 1..Len(tasks') :
            /\ tasks'[i].first = tasks'[j].first => i = j
            /\ tasks'[i].second = tasks'[j].second /\ tasks'[i].second # None => i = j
            /\ tasks'[i].first # tasks'[j].second
    BY <1>2, <1>4, <1>5, <1>6, NoneFacts DEF IInv, HandlesSuspended
  <2>5. \A i \in 1..Len(stack') : \A j \in 1..Len(tasks') :
            stack'[i] \notin {tasks'[j].first, tasks'[j].second}
    BY <1>1, <1>4, <1>5, <1>6 DEF IInv, HandlesSuspended
  <2>6. \A i, j \in 1..Len(stack') : stack'[i] = stack'[j] => i = j
    BY <1>1 DEF IInv, HandlesSuspended
  <2> QED
    BY <2>1, <2>3, <2>4, <2>5, <2>6 DEF HandlesSuspended
<1>9. RunningOK' /\ UnbornAwaitsNothing' /\ TrivialQueuesNothing'
  BY <1>1, <1>2, <1>3, NoneFacts DEF IInv, RunningOK, UnbornAwaitsNothing, TrivialQueuesNothing
<1>10. QueuedPairs'
  <2>1. \A i \in 1..Len(tasks) :
            /\ source'[tasks[i].first] = None
            /\ tasks[i].second # None => source'[tasks[i].second] = tasks[i].first
    <3>1. \A i \in 1..Len(tasks) :
              /\ source[tasks[i].first] = None
              /\ tasks[i].second # None => source[tasks[i].second] = tasks[i].first
      BY DEF IInv, QueuedPairs
    <3> QED
      BY <3>1, <1>3, <1>4
  <2> QED
    BY <2>1, <1>3, <1>5, <1>6 DEF QueuedPairs
<1>11. StackedWait'
  <2> SUFFICES ASSUME NEW i \in 1..Len(stack'), NEW e, e = source'[stack'[i]]
               PROVE  e \in Coro /\ Pending(e, i)'
    BY DEF StackedWait, Pending
  <2>1. e = source[stack[i]] /\ e \in Coro /\ Pending(e, i) /\ e # d
    BY <1>1, <1>3, <1>4 DEF IInv, StackedWait
  <2>2. CASE frame[e] = "done"
    BY <2>1, <2>2, <1>2, <1>3 DEF Pending
  <2>3. CASE e = s
    BY <2>1, <2>3, <1>5, <1>6 DEF Pending
  <2>4. CASE \E j \in 1..Len(stack) : j > i /\ stack[j] = e
    BY <2>1, <2>4, <1>1 DEF Pending
  <2>5. CASE \E k \in 1..Len(tasks) : tasks[k].second = e
    BY <2>1, <2>5, <1>5 DEF Pending
  <2> QED
    BY <2>1, <2>2, <2>3, <2>4, <2>5 DEF Pending
<1> QED
  BY <1>7, <1>8, <1>9, <1>10, <1>11 DEF IInv

(* main() or the running coroutine hands the executor a new coroutine.     *)
LEMMA ScheduleIInv ==
    ASSUME IInv, NEW d \in Coro, SetExecutor(d) \/ Await(d)
    PROVE  IInv'
<1>1. /\ frame[d] = "unborn"
      /\ Schedule(d, running)
      /\ frame' = IF running = None THEN [frame EXCEPT ![d] = Given]
                  ELSE [frame EXCEPT ![running] = "suspended", ![d] = Given]
      /\ source' = IF running = None THEN source ELSE [source EXCEPT ![running] = d]
      /\ UNCHANGED <<executor, pc>>
  BY DEF SetExecutor, Await
<1> QED
  BY <1>1, ScheduleNowIInv, ScheduleLaterIInv DEF Schedule

(* The caller on top of the stack awaits a coroutine that is done.         *)
LEMMA TopCalleeIsDone ==
    ASSUME IInv, ResumeCaller
    PROVE  /\ stack[Len(stack)] \in Coro
           /\ source[stack[Len(stack)]] \in Coro
           /\ frame[source[stack[Len(stack)]]] = "done"
<1> DEFINE n == Len(stack)
<1>1. /\ stack \in Seq(Coro) /\ stack # << >>
      /\ executor \in {"trivial", "delayed"}
      /\ running = None /\ tasks = << >> /\ Len(tasks) = 0
  BY DEF IInv, TypeOK, ResumeCaller, TrivialQueuesNothing
<1>2. n \in 1..Len(stack) /\ stack[n] \in Coro
  BY <1>1, PopBack
<1>3. source[stack[n]] \in Coro /\ Pending(source[stack[n]], n)
  BY <1>2 DEF IInv, StackedWait
<1> QED
  BY <1>1, <1>2, <1>3, NoneFacts DEF Pending

LEMMA ResumeCallerIInv == IInv /\ ResumeCaller => IInv'
<1> SUFFICES ASSUME IInv, ResumeCaller
             PROVE  IInv'
  OBVIOUS
<1> DEFINE n == Len(stack)
           c == stack[n]
<1>1. /\ stack \in Seq(Coro) /\ stack # << >>
      /\ frame \in [Coro -> {"unborn", "suspended", "running", "done"}]
      /\ source \in [Coro -> Coro \cup {None}]
      /\ executor \in {"trivial", "delayed"}
      /\ running = None /\ tasks = << >> /\ tasks' = << >>
      /\ Len(tasks) = 0 /\ Len(tasks') = 0
  BY DEF IInv, TypeOK, ResumeCaller, TrivialQueuesNothing
<1>2. /\ n \in 1..Len(stack) /\ c \in Coro /\ n \in Nat
      /\ stack' = SubSeq(stack, 1, n - 1)
      /\ stack' \in Seq(Coro) /\ Len(stack') = n - 1
      /\ \A i \in 1..Len(stack') : stack'[i] = stack[i] /\ i \in 1..Len(stack) /\ i # n
  BY <1>1, PopBack DEF ResumeCaller
<1>3. /\ frame' = [frame EXCEPT ![c] = "running"]
      /\ source' = [source EXCEPT ![c] = None]
      /\ running' = c
      /\ UNCHANGED <<executor, pc>>
  BY DEF ResumeCaller
<1>4. /\ \A i \in 1..Len(stack) : stack[i] \in Coro /\ frame[stack[i]] = "suspended"
      /\ \A i, j \in 1..Len(stack) : stack[i] = stack[j] => i = j
      /\ \A x \in Coro : frame[x] # "running"
  BY <1>1, NoneFacts DEF IInv, HandlesSuspended, RunningOK
<1>5. \A i \in 1..0 : FALSE
  OBVIOUS
<1>6. TypeOK'
  BY <1>1, <1>2, <1>3 DEF IInv, TypeOK
<1>7. HandlesSuspended'
  <2>1. \A i \in 1..Len(stack') : frame'[stack'[i]] = "suspended"
    BY <1>1, <1>2, <1>3, <1>4
  <2>2. \A i, j \in 1..Len(stack') : stack'[i] = stack'[j] => i = j
    BY <1>2, <1>4
  <2> QED
    BY <2>1, <2>2, <1>1, <1>5 DEF HandlesSuspended
<1>8. RunningOK' /\ UnbornAwaitsNothing'
  BY <1>1, <1>2, <1>3, <1>4 DEF IInv, RunningOK, UnbornAwaitsNothing
<1>9. TrivialQueuesNothing' /\ QueuedPairs'
  BY <1>1, <1>5 DEF TrivialQueuesNothing, QueuedPairs
<1>10. StackedWait'
  <2> SUFFICES ASSUME NEW i \in 1..Len(stack'), NEW e, e = source'[stack'[i]]
               PROVE  e \in Coro /\ Pending(e, i)'
    BY DEF StackedWait, Pending
  <2>1. i \in 1..Len(stack) /\ i # n /\ stack[i] # c
    BY <1>2, <1>4
  <2>2. e = source[stack[i]] /\ e \in Coro /\ Pending(e, i)
    BY <2>1, <1>1, <1>2, <1>3, <1>4 DEF IInv, StackedWait
  <2>3. CASE frame[e] = "done"
    BY <2>2, <2>3, <1>1, <1>2, <1>3, <1>4 DEF Pending
  <2>4. CASE \E j \in 1..Len(stack) : j > i /\ stack[j] = e
    <3>1. PICK j \in 1..Len(stack) : j > i /\ stack[j] = e
      BY <2>4
    <3>2. CASE j = n
      BY <2>2, <3>1, <3>2, <1>3 DEF Pending
    <3>3. CASE j # n
      <4>1. j \in 1..Len(stack')
        BY <3>1, <3>3, <1>2
      <4> QED
        BY <2>2, <3>1, <4>1, <1>2 DEF Pending
    <3> QED
      BY <3>2, <3>3
  <2> QED
    BY <2>2, <2>3, <2>4, <1>1, <1>5, NoneFacts DEF Pending
<1> QED
  BY <1>6, <1>7, <1>8, <1>9, <1>10 DEF IInv

LEMMA NextIInv == IInv /\ [Next]_vars => IInv'
<1> SUFFICES ASSUME IInv, [Next]_vars
             PROVE  IInv'
  OBVIOUS
<1>1. CASE Execute \/ ExecuteReturns \/ UNCHANGED vars
  BY <1>1, MainIInv
<1>2. CASE \E d \in Coro : SetExecutor(d) \/ Await(d)
  BY <1>2, ScheduleIInv
<1>3. CASE Return
  BY <1>3, ReturnIInv
<1>4. CASE Launch
  BY <1>4, LaunchIInv
<1>5. CASE ResumeCaller
  BY <1>5, ResumeCallerIInv
<1> QED
  BY <1>1, <1>2, <1>3, <1>4, <1>5 DEF Next

(* The invariant holds of every execution.                                 *)
THEOREM InvariantHolds == Spec => []IInv
<1>1. Init => IInv
  BY InitIInv
<1>2. IInv /\ [Next]_vars => IInv'
  BY NextIInv
<1> QED
  BY <1>1, <1>2, PTL DEF Spec

(* Every variable keeps its type: no null handle is ever stacked.          *)
THEOREM TypeCorrect == Spec => []TypeOK
<1>1. IInv => TypeOK
  BY DEF IInv
<1> QED
  BY <1>1, InvariantHolds, PTL

(* The executors hold one handle of a coroutine, and while it is           *)
(* suspended only: nothing is resumed twice.                               *)
THEOREM HandlesAlwaysSuspended == Spec => []HandlesSuspended
<1>1. IInv => HandlesSuspended
  BY DEF IInv
<1> QED
  BY <1>1, InvariantHolds, PTL

-----------------------------------------------------------------------------
(* Both executors implement AsyncCall.                                     *)
LEMMA InitRefines == Init => AC!Init
  BY DEF Init, AC!Init, Phase

LEMMA ReturnRefines ==
    ASSUME IInv, Return
    PROVE  \E c \in Coro : AC!Finish(c)
<1>1. running \in Coro /\ frame[running] = "running" /\ source[running] = None
  BY DEF IInv, TypeOK, RunningOK, Return
<1>2. AC!Finish(running)
  BY <1>1 DEF AC!Finish, Phase, Return, IInv, TypeOK
<1> QED
  BY <1>1, <1>2

LEMMA ResumeRefines ==
    ASSUME IInv, ResumeCaller
    PROVE  \E c \in Coro : AC!Continue(c)
<1> DEFINE c == stack[Len(stack)]
<1>1. /\ c \in Coro /\ source[c] \in Coro /\ frame[source[c]] = "done"
      /\ frame[c] = "suspended"
  <2>1. Len(stack) \in 1..Len(stack)
    BY PopBack DEF IInv, TypeOK, ResumeCaller
  <2> QED
    BY <2>1, TopCalleeIsDone DEF IInv, HandlesSuspended
<1>2. /\ frame' = [frame EXCEPT ![c] = "running"]
      /\ source' = [source EXCEPT ![c] = None]
  BY DEF ResumeCaller
<1> HIDE DEF c
<1>3. AC!Continue(c)
  BY <1>1, <1>2, NoneFacts DEF AC!Continue, Phase, IInv, TypeOK
<1> QED
  BY <1>1, <1>3

LEMMA SetExecutorRefines ==
    ASSUME IInv, NEW d \in Coro, SetExecutor(d)
    PROVE  AC!Start(d)
  BY DEF AC!Start, Phase, SetExecutor, Given, IInv, TypeOK

LEMMA AwaitRefines ==
    ASSUME IInv, NEW d \in Coro, Await(d)
    PROVE  \E c \in Coro : AC!Call(c, d)
<1>1. /\ running \in Coro /\ frame[running] = "running" /\ source[running] = None
      /\ running # d
  BY DEF IInv, TypeOK, RunningOK, Await
<1>2. AC!Call(running, d)
  BY <1>1 DEF AC!Call, Phase, Await, Given, IInv, TypeOK
<1> QED
  BY <1>1, <1>2

LEMMA OthersStutter ==
    ASSUME IInv, Execute \/ ExecuteReturns \/ Launch \/ UNCHANGED vars
    PROVE  UNCHANGED <<[c \in Coro |-> Phase(c)], source>>
<1>1. CASE Execute \/ ExecuteReturns \/ UNCHANGED vars
  BY <1>1 DEF Execute, ExecuteReturns, vars, Phase
<1>2. CASE Launch
  <2>1. /\ tasks \in Seq(Pair) /\ tasks # << >>
        /\ frame \in [Coro -> {"unborn", "suspended", "running", "done"}]
    BY <1>2 DEF IInv, TypeOK, Launch
  <2>2. /\ tasks[1].first \in Coro /\ frame[tasks[1].first] = "suspended"
        /\ frame' = [frame EXCEPT ![tasks[1].first] = "running"]
        /\ source' = source
    BY <1>2, <2>1, PopFront DEF Launch, Pair, IInv, HandlesSuspended
  <2> QED
    BY <2>1, <2>2 DEF Phase
<1> QED
  BY <1>1, <1>2

(* With both executors an await is a call: a caller goes on when the       *)
(* callee it awaits is done, and not before.                               *)
THEOREM ExecutorsImplementAsyncCall == Spec => ImplementsAsyncCall
<1>1. Init => AC!Init
  BY InitRefines
<1>2. IInv /\ [Next]_vars => [AC!Next]_<<[c \in Coro |-> Phase(c)], source>>
  <2> SUFFICES ASSUME IInv, [Next]_vars
               PROVE  AC!Next \/ UNCHANGED <<[c \in Coro |-> Phase(c)], source>>
    OBVIOUS
  <2>1. CASE \E d \in Coro : SetExecutor(d)
    BY <2>1, SetExecutorRefines DEF AC!Next
  <2>2. CASE \E d \in Coro : Await(d)
    BY <2>2, AwaitRefines DEF AC!Next
  <2>3. CASE Return
    BY <2>3, ReturnRefines DEF AC!Next
  <2>4. CASE ResumeCaller
    BY <2>4, ResumeRefines DEF AC!Next
  <2>5. CASE Execute \/ ExecuteReturns \/ Launch \/ UNCHANGED vars
    BY <2>5, OthersStutter
  <2> QED
    BY <2>1, <2>2, <2>3, <2>4, <2>5 DEF Next
<1> QED
  BY <1>1, <1>2, InvariantHolds, PTL DEF Spec, ImplementsAsyncCall, AC!Spec
=============================================================================
