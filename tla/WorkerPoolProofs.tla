-------------------------- MODULE WorkerPoolProofs --------------------------
(***************************************************************************)
(* Proofs about the worker pool and its tasks: for any set of workers, of  *)
(* tasks and of roots.  The specification states no fairness here, so the  *)
(* refinement of AsyncCall is proved as a whole.                           *)
(***************************************************************************)
EXTENDS WorkerPool, SequenceTheorems, TLAPS

OnStack(c, w) == \E i \in 1..Len(handles[w]) : handles[w][i] = c

-----------------------------------------------------------------------------
(* Stacks.                                                                 *)

LEMMA AppendElements ==
    ASSUME NEW S, NEW q \in Seq(S), NEW x \in S
    PROVE  /\ Append(q, x) \in Seq(S)
           /\ Len(Append(q, x)) = Len(q) + 1
           /\ Append(q, x)[Len(q) + 1] = x
           /\ \A i \in 1..Len(q) : Append(q, x)[i] = q[i]
  OBVIOUS

(* Popping the top leaves the others in place.                             *)
LEMMA PopElements ==
    ASSUME NEW S, NEW q \in Seq(S), q # << >>
    PROVE  /\ Len(q) \in 1..Len(q) /\ q[Len(q)] \in S
           /\ SubSeq(q, 1, Len(q) - 1) \in Seq(S)
           /\ Len(SubSeq(q, 1, Len(q) - 1)) = Len(q) - 1
           /\ \A i \in 1..(Len(q) - 1) : SubSeq(q, 1, Len(q) - 1)[i] = q[i]
<1>1. Len(q) \in Nat /\ Len(q) # 0
  OBVIOUS
<1>2. Len(q) \in 1..Len(q) /\ q[Len(q)] \in S
  BY <1>1
<1>3. \A i \in 1..(Len(q) - 1) : i \in Int /\ 1 + i - 1 = i
  BY <1>1
<1>4. \A i \in 1..Len(q) : q[i] \in S
  OBVIOUS
<1>5. SubSeq(q, 1, Len(q) - 1) \in Seq(S)
  BY <1>1, <1>4, SubSeqProperties
<1>6. Len(SubSeq(q, 1, Len(q) - 1)) = Len(q) - 1
  <2>1. PICK n \in Nat \ {0} : Len(q) = n
    BY <1>1
  <2>2. CASE n = 1
    BY <2>1, <2>2, SubSeqEmpty
  <2>3. CASE n # 1
    <3>1. 1 <= n - 1 /\ n - 1 \in Int /\ n - 1 - 1 + 1 = n - 1
      BY <2>3
    <3>2. \A i \in 1..(n - 1) : q[i] \in S
      BY <1>4, <2>1
    <3> QED
      BY <2>1, <3>1, <3>2, SubSeqProperties
  <2> QED
    BY <2>2, <2>3
<1>7. \A i \in 1..(Len(q) - 1) : SubSeq(q, 1, Len(q) - 1)[i] = q[i]
  BY <1>1, <1>3, <1>4, SubSeqProperties
<1> QED
  BY <1>2, <1>5, <1>6, <1>7

-----------------------------------------------------------------------------
(***************************************************************************)
(* The inductive invariant.  A coroutine is in one place: on a stack, in   *)
(* a worker, or awaiting a callee that has not returned.  What return_void *)
(* pushes is the caller recorded by then(), and that caller is suspended   *)
(* because it awaits the very task that returns.                           *)
(***************************************************************************)
StackSuspended ==
    \A c \in Coro, w \in Worker : OnStack(c, w) => frame[c] = "suspended"

StackOnce ==
    \A w, v \in Worker : \A i \in 1..Len(handles[w]), j \in 1..Len(handles[v]) :
        handles[w][i] = handles[v][j] => w = v /\ i = j

JobOK ==
    \A w \in Worker : job[w] # None =>
        /\ frame[job[w]] \in {"running", "returned"}
        /\ \A v \in Worker : job[v] = job[w] => v = w

AwaitsSuspended == \A c \in Coro : callee[c] # None => frame[c] = "suspended"

Finished(c) == frame[c] \in {"returned", "done"}

\* A caller that is back on a stack has seen its callee return.
ReadyOK ==
    \A c \in Coro, w \in Worker : OnStack(c, w) /\ callee[c] # None => Finished(callee[c])

\* next_ of a task that has not returned is who awaits it.
NextOK ==
    \A d \in Coro : next[d] # None =>
        /\ frame[next[d].handle] # "unborn"
        /\ ~Finished(d) => callee[next[d].handle] = d

\* Wherever a coroutine may turn up, it is on worker w.
At(c, w) ==
    /\ \A v \in Worker : job[v] = c \/ OnStack(c, v) => v = w
    /\ \A d \in Coro : next[d] # None /\ next[d].handle = c => next[d].worker = w

HomeOK == \A c \in Coro : frame[c] # "unborn" => \E w \in Worker : At(c, w)

IInv == /\ TypeOK /\ StackSuspended /\ StackOnce /\ JobOK
        /\ AwaitsSuspended /\ ReadyOK /\ NextOK /\ HomeOK

LEMMA NoneFacts == None \notin Coro
  BY TaskAssumption

LEMMA InitIInv == Init => IInv
<1> SUFFICES ASSUME Init PROVE IInv
  OBVIOUS
<1>1. handles \in [Worker -> Seq(Coro)] /\ \A w \in Worker : Len(handles[w]) = 0
  BY DEF Init
<1>2. TypeOK
  BY <1>1 DEF Init, TypeOK
<1>3. \A c \in Coro, w \in Worker : ~OnStack(c, w)
  <2>1. \A i \in 1..0 : FALSE
    OBVIOUS
  <2> QED
    BY <1>1, <2>1 DEF OnStack
<1>4. StackSuspended /\ ReadyOK
  BY <1>3 DEF StackSuspended, ReadyOK
<1>5. StackOnce
  BY <1>1 DEF StackOnce
<1>6. JobOK /\ AwaitsSuspended /\ NextOK /\ HomeOK
  BY DEF Init, JobOK, AwaitsSuspended, NextOK, HomeOK
<1> QED
  BY <1>2, <1>4, <1>5, <1>6 DEF IInv

(* A coroutine that was never run is nowhere.                              *)
LEMMA UnbornNowhere ==
    ASSUME IInv, NEW d \in Coro, frame[d] = "unborn"
    PROVE  /\ callee[d] = None
           /\ \A w \in Worker : ~OnStack(d, w) /\ job[w] # d
           /\ \A c \in Coro : next[c] # None => next[c].handle # d
  BY NoneFacts DEF IInv, AwaitsSuspended, StackSuspended, JobOK, NextOK

(* One that runs is in its worker only, and awaits nobody.                 *)
LEMMA RunningElsewhere ==
    ASSUME IInv, NEW w \in Worker, NEW c \in Coro, job[w] = c
    PROVE  /\ frame[c] \in {"running", "returned"} /\ callee[c] = None
           /\ \A v \in Worker : ~OnStack(c, v) /\ (v # w => job[v] # c)
  BY NoneFacts DEF IInv, AwaitsSuspended, StackSuspended, JobOK

-----------------------------------------------------------------------------
(* What push() does to the stacks.                                         *)
WorkerPlace == {"test", "lock", "wait", "body", "resumed", "exit"}

LEMMA PushElements ==
    ASSUME TypeOK, NEW v \in Worker, NEW c \in Coro,
           NEW at \in [Worker -> WorkerPlace], Push(v, c, at)
    PROVE  /\ handles' \in [Worker -> Seq(Coro)] /\ wpc' \in [Worker -> WorkerPlace]
           /\ \A w \in Worker : \A i \in 1..Len(handles'[w]) :
                 \/ i \in 1..Len(handles[w]) /\ handles'[w][i] = handles[w][i]
                 \/ w = v /\ i = Len(handles[v]) + 1 /\ handles'[w][i] = c
           /\ \A x \in Coro, w \in Worker :
                 OnStack(x, w)' => OnStack(x, w) \/ (w = v /\ x = c)
<1> DEFINE q == handles[v]
<1>1. handles \in [Worker -> Seq(Coro)] /\ q \in Seq(Coro)
  BY DEF TypeOK
<1>2. /\ Append(q, c) \in Seq(Coro) /\ Len(Append(q, c)) = Len(q) + 1
      /\ Append(q, c)[Len(q) + 1] = c
      /\ \A i \in 1..Len(q) : Append(q, c)[i] = q[i]
  BY <1>1, AppendElements
<1>3. handles' = [handles EXCEPT ![v] = Append(q, c)] /\ wpc' = Notified(at, v)
  BY DEF Push
<1> HIDE DEF q
<1>4. handles' \in [Worker -> Seq(Coro)]
  BY <1>1, <1>2, <1>3
<1>5. wpc' \in [Worker -> WorkerPlace]
  BY <1>3 DEF Notified, WorkerPlace
<1>6. handles'[v] = Append(q, c) /\ \A w \in Worker : w # v => handles'[w] = handles[w]
  BY <1>1, <1>3
<1>7. ASSUME NEW w \in Worker, NEW i \in 1..Len(handles'[w])
      PROVE  \/ i \in 1..Len(handles[w]) /\ handles'[w][i] = handles[w][i]
             \/ w = v /\ i = Len(handles[v]) + 1 /\ handles'[w][i] = c
  <2>1. CASE w # v
    BY <1>6, <2>1
  <2>2. CASE w = v
    <3>1. i \in 1..Len(Append(q, c)) /\ handles'[w][i] = Append(q, c)[i]
      BY <1>6, <2>2
    <3>2. Len(q) \in Nat /\ (i \in 1..Len(q) \/ i = Len(q) + 1)
      BY <1>1, <1>2, <3>1
    <3> QED
      BY <1>2, <2>2, <3>1, <3>2 DEF q
  <2> QED
    BY <2>1, <2>2
<1>8. ASSUME NEW x \in Coro, NEW w \in Worker, OnStack(x, w)'
      PROVE  OnStack(x, w) \/ (w = v /\ x = c)
  <2>1. PICK i \in 1..Len(handles'[w]) : handles'[w][i] = x
    BY <1>8 DEF OnStack
  <2> QED
    BY <1>7, <2>1 DEF OnStack
<1> QED
  BY <1>4, <1>5, <1>7, <1>8

(* A handle that is on no stack may be pushed.                             *)
LEMMA PushOnce ==
    ASSUME TypeOK, StackOnce, NEW v \in Worker, NEW c \in Coro,
           NEW at \in [Worker -> WorkerPlace], Push(v, c, at),
           \A w \in Worker : ~OnStack(c, w)
    PROVE  StackOnce'
<1> SUFFICES ASSUME NEW w \in Worker, NEW u \in Worker,
                    NEW i \in 1..Len(handles'[w]), NEW j \in 1..Len(handles'[u]),
                    handles'[w][i] = handles'[u][j]
             PROVE  w = u /\ i = j
  BY DEF StackOnce
<1> DEFINE Old(k, n) == n \in 1..Len(handles[k]) /\ handles'[k][n] = handles[k][n]
           New(k, n) == k = v /\ n = Len(handles[v]) + 1 /\ handles'[k][n] = c
<1>1. (Old(w, i) \/ New(w, i)) /\ (Old(u, j) \/ New(u, j))
  BY PushElements
<1>2. CASE Old(w, i) /\ Old(u, j)
  <2>1. handles[w][i] = handles[u][j]
    BY <1>2
  <2> QED
    BY <1>2, <2>1 DEF StackOnce
<1>3. CASE New(w, i) /\ New(u, j)
  BY <1>3
<1>4. CASE Old(w, i) /\ New(u, j)
  BY <1>4 DEF OnStack
<1>5. CASE New(w, i) /\ Old(u, j)
  BY <1>5 DEF OnStack
<1> QED
  BY <1>1, <1>2, <1>3, <1>4, <1>5

-----------------------------------------------------------------------------
(***************************************************************************)
(* A coroutine that has started never changes its worker.  This is the     *)
(* step that keeps HomeOK, and, for a single coroutine, what               *)
(* StaysOnItsWorker says.                                                  *)
(***************************************************************************)
LEMMA AtStays ==
    ASSUME IInv, [Next]_vars, NEW c \in Coro, NEW w \in Worker,
           frame[c] # "unborn", At(c, w)
    PROVE  At(c, w)'
<1> USE DEF IInv
<1>0. TypeOK /\ wpc \in [Worker -> WorkerPlace]
  BY DEF TypeOK, WorkerPlace
<1>1. CASE \E r \in Root, v \in Worker : ScheduleRoot(r, v)
  <2>1. PICK r \in Coro, v \in Worker : /\ frame[r] = "unborn" /\ Push(v, r, wpc)
                                        /\ UNCHANGED <<next, job>>
    BY <1>1, TaskAssumption DEF ScheduleRoot
  <2>2. \A u \in Worker : OnStack(c, u)' => OnStack(c, u)
    BY <1>0, <2>1, PushElements
  <2> QED
    BY <2>1, <2>2 DEF At
<1>2. CASE \E v \in Worker : Stop(v)
  <2>1. UNCHANGED <<next, job>>
    BY <1>2 DEF Stop
  <2>2. \A u \in Worker : handles'[u] = handles[u] \/ handles'[u] = << >>
    BY <1>2 DEF Stop, TypeOK
  <2>3. \A u \in Worker : OnStack(c, u)' => OnStack(c, u)
    BY <2>2 DEF OnStack
  <2> QED
    BY <2>1, <2>3 DEF At
<1>3. CASE \E u \in Worker : Resume(u)
  <2>1. PICK u \in Worker : Resume(u)
    BY <1>3
  <2> DEFINE q == handles[u]
  <2>2. /\ handles' = [handles EXCEPT ![u] = SubSeq(q, 1, Len(q) - 1)]
        /\ job' = [job EXCEPT ![u] = q[Len(q)]] /\ next' = next /\ q # << >>
    BY <2>1 DEF Resume, Top
  <2>3. q \in Seq(Coro) /\ handles \in [Worker -> Seq(Coro)] /\ job \in [Worker -> Coro \cup {None}]
    BY DEF TypeOK
  <2>4. /\ Len(q) \in 1..Len(q)
        /\ Len(SubSeq(q, 1, Len(q) - 1)) = Len(q) - 1
        /\ \A i \in 1..(Len(q) - 1) : SubSeq(q, 1, Len(q) - 1)[i] = q[i]
    BY <2>2, <2>3, PopElements
  <2>5. OnStack(q[Len(q)], u)
    BY <2>4 DEF OnStack
  <2>6. \A v \in Worker : job'[v] = c => job[v] = c \/ OnStack(c, v)
    BY <2>2, <2>3, <2>5
  <2>7. \A v \in Worker : OnStack(c, v)' => OnStack(c, v)
    <3> SUFFICES ASSUME NEW v \in Worker, OnStack(c, v)' PROVE OnStack(c, v)
      OBVIOUS
    <3>1. PICK i \in 1..Len(handles'[v]) : handles'[v][i] = c
      BY DEF OnStack
    <3>2. CASE v # u
      BY <2>2, <2>3, <3>1, <3>2 DEF OnStack
    <3>3. CASE v = u
      <4>1. handles'[v] = SubSeq(q, 1, Len(q) - 1)
        BY <2>2, <2>3, <3>3
      <4>2. i \in 1..(Len(q) - 1) /\ i \in 1..Len(q) /\ q[i] = c
        BY <2>3, <2>4, <3>1, <4>1
      <4> QED
        BY <3>3, <4>2 DEF OnStack
    <3> QED
      BY <3>2, <3>3
  <2> QED
    BY <2>2, <2>6, <2>7 DEF At
<1>4. CASE \E u \in Worker, d \in Coro, v \in Worker : Await(u, d, v)
  <2>1. PICK u \in Worker, d \in Coro, v \in Worker, e \in Coro :
            /\ job[u] = e /\ frame[d] = "unborn"
            /\ next' = [next EXCEPT ![d] = [handle |-> e, worker |-> u]]
            /\ job' = [job EXCEPT ![u] = None] /\ Push(v, d, Goes(u, "resumed"))
    BY <1>4 DEF Await, Runs
  <2>2. Goes(u, "resumed") \in [Worker -> WorkerPlace]
    BY <1>0 DEF Goes, WorkerPlace
  <2>3. \A k \in Worker : OnStack(c, k)' => OnStack(c, k)
    BY <1>0, <2>1, <2>2, PushElements
  <2>4. \A k \in Worker : job'[k] = c => job[k] = c
    BY <2>1, NoneFacts DEF TypeOK
  <2>5. \A k \in Coro : next'[k] # None /\ next'[k].handle = c => next'[k].worker = w
    <3> SUFFICES ASSUME NEW k \in Coro, next'[k] # None, next'[k].handle = c
                 PROVE  next'[k].worker = w
      OBVIOUS
    <3>1. CASE k = d
      <4>1. next'[k] = [handle |-> e, worker |-> u]
        BY <2>1, <3>1 DEF TypeOK
      <4>2. e = c /\ job[u] = c
        BY <2>1, <4>1
      <4> QED
        BY <4>1, <4>2 DEF At
    <3>2. CASE k # d
      BY <2>1, <3>2 DEF At, TypeOK
    <3> QED
      BY <3>1, <3>2
  <2> QED
    BY <2>3, <2>4, <2>5 DEF At
<1>5. CASE \E u \in Worker : Return(u)
  <2>1. PICK u \in Worker, e \in Coro :
            /\ UNCHANGED <<next, job>>
            /\ IF next[e] # None THEN Push(next[e].worker, next[e].handle, wpc)
                                 ELSE UNCHANGED <<handles, wpc>>
    BY <1>5, TaskAssumption DEF Return, TypeOK
  <2>2. \A v \in Worker : OnStack(c, v)' =>
            OnStack(c, v) \/ (next[e] # None /\ v = next[e].worker /\ c = next[e].handle)
    <3>1. CASE next[e] # None
      <4>1. next[e].handle \in Coro /\ next[e].worker \in Worker
        BY <3>1 DEF TypeOK, NextInfo
      <4> QED
        BY <1>0, <2>1, <3>1, <4>1, PushElements
    <3>2. CASE next[e] = None
      BY <2>1, <3>2 DEF OnStack
    <3> QED
      BY <3>1, <3>2
  <2> QED
    BY <2>1, <2>2 DEF At
<1>6. CASE \E u \in Worker : FinalSuspend(u)
  <2>1. PICK u \in Worker : job' = [job EXCEPT ![u] = None] /\ UNCHANGED <<next, handles>>
    BY <1>6 DEF FinalSuspend
  <2> QED
    BY <2>1, NoneFacts DEF At, OnStack, TypeOK
<1>7. CASE UNCHANGED <<next, job, handles>>
  BY <1>7 DEF At, OnStack
<1>8. \/ UNCHANGED <<next, job, handles>>
      \/ \E r \in Root, v \in Worker : ScheduleRoot(r, v)
      \/ \E v \in Worker : Stop(v)
      \/ \E u \in Worker : Resume(u) \/ Return(u) \/ FinalSuspend(u)
      \/ \E u \in Worker, d \in Coro, v \in Worker : Await(u, d, v)
  BY DEF Next, Main, WorkerStep, Destroy, TestStop, Sleep, AbortOnResult, Resumed, Count,
         SpuriousWakeup, vars
<1> QED
  BY <1>1, <1>2, <1>3, <1>4, <1>5, <1>6, <1>7, <1>8

(* A step that starts at most one coroutine, d, keeps HomeOK.              *)
LEMMA HomeStays ==
    ASSUME IInv, [Next]_vars,
           \A c \in Coro : frame'[c] # "unborn" =>
               frame[c] # "unborn" \/ \E w \in Worker : At(c, w)'
    PROVE  HomeOK'
<1> SUFFICES ASSUME NEW c \in Coro, frame'[c] # "unborn"
             PROVE  \E w \in Worker : At(c, w)'
  BY DEF HomeOK
<1>1. CASE frame[c] # "unborn"
  <2>1. PICK w \in Worker : At(c, w)
    BY <1>1 DEF IInv, HomeOK
  <2>2. At(c, w)'
    BY <1>1, <2>1, AtStays
  <2> QED
    BY <2>2
<1>2. CASE frame[c] = "unborn"
  BY <1>2
<1> QED
  BY <1>1, <1>2

-----------------------------------------------------------------------------
(* Steps that touch no coroutine.                                          *)
Idle(w) == TestStop(w) \/ Sleep(w) \/ SpuriousWakeup(w) \/ AbortOnResult(w)
              \/ Resumed(w) \/ Count(w)

LEMMA IdleIInv ==
    ASSUME IInv, [Next]_vars,
           UNCHANGED vars \/ Destroy \/ \E w \in Worker : Idle(w)
    PROVE  IInv'
<1>1. UNCHANGED <<frame, next, callee, handles, stop, job>>
  BY DEF vars, Destroy, Idle, TestStop, Sleep, SpuriousWakeup, AbortOnResult, Resumed, Count
<1>2. TypeOK'
  <2>1. main' \in {"run", "stopping", "aborted"}
    BY DEF vars, Destroy, Idle, TestStop, Sleep, SpuriousWakeup, AbortOnResult, Resumed, Count,
           IInv, TypeOK
  <2>2. counted' \subseteq Root
    BY DEF vars, Destroy, Idle, TestStop, Sleep, SpuriousWakeup, AbortOnResult, Resumed, Count,
           IInv, TypeOK
  <2>3. wpc' \in [Worker -> {"test", "lock", "wait", "body", "resumed", "exit"}]
    BY DEF vars, Destroy, Idle, TestStop, Sleep, SpuriousWakeup, AbortOnResult, Resumed, Count,
           Goes, IInv, TypeOK
  <2> QED
    BY <1>1, <2>1, <2>2, <2>3 DEF IInv, TypeOK
<1>3. StackSuspended' /\ StackOnce' /\ JobOK' /\ AwaitsSuspended' /\ ReadyOK' /\ NextOK'
  BY <1>1 DEF IInv, StackSuspended, StackOnce, JobOK, AwaitsSuspended, ReadyOK, NextOK,
              OnStack, Finished
<1>4. HomeOK'
  BY <1>1, HomeStays
<1> QED
  BY <1>2, <1>3, <1>4 DEF IInv

(* stop() drops a stack.                                                   *)
LEMMA StopIInv ==
    ASSUME IInv, [Next]_vars, NEW v \in Worker, Stop(v)
    PROVE  IInv'
<1>1. /\ UNCHANGED <<main, counted, frame, next, callee, job>>
      /\ handles' = [handles EXCEPT ![v] = << >>]
      /\ stop' = stop \cup {v} /\ wpc' = Notified(wpc, v)
  BY DEF Stop
<1>2. handles \in [Worker -> Seq(Coro)] /\ << >> \in Seq(Coro) /\ Len(<< >>) = 0
  BY DEF IInv, TypeOK
<1>3. handles' \in [Worker -> Seq(Coro)]
  BY <1>1, <1>2
<1>4. \A w \in Worker : \A i \in 1..Len(handles'[w]) :
          i \in 1..Len(handles[w]) /\ handles'[w][i] = handles[w][i]
  <2>1. \A w \in Worker : handles'[w] = handles[w] \/ handles'[w] = << >>
    BY <1>1, <1>2
  <2>2. \A i \in 1..Len(<< >>) : FALSE
    BY <1>2
  <2> QED
    BY <2>1, <2>2
<1>5. \A c \in Coro, w \in Worker : OnStack(c, w)' => OnStack(c, w)
  BY <1>4 DEF OnStack
<1>6. wpc' \in [Worker -> {"test", "lock", "wait", "body", "resumed", "exit"}]
  BY <1>1 DEF IInv, TypeOK, Notified
<1>7. TypeOK'
  BY <1>1, <1>3, <1>6 DEF IInv, TypeOK
<1>8. StackSuspended' /\ ReadyOK'
  BY <1>1, <1>5 DEF IInv, StackSuspended, ReadyOK, Finished
<1>9. StackOnce'
  BY <1>4 DEF IInv, StackOnce
<1>10. JobOK' /\ AwaitsSuspended' /\ NextOK'
  BY <1>1 DEF IInv, JobOK, AwaitsSuspended, NextOK, Finished
<1>11. HomeOK'
  BY <1>1, HomeStays
<1> QED
  BY <1>7, <1>8, <1>9, <1>10, <1>11 DEF IInv

-----------------------------------------------------------------------------
(* Steps that push.                                                        *)
LEMMA ScheduleRootIInv ==
    ASSUME IInv, [Next]_vars, NEW r \in Root, NEW v \in Worker, ScheduleRoot(r, v)
    PROVE  IInv'
<1>1. /\ UNCHANGED <<main, counted, next, callee, stop, job>>
      /\ r \in Coro /\ frame[r] = "unborn" /\ frame' = [frame EXCEPT ![r] = "suspended"]
      /\ Push(v, r, wpc)
  BY TaskAssumption DEF ScheduleRoot
<1>2. TypeOK /\ StackOnce /\ wpc \in [Worker -> WorkerPlace]
  BY DEF IInv, TypeOK, WorkerPlace
<1>3. /\ callee[r] = None /\ \A w \in Worker : ~OnStack(r, w) /\ job[w] # r
      /\ \A c \in Coro : next[c] # None => next[c].handle # r
  BY <1>1, UnbornNowhere
<1>4. /\ handles' \in [Worker -> Seq(Coro)] /\ wpc' \in [Worker -> WorkerPlace]
      /\ \A c \in Coro, w \in Worker : OnStack(c, w)' => OnStack(c, w) \/ (w = v /\ c = r)
  BY <1>1, <1>2, PushElements
<1>5. /\ frame' \in [Coro -> {"unborn", "suspended", "running", "returned", "done"}]
      /\ frame'[r] = "suspended" /\ \A c \in Coro : c # r => frame'[c] = frame[c]
  BY <1>1, <1>2 DEF TypeOK
<1>6. TypeOK'
  BY <1>1, <1>2, <1>4, <1>5 DEF TypeOK, WorkerPlace
<1>7. StackSuspended'
  BY <1>4, <1>5 DEF IInv, StackSuspended
<1>8. StackOnce'
  BY <1>1, <1>2, <1>3, PushOnce
<1>9. JobOK'
  BY <1>1, <1>2, <1>3, <1>5 DEF IInv, JobOK, TypeOK
<1>10. AwaitsSuspended'
  BY <1>1, <1>5 DEF IInv, AwaitsSuspended
<1>11. ReadyOK'
  <2> SUFFICES ASSUME NEW c \in Coro, NEW w \in Worker, OnStack(c, w)', callee[c] # None
               PROVE  frame'[callee[c]] \in {"returned", "done"}
    BY <1>1 DEF ReadyOK, Finished
  <2>1. OnStack(c, w)
    BY <1>3, <1>4
  <2>2. frame[callee[c]] \in {"returned", "done"} /\ callee[c] \in Coro
    BY <1>2, <2>1 DEF IInv, ReadyOK, Finished, TypeOK
  <2> QED
    BY <1>1, <1>5, <2>2
<1>12. NextOK'
  <2> SUFFICES ASSUME NEW d \in Coro, next[d] # None
               PROVE  /\ frame'[next[d].handle] # "unborn"
                      /\ frame'[d] \notin {"returned", "done"} => callee[next[d].handle] = d
    BY <1>1 DEF NextOK, Finished
  <2>1. next[d].handle \in Coro
    BY <1>2 DEF TypeOK, NextInfo
  <2> QED
    BY <1>1, <1>5, <2>1 DEF IInv, NextOK, Finished
<1>13. HomeOK'
  <2>1. At(r, v)'
    BY <1>1, <1>3, <1>4 DEF At
  <2> QED
    BY <1>5, <2>1, HomeStays
<1> QED
  BY <1>6, <1>7, <1>8, <1>9, <1>10, <1>11, <1>12, <1>13 DEF IInv

LEMMA AwaitIInv ==
    ASSUME IInv, [Next]_vars, NEW w \in Worker, NEW d \in Coro, NEW v \in Worker,
           Await(w, d, v)
    PROVE  IInv'
<1>1. PICK c \in Coro : /\ UNCHANGED <<main, counted, stop>>
                        /\ job[w] = c /\ frame[c] = "running" /\ frame[d] = "unborn"
                        /\ frame' = [frame EXCEPT ![c] = "suspended", ![d] = "suspended"]
                        /\ callee' = [callee EXCEPT ![c] = d]
                        /\ next' = [next EXCEPT ![d] = [handle |-> c, worker |-> w]]
                        /\ job' = [job EXCEPT ![w] = None]
                        /\ Push(v, d, Goes(w, "resumed"))
  BY DEF Await, Runs
<1>2. TypeOK /\ StackOnce /\ Goes(w, "resumed") \in [Worker -> WorkerPlace]
  BY DEF IInv, TypeOK, WorkerPlace, Goes
<1>3. /\ callee[d] = None /\ \A u \in Worker : ~OnStack(d, u) /\ job[u] # d
      /\ \A x \in Coro : next[x] # None => next[x].handle # d
  BY <1>1, UnbornNowhere
<1>4. callee[c] = None /\ \A u \in Worker : ~OnStack(c, u) /\ (u # w => job[u] # c)
  BY <1>1, RunningElsewhere
<1>5. /\ handles' \in [Worker -> Seq(Coro)] /\ wpc' \in [Worker -> WorkerPlace]
      /\ \A x \in Coro, u \in Worker : OnStack(x, u)' => OnStack(x, u) \/ (u = v /\ x = d)
  BY <1>1, <1>2, PushElements
<1>6. /\ frame' \in [Coro -> {"unborn", "suspended", "running", "returned", "done"}]
      /\ c # d /\ frame'[c] = "suspended" /\ frame'[d] = "suspended"
      /\ \A x \in Coro \ {c, d} : frame'[x] = frame[x]
  BY <1>1, <1>2 DEF TypeOK
<1>7. /\ callee' \in [Coro -> Coro \cup {None}] /\ callee'[c] = d
      /\ \A x \in Coro : x # c => callee'[x] = callee[x]
  BY <1>1, <1>2 DEF TypeOK
<1>8. /\ next' \in [Coro -> NextInfo \cup {None}] /\ next'[d] = [handle |-> c, worker |-> w]
      /\ \A x \in Coro : x # d => next'[x] = next[x]
  BY <1>1, <1>2 DEF TypeOK, NextInfo
<1>9. /\ job' \in [Worker -> Coro \cup {None}] /\ job'[w] = None
      /\ \A u \in Worker : u # w => job'[u] = job[u]
  BY <1>1, <1>2 DEF TypeOK
<1>10. TypeOK'
  BY <1>1, <1>2, <1>5, <1>6, <1>7, <1>8, <1>9 DEF TypeOK, WorkerPlace
<1>11. StackSuspended'
  BY <1>4, <1>5, <1>6 DEF IInv, StackSuspended
<1>12. StackOnce'
  BY <1>1, <1>2, <1>3, PushOnce
<1>13. JobOK'
  <2> SUFFICES ASSUME NEW u \in Worker, job'[u] # None
               PROVE  /\ frame'[job'[u]] \in {"running", "returned"}
                      /\ \A k \in Worker : job'[k] = job'[u] => k = u
    BY DEF JobOK
  <2>1. u # w /\ job'[u] = job[u] /\ job[u] \in Coro \ {c, d}
    BY <1>2, <1>3, <1>4, <1>9 DEF TypeOK
  <2> QED
    BY <1>6, <1>9, <2>1 DEF IInv, JobOK
<1>14. AwaitsSuspended'
  BY <1>6, <1>7 DEF IInv, AwaitsSuspended
<1>15. ReadyOK'
  <2> SUFFICES ASSUME NEW x \in Coro, NEW u \in Worker, OnStack(x, u)', callee'[x] # None
               PROVE  frame'[callee'[x]] \in {"returned", "done"}
    BY DEF ReadyOK, Finished
  <2>1. x # c /\ callee'[x] = callee[x] /\ OnStack(x, u)
    BY <1>3, <1>4, <1>5, <1>6, <1>7
  <2>2. frame[callee[x]] \in {"returned", "done"} /\ callee[x] \in Coro
    BY <1>2, <2>1 DEF IInv, ReadyOK, Finished, TypeOK
  <2> QED
    BY <1>1, <1>6, <2>1, <2>2
<1>16. NextOK'
  <2> SUFFICES ASSUME NEW x \in Coro, next'[x] # None
               PROVE  /\ frame'[next'[x].handle] # "unborn"
                      /\ frame'[x] \notin {"returned", "done"} => callee'[next'[x].handle] = x
    BY DEF NextOK, Finished
  <2>1. CASE x = d
    BY <1>6, <1>7, <1>8, <2>1
  <2>2. CASE x # d
    <3>1. next'[x] = next[x] /\ next[x].handle \in Coro
      BY <1>2, <1>8, <2>2 DEF TypeOK, NextInfo
    <3>2. frame[next[x].handle] # "unborn"
      BY <3>1 DEF IInv, NextOK
    <3>3. frame'[next[x].handle] # "unborn"
      BY <1>6, <3>1, <3>2
    <3>4. ASSUME frame'[x] \notin {"returned", "done"} PROVE callee'[next[x].handle] = x
      <4>1. frame[x] \notin {"returned", "done"}
        BY <1>1, <1>6, <3>4
      <4>2. callee[next[x].handle] = x
        BY <3>1, <4>1 DEF IInv, NextOK, Finished
      <4> QED
        BY <1>4, <1>7, <3>1, <4>2, NoneFacts
    <3> QED
      BY <3>1, <3>3, <3>4
  <2> QED
    BY <2>1, <2>2
<1>17. HomeOK'
  <2>1. \A x \in Coro : next'[x] # None => next'[x].handle # d
    BY <1>3, <1>6, <1>8
  <2>2. At(d, v)'
    BY <1>3, <1>5, <1>9, <2>1, NoneFacts DEF At
  <2> QED
    BY <1>1, <1>6, <2>2, HomeStays
<1> QED
  BY <1>10, <1>11, <1>12, <1>13, <1>14, <1>15, <1>16, <1>17 DEF IInv

(* Return: the caller that is pushed awaits this very task.                *)
LEMMA ReturnIInv ==
    ASSUME IInv, [Next]_vars, NEW w \in Worker, Return(w)
    PROVE  IInv'
<1>1. PICK c \in Coro : /\ UNCHANGED <<main, counted, next, callee, stop, job>>
                        /\ job[w] = c /\ frame[c] = "running"
                        /\ frame' = [frame EXCEPT ![c] = "returned"]
                        /\ IF next[c] # None
                           THEN Push(next[c].worker, next[c].handle, wpc)
                           ELSE UNCHANGED <<handles, wpc>>
  BY TaskAssumption DEF Return, Runs, IInv, TypeOK
<1>2. TypeOK /\ StackOnce /\ wpc \in [Worker -> WorkerPlace]
  BY DEF IInv, TypeOK, WorkerPlace
<1>3. callee[c] = None /\ \A u \in Worker : ~OnStack(c, u) /\ (u # w => job[u] # c)
  BY <1>1, RunningElsewhere
<1>4. /\ frame' \in [Coro -> {"unborn", "suspended", "running", "returned", "done"}]
      /\ frame'[c] = "returned" /\ \A x \in Coro : x # c => frame'[x] = frame[x]
  BY <1>1, <1>2 DEF TypeOK
<1>5. ASSUME next[c] # None
      PROVE  /\ next[c].handle \in Coro /\ next[c].worker \in Worker
             /\ callee[next[c].handle] = c
             /\ frame[next[c].handle] = "suspended" /\ next[c].handle # c
             /\ \A u \in Worker : ~OnStack(next[c].handle, u)
  <2>1. next[c].handle \in Coro /\ next[c].worker \in Worker
    BY <1>2, <1>5 DEF TypeOK, NextInfo
  <2>2. callee[next[c].handle] = c
    BY <1>1, <1>5 DEF IInv, NextOK, Finished
  <2>3. frame[next[c].handle] = "suspended"
    BY <2>1, <2>2, NoneFacts DEF IInv, AwaitsSuspended
  <2>4. \A u \in Worker : ~OnStack(next[c].handle, u)
    BY <1>1, <2>1, <2>2, NoneFacts DEF IInv, ReadyOK, Finished
  <2> QED
    BY <1>1, <2>1, <2>2, <2>3, <2>4
<1>6. /\ handles' \in [Worker -> Seq(Coro)] /\ wpc' \in [Worker -> WorkerPlace]
      /\ \A x \in Coro, u \in Worker : OnStack(x, u)' =>
            OnStack(x, u) \/ (next[c] # None /\ x = next[c].handle)
  <2>1. CASE next[c] # None
    BY <1>1, <1>2, <1>5, <2>1, PushElements
  <2>2. CASE next[c] = None
    BY <1>1, <1>2, <2>2 DEF TypeOK, OnStack
  <2> QED
    BY <2>1, <2>2
<1>7. TypeOK'
  BY <1>1, <1>2, <1>4, <1>6 DEF TypeOK, WorkerPlace
<1>8. StackSuspended'
  <2> SUFFICES ASSUME NEW x \in Coro, NEW u \in Worker, OnStack(x, u)'
               PROVE  frame'[x] = "suspended"
    BY DEF StackSuspended
  <2>1. CASE OnStack(x, u)
    BY <1>3, <1>4, <2>1 DEF IInv, StackSuspended
  <2>2. CASE next[c] # None /\ x = next[c].handle
    BY <1>4, <1>5, <2>2
  <2> QED
    BY <1>6, <2>1, <2>2
<1>9. StackOnce'
  <2>1. CASE next[c] # None
    BY <1>1, <1>2, <1>5, <2>1, PushOnce
  <2>2. CASE next[c] = None
    BY <1>1, <1>2, <2>2 DEF StackOnce
  <2> QED
    BY <2>1, <2>2
<1>10. JobOK'
  BY <1>1, <1>2, <1>4 DEF IInv, JobOK, TypeOK
<1>11. AwaitsSuspended'
  BY <1>1, <1>3, <1>4 DEF IInv, AwaitsSuspended
<1>12. ReadyOK'
  <2> SUFFICES ASSUME NEW x \in Coro, NEW u \in Worker, OnStack(x, u)', callee[x] # None
               PROVE  frame'[callee[x]] \in {"returned", "done"}
    BY <1>1 DEF ReadyOK, Finished
  <2>1. CASE OnStack(x, u)
    <3>1. frame[callee[x]] \in {"returned", "done"} /\ callee[x] \in Coro
      BY <1>2, <2>1 DEF IInv, ReadyOK, Finished, TypeOK
    <3> QED
      BY <1>4, <3>1
  <2>2. CASE next[c] # None /\ x = next[c].handle
    BY <1>4, <1>5, <2>2
  <2> QED
    BY <1>6, <2>1, <2>2
<1>13. NextOK'
  <2> SUFFICES ASSUME NEW x \in Coro, next[x] # None
               PROVE  /\ frame'[next[x].handle] # "unborn"
                      /\ frame'[x] \notin {"returned", "done"} => callee[next[x].handle] = x
    BY <1>1 DEF NextOK, Finished
  <2>1. next[x].handle \in Coro
    BY <1>2 DEF TypeOK, NextInfo
  <2> QED
    BY <1>4, <2>1 DEF IInv, NextOK, Finished
<1>14. HomeOK'
  BY <1>1, <1>4, HomeStays
<1> QED
  BY <1>7, <1>8, <1>9, <1>10, <1>11, <1>12, <1>13, <1>14 DEF IInv

-----------------------------------------------------------------------------
(* Steps of one coroutine.                                                 *)

(* The handle that is popped is on no stack any more.                      *)
LEMMA ResumeElements ==
    ASSUME IInv, NEW w \in Worker, Resume(w)
    PROVE  /\ Top(w) \in Coro /\ OnStack(Top(w), w)
           /\ handles' \in [Worker -> Seq(Coro)]
           /\ \A v \in Worker : \A i \in 1..Len(handles'[v]) :
                 /\ i \in 1..Len(handles[v]) /\ handles'[v][i] = handles[v][i]
                 /\ handles[v][i] # Top(w)
           /\ \A c \in Coro, v \in Worker : OnStack(c, v)' => OnStack(c, v) /\ c # Top(w)
<1> DEFINE q == handles[w]
           p == SubSeq(q, 1, Len(q) - 1)
<1>1. handles \in [Worker -> Seq(Coro)] /\ q \in Seq(Coro) /\ q # << >>
  BY DEF IInv, TypeOK, Resume
<1>2. /\ Len(q) \in 1..Len(q) /\ q[Len(q)] \in Coro
      /\ p \in Seq(Coro) /\ Len(p) = Len(q) - 1
      /\ \A i \in 1..(Len(q) - 1) : p[i] = q[i]
  BY <1>1, PopElements
<1>3. handles' = [handles EXCEPT ![w] = p] /\ Top(w) = q[Len(q)]
  BY DEF Resume, Top
<1> HIDE DEF p
<1>4. handles' \in [Worker -> Seq(Coro)] /\ handles'[w] = p
      /\ \A v \in Worker : v # w => handles'[v] = handles[v]
  BY <1>1, <1>2, <1>3
<1>5. OnStack(Top(w), w)
  BY <1>2, <1>3 DEF OnStack
<1>6. ASSUME NEW v \in Worker, NEW i \in 1..Len(handles'[v])
      PROVE  /\ i \in 1..Len(handles[v]) /\ handles'[v][i] = handles[v][i]
             /\ handles[v][i] # Top(w)
  <2>1. CASE v # w
    BY <1>2, <1>3, <1>4, <2>1 DEF IInv, StackOnce
  <2>2. CASE v = w
    <3>1. i \in 1..(Len(q) - 1) /\ i \in 1..Len(q) /\ i # Len(q)
      BY <1>1, <1>2, <1>4, <2>2
    <3>2. handles'[v][i] = q[i]
      BY <1>2, <1>4, <2>2, <3>1
    <3>3. q[i] # q[Len(q)]
      BY <1>2, <3>1 DEF IInv, StackOnce
    <3> QED
      BY <1>3, <2>2, <3>1, <3>2, <3>3
  <2> QED
    BY <2>1, <2>2
<1>7. ASSUME NEW c \in Coro, NEW v \in Worker, OnStack(c, v)'
      PROVE  OnStack(c, v) /\ c # Top(w)
  <2>1. PICK i \in 1..Len(handles'[v]) : handles'[v][i] = c
    BY <1>7 DEF OnStack
  <2> QED
    BY <1>6, <2>1 DEF OnStack
<1> QED
  BY <1>2, <1>3, <1>4, <1>5, <1>6, <1>7

LEMMA ResumeIInv ==
    ASSUME IInv, [Next]_vars, NEW w \in Worker, Resume(w)
    PROVE  IInv'
<1> DEFINE c == Top(w)
<1>1. /\ UNCHANGED <<main, counted, next, stop>>
      /\ frame' = [frame EXCEPT ![c] = "running"]
      /\ callee' = [callee EXCEPT ![c] = None]
      /\ job' = [job EXCEPT ![w] = c] /\ wpc' = Goes(w, "body")
  BY DEF Resume
<1>2. /\ c \in Coro /\ OnStack(c, w) /\ handles' \in [Worker -> Seq(Coro)]
      /\ \A v \in Worker : \A i \in 1..Len(handles'[v]) :
            i \in 1..Len(handles[v]) /\ handles'[v][i] = handles[v][i]
      /\ \A x \in Coro, v \in Worker : OnStack(x, v)' => OnStack(x, v) /\ x # c
  BY ResumeElements
<1> HIDE DEF c
<1>3. frame[c] = "suspended" /\ (callee[c] # None => Finished(callee[c]))
  BY <1>2 DEF IInv, StackSuspended, ReadyOK
<1>4. /\ frame' \in [Coro -> {"unborn", "suspended", "running", "returned", "done"}]
      /\ frame'[c] = "running" /\ \A x \in Coro : x # c => frame'[x] = frame[x]
  BY <1>1, <1>2 DEF IInv, TypeOK
<1>5. /\ callee' \in [Coro -> Coro \cup {None}] /\ callee'[c] = None
      /\ \A x \in Coro : x # c => callee'[x] = callee[x]
  BY <1>1, <1>2 DEF IInv, TypeOK
<1>6. /\ job' \in [Worker -> Coro \cup {None}] /\ job'[w] = c
      /\ \A v \in Worker : v # w => job'[v] = job[v]
  BY <1>1, <1>2 DEF IInv, TypeOK
<1>7. wpc' \in [Worker -> {"test", "lock", "wait", "body", "resumed", "exit"}]
  BY <1>1 DEF IInv, TypeOK, Goes
<1>8. TypeOK'
  BY <1>1, <1>2, <1>4, <1>5, <1>6, <1>7 DEF IInv, TypeOK
<1>9. StackSuspended'
  BY <1>2, <1>4 DEF IInv, StackSuspended
<1>10. StackOnce'
  BY <1>2 DEF IInv, StackOnce
<1>11. JobOK'
  <2>1. job \in [Worker -> Coro \cup {None}]
    BY DEF IInv, TypeOK
  <2>2. ASSUME NEW v \in Worker PROVE job[v] # c
    <3>1. job[v] # None => frame[job[v]] \in {"running", "returned"}
      BY DEF IInv, JobOK
    <3> QED
      BY <1>2, <1>3, <3>1, NoneFacts
  <2> QED
    BY <1>4, <1>6, <2>1, <2>2 DEF IInv, JobOK
<1>12. AwaitsSuspended'
  BY <1>4, <1>5 DEF IInv, AwaitsSuspended
<1>13. ReadyOK'
  <2> SUFFICES ASSUME NEW x \in Coro, NEW v \in Worker, OnStack(x, v)', callee'[x] # None
               PROVE  frame'[callee'[x]] \in {"returned", "done"}
    BY DEF ReadyOK, Finished
  <2>1. x # c /\ OnStack(x, v) /\ callee'[x] = callee[x]
    BY <1>2, <1>5
  <2>2. frame[callee[x]] \in {"returned", "done"} /\ callee[x] \in Coro
    BY <2>1 DEF IInv, ReadyOK, Finished, TypeOK
  <2> QED
    BY <1>3, <1>4, <2>1, <2>2
<1>14. NextOK'
  <2> SUFFICES ASSUME NEW d \in Coro, next[d] # None
               PROVE  /\ frame'[next[d].handle] # "unborn"
                      /\ frame'[d] \notin {"returned", "done"} => callee'[next[d].handle] = d
    BY <1>1 DEF NextOK, Finished
  <2>1. next[d].handle \in Coro /\ frame[next[d].handle] # "unborn"
    BY DEF IInv, TypeOK, NextInfo, NextOK
  <2>2. ASSUME frame'[d] \notin {"returned", "done"} PROVE callee'[next[d].handle] = d
    <3>1. frame[d] \notin {"returned", "done"}
      BY <1>3, <1>4, <2>2
    <3>2. callee[next[d].handle] = d
      BY <3>1 DEF IInv, NextOK, Finished
    <3>3. next[d].handle # c
      BY <1>3, <3>1, <3>2, NoneFacts DEF Finished
    <3> QED
      BY <1>5, <2>1, <3>2, <3>3
  <2> QED
    BY <1>4, <2>1, <2>2
<1>15. HomeOK'
  BY <1>3, <1>4, HomeStays
<1> QED
  BY <1>8, <1>9, <1>10, <1>11, <1>12, <1>13, <1>14, <1>15 DEF IInv

LEMMA FinalSuspendIInv ==
    ASSUME IInv, [Next]_vars, NEW w \in Worker, FinalSuspend(w)
    PROVE  IInv'
<1>1. PICK c \in Coro : /\ UNCHANGED <<main, counted, next, callee, handles, stop>>
                        /\ job[w] = c /\ frame[c] = "returned"
                        /\ frame' = [frame EXCEPT ![c] = "done"]
                        /\ job' = [job EXCEPT ![w] = None] /\ wpc' = Goes(w, "resumed")
  BY DEF FinalSuspend
<1>2. callee[c] = None /\ \A u \in Worker : ~OnStack(c, u) /\ (u # w => job[u] # c)
  BY <1>1, RunningElsewhere
<1>3. /\ frame' \in [Coro -> {"unborn", "suspended", "running", "returned", "done"}]
      /\ frame'[c] = "done" /\ \A x \in Coro : x # c => frame'[x] = frame[x]
  BY <1>1 DEF IInv, TypeOK
<1>4. /\ job' \in [Worker -> Coro \cup {None}] /\ job'[w] = None
      /\ \A v \in Worker : v # w => job'[v] = job[v]
  BY <1>1 DEF IInv, TypeOK
<1>5. wpc' \in [Worker -> {"test", "lock", "wait", "body", "resumed", "exit"}]
  BY <1>1 DEF IInv, TypeOK, Goes
<1>6. TypeOK'
  BY <1>1, <1>3, <1>4, <1>5 DEF IInv, TypeOK
<1>7. \A x \in Coro, u \in Worker : OnStack(x, u)' => OnStack(x, u) /\ x # c
  BY <1>1, <1>2 DEF OnStack
<1>8. StackSuspended'
  BY <1>3, <1>7 DEF IInv, StackSuspended
<1>9. StackOnce'
  BY <1>1 DEF IInv, StackOnce
<1>10. JobOK'
  <2>1. \A v \in Worker : v # w => job[v] # c /\ job[v] \in Coro \cup {None}
    BY <1>2 DEF IInv, TypeOK
  <2> QED
    BY <1>3, <1>4, <2>1 DEF IInv, JobOK
<1>11. AwaitsSuspended'
  BY <1>1, <1>2, <1>3 DEF IInv, AwaitsSuspended
<1>12. ReadyOK'
  <2> SUFFICES ASSUME NEW x \in Coro, NEW u \in Worker, OnStack(x, u)', callee[x] # None
               PROVE  frame'[callee[x]] \in {"returned", "done"}
    BY <1>1 DEF ReadyOK, Finished
  <2>1. frame[callee[x]] \in {"returned", "done"} /\ callee[x] \in Coro
    BY <1>7 DEF IInv, ReadyOK, Finished, TypeOK
  <2> QED
    BY <1>3, <2>1
<1>13. NextOK'
  <2> SUFFICES ASSUME NEW d \in Coro, next[d] # None
               PROVE  /\ frame'[next[d].handle] # "unborn"
                      /\ frame'[d] \notin {"returned", "done"} => callee[next[d].handle] = d
    BY <1>1 DEF NextOK, Finished
  <2>1. next[d].handle \in Coro
    BY DEF IInv, TypeOK, NextInfo
  <2> QED
    BY <1>3, <2>1 DEF IInv, NextOK, Finished
<1>14. HomeOK'
  BY <1>1, <1>3, HomeStays
<1> QED
  BY <1>6, <1>8, <1>9, <1>10, <1>11, <1>12, <1>13, <1>14 DEF IInv

-----------------------------------------------------------------------------
LEMMA NextIInv == IInv /\ [Next]_vars => IInv'
<1> SUFFICES ASSUME IInv, [Next]_vars PROVE IInv'
  OBVIOUS
<1>1. CASE UNCHANGED vars \/ Destroy \/ \E w \in Worker : Idle(w)
  BY <1>1, IdleIInv
<1>2. CASE \E v \in Worker : Stop(v)
  BY <1>2, StopIInv
<1>3. CASE \E r \in Root, v \in Worker : ScheduleRoot(r, v)
  BY <1>3, ScheduleRootIInv
<1>4. CASE \E w \in Worker, d \in Coro, v \in Worker : Await(w, d, v)
  BY <1>4, AwaitIInv
<1>5. CASE \E w \in Worker : Resume(w) \/ Return(w) \/ FinalSuspend(w)
  BY <1>5, ResumeIInv, ReturnIInv, FinalSuspendIInv
<1> QED
  BY <1>1, <1>2, <1>3, <1>4, <1>5 DEF Next, Main, WorkerStep, Idle

(* The invariant holds of every execution.                                 *)
THEOREM InvariantHolds == Spec => []IInv
<1>1. Init => IInv
  BY InitIInv
<1>2. IInv /\ [Next]_vars => IInv'
  BY NextIInv
<1> QED
  BY <1>1, <1>2, PTL DEF Spec

(* Every variable keeps its type; what is pushed is never a null handle.   *)
THEOREM TypeCorrect == Spec => []TypeOK
<1>1. IInv => TypeOK
  BY DEF IInv
<1> QED
  BY <1>1, InvariantHolds, PTL

(* No task is on two stacks, resumed by two threads, or resumed when done. *)
THEOREM HandlesAlwaysSuspended == Spec => []HandlesSuspended
<1>1. IInv => HandlesSuspended
  <2> SUFFICES ASSUME IInv PROVE HandlesSuspended
    OBVIOUS
  <2>1. ASSUME NEW w \in Worker, NEW i \in 1..Len(handles[w])
        PROVE  frame[handles[w][i]] = "suspended"
    <3>1. handles[w][i] \in Coro /\ OnStack(handles[w][i], w)
      BY DEF IInv, TypeOK, OnStack
    <3> QED
      BY <3>1 DEF IInv, StackSuspended
  <2> QED
    BY <2>1 DEF IInv, HandlesSuspended, StackOnce, JobOK
<1> QED
  BY <1>1, InvariantHolds, PTL

(* A task goes on, after each await, on the worker it was first scheduled  *)
(* on: its handle only ever reaches the stack of that worker.              *)
THEOREM AlwaysOnItsWorker == Spec => StaysOnItsWorker
<1>1. ASSUME NEW c \in Coro, NEW w \in Worker
      PROVE  Spec => [](job[w] = c => [](\A v \in Worker \ {w} : job[v] # c))
  <2> DEFINE Here == frame[c] # "unborn" /\ At(c, w)
             Only == \A v \in Worker \ {w} : job[v] # c
             Job  == job[w] = c
  <2>1. IInv /\ Job => Here
    <3> SUFFICES ASSUME IInv, job[w] = c PROVE Here
      OBVIOUS
    <3>1. frame[c] # "unborn"
      BY NoneFacts DEF IInv, JobOK
    <3>2. PICK u \in Worker : At(c, u)
      BY <3>1 DEF IInv, HomeOK
    <3> QED
      BY <3>1, <3>2 DEF At
  <2>2. IInv /\ [Next]_vars /\ Here => Here'
    <3> SUFFICES ASSUME IInv, [Next]_vars, frame[c] # "unborn", At(c, w)
                 PROVE  frame'[c] # "unborn" /\ At(c, w)'
      OBVIOUS
    <3>1. At(c, w)'
      BY AtStays
    <3>2. frame'[c] # "unborn"
      <4>1. \/ frame' = frame
            \/ \E x, y \in Coro, s, t \in {"suspended", "running", "returned", "done"} :
                  \/ frame' = [frame EXCEPT ![x] = s]
                  \/ frame' = [frame EXCEPT ![x] = s, ![y] = t]
        BY TaskAssumption, ResumeElements
           DEF Next, Main, WorkerStep, Destroy, Stop, ScheduleRoot, TestStop, Sleep,
               AbortOnResult, Resume, Resumed, Count, Return, FinalSuspend, Await,
               SpuriousWakeup, vars, IInv, TypeOK
      <4> QED
        BY <4>1 DEF IInv, TypeOK
    <3> QED
      BY <3>1, <3>2
  <2>3. Here => Only
    BY DEF At
  <2> HIDE DEF Here, Only, Job
  <2>4. Spec => [](Job => []Only)
    BY <2>1, <2>2, <2>3, InvariantHolds, PTL DEF Spec
  <2> QED
    BY <2>4 DEF Job, Only
<1> QED
  BY <1>1 DEF StaysOnItsWorker

-----------------------------------------------------------------------------
(***************************************************************************)
(* Refinement of AsyncCall: starting a root is Start, co_await is Call,    *)
(* return_void() is Finish, and a worker's resumption of a caller is       *)
(* Continue; a resumption of a task that awaits nothing is not seen.       *)
(***************************************************************************)
phase == [c \in Coro |-> Phase(c)]

LEMMA PhaseFacts ==
    ASSUME NEW c \in Coro
    PROVE  /\ frame[c] = "unborn" => Phase(c) = "unborn"
           /\ frame[c] \in {"returned", "done"} => Phase(c) = "finished"
           /\ frame[c] \in {"suspended", "running"} => Phase(c) = "active"
           /\ phase[c] = Phase(c)
  BY DEF phase, Phase

(* A step that changes one frame changes one phase at most.                *)
LEMMA PhaseChange ==
    ASSUME NEW x \in Coro, NEW s, Phase(x)' = s,
           \A c \in Coro : c # x => frame'[c] = frame[c]
    PROVE  phase' = [phase EXCEPT ![x] = s]
<1>1. \A c \in Coro : c # x => Phase(c)' = Phase(c)
  BY DEF Phase
<1> QED
  BY <1>1 DEF phase

LEMMA PhaseKept ==
    ASSUME \A c \in Coro : Phase(c)' = Phase(c)
    PROVE  phase' = phase
  BY DEF phase

(* Each step of the pool is a step of AsyncCall or stutters.               *)
LEMMA StepImplements ==
    ASSUME IInv, [Next]_vars
    PROVE  [AC!Next]_<<phase, callee>>
<1>0. /\ frame \in [Coro -> {"unborn", "suspended", "running", "returned", "done"}]
      /\ callee \in [Coro -> Coro \cup {None}]
  BY DEF IInv, TypeOK
<1>1. CASE \E r \in Root, v \in Worker : ScheduleRoot(r, v)
  <2>1. PICK r \in Coro : /\ frame[r] = "unborn" /\ callee' = callee
                          /\ frame' = [frame EXCEPT ![r] = "suspended"]
    BY <1>1, TaskAssumption DEF ScheduleRoot
  <2>2. frame'[r] = "suspended" /\ \A c \in Coro : c # r => frame'[c] = frame[c]
    BY <1>0, <2>1
  <2>3. Phase(r)' = "active" /\ phase[r] = "unborn"
    BY <2>1, <2>2, PhaseFacts DEF Phase
  <2>4. phase' = [phase EXCEPT ![r] = "active"]
    BY <2>2, <2>3, PhaseChange
  <2>5. AC!Start(r)
    BY <2>1, <2>3, <2>4 DEF AC!Start, phase
  <2> QED
    BY <2>5 DEF AC!Next
<1>2. CASE \E w \in Worker, d \in Coro, v \in Worker : Await(w, d, v)
  <2>1. PICK w \in Worker, c \in Coro, d \in Coro :
            /\ job[w] = c /\ frame[c] = "running" /\ frame[d] = "unborn"
            /\ frame' = [frame EXCEPT ![c] = "suspended", ![d] = "suspended"]
            /\ callee' = [callee EXCEPT ![c] = d]
    BY <1>2 DEF Await, Runs
  <2>2. callee[c] = None
    BY <2>1, RunningElsewhere
  <2>3. /\ c # d /\ frame'[c] = "suspended" /\ frame'[d] = "suspended"
        /\ \A x \in Coro \ {c, d} : frame'[x] = frame[x]
    BY <1>0, <2>1
  <2>4. /\ phase[c] = "active" /\ phase[d] = "unborn"
        /\ Phase(d)' = "active" /\ Phase(c)' = Phase(c)
    BY <2>1, <2>3, PhaseFacts DEF Phase
  <2>5. \A x \in Coro \ {c, d} : Phase(x)' = Phase(x)
    BY <2>3 DEF Phase
  <2>6. phase' = [phase EXCEPT ![d] = "active"]
    BY <2>4, <2>5 DEF phase
  <2>7. AC!Call(c, d)
    BY <2>1, <2>2, <2>4, <2>6 DEF AC!Call, phase
  <2> QED
    BY <2>7 DEF AC!Next
<1>3. CASE \E w \in Worker : Resume(w)
  <2>1. PICK w \in Worker : Resume(w)
    BY <1>3
  <2>2. PICK c \in Coro : c = Top(w) /\ OnStack(c, w)
    BY <2>1, ResumeElements
  <2>3. /\ frame' = [frame EXCEPT ![c] = "running"]
        /\ callee' = [callee EXCEPT ![c] = None]
    BY <2>1, <2>2 DEF Resume
  <2>4. frame[c] = "suspended" /\ (callee[c] # None => Finished(callee[c]))
    BY <2>2 DEF IInv, StackSuspended, ReadyOK
  <2>5. frame'[c] = "running" /\ \A x \in Coro : x # c => frame'[x] = frame[x]
    BY <1>0, <2>2, <2>3
  <2>6. \A x \in Coro : Phase(x)' = Phase(x)
    <3>1. Phase(c)' = Phase(c)
      BY <2>4, <2>5 DEF Phase
    <3>2. \A x \in Coro : x # c => Phase(x)' = Phase(x)
      BY <2>5 DEF Phase
    <3> QED
      BY <3>1, <3>2
  <2>7. phase' = phase
    BY <2>6, PhaseKept
  <2>8. CASE callee[c] = None
    <3>1. callee' = callee
      BY <1>0, <2>2, <2>3, <2>8
    <3> QED
      BY <2>7, <3>1
  <2>9. CASE callee[c] # None
    <3>1. callee[c] \in Coro /\ phase[callee[c]] = "finished"
      BY <1>0, <2>2, <2>4, <2>9, PhaseFacts DEF Finished
    <3>2. AC!Continue(c)
      BY <2>3, <2>7, <2>9, <3>1 DEF AC!Continue, phase
    <3> QED
      BY <2>2, <3>2 DEF AC!Next
  <2> QED
    BY <2>8, <2>9
<1>4. CASE \E w \in Worker : Return(w)
  <2>1. PICK w \in Worker, c \in Coro :
            /\ job[w] = c /\ frame[c] = "running" /\ callee' = callee
            /\ frame' = [frame EXCEPT ![c] = "returned"]
    BY <1>4, TaskAssumption DEF Return, Runs, IInv, TypeOK
  <2>2. callee[c] = None
    BY <2>1, RunningElsewhere
  <2>3. frame'[c] = "returned" /\ \A x \in Coro : x # c => frame'[x] = frame[x]
    BY <1>0, <2>1
  <2>4. phase[c] = "active" /\ Phase(c)' = "finished"
    BY <2>1, <2>3, PhaseFacts DEF Phase
  <2>5. phase' = [phase EXCEPT ![c] = "finished"]
    BY <2>3, <2>4, PhaseChange
  <2>6. AC!Finish(c)
    BY <2>1, <2>2, <2>4, <2>5 DEF AC!Finish, phase
  <2> QED
    BY <2>6 DEF AC!Next
<1>5. CASE \E w \in Worker : FinalSuspend(w)
  <2>1. PICK c \in Coro : /\ frame[c] = "returned" /\ callee' = callee
                          /\ frame' = [frame EXCEPT ![c] = "done"]
    BY <1>5 DEF FinalSuspend
  <2>2. frame'[c] = "done" /\ \A x \in Coro : x # c => frame'[x] = frame[x]
    BY <1>0, <2>1
  <2>3. \A x \in Coro : Phase(x)' = Phase(x)
    <3>1. Phase(c)' = Phase(c)
      BY <2>1, <2>2 DEF Phase
    <3>2. \A x \in Coro : x # c => Phase(x)' = Phase(x)
      BY <2>2 DEF Phase
    <3> QED
      BY <3>1, <3>2
  <2> QED
    BY <2>1, <2>3, PhaseKept
<1>6. CASE UNCHANGED <<frame, callee>>
  <2>1. \A x \in Coro : Phase(x)' = Phase(x)
    BY <1>6 DEF Phase
  <2> QED
    BY <1>6, <2>1, PhaseKept
<1>7. \/ UNCHANGED <<frame, callee>>
      \/ \E r \in Root, v \in Worker : ScheduleRoot(r, v)
      \/ \E w \in Worker : Resume(w) \/ Return(w) \/ FinalSuspend(w)
      \/ \E w \in Worker, d \in Coro, v \in Worker : Await(w, d, v)
  BY DEF Next, Main, WorkerStep, Destroy, Stop, TestStop, Sleep, AbortOnResult, Resumed,
         Count, SpuriousWakeup, vars
<1> QED
  BY <1>1, <1>2, <1>3, <1>4, <1>5, <1>6, <1>7

(* Whatever worker a task is scheduled on, its await is a call: the pool   *)
(* implements AsyncCall.                                                   *)
THEOREM ImplementsAsync == Spec => ImplementsAsyncCall
<1>1. Init => AC!Init
  <2> SUFFICES ASSUME Init PROVE AC!Init
    OBVIOUS
  <2>1. \A c \in Coro : Phase(c) = "unborn"
    BY DEF Init, Phase
  <2> QED
    BY <2>1 DEF Init, AC!Init
<1>2. IInv /\ [Next]_vars => [AC!Next]_<<phase, callee>>
  BY StepImplements
<1> QED
  BY <1>1, <1>2, InvariantHolds, PTL DEF Spec, ImplementsAsyncCall, AC!Spec, phase
=============================================================================
