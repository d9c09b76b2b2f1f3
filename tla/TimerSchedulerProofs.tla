------------------------ MODULE TimerSchedulerProofs ------------------------
(***************************************************************************)
(* Proofs about the timer scheduler: for any set of timers, any durations  *)
(* and any bound on the clock.                                             *)
(***************************************************************************)
EXTENDS TimerScheduler, TLAPS

(***************************************************************************)
(* The inductive invariant.  The timers that are neither new nor ended are *)
(* of three kinds that exclude each other: one may run, some are in the    *)
(* heap, and the others await, each, the timer it is next of.  The first   *)
(* two have the scheduler.                                                 *)
(***************************************************************************)
RunnerOK == pc \in {"body", "handback"} => task \in Task /\ ~Queued(task)

BodyOK ==
    pc = "body" =>
        state[task] = "active" /\ task \in scheduler_ /\ \A t \in Task : next[t] # task

HandBackOK == pc = "handback" => next[task] # None

HeapOK == \A t \in Task : Queued(t) => state[t] = "active" /\ t \in scheduler_

ChainOK ==
    /\ \A t \in Task : next[t] # None => ~Queued(next[t]) /\ state[next[t]] = "active"
    /\ \A t, u \in Task : next[t] = next[u] /\ next[t] # None => t = u

IInv == TypeOK /\ RunnerOK /\ BodyOK /\ HandBackOK /\ HeapOK /\ ChainOK

(***************************************************************************)
(* What schedules the wake-up: a body that main() called finds the heap    *)
(* served and leaves it served, and no timer is set for a zero duration.   *)
(***************************************************************************)
Served ==
    /\ pc \in {"main", "wait"} \/ (pc \in {"body", "handback"} /\ caller = "main") =>
          Empty \/ pending \/ armed # None
    /\ pc \in {"settime", "rearm"} => wait > 0

LEMMA NoneFacts == None \notin Nat /\ None \notin Task
  BY DelayAssumption

LEMMA InitIInv == Init => IInv
<1> SUFFICES ASSUME Init PROVE IInv
  OBVIOUS
<1>1. TypeOK
  BY DEF Init, TypeOK
<1>2. RunnerOK /\ BodyOK /\ HandBackOK /\ HeapOK /\ ChainOK
  BY DEF Init, RunnerOK, BodyOK, HandBackOK, HeapOK, ChainOK, Queued
<1> QED
  BY <1>1, <1>2 DEF IInv

-----------------------------------------------------------------------------
(* The clock, the kernel's timer, and the manager between two timers.      *)
Idle == \/ Tick \/ Expire \/ RunScheduler \/ ScheduleInsert \/ BodyStops
        \/ ReadSignal \/ CheckStopped \/ CheckEmpty \/ Rearm
        \/ \E t \in Task : CheckLater(t)

LEMMA IdleIInv == IInv /\ Idle => IInv'
<1> SUFFICES ASSUME IInv, Idle PROVE IInv'
  OBVIOUS
<1>1. UNCHANGED <<due, state, next, scheduler_, task, caller>>
  BY DEF Idle, Tick, Expire, RunScheduler, ScheduleInsert, BodyStops, ReadSignal,
         CheckStopped, CheckEmpty, Rearm, CheckLater, chainVars
<1>2. /\ pc' \in {"main", "body", "settime", "handback", "wait", "check", "rearm", "done", "aborted"}
      /\ pc' \in {"body", "handback"} => pc' = pc
  BY DEF Idle, Tick, Expire, RunScheduler, ScheduleInsert, BodyStops, ReadSignal,
         CheckStopped, CheckEmpty, Rearm, CheckLater, BackToCaller, IInv, TypeOK
<1>3. /\ now \in Nat /\ wait \in Nat /\ armed \in Nat \cup {None}
      /\ due \in [Task -> Nat \cup {None}]
  BY DEF IInv, TypeOK
<1>4. now' \in Nat
  <2>1. now' \in {now, now + 1}
    BY DEF Idle, Tick, Expire, RunScheduler, ScheduleInsert, BodyStops, ReadSignal,
           CheckStopped, CheckEmpty, Rearm, CheckLater, kernelVars
  <2> QED
    BY <1>3, <2>1
<1>5. armed' \in Nat \cup {None}
  <2>1. armed' \in {armed, None, now + wait}
    BY DEF Idle, Tick, Expire, RunScheduler, ScheduleInsert, BodyStops, ReadSignal,
           CheckStopped, CheckEmpty, Rearm, CheckLater, kernelVars, SetTimer
  <2>2. now + wait \in Nat
    BY <1>3
  <2> QED
    BY <1>3, <2>1, <2>2
<1>6. wait' \in Nat
  <2>1. CASE \E t \in Task : CheckLater(t)
    <3>1. PICK t \in Task : Queued(t) /\ due[t] > now /\ wait' = due[t] - now
      BY <2>1 DEF CheckLater, Front
    <3>2. due[t] \in Nat
      BY <1>3, <3>1 DEF Queued
    <3> QED
      BY <1>3, <3>1, <3>2
  <2>2. CASE ~ \E t \in Task : CheckLater(t)
    BY <1>3, <2>2 DEF Idle, Tick, Expire, RunScheduler, ScheduleInsert, BodyStops,
                      ReadSignal, CheckStopped, CheckEmpty, Rearm
  <2> QED
    BY <2>1, <2>2
<1>7. pending' \in BOOLEAN /\ running' \in BOOLEAN
  BY DEF Idle, Tick, Expire, RunScheduler, ScheduleInsert, BodyStops, ReadSignal,
         CheckStopped, CheckEmpty, Rearm, CheckLater, kernelVars, IInv, TypeOK
<1>8. TypeOK'
  BY <1>1, <1>2, <1>4, <1>5, <1>6, <1>7 DEF IInv, TypeOK
<1>9. RunnerOK' /\ BodyOK' /\ HandBackOK' /\ HeapOK' /\ ChainOK'
  BY <1>1, <1>2 DEF IInv, RunnerOK, BodyOK, HandBackOK, HeapOK, ChainOK, Queued
<1> QED
  BY <1>8, <1>9 DEF IInv

-----------------------------------------------------------------------------
(* A timer gets to run: it is started, called, resumed, or returned to.    *)
LEMMA AddIInv == ASSUME IInv, NEW t \in Task, Add(t) PROVE IInv'
<1>1. /\ UNCHANGED <<now, armed, pending, running, due, next, wait>>
      /\ state[t] = "unborn" /\ state' = [state EXCEPT ![t] = "active"]
      /\ scheduler_' = scheduler_ \cup {t}
      /\ task' = t /\ caller' = "main" /\ pc' = "body"
  BY DEF Add, kernelVars
<1>2. TypeOK'
  BY <1>1 DEF IInv, TypeOK
<1>3. state'[t] = "active" /\ \A u \in Task : u # t => state'[u] = state[u]
  BY <1>1 DEF IInv, TypeOK
<1>4. ~Queued(t) /\ \A u \in Task : next[u] # t
  BY <1>1, NoneFacts DEF IInv, HeapOK, ChainOK
<1>5. RunnerOK' /\ BodyOK' /\ HandBackOK'
  BY <1>1, <1>3, <1>4 DEF RunnerOK, BodyOK, HandBackOK, Queued
<1>6. HeapOK'
  BY <1>1, <1>3 DEF IInv, HeapOK, Queued
<1>7. ChainOK'
  BY <1>1, <1>3, <1>4 DEF IInv, TypeOK, ChainOK, Queued
<1> QED
  BY <1>2, <1>5, <1>6, <1>7 DEF IInv

LEMMA BodyCallsIInv == ASSUME IInv, NEW t \in Task, BodyCalls(t) PROVE IInv'
<1>1. /\ UNCHANGED <<now, armed, pending, running, due, pc, caller, wait>>
      /\ pc = "body" /\ state[t] = "unborn"
      /\ state' = [state EXCEPT ![t] = "active"] /\ next' = [next EXCEPT ![t] = task]
      /\ task' = t
  BY DEF BodyCalls, kernelVars
<1>2. /\ task \in Task /\ ~Queued(task) /\ state[task] = "active"
      /\ task \in scheduler_ /\ \A u \in Task : next[u] # task
  BY <1>1 DEF IInv, RunnerOK, BodyOK
<1>3. scheduler_' = (scheduler_ \ {task}) \cup {t}
  BY <1>2 DEF BodyCalls
<1>4. TypeOK'
  BY <1>1, <1>2, <1>3 DEF IInv, TypeOK
<1>5. /\ state'[t] = "active" /\ \A u \in Task : u # t => state'[u] = state[u]
      /\ next'[t] = task /\ \A u \in Task : u # t => next'[u] = next[u]
  BY <1>1 DEF IInv, TypeOK
<1>6. ~Queued(t) /\ t # task /\ \A u \in Task : next[u] # t
  BY <1>1, <1>2, NoneFacts DEF IInv, HeapOK, ChainOK
<1>7. RunnerOK' /\ BodyOK' /\ HandBackOK'
  BY <1>1, <1>3, <1>5, <1>6 DEF RunnerOK, BodyOK, HandBackOK, Queued
<1>8. HeapOK'
  BY <1>1, <1>2, <1>3, <1>5 DEF IInv, HeapOK, Queued
<1>9. ChainOK'
  <2>1. \A u \in Task : next'[u] # None => ~Queued(next'[u]) /\ state'[next'[u]] = "active"
    <3> SUFFICES ASSUME NEW u \in Task, next'[u] # None
                 PROVE  ~Queued(next'[u]) /\ state'[next'[u]] = "active"
      OBVIOUS
    <3>1. CASE u = t
      BY <1>2, <1>5, <1>6, <3>1
    <3>2. CASE u # t
      BY <1>5, <1>6, <3>2 DEF IInv, TypeOK, ChainOK
    <3> QED
      BY <3>1, <3>2
  <2>2. \A u, v \in Task : next'[u] = next'[v] /\ next'[u] # None => u = v
    BY <1>2, <1>5 DEF IInv, ChainOK
  <2> QED
    BY <1>1, <2>1, <2>2 DEF ChainOK, Queued
<1> QED
  BY <1>4, <1>7, <1>8, <1>9 DEF IInv

LEMMA PopAndResumeIInv == ASSUME IInv, NEW t \in Task, PopAndResume(t) PROVE IInv'
<1>1. /\ UNCHANGED <<now, armed, pending, running, state, next, scheduler_, wait>>
      /\ Queued(t) /\ due' = [due EXCEPT ![t] = None]
      /\ task' = t /\ caller' = "loop" /\ pc' = "body"
  BY DEF PopAndResume, Front, kernelVars, chainVars
<1>2. TypeOK'
  BY <1>1 DEF IInv, TypeOK
<1>3. due'[t] = None /\ \A u \in Task : u # t => due'[u] = due[u]
  BY <1>1 DEF IInv, TypeOK
<1>4. state[t] = "active" /\ t \in scheduler_ /\ \A u \in Task : next[u] # t
  BY <1>1, NoneFacts DEF IInv, HeapOK, ChainOK
<1>5. RunnerOK' /\ BodyOK' /\ HandBackOK'
  BY <1>1, <1>3, <1>4 DEF RunnerOK, BodyOK, HandBackOK, Queued
<1>6. HeapOK'
  BY <1>1, <1>3 DEF IInv, HeapOK, Queued
<1>7. ChainOK'
  BY <1>1, <1>3, <1>4 DEF IInv, TypeOK, ChainOK, Queued
<1> QED
  BY <1>2, <1>5, <1>6, <1>7 DEF IInv

LEMMA HandBackIInv == IInv /\ HandBack => IInv'
<1> SUFFICES ASSUME IInv, HandBack PROVE IInv'
  OBVIOUS
<1>1. /\ UNCHANGED <<now, armed, pending, running, due, state, caller, wait>>
      /\ pc = "handback" /\ pc' = "body" /\ task' = next[task]
      /\ scheduler_' = (scheduler_ \ {task}) \cup {next[task]}
      /\ next' = [next EXCEPT ![task] = None]
  BY DEF HandBack, kernelVars
<1>2. task \in Task /\ ~Queued(task) /\ next[task] # None
  BY <1>1 DEF IInv, RunnerOK, HandBackOK
<1>3. /\ next[task] \in Task /\ ~Queued(next[task]) /\ state[next[task]] = "active"
      /\ \A t \in Task : t # task => next[t] # next[task]
  BY <1>2 DEF IInv, TypeOK, ChainOK
<1>4. TypeOK'
  BY <1>1, <1>2, <1>3 DEF IInv, TypeOK
<1>5. next'[task] = None /\ \A t \in Task : t # task => next'[t] = next[t]
  BY <1>1, <1>2 DEF IInv, TypeOK
<1>6. RunnerOK' /\ HandBackOK' /\ BodyOK'
  BY <1>1, <1>3, <1>5, NoneFacts DEF RunnerOK, HandBackOK, BodyOK, Queued
<1>7. HeapOK'
  BY <1>1, <1>2 DEF IInv, HeapOK, Queued
<1>8. ChainOK'
  BY <1>1, <1>5 DEF IInv, ChainOK, Queued
<1> QED
  BY <1>4, <1>6, <1>7, <1>8 DEF IInv

-----------------------------------------------------------------------------
(* A body that suspends or ends: nobody awaits the timer that runs.        *)
LEMMA BodyAwaitsIInv == ASSUME IInv, NEW d \in Delays, BodyAwaits(d) PROVE IInv'
<1>1. /\ UNCHANGED <<now, armed, pending, running, state, next, scheduler_, task, caller>>
      /\ pc = "body" /\ due' = [due EXCEPT ![task] = now + d]
      /\ wait' \in {d, wait} /\ pc' \in {"settime", "main", "check"}
  BY DEF BodyAwaits, BackToCaller, kernelVars, chainVars
<1>2. /\ task \in Task /\ state[task] = "active" /\ task \in scheduler_
      /\ \A t \in Task : next[t] # task
  BY <1>1 DEF IInv, RunnerOK, BodyOK
<1>3. now + d \in Nat /\ d \in Nat
  BY DelayAssumption DEF IInv, TypeOK
<1>4. TypeOK'
  BY <1>1, <1>2, <1>3 DEF IInv, TypeOK
<1>5. \A t \in Task : t # task => due'[t] = due[t]
  BY <1>1 DEF IInv, TypeOK
<1>6. RunnerOK' /\ BodyOK' /\ HandBackOK'
  BY <1>1 DEF RunnerOK, BodyOK, HandBackOK
<1>7. HeapOK'
  BY <1>1, <1>2, <1>5 DEF IInv, HeapOK, Queued
<1>8. ChainOK'
  BY <1>1, <1>2, <1>5 DEF IInv, TypeOK, ChainOK, Queued
<1> QED
  BY <1>4, <1>6, <1>7, <1>8 DEF IInv

LEMMA BodyEndsIInv == IInv /\ (BodyReturns \/ BodyThrows) => IInv'
<1> SUFFICES ASSUME IInv, BodyReturns \/ BodyThrows PROVE IInv'
  OBVIOUS
<1>1. /\ UNCHANGED <<now, armed, pending, running, due, next, task, caller, wait>>
      /\ pc = "body" /\ pc' \in {"main", "wait", "check", "handback"}
      /\ pc' = "handback" => next[task] # None
      /\ scheduler_' \in {scheduler_, scheduler_ \ {task}}
  BY DEF BodyReturns, BodyThrows, BackToCaller, kernelVars
<1>2. PICK end \in {"returned", "threw"} : state' = [state EXCEPT ![task] = end]
  BY DEF BodyReturns, BodyThrows
<1>3. task \in Task /\ ~Queued(task) /\ \A t \in Task : next[t] # task
  BY <1>1 DEF IInv, RunnerOK, BodyOK
<1>4. TypeOK'
  BY <1>1, <1>2 DEF IInv, TypeOK
<1>5. \A t \in Task : t # task => state'[t] = state[t]
  BY <1>2 DEF IInv, TypeOK
<1>6. RunnerOK' /\ BodyOK' /\ HandBackOK'
  BY <1>1, <1>3 DEF RunnerOK, BodyOK, HandBackOK, Queued
<1>7. HeapOK'
  BY <1>1, <1>3, <1>5 DEF IInv, HeapOK, Queued
<1>8. ChainOK'
  BY <1>1, <1>3, <1>5 DEF IInv, TypeOK, ChainOK, Queued
<1> QED
  BY <1>4, <1>6, <1>7, <1>8 DEF IInv

-----------------------------------------------------------------------------
LEMMA NextIInv == IInv /\ [Next]_vars => IInv'
<1> SUFFICES ASSUME IInv, [Next]_vars PROVE IInv'
  OBVIOUS
<1>1. CASE Idle
  BY <1>1, IdleIInv
<1>2. CASE \E t \in Task : Add(t) \/ BodyCalls(t) \/ PopAndResume(t)
  BY <1>2, AddIInv, BodyCallsIInv, PopAndResumeIInv
<1>3. CASE \E d \in Delays : BodyAwaits(d)
  BY <1>3, BodyAwaitsIInv
<1>4. CASE HandBack
  BY <1>4, HandBackIInv
<1>5. CASE BodyReturns \/ BodyThrows
  BY <1>5, BodyEndsIInv
<1>6. CASE UNCHANGED vars
  BY <1>6 DEF vars, kernelVars, chainVars, IInv, TypeOK, RunnerOK, BodyOK, HandBackOK,
              HeapOK, ChainOK, Queued
<1> QED
  BY <1>1, <1>2, <1>3, <1>4, <1>5, <1>6 DEF Next, Thread, Idle

(* The invariant holds of every execution.                                 *)
THEOREM InvariantHolds == Spec => []IInv
<1>1. Init => IInv
  BY InitIInv
<1>2. IInv /\ [Next]_vars => IInv'
  BY NextIInv
<1> QED
  BY <1>1, <1>2, PTL DEF Spec

(* Every variable keeps its type; no duration that is passed to            *)
(* timer_settime() is negative.                                            *)
THEOREM TypeCorrect == Spec => []TypeOK
<1>1. IInv => TypeOK
  BY DEF IInv
<1> QED
  BY <1>1, InvariantHolds, PTL

(* The scheduler is handed down a chain of timers and back up: whichever   *)
(* timer runs has it, and assert(scheduler_ != nullptr) holds.             *)
THEOREM SchedulerAlwaysHeld == Spec => []SchedulerHeld
<1>1. IInv => SchedulerHeld
  BY DEF IInv, BodyOK, SchedulerHeld
<1> QED
  BY <1>1, InvariantHolds, PTL

(* A timer that awaits another one is not in the heap, and nobody else     *)
(* awaits that one: a timer is resumed by one party only.                  *)
THEOREM ResumedByOne ==
    Spec => [](\A t \in Task : next[t] # None =>
                   ~Queued(next[t]) /\ \A u \in Task : next[u] = next[t] => u = t)
<1>1. IInv => \A t \in Task : next[t] # None =>
                  ~Queued(next[t]) /\ \A u \in Task : next[u] = next[t] => u = t
  BY DEF IInv, ChainOK
<1> QED
  BY <1>1, InvariantHolds, PTL

(* After stop() no timer leaves the heap: the manager tests running before *)
(* each pop, and a body that awaits was not in the heap.                   *)
THEOREM StopPopsNothing == Spec => StoppedPopsNothing
<1> DEFINE Stays == ~running => \A t \in Task : Queued(t) => due'[t] = due[t]
<1>1. IInv /\ [Next]_vars => [Stays]_vars
  <2> SUFFICES ASSUME IInv, Next, ~running, NEW t \in Task, Queued(t)
               PROVE  due'[t] = due[t]
    OBVIOUS
  <2>1. CASE \E d \in Delays : BodyAwaits(d)
    <3>1. t # task /\ \E d \in Nat : due' = [due EXCEPT ![task] = now + d]
      BY <2>1, DelayAssumption DEF BodyAwaits, IInv, RunnerOK
    <3> QED
      BY <3>1 DEF IInv, TypeOK
  <2>2. CASE ~ \E d \in Delays : BodyAwaits(d)
    <3>1. due' = due
      BY <2>2 DEF Next, Thread, Tick, Expire, Add, RunScheduler, BodyCalls, ScheduleInsert,
                  BodyReturns, HandBack, BodyThrows, BodyStops, ReadSignal, CheckStopped,
                  CheckEmpty, Rearm, PopAndResume, CheckLater
    <3> QED
      BY <3>1
  <2> QED
    BY <2>1, <2>2
<1> QED
  BY <1>1, InvariantHolds, PTL DEF Spec, StoppedPopsNothing

-----------------------------------------------------------------------------
(* The wake-up.                                                            *)

LEMMA SetTimerArms ==
    ASSUME now \in Nat, wait \in Nat, wait > 0, SetTimer(wait)
    PROVE  armed' # None
  BY DelayAssumption DEF SetTimer

LEMMA NextServed ==
    ASSUME 0 \notin Delays, IInv, Served, [Next]_vars
    PROVE  Served'
<1>0. now \in Nat /\ wait \in Nat
  BY DEF IInv, TypeOK
<1>1. CASE \/ UNCHANGED vars \/ Tick \/ BodyStops \/ RunScheduler \/ HandBack
           \/ \E t \in Task : Add(t) \/ BodyCalls(t)
  <2>1. /\ UNCHANGED <<armed, due, wait>> /\ (pending => pending')
        /\ pc' \in {"settime", "rearm"} => pc' = pc
        /\ pc' \in {"main", "wait"} => pc \in {"main", "wait"}
        /\ pc' \in {"body", "handback"} /\ caller' = "main" =>
              pc = "main" \/ (pc \in {"body", "handback"} /\ caller = "main")
    BY <1>1 DEF Tick, BodyStops, RunScheduler, HandBack, Add, BodyCalls, vars, kernelVars
  <2> QED
    BY <2>1 DEF Served, Empty, Queued
<1>2. CASE Expire
  BY <1>2 DEF Expire, Served
<1>3. CASE \E d \in Delays : BodyAwaits(d)
  <2>1. PICK d \in Delays : BodyAwaits(d)
    BY <1>3
  <2>2. CASE ScheduleMe(now + d)
    <3>1. pc' = "settime" /\ wait' = d
      BY <2>1, <2>2 DEF BodyAwaits
    <3>2. d > 0
      BY DelayAssumption
    <3> QED
      BY <3>1, <3>2 DEF Served
  <2>3. CASE ~ScheduleMe(now + d)
    <3>1. ~Empty
      BY <2>3 DEF ScheduleMe, Empty
    <3>2. /\ UNCHANGED <<armed, pending, caller>> /\ pc = "body"
          /\ pc' = IF caller = "main" THEN "main" ELSE "check"
      BY <2>1, <2>3 DEF BodyAwaits, BackToCaller, kernelVars
    <3> QED
      BY <3>1, <3>2 DEF Served
  <2> QED
    BY <2>2, <2>3
<1>4. CASE ScheduleInsert \/ Rearm
  <2>1. /\ armed' # None
        /\ pc' \in {"main", "wait", "check"}
    BY <1>0, <1>4, SetTimerArms DEF ScheduleInsert, Rearm, BackToCaller, Served
  <2> QED
    BY <2>1 DEF Served
<1>5. CASE BodyReturns \/ BodyThrows
  <2>1. /\ UNCHANGED <<armed, pending, due, caller>> /\ pc = "body"
        /\ pc' \in {"main", "wait", "check", "handback"}
        /\ pc' \in {"main", "handback"} /\ caller = "loop" => pc' = "handback"
        /\ pc' = "wait" => Empty
    BY <1>5 DEF BodyReturns, BodyThrows, BackToCaller, kernelVars
  <2>2. caller \in {"main", "loop"}
    BY DEF IInv, TypeOK
  <2> QED
    BY <2>1, <2>2 DEF Served, Empty, Queued
<1>6. CASE ReadSignal \/ CheckStopped \/ CheckEmpty
  BY <1>6 DEF ReadSignal, CheckStopped, CheckEmpty, Served
<1>7. CASE \E t \in Task : PopAndResume(t)
  BY <1>7 DEF PopAndResume, Served
<1>8. CASE \E t \in Task : CheckLater(t)
  <2>1. PICK t \in Task : /\ Queued(t) /\ due[t] > now
                          /\ wait' = due[t] - now /\ pc' = "rearm"
    BY <1>8 DEF CheckLater, Front
  <2>2. due[t] \in Nat
    BY <2>1 DEF Queued, IInv, TypeOK
  <2>3. wait' > 0
    BY <1>0, <2>1, <2>2
  <2> QED
    BY <2>1, <2>3 DEF Served
<1> QED
  BY <1>1, <1>2, <1>3, <1>4, <1>5, <1>6, <1>7, <1>8 DEF Next, Thread

(* Unless a timer awaits a duration of zero, which disarms the timer, the  *)
(* thread never blocks with timers in the heap and no wake-up on its way.  *)
THEOREM WakeupAlwaysScheduled ==
    ASSUME 0 \notin Delays
    PROVE  Spec => []WakeupScheduled
<1>1. Init => Served
  BY DEF Init, Served, Empty, Queued
<1>2. IInv /\ Served /\ [Next]_vars => Served'
  BY NextServed
<1>3. Served => WakeupScheduled
  BY DEF Served, WakeupScheduled
<1> QED
  BY <1>1, <1>2, <1>3, InvariantHolds, PTL DEF Spec
=============================================================================
