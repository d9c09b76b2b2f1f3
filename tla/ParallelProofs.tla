--------------------------- MODULE ParallelProofs ---------------------------
(***************************************************************************)
(* Proofs about parallel<N, Result> and its two clients: for any number of *)
(* workers, the results are all there before anything is freed, a worker   *)
(* resumes a suspended coroutine only, and the object is a fork/join.      *)
(***************************************************************************)
EXTENDS ParallelDemo, TLAPS

(***************************************************************************)
(* The inductive invariant.  What both clients wait for is that the last   *)
(* result is stored; the two mutex-protected questions, "are all there?"   *)
(* of attach() and "is a continuation there?" of push(), are asked in one  *)
(* order or the other, so that exactly one of the two goes on.             *)
(***************************************************************************)

\* A worker is past its critical section exactly when its result is there.
StoredOnce == \A w \in Worker : w \in results <=> wpc[w] \notin {"compute", "push"}

\* The mutex is kept by the worker that resumes the client, and nobody else.
LockKept == \A w \in Worker : wpc[w] \in {"resume", "unlock"} => owner = w

\* While a result is missing, a continuation belongs to a suspended client.
ContinuationWaits == continuation /\ ~AllStored => cpc = "suspended"

ClientKnows == cpc \in {"go", "gone"} => AllStored

FreedByClient == ~alive => cpc \in {"go", "gone"}

\* The coroutine is past its co_await, and main() behind the coroutine.
CoroutineKnows ==
    /\ coro # "body" => cpc \in {"go", "gone"} /\ result_ = Worker
    /\ signal_done_ = 1 => coro # "body"

MainFollows ==
    /\ main # "acquire" => coro # "body"
    /\ ~frame => main = "ended"

IInv == /\ DemoTypeOK /\ StoredOnce /\ LockKept /\ ContinuationWaits
        /\ ClientKnows /\ FreedByClient /\ ResumesSuspended
        /\ CoroutineKnows /\ MainFollows

LEMMA InitIInv == DemoInit => IInv
<1> SUFFICES ASSUME DemoInit PROVE IInv
  OBVIOUS
<1>1. DemoTypeOK
  <2>1. TypeOK
    BY DEF DemoInit, Init, TypeOK
  <2>2. signal_done_ \in 0..1
    BY DEF DemoInit
  <2> QED
    BY <2>1, <2>2 DEF DemoInit, DemoTypeOK
<1>2. StoredOnce /\ LockKept /\ ResumesSuspended
  BY DEF DemoInit, Init, StoredOnce, LockKept, ResumesSuspended
<1>3. ContinuationWaits /\ ClientKnows /\ FreedByClient /\ CoroutineKnows /\ MainFollows
  BY DEF DemoInit, Init, ContinuationWaits, ClientKnows, FreedByClient, CoroutineKnows,
         MainFollows
<1> QED
  BY <1>1, <1>2, <1>3 DEF IInv

-----------------------------------------------------------------------------
(* The workers.                                                            *)

(* Where a step of one worker leaves every worker.                         *)
LEMMA GoesElsewhere ==
    ASSUME TypeOK, NEW w \in Worker, NEW from, NEW to, Goes(w, from, to),
           to \in {"compute", "push", "resume", "unlock", "notify", "exit"}
    PROVE  /\ wpc' \in [Worker -> {"compute", "push", "resume", "unlock", "notify", "exit"}]
           /\ wpc[w] = from /\ wpc'[w] = to
           /\ \A v \in Worker : v # w => wpc'[v] = wpc[v]
  BY DEF TypeOK, Goes

(* A critical section of a worker: its own result is new, and nobody else  *)
(* holds the mutex.                                                        *)
LEMMA PushIInv ==
    ASSUME IInv, NEW w \in Worker, Push(w), UNCHANGED demoVars
    PROVE  IInv'
<1> USE DEF IInv
<1>1. PICK to \in {"resume", "notify"} :
          /\ Goes(w, "push", to)
          /\ to = "resume" => continuation /\ results' = Worker /\ owner' = w
          /\ to = "notify" => owner' = owner
  BY DEF Push
<1>2. /\ wpc[w] = "push" /\ wpc'[w] = to
      /\ wpc' \in [Worker -> {"compute", "push", "resume", "unlock", "notify", "exit"}]
      /\ \A v \in Worker : v # w => wpc'[v] = wpc[v]
  BY <1>1, GoesElsewhere DEF DemoTypeOK
<1>3. /\ owner = Nobody /\ results' = results \cup {w}
      /\ UNCHANGED <<mode, cpc, continuation, alive>> /\ crashed' \in BOOLEAN
  BY DEF Push, MutexFree, Touch
<1>4. w \notin results /\ ~AllStored
  BY <1>2 DEF StoredOnce, AllStored
<1>5. \A v \in Worker : wpc[v] \notin {"resume", "unlock"}
  BY <1>3, WorkerAssumption DEF LockKept
<1>6. DemoTypeOK'
  BY <1>1, <1>2, <1>3 DEF DemoTypeOK, TypeOK, demoVars
<1>7. StoredOnce'
  BY <1>2, <1>3 DEF StoredOnce
<1>8. LockKept'
  BY <1>1, <1>2, <1>5 DEF LockKept
<1>9. cpc \notin {"go", "gone"} /\ alive /\ coro = "body"
  BY <1>4 DEF ClientKnows, FreedByClient, CoroutineKnows, DemoTypeOK, TypeOK
<1>10. ContinuationWaits'
  BY <1>3, <1>4 DEF ContinuationWaits, AllStored
<1>11. ResumesSuspended'
  BY <1>1, <1>2, <1>3, <1>4, <1>5 DEF ResumesSuspended, ContinuationWaits, AllStored
<1>12. ClientKnows' /\ FreedByClient'
  BY <1>3, <1>9 DEF ClientKnows, FreedByClient
<1>13. CoroutineKnows' /\ MainFollows'
  BY <1>3, <1>9 DEF CoroutineKnows, MainFollows, demoVars
<1> QED
  BY <1>6, <1>7, <1>8, <1>10, <1>11, <1>12, <1>13

(* The worker that resumes the client holds the mutex, and is the only one *)
(* that does.                                                              *)
LEMMA ResumeIInv ==
    ASSUME IInv, NEW w \in Worker, Resume(w), UNCHANGED demoVars
    PROVE  IInv'
<1> USE DEF IInv
<1>1. /\ wpc[w] = "resume" /\ wpc'[w] = "unlock"
      /\ wpc' \in [Worker -> {"compute", "push", "resume", "unlock", "notify", "exit"}]
      /\ \A v \in Worker : v # w => wpc'[v] = wpc[v]
  BY GoesElsewhere DEF Resume, DemoTypeOK
<1>2. cpc = "suspended" /\ AllStored /\ owner = w
  BY <1>1 DEF ResumesSuspended, LockKept
<1>3. cpc' = "go" /\ UNCHANGED <<mode, owner, results, continuation, alive, crashed>>
  BY DEF Resume
<1>4. \A v \in Worker : wpc'[v] # "resume"
  BY <1>1, <1>2 DEF LockKept
<1>5. alive /\ coro = "body"
  BY <1>2 DEF FreedByClient, CoroutineKnows, DemoTypeOK, TypeOK
<1>6. DemoTypeOK'
  BY <1>1, <1>3 DEF DemoTypeOK, TypeOK, demoVars
<1>7. StoredOnce' /\ LockKept'
  BY <1>1, <1>3 DEF StoredOnce, LockKept
<1>8. ContinuationWaits' /\ ClientKnows' /\ FreedByClient' /\ ResumesSuspended'
  BY <1>2, <1>3, <1>4 DEF ContinuationWaits, ClientKnows, FreedByClient, ResumesSuspended,
                          AllStored
<1>9. CoroutineKnows' /\ MainFollows'
  BY <1>5 DEF CoroutineKnows, MainFollows, demoVars
<1> QED
  BY <1>6, <1>7, <1>8, <1>9

(* Unlocking, notifying and computing do not concern the client's state,   *)
(* but for the wake-up of a sleeping one.                                  *)
LEMMA OtherWorkIInv ==
    ASSUME IInv, NEW w \in Worker, Compute(w) \/ UnlockAfterResume(w) \/ Notify(w),
           UNCHANGED demoVars
    PROVE  IInv'
<1> USE DEF IInv
<1>1. PICK from \in {"compute", "unlock", "notify"}, to \in {"push", "exit"} :
          /\ Goes(w, from, to)
          /\ from = "compute" <=> to = "push"
          /\ from # "unlock" => owner' = owner
          /\ from = "unlock" => owner' = Nobody
  BY DEF Compute, UnlockAfterResume, Notify
<1>2. /\ wpc[w] = from /\ wpc'[w] = to
      /\ wpc' \in [Worker -> {"compute", "push", "resume", "unlock", "notify", "exit"}]
      /\ \A v \in Worker : v # w => wpc'[v] = wpc[v]
  BY <1>1, GoesElsewhere DEF DemoTypeOK
<1>3. /\ UNCHANGED <<mode, results, continuation, alive>> /\ crashed' \in BOOLEAN
      /\ cpc' # cpc => cpc = "asleep" /\ cpc' = "waking"
  BY DEF Compute, UnlockAfterResume, Notify, Touch, DemoTypeOK, TypeOK
<1>4. DemoTypeOK'
  BY <1>1, <1>2, <1>3 DEF DemoTypeOK, TypeOK, demoVars
<1>5. StoredOnce'
  BY <1>1, <1>2, <1>3 DEF StoredOnce
<1>6. LockKept'
  BY <1>1, <1>2 DEF LockKept
<1>7. ContinuationWaits' /\ ClientKnows' /\ FreedByClient'
  BY <1>3 DEF ContinuationWaits, ClientKnows, FreedByClient, AllStored
<1>8. ResumesSuspended'
  BY <1>1, <1>2, <1>3 DEF ResumesSuspended, AllStored
<1>9. CoroutineKnows' /\ MainFollows'
  BY <1>3 DEF CoroutineKnows, MainFollows, demoVars
<1> QED
  BY <1>4, <1>5, <1>6, <1>7, <1>8, <1>9

-----------------------------------------------------------------------------
(* The clients.                                                            *)

(* A client that looks under the lock, or sleeps, touches cpc and its      *)
(* continuation alone.                                                     *)
LEMMA WaitingIInv ==
    ASSUME IInv, Join \/ SpuriousWakeup \/ AwaitReady \/ Attach, UNCHANGED demoVars
    PROVE  IInv'
<1> USE DEF IInv
<1>1. UNCHANGED <<mode, wpc, owner, results, alive, crashed>>
  BY DEF Join, SpuriousWakeup, AwaitReady, Attach
<1>2. /\ cpc \in {"start", "waking", "asleep", "attach"}
      /\ cpc' \in {"go", "asleep", "waking", "attach", "suspended"}
      /\ cpc' = "go" => AllStored
      /\ continuation' \in BOOLEAN
      /\ continuation' => continuation \/ cpc' = "suspended"
  BY DEF Join, SpuriousWakeup, AwaitReady, Attach, DemoTypeOK, TypeOK
<1>3. DemoTypeOK' /\ StoredOnce' /\ LockKept'
  BY <1>1, <1>2 DEF DemoTypeOK, TypeOK, demoVars, StoredOnce, LockKept
<1>4. ContinuationWaits' /\ ClientKnows' /\ FreedByClient'
  BY <1>1, <1>2 DEF ContinuationWaits, ClientKnows, FreedByClient, AllStored
<1>5. ResumesSuspended'
  BY <1>1, <1>2 DEF ResumesSuspended
<1>6. CoroutineKnows' /\ MainFollows'
  BY <1>2 DEF CoroutineKnows, MainFollows, demoVars
<1> QED
  BY <1>3, <1>4, <1>5, <1>6

(* A client that goes on, runs to its end and frees the object: all the    *)
(* results are there, and no worker is about to resume it.                 *)
LEMMA GoneIInv ==
    ASSUME IInv, cpc \in {"go", "gone"}, cpc' \in {cpc, "gone"},
           UNCHANGED <<mode, wpc, owner, results, continuation>>,
           alive' \in {alive, FALSE}, crashed' \in BOOLEAN,
           DemoTypeOK', CoroutineKnows', MainFollows'
    PROVE  IInv'
  BY DEF IInv, StoredOnce, LockKept, ContinuationWaits, ClientKnows, FreedByClient,
         ResumesSuspended, AllStored

LEMMA CoroutineIInv ==
    ASSUME IInv, return_value \/ Unwind \/ FinalSuspend
    PROVE  IInv'
<1> USE DEF IInv
<1>1. cpc \in {"go", "gone"} /\ cpc' \in {cpc, "gone"}
  BY DEF return_value, Unwind, FinalSuspend, Runs, CoroutineKnows
<1>2. /\ UNCHANGED <<mode, wpc, owner, results, continuation, main, frame>>
      /\ alive' \in {alive, FALSE} /\ crashed' \in BOOLEAN
  BY DEF return_value, Unwind, FinalSuspend, Runs
<1>3. coro' \in {"returned", "unwound", "final"} /\ result_' = Worker
  BY <1>1 DEF return_value, Unwind, FinalSuspend, Runs, CoroutineKnows, ClientKnows, AllStored
<1>4. signal_done_' \in {signal_done_, 1}
  BY DEF return_value, Unwind, FinalSuspend
<1>5. DemoTypeOK'
  <2>1. alive' \in BOOLEAN /\ result_' \subseteq Worker
    BY <1>3 DEF return_value, Unwind, FinalSuspend, DemoTypeOK, TypeOK
  <2>2. signal_done_' \in 0..1
    BY <1>4 DEF DemoTypeOK
  <2> QED
    BY <1>1, <1>2, <1>3, <2>1, <2>2 DEF DemoTypeOK, TypeOK
<1>6. CoroutineKnows' /\ MainFollows'
  BY <1>1, <1>2, <1>3 DEF CoroutineKnows, MainFollows
<1> QED
  BY <1>1, <1>2, <1>5, <1>6, GoneIInv

(* The joining thread destroys its object on its way out.                  *)
LEMMA DestroyIInv ==
    ASSUME IInv, Destroy, UNCHANGED demoVars
    PROVE  IInv'
<1> USE DEF IInv
<1>1. DemoTypeOK'
  BY DEF DemoTypeOK, TypeOK, Destroy, demoVars
<1>2. CoroutineKnows' /\ MainFollows'
  BY DEF Destroy, CoroutineKnows, MainFollows, demoVars
<1> QED
  BY <1>1, <1>2, GoneIInv DEF Destroy, DemoTypeOK, TypeOK

(* main() is released by return_value(), hence after the last result.      *)
LEMMA MainIInv ==
    ASSUME IInv, Main
    PROVE  IInv'
<1> USE DEF IInv
<1>1. coro # "body"
  BY DEF Main, result, DestroyCoro, CoroutineKnows, MainFollows
<1>2. UNCHANGED <<mode, wpc, cpc, owner, results, continuation, coro, result_>>
  BY DEF Main, result, DestroyCoro, vars
<1>3. /\ alive' \in {alive, FALSE} /\ crashed' \in BOOLEAN
      /\ frame' \in BOOLEAN /\ signal_done_' \in {signal_done_, 0}
      /\ main' \in {"destroy", "ended"} /\ (~frame' => main' = "ended")
  BY DEF Main, result, DestroyCoro, vars, DemoTypeOK, TypeOK, MainFollows
<1>4. cpc \in {"go", "gone"} /\ result_ = Worker
  BY <1>1 DEF CoroutineKnows
<1>5. DemoTypeOK'
  <2>1. alive' \in BOOLEAN
    BY DEF Main, result, DestroyCoro, vars, DemoTypeOK, TypeOK
  <2>2. signal_done_' \in 0..1
    BY <1>3 DEF DemoTypeOK
  <2> QED
    BY <1>2, <1>3, <2>1, <2>2 DEF DemoTypeOK, TypeOK
<1>6. CoroutineKnows' /\ MainFollows'
  BY <1>1, <1>2, <1>3, <1>4 DEF CoroutineKnows, MainFollows
<1> QED
  BY <1>2, <1>3, <1>4, <1>5, <1>6, GoneIInv

-----------------------------------------------------------------------------
LEMMA NextIInv == IInv /\ [DemoNext]_allVars => IInv'
<1> SUFFICES ASSUME IInv, [DemoNext]_allVars PROVE IInv'
  OBVIOUS
<1>1. ASSUME NEW w \in Worker, Work(w) PROVE IInv'
  BY <1>1, PushIInv, ResumeIInv, OtherWorkIInv DEF Work, WorkerStep
<1>2. CASE JoiningThread
  BY <1>2, WaitingIInv, DestroyIInv DEF JoiningThread
<1>3. CASE Coroutine
  BY <1>3, WaitingIInv, CoroutineIInv DEF Coroutine, Await
<1>4. CASE Main
  BY <1>4, MainIInv
<1>5. CASE SpuriousWakeup /\ UNCHANGED demoVars
  BY <1>5, WaitingIInv
<1>6. CASE UNCHANGED allVars
  BY <1>6 DEF allVars, vars, demoVars, IInv, DemoTypeOK, TypeOK, StoredOnce, LockKept,
              ContinuationWaits, ClientKnows, FreedByClient, ResumesSuspended,
              CoroutineKnows, MainFollows, AllStored
<1> QED
  BY <1>1, <1>2, <1>3, <1>4, <1>5, <1>6 DEF DemoNext

(* The invariant holds for every number of workers.                        *)
THEOREM InvariantHolds == DemoSpec => []IInv
<1>1. DemoInit => IInv
  BY InitIInv
<1>2. IInv /\ [DemoNext]_allVars => IInv'
  BY NextIInv
<1> QED
  BY <1>1, <1>2, PTL DEF DemoSpec

(* Every variable keeps its type; the semaphore of the promise stays       *)
(* binary, that is, release() is called once.                              *)
THEOREM TypeCorrect == DemoSpec => []DemoTypeOK
<1>1. IInv => DemoTypeOK
  BY DEF IInv
<1> QED
  BY <1>1, InvariantHolds, PTL

(* Whether it is joined or awaited, impl_ is freed only when every worker  *)
(* has stored its result: no result is lost to a freed object.  The last   *)
(* access of a worker may still come after: the unlock of the mutex it has *)
(* resumed the client with, or its notification of the condition variable. *)
THEOREM FreedLate == DemoSpec => []FreedAfterAllStored
<1>1. IInv => FreedAfterAllStored
  <2> SUFFICES ASSUME IInv, ~alive, NEW w \in Worker
               PROVE  w \in results /\ wpc[w] \in {"unlock", "notify", "exit"}
    BY DEF FreedAfterAllStored
  <2>1. cpc \in {"go", "gone"} /\ results = Worker
    BY DEF IInv, FreedByClient, ClientKnows, AllStored
  <2>2. wpc[w] \notin {"compute", "push", "resume"}
    BY <2>1 DEF IInv, StoredOnce, ResumesSuspended
  <2> QED
    BY <2>1, <2>2 DEF IInv, DemoTypeOK, TypeOK
<1> QED
  BY <1>1, InvariantHolds, PTL

(* push() resumes a coroutine that attach() has suspended, with all the    *)
(* results there.                                                          *)
THEOREM ResumedWhenSuspended == DemoSpec => []ResumesSuspended
<1>1. IInv => ResumesSuspended
  BY DEF IInv
<1> QED
  BY <1>1, InvariantHolds, PTL

(* main() reads the sum of all the results, and frees the frame when no    *)
(* worker may resume it any more.                                          *)
THEOREM MainIsLast == DemoSpec => []MainWaits
<1>1. IInv => MainWaits
  BY DEF IInv, MainWaits, CoroutineKnows, MainFollows, ResumesSuspended
<1> QED
  BY <1>1, InvariantHolds, PTL

-----------------------------------------------------------------------------
(* Refinement of ForkJoin.                                                 *)
client == IF cpc \in {"go", "gone"} THEN "released" ELSE "waiting"

(* push() is the only step that finishes a worker; the client is released  *)
(* by a step of its own, or of the worker that resumes it, and never       *)
(* before the last result.                                                 *)
LEMMA StepImplements ==
    IInv /\ IInv' /\ [DemoNext]_allVars => [FJ!Next]_<<results, client>>
<1> SUFFICES ASSUME IInv, IInv', [DemoNext]_allVars,
                    ~ UNCHANGED <<results, client>>
             PROVE  FJ!Next
  OBVIOUS
<1>1. CASE results' # results
  <2>1. PICK w \in Worker : Push(w)
    BY <1>1 DEF DemoNext, Work, WorkerStep, JoiningThread, Coroutine, Main, Compute, Resume,
                UnlockAfterResume, Notify, Join, Destroy, Await, AwaitReady, Attach, return_value,
                Unwind, FinalSuspend, result, DestroyCoro, SpuriousWakeup, allVars, vars
  <2>2. wpc[w] = "push" /\ results' = results \cup {w} /\ UNCHANGED cpc
    BY <2>1 DEF Push, Goes
  <2>3. w \notin results
    BY <2>2 DEF IInv, StoredOnce
  <2> QED
    BY <2>2, <2>3 DEF FJ!Next, FJ!Finish
<1>2. CASE results' = results
  <2>1. cpc \in {"go", "gone"} => cpc' \in {"go", "gone"}
    BY DEF DemoNext, Work, WorkerStep, JoiningThread, Coroutine, Main, Compute, Push, Resume,
           UnlockAfterResume, Notify, Join, Destroy, Await, AwaitReady, Attach, return_value,
           Unwind, FinalSuspend, result, DestroyCoro, SpuriousWakeup, allVars, vars
  <2>2. cpc \notin {"go", "gone"} /\ cpc' \in {"go", "gone"}
    BY <1>2, <2>1 DEF client
  <2>3. results = Worker
    BY <1>2, <2>2 DEF IInv, ClientKnows, AllStored
  <2> QED
    BY <1>2, <2>2, <2>3 DEF FJ!Next, FJ!Release
<1> QED
  BY <1>1, <1>2

(* The object is a fork/join as far as safety goes: each function's result *)
(* is stored once, and the client goes on once, after the last of them.    *)
THEOREM ImplementsForkJoinSafety ==
    DemoSpec => FJ!Init /\ [][FJ!Next]_<<results, client>>
<1>1. DemoInit => FJ!Init
  BY DEF DemoInit, Init, FJ!Init
<1>2. IInv /\ IInv' /\ [DemoNext]_allVars => [FJ!Next]_<<results, client>>
  BY StepImplements
<1> QED
  BY <1>1, <1>2, InvariantHolds, PTL DEF DemoSpec
=============================================================================
