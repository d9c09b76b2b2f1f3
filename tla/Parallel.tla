------------------------------ MODULE Parallel ------------------------------
(***************************************************************************)
(* parallel<N, Result> of threaded_task.hpp.  The constructor starts N     *)
(* detached threads, each of which stores its result under a mutex.  One   *)
(* client waits for all of them: a thread in join(), or a coroutine that   *)
(* co_awaits the object and is resumed by the last worker, on the worker's *)
(* thread and with the mutex held.  The client then destroys the object,   *)
(* and with it the mutex and the condition variable the workers point to.  *)
(*                                                                         *)
(* A critical section that neither blocks nor calls out is one action,     *)
(* enabled while nobody owns the mutex.  ParallelDemo composes the actions *)
(* with the two clients of the repository.                                 *)
(***************************************************************************)
CONSTANTS Worker,  \* the N threads
          Nobody   \* the mutex is free

ASSUME WorkerAssumption == Worker # {} /\ Nobody \notin Worker

VARIABLES mode,          \* how the client waits: "join" or "await"
          wpc,           \* what each worker does
          cpc,           \* what the client does
          owner,         \* owner of mutex_
          results,       \* workers whose result is in results_
          continuation,  \* continuation_ is set
          alive,         \* impl_ has not been freed
          crashed        \* the process died of an access to freed memory

vars == <<mode, wpc, cpc, owner, results, continuation, alive, crashed>>

TypeOK ==
    /\ mode \in {"join", "await"}
    /\ wpc \in [Worker -> {"compute", "push", "resume", "unlock", "notify", "exit"}]
    /\ cpc \in {"start", "asleep", "waking", "attach", "suspended", "go", "gone"}
    /\ owner \in Worker \cup {Nobody}
    /\ results \subseteq Worker
    /\ continuation \in BOOLEAN /\ alive \in BOOLEAN /\ crashed \in BOOLEAN

Init ==
    /\ mode \in {"join", "await"}
    /\ wpc = [w \in Worker |-> "compute"]
    /\ cpc = "start"
    /\ owner = Nobody
    /\ results = {}
    /\ continuation = FALSE /\ alive = TRUE /\ crashed = FALSE

AllStored == results = Worker  \* results_.size() == N

MutexFree == owner = Nobody

\* What an access to a freed impl_ may do: nothing visible, or a crash.
Touch == crashed' \in IF alive THEN {FALSE} ELSE {FALSE, TRUE}

Goes(w, from, to) == wpc[w] = from /\ wpc' = [wpc EXCEPT ![w] = to]

-----------------------------------------------------------------------------
(* The thread of spawn_().                                                 *)
Compute(w) ==
    /\ Goes(w, "compute", "push")
    /\ UNCHANGED <<mode, cpc, owner, results, continuation, alive, crashed>>

\* Lock, emplace_back, and unlock; or keep the lock to resume the client.
PushOwner(w) ==  \* mutant: the result is stored before the lock is taken
    /\ MutexFree
    /\ Touch
    /\ results' = results \cup {owner}
    /\ IF continuation /\ results' = Worker
       THEN Goes(w, "push", "resume") /\ owner' = w
       ELSE Goes(w, "push", "notify") /\ UNCHANGED owner
    /\ UNCHANGED <<mode, cpc, continuation, alive>>

PushResumesAnyway(w) ==  \* mutant: the number of results is not looked at
    /\ MutexFree
    /\ Touch
    /\ results' = results \cup {w}
    /\ IF continuation
       THEN Goes(w, "push", "resume") /\ owner' = w
       ELSE Goes(w, "push", "notify") /\ UNCHANGED owner
    /\ UNCHANGED <<mode, cpc, continuation, alive>>

Push(w) ==
    /\ MutexFree
    /\ Touch
    /\ results' = results \cup {w}
    /\ IF continuation /\ results' = Worker
       THEN Goes(w, "push", "resume") /\ owner' = w
       ELSE Goes(w, "push", "notify") /\ UNCHANGED owner
    /\ UNCHANGED <<mode, cpc, continuation, alive>>

\* continuation_.resume(): the client runs here until it is gone.
Resume(w) ==
    /\ Goes(w, "resume", "unlock")
    /\ cpc' = "go"
    /\ UNCHANGED <<mode, owner, results, continuation, alive, crashed>>

\* The client has come back; ~unique_lock unlocks a mutex that is gone.
UnlockAfterResume(w) ==
    /\ cpc = "gone"
    /\ Goes(w, "unlock", "exit")
    /\ owner' = Nobody
    /\ Touch
    /\ UNCHANGED <<mode, cpc, results, continuation, alive>>

\* notify_one(), with the mutex already released.
Notify(w) ==
    /\ Goes(w, "notify", "exit")
    /\ cpc' = IF cpc = "asleep" THEN "waking" ELSE cpc
    /\ Touch
    /\ UNCHANGED <<mode, owner, results, continuation, alive>>

-----------------------------------------------------------------------------
(* The client.                                                             *)

\* join(): lock, and wait() unless all is there; also after a wake-up.
JoinWithoutLoop ==  \* mutant: wait() without a predicate
    /\ mode = "join"
    /\ cpc \in {"start", "waking"}
    /\ MutexFree
    /\ cpc' = IF AllStored \/ cpc = "waking" THEN "go" ELSE "asleep"
    /\ UNCHANGED <<mode, wpc, owner, results, continuation, alive, crashed>>

Join ==
    /\ mode = "join"
    /\ cpc \in {"start", "waking"}
    /\ MutexFree
    /\ cpc' = IF AllStored THEN "go" ELSE "asleep"
    /\ UNCHANGED <<mode, wpc, owner, results, continuation, alive, crashed>>

SpuriousWakeup ==
    /\ cpc = "asleep"
    /\ cpc' = "waking"
    /\ UNCHANGED <<mode, wpc, owner, results, continuation, alive, crashed>>

\* await_ready(): done() takes and releases the lock.
AwaitReady ==
    /\ mode = "await"
    /\ cpc = "start"
    /\ MutexFree
    /\ cpc' = IF AllStored THEN "go" ELSE "attach"
    /\ UNCHANGED <<mode, wpc, owner, results, continuation, alive, crashed>>

\* await_suspend(): attach() looks again under the lock it stores h under.
AttachUnchecked ==  \* mutant: attach() trusts await_ready()
    /\ cpc = "attach"
    /\ MutexFree
    /\ cpc' = "suspended" /\ continuation' = TRUE
    /\ UNCHANGED <<mode, wpc, owner, results, alive, crashed>>

Attach ==
    /\ cpc = "attach"
    /\ MutexFree
    /\ IF AllStored
       THEN cpc' = "go" /\ UNCHANGED continuation
       ELSE cpc' = "suspended" /\ continuation' = TRUE
    /\ UNCHANGED <<mode, wpc, owner, results, alive, crashed>>

\* The client takes the results and its parallel object goes out of scope.
Destroy ==
    /\ cpc = "go"
    /\ alive' = FALSE
    /\ cpc' = "gone"
    /\ UNCHANGED <<mode, wpc, owner, results, continuation, crashed>>

-----------------------------------------------------------------------------
WorkerStep(w) == Compute(w) \/ Push(w) \/ Resume(w) \/ UnlockAfterResume(w) \/ Notify(w)

-----------------------------------------------------------------------------
(* Properties.  A definition above marked "mutant" is a faulty variant of  *)
(* the one that follows it, used to show that a property can fail.         *)

(***************************************************************************)
(* impl_ is freed only when every worker has stored its result: what a     *)
(* worker may still touch afterwards is the lock it returns with, or the   *)
(* condition variable it notifies.                                         *)
(***************************************************************************)
FreedAfterAllStored ==
    ~alive => \A w \in Worker : w \in results /\ wpc[w] \in {"unlock", "notify", "exit"}

(***************************************************************************)
(* A worker resumes a coroutine that is suspended: attach() and the last   *)
(* push() never both make the client go on, and one of them does.          *)
(***************************************************************************)
ResumesSuspended ==
    \A w \in Worker : wpc[w] = "resume" => cpc = "suspended" /\ AllStored

(***************************************************************************)
(* The object is a fork/join: see ForkJoin, with its liveness.             *)
(***************************************************************************)
FJ == INSTANCE ForkJoin WITH
          finished <- results,
          client   <- IF cpc \in {"go", "gone"} THEN "released" ELSE "waiting"

ImplementsForkJoin == FJ!Spec
=============================================================================
