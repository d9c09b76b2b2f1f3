----------------------------- MODULE WorkerPool -----------------------------
(***************************************************************************)
(* threadpool of different_threads.cpp and the tasks that run on it.  A    *)
(* worker is a thread with a stack of coroutine handles.  co_await         *)
(* on_worker(v, task) suspends the caller, remembers its worker in the     *)
(* task's promise and pushes the task on worker v; when the task returns   *)
(* it pushes its caller back.  main() schedules the first tasks, waits     *)
(* until each of them has counted itself, and destroys the scheduler.      *)
(*                                                                         *)
(* The scheduler is the threadpool; main() as it stands constructs the     *)
(* other one of the file, immediate, which has no workers.                 *)
(*                                                                         *)
(* A critical section of a worker's mutex is one action; the stack of a    *)
(* worker may be stopped, and a root be given a worker, in any order.      *)
(* Frames are never destroyed, in the code either.                         *)
(***************************************************************************)
EXTENDS Integers, Sequences

CONSTANTS Worker,
          Coro,    \* tasks
          Root,    \* those that main() schedules
          Valued,  \* task<T> with T other than void
          None     \* nullptr

ASSUME TaskAssumption == Root \subseteq Coro /\ Valued \subseteq Coro /\ None \notin Coro

VARIABLES main,     \* main(): "run", then in ~basic_scheduler_impl; or the process is gone
          counted,  \* roots that have done l++
          frame,    \* life of each coroutine
          next,     \* next_ of each promise
          callee,   \* the task of the awaitable a coroutine is suspended on
          handles,  \* handles_ of each worker, the top is the last
          stop,     \* workers that were requested to stop
          wpc,      \* where run_() of each worker is
          job       \* the coroutine a worker runs

vars == <<main, counted, frame, next, callee, handles, stop, wpc, job>>

NextInfo == [handle : Coro, worker : Worker]

TypeOK ==
    /\ main \in {"run", "stopping", "aborted"}
    /\ counted \subseteq Root
    /\ frame \in [Coro -> {"unborn", "suspended", "running", "returned", "done"}]
    /\ next \in [Coro -> NextInfo \cup {None}]
    /\ callee \in [Coro -> Coro \cup {None}]
    /\ handles \in [Worker -> Seq(Coro)]
    /\ stop \subseteq Worker
    /\ wpc \in [Worker -> {"test", "lock", "wait", "body", "resumed", "exit"}]
    /\ job \in [Worker -> Coro \cup {None}]

Init ==
    /\ main = "run"
    /\ counted = {}
    /\ frame = [c \in Coro |-> "unborn"]
    /\ next = [c \in Coro |-> None]
    /\ callee = [c \in Coro |-> None]
    /\ handles = [w \in Worker |-> << >>]
    /\ stop = {}
    /\ wpc = [w \in Worker |-> "test"]
    /\ job = [w \in Worker |-> None]

-----------------------------------------------------------------------------
(* push(): the handle on top, and notify_one().  at is where the workers   *)
(* are otherwise after the step.                                           *)
Notified(at, v) == IF at[v] = "wait" THEN [at EXCEPT ![v] = "test"] ELSE at

PushWithoutNotify(v, c, at) ==  \* mutant: notify_one() is forgotten
    /\ handles' = [handles EXCEPT ![v] = Append(@, c)]
    /\ wpc' = at

Push(v, c, at) ==
    /\ handles' = [handles EXCEPT ![v] = Append(@, c)]
    /\ wpc' = Notified(at, v)

Goes(w, place) == [wpc EXCEPT ![w] = place]

\* main(): scheduler.schedule(n, task.handle()).
ScheduleRoot(r, v) ==
    /\ main = "run"
    /\ r \in Root
    /\ frame[r] = "unborn"
    /\ frame' = [frame EXCEPT ![r] = "suspended"]
    /\ Push(v, r, wpc)
    /\ UNCHANGED <<main, counted, next, callee, stop, job>>

\* ~basic_scheduler_impl: main() has seen l.load() reach the number of roots.
Destroy ==
    /\ main = "run"
    /\ counted = Root
    /\ main' = "stopping"
    /\ UNCHANGED <<counted, frame, next, callee, handles, stop, wpc, job>>

\* stop() of one worker: what is left on its stack is dropped.
Stop(v) ==
    /\ main = "stopping"
    /\ v \notin stop
    /\ handles' = [handles EXCEPT ![v] = << >>]
    /\ stop' = stop \cup {v}
    /\ wpc' = Notified(wpc, v)
    /\ UNCHANGED <<main, counted, frame, next, callee, job>>

-----------------------------------------------------------------------------
(* run_() of worker w.                                                     *)

\* while (!token.stop_requested()), without the lock.
TestStop(w) ==
    /\ wpc[w] = "test"
    /\ wpc' = Goes(w, IF w \in stop THEN "exit" ELSE "lock")
    /\ UNCHANGED <<main, counted, frame, next, callee, handles, stop, job>>

\* cv_.wait(lock), with no predicate.
Sleep(w) ==
    /\ wpc[w] = "lock"
    /\ handles[w] = << >>
    /\ wpc' = Goes(w, "wait")
    /\ UNCHANGED <<main, counted, frame, next, callee, handles, stop, job>>

SpuriousWakeup(w) ==
    /\ wpc[w] = "wait"
    /\ wpc' = Goes(w, "test")
    /\ UNCHANGED <<main, counted, frame, next, callee, handles, stop, job>>

Top(w) == handles[w][Len(handles[w])]

\* await_resume() of a task with a value calls result(): get_() asserts that
\* the task is done.  It has returned, but may not be at its final suspension.
ResultThere(c) == callee[c] \in Valued => frame[callee[c]] = "done"

AbortOnResult(w) ==
    /\ wpc[w] = "lock"
    /\ handles[w] # << >>
    /\ ~ResultThere(Top(w))
    /\ main' = "aborted"
    /\ UNCHANGED <<counted, frame, next, callee, handles, stop, wpc, job>>

ResumeKeepsTop(w) ==  \* mutant: handles_.pop() is forgotten
    /\ wpc[w] = "lock"
    /\ handles[w] # << >>
    /\ ResultThere(Top(w))
    /\ frame' = [frame EXCEPT ![Top(w)] = "running"]
    /\ callee' = [callee EXCEPT ![Top(w)] = None]
    /\ job' = [job EXCEPT ![w] = Top(w)]
    /\ wpc' = Goes(w, "body")
    /\ UNCHANGED <<main, counted, next, handles, stop>>

\* Pop, unlock, resume.
Resume(w) ==
    /\ wpc[w] = "lock"
    /\ handles[w] # << >>
    /\ ResultThere(Top(w))
    /\ handles' = [handles EXCEPT ![w] = SubSeq(@, 1, Len(@) - 1)]
    /\ frame' = [frame EXCEPT ![Top(w)] = "running"]
    /\ callee' = [callee EXCEPT ![Top(w)] = None]
    /\ job' = [job EXCEPT ![w] = Top(w)]
    /\ wpc' = Goes(w, "body")
    /\ UNCHANGED <<main, counted, next, stop>>

\* h.resume() has come back: stop, or lock again and look for more.
Resumed(w) ==
    /\ wpc[w] = "resumed"
    /\ wpc' = Goes(w, IF w \in stop THEN "exit" ELSE "lock")
    /\ UNCHANGED <<main, counted, frame, next, callee, handles, stop, job>>

-----------------------------------------------------------------------------
(* The coroutine that worker w runs.                                       *)
Runs(w, c) == wpc[w] = "body" /\ job[w] = c /\ frame[c] = "running"

AwaitForgetsWorker(w, d, v) ==  \* mutant: the task's worker is kept as its caller's
    \E c \in Coro \ counted :
        /\ Runs(w, c)
        /\ d \notin Root /\ frame[d] = "unborn"
        /\ frame' = [frame EXCEPT ![c] = "suspended", ![d] = "suspended"]
        /\ callee' = [callee EXCEPT ![c] = d]
        /\ next' = [next EXCEPT ![d] = [handle |-> c, worker |-> v]]
        /\ job' = [job EXCEPT ![w] = None]
        /\ Push(v, d, Goes(w, "resumed"))
        /\ UNCHANGED <<main, counted, stop>>

AwaitPushesCaller(w, d, v) ==  \* mutant: resume_on() is given the caller's handle
    \E c \in Coro \ counted :
        /\ Runs(w, c)
        /\ d \notin Root /\ frame[d] = "unborn"
        /\ frame' = [frame EXCEPT ![c] = "suspended", ![d] = "suspended"]
        /\ callee' = [callee EXCEPT ![c] = d]
        /\ next' = [next EXCEPT ![d] = [handle |-> c, worker |-> w]]
        /\ job' = [job EXCEPT ![w] = None]
        /\ Push(v, c, Goes(w, "resumed"))
        /\ UNCHANGED <<main, counted, stop>>

\* co_await on_worker(v, d): await_suspend() calls then(), then resume_on().
Await(w, d, v) ==
    \E c \in Coro \ counted :
        /\ Runs(w, c)
        /\ d \notin Root /\ frame[d] = "unborn"
        /\ frame' = [frame EXCEPT ![c] = "suspended", ![d] = "suspended"]
        /\ callee' = [callee EXCEPT ![c] = d]
        /\ next' = [next EXCEPT ![d] = [handle |-> c, worker |-> w]]
        /\ job' = [job EXCEPT ![w] = None]
        /\ Push(v, d, Goes(w, "resumed"))
        /\ UNCHANGED <<main, counted, stop>>

\* l++ at the end of a root.
Count(w) ==
    \E c \in Root \ counted :
        /\ Runs(w, c)
        /\ counted' = counted \cup {c}
        /\ UNCHANGED <<main, frame, next, callee, handles, stop, wpc, job>>

ReturnUnchecked(w) ==  \* mutant: next_.handle is not compared with nullptr
    \E c \in counted \cup (Coro \ Root) :
        /\ Runs(w, c)
        /\ frame' = [frame EXCEPT ![c] = "returned"]
        /\ IF next[c] # None THEN Push(next[c].worker, next[c].handle, wpc)
           ELSE Push(w, None, wpc)
        /\ UNCHANGED <<main, counted, next, callee, stop, job>>

\* return_void(), return_value(): resume_() schedules who awaits the task,
\* while the task is still running.
Return(w) ==
    \E c \in counted \cup (Coro \ Root) :
        /\ Runs(w, c)
        /\ frame' = [frame EXCEPT ![c] = "returned"]
        /\ IF next[c] # None
           THEN Push(next[c].worker, next[c].handle, wpc)
           ELSE UNCHANGED <<handles, wpc>>
        /\ UNCHANGED <<main, counted, next, callee, stop, job>>

FinalSuspend(w) ==
    \E c \in Coro :
        /\ wpc[w] = "body" /\ job[w] = c /\ frame[c] = "returned"
        /\ frame' = [frame EXCEPT ![c] = "done"]
        /\ job' = [job EXCEPT ![w] = None]
        /\ wpc' = Goes(w, "resumed")
        /\ UNCHANGED <<main, counted, next, callee, handles, stop>>

-----------------------------------------------------------------------------
WorkerStep(w) ==
    \/ TestStop(w) \/ Sleep(w) \/ AbortOnResult(w) \/ Resume(w) \/ Resumed(w)
    \/ Count(w) \/ Return(w) \/ FinalSuspend(w)
    \/ \E d \in Coro, v \in Worker : Await(w, d, v)

Main == Destroy \/ \E v \in Worker : Stop(v) \/ \E r \in Root : ScheduleRoot(r, v)

Next ==
    /\ main # "aborted"
    /\ Main \/ \E w \in Worker : WorkerStep(w) \/ SpuriousWakeup(w)

Spec == Init /\ [][Next]_vars

(***************************************************************************)
(* Fairness: each thread runs.  Coro is finite, so a worker is not handed  *)
(* new tasks for ever on top of an old one.                                *)
(***************************************************************************)
FairSpec ==
    /\ Spec
    /\ \A w \in Worker : WF_vars(main # "aborted" /\ WorkerStep(w))

-----------------------------------------------------------------------------
(* Properties.  A definition above marked "mutant" is a faulty variant of  *)
(* the one that follows it, used to show that a property can fail.         *)

(***************************************************************************)
(* A handle on a worker's stack designates a suspended coroutine and is on *)
(* one stack, once; a coroutine runs on one worker.  No task is resumed    *)
(* twice, by two threads, or when done: assert(!h.done()) of run_().       *)
(***************************************************************************)
HandlesSuspended ==
    /\ \A w \in Worker : \A i \in 1..Len(handles[w]) :
          /\ frame[handles[w][i]] = "suspended"
          /\ \A v \in Worker : \A j \in 1..Len(handles[v]) :
                handles[w][i] = handles[v][j] => w = v /\ i = j
    /\ \A w \in Worker : job[w] # None =>
          /\ frame[job[w]] \in {"running", "returned"}
          /\ \A v \in Worker : job[v] = job[w] => v = w

(***************************************************************************)
(* A task goes on, after each await, on the worker it was first scheduled  *)
(* on, whatever workers its callees ran on.                                *)
(***************************************************************************)
StaysOnItsWorker ==
    \A c \in Coro, w \in Worker :
        [](job[w] = c => [](\A v \in Worker \ {w} : job[v] # c))

(***************************************************************************)
(* An await is a call: a caller is resumed when its callee has returned.   *)
(***************************************************************************)
Phase(c) == CASE frame[c] = "unborn"               -> "unborn"
              [] frame[c] \in {"returned", "done"} -> "finished"
              [] OTHER                             -> "active"

AC == INSTANCE AsyncCall WITH
          phase  <- [c \in Coro |-> Phase(c)],
          callee <- callee

ImplementsAsyncCall == AC!Spec

(***************************************************************************)
(* A handle pushed on a worker is eventually resumed by it, unless the     *)
(* pool is stopped or the process aborts: no notification is lost between  *)
(* the look at the stack and the wait.                                     *)
(***************************************************************************)
PushedIsResumed ==
    \A w \in Worker, c \in Coro :
        (\E i \in 1..Len(handles[w]) : handles[w][i] = c)
            ~> job[w] = c \/ w \in stop \/ main = "aborted"

(***************************************************************************)
(* assert(this->handle_.done()) in get_(): the caller that reads a result  *)
(* finds its task done.                                                    *)
(***************************************************************************)
ResultOfDoneTask == main # "aborted"
=============================================================================
