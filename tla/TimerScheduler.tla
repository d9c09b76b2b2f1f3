--------------------------- MODULE TimerScheduler ---------------------------
(***************************************************************************)
(* timer_scheduler of fd_timers.hpp: timers are coroutines that co_await   *)
(* a duration; one POSIX timer is armed for the soonest of them, its       *)
(* SIGUSR1 is read from a signalfd by the reader manage_timers(), which    *)
(* resumes what is due.  main() creates the manager, adds timers, then     *)
(* runs a single-consumer scheduler with the manager as its one reader.    *)
(*                                                                         *)
(* Time passes between any two steps.  A timer that awaits another timer   *)
(* hands it scheduler_, the function that puts a coroutine in the heap,    *)
(* and gets it back when that timer returns.                               *)
(***************************************************************************)
EXTENDS Integers

CONSTANTS Task,     \* timers: passed to add() or awaited by others
          Delays,   \* durations they await
          Horizon,  \* bound: no task awaits once this time has come
          None      \* no time, no timer

ASSUME DelayAssumption == Delays \subseteq Nat /\ Horizon \in Nat /\ None \notin Nat \cup Task

VARIABLES now,       \* steady_clock
          armed,     \* expiry of the POSIX timer, None when disarmed
          pending,   \* SIGUSR1 is pending, blocked, and readable on the signalfd
          running,   \* timer_scheduler::running
          due,       \* the heap timers_: when of each task in it, else None
          state,     \* of each timer: "unborn", "active", "returned" or "threw"
          next,      \* promise_type::next: the timer that awaits this one, or None
          scheduler_, \* timers whose promise has the scheduler
          pc,        \* what the one thread does
          task,      \* the coroutine that runs, or ran last
          caller,    \* who resumed it: main() or the manager's loop
          wait       \* the argument of schedule_()

kernelVars == <<now, armed, pending>>
chainVars  == <<state, next, scheduler_>>
vars == <<kernelVars, running, due, chainVars, pc, task, caller, wait>>

TypeOK ==
    /\ now \in Nat
    /\ armed \in Nat \cup {None}
    /\ pending \in BOOLEAN /\ running \in BOOLEAN
    /\ due \in [Task -> Nat \cup {None}]
    /\ state \in [Task -> {"unborn", "active", "returned", "threw"}]
    /\ next \in [Task -> Task \cup {None}]
    /\ scheduler_ \subseteq Task
    /\ pc \in {"main", "body", "settime", "handback", "wait", "check", "rearm", "done", "aborted"}
    /\ task \in Task \cup {None}
    /\ caller \in {"main", "loop"}
    /\ wait \in Nat

\* manage_timers() has run up to its first co_await, with SIGUSR1 blocked.
Init ==
    /\ now = 0 /\ armed = None
    /\ pending = FALSE /\ running = TRUE
    /\ due = [t \in Task |-> None]
    /\ state = [t \in Task |-> "unborn"] /\ next = [t \in Task |-> None]
    /\ scheduler_ = {}
    /\ pc = "main" /\ task = None /\ caller = "main" /\ wait = 0

Queued(t) == due[t] # None
Empty     == \A t \in Task : ~Queued(t)

-----------------------------------------------------------------------------
(* The clock and the kernel's timer.                                       *)
Tick ==
    /\ \/ now < Horizon
       \/ pc = "wait" /\ armed # None /\ armed > now
    /\ now' = now + 1
    /\ UNCHANGED <<armed, pending, running, due, chainVars, pc, task, caller, wait>>

\* SIGUSR1 is not queued: it merges with one that is pending.
Expire ==
    /\ armed # None /\ armed <= now
    /\ armed' = None
    /\ pending' = TRUE
    /\ UNCHANGED <<now, running, due, chainVars, pc, task, caller, wait>>

\* timer_settime() takes a duration, counted from now; zero disarms.
SetTimer(d) == armed' = IF d = 0 THEN None ELSE now + d

-----------------------------------------------------------------------------
(* main(): add() starts a timer in place; then run() polls the signalfd.   *)
Add(t) ==
    /\ pc = "main"
    /\ state[t] = "unborn"
    /\ state' = [state EXCEPT ![t] = "active"]
    /\ scheduler_' = scheduler_ \cup {t}
    /\ task' = t /\ caller' = "main" /\ pc' = "body"
    /\ UNCHANGED <<kernelVars, running, due, next, wait>>

RunScheduler ==
    /\ pc = "main"
    /\ pc' = "wait"
    /\ UNCHANGED <<kernelVars, running, due, chainVars, task, caller, wait>>

-----------------------------------------------------------------------------
(* The body of a timer, from a resumption to its next suspension.          *)

\* Where the thread goes when the body suspends or ends: the manager's loop
\* leaves for co_await signal_fd when the heap is empty.
BackToCaller(heapIsEmpty) ==
    pc' = IF caller = "main" THEN "main" ELSE IF heapIsEmpty THEN "wait" ELSE "check"

\* schedule_me: the heap is empty, or the new timer is before its front.
ScheduleMeIfNotFirst(when) ==  \* mutant: the empty heap is not a reason to schedule
    ~Empty /\ \A t \in Task : Queued(t) => when < due[t]

ScheduleMe(when) == \A t \in Task : Queued(t) => when < due[t]

\* co_await d: insert_timer() reads the clock, pushes, then calls schedule_().
BodyAwaits(d) ==
    /\ pc = "body"
    /\ now < Horizon
    /\ due' = [due EXCEPT ![task] = now + d]
    /\ IF ScheduleMe(now + d)
       THEN pc' = "settime" /\ wait' = d
       ELSE BackToCaller(FALSE) /\ wait' = wait
    /\ UNCHANGED <<kernelVars, running, chainVars, task, caller>>

\* co_await of a timer, which runs in place.
BodyCalls(t) ==
    /\ pc = "body"
    /\ state[t] = "unborn"
    /\ state' = [state EXCEPT ![t] = "active"]
    /\ next' = [next EXCEPT ![t] = task]
    /\ scheduler_' = IF task \in scheduler_ THEN (scheduler_ \ {task}) \cup {t} ELSE scheduler_
    /\ task' = t
    /\ UNCHANGED <<kernelVars, running, due, pc, caller, wait>>

ScheduleInsert ==
    /\ pc = "settime"
    /\ SetTimer(wait)
    /\ BackToCaller(FALSE)
    /\ UNCHANGED <<now, pending, running, due, chainVars, task, caller, wait>>

BodyReturnsAlone ==  \* mutant: return_void() does not resume next
    /\ pc = "body"
    /\ state' = [state EXCEPT ![task] = "returned"]
    /\ BackToCaller(Empty)
    /\ UNCHANGED <<kernelVars, running, due, next, scheduler_, task, caller, wait>>

\* return_void()
BodyReturns ==
    /\ pc = "body"
    /\ state' = [state EXCEPT ![task] = "returned"]
    /\ IF next[task] = None THEN BackToCaller(Empty) ELSE pc' = "handback"
    /\ UNCHANGED <<kernelVars, running, due, next, scheduler_, task, caller, wait>>

HandBackNothing ==  \* mutant: the scheduler stays with the timer that ended
    /\ pc = "handback"
    /\ next' = [next EXCEPT ![task] = None]
    /\ task' = next[task] /\ pc' = "body"
    /\ UNCHANGED <<kernelVars, running, due, state, scheduler_, caller, wait>>

\* return_void() of a timer that another one awaits: the scheduler goes back,
\* the caller goes on in place, and the frame is freed.
HandBack ==
    /\ pc = "handback"
    /\ scheduler_' = (scheduler_ \ {task}) \cup {next[task]}
    /\ next' = [next EXCEPT ![task] = None]
    /\ task' = next[task] /\ pc' = "body"
    /\ UNCHANGED <<kernelVars, running, due, state, caller, wait>>

\* unhandled_exception() drops the exception; nobody resumes next.
BodyThrows ==
    /\ pc = "body"
    /\ state' = [state EXCEPT ![task] = "threw"]
    /\ scheduler_' = scheduler_ \ {task}
    /\ BackToCaller(Empty)
    /\ UNCHANGED <<kernelVars, running, due, next, task, caller, wait>>

\* The body calls stop(), which raises SIGUSR1.
BodyStopsSilently ==  \* mutant: stop() does not raise the signal
    /\ pc = "body"
    /\ running
    /\ running' = FALSE
    /\ UNCHANGED <<kernelVars, due, chainVars, pc, task, caller, wait>>

BodyStops ==
    /\ pc = "body"
    /\ running
    /\ running' = FALSE
    /\ pending' = TRUE
    /\ UNCHANGED <<now, armed, due, chainVars, pc, task, caller, wait>>

-----------------------------------------------------------------------------
(* manage_timers().                                                        *)

\* poll() finds the signalfd readable; the manager is resumed and read()s it.
ReadSignal ==
    /\ pc = "wait"
    /\ pending
    /\ pending' = FALSE
    /\ pc' = "check"
    /\ UNCHANGED <<now, armed, running, due, chainVars, task, caller, wait>>

CheckStopped ==
    /\ pc = "check"
    /\ ~running
    /\ pc' = "done"
    /\ UNCHANGED <<kernelVars, running, due, chainVars, task, caller, wait>>

\* assert(!timers_.empty()) fails.
CheckEmpty ==
    /\ pc = "check"
    /\ running
    /\ Empty
    /\ pc' = "aborted"
    /\ UNCHANGED <<kernelVars, running, due, chainVars, task, caller, wait>>

\* timers_.front(): heaps do not order equal times.
Front(t) == Queued(t) /\ \A u \in Task : Queued(u) => due[t] <= due[u]

PopWithoutCheck(t) ==  \* mutant: running is read once per signal, not per timer
    /\ pc = "check"
    /\ Front(t) /\ due[t] <= now
    /\ due' = [due EXCEPT ![t] = None]
    /\ task' = t /\ caller' = "loop" /\ pc' = "body"
    /\ UNCHANGED <<kernelVars, running, chainVars, wait>>

PopAndResume(t) ==
    /\ pc = "check"
    /\ running
    /\ Front(t) /\ due[t] <= now
    /\ due' = [due EXCEPT ![t] = None]
    /\ task' = t /\ caller' = "loop" /\ pc' = "body"
    /\ UNCHANGED <<kernelVars, running, chainVars, wait>>

CheckLaterSwapped(t) ==  \* mutant: the operands of the subtraction swapped
    /\ pc = "check"
    /\ running
    /\ Front(t) /\ due[t] > now
    /\ wait' = now - due[t]
    /\ pc' = "rearm"
    /\ UNCHANGED <<kernelVars, running, due, chainVars, task, caller>>

CheckLater(t) ==
    /\ pc = "check"
    /\ running
    /\ Front(t) /\ due[t] > now
    /\ wait' = due[t] - now
    /\ pc' = "rearm"
    /\ UNCHANGED <<kernelVars, running, due, chainVars, task, caller>>

RearmForgotten ==  \* mutant: break without schedule_()
    /\ pc = "rearm"
    /\ pc' = "wait"
    /\ UNCHANGED <<kernelVars, running, due, chainVars, task, caller, wait>>

Rearm ==
    /\ pc = "rearm"
    /\ SetTimer(wait)
    /\ pc' = "wait"
    /\ UNCHANGED <<now, pending, running, due, chainVars, task, caller, wait>>

-----------------------------------------------------------------------------
Thread ==
    \/ \E t \in Task : Add(t)
    \/ RunScheduler
    \/ \E d \in Delays : BodyAwaits(d)
    \/ \E t \in Task : BodyCalls(t)
    \/ ScheduleInsert \/ BodyReturns \/ HandBack \/ BodyThrows \/ BodyStops
    \/ ReadSignal \/ CheckStopped \/ CheckEmpty \/ Rearm
    \/ \E t \in Task : PopAndResume(t) \/ CheckLater(t)

Next == Thread \/ Tick \/ Expire

Spec == Init /\ [][Next]_vars

(***************************************************************************)
(* Fairness: the thread runs, the clock advances, the kernel delivers.     *)
(***************************************************************************)
FairSpec == Spec /\ WF_vars(Thread) /\ WF_vars(Tick) /\ WF_vars(Expire)

-----------------------------------------------------------------------------
(* Properties.  A definition above marked "mutant" is a faulty variant of  *)
(* the one that follows it, used to show that a property can fail.         *)

(***************************************************************************)
(* Whenever the thread is about to block, or main() may do so next, a      *)
(* non-empty heap has its wake-up: the POSIX timer is armed, or its signal *)
(* is already pending.  Comment in insert_timer(): "New timer is before    *)
(* last soonest, reschedule".                                              *)
(***************************************************************************)
WakeupScheduled ==
    pc \in {"main", "wait"} /\ ~Empty => pending \/ armed # None

(***************************************************************************)
(* After stop() no timer leaves the heap, whoever called it and whatever   *)
(* is due.                                                                 *)
(***************************************************************************)
StoppedPopsNothing ==
    [][~running => \A t \in Task : Queued(t) => due'[t] = due[t]]_vars

(***************************************************************************)
(* stop() ends the manager, also from a timer the manager resumed and also *)
(* when the heap is empty afterwards, so that run() returns.               *)
(***************************************************************************)
StopTerminates == ~running ~> pc = "done"

(***************************************************************************)
(* A timer in the heap is eventually resumed, unless the manager is        *)
(* stopped or aborts.                                                      *)
(***************************************************************************)
EventuallyWoken ==
    \A t \in Task :
        Queued(t) ~> (pc = "body" /\ task = t) \/ ~running \/ pc = "aborted"

(***************************************************************************)
(* A timer that awaits another one goes on in the end, over any chain of   *)
(* them, as long as no timer throws; else return_void() never runs.        *)
(***************************************************************************)
CallerGoesOn ==
    \A t \in Task : next[t] # None ~>
        next[t] = None \/ (\E u \in Task : state[u] = "threw") \/ ~running \/ pc = "aborted"

(***************************************************************************)
(* assert(scheduler_ != nullptr) in await_transform(): whichever timer     *)
(* runs has the scheduler, also one that has just got it back.             *)
(***************************************************************************)
SchedulerHeld == pc = "body" => task \in scheduler_

(***************************************************************************)
(* assert(!timers_.empty()) in manage_timers(): a signal finds a timer.    *)
(***************************************************************************)
SignalFindsTimer == pc # "aborted"
=============================================================================
