-------------------------- MODULE SchedulableTask --------------------------
(***************************************************************************)
(* schedulable_task of main.cpp and the two executors it can be given.     *)
(* co_await of a task hands the executor the pair (callee, caller):        *)
(* trivial_executor resumes both on the spot, one after the other;         *)
(* delayed_executor queues the pair, resumes what is queued in order, and  *)
(* stacks the callers to resume them, the last one first, when nothing is  *)
(* queued.                                                                 *)
(*                                                                         *)
(* stack is execution_stack of delayed_executor; for trivial_executor it   *)
(* is the C++ call stack: the second members of the schedule() calls that  *)
(* have not returned.  One thread runs all of it.  The result of a callee  *)
(* is not modelled, nor is the frame its caller frees after reading it.    *)
(***************************************************************************)
EXTENDS Integers, Sequences

CONSTANTS Coro,  \* coroutines: schedulable_task<T, E>
          None   \* nullptr

ASSUME NoneAssumption == None \notin Coro

VARIABLES executor,  \* which executor the program uses
          pc,        \* main(): before execute(), in it, after it
          frame,     \* life of each coroutine
          source,    \* source_coro of the awaitable a coroutine is suspended on
          tasks,     \* queue of pairs (first, second)
          stack,     \* callers to be resumed
          running    \* the coroutine that runs

vars == <<executor, pc, frame, source, tasks, stack, running>>

Pair == [first : Coro, second : Coro \cup {None}]

TypeOK ==
    /\ executor \in {"trivial", "delayed"}
    /\ pc \in {"main", "execute", "done"}
    /\ frame \in [Coro -> {"unborn", "suspended", "running", "done"}]
    /\ source \in [Coro -> Coro \cup {None}]
    /\ tasks \in Seq(Pair)
    /\ stack \in Seq(Coro)
    /\ running \in Coro \cup {None}

Init ==
    /\ executor \in {"trivial", "delayed"}
    /\ pc = "main"
    /\ frame = [c \in Coro |-> "unborn"]
    /\ source = [c \in Coro |-> None]
    /\ tasks = << >>
    /\ stack = << >>
    /\ running = None

-----------------------------------------------------------------------------
(* schedule() of the two executors: a new coroutine d, and who awaits it.  *)
ScheduleNow(d, caller) ==
    /\ executor = "trivial"
    /\ running' = d
    /\ stack' = IF caller = None THEN stack ELSE Append(stack, caller)
    /\ UNCHANGED tasks

ScheduleLater(d, caller) ==
    /\ executor = "delayed"
    /\ running' = None
    /\ tasks' = Append(tasks, [first |-> d, second |-> caller])
    /\ UNCHANGED stack

Schedule(d, caller) == ScheduleNow(d, caller) \/ ScheduleLater(d, caller)

\* The trivial executor resumes d as soon as it is given it.
Given == IF executor = "trivial" THEN "running" ELSE "suspended"

\* main() passes a new task to its executor: task.set_executor(&executor).
SetExecutor(r) ==
    /\ pc = "main"
    /\ running = None
    /\ executor = "trivial" => stack = << >>
    /\ frame[r] = "unborn"
    /\ frame' = [frame EXCEPT ![r] = Given]
    /\ Schedule(r, None)
    /\ UNCHANGED <<executor, pc, source>>

\* main() calls execute(), which trivial_executor leaves empty.
Execute ==
    /\ pc = "main"
    /\ running = None
    /\ executor = "trivial" => stack = << >>
    /\ pc' = "execute"
    /\ UNCHANGED <<executor, frame, source, tasks, stack, running>>

-----------------------------------------------------------------------------
(* The running coroutine calls another one and awaits it.  The callee is   *)
(* suspended at its start, since it has no executor yet; await_suspend()   *)
(* gives it the caller's, which a coroutine that runs always has.          *)
Await(d) ==
    /\ running # None
    /\ frame[d] = "unborn"
    /\ frame' = [frame EXCEPT ![running] = "suspended", ![d] = Given]
    /\ source' = [source EXCEPT ![running] = d]
    /\ Schedule(d, running)
    /\ UNCHANGED <<executor, pc>>

\* The coroutine ends; an exception is swallowed by unhandled_exception().
Return ==
    /\ running # None
    /\ frame' = [frame EXCEPT ![running] = "done"]
    /\ running' = None
    /\ UNCHANGED <<executor, pc, source, tasks, stack>>

-----------------------------------------------------------------------------
Stacked(t) == IF t.second = None THEN stack ELSE Append(stack, t.second)

LaunchStacksNull ==  \* mutant: the second member is stacked without a look
    /\ pc = "execute"
    /\ running = None
    /\ tasks # << >>
    /\ tasks' = Tail(tasks)
    /\ stack' = Append(stack, Head(tasks).second)
    /\ running' = Head(tasks).first
    /\ frame' = [frame EXCEPT ![Head(tasks).first] = "running"]
    /\ UNCHANGED <<executor, pc, source>>

LaunchKeepsTask ==  \* mutant: tasks.pop() is forgotten
    /\ pc = "execute"
    /\ running = None
    /\ tasks # << >>
    /\ stack' = Stacked(Head(tasks))
    /\ running' = Head(tasks).first
    /\ frame' = [frame EXCEPT ![Head(tasks).first] = "running"]
    /\ UNCHANGED <<executor, pc, source, tasks>>

\* One turn of the inner loop of delayed_executor::execute().
Launch ==
    /\ pc = "execute"
    /\ running = None
    /\ tasks # << >>
    /\ tasks' = Tail(tasks)
    /\ stack' = Stacked(Head(tasks))
    /\ running' = Head(tasks).first
    /\ frame' = [frame EXCEPT ![Head(tasks).first] = "running"]
    /\ UNCHANGED <<executor, pc, source>>

ResumeOldest ==  \* mutant: the callers are resumed in the order they came
    /\ executor = "delayed" => pc = "execute" /\ tasks = << >>
    /\ running = None
    /\ stack # << >>
    /\ running' = Head(stack)
    /\ stack' = Tail(stack)
    /\ frame' = [frame EXCEPT ![Head(stack)] = "running"]
    /\ source' = [source EXCEPT ![Head(stack)] = None]
    /\ UNCHANGED <<executor, pc, tasks>>

\* task.second.resume() of trivial_executor, and the end of a turn of the
\* outer loop of delayed_executor::execute().  await_resume() reads the
\* callee's result.
ResumeCaller ==
    /\ executor = "delayed" => pc = "execute" /\ tasks = << >>
    /\ running = None
    /\ stack # << >>
    /\ LET c == stack[Len(stack)]
       IN  /\ running' = c
           /\ frame' = [frame EXCEPT ![c] = "running"]
           /\ source' = [source EXCEPT ![c] = None]
    /\ stack' = SubSeq(stack, 1, Len(stack) - 1)
    /\ UNCHANGED <<executor, pc, tasks>>

ExecuteReturnsEarly ==  \* mutant: the loop stops when nothing is queued
    /\ pc = "execute"
    /\ running = None
    /\ tasks = << >>
    /\ pc' = "done"
    /\ UNCHANGED <<executor, frame, source, tasks, stack, running>>

ExecuteReturns ==
    /\ pc = "execute"
    /\ running = None
    /\ tasks = << >> /\ stack = << >>
    /\ pc' = "done"
    /\ UNCHANGED <<executor, frame, source, tasks, stack, running>>

-----------------------------------------------------------------------------
Next ==
    \/ \E c \in Coro : SetExecutor(c) \/ Await(c)
    \/ Execute \/ Return \/ Launch \/ ResumeCaller \/ ExecuteReturns

Spec == Init /\ [][Next]_vars

(***************************************************************************)
(* Fairness: the thread runs.  main() passes finitely many tasks, and a    *)
(* coroutine awaits finitely many: Coro is finite.                         *)
(***************************************************************************)
FairSpec == Spec /\ WF_vars(Next)

-----------------------------------------------------------------------------
(* Properties.  A definition above marked "mutant" is a faulty variant of  *)
(* the one that follows it, used to show that a property can fail.         *)

(***************************************************************************)
(* A handle the executor holds, queued or stacked, designates a suspended  *)
(* coroutine, and it holds one handle of each: no frame is resumed twice,  *)
(* nor while it runs, nor after it is done.                                *)
(***************************************************************************)
HandlesSuspended ==
    /\ \A i \in 1..Len(tasks) :
          /\ frame[tasks[i].first] = "suspended"
          /\ tasks[i].second # None => frame[tasks[i].second] = "suspended"
          /\ \A j \in 1..Len(tasks) :
                /\ tasks[i].first = tasks[j].first => i = j
                /\ tasks[i].second = tasks[j].second /\ tasks[i].second # None => i = j
                /\ tasks[i].first # tasks[j].second
    /\ \A i \in 1..Len(stack) :
          /\ frame[stack[i]] = "suspended"
          /\ \A j \in 1..Len(stack) : stack[i] = stack[j] => i = j
          /\ \A j \in 1..Len(tasks) : stack[i] \notin {tasks[j].first, tasks[j].second}

(***************************************************************************)
(* An await is a call with both executors: whatever else is queued and     *)
(* stacked, a caller is resumed when its own callee is done.               *)
(***************************************************************************)
Phase(c) == CASE frame[c] = "unborn" -> "unborn"
              [] frame[c] = "done"   -> "finished"
              [] OTHER               -> "active"

AC == INSTANCE AsyncCall WITH
          phase  <- [c \in Coro |-> Phase(c)],
          callee <- source

ImplementsAsyncCall == AC!Spec

(***************************************************************************)
(* execute() returns, and with nothing left: every coroutine that was      *)
(* passed to the executor or awaited has run to its end.                   *)
(***************************************************************************)
AllRunToTheirEnd ==
    pc = "execute" ~> pc = "done" /\ \A c \in Coro : frame[c] \in {"unborn", "done"}
=============================================================================
