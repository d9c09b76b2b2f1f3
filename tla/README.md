# Schedulers of coro.cpp: specifications and proofs

coro.cpp is a set of small programs, each built around a way of running C++20
coroutines. The library parts are headers under `src/`; each program exercises
one of them. What is hard in this code is scheduling: handles and pointers that
are kept over many steps, state that is read before a coroutine is resumed and
used after it, results that arrive on another thread, wake-ups that may be
missed. The specifications here model these schedulers; data (text, addresses,
results) is abstracted to what the properties distinguish.

## Inventory

| Part | Source | State | Operations | Interacts with | Module |
|---|---|---|---|---|---|
| `fd_reader` | `fd_coroutine.hpp`, `common_awaitables.hpp` | frame, awaited descriptor | await a descriptor, return, throw, `co_yield` a reader, be moved, be destroyed | resumed by a descriptor scheduler, adds to it | `FdReader` |
| `fd_scheduler_round_robin` | `fd_coroutine.hpp` 168-305, `fd_coroutines.cpp` | `readers`, `fds`, `in_waiting`, `to_delete` | `run`, `add` | `poll(2)`, readers | `FdRoundRobin`, `Reactor` |
| `fd_scheduler_single_consumer` | `fd_coroutine.hpp` 307-414 | the same, one reader per descriptor | `run`, `add` | `poll(2)`, readers, the timers' manager | `FdSingleConsumer`, `Reactor` |
| `timer_scheduler` | `fd_timers.hpp`, `timers.cpp` | heap of deadlines, `running`, the POSIX timer, the pending signal | `add`, `insert_timer`, `schedule_`, `manage_timers`, `stop` | kernel timer, signalfd, a descriptor scheduler | `TimerScheduler` |
| `parallel<N, R>` | `threaded_task.hpp` | `results_`, `continuation_`, mutex, condition variable, the shared `impl_` | `spawn_`, `join`, `done`, `attach`, destruction | N detached threads, a joining thread or an awaiting coroutine | `Parallel`, `ForkJoin` |
| Executors | `main.cpp`, `basic_type.hpp` | queue of (callee, caller), stack of callers, executor of each promise | `set_executor`, `schedule`, `execute`, `co_await` | coroutines that await each other | `SchedulableTask`, `AsyncCall` |
| Worker pool | `different_threads.cpp` | a stack of handles per worker, stop token, `next_` of each promise | `push`, `stop`, `run_`, `schedule`, `co_await on_worker`, result | threads, tasks | `WorkerPool`, `AsyncCall` |
| `parallel_demo` | `parallel_demo.cpp` | a coroutine, its result, a semaphore | `return_value`, `result`, destruction | `parallel`, a waiting `main()` | `ParallelDemo` |
| Terminal modes | `linux_term.hpp` 69-97, 276-383 | the terminal's attributes, `orig_termios`, `require_mouse`, `old_sa` | construct and destroy a context, enable the mouse, the three signal handlers | kernel, shell, the input (TCSAFLUSH drops it) | `RawMode`, `Terminal` |
| Terminal input | `linux_term.hpp` 385-830 | the generator and its promise, the state of the parser, the unread bytes | `event_stream`, `input_stream`, `operator()`, `cursor_position` | keys, the terminal's reply, handlers that interrupt a read | `EventStream`, `Terminal` |
| Support | `common.hpp`, `debug.hpp`, `vt100.hpp`, `concepts.hpp`, `animation.cpp` | none | error wrapper, formatting, concepts, a demo | | not modelled |

The hard behaviours, and what makes each part correct:

* Descriptor schedulers. The index and the deletion list point into a vector
  that grows, shrinks and shifts while a round is under way. Correct means: a
  pointer that may be used designates a live reader that awaits its key; no
  reader is forgotten when `poll` blocks; a reader is resumed while suspended,
  for the descriptor it awaits; a clean-up removes the dead and only them;
  readers of one descriptor take turns.
* Timers. One kernel timer stands for many deadlines, its signals merge and are
  late, time passes between any two statements. Correct means: nobody blocks on
  a heap without a wake-up; every timer is woken; `stop` ends the manager.
* `parallel`. The last result races the client that tests, attaches or sleeps,
  and the client frees what the workers point to. Correct means: it is a
  fork/join.
* Terminal. Signals arrive between any two calls, also while a handler runs, and
  each handler puts back what another one saved; a `read` cuts a key anywhere, a
  flush drops half of it. Correct means: whoever gets the terminal finds it as
  it left it; a fatal signal kills, a suspension stops; what was typed whole is
  read as typed, and the reply to `cursor_position` is found.
* Executors and worker pool. A task holds the handle of its caller; both are
  kept as plain handles in queues and stacks, by several threads in the pool.
  Correct means: an await is a call, no handle is resumed twice or while it
  runs, nothing that was scheduled is forgotten.

`PROJECT.json` lists the hazards at their lines with the properties that would
show them, and those that no property covers with the reason.

## Modules and their correspondence to the code

An action is a piece of code between two points where something else may act:
the kernel and the environment between any two steps of a single-threaded
scheduler; other threads outside a critical section. Definitions keep the
source's names (`inWaiting` is `in_waiting`). A definition whose comment says
`mutant` is a faulty variant of the next one: it documents a bug that the
properties detect and no specification uses it.

**FdReader** is shared by the two descriptor schedulers: `frame` (a reader's
life from `unborn` to `destroyed`, or `killed` when its frame is destroyed before
it has ended), `wants` (`waiting_on_`), and, as the
environment, `input` and `hungup` (a peer may send, or be gone for good). A
resumed body either takes the input or leaves it.

**FdRoundRobin** follows `run()` with a program counter:

| `pc` | code | actions |
|---|---|---|
| `loop` | `while (any_of(...))` | `EnterRound`, `Return` |
| `prep` | the loop over readers | `PrepareLive`, `PrepareDead`, one reader each |
| `poll` | `poll()` | `Poll` |
| `dispatch` | the loop over `fds` | `Resume`, `AbortOnMissingWaiter`, at its end `Clean` |
| `running` | `signal_ready()` | `BodyAwaits`, `BodyReturns`, `BodyThrows`, `BodySpawns`, `BodySpawnReallocates` |
| `erase` | `readers.erase(it)` | `EraseDead`, one iterator each |

Pointers and iterators into `readers` are slots; `EraseAt` shifts the vector
under them as `vector::erase` does, also for an iterator past the end.
`BodySpawnReallocates` is the `emplace_back` that moves the readers while one of
them runs; what follows is undefined and the model ends there.

**FdSingleConsumer** has the same structure; `in_waiting` holds one reader per
descriptor, and an entry of `fds` that is found again is an exception.

**Reactor** is what both promise their readers, with no vector, index or array:
`run()` polls what live readers await, all of it and nothing else (`Poll`),
resumes for each report one reader that awaits the descriptor (`Serve`), and
returns when no reader lives (`Return`). `Refuse` is the single-consumer scheduler
giving up, by its exception or by its assert on `fds.size()`: never with a report
unserved. Each scheduler is seen through `life` and `awaits` (of `FdReader`),
`revents`, `current`, and `Outcome`, which is its `pc` where `run()` has ended.
`broken` is `~NoneLost`: a live reader was killed or has dropped out of the vector.
From there on nothing is promised; up to there each step is one of `Reactor` or a
stutter. Which rounds can break it is a property of its own
(`OneDeathPerRoundIsSafe`, `OneDeathKeepsReaders`).

**TimerScheduler** has a discrete clock that advances between any two steps.
`insert_timer` is two steps, since the deadline is computed before the POSIX
timer is armed; so is the re-arming in `manage_timers`. `Expire` is the kernel:
SIGUSR1 is not queued, it merges with a pending one. A timer that co_awaits
another one is `next` of it; `scheduler_` is the set of the timers whose promise
holds the function (one per chain), moved by `BodyCalls` and back by `HandBack`,
after which the caller goes on in place, still inside the callee's
`return_void()`. `BodyThrows` skips that.

**Parallel** models the constructor's threads, and one client that either joins
or awaits (`mode`). A critical section that does not call out is one action;
`Push` keeps the mutex when it resumes the continuation, which then runs on the
worker's stack. `Touch` marks each access to `impl_` after the lock was
released: after `Destroy` it may crash or not. **ForkJoin** is what the object
promises, with its liveness.

**ParallelDemo** has the clients of `parallel_demo.cpp`: the joining function,
and a coroutine whose end is three steps (`return_value`, `Unwind`,
`FinalSuspend`), run by the last worker with the mutex held, or by `main()` when
nothing was left to wait for. `main()` waits on the semaphore (`result`) and
destroys the frame (`DestroyCoro`). When the coroutine has not reached its final
suspension the frame is destroyed under it: that is undefined, and from there on
every step that uses the frame may crash or not.

**RawMode** writes each function of the context as the sequence of the calls it
makes (`HandleSigtstp`, `RawModeEnable`, ...), and `frames` as the stack of the
functions that run; a call is one action (`TcSetAttr`, `Sigaction`, ...), so a
signal may come between any two. `Send` is anybody who sends a signal, `Deliver`
the kernel: a signal is blocked while its handler runs, SIGTSTP and SIGCONT
discard each other. `old` keeps the saved actions under the index at which the
code saves them: `old[CONT]` is `old_sa[INDEX_HANDLER_SIGCONT]`. **EventStream**
chooses what is typed at the start; a `read` takes any prefix. `ParseBuffer`
folds the parser over one buffer, as the generator does before it reads again;
`ReplyByte` is the loop of `cursor_position`, whose state spans reads. A byte
above 127 is read as a Ctrl key, since `char` is signed. **Terminal** composes
them where they meet: `TCSAFLUSH` drops input, a handler interrupts the `read`
of `cursor_position`, a failed assertion raises SIGABRT.

**SchedulableTask** models both executors; which one is in use is chosen in
`Init`. `stack` is `execution_stack` for the delayed one and the C++ call stack
for the trivial one, where `ResumeCaller` is the second `resume()` of
`schedule()`. **AsyncCall** is what `co_await` promises whoever schedules: a
caller goes on once, after its callee has finished.

**WorkerPool** models each worker's `run_()` (`wpc`: `test`, `lock`, `wait`,
`body`, `resumed`, `exit`), its stack, `push`/`stop` with their notification,
`co_await on_worker` (`Await`), `return_value`/`return_void` (`Return`, which
pushes the caller) and the later `FinalSuspend`. It is built for the
threadpool. `main()` as it stands constructs the scheduler `immediate`, which
resumes in place. It implements `AsyncCall` with another mapping.

Composition: `FdRoundRobin` and `FdSingleConsumer` extend `FdReader`;
`ParallelDemo` extends `Parallel`, `Terminal` extends `RawMode` and `EventStream`;
`FdRoundRobin` and `FdSingleConsumer` instantiate `Reactor`, `Parallel`
instantiates `ForkJoin`, `SchedulableTask` and `WorkerPool`
instantiate `AsyncCall`, each under a refinement mapping given at the instance.
The `MC*` modules declare the model values and the initial vectors.
Each of `FdRoundRobinProofs`, `FdSingleConsumerProofs`, `TimerSchedulerProofs`,
`SchedulableTaskProofs` and `WorkerPoolProofs` extends the module it is named
after, `ParallelProofs` extends `ParallelDemo`, `TerminalProofs` (modes and
signals) extends `Terminal`, and `TerminalInputProofs` extends `TerminalProofs`.

## Runs

| Run | Instance | States | Shows |
|---|---|---|---|
| RoundRobin | 2 readers and up to 3 yielded, 2 descriptors, capacity 4 | 383,566 | `WaitersValid`, `ToDeleteIsDead`, `ImplementsReactor`; no reader is lost unless one round finds two dead ones (`OneDeathPerRoundIsSafe`); every reader of the vector is eventually resumed |
| RoundRobinLost | 4 readers | violation | see findings |
| SingleConsumer | 4 readers and 1 yielded, 2 descriptors | 93,814 | `ConsumersValid`, `OneConsumerPerFd`, `ImplementsReactor` |
| SingleConsumerTwo | 2 readers | violation | see findings |
| Timers | 3 tasks, delays 1 and 2, horizon 3 | 206,381 | `WakeupScheduled`, `SchedulerHeld`, `StoppedPopsNothing`, `StopTerminates`, `EventuallyWoken`, `CallerGoesOn` |
| TimersStale | 2 tasks | violation | see findings |
| TimersZero | 2 tasks, delays 0 and 1 | violation | see findings |
| Parallel | 3 workers, both clients of the demo | 720 | `FreedAfterAllStored`, `ResumesSuspended`, `ImplementsForkJoin`; `main()` reads a complete sum (`MainWaits`) and ends (`MainEnds`) |
| Executors | 5 coroutines, both executors | 9,946 | `HandlesSuspended`, `ImplementsAsyncCall`, `AllRunToTheirEnd` |
| WorkerPool | 2 workers, 2 roots, 2 tasks, one with a result | 27,034 | `HandlesSuspended`, `StaysOnItsWorker`, `ImplementsAsyncCall`, `PushedIsResumed` |
| WorkerPoolResult | the same | violation | see findings |
| Terminal | 6 keys, a reply, 1 fatal signal, up to 4 signals and 2 contexts | 1,826,556 | `TerminalGivenBack`, `ModesAsAskedFor`, `FatalSignalKills`, `SuspendStops`, `ReadsAsTyped`, `FindsReply`, `EndsOnlyWarned` |

Every passing run also checks the type invariant of its module. Deadlock checking
is off because every system here may stop: `run()` returns, throws or aborts,
the manager ends, the process exits or has no more keys to read.

Bounds. Descriptors: two are needed for two queues that interact, readers may
share one of them. Readers: four in the vector, two of them added while a round
is under way, give a shared queue on two descriptors, dead readers behind and
before live ones; four is also what a lost reader takes. The fifth is created
only into the full vector, for the reallocation, and readers that are alike are
created in a fixed order. Timers: three tasks give a front, a new soonest one
and one in between, or a chain of three; a task may await again until the clock
reaches `Horizon`, and the clock goes on while a blocked thread has a timer
armed, so that every deadline can be reached. Parallel: with three workers there
is a first, a middle and a last result. Terminal: the keys have every form the
parser takes (plain, arrow, arrow with modifiers, mouse, Alt+[, unknown). `Mix`
bounds signals, calls of `cursor_position` and bytes typed together: much of one
with little of the others, since a signal meets the input only through a flush
or an interrupted read. Four signals give two suspensions, or a fatal signal
inside a handler inside another; two contexts meet the handlers that the first
one left. One fatal signal stands for all six, whose handlers and slots are
alike. Executors: five coroutines give two independent nested chains. Worker
pool: two workers and two roots give each worker a task of its own and a foreign
one at the same time; `Valued` has one member, so that the run covers callers
that read a result and callers that do not. In both `AsyncCall` systems a
coroutine awaits any unborn one, so all call trees over the instance occur.

Fairness. Descriptor schedulers: the one thread continues (`WF(Scheduler)`), a
resumed body comes back (`WF(Body)`, each body of the repository reads once and
awaits), and a peer that has not hung up sends again; the property does not
claim more where a descriptor hangs up. Timers: the thread runs, time passes,
the kernel delivers. Parallel and WorkerPool: weak fairness of each thread's
step, `main()` and the coroutine's included; the operating system schedules
every thread. A mutex gets no stronger fairness than that: the critical sections
of `Parallel` are needed only finitely often. Executors: one thread, `WF(Next)`;
`Coro` is finite, as every program's set of coroutines is. Terminal has no
fairness: it is all safety, since no signal and no key need ever come. Spurious
wake-ups have no fairness.

## Findings

* **RoundRobinLost**, `fd_coroutine.hpp` 288: the iterators of `to_delete` are
  taken before the first `erase`. Two dead readers in one round: the second
  `erase` removes a live reader, and `assert(it != in_waiting.end())` (246)
  fails when its descriptor, still polled, becomes readable.
* **SingleConsumerTwo**, 347: a reader that was not resumed is visited again
  while its own descriptor is still in `fds`: "Multiple consumers" is thrown
  although the two readers wait on different descriptors.
* **TimersStale**, `fd_timers.hpp` 209: the loop pops a timer that is due before
  it has read the signal armed for it; the late signal finds the heap empty and
  `assert(!timers_.empty())` fails.
* **TimersZero**, 251: a zero duration that is the new soonest one disarms the
  POSIX timer; the timers in the heap are left without a wake-up.
* **WorkerPoolResult**, `different_threads.cpp` 195: a task schedules its caller
  while it is still returning; the caller reads its result before the task is
  done, and `assert(this->handle_.done())` (275) fails.

`Timers` uses delays other than zero, and its liveness allows for the abort of
TimersStale; `EventuallyResumed` allows for the loss of RoundRobinLost; the
properties of WorkerPool allow for the abort of WorkerPoolResult. `CallerGoesOn`
allows for a timer that throws, `MainEnds` for the crash of a frame that is
destroyed while it runs (`parallel_demo.cpp` 64): the code does both, and no
comment or assertion of it says otherwise. In the same way `WaitersValid` and
`ToDeleteIsDead` speak of the states before a reallocation under a running
reader, `EventuallyResumed` of descriptors that do not hang up,
`FreedAfterAllStored` of the results and not of the last unlock or notification
of a worker, which may touch a freed `impl_`, and `EndsOnlyWarned` of streams
without unknown keys and without a call that gave up. `PROJECT.json` lists each
of these behaviours as a hazard that no property covers. The properties of RawMode name the
signals they do not speak of: `calm` is true while each signal has found the
program between the functions of the context, with a context alive or before the
first. Without it they fail: a signal between `enable_mouse_tracking()` and
`require_mouse = true` leaves the mouse on (`linux_term.hpp` 370), and one after
the destructor finds its handlers still installed (364).

## Theorems

A run shows a property on its instance, a theorem for every value of the
constants that the named assumptions admit. Every theorem is about the module's
specification without fairness (`DemoSpec` of `ParallelDemo` has some, which no
proof uses), whose bounds (`Horizon`, `MaxSignals`, ...) are constants too; what the runs add (fairness, the order in which readers that are
alike are created, `Mix`) only takes behaviours away. Each safety proof has the same shape: an
inductive invariant, `Init => IInv`, one lemma per action (or per group of
actions that touch the same variables) for `IInv /\ [Next]_vars => IInv'`, and
the properties from `IInv`. The inductive invariants were model-checked first
(`ReplyAhead` below with the fold in place of the run that it asserts to exist).

`FdRoundRobinProofs` holds for any coroutines and descriptors, any initial
vector and any capacity. Assumptions: the named ones of `FdReader` and
`FdRoundRobin` (the vector holds distinct coroutines and fits its capacity).
`WaitersValid` is not inductive. A queue can only become stale through the one
reader that runs, so what is needed is that this reader is in no queue: it has
one slot of the vector (`VectorOK`), one entry in one queue, popped before it
was resumed (`WaitersDistinct`), and no other reader's body can touch `wants`.
`ControlOK` ties the iterator, the current reader and the program counter
together, `AwaitsADescriptor` says that a live reader awaits something,
`PollIsComplete` says that `poll()` is entered with every live reader of the vector
queued and its descriptor polled, `PreparedSoFar` the same of the part of the
vector the loop has passed; `SignalMatchesAwait` that the resumed reader awaits
what it is signalled. `IInv` is their conjunction with the properties. Theorems:
`InvariantHolds`, and from it `TypeCorrect`, `WaitersAlwaysValid`,
`PollAlwaysComplete`, `SignalAlwaysMatches`, `ToDeleteAlwaysDead`. They hold
after a lost reader as well: the loss breaks `NoneLost` and the assert, not these.
`ImplementsItsPromise` is the refinement of `Reactor`, with no hypothesis on the
rounds. It takes what the loss leaves in place: a clean-up erases no more slots
than there are elements (`EraseBounded`), hence destroys an element of the vector
(`ErasedFrame`), and the reader that runs has a slot (`Scheduling`); so a reader
that was lost stays lost (`LostForGood`). Until then (`LostOrSafe`) a
polled descriptor belongs to a live reader of the vector (`FdsBacked`) and a
reported one has one in its queue (`RevsHaveWaiters`), so that the assert holds.
`PollIsComplete` with `NoneLost` gives one half of what `Poll` promises and
`FdsBacked` the other; `WaitersValid` gives `Serve`; `NoneLost` gives `Return`, and
makes the clean-up invisible. `OneDeathIsSafe` says that two dead readers in one
round are the only way to the loss: up to the first such round, what is erased is
dead (`EraseIsOfDead`).

`FdSingleConsumerProofs` follows the same argument under the same assumptions.
The index holds one pointer per descriptor and is filled anew each round:
`FiledIsPolled` and `PreparedSoFar` relate it to `fds` and to the part of the
vector that was visited, `RunningIsFiled` to the reader that runs. Theorems:
`InvariantHolds`, `TypeCorrect`, `ConsumersAlwaysValid`, `AlwaysOneConsumer`, and
`ResumedWithItsFd`, the assert of `signal_ready()`. Here, too, what was found dead
stays dead and in its slot up to the first erasure (`FoundDead`), and a clean-up
erases no more slots than there are elements. `SafeInv` is what holds until a live
reader is lost: a polled descriptor belongs to a live reader of the vector, a
reported one has its entry, also while another reader runs (`RevsFiled`). Theorems:
`ImplementsItsPromise`, the refinement of `Reactor`, where the scheduler gives up
only when every report has been served; `OneDeathKeepsReaders`, that rounds which
find one dead reader at most lose none.

`TimerSchedulerProofs` holds for any set of timers, any delays and any horizon.
The timers that are neither new nor ended are of three kinds that exclude each
other: one may run, some are in the heap, the others await, each, the timer it is
`next` of (`ChainOK`: no two await the same). The first two kinds hold the
scheduler (`BodyOK`, `HeapOK`), and a hand-back has a caller to go to. Theorems:
`InvariantHolds`, `TypeCorrect`, `SchedulerAlwaysHeld` (the assertion on
`scheduler_`), `ResumedByOne`, the action property `StopPopsNothing`, and
`WakeupAlwaysScheduled`. The last has the hypothesis that 0 is not a delay, and
no other one: what the run TimersZero violates is violated by a zero only. Its
invariant `Served` says that the heap has a wake-up whenever the thread is about
to block, and that the durations on their way to `timer_settime()` are positive.

`SchedulableTaskProofs` holds for any set of coroutines; the only assumption is
that `None` is not one of them. `HandlesSuspended` needs to know what runs
(`RunningOK`), that a queued pair is a callee and the caller suspended on it
(`QueuedPairs`), that the trivial executor queues nothing, and that an unborn
coroutine awaits nothing. That an await is a call needs more: when the stack is
popped the top one's callee must be done. `StackedWait` says where the callee of
a stacked caller can be: done, running, above it on the stack, or the second of
a queued pair; when nothing is queued or runs, the top one's is done. Theorems:
`InvariantHolds`, `TypeCorrect`, `HandlesAlwaysSuspended` and
`ExecutorsImplementAsyncCall`, the refinement: each step of the executors is a
step of `AsyncCall` or a stutter.

`WorkerPoolProofs` holds for any workers, roots and tasks. A handle is on one
stack once (`StackOnce`) and its task suspended (`StackSuspended`); the job of a
worker is a task that it runs and nobody else (`JobOK`); a caller that awaits is
on no stack until its callee pushes it, once (`NextOK`, `ReadyOK`), and then onto
the stack of its own worker (`HomeOK`). Theorems: `InvariantHolds`, `TypeCorrect`,
`HandlesAlwaysSuspended`, the action property `AlwaysOnItsWorker`, and
`ImplementsAsync`, the refinement of `AsyncCall`. Neither `AsyncCall` nor the
module's `Spec` states fairness, so that the refinement is proved as a whole.

`ParallelProofs` holds for any set of workers. The count of the results and the
continuation are read and written under the mutex: a continuation that is set
while a result is missing is that of a suspended client (`ContinuationWaits`),
whoever goes on knows that all are there (`ClientKnows`), and only such a client
frees (`FreedByClient`), so that no result is stored in a freed object (`FreedLate`;
a worker may still unlock or notify after it); `CoroutineKnows` and `MainFollows` carry this to the
coroutine and to `main()`. Theorems: `InvariantHolds`, `TypeCorrect`,
`FreedLate`, `ResumedWhenSuspended`, `MainIsLast`, and
`ImplementsForkJoinSafety`: initial states map to initial states of `ForkJoin`,
each step to one of its steps or to a stutter. The fairness of `ForkJoin` is left
to the run.

`TerminalProofs` holds for any list of fatal signals, if
they are distinct and neither SIGTSTP nor SIGCONT, and for any number of signals
and of contexts; the run has one fatal signal. Where the program is in its calls
matters, so the invariants speak of how many calls are left of each function on
the stack. For `FatalSignalAlwaysKills`, which makes no assumption on when a
signal comes, `FatalInv` says that in the first context every handler of a fatal
signal is registered once, hence saves the default action, and that a handler
that has put it back leaves it there (`FatalFrame`). For the other three the
invariant is `CalmInv`: the program is at rest (`Awake`, `Asleep`, `Dying`), in a
function of the context (`Constructing`, `Destroying`, `Enabling`, `Disabling`),
or in one handler that found it at rest (`Suspending`, `Resuming`, `Killing`),
and the attributes, the mouse and the actions of the signals are those of that
number of calls. A handler that is interrupted by a fatal one before its next
call is `Doomed`. Theorems: `ModesTypeCorrect`, `FatalSignalAlwaysKills`;
`ModesInvariantHolds`, `TerminalAlwaysGivenBack`, `ModesAlwaysAsAskedFor`,
`SuspendAlwaysStops`. The specification is that of `Terminal`, input included: the
steps of the input leave the modes alone (`NextIsRawStep`).

`TerminalInputProofs` holds for any set of keys, any reply, any size of the
buffers and any number of keys and calls, under three assumptions of
`EventStream`. `KnownAssumption`: ESC only starts a key, so that Alt+Esc is not
among the keys, and a key whose event is not `NoEvent` is one that the parser
reads as that event when it stands alone; which keys those are is open.
`ReplyAssumption`: the reply is ESC [ digits ; digits R, its position the two
numbers, each of 16 bits. `KeyAssumption`: a key sends bytes, at least one.

What the parser makes of a buffer is a fold over its bytes. Folds are reasoned
about as runs: a run is the sequence of the results of a step function along a
sequence (`IsRun`), it exists and is unique (`RunExists`, `RunUnique`), it can
be cut and joined (`RunPrefix`, `RunRest`, `RunThen`), and the fold of the
library is its last element (`FoldIsSteps`; `DecimalFold`, `ParseFold` and
`ReplyFold` carry that to the three folds of the model). What holds along a run
is shown by induction over how far it has come (`SetInduction`, which is about
the set of the numbers for which it holds, so that no operator is a parameter).

* The invariant of the input, `StreamInv`: the unread bytes are keys that follow
  each other whole, the first perhaps cut, and the last one ends (`InputOK`);
  parser, promise and reply have their types (`StreamTyped`);
  `cursor_position()` goes on only while it has neither found the reply nor given
  up (`Asking`); and while nothing has broken into the call, the run of its loop
  along the unread bytes comes to the reply (`ReplyAhead`), however reads cut
  them. `ReplyAhead` is why the state must span the reads, and why what is typed
  ahead must be plain: `AskOK` shows that it is there when the call starts.
* For `AlwaysReadsAsTyped`, the parser treats a byte alike whatever it has
  yielded before (`ParseMoved`), and a known key yields its event with its last
  byte and nothing before (`OneEvent`, `InsideKnown`). So after each byte of a
  buffer the parser is where it would be in that key alone (`Place`), with the
  meaning of the bytes so far yielded (`NextByte`, `BufferMeans`).
* For `StreamEndsOnlyWarned`, `WarnInv` says, until `warned` is set, that among
  the unread bytes there is one reply at most, and only while `cursor_position()`
  reads (`OneReply`), so that nothing but keys is left when its loop ends
  (`EndsPlain`). The theorem has the hypothesis that the keys, one after the other
  and none of them cut, cannot spell a reply (`KeysSpellNoReply`): Alt+[ 1 ; 1 R,
  typed in this order, is one, the call ends with those, and the real reply is
  left to the parser, which throws. A plain R is a key like any other.
  `NothingSpelled` reduces the hypothesis to a check key by key: there is a set of
  states of the call's loop, its first one included and none in which the reply is
  found, that no key leaves. TLC checks it for the run's keys, R among them
  (`SpelledAssumption`). A flush that cuts what the call is reading can leave the
  end of one key and the beginning of the next to spell a reply: it sets `warned`.
  That takes two signals and seven bytes, more than `Mix` lets meet, so that this
  case is covered by the proof only.

Theorems: `InputInvariantHolds`, `AlwaysFindsReply`, `TypeCorrect` (modes and
input), `AlwaysReadsAsTyped`, `NothingSpelled`, `StreamEndsOnlyWarned`.

Only model-checked: liveness, which is beyond the prover (`EventuallyResumed`,
`EventuallyWoken`, `StopTerminates`, `CallerGoesOn`, `MainEnds`,
`PushedIsResumed`, `AllRunToTheirEnd`), and the fairness that
`ImplementsForkJoin` adds to the step simulation. Every safety property that a
passing run checks is also proved: `WakeupScheduled` and `EndsOnlyWarned` under a
hypothesis that the run satisfies (0 is not a delay; the keys spell no reply), the
others under the assumptions of their modules alone.

## Not modelled

Names, debug output and text; the buffer of `std::cin`; `poll` interrupted by a
signal in the descriptor schedulers (`posix_enforce` does not retry; no program
handles a signal there); timers added or stopped before `manage_timers()`;
several clients of one `parallel` object, or one dropped without waiting, and
`awaitable_computation_tmp()`, which awaits a second one; the scheduler
`immediate` and `task::start()`; the values of results and the frames their
readers free; errors of `poll` and `read` on the terminal other than EINTR;
`get_terminal_size()`, which keeps no state; `animation.cpp`, sequential
generators that print frames, resumed in turn by one loop; `common.hpp`, `debug.hpp`, `vt100.hpp`, `types.hpp` and `concepts.hpp`: error
wrapper, formatting and compile-time constraints.

## Plan

1. Done: `FdReader`, `FdRoundRobin`, `FdSingleConsumer`, `TimerScheduler` with
   chains and exceptions, `Parallel` over `ForkJoin` with its clients in
   `ParallelDemo`, `SchedulableTask` and `WorkerPool` over `AsyncCall`, `RawMode`
   and `EventStream` composed in `Terminal`; proofs of every safety
   property of the runs.
2. Done: `Reactor`, what both descriptor schedulers promise their readers, and
   the two refinements, model-checked and proved.
3. Left: `poll` interrupted by a signal, where the `continue` of `posix_enforce`
   leaves its loop and `run()` goes on with the `revents` of the round before;
   the buffer of `std::cin`; `stop()` before `manage_timers()`.
