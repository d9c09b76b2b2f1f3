---------------------------- MODULE ParallelDemo ----------------------------
(***************************************************************************)
(* parallel_demo.cpp: Parallel and its two clients.  very_long_computation *)
(* joins.  awaitable_computation() is a coroutine that main() starts,      *)
(* whose result main() waits for on a semaphore of its promise, and whose  *)
(* frame main() then destroys.  A coroutine that was suspended is resumed  *)
(* by the last worker, so that its end runs beside main().                 *)
(***************************************************************************)
EXTENDS Parallel, Naturals

VARIABLES coro,         \* "body", "returned" (past return_value()), "unwound" or "final"
          signal_done_, \* the semaphore
          result_,      \* the results that were summed up
          main,         \* "acquire", "destroy", or "ended"
          frame         \* the coroutine frame has not been freed

demoVars == <<coro, signal_done_, result_, main, frame>>
allVars == <<vars, demoVars>>

DemoTypeOK ==
    /\ TypeOK
    /\ coro \in {"body", "returned", "unwound", "final"}
    /\ signal_done_ \in 0..1
    /\ result_ \subseteq Worker
    /\ main \in {"acquire", "destroy", "ended"}
    /\ frame \in BOOLEAN

DemoInit ==
    /\ Init
    /\ coro = "body" /\ signal_done_ = 0 /\ result_ = {}
    /\ main = "acquire" /\ frame = TRUE

\* The coroutine goes on in a frame that main() may have freed.
Runs(from, to) ==
    /\ mode = "await"
    /\ coro = from /\ coro' = to
    /\ crashed' \in IF frame THEN {FALSE} ELSE {FALSE, TRUE}

-----------------------------------------------------------------------------
(* The coroutine, after co_await.                                          *)
ReturnWithoutRelease ==  \* mutant: nobody is told
    /\ cpc = "go"
    /\ Runs("body", "returned")
    /\ result_' = results
    /\ UNCHANGED <<mode, wpc, cpc, owner, results, continuation, alive, signal_done_, main, frame>>

return_value ==
    /\ cpc = "go"
    /\ Runs("body", "returned")
    /\ result_' = results
    /\ signal_done_' = 1
    /\ UNCHANGED <<mode, wpc, cpc, owner, results, continuation, alive, main, frame>>

\* p goes out of scope.
Unwind ==
    /\ Runs("returned", "unwound")
    /\ cpc' = "gone"
    /\ alive' = FALSE
    /\ UNCHANGED <<mode, wpc, owner, results, continuation, signal_done_, result_, main, frame>>

FinalSuspend ==
    /\ Runs("unwound", "final")
    /\ UNCHANGED <<mode, wpc, cpc, owner, results, continuation, alive,
                   signal_done_, result_, main, frame>>

-----------------------------------------------------------------------------
(* main(), once the coroutine has suspended for the first time or ended.   *)
MainRuns == mode = "await" /\ (continuation \/ coro = "final")

result ==
    /\ MainRuns
    /\ main = "acquire" /\ main' = "destroy"
    /\ signal_done_ = 1 /\ signal_done_' = 0
    /\ UNCHANGED <<vars, coro, result_, frame>>

\* ~coro(): a coroutine that still runs is destroyed as if it were suspended
\* at its co_await, and p with it.
DestroyAtOnce ==  \* mutant: result() does not wait
    /\ MainRuns
    /\ main \in {"acquire", "destroy"} /\ main' = "ended"
    /\ frame' = FALSE
    /\ alive' = FALSE
    /\ crashed' \in IF coro = "final" THEN {FALSE} ELSE {FALSE, TRUE}
    /\ UNCHANGED <<mode, wpc, cpc, owner, results, continuation, coro, signal_done_, result_>>

DestroyCoro ==
    /\ MainRuns
    /\ main = "destroy" /\ main' = "ended"
    /\ frame' = FALSE
    /\ alive' = FALSE
    /\ crashed' \in IF coro = "final" THEN {FALSE} ELSE {FALSE, TRUE}
    /\ UNCHANGED <<mode, wpc, cpc, owner, results, continuation, coro, signal_done_, result_>>

-----------------------------------------------------------------------------
\* A worker that resumed the coroutine goes on when it is suspended again.
Work(w) ==
    /\ WorkerStep(w)
    /\ wpc[w] = "unlock" => coro = "final"
    /\ UNCHANGED demoVars

Await == (AwaitReady \/ Attach) /\ UNCHANGED demoVars

JoiningThread == (Join \/ (mode = "join" /\ Destroy)) /\ UNCHANGED demoVars

Coroutine == Await \/ return_value \/ Unwind \/ FinalSuspend

Main == result \/ DestroyCoro

DemoNext ==
    /\ ~crashed
    /\ \/ \E w \in Worker : Work(w)
       \/ JoiningThread \/ Coroutine \/ Main
       \/ SpuriousWakeup /\ UNCHANGED demoVars

\* Fairness: every thread is scheduled.
DemoSpec ==
    /\ DemoInit /\ [][DemoNext]_allVars
    /\ \A w \in Worker : WF_allVars(~crashed /\ Work(w))
    /\ WF_allVars(~crashed /\ JoiningThread)
    /\ WF_allVars(~crashed /\ Coroutine)
    /\ WF_allVars(~crashed /\ Main)

-----------------------------------------------------------------------------
(* Properties.                                                             *)

(***************************************************************************)
(* main() reads the sum of all results, and destroys the frame only when   *)
(* no worker may resume it any more.  That may be too early all the same:  *)
(* the coroutine need not have reached its final suspension.               *)
(***************************************************************************)
MainWaits ==
    /\ main # "acquire" => result_ = Worker
    /\ ~frame => coro # "body" /\ \A w \in Worker : wpc[w] # "resume"

(***************************************************************************)
(* main() ends, unless the process has died of the frame it freed early.   *)
(***************************************************************************)
MainEnds == (mode = "await") ~> (main = "ended" \/ crashed)
=============================================================================
