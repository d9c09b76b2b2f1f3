------------------------------ MODULE RawMode ------------------------------
(***************************************************************************)
(* raw_mode_context_basic of linux_term.hpp: a context puts the terminal   *)
(* in raw mode, its signal handlers put it back before the process stops   *)
(* or dies and in raw mode again when it continues; enable_mouse_t turns   *)
(* mouse tracking on for its lifetime.  The program has one context at a   *)
(* time, as with_raw_mode() gives it.                                      *)
(*                                                                         *)
(* A function of the code is the sequence of the calls it makes, and       *)
(* frames is the stack of those that run: the program at the bottom, the   *)
(* handlers that interrupted it above.  Signals arrive between any two     *)
(* calls.  The kernel blocks a signal while its handler runs and delivers  *)
(* it before the code beneath goes on.                                     *)
(***************************************************************************)
EXTENDS Integers, Sequences

CONSTANTS Fatal,        \* HANDLED_SIGNALS
          MaxSignals,   \* bound: signals sent to the process
          MaxContexts,  \* bound: contexts constructed
          None

VARIABLES attrs,    \* the terminal's attributes
          saved,    \* orig_termios
          mouse,    \* the terminal reports the mouse
          require,  \* require_mouse
          disp,     \* disposition of each signal
          old,      \* old_sa, its indexes named after the signals
          pending,  \* signals to be delivered
          frames,
          proc,     \* the process: "running", "stopped", "dead" or "exited"
          context, guard,  \* a context, an enable_mouse_t, is alive
          contexts, toSend, \* contexts constructed so far, signals still to be sent
          calm      \* history: see Deliver

modeVars == <<attrs, saved, mouse, require>>
sigVars  == <<disp, old, pending>>
progVars == <<context, guard, contexts>>
rawVars  == <<modeVars, sigVars, frames, proc, progVars, toSend, calm>>

TSTP == "SIGTSTP"
CONT == "SIGCONT"
FatalSignal == {Fatal[i] : i \in 1..Len(Fatal)}
Signal == FatalSignal \cup {TSTP, CONT}

ASSUME FatalAssumption ==
    /\ Fatal \in Seq(STRING) /\ FatalSignal \cap {TSTP, CONT} = {} /\ None \notin Signal
    /\ \A i, j \in 1..Len(Fatal) : Fatal[i] = Fatal[j] => i = j
    /\ MaxSignals \in Nat /\ MaxContexts \in Nat

Call(name, sig, arg) == [call |-> name, sig |-> sig, arg |-> arg]
Do(name) == Call(name, None, None)

RawTypeOK ==
    /\ attrs \in {"cooked", "raw"} /\ saved \in {"cooked", "raw"}
    /\ mouse \in BOOLEAN /\ require \in BOOLEAN
    /\ disp \in [Signal -> {"default", "fatal", "tstp", "cont"}]
    /\ old \in [Signal -> {"default", "fatal", "tstp", "cont"}]
    /\ pending \subseteq Signal
    /\ frames # << >> /\ frames[1].sig = None
    /\ \A i \in 2..Len(frames) : frames[i].sig \in Signal
    /\ \A i, j \in 2..Len(frames) : frames[i].sig = frames[j].sig => i = j
    /\ proc \in {"running", "stopped", "dead", "exited"}
    /\ context \in BOOLEAN /\ guard \in BOOLEAN /\ calm \in BOOLEAN
    /\ guard => context
    /\ contexts \in 0..MaxContexts /\ toSend \in 0..MaxSignals

RawInit ==
    /\ attrs = "cooked" /\ saved = "cooked"
    /\ mouse = FALSE /\ require = FALSE
    /\ disp = [s \in Signal |-> "default"] /\ old = [s \in Signal |-> "default"]
    /\ pending = {}
    /\ frames = <<[sig |-> None, calls |-> << >>]>>
    /\ proc = "running"
    /\ context = FALSE /\ guard = FALSE /\ contexts = 0 /\ toSend \in 0..MaxSignals
    /\ calm = TRUE

-----------------------------------------------------------------------------
(* The functions.                                                          *)
RawModeEnable  == <<Do("tcgetattr"), Do("setraw")>>
RawModeDisable == <<Do("restore")>>

\* set_handler() keeps the old action under the signal's own index.
SetHandler(s, h) == <<Call("sigaction", s, h)>>

RestoreOldAndRaise(s, i) == <<Call("reinstate", s, i), Call("raise", s, None)>>

RegisterSignalHandlers ==
    [i \in 1..Len(Fatal) |-> Call("sigaction", Fatal[i], "fatal")]
        \o SetHandler(TSTP, "tstp")

HandleSigtstpOwnIndex(s) ==  \* mutant: INDEX_HANDLER_SIGTSTP
    SetHandler(CONT, "cont") \o RawModeDisable \o <<Do("mouseoffif")>>
        \o RestoreOldAndRaise(s, TSTP)

HandleSigtstp(s) ==
    SetHandler(CONT, "cont") \o RawModeDisable \o <<Do("mouseoffif")>>
        \o RestoreOldAndRaise(s, CONT)

HandleSigcontNoMouse(s) ==  \* mutant: the mouse stays off
    SetHandler(TSTP, "tstp") \o RawModeEnable \o RestoreOldAndRaise(s, TSTP)

HandleSigcont(s) ==
    SetHandler(TSTP, "tstp") \o RawModeEnable \o <<Do("mouseonif")>>
        \o RestoreOldAndRaise(s, TSTP)

HandleFatalSignalRaises(s) ==  \* mutant: the old action is not put back
    RawModeDisable \o <<Do("mouseoffif"), Call("raise", s, None)>>

HandleFatalSignalNoMouse(s) ==  \* mutant: the mouse stays on
    RawModeDisable \o RestoreOldAndRaise(s, s)

HandleFatalSignal(s) ==
    RawModeDisable \o <<Do("mouseoffif")>> \o RestoreOldAndRaise(s, s)

Handler(h, s) ==
    CASE h = "fatal" -> HandleFatalSignal(s)
      [] h = "tstp"  -> HandleSigtstp(s)
      [] h = "cont"  -> HandleSigcont(s)

-----------------------------------------------------------------------------
(* The kernel.                                                             *)
Blocked     == {frames[i].sig : i \in 2..Len(frames)}
Deliverable == IF proc = "running" THEN pending \ Blocked ELSE {}

\* The program is not inside a function of the context, nor in a handler.
AtRest == Len(frames) = 1 /\ frames[1].calls = << >>

\* SIGTSTP and SIGCONT discard each other.
Post(s) == pending' = (pending \cup {s}) \ (IF s = TSTP THEN {CONT} ELSE
                                            IF s = CONT THEN {TSTP} ELSE {})

Send(s) ==
    /\ proc \in {"running", "stopped"}
    /\ toSend > 0
    /\ toSend' = toSend - 1
    /\ Post(s)
    /\ proc' = IF s = CONT THEN "running" ELSE proc
    /\ UNCHANGED <<modeVars, disp, old, frames, progVars, calm>>

\* calm: every signal so far has found the program at rest, with a context
\* that is alive, or before its first one.
Deliver(s) ==
    /\ s \in Deliverable
    /\ pending' = pending \ {s}
    /\ calm' = (calm /\ AtRest /\ (context \/ contexts = 0))
    /\ IF disp[s] = "default"
       THEN /\ proc' = IF s = CONT THEN proc ELSE IF s = TSTP THEN "stopped" ELSE "dead"
            /\ UNCHANGED frames
       ELSE /\ frames' = Append(frames, [sig |-> s, calls |-> Handler(disp[s], s)])
            /\ UNCHANGED proc
    /\ UNCHANGED <<modeVars, disp, old, progVars, toSend>>

-----------------------------------------------------------------------------
(* The next call of the function on top.                                   *)
Top == frames[Len(frames)]

\* Handlers go first.
Runs == proc = "running" /\ Deliverable = {}

Calls(names) ==
    /\ Runs
    /\ Top.calls # << >>
    /\ Head(Top.calls).call \in names
    /\ frames' = [frames EXCEPT ![Len(frames)].calls = Tail(@)]
    /\ UNCHANGED <<proc, progVars, toSend, calm>>

TcGetAttr ==
    /\ Calls({"tcgetattr"})
    /\ saved' = attrs
    /\ UNCHANGED <<attrs, mouse, require, sigVars>>

\* tcsetattr(TCSAFLUSH), with the attributes kept or made raw.
TcSetAttr ==
    /\ Calls({"setraw", "restore"})
    /\ attrs' = IF Head(Top.calls).call = "setraw" THEN "raw" ELSE saved
    /\ UNCHANGED <<saved, mouse, require, sigVars>>

MouseTracking ==
    /\ Calls({"mouseon", "mouseoff", "mouseonif", "mouseoffif"})
    /\ mouse' = LET name == Head(Top.calls).call
                IN  CASE name = "mouseon"  -> TRUE
                      [] name = "mouseoff" -> FALSE
                      [] OTHER -> IF require THEN name = "mouseonif" ELSE mouse
    /\ UNCHANGED <<attrs, saved, require, sigVars>>

RequireMouse ==
    /\ Calls({"require", "unrequire"})
    /\ require' = (Head(Top.calls).call = "require")
    /\ UNCHANGED <<attrs, saved, mouse, sigVars>>

Sigaction ==
    /\ Calls({"sigaction"})
    /\ LET s == Head(Top.calls).sig
       IN  /\ disp' = [disp EXCEPT ![s] = Head(Top.calls).arg]
           /\ old' = [old EXCEPT ![s] = disp[s]]
    /\ UNCHANGED <<modeVars, pending>>

Reinstate ==
    /\ Calls({"reinstate"})
    /\ disp' = [disp EXCEPT ![Head(Top.calls).sig] = old[Head(Top.calls).arg]]
    /\ UNCHANGED <<modeVars, old, pending>>

Raise ==
    /\ Calls({"raise"})
    /\ Post(Head(Top.calls).sig)
    /\ UNCHANGED <<modeVars, disp, old>>

HandlerReturns ==
    /\ Runs
    /\ Len(frames) > 1
    /\ Top.calls = << >>
    /\ frames' = SubSeq(frames, 1, Len(frames) - 1)
    /\ UNCHANGED <<modeVars, sigVars, proc, progVars, toSend, calm>>

-----------------------------------------------------------------------------
(* The program.                                                            *)
Enters(calls) ==
    /\ Runs
    /\ AtRest
    /\ frames' = <<[sig |-> None, calls |-> calls]>>
    /\ UNCHANGED <<modeVars, sigVars, proc, toSend, calm>>

Construct ==
    /\ ~context
    /\ contexts < MaxContexts
    /\ Enters(RawModeEnable \o RegisterSignalHandlers)
    /\ context' = TRUE /\ contexts' = contexts + 1
    /\ UNCHANGED guard

DestroyFirst ==  \* mutant: the context may go before its enable_mouse_t
    /\ context
    /\ Enters(RawModeDisable)
    /\ context' = FALSE
    /\ UNCHANGED <<guard, contexts>>

Destroy ==
    /\ context /\ ~guard
    /\ Enters(RawModeDisable)
    /\ context' = FALSE
    /\ UNCHANGED <<guard, contexts>>

EnableMouse ==
    /\ context /\ ~guard
    /\ Enters(<<Do("mouseon"), Do("require")>>)
    /\ guard' = TRUE
    /\ UNCHANGED <<context, contexts>>

DisableMouse ==
    /\ guard
    /\ Enters(<<Do("mouseoff"), Do("unrequire")>>)
    /\ guard' = FALSE
    /\ UNCHANGED <<context, contexts>>

Exit ==
    /\ Runs /\ AtRest /\ ~context
    /\ proc' = "exited"
    /\ UNCHANGED <<modeVars, sigVars, frames, progVars, toSend, calm>>

-----------------------------------------------------------------------------
\* What goes on by itself, but for TcSetAttr, which drops input too.
RawProgress ==
    \/ TcGetAttr \/ MouseTracking \/ RequireMouse
    \/ Sigaction \/ Reinstate \/ Raise \/ HandlerReturns

\* What the program does of its own accord.
RawProgram == Construct \/ Destroy \/ EnableMouse \/ DisableMouse \/ Exit

RawNext ==
    \/ \E s \in Signal : Send(s) \/ Deliver(s)
    \/ TcSetAttr \/ RawProgress \/ RawProgram

RawSpec == RawInit /\ [][RawNext]_rawVars

-----------------------------------------------------------------------------
(* Properties.  A definition above marked "mutant" is a faulty variant of  *)
(* the one that follows it, used to show that a property can fail.         *)

(***************************************************************************)
(* A process that is stopped, killed or has exited leaves the terminal as  *)
(* it found it, over any number of suspensions, unless a signal came while *)
(* a function of the context ran or after the context was destroyed.       *)
(***************************************************************************)
TerminalGivenBack == calm /\ proc # "running" => attrs = "cooked" /\ ~mouse

(***************************************************************************)
(* The program finds the terminal as it asked for it, also after it was    *)
(* suspended: raw while it has a context, with the mouse while it has an   *)
(* enable_mouse_t.  With the same exception.                               *)
(***************************************************************************)
ModesAsAskedFor ==
    calm /\ Runs /\ AtRest =>
        /\ attrs = IF context THEN "raw" ELSE "cooked"
        /\ mouse = guard /\ require = guard

(***************************************************************************)
(* The handler of a fatal signal returns with the signal raised again and  *)
(* its default action in place, whatever it interrupted: the process dies. *)
(* With a second context the old action is the handler itself.             *)
(***************************************************************************)
FatalSignalKills ==
    Runs /\ Top.sig \in FatalSignal /\ Top.calls = << >> /\ contexts <= 1 =>
        Top.sig \in pending /\ disp[Top.sig] = "default"

(***************************************************************************)
(* The handler of SIGTSTP returns with the signal raised again and its     *)
(* default action in place: the process stops, each time.                  *)
(***************************************************************************)
SuspendStops ==
    calm /\ Runs /\ Top.sig = TSTP /\ Top.calls = << >> =>
        TSTP \in pending /\ disp[TSTP] = "default" /\ disp[CONT] = "cont"
=============================================================================
