------------------------------ MODULE Terminal ------------------------------
(***************************************************************************)
(* A program that reads the terminal in raw mode: the modes and the signal *)
(* handlers of RawMode together with the input of EventStream.  They meet  *)
(* in three places: tcsetattr(TCSAFLUSH) drops input, also in a handler; a *)
(* handler interrupts the read() of cursor_position(); and an assertion    *)
(* that fails raises SIGABRT, which is one of HANDLED_SIGNALS.             *)
(***************************************************************************)
EXTENDS RawMode, EventStream

vars == <<rawVars, streamVars>>

ASSUME AbortAssumption == "SIGABRT" \in FatalSignal

TypeOK == RawTypeOK /\ StreamTypeOK

Init == RawInit /\ StreamInit

\* event_stream() and cursor_position() are members of the context.
Reads == Runs /\ AtRest /\ context

SetAttr == TcSetAttr /\ Flush

\* poll() tries again after EINTR, and so does event_stream() after read().
Interrupt(s) ==
    /\ Deliver(s)
    /\ UNCHANGED streamVars \/ (disp[s] # "default" /\ AtRest /\ InterruptedRead)

Abort ==
    /\ Reads
    /\ FailsAssertion
    /\ Post("SIGABRT")
    /\ UNCHANGED <<modeVars, disp, old, frames, proc, progVars, toSend, calm, streamVars>>

Next ==
    \/ \E s \in Signal : (Send(s) /\ UNCHANGED streamVars) \/ Interrupt(s)
    \/ SetAttr
    \/ RawProgress /\ UNCHANGED streamVars
    \/ program = "idle" /\ RawProgram /\ UNCHANGED streamVars
    \/ Reads /\ StreamNext /\ UNCHANGED rawVars
    \/ Abort

Spec == Init /\ [][Next]_vars

=============================================================================
