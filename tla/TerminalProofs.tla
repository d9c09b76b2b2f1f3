--------------------------- MODULE TerminalProofs ---------------------------
(***************************************************************************)
(* Proofs about the modes of the terminal and the signal handlers, for any *)
(* list of fatal signals, any number of signals and of contexts, in a      *)
(* program that also reads the terminal: the theorems are about Terminal,  *)
(* whose failed assertions raise a signal.                                 *)
(***************************************************************************)
EXTENDS Terminal, SequenceTheorems, TLAPS

-----------------------------------------------------------------------------
(* What is left of a function: its last calls.                             *)
Rest(q, f) == /\ Len(q) <= Len(f)
              /\ \A i \in 1..Len(q) : q[i] = f[Len(f) - Len(q) + i]

LEMMA RestTail ==
    ASSUME NEW S, NEW f \in Seq(S), NEW q \in Seq(S), Rest(q, f), q # << >>
    PROVE  /\ Len(q) \in 1..Len(f)
           /\ Head(q) = f[Len(f) - Len(q) + 1]
           /\ Tail(q) \in Seq(S) /\ Len(Tail(q)) = Len(q) - 1
           /\ Rest(Tail(q), f)
<1>1. PICK n \in Nat \ {0} : Len(q) = n
  BY EmptySeq, LenProperties
<1>2. PICK m \in Nat : Len(f) = m
  BY LenProperties
<1>3. n <= m /\ \A i \in 1..n : q[i] = f[m - n + i]
  BY <1>1, <1>2 DEF Rest
<1>4. /\ Tail(q) \in Seq(S) /\ Len(Tail(q)) = n - 1
      /\ \A i \in 1..(n - 1) : Tail(q)[i] = q[i + 1]
  BY <1>1, HeadTailProperties
<1>5. Head(q) = q[1]
  OBVIOUS
<1>6. Rest(Tail(q), f)
  <2>1. ASSUME NEW i \in 1..(n - 1) PROVE Tail(q)[i] = f[m - (n - 1) + i]
    <3>1. i + 1 \in 1..n /\ m - n + (i + 1) = m - (n - 1) + i
      BY <1>1
    <3> QED
      BY <1>3, <1>4, <3>1
  <2> QED
    BY <1>2, <1>3, <1>4, <2>1 DEF Rest
<1> QED
  BY <1>1, <1>2, <1>3, <1>4, <1>5, <1>6

(* A function that has returned, and one that has not begun.               *)
LEMMA RestEnds ==
    ASSUME NEW S, NEW f \in Seq(S)
    PROVE  Rest(f, f) /\ Rest(<< >>, f)
<1>1. PICK m \in Nat : Len(f) = m
  BY LenProperties
<1>2. Len(<< >>) = 0 /\ \A i \in 1..0 : FALSE
  OBVIOUS
<1> QED
  BY <1>1, <1>2 DEF Rest

-----------------------------------------------------------------------------
(* The calls there are, and the functions they make up.                    *)
AnyCall ==
    {Do(name) : name \in {"tcgetattr", "setraw", "restore", "mouseon", "mouseoff", "mouseonif",
                          "mouseoffif", "require", "unrequire"}}
      \cup {Call("sigaction", s, "fatal") : s \in FatalSignal}
      \cup {Call("sigaction", TSTP, "tstp"), Call("sigaction", CONT, "cont")}
      \cup {Call("reinstate", s, s) : s \in FatalSignal}
      \cup {Call("reinstate", s, i) : s \in {TSTP, CONT}, i \in {TSTP, CONT}}
      \cup {Call("raise", s, None) : s \in Signal}

LEMMA CallParts ==
    /\ \A name, s, arg : /\ Call(name, s, arg).call = name /\ Call(name, s, arg).sig = s
                         /\ Call(name, s, arg).arg = arg
    /\ \A name : Do(name).call = name
  BY DEF Call, Do

Constructor  == RawModeEnable \o RegisterSignalHandlers
MouseEnable  == <<Do("mouseon"), Do("require")>>
MouseDisable == <<Do("mouseoff"), Do("unrequire")>>

LEMMA SignalFacts ==
    /\ TSTP \in Signal /\ CONT \in Signal /\ TSTP # CONT /\ TSTP # None /\ CONT # None
    /\ FatalSignal \subseteq Signal /\ TSTP \notin FatalSignal /\ CONT \notin FatalSignal
    /\ None \notin Signal
    /\ \A s \in Signal : s \in FatalSignal \/ s = TSTP \/ s = CONT
<1>1. TSTP # CONT
  BY DEF TSTP, CONT
<1> QED
  BY <1>1, FatalAssumption DEF Signal

(* Concatenation, for the functions that the handlers are made of.         *)
LEMMA FourCalls ==
    ASSUME NEW S, NEW a \in S, NEW b \in S, NEW c \in S, NEW d \in S, NEW f,
           f = <<a>> \o <<b>> \o <<c, d>>
    PROVE  /\ f \in Seq(S) /\ Len(f) = 4
           /\ f[1] = a /\ f[2] = b /\ f[3] = c /\ f[4] = d
  OBVIOUS

LEMMA JoinOne ==
    ASSUME NEW S, NEW g \in Seq(S), NEW n \in Nat, Len(g) = n, NEW c \in S
    PROVE  /\ g \o <<c>> \in Seq(S) /\ Len(g \o <<c>>) = n + 1
           /\ \A i \in 1..n : (g \o <<c>>)[i] = g[i]
           /\ (g \o <<c>>)[n + 1] = c
  OBVIOUS

LEMMA JoinTwo ==
    ASSUME NEW S, NEW g \in Seq(S), NEW n \in Nat, Len(g) = n, NEW c \in S, NEW d \in S
    PROVE  /\ g \o <<c, d>> \in Seq(S) /\ Len(g \o <<c, d>>) = n + 2
           /\ \A i \in 1..n : (g \o <<c, d>>)[i] = g[i]
           /\ (g \o <<c, d>>)[n + 1] = c
           /\ (g \o <<c, d>>)[n + 2] = d
  OBVIOUS

LEMMA TwoCalls ==
    ASSUME NEW S, NEW a \in S, NEW b \in S
    PROVE  /\ <<a>> \o <<b>> \in Seq(S) /\ Len(<<a>> \o <<b>>) = 2
           /\ (<<a>> \o <<b>>)[1] = a /\ (<<a>> \o <<b>>)[2] = b
  BY ConcatProperties

LEMMA FiveCalls ==
    ASSUME NEW S, NEW a \in S, NEW b \in S, NEW c \in S, NEW d \in S, NEW e \in S
    PROVE  LET f == <<a>> \o <<b>> \o <<c>> \o <<d, e>>
           IN  /\ f \in Seq(S) /\ Len(f) = 5
               /\ f[1] = a /\ f[2] = b /\ f[3] = c /\ f[4] = d /\ f[5] = e
<1> DEFINE g == <<a>> \o <<b>>
           h == g \o <<c>>
           f == h \o <<d, e>>
<1>1. g \in Seq(S) /\ Len(g) = 2 /\ g[1] = a /\ g[2] = b
  BY TwoCalls
<1> HIDE DEF g
<1>2. h \in Seq(S) /\ Len(h) = 2 + 1 /\ h[2 + 1] = c /\ \A i \in 1..2 : h[i] = g[i]
  BY <1>1, JoinOne
<1> HIDE DEF h
<1>3. h \in Seq(S) /\ Len(h) = 3 /\ h[1] = a /\ h[2] = b /\ h[3] = c
  BY <1>1, <1>2
<1>4. \A n \in Nat : Len(h) = n => f \in Seq(S) /\ Len(f) = n + 2 /\ f[n + 1] = d /\ f[n + 2] = e
  BY <1>3, JoinTwo
<1>5. \A n \in Nat : Len(h) = n => \A i \in 1..n : f[i] = h[i]
  BY <1>3, JoinTwo
<1>6. /\ f \in Seq(S) /\ Len(f) = 3 + 2 /\ f[3 + 1] = d /\ f[3 + 2] = e
      /\ \A i \in 1..3 : f[i] = h[i]
  BY <1>3, <1>4, <1>5
<1> HIDE DEF f
<1>7. /\ f \in Seq(S) /\ Len(f) = 5
      /\ f[1] = a /\ f[2] = b /\ f[3] = c /\ f[4] = d /\ f[5] = e
  BY <1>3, <1>6
<1> QED
  BY <1>7, Zenon DEF f, g, h

LEMMA SixCalls ==
    ASSUME NEW S, NEW a \in S, NEW b \in S, NEW c \in S, NEW d \in S, NEW e \in S, NEW g \in S,
           NEW f, f = <<a>> \o <<b, c>> \o <<d>> \o <<e, g>>
    PROVE  /\ f \in Seq(S) /\ Len(f) = 6
           /\ f[1] = a /\ f[2] = b /\ f[3] = c /\ f[4] = d /\ f[5] = e /\ f[6] = g
  OBVIOUS

LEMMA FatalCalls ==
    ASSUME NEW s \in FatalSignal
    PROVE  LET f == HandleFatalSignal(s)
           IN  /\ f \in Seq(AnyCall) /\ Len(f) = 4
               /\ f[1] = Do("restore") /\ f[2] = Do("mouseoffif")
               /\ f[3] = Call("reinstate", s, s) /\ f[4] = Call("raise", s, None)
<1>1. /\ Do("restore") \in AnyCall /\ Do("mouseoffif") \in AnyCall
      /\ Call("reinstate", s, s) \in AnyCall /\ Call("raise", s, None) \in AnyCall
  BY SignalFacts DEF AnyCall
<1>2. HandleFatalSignal(s) = <<Do("restore")>> \o <<Do("mouseoffif")>>
                               \o <<Call("reinstate", s, s), Call("raise", s, None)>>
  BY DEF HandleFatalSignal, RawModeDisable, RestoreOldAndRaise
<1> QED
  BY <1>1, <1>2, FourCalls

LEMMA TstpCalls ==
    ASSUME NEW s \in {TSTP, CONT}
    PROVE  LET f == HandleSigtstp(s)
           IN  /\ f \in Seq(AnyCall) /\ Len(f) = 5
               /\ f[1] = Call("sigaction", CONT, "cont")
               /\ f[2] = Do("restore") /\ f[3] = Do("mouseoffif")
               /\ f[4] = Call("reinstate", s, CONT) /\ f[5] = Call("raise", s, None)
<1>1. /\ Call("sigaction", CONT, "cont") \in AnyCall
      /\ Do("restore") \in AnyCall /\ Do("mouseoffif") \in AnyCall
      /\ Call("reinstate", s, CONT) \in AnyCall /\ Call("raise", s, None) \in AnyCall
  BY SignalFacts DEF AnyCall
<1>2. HandleSigtstp(s) = <<Call("sigaction", CONT, "cont")>> \o <<Do("restore")>>
                           \o <<Do("mouseoffif")>>
                           \o <<Call("reinstate", s, CONT), Call("raise", s, None)>>
  BY DEF HandleSigtstp, SetHandler, RawModeDisable, RestoreOldAndRaise
<1> QED
  BY <1>1, <1>2, FiveCalls

LEMMA ContCalls ==
    ASSUME NEW s \in {TSTP, CONT}
    PROVE  LET f == HandleSigcont(s)
           IN  /\ f \in Seq(AnyCall) /\ Len(f) = 6
               /\ f[1] = Call("sigaction", TSTP, "tstp")
               /\ f[2] = Do("tcgetattr") /\ f[3] = Do("setraw") /\ f[4] = Do("mouseonif")
               /\ f[5] = Call("reinstate", s, TSTP) /\ f[6] = Call("raise", s, None)
<1>1. /\ Call("sigaction", TSTP, "tstp") \in AnyCall
      /\ Do("tcgetattr") \in AnyCall /\ Do("setraw") \in AnyCall /\ Do("mouseonif") \in AnyCall
      /\ Call("reinstate", s, TSTP) \in AnyCall /\ Call("raise", s, None) \in AnyCall
  BY SignalFacts DEF AnyCall
<1>2. HandleSigcont(s) = <<Call("sigaction", TSTP, "tstp")>>
                           \o <<Do("tcgetattr"), Do("setraw")>> \o <<Do("mouseonif")>>
                           \o <<Call("reinstate", s, TSTP), Call("raise", s, None)>>
  BY DEF HandleSigcont, SetHandler, RawModeEnable, RestoreOldAndRaise
<1> QED
  BY <1>1, <1>2, SixCalls

(* raw_mode_enable(), a sigaction() per fatal signal, and SIGTSTP's.       *)
LEMMA ConstructorCalls ==
    LET f == Constructor
        n == Len(Fatal)
    IN  /\ n \in Nat /\ f \in Seq(AnyCall) /\ Len(f) = n + 3
        /\ f[1] = Do("tcgetattr") /\ f[2] = Do("setraw")
        /\ \A i \in 1..n : f[i + 2] = Call("sigaction", Fatal[i], "fatal")
        /\ f[n + 3] = Call("sigaction", TSTP, "tstp")
<1> DEFINE a == Do("tcgetattr")
           b == Do("setraw")
           g == [i \in 1..Len(Fatal) |-> Call("sigaction", Fatal[i], "fatal")]
           t == Call("sigaction", TSTP, "tstp")
<1>1. PICK n \in Nat : Len(Fatal) = n
  BY FatalAssumption, LenProperties
<1>2. a \in AnyCall /\ b \in AnyCall /\ t \in AnyCall
  BY SignalFacts DEF AnyCall
<1>3. \A i \in 1..n : Call("sigaction", Fatal[i], "fatal") \in AnyCall
  <2>1. \A i \in 1..n : Fatal[i] \in FatalSignal
    BY <1>1 DEF FatalSignal
  <2> QED
    BY <2>1 DEF AnyCall
<1>4. g \in Seq(AnyCall) /\ Len(g) = n /\ \A i \in 1..n : g[i] = Call("sigaction", Fatal[i], "fatal")
  BY <1>1, <1>3
<1>5. Constructor = <<a, b>> \o (g \o <<t>>)
  BY DEF Constructor, RawModeEnable, RegisterSignalHandlers, SetHandler
<1> HIDE DEF a, b, g, t
<1>6. /\ g \o <<t>> \in Seq(AnyCall) /\ Len(g \o <<t>>) = n + 1
      /\ \A i \in 1..n : (g \o <<t>>)[i] = g[i]
      /\ (g \o <<t>>)[n + 1] = t
  BY <1>2, <1>4
<1>7. /\ Constructor \in Seq(AnyCall) /\ Len(Constructor) = n + 3
      /\ Constructor[1] = a /\ Constructor[2] = b
      /\ \A i \in 1..(n + 1) : Constructor[i + 2] = (g \o <<t>>)[i]
  BY <1>2, <1>5, <1>6
<1>8. \A i \in 1..n : i \in 1..(n + 1)
  OBVIOUS
<1>9. n + 1 \in 1..(n + 1) /\ (n + 1) + 2 = n + 3
  OBVIOUS
<1>10. Constructor[n + 3] = t
  BY <1>6, <1>7, <1>9
<1>11. \A i \in 1..n : Constructor[i + 2] = Call("sigaction", Fatal[i], "fatal")
  BY <1>4, <1>6, <1>7, <1>8
<1> QED
  BY <1>1, <1>7, <1>10, <1>11 DEF a, b, t

LEMMA OtherCalls ==
    /\ RawModeDisable \in Seq(AnyCall) /\ Len(RawModeDisable) = 1
    /\ RawModeDisable[1] = Do("restore")
    /\ MouseEnable \in Seq(AnyCall) /\ Len(MouseEnable) = 2
    /\ MouseEnable[1] = Do("mouseon") /\ MouseEnable[2] = Do("require")
    /\ MouseDisable \in Seq(AnyCall) /\ Len(MouseDisable) = 2
    /\ MouseDisable[1] = Do("mouseoff") /\ MouseDisable[2] = Do("unrequire")
<1>1. \A name \in {"restore", "mouseon", "mouseoff", "require", "unrequire"} : Do(name) \in AnyCall
  BY DEF AnyCall
<1>2. Do("restore") \in AnyCall /\ Do("mouseon") \in AnyCall /\ Do("mouseoff") \in AnyCall
      /\ Do("require") \in AnyCall /\ Do("unrequire") \in AnyCall
  BY <1>1
<1> QED
  BY <1>2 DEF RawModeDisable, MouseEnable, MouseDisable

(* The call that a function makes next.                                    *)
LEMMA NextCall ==
    ASSUME NEW f \in Seq(AnyCall), NEW q \in Seq(AnyCall), Rest(q, f), q # << >>
    PROVE  /\ Len(q) \in 1..Len(f)
           /\ Head(q) = f[Len(f) - Len(q) + 1]
           /\ Rest(Tail(q), f)
  BY RestTail

-----------------------------------------------------------------------------
(***************************************************************************)
(* The types, with those of the calls that are left: what is registered    *)
(* for a fatal signal is never put back for another signal.                *)
(***************************************************************************)
Frame == [sig : Signal \cup {None}, calls : Seq(AnyCall)]

DispositionsOK ==
    /\ \A s \in FatalSignal :
          disp[s] \in {"default", "fatal"} /\ old[s] \in {"default", "fatal"}
    /\ \A s \in {TSTP, CONT} :
          disp[s] \in {"default", "tstp", "cont"} /\ old[s] \in {"default", "tstp", "cont"}

TypeInv == RawTypeOK /\ frames \in Seq(Frame) /\ DispositionsOK

\* What Terminal adds: a failed assertion raises a signal.
AssertionFails ==
    \E s \in FatalSignal :
        Post(s) /\ UNCHANGED <<modeVars, disp, old, frames, proc, progVars, toSend, calm>>

RawStep == RawNext \/ AssertionFails \/ UNCHANGED rawVars

LEMMA NextIsRawStep == [Next]_vars => RawStep
  BY AbortAssumption
     DEF Next, vars, Interrupt, SetAttr, Abort, RawStep, RawNext, AssertionFails, rawVars

LEMMA HandlerCalls ==
    ASSUME DispositionsOK, NEW s \in Signal, disp[s] # "default"
    PROVE  /\ Handler(disp[s], s) \in Seq(AnyCall)
           /\ s \in FatalSignal => Handler(disp[s], s) = HandleFatalSignal(s)
           /\ s \in {TSTP, CONT} /\ disp[s] = "tstp" => Handler(disp[s], s) = HandleSigtstp(s)
           /\ s \in {TSTP, CONT} /\ disp[s] = "cont" => Handler(disp[s], s) = HandleSigcont(s)
<1>1. CASE s \in FatalSignal
  <2>1. disp[s] = "fatal"
    BY <1>1 DEF DispositionsOK
  <2> QED
    BY <1>1, <2>1, FatalCalls, SignalFacts DEF Handler
<1>2. CASE s \in {TSTP, CONT} /\ disp[s] = "tstp"
  BY <1>2, TstpCalls, SignalFacts DEF Handler
<1>3. CASE s \in {TSTP, CONT} /\ disp[s] = "cont"
  BY <1>3, ContCalls, SignalFacts DEF Handler
<1> QED
  BY <1>1, <1>2, <1>3, SignalFacts DEF DispositionsOK

(* The four things that happen to the stack.                               *)
LEMMA CallFrames ==
    ASSUME TypeInv, NEW names, Calls(names)
    PROVE  /\ Len(frames) \in Nat \ {0} /\ frames' \in Seq(Frame) /\ Len(frames') = Len(frames)
           /\ Top.calls \in Seq(AnyCall) /\ Top.calls # << >>
           /\ Head(Top.calls) \in AnyCall /\ Head(Top.calls).call \in names
           /\ frames'[Len(frames)] = [sig |-> Top.sig, calls |-> Tail(Top.calls)]
           /\ \A i \in 1..Len(frames) : frames'[i].sig = frames[i].sig
           /\ \A i \in 1..Len(frames) : i # Len(frames) => frames'[i] = frames[i]
<1>1. PICK n \in Nat \ {0} : Len(frames) = n
  BY EmptySeq DEF TypeInv, RawTypeOK
<1>2. n \in 1..n /\ frames \in Seq(Frame) /\ Top = frames[n] /\ Top \in Frame
  BY <1>1 DEF TypeInv, Top
<1>3. /\ Top.calls \in Seq(AnyCall) /\ Top.sig \in Signal \cup {None}
      /\ Top.calls # << >> /\ Head(Top.calls).call \in names
      /\ frames' = [frames EXCEPT ![n].calls = Tail(@)]
  BY <1>1, <1>2 DEF Calls, Frame
<1>4. Head(Top.calls) \in AnyCall /\ Tail(Top.calls) \in Seq(AnyCall)
  BY <1>3, HeadTailProperties
<1> DEFINE fr == [sig |-> Top.sig, calls |-> Tail(Top.calls)]
<1>5. fr \in Frame
  BY <1>3, <1>4 DEF Frame
<1>6. frames' = [frames EXCEPT ![n] = fr]
  <2>1. \A g \in Frame : \A x :
            [g EXCEPT !.calls = x] = [sig |-> g.sig, calls |-> x]
    BY DEF Frame
  <2>2. [frames[n] EXCEPT !.calls = Tail(@)] = fr
    BY <1>2, <2>1
  <2> QED
    BY <1>3, <2>2
<1> HIDE DEF fr
<1>7. /\ frames' \in Seq(Frame) /\ Len(frames') = n
      /\ \A i \in 1..n : frames'[i] = IF i = n THEN fr ELSE frames[i]
  BY <1>1, <1>2, <1>5, <1>6, ExceptSeq
<1>8. frames'[n] = fr /\ \A i \in 1..n : i # n => frames'[i] = frames[i]
  BY <1>2, <1>7
<1>9. \A i \in 1..n : frames'[i].sig = frames[i].sig
  BY <1>2, <1>8 DEF fr
<1> QED
  BY <1>1, <1>3, <1>4, <1>7, <1>8, <1>9 DEF fr

LEMMA PushFrames ==
    ASSUME frames \in Seq(Frame), NEW fr \in Frame, frames' = Append(frames, fr)
    PROVE  /\ Len(frames) \in Nat /\ frames' \in Seq(Frame) /\ Len(frames') = Len(frames) + 1
           /\ frames'[Len(frames) + 1] = fr
           /\ \A i \in 1..Len(frames) : frames'[i] = frames[i]
  OBVIOUS

LEMMA ReturnFrames ==
    ASSUME frames \in Seq(Frame), Len(frames) > 1,
           frames' = SubSeq(frames, 1, Len(frames) - 1)
    PROVE  /\ frames' \in Seq(Frame) /\ Len(frames') = Len(frames) - 1
           /\ Len(frames) - 1 \in Nat \ {0}
           /\ \A i \in 1..(Len(frames) - 1) : frames'[i] = frames[i]
<1>1. PICK n \in Nat \ {0} : Len(frames) = n + 1
  <2>1. PICK m \in Nat : Len(frames) = m
    BY LenProperties
  <2>2. m - 1 \in Nat \ {0} /\ (m - 1) + 1 = m
    BY <2>1
  <2> QED
    BY <2>1, <2>2
<1>2. (n + 1) - 1 = n /\ \A i \in 1..n : frames[i] \in Frame
  BY <1>1
<1>3. frames' = SubSeq(frames, 1, n)
  BY <1>1, <1>2
<1>4. 1 <= n /\ n - 1 + 1 = n /\ \A i \in 1..n : 1 + i - 1 = i
  OBVIOUS
<1>5. frames' \in Seq(Frame) /\ Len(frames') = n /\ \A i \in 1..n : frames'[i] = frames[i]
  BY <1>2, <1>3, <1>4, SubSeqProperties
<1> QED
  BY <1>1, <1>2, <1>5

\* The part of RawTypeOK that is about the stack.
StackOK ==
    /\ frames \in Seq(Frame) /\ frames # << >> /\ frames[1].sig = None
    /\ \A i \in 2..Len(frames) : frames[i].sig \in Signal
    /\ \A i, j \in 2..Len(frames) : frames[i].sig = frames[j].sig => i = j

LEMMA StackFacts ==
    ASSUME TypeInv
    PROVE  /\ StackOK
           /\ \A i \in 1..Len(frames) : frames[i] \in Frame
           /\ (Len(frames) = 1) <=> (Top.sig = None)
<1>1. StackOK
  BY DEF TypeInv, RawTypeOK, StackOK
<1>2. PICK n \in Nat \ {0} : Len(frames) = n
  BY <1>1, EmptySeq DEF StackOK
<1>3. \A i \in 1..n : frames[i] \in Frame
  BY <1>1, <1>2 DEF StackOK
<1>4. n # 1 => n \in 2..n
  OBVIOUS
<1>5. (n = 1) <=> (frames[n].sig = None)
  BY <1>1, <1>2, <1>4, SignalFacts DEF StackOK
<1> QED
  BY <1>1, <1>2, <1>3, <1>5 DEF Top

LEMMA CallStack ==
    ASSUME TypeInv, NEW names, Calls(names)
    PROVE  StackOK'
<1>1. PICK n \in Nat \ {0} : Len(frames) = n
  BY CallFrames
<1>2. /\ frames' \in Seq(Frame) /\ Len(frames') = n
      /\ \A i \in 1..n : frames'[i].sig = frames[i].sig
  BY <1>1, CallFrames
<1>3. 1 \in 1..n /\ \A i \in 2..n : i \in 1..n
  OBVIOUS
<1>4. frames' # << >>
  BY <1>2
<1> QED
  BY <1>1, <1>2, <1>3, <1>4 DEF StackOK, TypeInv, RawTypeOK

LEMMA PushStack ==
    ASSUME TypeInv, NEW s \in Signal, s \notin Blocked, NEW q \in Seq(AnyCall),
           frames' = Append(frames, [sig |-> s, calls |-> q])
    PROVE  StackOK'
<1> DEFINE fr == [sig |-> s, calls |-> q]
<1>1. StackOK
  BY StackFacts
<1>2. PICK n \in Nat \ {0} : Len(frames) = n
  BY <1>1, EmptySeq DEF StackOK
<1>3. fr \in Frame
  BY DEF Frame
<1>4. /\ frames' \in Seq(Frame) /\ Len(frames') = n + 1 /\ frames'[n + 1] = fr
      /\ \A i \in 1..n : frames'[i] = frames[i]
  BY <1>1, <1>2, <1>3, PushFrames DEF StackOK
<1>5. frames'[n + 1].sig = s
  BY <1>4
<1> HIDE DEF fr
<1>6. 1 \in 1..n /\ \A i \in 2..(n + 1) : i = n + 1 \/ (i \in 1..n /\ i \in 2..n)
  OBVIOUS
<1>7. \A i \in 2..n : frames[i].sig # s
  BY <1>2 DEF Blocked
<1>8. frames' # << >> /\ frames'[1].sig = None
  BY <1>1, <1>4, <1>6 DEF StackOK
<1>9. \A i \in 2..(n + 1) : frames'[i].sig \in Signal
  BY <1>1, <1>2, <1>4, <1>5, <1>6 DEF StackOK
<1>10. \A i, j \in 2..(n + 1) : frames'[i].sig = frames'[j].sig => i = j
  BY <1>1, <1>2, <1>4, <1>5, <1>6, <1>7 DEF StackOK
<1> QED
  BY <1>4, <1>8, <1>9, <1>10 DEF StackOK

LEMMA ReturnStack ==
    ASSUME TypeInv, HandlerReturns
    PROVE  StackOK'
<1>1. StackOK
  BY StackFacts
<1>2. frames' = SubSeq(frames, 1, Len(frames) - 1) /\ Len(frames) > 1
  BY DEF HandlerReturns
<1>3. PICK n \in Nat \ {0} : Len(frames) - 1 = n /\ Len(frames) = n + 1
  BY <1>1, <1>2, ReturnFrames, LenProperties DEF StackOK
<1>4. frames' \in Seq(Frame) /\ Len(frames') = n /\ \A i \in 1..n : frames'[i] = frames[i]
  BY <1>1, <1>2, <1>3, ReturnFrames DEF StackOK
<1>5. 1 \in 1..n /\ \A i \in 2..n : i \in 1..n /\ i \in 2..(n + 1)
  OBVIOUS
<1>6. frames' # << >>
  BY <1>4
<1> QED
  BY <1>1, <1>3, <1>4, <1>5, <1>6 DEF StackOK

LEMMA EnterStack ==
    ASSUME NEW q \in Seq(AnyCall), frames' = <<[sig |-> None, calls |-> q]>>
    PROVE  StackOK' /\ Len(frames') = 1 /\ frames'[1] = [sig |-> None, calls |-> q]
<1>1. [sig |-> None, calls |-> q] \in Frame
  BY DEF Frame
<1>2. /\ frames' \in Seq(Frame) /\ Len(frames') = 1 /\ frames' # << >>
      /\ frames'[1] = [sig |-> None, calls |-> q]
  BY <1>1
<1>3. \A i \in 2..1 : FALSE
  OBVIOUS
<1>4. frames'[1].sig = None
  BY <1>2
<1> QED
  BY <1>2, <1>3, <1>4 DEF StackOK

-----------------------------------------------------------------------------
\* The part of RawTypeOK that is about the variables but frames.
VarsOK ==
    /\ attrs \in {"cooked", "raw"} /\ saved \in {"cooked", "raw"}
    /\ mouse \in BOOLEAN /\ require \in BOOLEAN
    /\ disp \in [Signal -> {"default", "fatal", "tstp", "cont"}]
    /\ old \in [Signal -> {"default", "fatal", "tstp", "cont"}]
    /\ pending \subseteq Signal
    /\ proc \in {"running", "stopped", "dead", "exited"}
    /\ context \in BOOLEAN /\ guard \in BOOLEAN /\ calm \in BOOLEAN
    /\ guard => context
    /\ contexts \in 0..MaxContexts /\ toSend \in 0..MaxSignals

LEMMA TypeParts == TypeInv <=> VarsOK /\ StackOK /\ DispositionsOK
  BY DEF TypeInv, RawTypeOK, VarsOK, StackOK

LEMMA TypePartsNext == TypeInv' <=> VarsOK' /\ StackOK' /\ DispositionsOK'
  BY DEF TypeInv, RawTypeOK, VarsOK, StackOK

LEMMA TypeInit == RawInit => TypeInv
<1> SUFFICES ASSUME RawInit PROVE TypeInv
  OBVIOUS
<1>1. << >> \in Seq(AnyCall)
  OBVIOUS
<1>2. [sig |-> None, calls |-> << >>] \in Frame
  BY <1>1 DEF Frame
<1>3. /\ frames \in Seq(Frame) /\ Len(frames) = 1 /\ frames # << >>
      /\ frames[1] = [sig |-> None, calls |-> << >>]
  BY <1>2 DEF RawInit
<1>4. \A i \in 2..1 : FALSE
  OBVIOUS
<1>5. frames[1].sig = None
  BY <1>3
<1>6. StackOK
  BY <1>3, <1>4, <1>5 DEF StackOK
<1>7. contexts \in 0..MaxContexts /\ toSend \in 0..MaxSignals
  BY FatalAssumption DEF RawInit
<1>8. VarsOK
  BY <1>7 DEF RawInit, VarsOK
<1>9. DispositionsOK
  BY SignalFacts DEF RawInit, DispositionsOK
<1> QED
  BY <1>6, <1>8, <1>9, TypeParts

LEMMA PostType ==
    ASSUME pending \subseteq Signal, NEW s \in Signal, Post(s)
    PROVE  pending' \subseteq Signal
  BY DEF Post

(* What a call is, by its name.                                            *)
LEMMA CallKinds ==
    ASSUME NEW c \in AnyCall
    PROVE  /\ c.call = "sigaction" =>
                \/ c.sig \in FatalSignal /\ c.arg = "fatal"
                \/ c.sig = TSTP /\ c.arg = "tstp"
                \/ c.sig = CONT /\ c.arg = "cont"
           /\ c.call = "reinstate" =>
                \/ c.sig \in FatalSignal /\ c.arg = c.sig
                \/ c.sig \in {TSTP, CONT} /\ c.arg \in {TSTP, CONT}
           /\ c.call = "raise" => c.sig \in Signal
  BY DEF AnyCall, Do, Call

(* A call of the function on top of the stack.                             *)
LEMMA CallType ==
    ASSUME TypeInv, NEW names, Calls(names),
           \/ TcGetAttr \/ TcSetAttr \/ MouseTracking \/ RequireMouse
           \/ Sigaction \/ Reinstate \/ Raise
    PROVE  TypeInv'
<1> DEFINE c == Head(Top.calls)
<1>1. UNCHANGED <<proc, context, guard, contexts, toSend, calm>> /\ StackOK' /\ c \in AnyCall
  BY CallStack, CallFrames DEF Calls, progVars
<1>2. VarsOK /\ DispositionsOK
  BY TypeParts
<1>3. CASE TcGetAttr \/ TcSetAttr \/ RequireMouse
  <2>1. UNCHANGED sigVars
    BY <1>3 DEF TcGetAttr, TcSetAttr, RequireMouse
  <2>2. attrs' \in {"cooked", "raw"} /\ saved' \in {"cooked", "raw"}
    BY <1>2, <1>3 DEF TcGetAttr, TcSetAttr, RequireMouse, VarsOK
  <2>3. mouse' = mouse
    BY <1>3 DEF TcGetAttr, TcSetAttr, RequireMouse
  <2>4. require' \in BOOLEAN
    BY <1>2, <1>3 DEF TcGetAttr, TcSetAttr, RequireMouse, VarsOK
  <2>5. VarsOK'
    BY <1>1, <1>2, <2>1, <2>2, <2>3, <2>4 DEF VarsOK, sigVars
  <2> QED
    BY <1>1, <1>2, <2>1, <2>5, TypePartsNext DEF DispositionsOK, sigVars
<1>4. CASE MouseTracking
  <2>1. UNCHANGED <<attrs, saved, require, sigVars>>
    BY <1>4 DEF MouseTracking
  <2>2. mouse' \in BOOLEAN
    <3>1. c.call \in {"mouseon", "mouseoff", "mouseonif", "mouseoffif"}
      BY <1>4, CallFrames DEF MouseTracking, Calls
    <3>2. mouse \in BOOLEAN /\ require \in BOOLEAN
      BY <1>2 DEF VarsOK
    <3>3. \/ mouse' = TRUE \/ mouse' = FALSE \/ mouse' = mouse
          \/ mouse' = (c.call = "mouseonif")
      BY <1>4, <3>1 DEF MouseTracking
    <3> QED
      BY <3>2, <3>3
  <2>3. VarsOK'
    BY <1>1, <1>2, <2>1, <2>2 DEF VarsOK, sigVars
  <2> QED
    BY <1>1, <1>2, <2>1, <2>3, TypePartsNext DEF DispositionsOK, sigVars
<1>5. CASE Sigaction
  <2>1. /\ UNCHANGED <<modeVars, pending>>
        /\ disp' = [disp EXCEPT ![c.sig] = c.arg] /\ old' = [old EXCEPT ![c.sig] = disp[c.sig]]
        /\ \/ c.sig \in FatalSignal /\ c.arg = "fatal"
           \/ c.sig = TSTP /\ c.arg = "tstp"
           \/ c.sig = CONT /\ c.arg = "cont"
    BY <1>1, <1>5, CallKinds DEF Sigaction, Calls
  <2> HIDE DEF c
  <2>2. c.sig \in Signal
    BY <2>1, SignalFacts
  <2>3. /\ disp' \in [Signal -> {"default", "fatal", "tstp", "cont"}]
        /\ old' \in [Signal -> {"default", "fatal", "tstp", "cont"}]
    BY <1>2, <2>1, <2>2 DEF VarsOK
  <2>4. /\ disp'[c.sig] = c.arg /\ old'[c.sig] = disp[c.sig]
        /\ \A s \in Signal : s # c.sig => disp'[s] = disp[s] /\ old'[s] = old[s]
    BY <1>2, <2>1, <2>2 DEF VarsOK
  <2>5. DispositionsOK'
    BY <1>2, <2>1, <2>2, <2>4, SignalFacts DEF DispositionsOK
  <2>6. VarsOK'
    BY <1>1, <1>2, <2>1, <2>3 DEF VarsOK, modeVars
  <2> QED
    BY <1>1, <2>5, <2>6, TypePartsNext
<1>6. CASE Reinstate
  <2>1. /\ UNCHANGED <<modeVars, old, pending>>
        /\ disp' = [disp EXCEPT ![c.sig] = old[c.arg]]
        /\ \/ c.sig \in FatalSignal /\ c.arg = c.sig
           \/ c.sig \in {TSTP, CONT} /\ c.arg \in {TSTP, CONT}
    BY <1>1, <1>6, CallKinds DEF Reinstate, Calls
  <2> HIDE DEF c
  <2>2. c.sig \in Signal /\ c.arg \in Signal
    BY <2>1, SignalFacts
  <2>3. disp' \in [Signal -> {"default", "fatal", "tstp", "cont"}]
    BY <1>2, <2>1, <2>2 DEF VarsOK
  <2>4. disp'[c.sig] = old[c.arg] /\ \A s \in Signal : s # c.sig => disp'[s] = disp[s]
    BY <1>2, <2>1, <2>2 DEF VarsOK
  <2>5. DispositionsOK'
    BY <1>2, <2>1, <2>2, <2>4, SignalFacts DEF DispositionsOK
  <2>6. VarsOK'
    BY <1>1, <1>2, <2>1, <2>3 DEF VarsOK, modeVars
  <2> QED
    BY <1>1, <2>5, <2>6, TypePartsNext
<1>7. CASE Raise
  <2>1. UNCHANGED <<modeVars, disp, old>> /\ c.sig \in Signal /\ Post(c.sig)
    BY <1>1, <1>7, CallKinds DEF Raise, Calls
  <2> HIDE DEF c
  <2>2. pending' \subseteq Signal
    BY <1>2, <2>1, PostType DEF VarsOK
  <2>3. VarsOK'
    BY <1>1, <1>2, <2>1, <2>2 DEF VarsOK, modeVars
  <2> QED
    BY <1>1, <1>2, <2>1, <2>3, TypePartsNext DEF DispositionsOK
<1> QED
  BY <1>3, <1>4, <1>5, <1>6, <1>7

(* The functions the program enters.                                       *)
LEMMA EnteredCalls ==
    ASSUME Construct \/ Destroy \/ EnableMouse \/ DisableMouse
    PROVE  \E q \in {Constructor, RawModeDisable, MouseEnable, MouseDisable} :
              q \in Seq(AnyCall) /\ Enters(q)
  BY ConstructorCalls, OtherCalls
     DEF Construct, Destroy, EnableMouse, DisableMouse, Constructor, MouseEnable, MouseDisable

LEMMA DeliverStack ==
    ASSUME TypeInv, NEW s \in Signal, Deliver(s)
    PROVE  StackOK'
<1>1. CASE disp[s] = "default"
  BY <1>1, StackFacts DEF Deliver, StackOK
<1>2. CASE disp[s] # "default"
  <2>1. frames' = Append(frames, [sig |-> s, calls |-> Handler(disp[s], s)])
    BY <1>2 DEF Deliver
  <2>2. s \notin Blocked
    BY DEF Deliver, Deliverable
  <2>3. Handler(disp[s], s) \in Seq(AnyCall)
    BY <1>2, HandlerCalls, TypeParts
  <2> QED
    BY <2>1, <2>2, <2>3, PushStack
<1> QED
  BY <1>1, <1>2

LEMMA TypeStep ==
    ASSUME TypeInv, RawStep
    PROVE  TypeInv'
<1>0. VarsOK /\ StackOK /\ DispositionsOK
  BY TypeParts
<1>1. CASE \E s \in Signal : Send(s)
  <2>1. PICK s \in Signal : Send(s)
    BY <1>1
  <2>2. pending' \subseteq Signal
    BY <1>0, <2>1, PostType DEF Send, VarsOK
  <2>3. toSend' \in 0..MaxSignals
    BY <1>0, <2>1, FatalAssumption DEF Send, VarsOK
  <2>4. proc' \in {"running", "stopped", "dead", "exited"}
    BY <1>0, <2>1 DEF Send, VarsOK
  <2>5. UNCHANGED <<modeVars, disp, old, frames, progVars, calm>>
    BY <2>1 DEF Send
  <2>6. VarsOK'
    BY <1>0, <2>2, <2>3, <2>4, <2>5 DEF VarsOK, modeVars, progVars
  <2> QED
    BY <1>0, <2>5, <2>6, TypePartsNext DEF StackOK, DispositionsOK
<1>2. CASE \E s \in Signal : Deliver(s)
  <2>1. PICK s \in Signal : Deliver(s)
    BY <1>2
  <2>2. StackOK'
    BY <2>1, DeliverStack
  <2>3. proc' \in {"running", "stopped", "dead", "exited"}
    BY <1>0, <2>1 DEF Deliver, VarsOK
  <2>4. calm' \in BOOLEAN
    BY <1>0, <2>1 DEF Deliver, VarsOK
  <2>5. pending' \subseteq Signal /\ UNCHANGED <<modeVars, disp, old, progVars, toSend>>
    BY <1>0, <2>1 DEF Deliver, VarsOK
  <2>6. VarsOK'
    BY <1>0, <2>3, <2>4, <2>5 DEF VarsOK, modeVars, progVars
  <2> QED
    BY <1>0, <2>2, <2>5, <2>6, TypePartsNext DEF DispositionsOK
<1>3. CASE HandlerReturns
  <2>1. UNCHANGED <<modeVars, sigVars, proc, progVars, toSend, calm>>
    BY <1>3 DEF HandlerReturns
  <2>2. VarsOK'
    BY <1>0, <2>1 DEF VarsOK, modeVars, sigVars, progVars
  <2> QED
    BY <1>0, <1>3, <2>1, <2>2, ReturnStack, TypePartsNext DEF DispositionsOK, sigVars
<1>4. CASE Construct \/ Destroy \/ EnableMouse \/ DisableMouse
  <2>1. PICK q \in Seq(AnyCall) : Enters(q)
    BY <1>4, EnteredCalls
  <2>2. StackOK'
    BY <2>1, EnterStack DEF Enters
  <2>3. context' \in BOOLEAN /\ guard' \in BOOLEAN
    BY <1>0, <1>4 DEF VarsOK, Construct, Destroy, EnableMouse, DisableMouse
  <2>4. guard' => context'
    BY <1>0, <1>4 DEF VarsOK, Construct, Destroy, EnableMouse, DisableMouse
  <2>5. contexts' \in 0..MaxContexts
    BY <1>0, <1>4, FatalAssumption DEF VarsOK, Construct, Destroy, EnableMouse, DisableMouse
  <2>6. UNCHANGED <<modeVars, sigVars, proc, toSend, calm>>
    BY <2>1 DEF Enters
  <2>7. VarsOK'
    BY <1>0, <2>3, <2>4, <2>5, <2>6 DEF VarsOK, modeVars, sigVars
  <2> QED
    BY <1>0, <2>2, <2>6, <2>7, TypePartsNext DEF DispositionsOK, sigVars
<1>5. CASE Exit \/ UNCHANGED rawVars
  <2>1. UNCHANGED <<modeVars, sigVars, frames, progVars, toSend, calm>>
    BY <1>5 DEF Exit, rawVars
  <2>2. proc' \in {"running", "stopped", "dead", "exited"}
    BY <1>0, <1>5 DEF Exit, rawVars, VarsOK
  <2>3. VarsOK'
    BY <1>0, <2>1, <2>2 DEF VarsOK, modeVars, sigVars, progVars
  <2> QED
    BY <1>0, <2>1, <2>3, TypePartsNext DEF StackOK, DispositionsOK, sigVars
<1>6. CASE AssertionFails
  <2>1. pending' \subseteq Signal
    BY <1>0, <1>6, PostType, SignalFacts DEF AssertionFails, VarsOK
  <2>2. UNCHANGED <<modeVars, disp, old, frames, proc, progVars, toSend, calm>>
    BY <1>6 DEF AssertionFails
  <2>3. VarsOK'
    BY <1>0, <2>1, <2>2 DEF VarsOK, modeVars, progVars
  <2> QED
    BY <1>0, <2>2, <2>3, TypePartsNext DEF StackOK, DispositionsOK
<1>7. CASE TcGetAttr \/ TcSetAttr \/ MouseTracking \/ RequireMouse \/ Sigaction \/ Reinstate \/ Raise
  <2>1. \E names : Calls(names)
    BY <1>7 DEF TcGetAttr, TcSetAttr, MouseTracking, RequireMouse, Sigaction, Reinstate, Raise
  <2> QED
    BY <1>7, <2>1, CallType
<1> QED
  BY <1>1, <1>2, <1>3, <1>4, <1>5, <1>6, <1>7 DEF RawStep, RawNext, RawProgress, RawProgram

(* Whatever the program reads and whatever signals interrupt it, the       *)
(* variables of the modes keep their types and no signal is handled inside *)
(* its own handler.                                                        *)
THEOREM ModesTypeCorrect == Spec => []RawTypeOK
<1>1. Init => TypeInv
  BY TypeInit DEF Init
<1>2. TypeInv /\ [Next]_vars => TypeInv'
  BY NextIsRawStep, TypeStep
<1>3. TypeInv => RawTypeOK
  BY DEF TypeInv
<1> QED
  BY <1>1, <1>2, <1>3, PTL DEF Spec

-----------------------------------------------------------------------------
(***************************************************************************)
(* Why a fatal signal kills.  With one context the old action of a fatal   *)
(* signal is the default one, because its handler is registered once; a    *)
(* handler of it that has put the old action back leaves it there, and the *)
(* signal it has raised stays pending, because it is blocked.              *)
(***************************************************************************)
\* Calls that register no handler of a fatal signal.
RegistersNone(q) == \A k \in 1..Len(q) : q[k].call = "sigaction" => q[k].sig \notin FatalSignal

\* Handlers that the program still registers, each for the first time.
RegistersOnce ==
    LET q == frames[1].calls
    IN  \A i \in 1..Len(q) : q[i].call = "sigaction" /\ q[i].sig \in FatalSignal =>
            /\ disp[q[i].sig] = "default"
            /\ \A j \in 1..Len(q) : q[j].call = "sigaction" /\ q[j].sig = q[i].sig => j = i

FatalFrame(i) ==
    LET q == frames[i].calls
        s == frames[i].sig
    IN  s \in FatalSignal =>
            /\ Rest(q, HandleFatalSignal(s))
            /\ Len(q) <= 1 => disp[s] = "default"
            /\ Len(q) = 0 => s \in pending

FirstContext ==
    /\ \A s \in FatalSignal : old[s] = "default"
    /\ RegistersOnce
    /\ \A i \in 2..Len(frames) : RegistersNone(frames[i].calls) /\ FatalFrame(i)
    /\ contexts = 0 => /\ \A s \in Signal : disp[s] = "default"
                       /\ Len(frames) = 1 /\ frames[1].calls = << >> /\ ~context

FatalInv == contexts <= 1 => FirstContext

LEMMA PostKeepsFatal ==
    ASSUME NEW x \in Signal, Post(x)
    PROVE  (FatalSignal \cap pending) \cup {x} \subseteq pending'
  BY SignalFacts DEF Post

(* A call of the first context's functions or handlers: it may change the  *)
(* actions of the fatal signals and the pending signals like this.         *)
LEMMA FatalCall ==
    ASSUME TypeInv, FirstContext, NEW names, Calls(names),
           \A s \in FatalSignal : old'[s] = "default",
           FatalSignal \cap pending \subseteq pending',
           LET c == Head(Top.calls)
           IN  /\ \A s \in FatalSignal :
                     /\ disp[s] = "default" /\ ~(c.call = "sigaction" /\ c.sig = s)
                           => disp'[s] = "default"
                     /\ c = Call("reinstate", s, s) => disp'[s] = "default"
                     /\ c = Call("raise", s, None) => s \in pending'
    PROVE  FirstContext'
<1> DEFINE c == Head(Top.calls)
<1>1. PICK n \in Nat \ {0} : Len(frames) = n
  BY CallFrames
<1>2. /\ Top = frames[n] /\ frames \in Seq(Frame) /\ n \in 1..n
      /\ Top.calls \in Seq(AnyCall) /\ Top.calls # << >> /\ c \in AnyCall
      /\ Len(frames') = n
      /\ frames'[n].sig = Top.sig /\ frames'[n].calls = Tail(Top.calls)
      /\ \A i \in 1..n : i # n => frames'[i] = frames[i]
  <2>1. Top = frames[n] /\ frames \in Seq(Frame) /\ n \in 1..n
    BY <1>1 DEF Top, TypeInv
  <2>2. frames'[n] = [sig |-> Top.sig, calls |-> Tail(Top.calls)]
    BY <1>1, CallFrames
  <2>3. frames'[n].sig = Top.sig /\ frames'[n].calls = Tail(Top.calls)
    BY <2>2
  <2> QED
    BY <1>1, <2>1, <2>3, CallFrames
<1>3. PICK m \in Nat \ {0} : Len(Top.calls) = m
  BY <1>2, EmptySeq
<1>4. /\ Tail(Top.calls) \in Seq(AnyCall) /\ Len(Tail(Top.calls)) = m - 1
      /\ \A i \in 1..(m - 1) : Tail(Top.calls)[i] = Top.calls[i + 1]
      /\ c = Top.calls[1] /\ 1 \in 1..m
  BY <1>2, <1>3, HeadTailProperties
<1> HIDE DEF c
<1>5. contexts' # 0 /\ contexts' = contexts
  <2>1. contexts' = contexts
    BY DEF Calls, progVars
  <2>2. contexts # 0
    BY <1>1, <1>2 DEF FirstContext
  <2> QED
    BY <2>1, <2>2
<1>6. ASSUME n = 1
      PROVE  RegistersOnce'
  <2>1. frames[1] = Top /\ frames'[1].calls = Tail(Top.calls)
    BY <1>2, <1>6
  <2> SUFFICES ASSUME NEW i \in 1..(m - 1), Tail(Top.calls)[i].call = "sigaction",
                      Tail(Top.calls)[i].sig \in FatalSignal
               PROVE  /\ disp'[Tail(Top.calls)[i].sig] = "default"
                      /\ \A j \in 1..(m - 1) :
                            /\ Tail(Top.calls)[j].call = "sigaction"
                            /\ Tail(Top.calls)[j].sig = Tail(Top.calls)[i].sig
                            => j = i
    BY <1>4, <2>1 DEF RegistersOnce
  <2>2. \A j \in 1..(m - 1) : j + 1 \in 1..m /\ j + 1 # 1
    OBVIOUS
  <2>3. i + 1 \in 1..m /\ Top.calls[i + 1] = Tail(Top.calls)[i]
    BY <1>4, <2>2
  <2>4. /\ disp[Top.calls[i + 1].sig] = "default"
        /\ \A j \in 1..m : Top.calls[j].call = "sigaction" /\ Top.calls[j].sig = Top.calls[i + 1].sig
                             => j = i + 1
    BY <1>3, <2>1, <2>3 DEF FirstContext, RegistersOnce
  <2>5. ~(c.call = "sigaction" /\ c.sig = Top.calls[i + 1].sig)
    BY <1>4, <2>2, <2>4
  <2>6. disp'[Tail(Top.calls)[i].sig] = "default"
    BY <2>3, <2>4, <2>5 DEF c
  <2>7. \A j \in 1..(m - 1) : j + 1 = i + 1 => j = i
    OBVIOUS
  <2>8. ASSUME NEW j \in 1..(m - 1), Tail(Top.calls)[j].call = "sigaction",
               Tail(Top.calls)[j].sig = Tail(Top.calls)[i].sig
        PROVE  j = i
    <3>1. j + 1 \in 1..m /\ Tail(Top.calls)[j] = Top.calls[j + 1]
      BY <1>4, <2>2
    <3>2. j + 1 = i + 1
      BY <2>3, <2>4, <2>8, <3>1
    <3> QED
      BY <2>7, <3>2
  <2> QED
    BY <2>6, <2>8
<1>7. ASSUME n # 1
      PROVE  \A s \in FatalSignal : disp[s] = "default" => disp'[s] = "default"
  <2>1. n \in 2..n
    BY <1>7
  <2>2. RegistersNone(Top.calls)
    BY <1>1, <1>2, <2>1 DEF FirstContext
  <2>3. c.call = "sigaction" => c.sig \notin FatalSignal
    BY <1>3, <1>4, <2>2 DEF RegistersNone
  <2> QED
    BY <2>3 DEF c
<1>8. ASSUME n # 1
      PROVE  RegistersOnce'
  <2>1. 1 \in 1..n /\ frames'[1] = frames[1]
    BY <1>2, <1>8
  <2> QED
    BY <1>7, <1>8, <2>1 DEF FirstContext, RegistersOnce
<1>9. ASSUME NEW i \in 2..n
      PROVE  RegistersNone(frames'[i].calls)
  <2>1. RegistersNone(frames[i].calls) /\ i \in 1..n
    BY <1>1, <1>9 DEF FirstContext
  <2>2. CASE i # n
    BY <1>2, <2>1, <2>2
  <2>3. CASE i = n
    <3>1. frames'[i].calls = Tail(Top.calls) /\ frames[i].calls = Top.calls
      BY <1>2, <2>3
    <3>2. \A j \in 1..(m - 1) : j + 1 \in 1..m
      OBVIOUS
    <3> QED
      BY <1>3, <1>4, <2>1, <3>1, <3>2 DEF RegistersNone
  <2> QED
    BY <2>2, <2>3
<1>10. ASSUME NEW i \in 2..n
       PROVE  FatalFrame(i)'
  <2>1. FatalFrame(i) /\ i \in 1..n /\ n # 1
    BY <1>1, <1>10 DEF FirstContext
  <2>2. CASE i # n
    BY <1>2, <1>7, <2>1, <2>2 DEF FatalFrame
  <2>3. CASE i = n
    <3> DEFINE s == frames[n].sig
    <3>1. frames'[i].calls = Tail(Top.calls) /\ frames'[i].sig = s
      BY <1>2, <2>3
    <3> SUFFICES ASSUME s \in FatalSignal
                 PROVE  /\ Rest(Tail(Top.calls), HandleFatalSignal(s))
                        /\ Len(Tail(Top.calls)) <= 1 => disp'[s] = "default"
                        /\ Len(Tail(Top.calls)) = 0 => s \in pending'
      BY <3>1 DEF FatalFrame
    <3>2. /\ Rest(Top.calls, HandleFatalSignal(s))
          /\ m <= 1 => disp[s] = "default"
      BY <1>2, <1>3, <2>1, <2>3 DEF FatalFrame
    <3>3. /\ HandleFatalSignal(s) \in Seq(AnyCall) /\ Len(HandleFatalSignal(s)) = 4
          /\ HandleFatalSignal(s)[3] = Call("reinstate", s, s)
          /\ HandleFatalSignal(s)[4] = Call("raise", s, None)
      BY FatalCalls
    <3>4. /\ Rest(Tail(Top.calls), HandleFatalSignal(s))
          /\ c = HandleFatalSignal(s)[4 - m + 1] /\ m \in 1..4
      <4> DEFINE f == HandleFatalSignal(s)
      <4> HIDE DEF f
      <4>1. f \in Seq(AnyCall) /\ Len(f) = 4 /\ Rest(Top.calls, f)
        BY <3>2, <3>3 DEF f
      <4>2. Top.calls \in Seq(AnyCall) /\ Top.calls # << >> /\ Len(Top.calls) = m
        BY <1>2, <1>3
      <4>3. m \in 1..4 /\ Head(Top.calls) = f[4 - m + 1] /\ Rest(Tail(Top.calls), f)
        BY <4>1, <4>2, NextCall
      <4> QED
        BY <4>3 DEF c, f
    <3>5. m = 1 => c = Call("raise", s, None)
      BY <3>3, <3>4
    <3>6. m = 2 => c = Call("reinstate", s, s)
      BY <3>3, <3>4
    <3>7. m = 1 => s \in pending' /\ disp'[s] = "default"
      BY <1>7, <2>1, <3>2, <3>5 DEF c
    <3>8. m = 2 => disp'[s] = "default"
      BY <3>6 DEF c
    <3>9. (m - 1 <= 1 => m = 1 \/ m = 2) /\ (m - 1 = 0 => m = 1)
      BY <3>4
    <3> QED
      BY <1>4, <3>4, <3>7, <3>8, <3>9
  <2> QED
    BY <2>2, <2>3
<1> QED
  BY <1>2, <1>5, <1>6, <1>8, <1>9, <1>10 DEF FirstContext

LEMMA FatalInit == RawInit => FatalInv
<1> SUFFICES ASSUME RawInit PROVE FirstContext
  BY DEF FatalInv
<1>1. Len(frames) = 1 /\ frames[1].calls = << >>
  BY DEF RawInit
<1>2. \A i \in 1..0 : FALSE
  OBVIOUS
<1>3. \A i \in 2..1 : FALSE
  OBVIOUS
<1>4. RegistersOnce
  BY <1>1, <1>2 DEF RegistersOnce
<1>5. \A s \in Signal : disp[s] = "default" /\ old[s] = "default"
  BY DEF RawInit
<1>6. ~context
  BY DEF RawInit
<1>7. \A i \in 2..Len(frames) : FALSE
  BY <1>1, <1>3
<1>8. \A s \in FatalSignal : old[s] = "default"
  BY <1>5, SignalFacts
<1> QED
  BY <1>1, <1>4, <1>5, <1>6, <1>7, <1>8, Zenon DEF FirstContext

(* Signals come and go; one that is blocked stays pending.                 *)
LEMMA FatalSignals ==
    ASSUME TypeInv, FirstContext, UNCHANGED <<disp, old, frames, contexts, context>>,
           \A s \in FatalSignal \cap Blocked : s \in pending => s \in pending'
    PROVE  FirstContext'
<1>1. RegistersOnce'
  BY DEF FirstContext, RegistersOnce
<1>2. ASSUME NEW i \in 2..Len(frames)
      PROVE  FatalFrame(i)'
  <2>1. FatalFrame(i) /\ frames[i].sig \in Blocked
    BY DEF FirstContext, Blocked
  <2> QED
    BY <2>1 DEF FatalFrame
<1> QED
  BY <1>1, <1>2 DEF FirstContext

LEMMA FatalDeliver ==
    ASSUME TypeInv, FirstContext, NEW s \in Signal, Deliver(s)
    PROVE  FirstContext'
<1>1. UNCHANGED <<disp, old, contexts, context>> /\ pending' = pending \ {s} /\ s \notin Blocked
  BY DEF Deliver, Deliverable, progVars
<1>2. CASE disp[s] = "default"
  BY <1>1, <1>2, FatalSignals DEF Deliver
<1>3. CASE disp[s] # "default"
  <2> DEFINE q == Handler(disp[s], s)
  <2>1. /\ q \in Seq(AnyCall) /\ (s \in FatalSignal => q = HandleFatalSignal(s))
        /\ (s \in {TSTP, CONT} => q \in {HandleSigtstp(s), HandleSigcont(s)})
    <3>1. s \in {TSTP, CONT} => disp[s] \in {"tstp", "cont"}
      BY <1>3, TypeParts DEF DispositionsOK
    <3> QED
      BY <1>3, <3>1, HandlerCalls, TypeParts
  <2>2. frames' = Append(frames, [sig |-> s, calls |-> q])
    BY <1>3 DEF Deliver
  <2> HIDE DEF q
  <2>3. PICK n \in Nat \ {0} : Len(frames) = n
    BY TypeParts, EmptySeq DEF StackOK
  <2>4. [sig |-> s, calls |-> q] \in Frame
    BY <2>1 DEF Frame
  <2>5. /\ Len(frames') = n + 1 /\ frames'[n + 1] = [sig |-> s, calls |-> q]
        /\ \A i \in 1..n : frames'[i] = frames[i]
    BY <2>2, <2>3, <2>4, PushFrames, TypeParts DEF StackOK
  <2>6. frames'[n + 1].sig = s /\ frames'[n + 1].calls = q
    BY <2>5
  <2>7. 1 \in 1..n /\ \A i \in 2..(n + 1) : i = n + 1 \/ (i \in 1..n /\ i \in 2..n)
    OBVIOUS
  <2>8. contexts' # 0
    BY <1>1, <1>3 DEF FirstContext
  <2>9. RegistersOnce'
    BY <1>1, <2>5, <2>7 DEF FirstContext, RegistersOnce
  <2>10. RegistersNone(q)
    <3>1. CASE s \in FatalSignal
      <4>1. /\ Len(q) = 4 /\ q[1] = Do("restore") /\ q[2] = Do("mouseoffif")
            /\ q[3] = Call("reinstate", s, s) /\ q[4] = Call("raise", s, None)
        BY <2>1, <3>1, FatalCalls
      <4>2. /\ q[1].call = "restore" /\ q[2].call = "mouseoffif"
            /\ q[3].call = "reinstate" /\ q[4].call = "raise"
        BY <4>1, CallParts
      <4> QED
        BY <4>1, <4>2 DEF RegistersNone
    <3>2. CASE s \in {TSTP, CONT} /\ q = HandleSigtstp(s)
      <4>1. Len(q) = 5 /\ q[1].sig = CONT /\ q[2].call = "restore" /\ q[3].call = "mouseoffif"
            /\ q[4].call = "reinstate" /\ q[5].call = "raise"
        BY <3>2, TstpCalls DEF Do, Call
      <4> QED
        BY <4>1, SignalFacts DEF RegistersNone
    <3>3. CASE s \in {TSTP, CONT} /\ q = HandleSigcont(s)
      <4>1. Len(q) = 6 /\ q[1].sig = TSTP /\ q[2].call = "tcgetattr" /\ q[3].call = "setraw"
            /\ q[4].call = "mouseonif" /\ q[5].call = "reinstate" /\ q[6].call = "raise"
        BY <3>3, ContCalls DEF Do, Call
      <4> QED
        BY <4>1, SignalFacts DEF RegistersNone
    <3> QED
      BY <2>1, <3>1, <3>2, <3>3, SignalFacts
  <2>11. ASSUME NEW i \in 2..(n + 1)
         PROVE  RegistersNone(frames'[i].calls) /\ FatalFrame(i)'
    <3>1. CASE i = n + 1
      <4>1. s \in FatalSignal => Rest(q, HandleFatalSignal(s)) /\ Len(q) = 4
        BY <2>1, FatalCalls, RestEnds
      <4> QED
        BY <2>6, <2>10, <3>1, <4>1 DEF FatalFrame
    <3>2. CASE i \in 1..n /\ i \in 2..n
      <4>1. frames'[i] = frames[i] /\ frames[i].sig # s
        BY <1>1, <2>3, <2>5, <3>2 DEF Blocked
      <4>2. RegistersNone(frames[i].calls) /\ FatalFrame(i)
        BY <2>3, <3>2 DEF FirstContext
      <4> QED
        BY <1>1, <4>1, <4>2 DEF FatalFrame
    <3> QED
      BY <2>7, <3>1, <3>2
  <2> QED
    BY <1>1, <2>5, <2>8, <2>9, <2>11 DEF FirstContext
<1> QED
  BY <1>2, <1>3

(* Entering a function of the program, whose frame is then alone.          *)
LEMMA FatalEnter ==
    ASSUME TypeInv, FirstContext, contexts' <= 1,
           Construct \/ Destroy \/ EnableMouse \/ DisableMouse
    PROVE  FirstContext'
<1>1. PICK q \in {Constructor, RawModeDisable, MouseEnable, MouseDisable} :
          q \in Seq(AnyCall) /\ Enters(q)
  BY EnteredCalls
<1>2. Len(frames') = 1 /\ frames'[1] = [sig |-> None, calls |-> q] /\ UNCHANGED sigVars
  BY <1>1, EnterStack DEF Enters
<1>3. frames'[1].calls = q
  BY <1>2
<1>4. contexts \in Nat /\ contexts' # 0
  <2>1. contexts \in Nat
    BY TypeParts, FatalAssumption DEF VarsOK
  <2>2. CASE Construct
    BY <2>1, <2>2 DEF Construct
  <2>3. CASE Destroy \/ EnableMouse \/ DisableMouse
    <3>1. contexts' = contexts /\ context
      BY <2>3, TypeParts DEF Destroy, EnableMouse, DisableMouse, VarsOK
    <3>2. contexts # 0
      BY <3>1, Zenon DEF FirstContext
    <3> QED
      BY <2>1, <3>1, <3>2
  <2> QED
    BY <2>1, <2>2, <2>3
<1>5. CASE Construct
  <2>1. contexts = 0
    BY <1>4, <1>5 DEF Construct
  <2>2. frames'[1].calls = Constructor
    BY <1>5 DEF Construct, Enters, Constructor
  <2>3. PICK n \in Nat : Len(Fatal) = n
    BY ConstructorCalls
  <2>4. /\ Len(Constructor) = n + 3
        /\ Constructor[1].call # "sigaction" /\ Constructor[2].call # "sigaction"
        /\ \A i \in 1..n : Constructor[i + 2].sig = Fatal[i]
        /\ Constructor[n + 3].sig = TSTP
    <3>1. /\ Len(Constructor) = n + 3
          /\ Constructor[1] = Do("tcgetattr") /\ Constructor[2] = Do("setraw")
          /\ \A i \in 1..n : Constructor[i + 2] = Call("sigaction", Fatal[i], "fatal")
          /\ Constructor[n + 3] = Call("sigaction", TSTP, "tstp")
      BY <2>3, ConstructorCalls
    <3>2. Constructor[1].call # "sigaction" /\ Constructor[2].call # "sigaction"
      BY <3>1, CallParts
    <3>3. \A i \in 1..n : Constructor[i + 2].sig = Fatal[i]
      BY <3>1, CallParts
    <3> QED
      BY <3>1, <3>2, <3>3, CallParts
  <2>5. \A i \in 1..(n + 3) :
            \/ i = 1 \/ i = 2 \/ i = n + 3
            \/ i - 2 \in 1..n /\ (i - 2) + 2 = i
    OBVIOUS
  <2>6. ASSUME NEW i \in 1..(n + 3), Constructor[i].call = "sigaction",
               Constructor[i].sig \in FatalSignal
        PROVE  i - 2 \in 1..n /\ Constructor[i].sig = Fatal[i - 2]
    <3>1. i # 1 /\ i # 2 /\ i # n + 3
      BY <2>4, <2>6, SignalFacts
    <3>2. i - 2 \in 1..n /\ (i - 2) + 2 = i
      BY <2>5, <3>1
    <3> QED
      BY <2>4, <3>2
  <2>7. ASSUME NEW i \in 1..(n + 3), Constructor[i].call = "sigaction",
               Constructor[i].sig \in FatalSignal,
               NEW j \in 1..(n + 3), Constructor[j].call = "sigaction",
               Constructor[j].sig = Constructor[i].sig
        PROVE  j = i
    <3>1. /\ i - 2 \in 1..n /\ Constructor[i].sig = Fatal[i - 2]
          /\ j - 2 \in 1..n /\ Constructor[j].sig = Fatal[j - 2]
      BY <2>6, <2>7
    <3>2. i - 2 = j - 2
      BY <2>3, <2>7, <3>1, FatalAssumption
    <3> QED
      BY <3>2
  <2>8. \A s \in Signal : disp'[s] = "default"
    BY <1>2, <2>1 DEF FirstContext, sigVars
  <2>9. RegistersOnce'
    BY <2>2, <2>4, <2>7, <2>8, SignalFacts DEF RegistersOnce
  <2>10. \A i \in 2..1 : FALSE
    OBVIOUS
  <2> QED
    BY <1>2, <1>4, <2>9, <2>10 DEF FirstContext, sigVars
<1>6. CASE Destroy \/ EnableMouse \/ DisableMouse
  <2>1. q \in {RawModeDisable, MouseEnable, MouseDisable}
    <3>1. \A p \in Seq(AnyCall) : Enters(p) => frames'[1].calls = p
      BY DEF Enters
    <3>2. \E p \in {RawModeDisable, MouseEnable, MouseDisable} : Enters(p)
      BY <1>6 DEF Destroy, EnableMouse, DisableMouse, MouseEnable, MouseDisable
    <3> QED
      BY <1>3, <3>1, <3>2, OtherCalls
  <2>2. \A i \in 1..Len(q) : q[i].call # "sigaction"
    <3>1. Len(q) = 1 \/ Len(q) = 2
      BY <2>1, OtherCalls
    <3>2. q[1].call # "sigaction"
      BY <2>1, OtherCalls DEF Do, Call
    <3>3. Len(q) = 2 => q[2].call # "sigaction"
      <4>1. Len(q) = 2 => q[2] = Do("require") \/ q[2] = Do("unrequire")
        <5>1. q = RawModeDisable => Len(q) = 1
          BY OtherCalls
        <5>2. q = MouseEnable => q[2] = Do("require")
          BY OtherCalls
        <5>3. q = MouseDisable => q[2] = Do("unrequire")
          BY OtherCalls
        <5> QED
          BY <2>1, <5>1, <5>2, <5>3
      <4>2. Do("require").call # "sigaction" /\ Do("unrequire").call # "sigaction"
        BY CallParts
      <4> QED
        BY <4>1, <4>2
    <3> QED
      BY <3>1, <3>2, <3>3
  <2>3. RegistersOnce'
    BY <1>3, <2>2 DEF RegistersOnce
  <2>4. \A i \in 2..1 : FALSE
    OBVIOUS
  <2> QED
    BY <1>2, <1>4, <2>3, <2>4 DEF FirstContext, sigVars
<1> QED
  BY <1>5, <1>6

LEMMA FatalReturn ==
    ASSUME TypeInv, FirstContext, HandlerReturns
    PROVE  FirstContext'
<1>1. frames' = SubSeq(frames, 1, Len(frames) - 1) /\ Len(frames) > 1
  BY DEF HandlerReturns
<1>2. UNCHANGED <<disp, old, pending, contexts, context>>
  BY DEF HandlerReturns, sigVars, progVars
<1>3. frames \in Seq(Frame)
  BY DEF TypeInv
<1>4. PICK n \in Nat \ {0} : Len(frames) - 1 = n /\ Len(frames) = n + 1
  BY <1>1, <1>3, ReturnFrames, LenProperties
<1>5. Len(frames') = n /\ \A i \in 1..n : frames'[i] = frames[i]
  BY <1>1, <1>3, <1>4, ReturnFrames
<1>6. 1 \in 1..n /\ \A i \in 2..n : i \in 1..n /\ i \in 2..(n + 1)
  OBVIOUS
<1>7. RegistersOnce'
  BY <1>2, <1>5, <1>6 DEF FirstContext, RegistersOnce
<1>8. ASSUME NEW i \in 2..n
      PROVE  RegistersNone(frames'[i].calls) /\ FatalFrame(i)'
  <2>1. RegistersNone(frames[i].calls) /\ FatalFrame(i) /\ frames'[i] = frames[i]
    BY <1>4, <1>5, <1>6 DEF FirstContext
  <2> QED
    BY <1>2, <2>1 DEF FatalFrame
<1>9. contexts' # 0
  <2>1. Len(frames) # 1
    BY <1>4
  <2> QED
    BY <1>2, <2>1 DEF FirstContext
<1> QED
  BY <1>2, <1>5, <1>7, <1>8, <1>9 DEF FirstContext

(* The calls, one by one.                                                  *)
LEMMA FatalCalled ==
    ASSUME TypeInv, FirstContext,
           \/ TcGetAttr \/ TcSetAttr \/ MouseTracking \/ RequireMouse
           \/ Sigaction \/ Reinstate \/ Raise
    PROVE  FirstContext'
<1> DEFINE c == Head(Top.calls)
<1>1. VarsOK /\ DispositionsOK
  BY TypeParts
<1>2. CASE TcGetAttr \/ TcSetAttr \/ MouseTracking \/ RequireMouse
  <2>1. PICK names : /\ Calls(names) /\ UNCHANGED sigVars
                     /\ "reinstate" \notin names /\ "raise" \notin names
    BY <1>2 DEF TcGetAttr, TcSetAttr, MouseTracking, RequireMouse
  <2>2. UNCHANGED <<disp, old, pending>> /\ c.call \in names
    BY <2>1, CallFrames DEF sigVars
  <2>3. \A s \in FatalSignal : c # Call("reinstate", s, s) /\ c # Call("raise", s, None)
    BY <2>1, <2>2, CallParts
  <2> HIDE DEF c
  <2>4. \A s \in FatalSignal : old'[s] = "default" /\ disp'[s] = disp[s]
    BY <2>2 DEF FirstContext
  <2> QED
    BY <2>1, <2>2, <2>3, <2>4, FatalCall DEF c
<1>3. CASE Sigaction
  <2>1. Calls({"sigaction"}) /\ c \in AnyCall /\ c.call = "sigaction"
    BY <1>3, CallFrames DEF Sigaction
  <2>2. /\ disp' = [disp EXCEPT ![c.sig] = c.arg] /\ old' = [old EXCEPT ![c.sig] = disp[c.sig]]
        /\ pending' = pending
    BY <1>3 DEF Sigaction
  <2>3. \A s \in FatalSignal : c # Call("reinstate", s, s) /\ c # Call("raise", s, None)
    BY <2>1, CallParts
  <2>4. c.sig \in FatalSignal => disp[c.sig] = "default"
    <3>1. PICK n \in Nat \ {0} : Len(frames) = n
      BY <2>1, CallFrames
    <3>2. /\ Top = frames[n] /\ Top.calls \in Seq(AnyCall) /\ Top.calls # << >>
      BY <2>1, <3>1, CallFrames DEF Top
    <3>3. PICK m \in Nat \ {0} : Len(Top.calls) = m
      BY <3>2, EmptySeq
    <3>4. 1 \in 1..m /\ c = Top.calls[1]
      BY <3>2, <3>3
    <3>5. n # 1 => RegistersNone(Top.calls)
      <4>1. n # 1 => n \in 2..n
        OBVIOUS
      <4> QED
        BY <3>1, <3>2, <4>1 DEF FirstContext
    <3>6. n # 1 => c.sig \notin FatalSignal
      BY <2>1, <3>3, <3>4, <3>5 DEF RegistersNone
    <3>7. n = 1 /\ c.sig \in FatalSignal => disp[c.sig] = "default"
      BY <2>1, <3>2, <3>3, <3>4 DEF FirstContext, RegistersOnce
    <3> QED
      BY <3>6, <3>7
  <2> HIDE DEF c
  <2>5. c.sig \in Signal
    BY <2>1, CallKinds, SignalFacts
  <2>6. /\ disp'[c.sig] = c.arg /\ old'[c.sig] = disp[c.sig]
        /\ \A s \in Signal : s # c.sig => disp'[s] = disp[s] /\ old'[s] = old[s]
    BY <1>1, <2>2, <2>5 DEF VarsOK
  <2>7. \A s \in FatalSignal : old'[s] = "default"
    BY <2>4, <2>6, SignalFacts DEF FirstContext
  <2>8. \A s \in FatalSignal :
            disp[s] = "default" /\ ~(c.call = "sigaction" /\ c.sig = s) => disp'[s] = "default"
    BY <2>1, <2>6, SignalFacts
  <2> QED
    BY <2>1, <2>2, <2>3, <2>7, <2>8, FatalCall DEF c
<1>4. CASE Reinstate
  <2>1. Calls({"reinstate"}) /\ c \in AnyCall /\ c.call = "reinstate"
    BY <1>4, CallFrames DEF Reinstate
  <2>2. disp' = [disp EXCEPT ![c.sig] = old[c.arg]] /\ UNCHANGED <<old, pending>>
    BY <1>4 DEF Reinstate
  <2>3. \A s \in FatalSignal : c # Call("raise", s, None)
    BY <2>1, CallParts
  <2> HIDE DEF c
  <2>4. \/ c.sig \in FatalSignal /\ c.arg = c.sig
        \/ c.sig \in {TSTP, CONT} /\ c.arg \in {TSTP, CONT}
    BY <2>1, CallKinds
  <2>5. c.sig \in Signal /\ c.arg \in Signal
    BY <2>4, SignalFacts
  <2>6. /\ disp'[c.sig] = old[c.arg]
        /\ \A s \in Signal : s # c.sig => disp'[s] = disp[s]
    BY <1>1, <2>2, <2>5 DEF VarsOK
  <2>7. \A s \in FatalSignal : old'[s] = "default"
    BY <2>2 DEF FirstContext
  <2>8. c.sig \in FatalSignal => disp'[c.sig] = "default"
    BY <2>2, <2>4, <2>6, <2>7, SignalFacts
  <2>9. \A s \in FatalSignal : disp[s] = "default" => disp'[s] = "default"
    BY <2>6, <2>8, SignalFacts
  <2>10. \A s \in FatalSignal : c = Call("reinstate", s, s) => disp'[s] = "default"
    BY <2>8, CallParts
  <2> QED
    BY <2>1, <2>2, <2>3, <2>7, <2>9, <2>10, FatalCall DEF c
<1>5. CASE Raise
  <2>1. Calls({"raise"}) /\ c \in AnyCall /\ c.call = "raise"
    BY <1>5, CallFrames DEF Raise
  <2>2. Post(c.sig) /\ UNCHANGED <<disp, old>>
    BY <1>5 DEF Raise
  <2>3. \A s \in FatalSignal : c # Call("reinstate", s, s)
    BY <2>1, CallParts
  <2> HIDE DEF c
  <2>4. c.sig \in Signal
    BY <2>1, CallKinds
  <2>5. (FatalSignal \cap pending) \cup {c.sig} \subseteq pending'
    BY <2>2, <2>4, PostKeepsFatal
  <2>6. \A s \in FatalSignal : c = Call("raise", s, None) => s \in pending'
    BY <2>5, CallParts
  <2>7. \A s \in FatalSignal : old'[s] = "default" /\ disp'[s] = disp[s]
    BY <2>2 DEF FirstContext
  <2> QED
    BY <2>1, <2>3, <2>5, <2>6, <2>7, FatalCall DEF c
<1> QED
  BY <1>2, <1>3, <1>4, <1>5

(* Every step.                                                             *)
LEMMA FatalStep ==
    ASSUME TypeInv, FatalInv, RawStep
    PROVE  FatalInv'
<1> SUFFICES ASSUME contexts' <= 1 PROVE FirstContext'
  BY DEF FatalInv
<1>1. VarsOK /\ contexts \in Nat
  BY TypeParts, FatalAssumption DEF VarsOK
<1>2. contexts' = contexts \/ (Construct /\ contexts' = contexts + 1)
  BY DEF RawStep, RawNext, RawProgress, RawProgram, AssertionFails, rawVars, progVars, Send,
         Deliver, TcSetAttr, TcGetAttr, MouseTracking, RequireMouse, Sigaction, Reinstate, Raise,
         Calls, HandlerReturns, Construct, Destroy, EnableMouse, DisableMouse, Exit
<1>3. FirstContext
  BY <1>1, <1>2 DEF FatalInv
<1>4. CASE \E s \in Signal : Send(s)
  <2>1. PICK s \in Signal : Send(s)
    BY <1>4
  <2>2. FatalSignal \cap pending \subseteq pending'
    BY <2>1, PostKeepsFatal DEF Send
  <2>3. UNCHANGED <<disp, old, frames, contexts, context>>
    BY <2>1 DEF Send, progVars
  <2> QED
    BY <1>3, <2>2, <2>3, FatalSignals
<1>5. CASE \E s \in Signal : Deliver(s)
  BY <1>3, <1>5, FatalDeliver
<1>6. CASE HandlerReturns
  BY <1>3, <1>6, FatalReturn
<1>7. CASE Construct \/ Destroy \/ EnableMouse \/ DisableMouse
  BY <1>3, <1>7, FatalEnter
<1>8. CASE Exit \/ UNCHANGED rawVars
  <2>1. UNCHANGED <<disp, old, pending, frames, contexts, context>>
    BY <1>8 DEF Exit, rawVars, sigVars, progVars
  <2> QED
    BY <1>3, <2>1, FatalSignals
<1>9. CASE AssertionFails
  <2>1. PICK s \in FatalSignal : Post(s) /\ UNCHANGED <<disp, old, frames, progVars>>
    BY <1>9 DEF AssertionFails
  <2>2. FatalSignal \cap pending \subseteq pending'
    BY <2>1, PostKeepsFatal, SignalFacts
  <2> QED
    BY <1>3, <2>1, <2>2, FatalSignals DEF progVars
<1>10. CASE TcGetAttr \/ TcSetAttr \/ MouseTracking \/ RequireMouse \/ Sigaction \/ Reinstate \/ Raise
  BY <1>3, <1>10, FatalCalled
<1> QED
  BY <1>4, <1>5, <1>6, <1>7, <1>8, <1>9, <1>10 DEF RawStep, RawNext, RawProgress, RawProgram

(* While the program has had one context, the handler of a fatal signal    *)
(* returns to a process that the signal kills, whatever it interrupted.    *)
THEOREM FatalSignalAlwaysKills == Spec => []FatalSignalKills
<1>1. Init => TypeInv /\ FatalInv
  BY TypeInit, FatalInit DEF Init
<1>2. TypeInv /\ FatalInv /\ [Next]_vars => TypeInv' /\ FatalInv'
  BY NextIsRawStep, TypeStep, FatalStep
<1>3. TypeInv /\ FatalInv => FatalSignalKills
  <2> SUFFICES ASSUME TypeInv, FirstContext, Top.sig \in FatalSignal, Top.calls = << >>
               PROVE  Top.sig \in pending /\ disp[Top.sig] = "default"
    BY DEF FatalInv, FatalSignalKills
  <2>1. PICK n \in Nat \ {0} : Len(frames) = n
    BY StackFacts, EmptySeq DEF StackOK
  <2>2. n # 1
    BY <2>1, StackFacts, SignalFacts
  <2>3. n \in 2..n /\ Top = frames[n]
    BY <2>1, <2>2 DEF Top
  <2>4. FatalFrame(n)
    BY <2>1, <2>3 DEF FirstContext
  <2>5. Len(<< >>) = 0
    OBVIOUS
  <2> QED
    BY <2>3, <2>4, <2>5 DEF FatalFrame
<1> QED
  BY <1>1, <1>2, <1>3, PTL DEF Spec

-----------------------------------------------------------------------------
(***************************************************************************)
(* Why the terminal is given back, and back in raw mode afterwards, for    *)
(* any list of fatal signals, any number of signals and of contexts.       *)
(*                                                                         *)
(* While no signal has come at a bad moment (calm) the program is at rest, *)
(* awake or asleep or about to die, or in one of its functions, or in one  *)
(* handler that found it at rest.  What the modes and the actions of the   *)
(* signals are follows from how many calls are left of that function or    *)
(* handler: the invariant has a predicate of that number for each of them. *)
(***************************************************************************)
FatalHandled == \A s \in FatalSignal : disp[s] = "fatal"
Installed    == FatalHandled /\ disp[TSTP] = "tstp" /\ disp[CONT] = "default"

Awake ==
    /\ attrs = IF context THEN "raw" ELSE "cooked"
    /\ mouse = guard /\ require = guard
    /\ context => proc = "running"
    /\ contexts = 0 => \A s \in Signal : disp[s] = "default"
    /\ contexts # 0 => Installed

\* Suspended, or about to be, or about to continue.
Asleep ==
    /\ context /\ attrs = "cooked" /\ mouse = FALSE /\ require = guard
    /\ FatalHandled /\ disp[TSTP] = "default" /\ disp[CONT] = "cont" /\ old[CONT] = "default"
    /\ \/ proc = "stopped"
       \/ proc = "running" /\ (TSTP \in pending \/ CONT \in pending)

\* A fatal signal has been raised again.
Dying ==
    /\ context /\ attrs = "cooked" /\ mouse = FALSE /\ require = guard
    /\ proc = "dead" \/ \E s \in FatalSignal : s \in pending

\* With n calls left of the constructor, of the destructor and of those of
\* enable_mouse_t.
Constructing(n) ==
    /\ context /\ proc = "running"
    /\ guard = FALSE /\ mouse = FALSE /\ require = FALSE
    /\ attrs = IF n >= Len(Fatal) + 2 THEN "cooked" ELSE "raw"
    /\ \A i \in 1..Len(Fatal) : i + n <= Len(Fatal) + 1 => disp[Fatal[i]] = "fatal"
    /\ n = 0 => disp[TSTP] = "tstp"
    /\ disp[CONT] = "default"

Destroying(n) ==
    /\ ~context /\ contexts # 0 /\ proc = "running"
    /\ guard = FALSE /\ mouse = FALSE /\ require = FALSE
    /\ attrs = IF n = 0 THEN "cooked" ELSE "raw"
    /\ Installed

Enabling(n) ==
    /\ context /\ proc = "running"
    /\ guard = TRUE
    /\ n <= 1 => mouse = TRUE
    /\ n <= 0 => require = TRUE
    /\ attrs = "raw" /\ Installed

Disabling(n) ==
    /\ context /\ proc = "running"
    /\ guard = FALSE
    /\ n <= 1 => mouse = FALSE
    /\ n <= 0 => require = FALSE
    /\ attrs = "raw" /\ Installed

\* With n calls left of the handlers of SIGTSTP, of SIGCONT and of the fatal
\* signal s.
Suspending(n) ==
    /\ context /\ proc = "running" /\ require = guard /\ FatalHandled
    /\ n >= 5 => disp[CONT] = "default"
    /\ n <= 4 => disp[CONT] = "cont" /\ old[CONT] = "default"
    /\ n <= 3 => attrs = "cooked"
    /\ n >= 3 => mouse = guard
    /\ n <= 2 => mouse = FALSE
    /\ n <= 1 => disp[TSTP] = "default"
    /\ n = 0 => TSTP \in pending \/ CONT \in pending

Resuming(n) ==
    /\ context /\ proc = "running" /\ require = guard /\ FatalHandled
    /\ n >= 6 => disp[TSTP] = "default"
    /\ n <= 5 => disp[TSTP] = "tstp" /\ old[TSTP] = "default"
    /\ attrs = IF n <= 3 THEN "raw" ELSE "cooked"
    /\ n >= 3 => mouse = FALSE
    /\ n <= 2 => mouse = guard
    /\ n <= 1 => disp[CONT] = "default"

Killing(n, s) ==
    /\ context /\ proc = "running" /\ require = guard
    /\ n <= 3 => attrs = "cooked"
    /\ n >= 3 => mouse = guard \/ mouse = FALSE
    /\ n <= 2 => mouse = FALSE
    /\ n = 0 => s \in pending

\* In the handler of t, which a fatal signal interrupts before its next call.
Doomed(t) == proc = "running" /\ \E s \in FatalSignal : s # t /\ s \in pending

InProgram(q) ==
    \/ q = << >> /\ (Awake \/ Asleep \/ Dying)
    \/ q # << >> /\ \/ Rest(q, Constructor) /\ Constructing(Len(q))
                    \/ Rest(q, RawModeDisable) /\ Destroying(Len(q))
                    \/ Rest(q, MouseEnable) /\ Enabling(Len(q))
                    \/ Rest(q, MouseDisable) /\ Disabling(Len(q))

InHandler(q, t) ==
    \/ t = TSTP /\ Rest(q, HandleSigtstp(TSTP)) /\ Suspending(Len(q))
    \/ t = CONT /\ Rest(q, HandleSigcont(CONT)) /\ Resuming(Len(q))
    \/ t \in FatalSignal /\ Rest(q, HandleFatalSignal(t)) /\ Killing(Len(q), t)
    \/ Doomed(t)

CalmState ==
    /\ saved = "cooked"
    /\ context => contexts # 0
    /\ \/ Len(frames) = 1 /\ InProgram(frames[1].calls)
       \/ /\ Len(frames) = 2 /\ frames[1].calls = << >> /\ context
          /\ InHandler(frames[2].calls, frames[2].sig)

CalmInv == calm => CalmState

-----------------------------------------------------------------------------
(* What a call does.                                                       *)
Effect(c) ==
    /\ c.call = "tcgetattr" => saved' = attrs /\ UNCHANGED <<attrs, mouse, require, sigVars>>
    /\ c.call = "setraw" => attrs' = "raw" /\ UNCHANGED <<saved, mouse, require, sigVars>>
    /\ c.call = "restore" => attrs' = saved /\ UNCHANGED <<saved, mouse, require, sigVars>>
    /\ c.call = "mouseon" => mouse' = TRUE /\ UNCHANGED <<attrs, saved, require, sigVars>>
    /\ c.call = "mouseoff" => mouse' = FALSE /\ UNCHANGED <<attrs, saved, require, sigVars>>
    /\ c.call = "mouseonif" =>
          /\ require = TRUE => mouse' = TRUE
          /\ require = FALSE => mouse' = mouse
          /\ UNCHANGED <<attrs, saved, require, sigVars>>
    /\ c.call = "mouseoffif" =>
          /\ require = TRUE => mouse' = FALSE
          /\ require = FALSE => mouse' = mouse
          /\ UNCHANGED <<attrs, saved, require, sigVars>>
    /\ c.call = "require" => require' = TRUE /\ UNCHANGED <<attrs, saved, mouse, sigVars>>
    /\ c.call = "unrequire" => require' = FALSE /\ UNCHANGED <<attrs, saved, mouse, sigVars>>
    /\ c.call = "sigaction" =>
          /\ disp'[c.sig] = c.arg /\ old'[c.sig] = disp[c.sig]
          /\ \A s \in Signal : s # c.sig => disp'[s] = disp[s] /\ old'[s] = old[s]
          /\ UNCHANGED <<modeVars, pending>>
    /\ c.call = "reinstate" =>
          /\ disp'[c.sig] = old[c.arg]
          /\ \A s \in Signal : s # c.sig => disp'[s] = disp[s]
          /\ UNCHANGED <<modeVars, old, pending>>
    /\ c.call = "raise" => Post(c.sig) /\ UNCHANGED <<modeVars, disp, old>>

ACall == \/ TcGetAttr \/ TcSetAttr \/ MouseTracking \/ RequireMouse
         \/ Sigaction \/ Reinstate \/ Raise

LEMMA CallEffect ==
    ASSUME TypeInv, ACall
    PROVE  Effect(Head(Top.calls)) /\ \E names : Calls(names)
<1> DEFINE c == Head(Top.calls)
<1>1. \E names : Calls(names)
  BY DEF ACall, TcGetAttr, TcSetAttr, MouseTracking, RequireMouse, Sigaction, Reinstate, Raise
<1>2. c \in AnyCall
  BY <1>1, CallFrames
<1>3. CASE TcGetAttr
  <2>1. c.call = "tcgetattr" /\ saved' = attrs /\ UNCHANGED <<attrs, mouse, require, sigVars>>
    BY <1>3 DEF TcGetAttr, Calls
  <2> QED
    BY <1>1, <2>1, Zenon DEF Effect
<1>4. CASE TcSetAttr
  <2>1. c.call \in {"setraw", "restore"} /\ UNCHANGED <<saved, mouse, require, sigVars>>
        /\ attrs' = IF c.call = "setraw" THEN "raw" ELSE saved
    BY <1>4 DEF TcSetAttr, Calls
  <2> HIDE DEF c
  <2>2. Effect(c)
    BY <2>1 DEF Effect
  <2> QED
    BY <1>1, <2>2 DEF c
<1>5. CASE MouseTracking
  <2>1. c.call \in {"mouseon", "mouseoff", "mouseonif", "mouseoffif"}
        /\ UNCHANGED <<attrs, saved, require, sigVars>>
    BY <1>5 DEF MouseTracking, Calls
  <2>2. require \in BOOLEAN
    BY TypeParts DEF VarsOK
  <2>3. /\ c.call = "mouseon" => mouse' = TRUE
        /\ c.call = "mouseoff" => mouse' = FALSE
        /\ c.call = "mouseonif" => /\ require = TRUE => mouse' = TRUE
                                   /\ require = FALSE => mouse' = mouse
        /\ c.call = "mouseoffif" => /\ require = TRUE => mouse' = FALSE
                                    /\ require = FALSE => mouse' = mouse
    BY <1>5, <2>1, <2>2 DEF MouseTracking
  <2> HIDE DEF c
  <2>4. Effect(c)
    BY <2>1, <2>3 DEF Effect
  <2> QED
    BY <1>1, <2>4 DEF c
<1>6. CASE RequireMouse
  <2>1. c.call \in {"require", "unrequire"} /\ UNCHANGED <<attrs, saved, mouse, sigVars>>
        /\ require' = (c.call = "require")
    BY <1>6 DEF RequireMouse, Calls
  <2> HIDE DEF c
  <2>2. c.call = "require" => require' = TRUE
    BY <2>1
  <2>3. c.call = "unrequire" => require' = FALSE
    BY <2>1
  <2>4. Effect(c)
    BY <2>1, <2>2, <2>3 DEF Effect
  <2> QED
    BY <1>1, <2>4 DEF c
<1>7. CASE Sigaction
  <2>1. /\ c.call = "sigaction" /\ UNCHANGED <<modeVars, pending>>
        /\ disp' = [disp EXCEPT ![c.sig] = c.arg] /\ old' = [old EXCEPT ![c.sig] = disp[c.sig]]
    BY <1>7 DEF Sigaction, Calls
  <2> HIDE DEF c
  <2>2. c.sig \in Signal
    BY <1>2, <2>1, CallKinds, SignalFacts
  <2>3. /\ disp'[c.sig] = c.arg /\ old'[c.sig] = disp[c.sig]
        /\ \A s \in Signal : s # c.sig => disp'[s] = disp[s] /\ old'[s] = old[s]
    BY <2>1, <2>2, TypeParts DEF VarsOK
  <2>4. Effect(c)
    BY <2>1, <2>3 DEF Effect
  <2> QED
    BY <1>1, <2>4 DEF c
<1>8. CASE Reinstate
  <2>1. /\ c.call = "reinstate" /\ UNCHANGED <<modeVars, old, pending>>
        /\ disp' = [disp EXCEPT ![c.sig] = old[c.arg]]
    BY <1>8 DEF Reinstate, Calls
  <2> HIDE DEF c
  <2>2. c.sig \in Signal
    BY <1>2, <2>1, CallKinds, SignalFacts
  <2>3. /\ disp'[c.sig] = old[c.arg]
        /\ \A s \in Signal : s # c.sig => disp'[s] = disp[s]
    BY <2>1, <2>2, TypeParts DEF VarsOK
  <2>4. Effect(c)
    BY <2>1, <2>3 DEF Effect
  <2> QED
    BY <1>1, <2>4 DEF c
<1>9. CASE Raise
  <2>1. c.call = "raise" /\ Post(c.sig) /\ UNCHANGED <<modeVars, disp, old>>
    BY <1>9 DEF Raise, Calls
  <2> HIDE DEF c
  <2>2. Effect(c)
    BY <2>1 DEF Effect
  <2> QED
    BY <1>1, <2>2 DEF c
<1> QED
  BY <1>3, <1>4, <1>5, <1>6, <1>7, <1>8, <1>9 DEF ACall

(* A function that has n calls left makes the first of them.               *)
LEMMA LeftCalls ==
    ASSUME NEW f \in Seq(AnyCall), NEW q \in Seq(AnyCall), q # << >>, Rest(q, f)
    PROVE  \E n \in 1..Len(f) :
              /\ Len(q) = n /\ Head(q) = f[Len(f) - n + 1]
              /\ Len(Tail(q)) = n - 1 /\ Tail(q) \in Seq(AnyCall) /\ Rest(Tail(q), f)
  BY RestTail

(* What a signal that arrives leaves pending.                              *)
LEMMA PostKeeps ==
    ASSUME NEW x \in Signal, Post(x)
    PROVE  /\ x \in pending'
           /\ \A s \in FatalSignal : s \in pending => s \in pending'
           /\ (TSTP \in pending \/ CONT \in pending) => (TSTP \in pending' \/ CONT \in pending')
  BY SignalFacts DEF Post

LEMMA SuspendingCall ==
    ASSUME TypeInv, saved = "cooked", NEW q \in Seq(AnyCall), q # << >>,
           Rest(q, HandleSigtstp(TSTP)), Suspending(Len(q)),
           Effect(Head(q)), UNCHANGED <<proc, progVars>>
    PROVE  /\ saved' = "cooked" /\ Rest(Tail(q), HandleSigtstp(TSTP))
           /\ Suspending(Len(Tail(q)))'
<1> DEFINE f == HandleSigtstp(TSTP)
           c == Head(q)
<1>1. /\ f \in Seq(AnyCall) /\ Len(f) = 5
      /\ f[1] = Call("sigaction", CONT, "cont") /\ f[2] = Do("restore") /\ f[3] = Do("mouseoffif")
      /\ f[4] = Call("reinstate", TSTP, CONT) /\ f[5] = Call("raise", TSTP, None)
  BY TstpCalls
<1> HIDE DEF f
<1>2. PICK n \in 1..5 : /\ Len(q) = n /\ c = f[5 - n + 1]
                        /\ Len(Tail(q)) = n - 1 /\ Rest(Tail(q), f)
  <2>1. Rest(q, f)
    BY DEF f
  <2>2. PICK n \in 1..Len(f) :
           /\ Len(q) = n /\ Head(q) = f[Len(f) - n + 1]
           /\ Len(Tail(q)) = n - 1 /\ Rest(Tail(q), f)
    BY <1>1, <2>1, LeftCalls
  <2> QED
    BY <1>1, <2>2
<1>3. Suspending(n) /\ Effect(c)
  BY <1>2
<1>4. require \in BOOLEAN /\ guard \in BOOLEAN /\ mouse \in BOOLEAN
  BY TypeParts DEF VarsOK
<1> HIDE DEF c
<1>5. ASSUME n = 5
      PROVE  saved' = "cooked" /\ Suspending(n - 1)'
  <2>1. c.call = "sigaction" /\ c.sig = CONT /\ c.arg = "cont"
    BY <1>1, <1>2, <1>5, CallParts
  <2>2. /\ disp'[CONT] = "cont" /\ old'[CONT] = disp[CONT] /\ UNCHANGED <<modeVars, pending>>
        /\ \A s \in Signal : s # CONT => disp'[s] = disp[s]
    BY <1>3, <2>1 DEF Effect
  <2>3. Suspending(n - 1)'
    BY <1>3, <1>5, <2>2, SignalFacts DEF Suspending, FatalHandled, modeVars, progVars
  <2> QED
    BY <2>2, <2>3 DEF modeVars
<1>6. ASSUME n = 4
      PROVE  saved' = "cooked" /\ Suspending(n - 1)'
  <2>1. c.call = "restore"
    BY <1>1, <1>2, <1>6, CallParts
  <2>2. attrs' = saved /\ UNCHANGED <<saved, mouse, require, sigVars>>
    BY <1>3, <2>1 DEF Effect
  <2>3. Suspending(n - 1)'
    BY <1>3, <1>6, <2>2 DEF Suspending, FatalHandled, sigVars, progVars
  <2> QED
    BY <2>2, <2>3
<1>7. ASSUME n = 3
      PROVE  saved' = "cooked" /\ Suspending(n - 1)'
  <2>1. c.call = "mouseoffif"
    BY <1>1, <1>2, <1>7, CallParts
  <2>2. /\ require = TRUE => mouse' = FALSE
        /\ require = FALSE => mouse' = mouse
        /\ UNCHANGED <<attrs, saved, require, sigVars>>
    BY <1>3, <2>1 DEF Effect
  <2>3. mouse = guard /\ require = guard
    BY <1>3, <1>7 DEF Suspending
  <2>4. mouse' = FALSE
    BY <1>4, <2>2, <2>3
  <2>5. Suspending(n - 1)'
    BY <1>3, <1>7, <2>2, <2>4 DEF Suspending, FatalHandled, sigVars, progVars
  <2> QED
    BY <2>2, <2>5
<1>8. ASSUME n = 2
      PROVE  saved' = "cooked" /\ Suspending(n - 1)'
  <2>1. c.call = "reinstate" /\ c.sig = TSTP /\ c.arg = CONT
    BY <1>1, <1>2, <1>8, CallParts
  <2>2. /\ disp'[TSTP] = old[CONT] /\ UNCHANGED <<modeVars, old, pending>>
        /\ \A s \in Signal : s # TSTP => disp'[s] = disp[s]
    BY <1>3, <2>1 DEF Effect
  <2>3. Suspending(n - 1)'
    BY <1>3, <1>8, <2>2, SignalFacts DEF Suspending, FatalHandled, modeVars, progVars
  <2> QED
    BY <2>2, <2>3 DEF modeVars
<1>9. ASSUME n = 1
      PROVE  saved' = "cooked" /\ Suspending(n - 1)'
  <2>1. c.call = "raise" /\ c.sig = TSTP
    BY <1>1, <1>2, <1>9, CallParts
  <2>2. Post(TSTP) /\ UNCHANGED <<modeVars, disp, old>>
    BY <1>3, <2>1 DEF Effect
  <2>3. TSTP \in pending'
    BY <2>2, PostKeeps, SignalFacts
  <2>4. Suspending(n - 1)'
    BY <1>3, <1>9, <2>2, <2>3 DEF Suspending, FatalHandled, modeVars, progVars
  <2> QED
    BY <2>2, <2>4 DEF modeVars
<1>10. n = 1 \/ n = 2 \/ n = 3 \/ n = 4 \/ n = 5
  OBVIOUS
<1>11. Suspending(n - 1)' => Suspending(Len(Tail(q)))'
  BY <1>2 DEF Suspending
<1>12. Rest(Tail(q), f)
  BY <1>2
<1> QED
  BY <1>5, <1>6, <1>7, <1>8, <1>9, <1>10, <1>11, <1>12 DEF f

LEMMA ResumingCall ==
    ASSUME TypeInv, saved = "cooked", NEW q \in Seq(AnyCall), q # << >>,
           Rest(q, HandleSigcont(CONT)), Resuming(Len(q)),
           Effect(Head(q)), UNCHANGED <<proc, progVars>>
    PROVE  /\ saved' = "cooked" /\ Rest(Tail(q), HandleSigcont(CONT))
           /\ Resuming(Len(Tail(q)))'
<1> DEFINE f == HandleSigcont(CONT)
           c == Head(q)
<1>1. /\ f \in Seq(AnyCall) /\ Len(f) = 6
      /\ f[1] = Call("sigaction", TSTP, "tstp") /\ f[2] = Do("tcgetattr") /\ f[3] = Do("setraw")
      /\ f[4] = Do("mouseonif") /\ f[5] = Call("reinstate", CONT, TSTP)
      /\ f[6] = Call("raise", CONT, None)
  BY ContCalls
<1> HIDE DEF f
<1>2. PICK n \in 1..6 : /\ Len(q) = n /\ c = f[6 - n + 1]
                        /\ Len(Tail(q)) = n - 1 /\ Rest(Tail(q), f)
  <2>1. Rest(q, f)
    BY DEF f
  <2>2. PICK n \in 1..Len(f) :
           /\ Len(q) = n /\ Head(q) = f[Len(f) - n + 1]
           /\ Len(Tail(q)) = n - 1 /\ Rest(Tail(q), f)
    BY <1>1, <2>1, LeftCalls
  <2> QED
    BY <1>1, <2>2
<1>3. Resuming(n) /\ Effect(c)
  BY <1>2
<1>4. require \in BOOLEAN /\ guard \in BOOLEAN /\ mouse \in BOOLEAN
  BY TypeParts DEF VarsOK
<1> HIDE DEF c
<1>5. ASSUME n = 6
      PROVE  saved' = "cooked" /\ Resuming(n - 1)'
  <2>1. c.call = "sigaction" /\ c.sig = TSTP /\ c.arg = "tstp"
    BY <1>1, <1>2, <1>5, CallParts
  <2>2. /\ disp'[TSTP] = "tstp" /\ old'[TSTP] = disp[TSTP] /\ UNCHANGED <<modeVars, pending>>
        /\ \A s \in Signal : s # TSTP => disp'[s] = disp[s]
    BY <1>3, <2>1 DEF Effect
  <2>3. Resuming(n - 1)'
    BY <1>3, <1>5, <2>2, SignalFacts DEF Resuming, FatalHandled, modeVars, progVars
  <2> QED
    BY <2>2, <2>3 DEF modeVars
<1>6. ASSUME n = 5
      PROVE  saved' = "cooked" /\ Resuming(n - 1)'
  <2>1. c.call = "tcgetattr"
    BY <1>1, <1>2, <1>6, CallParts
  <2>2. saved' = attrs /\ UNCHANGED <<attrs, mouse, require, sigVars>>
    BY <1>3, <2>1 DEF Effect
  <2>3. Resuming(n - 1)' /\ attrs = "cooked"
    BY <1>3, <1>6, <2>2 DEF Resuming, FatalHandled, sigVars, progVars
  <2> QED
    BY <2>2, <2>3
<1>7. ASSUME n = 4
      PROVE  saved' = "cooked" /\ Resuming(n - 1)'
  <2>1. c.call = "setraw"
    BY <1>1, <1>2, <1>7, CallParts
  <2>2. attrs' = "raw" /\ UNCHANGED <<saved, mouse, require, sigVars>>
    BY <1>3, <2>1 DEF Effect
  <2>3. Resuming(n - 1)'
    BY <1>3, <1>7, <2>2 DEF Resuming, FatalHandled, sigVars, progVars
  <2> QED
    BY <2>2, <2>3
<1>8. ASSUME n = 3
      PROVE  saved' = "cooked" /\ Resuming(n - 1)'
  <2>1. c.call = "mouseonif"
    BY <1>1, <1>2, <1>8, CallParts
  <2>2. /\ require = TRUE => mouse' = TRUE
        /\ require = FALSE => mouse' = mouse
        /\ UNCHANGED <<attrs, saved, require, sigVars>>
    BY <1>3, <2>1 DEF Effect
  <2>3. mouse = FALSE /\ require = guard
    BY <1>3, <1>8 DEF Resuming
  <2>4. mouse' = guard
    <3>1. CASE require = TRUE
      BY <2>2, <2>3, <3>1
    <3>2. CASE require = FALSE
      BY <2>2, <2>3, <3>2
    <3> QED
      BY <1>4, <3>1, <3>2
  <2>5. Resuming(n - 1)'
    BY <1>3, <1>8, <2>2, <2>4 DEF Resuming, FatalHandled, sigVars, progVars
  <2> QED
    BY <2>2, <2>5
<1>9. ASSUME n = 2
      PROVE  saved' = "cooked" /\ Resuming(n - 1)'
  <2>1. c.call = "reinstate" /\ c.sig = CONT /\ c.arg = TSTP
    BY <1>1, <1>2, <1>9, CallParts
  <2>2. /\ disp'[CONT] = old[TSTP] /\ UNCHANGED <<modeVars, old, pending>>
        /\ \A s \in Signal : s # CONT => disp'[s] = disp[s]
    BY <1>3, <2>1 DEF Effect
  <2>3. Resuming(n - 1)'
    BY <1>3, <1>9, <2>2, SignalFacts DEF Resuming, FatalHandled, modeVars, progVars
  <2> QED
    BY <2>2, <2>3 DEF modeVars
<1>10. ASSUME n = 1
      PROVE  saved' = "cooked" /\ Resuming(n - 1)'
  <2>1. c.call = "raise"
    BY <1>1, <1>2, <1>10, CallParts
  <2>2. UNCHANGED <<modeVars, disp, old>>
    BY <1>3, <2>1 DEF Effect
  <2>3. Resuming(n - 1)'
    BY <1>3, <1>10, <2>2 DEF Resuming, FatalHandled, modeVars, progVars
  <2> QED
    BY <2>2, <2>3 DEF modeVars
<1>11. n = 1 \/ n = 2 \/ n = 3 \/ n = 4 \/ n = 5 \/ n = 6
  OBVIOUS
<1>12. Resuming(n - 1)' => Resuming(Len(Tail(q)))'
  BY <1>2 DEF Resuming
<1>13. Rest(Tail(q), f)
  BY <1>2
<1> QED
  BY <1>5, <1>6, <1>7, <1>8, <1>9, <1>10, <1>11, <1>12, <1>13 DEF f

LEMMA KillingCall ==
    ASSUME TypeInv, saved = "cooked", NEW q \in Seq(AnyCall), q # << >>, NEW s \in FatalSignal,
           Rest(q, HandleFatalSignal(s)), Killing(Len(q), s),
           Effect(Head(q)), UNCHANGED <<proc, progVars>>
    PROVE  /\ saved' = "cooked" /\ Rest(Tail(q), HandleFatalSignal(s))
           /\ Killing(Len(Tail(q)), s)'
<1> DEFINE f == HandleFatalSignal(s)
           c == Head(q)
<1>1. /\ f \in Seq(AnyCall) /\ Len(f) = 4
      /\ f[1] = Do("restore") /\ f[2] = Do("mouseoffif")
      /\ f[3] = Call("reinstate", s, s) /\ f[4] = Call("raise", s, None)
  BY FatalCalls
<1> HIDE DEF f
<1>2. PICK n \in 1..4 : /\ Len(q) = n /\ c = f[4 - n + 1]
                        /\ Len(Tail(q)) = n - 1 /\ Rest(Tail(q), f)
  <2>1. Rest(q, f)
    BY DEF f
  <2>2. PICK n \in 1..Len(f) :
           /\ Len(q) = n /\ Head(q) = f[Len(f) - n + 1]
           /\ Len(Tail(q)) = n - 1 /\ Rest(Tail(q), f)
    BY <1>1, <2>1, LeftCalls
  <2> QED
    BY <1>1, <2>2
<1>3. Killing(n, s) /\ Effect(c)
  BY <1>2
<1>4. require \in BOOLEAN /\ guard \in BOOLEAN /\ mouse \in BOOLEAN
  BY TypeParts DEF VarsOK
<1> HIDE DEF c
<1>5. ASSUME n = 4
      PROVE  saved' = "cooked" /\ Killing(n - 1, s)'
  <2>1. c.call = "restore"
    BY <1>1, <1>2, <1>5, CallParts
  <2>2. attrs' = saved /\ UNCHANGED <<saved, mouse, require, sigVars>>
    BY <1>3, <2>1 DEF Effect
  <2>3. Killing(n - 1, s)'
    BY <1>3, <1>5, <2>2 DEF Killing, sigVars, progVars
  <2> QED
    BY <2>2, <2>3
<1>6. ASSUME n = 3
      PROVE  saved' = "cooked" /\ Killing(n - 1, s)'
  <2>1. c.call = "mouseoffif"
    BY <1>1, <1>2, <1>6, CallParts
  <2>2. /\ require = TRUE => mouse' = FALSE
        /\ require = FALSE => mouse' = mouse
        /\ UNCHANGED <<attrs, saved, require, sigVars>>
    BY <1>3, <2>1 DEF Effect
  <2>3. (mouse = guard \/ mouse = FALSE) /\ require = guard
    BY <1>3, <1>6 DEF Killing
  <2>4. mouse' = FALSE
    BY <1>4, <2>2, <2>3
  <2>5. Killing(n - 1, s)'
    BY <1>3, <1>6, <2>2, <2>4 DEF Killing, sigVars, progVars
  <2> QED
    BY <2>2, <2>5
<1>7. ASSUME n = 2
      PROVE  saved' = "cooked" /\ Killing(n - 1, s)'
  <2>1. c.call = "reinstate"
    BY <1>1, <1>2, <1>7, CallParts
  <2>2. UNCHANGED <<modeVars, old, pending>>
    BY <1>3, <2>1 DEF Effect
  <2>3. Killing(n - 1, s)'
    BY <1>3, <1>7, <2>2 DEF Killing, modeVars, progVars
  <2> QED
    BY <2>2, <2>3 DEF modeVars
<1>8. ASSUME n = 1
      PROVE  saved' = "cooked" /\ Killing(n - 1, s)'
  <2>1. c.call = "raise" /\ c.sig = s
    BY <1>1, <1>2, <1>8, CallParts
  <2>2. Post(s) /\ UNCHANGED <<modeVars, disp, old>>
    BY <1>3, <2>1 DEF Effect
  <2>3. s \in pending'
    BY <2>2, PostKeeps, SignalFacts
  <2>4. Killing(n - 1, s)'
    BY <1>3, <1>8, <2>2, <2>3 DEF Killing, modeVars, progVars
  <2> QED
    BY <2>2, <2>4 DEF modeVars
<1>9. n = 1 \/ n = 2 \/ n = 3 \/ n = 4
  OBVIOUS
<1>10. Killing(n - 1, s)' => Killing(Len(Tail(q)), s)'
  BY <1>2 DEF Killing
<1>11. Rest(Tail(q), f)
  BY <1>2
<1> QED
  BY <1>5, <1>6, <1>7, <1>8, <1>9, <1>10, <1>11 DEF f


LEMMA ConstructingCall ==
    ASSUME TypeInv, saved = "cooked", NEW q \in Seq(AnyCall), q # << >>,
           Rest(q, Constructor), Constructing(Len(q)),
           Effect(Head(q)), UNCHANGED <<proc, progVars>>
    PROVE  /\ saved' = "cooked" /\ Rest(Tail(q), Constructor)
           /\ Constructing(Len(Tail(q)))'
<1> DEFINE f == Constructor
           c == Head(q)
<1>0. PICK k \in Nat : Len(Fatal) = k
  BY ConstructorCalls
<1>1. /\ f \in Seq(AnyCall) /\ Len(f) = k + 3
      /\ f[1] = Do("tcgetattr") /\ f[2] = Do("setraw")
      /\ \A i \in 1..k : f[i + 2] = Call("sigaction", Fatal[i], "fatal")
      /\ f[k + 3] = Call("sigaction", TSTP, "tstp")
  BY <1>0, ConstructorCalls
<1> HIDE DEF f
<1>2. PICK n \in 1..(k + 3) : /\ Len(q) = n /\ c = f[(k + 3) - n + 1]
                              /\ Len(Tail(q)) = n - 1 /\ Rest(Tail(q), f)
  <2>1. Rest(q, f)
    BY DEF f
  <2>2. PICK n \in 1..Len(f) :
           /\ Len(q) = n /\ Head(q) = f[Len(f) - n + 1]
           /\ Len(Tail(q)) = n - 1 /\ Rest(Tail(q), f)
    BY <1>1, <2>1, LeftCalls
  <2> QED
    BY <1>1, <2>2
<1>3. Constructing(n) /\ Effect(c)
  BY <1>2
<1>4. \A i \in 1..k : Fatal[i] \in FatalSignal
  BY <1>0 DEF FatalSignal
<1> HIDE DEF c
<1>5. ASSUME n = k + 3
      PROVE  saved' = "cooked" /\ Constructing(n - 1)'
  <2>1. c.call = "tcgetattr"
    <3>1. (k + 3) - n + 1 = 1
      BY <1>5
    <3> QED
      BY <1>1, <1>2, <3>1, CallParts
  <2>2. saved' = attrs /\ UNCHANGED <<attrs, mouse, require, sigVars>>
    BY <1>3, <2>1 DEF Effect
  <2>3. Constructing(n - 1)' /\ attrs = "cooked"
    BY <1>0, <1>3, <1>5, <2>2 DEF Constructing, sigVars, progVars
  <2> QED
    BY <2>2, <2>3
<1>6. ASSUME n = k + 2
      PROVE  saved' = "cooked" /\ Constructing(n - 1)'
  <2>1. c.call = "setraw"
    <3>1. (k + 3) - n + 1 = 2
      BY <1>6
    <3> QED
      BY <1>1, <1>2, <3>1, CallParts
  <2>2. attrs' = "raw" /\ UNCHANGED <<saved, mouse, require, sigVars>>
    BY <1>3, <2>1 DEF Effect
  <2>3. \A i \in 1..k : ~(i + (n - 1) <= k + 1)
    BY <1>6
  <2>4. ~(n - 1 >= k + 2) /\ n - 1 # 0
    BY <1>6
  <2>5. Constructing(n - 1)'
    BY <1>0, <1>3, <2>2, <2>3, <2>4 DEF Constructing, sigVars, progVars
  <2> QED
    BY <2>2, <2>5
<1>7. ASSUME n \in 2..(k + 1)
      PROVE  saved' = "cooked" /\ Constructing(n - 1)'
  <2>1. PICK j \in 1..k : j = k + 2 - n /\ (k + 3) - n + 1 = j + 2
    <3>1. k + 2 - n \in 1..k /\ (k + 3) - n + 1 = (k + 2 - n) + 2
      BY <1>7
    <3> QED
      BY <3>1
  <2>2. c = Call("sigaction", Fatal[j], "fatal")
    BY <1>1, <1>2, <2>1
  <2>3. c.call = "sigaction" /\ c.sig = Fatal[j] /\ c.arg = "fatal"
    BY <2>2, CallParts
  <2>4. /\ disp'[Fatal[j]] = "fatal" /\ UNCHANGED <<modeVars, pending>>
        /\ \A s \in Signal : s # Fatal[j] => disp'[s] = disp[s]
    BY <1>3, <2>3 DEF Effect
  <2>5. disp'[CONT] = disp[CONT]
    BY <1>4, <2>4, SignalFacts
  <2>6. ASSUME NEW i \in 1..k, i + (n - 1) <= k + 1
        PROVE  disp'[Fatal[i]] = "fatal"
    <3>1. i = j \/ i + n <= k + 1
      BY <2>1, <2>6
    <3>2. CASE i = j
      BY <2>4, <3>2
    <3>3. CASE i + n <= k + 1
      <4>1. disp[Fatal[i]] = "fatal"
        BY <1>0, <1>3, <3>3 DEF Constructing
      <4> QED
        BY <1>4, <2>4, <4>1, SignalFacts
    <3> QED
      BY <3>1, <3>2, <3>3
  <2>7. ~(n - 1 >= k + 2) /\ ~(n >= k + 2) /\ n - 1 # 0
    BY <1>7
  <2>8. Constructing(n - 1)'
    BY <1>0, <1>3, <2>4, <2>5, <2>6, <2>7 DEF Constructing, modeVars, progVars
  <2> QED
    BY <2>4, <2>8 DEF modeVars
<1>8. ASSUME n = 1
      PROVE  saved' = "cooked" /\ Constructing(n - 1)'
  <2>1. c = Call("sigaction", TSTP, "tstp")
    <3>1. (k + 3) - n + 1 = k + 3
      BY <1>8
    <3> QED
      BY <1>1, <1>2, <3>1
  <2>2. c.call = "sigaction" /\ c.sig = TSTP /\ c.arg = "tstp"
    BY <2>1, CallParts
  <2>3. /\ disp'[TSTP] = "tstp" /\ UNCHANGED <<modeVars, pending>>
        /\ \A s \in Signal : s # TSTP => disp'[s] = disp[s]
    BY <1>3, <2>2 DEF Effect
  <2>4. disp'[CONT] = disp[CONT]
    BY <2>3, SignalFacts
  <2>5. ASSUME NEW i \in 1..k
        PROVE  disp'[Fatal[i]] = "fatal"
    <3>1. i + n <= k + 1
      BY <1>8
    <3>2. disp[Fatal[i]] = "fatal"
      BY <1>0, <1>3, <3>1 DEF Constructing
    <3> QED
      BY <1>4, <2>3, <3>2, SignalFacts
  <2>6. ~(n - 1 >= k + 2) /\ ~(n >= k + 2)
    BY <1>8
  <2>7. Constructing(n - 1)'
    BY <1>0, <1>3, <2>3, <2>4, <2>5, <2>6 DEF Constructing, modeVars, progVars
  <2> QED
    BY <2>3, <2>7 DEF modeVars
<1>9. n = k + 3 \/ n = k + 2 \/ n \in 2..(k + 1) \/ n = 1
  OBVIOUS
<1>10. Constructing(n - 1)' => Constructing(Len(Tail(q)))'
  BY <1>2 DEF Constructing
<1>11. Rest(Tail(q), f)
  BY <1>2
<1> QED
  BY <1>5, <1>6, <1>7, <1>8, <1>9, <1>10, <1>11 DEF f

LEMMA DestroyingCall ==
    ASSUME TypeInv, saved = "cooked", NEW q \in Seq(AnyCall), q # << >>,
           Rest(q, RawModeDisable), Destroying(Len(q)),
           Effect(Head(q)), UNCHANGED <<proc, progVars>>
    PROVE  /\ saved' = "cooked" /\ Rest(Tail(q), RawModeDisable)
           /\ Destroying(Len(Tail(q)))'
<1> DEFINE f == RawModeDisable
           c == Head(q)
<1>1. f \in Seq(AnyCall) /\ Len(f) = 1 /\ f[1] = Do("restore")
  BY OtherCalls
<1> HIDE DEF f
<1>2. PICK n \in 1..1 : /\ Len(q) = n /\ c = f[1 - n + 1]
                        /\ Len(Tail(q)) = n - 1 /\ Rest(Tail(q), f)
  <2>1. Rest(q, f)
    BY DEF f
  <2>2. PICK n \in 1..Len(f) :
           /\ Len(q) = n /\ Head(q) = f[Len(f) - n + 1]
           /\ Len(Tail(q)) = n - 1 /\ Rest(Tail(q), f)
    BY <1>1, <2>1, LeftCalls
  <2> QED
    BY <1>1, <2>2
<1>3. Destroying(n) /\ Effect(c)
  BY <1>2
<1> HIDE DEF c
<1>4. c.call = "restore" /\ n = 1
  BY <1>1, <1>2, CallParts
<1>5. attrs' = saved /\ UNCHANGED <<saved, mouse, require, sigVars>>
  BY <1>3, <1>4 DEF Effect
<1>6. Destroying(n - 1)'
  BY <1>3, <1>4, <1>5 DEF Destroying, Installed, FatalHandled, sigVars, progVars
<1>7. Destroying(n - 1)' => Destroying(Len(Tail(q)))'
  BY <1>2 DEF Destroying
<1> QED
  BY <1>2, <1>5, <1>6, <1>7 DEF f

LEMMA EnablingCall ==
    ASSUME TypeInv, saved = "cooked", NEW q \in Seq(AnyCall), q # << >>,
           Rest(q, MouseEnable), Enabling(Len(q)),
           Effect(Head(q)), UNCHANGED <<proc, progVars>>
    PROVE  /\ saved' = "cooked" /\ Rest(Tail(q), MouseEnable)
           /\ Enabling(Len(Tail(q)))'
<1> DEFINE f == MouseEnable
           c == Head(q)
<1>1. f \in Seq(AnyCall) /\ Len(f) = 2 /\ f[1] = Do("mouseon") /\ f[2] = Do("require")
  BY OtherCalls
<1> HIDE DEF f
<1>2. PICK n \in 1..2 : /\ Len(q) = n /\ c = f[2 - n + 1]
                        /\ Len(Tail(q)) = n - 1 /\ Rest(Tail(q), f)
  <2>1. Rest(q, f)
    BY DEF f
  <2>2. PICK n \in 1..Len(f) :
           /\ Len(q) = n /\ Head(q) = f[Len(f) - n + 1]
           /\ Len(Tail(q)) = n - 1 /\ Rest(Tail(q), f)
    BY <1>1, <2>1, LeftCalls
  <2> QED
    BY <1>1, <2>2
<1>3. Enabling(n) /\ Effect(c)
  BY <1>2
<1> HIDE DEF c
<1>4. ASSUME n = 2
      PROVE  saved' = "cooked" /\ Enabling(n - 1)'
  <2>1. c.call = "mouseon"
    BY <1>1, <1>2, <1>4, CallParts
  <2>2. mouse' = TRUE /\ UNCHANGED <<attrs, saved, require, sigVars>>
    BY <1>3, <2>1 DEF Effect
  <2>3. Enabling(n - 1)'
    BY <1>3, <1>4, <2>2 DEF Enabling, Installed, FatalHandled, sigVars, progVars
  <2> QED
    BY <2>2, <2>3
<1>5. ASSUME n = 1
      PROVE  saved' = "cooked" /\ Enabling(n - 1)'
  <2>1. c.call = "require"
    BY <1>1, <1>2, <1>5, CallParts
  <2>2. require' = TRUE /\ UNCHANGED <<attrs, saved, mouse, sigVars>>
    BY <1>3, <2>1 DEF Effect
  <2>3. Enabling(n - 1)'
    BY <1>3, <1>5, <2>2 DEF Enabling, Installed, FatalHandled, sigVars, progVars
  <2> QED
    BY <2>2, <2>3
<1>6. n = 1 \/ n = 2
  OBVIOUS
<1>7. Enabling(n - 1)' => Enabling(Len(Tail(q)))'
  BY <1>2 DEF Enabling
<1> QED
  BY <1>2, <1>4, <1>5, <1>6, <1>7 DEF f

LEMMA DisablingCall ==
    ASSUME TypeInv, saved = "cooked", NEW q \in Seq(AnyCall), q # << >>,
           Rest(q, MouseDisable), Disabling(Len(q)),
           Effect(Head(q)), UNCHANGED <<proc, progVars>>
    PROVE  /\ saved' = "cooked" /\ Rest(Tail(q), MouseDisable)
           /\ Disabling(Len(Tail(q)))'
<1> DEFINE f == MouseDisable
           c == Head(q)
<1>1. f \in Seq(AnyCall) /\ Len(f) = 2 /\ f[1] = Do("mouseoff") /\ f[2] = Do("unrequire")
  BY OtherCalls
<1> HIDE DEF f
<1>2. PICK n \in 1..2 : /\ Len(q) = n /\ c = f[2 - n + 1]
                        /\ Len(Tail(q)) = n - 1 /\ Rest(Tail(q), f)
  <2>1. Rest(q, f)
    BY DEF f
  <2>2. PICK n \in 1..Len(f) :
           /\ Len(q) = n /\ Head(q) = f[Len(f) - n + 1]
           /\ Len(Tail(q)) = n - 1 /\ Rest(Tail(q), f)
    BY <1>1, <2>1, LeftCalls
  <2> QED
    BY <1>1, <2>2
<1>3. Disabling(n) /\ Effect(c)
  BY <1>2
<1> HIDE DEF c
<1>4. ASSUME n = 2
      PROVE  saved' = "cooked" /\ Disabling(n - 1)'
  <2>1. c.call = "mouseoff"
    BY <1>1, <1>2, <1>4, CallParts
  <2>2. mouse' = FALSE /\ UNCHANGED <<attrs, saved, require, sigVars>>
    BY <1>3, <2>1 DEF Effect
  <2>3. Disabling(n - 1)'
    BY <1>3, <1>4, <2>2 DEF Disabling, Installed, FatalHandled, sigVars, progVars
  <2> QED
    BY <2>2, <2>3
<1>5. ASSUME n = 1
      PROVE  saved' = "cooked" /\ Disabling(n - 1)'
  <2>1. c.call = "unrequire"
    BY <1>1, <1>2, <1>5, CallParts
  <2>2. require' = FALSE /\ UNCHANGED <<attrs, saved, mouse, sigVars>>
    BY <1>3, <2>1 DEF Effect
  <2>3. Disabling(n - 1)'
    BY <1>3, <1>5, <2>2 DEF Disabling, Installed, FatalHandled, sigVars, progVars
  <2> QED
    BY <2>2, <2>3
<1>6. n = 1 \/ n = 2
  OBVIOUS
<1>7. Disabling(n - 1)' => Disabling(Len(Tail(q)))'
  BY <1>2 DEF Disabling
<1> QED
  BY <1>2, <1>4, <1>5, <1>6, <1>7 DEF f

-----------------------------------------------------------------------------
(* The steps.  While nothing can be delivered, every pending signal is     *)
(* that of a handler on the stack.                                         *)
LEMMA RunsBlocked ==
    ASSUME TypeInv, Runs
    PROVE  /\ proc = "running"
           /\ Len(frames) = 1 => pending = {}
           /\ Len(frames) = 2 => \A s \in pending : s = frames[2].sig
<1>1. proc = "running" /\ pending \subseteq Blocked
  BY DEF Runs, Deliverable
<1>2. Len(frames) = 1 => Blocked = {}
  BY DEF Blocked
<1>3. Len(frames) = 2 => \A s \in Blocked : s = frames[2].sig
  BY DEF Blocked
<1> QED
  BY <1>1, <1>2, <1>3

(* The invariant after a step that leaves q to be called by the program,   *)
(* or by the handler of t.                                                 *)
LEMMA CalmProgram ==
    ASSUME NEW q, saved' = "cooked", context' => contexts' # 0,
           Len(frames') = 1, frames'[1].calls = q, InProgram(q)'
    PROVE  CalmState'
<1>1. InProgram(frames[1].calls)'
  BY DEF InProgram, Awake, Asleep, Dying, Constructing, Destroying, Enabling, Disabling
<1> QED
  BY <1>1 DEF CalmState

LEMMA CalmHandler ==
    ASSUME NEW q, NEW t, saved' = "cooked", context', contexts' # 0,
           Len(frames') = 2, frames'[1].calls = << >>,
           frames'[2].calls = q, frames'[2].sig = t, InHandler(q, t)'
    PROVE  CalmState'
<1>1. InHandler(frames[2].calls, frames[2].sig)'
  BY DEF InHandler, Suspending, Resuming, Killing, Doomed
<1> QED
  BY <1>1 DEF CalmState

LEMMA CalmCall ==
    ASSUME TypeInv, CalmState, ACall
    PROVE  CalmState'
<1> DEFINE c == Head(Top.calls)
<1>1. PICK names : Calls(names)
  BY CallEffect
<1>2. Runs /\ UNCHANGED <<proc, progVars>> /\ Effect(c) /\ saved = "cooked"
  BY <1>1, CallEffect DEF Calls, CalmState
<1>3. PICK n \in Nat \ {0} : Len(frames) = n
  BY <1>1, CallFrames
<1>4. /\ Top = frames[n] /\ Top.calls \in Seq(AnyCall) /\ Top.calls # << >>
      /\ Len(frames') = n /\ frames'[n].sig = Top.sig /\ frames'[n].calls = Tail(Top.calls)
      /\ n = 2 => frames'[1] = frames[1]
  <2>1. Top = frames[n]
    BY <1>3 DEF Top
  <2>2. frames'[n] = [sig |-> Top.sig, calls |-> Tail(Top.calls)]
    BY <1>1, <1>3, CallFrames
  <2>3. frames'[n].sig = Top.sig /\ frames'[n].calls = Tail(Top.calls)
    BY <2>2
  <2>4. n = 2 => 1 \in 1..n /\ 1 # n
    OBVIOUS
  <2> QED
    BY <1>1, <1>3, <2>1, <2>3, <2>4, CallFrames
<1>5. PICK q \in Seq(AnyCall) : q = Top.calls /\ q # << >> /\ Effect(Head(q))
  BY <1>2, <1>4
<1>6. Len(Tail(q)) \in Nat /\ (Tail(q) = << >> <=> Len(Tail(q)) = 0)
  <2>1. Tail(q) \in Seq(AnyCall)
    BY <1>5, HeadTailProperties
  <2>2. PICK r \in Seq(AnyCall) : r = Tail(q)
    BY <2>1
  <2>3. Len(r) \in Nat /\ (r = << >> <=> Len(r) = 0)
    BY EmptySeq, LenProperties
  <2> QED
    BY <2>2, <2>3
<1>7. (context' => contexts' # 0) /\ context' = context
  <2>1. context => contexts # 0
    BY DEF CalmState
  <2>2. context' = context /\ contexts' = contexts
    BY <1>2 DEF progVars
  <2> QED
    BY <2>1, <2>2
<1>8. CASE n = 1 /\ InProgram(q)
  <2>1. saved' = "cooked" /\ InProgram(Tail(q))'
    <3>1. CASE Rest(q, Constructor) /\ Constructing(Len(q))
      <4>1. saved' = "cooked" /\ Rest(Tail(q), Constructor) /\ Constructing(Len(Tail(q)))'
        BY <1>2, <1>5, <3>1, ConstructingCall
      <4>2. Len(Tail(q)) = 0 => Awake'
        <5> SUFFICES ASSUME Len(Tail(q)) = 0 PROVE Awake'
          OBVIOUS
        <5>1. PICK k \in Nat : Len(Fatal) = k
          BY ConstructorCalls
        <5>2. /\ context' /\ proc' = "running" /\ guard' = FALSE /\ mouse' = FALSE /\ require' = FALSE
              /\ attrs' = "raw" /\ disp'[TSTP] = "tstp" /\ disp'[CONT] = "default"
              /\ \A i \in 1..k : disp'[Fatal[i]] = "fatal"
          <6>1. Constructing(0)'
            BY <4>1 DEF Constructing
          <6>2. ~(0 >= k + 2) /\ \A i \in 1..k : i + 0 <= k + 1
            OBVIOUS
          <6>3. attrs' = "raw"
            BY <5>1, <6>1, <6>2 DEF Constructing
          <6>4. \A i \in 1..k : disp'[Fatal[i]] = "fatal"
            BY <5>1, <6>1, <6>2 DEF Constructing
          <6> QED
            BY <6>1, <6>3, <6>4 DEF Constructing
        <5>3. Installed'
          <6>1. \A s \in FatalSignal : disp'[s] = "fatal"
            BY <5>1, <5>2 DEF FatalSignal
          <6> QED
            BY <5>2, <6>1 DEF Installed, FatalHandled
        <5>4. contexts' # 0
          BY <1>7, <5>2
        <5> QED
          BY <5>2, <5>3, <5>4 DEF Awake
      <4> QED
        BY <1>6, <4>1, <4>2 DEF InProgram
    <3>2. CASE Rest(q, RawModeDisable) /\ Destroying(Len(q))
      <4>1. saved' = "cooked" /\ Rest(Tail(q), RawModeDisable) /\ Destroying(Len(Tail(q)))'
        BY <1>2, <1>5, <3>2, DestroyingCall
      <4>2. Len(Tail(q)) = 0 => Awake'
        BY <4>1 DEF Destroying, Awake
      <4> QED
        BY <1>6, <4>1, <4>2 DEF InProgram
    <3>3. CASE Rest(q, MouseEnable) /\ Enabling(Len(q))
      <4>1. saved' = "cooked" /\ Rest(Tail(q), MouseEnable) /\ Enabling(Len(Tail(q)))'
        BY <1>2, <1>5, <3>3, EnablingCall
      <4>2. Len(Tail(q)) = 0 => Awake'
        <5> SUFFICES ASSUME Len(Tail(q)) = 0 PROVE Awake'
          OBVIOUS
        <5>1. /\ context' /\ proc' = "running" /\ attrs' = "raw" /\ Installed'
              /\ guard' = TRUE /\ mouse' = TRUE /\ require' = TRUE
          <6>1. Enabling(0)'
            BY <4>1 DEF Enabling
          <6> QED
            BY <6>1 DEF Enabling
        <5>2. contexts' # 0
          BY <1>7, <5>1
        <5> QED
          BY <5>1, <5>2 DEF Awake
      <4> QED
        BY <1>6, <4>1, <4>2 DEF InProgram
    <3>4. CASE Rest(q, MouseDisable) /\ Disabling(Len(q))
      <4>1. saved' = "cooked" /\ Rest(Tail(q), MouseDisable) /\ Disabling(Len(Tail(q)))'
        BY <1>2, <1>5, <3>4, DisablingCall
      <4>2. Len(Tail(q)) = 0 => Awake'
        <5> SUFFICES ASSUME Len(Tail(q)) = 0 PROVE Awake'
          OBVIOUS
        <5>1. /\ context' /\ proc' = "running" /\ attrs' = "raw" /\ Installed'
              /\ guard' = FALSE /\ mouse' = FALSE /\ require' = FALSE
          <6>1. Disabling(0)'
            BY <4>1 DEF Disabling
          <6> QED
            BY <6>1 DEF Disabling
        <5>2. contexts' # 0
          BY <1>7, <5>1
        <5> QED
          BY <5>1, <5>2 DEF Awake
      <4> QED
        BY <1>6, <4>1, <4>2 DEF InProgram
    <3> QED
      BY <1>5, <1>8, <3>1, <3>2, <3>3, <3>4 DEF InProgram
  <2>2. Len(frames') = 1 /\ frames'[1].calls = Tail(q)
    BY <1>4, <1>5, <1>8
  <2> QED
    BY <1>7, <2>1, <2>2, CalmProgram
<1>9. CASE n = 2 /\ frames[1].calls = << >> /\ context /\ InHandler(q, Top.sig)
  <2> DEFINE t == Top.sig
  <2>1. PICK u : u = t
    OBVIOUS
  <2>2. saved' = "cooked" /\ InHandler(Tail(q), u)'
    <3>1. ~Doomed(t)
      <4>1. \A s \in pending : s = t
        BY <1>2, <1>3, <1>4, <1>9, RunsBlocked
      <4> QED
        BY <4>1 DEF Doomed
    <3>2. CASE t = TSTP /\ Rest(q, HandleSigtstp(TSTP)) /\ Suspending(Len(q))
      <4>1. saved' = "cooked" /\ Rest(Tail(q), HandleSigtstp(TSTP)) /\ Suspending(Len(Tail(q)))'
        BY <1>2, <1>5, <3>2, SuspendingCall
      <4> QED
        BY <2>1, <3>2, <4>1 DEF InHandler
    <3>3. CASE t = CONT /\ Rest(q, HandleSigcont(CONT)) /\ Resuming(Len(q))
      <4>1. saved' = "cooked" /\ Rest(Tail(q), HandleSigcont(CONT)) /\ Resuming(Len(Tail(q)))'
        BY <1>2, <1>5, <3>3, ResumingCall
      <4> QED
        BY <2>1, <3>3, <4>1 DEF InHandler
    <3>4. CASE t \in FatalSignal /\ Rest(q, HandleFatalSignal(t)) /\ Killing(Len(q), t)
      <4>1. u \in FatalSignal /\ Rest(q, HandleFatalSignal(u)) /\ Killing(Len(q), u)
        BY <2>1, <3>4
      <4>2. saved' = "cooked" /\ Rest(Tail(q), HandleFatalSignal(u)) /\ Killing(Len(Tail(q)), u)'
        BY <1>2, <1>5, <4>1, KillingCall
      <4> QED
        BY <4>1, <4>2 DEF InHandler
    <3> QED
      BY <1>9, <3>1, <3>2, <3>3, <3>4 DEF InHandler
  <2>3. Len(frames') = 2 /\ frames'[1].calls = << >> /\ frames'[2].calls = Tail(q) /\ frames'[2].sig = u
    BY <1>4, <1>5, <1>9, <2>1
  <2>4. context'
    BY <1>7, <1>9
  <2> QED
    BY <1>7, <2>2, <2>3, <2>4, CalmHandler
<1>10. \/ n = 1 /\ InProgram(q)
       \/ n = 2 /\ frames[1].calls = << >> /\ context /\ InHandler(q, Top.sig)
  BY <1>3, <1>4, <1>5 DEF CalmState
<1> QED
  BY <1>8, <1>9, <1>10

(* A signal arrives, and may make a stopped process run.                   *)
LEMMA CalmSignals ==
    ASSUME CalmState, UNCHANGED <<modeVars, disp, old, frames, progVars>>,
           \/ proc' = proc
           \/ proc # "dead" /\ proc' = "running" /\ CONT \in pending',
           \A s \in FatalSignal : s \in pending => s \in pending',
           (TSTP \in pending \/ CONT \in pending) => (TSTP \in pending' \/ CONT \in pending')
    PROVE  CalmState'
<1>1. /\ saved' = "cooked" /\ context' = context /\ contexts' = contexts /\ guard' = guard
      /\ attrs' = attrs /\ mouse' = mouse /\ require' = require
      /\ disp' = disp /\ old' = old /\ frames' = frames
  BY DEF CalmState, modeVars, progVars
<1>2. context => contexts # 0
  BY DEF CalmState
<1>3. proc = "running" => proc' = "running"
  OBVIOUS
<1>4. CASE Len(frames) = 1 /\ InProgram(frames[1].calls)
  <2>1. PICK q : q = frames[1].calls
    OBVIOUS
  <2>2. Awake => Awake'
    BY <1>1, <1>3 DEF Awake, Installed, FatalHandled
  <2>3. Asleep => Asleep'
    <3> SUFFICES ASSUME Asleep PROVE Asleep'
      OBVIOUS
    <3>1. \/ proc' = "stopped"
          \/ proc' = "running" /\ (TSTP \in pending' \/ CONT \in pending')
      BY DEF Asleep
    <3> QED
      BY <1>1, <3>1 DEF Asleep, FatalHandled
  <2>4. Dying => Dying'
    <3> SUFFICES ASSUME Dying PROVE Dying'
      OBVIOUS
    <3>1. proc' = "dead" \/ \E s \in FatalSignal : s \in pending'
      BY DEF Dying
    <3> QED
      BY <1>1, <3>1 DEF Dying
  <2>5. Constructing(Len(q)) => Constructing(Len(q))'
    BY <1>1, <1>3 DEF Constructing
  <2>6. Destroying(Len(q)) => Destroying(Len(q))'
    BY <1>1, <1>3 DEF Destroying, Installed, FatalHandled
  <2>7. Enabling(Len(q)) => Enabling(Len(q))'
    BY <1>1, <1>3 DEF Enabling, Installed, FatalHandled
  <2>8. Disabling(Len(q)) => Disabling(Len(q))'
    BY <1>1, <1>3 DEF Disabling, Installed, FatalHandled
  <2>9. InProgram(q)
    BY <1>4, <2>1
  <2>10. InProgram(q)'
    BY <2>2, <2>3, <2>4, <2>5, <2>6, <2>7, <2>8, <2>9 DEF InProgram
  <2> QED
    BY <1>1, <1>2, <1>4, <2>1, <2>10, CalmProgram
<1>5. CASE /\ Len(frames) = 2 /\ frames[1].calls = << >> /\ context
           /\ InHandler(frames[2].calls, frames[2].sig)
  <2>1. PICK q : q = frames[2].calls
    OBVIOUS
  <2>2. PICK t : t = frames[2].sig
    OBVIOUS
  <2>3. Suspending(Len(q)) => Suspending(Len(q))'
    BY <1>1, <1>3 DEF Suspending, FatalHandled
  <2>4. Resuming(Len(q)) => Resuming(Len(q))'
    BY <1>1, <1>3 DEF Resuming, FatalHandled
  <2>5. t \in FatalSignal /\ Killing(Len(q), t) => Killing(Len(q), t)'
    BY <1>1, <1>3 DEF Killing
  <2>6. Doomed(t) => Doomed(t)'
    BY <1>3 DEF Doomed
  <2>7. InHandler(q, t)
    BY <1>5, <2>1, <2>2
  <2>8. InHandler(q, t)'
    BY <2>3, <2>4, <2>5, <2>6, <2>7 DEF InHandler
  <2> QED
    BY <1>1, <1>2, <1>5, <2>1, <2>2, <2>8, CalmHandler
<1> QED
  BY <1>4, <1>5 DEF CalmState

(* A signal is delivered to a program at rest.                             *)
LEMMA CalmDeliver ==
    ASSUME TypeInv, CalmState, NEW s \in Signal, Deliver(s), calm'
    PROVE  CalmState'
<1>1. /\ AtRest /\ (context \/ contexts = 0) /\ proc = "running" /\ pending' = pending \ {s}
      /\ UNCHANGED <<modeVars, disp, old, progVars>>
  BY DEF Deliver, Deliverable
<1>2. Len(frames) = 1 /\ frames[1].calls = << >>
  BY <1>1 DEF AtRest
<1>3. Awake \/ Asleep \/ Dying
  BY <1>2 DEF CalmState, InProgram
<1>4. /\ saved' = "cooked" /\ context' = context /\ contexts' = contexts /\ guard' = guard
      /\ attrs' = attrs /\ mouse' = mouse /\ require' = require
      /\ disp' = disp /\ old' = old
  BY <1>1 DEF CalmState, modeVars, progVars
<1>5. context => contexts # 0
  BY DEF CalmState
<1>6. CASE disp[s] = "default"
  <2>1. /\ proc' = (IF s = CONT THEN proc ELSE IF s = TSTP THEN "stopped" ELSE "dead")
        /\ frames' = frames
    BY <1>6 DEF Deliver
  <2>2. Awake => Awake'
    <3> SUFFICES ASSUME Awake PROVE Awake'
      OBVIOUS
    <3>1. context => proc' = "running"
      <4> SUFFICES ASSUME context PROVE s = CONT
        BY <1>1, <2>1
      <4>1. Installed
        BY <1>5 DEF Awake
      <4> QED
        BY <1>6, <4>1, SignalFacts DEF Installed, FatalHandled
    <3> QED
      BY <1>4, <3>1 DEF Awake, Installed, FatalHandled
  <2>3. Asleep => Asleep'
    <3> SUFFICES ASSUME Asleep PROVE Asleep'
      OBVIOUS
    <3>1. s = TSTP
      BY <1>6, SignalFacts DEF Asleep, FatalHandled
    <3>2. proc' = "stopped"
      BY <2>1, <3>1, SignalFacts
    <3> QED
      BY <1>4, <3>2 DEF Asleep, FatalHandled
  <2>4. Dying => Dying'
    <3> SUFFICES ASSUME Dying PROVE Dying'
      OBVIOUS
    <3>1. PICK t \in FatalSignal : t \in pending
      BY <1>1 DEF Dying
    <3>2. CASE s \in FatalSignal
      <4>1. proc' = "dead"
        BY <2>1, <3>2, SignalFacts
      <4> QED
        BY <1>4, <4>1 DEF Dying
    <3>3. CASE s \notin FatalSignal
      <4>1. t \in pending'
        BY <1>1, <3>1, <3>3
      <4> QED
        BY <1>4, <4>1 DEF Dying
    <3> QED
      BY <3>2, <3>3
  <2>5. InProgram(<< >>)'
    BY <1>3, <2>2, <2>3, <2>4 DEF InProgram
  <2> QED
    BY <1>2, <1>4, <1>5, <2>1, <2>5, CalmProgram
<1>7. CASE disp[s] # "default"
  <2>1. proc' = "running" /\ frames' = Append(frames, [sig |-> s, calls |-> Handler(disp[s], s)])
    BY <1>1, <1>7 DEF Deliver
  <2>2. PICK q \in Seq(AnyCall) : q = Handler(disp[s], s)
    BY <1>7, HandlerCalls, TypeParts
  <2>3. /\ Len(frames') = 2 /\ frames'[1].calls = << >>
        /\ frames'[2].calls = q /\ frames'[2].sig = s
    <3>1. [sig |-> s, calls |-> q] \in Frame
      BY DEF Frame
    <3>2. Len(frames') = 2 /\ frames'[2] = [sig |-> s, calls |-> q] /\ frames'[1] = frames[1]
      BY <1>2, <2>1, <2>2, <3>1, PushFrames, TypeParts DEF StackOK
    <3> QED
      BY <1>2, <3>2
  <2>4. context /\ contexts # 0
    BY <1>1, <1>3, <1>5, <1>7, SignalFacts DEF Awake, Asleep, Dying
  <2>5. s \in FatalSignal => q = HandleFatalSignal(s)
    BY <1>7, <2>2, HandlerCalls, TypeParts
  <2>6. ASSUME s \in FatalSignal
        PROVE  InHandler(q, s)'
    <3>1. Rest(q, HandleFatalSignal(s)) /\ Len(q) = 4
      BY <2>5, <2>6, FatalCalls, RestEnds
    <3>2. require = guard /\ (mouse = guard \/ mouse = FALSE)
      BY <1>3 DEF Awake, Asleep, Dying
    <3>3. Killing(4, s)'
      BY <1>4, <2>1, <2>4, <3>2 DEF Killing
    <3>4. Killing(Len(q), s)'
      BY <3>1, <3>3 DEF Killing
    <3> QED
      BY <2>6, <3>1, <3>4 DEF InHandler
  <2>7. ASSUME Awake, s \notin FatalSignal
        PROVE  InHandler(q, s)'
    <3>1. Installed
      BY <2>4, <2>7 DEF Awake
    <3>2. s = TSTP /\ q = HandleSigtstp(TSTP)
      BY <1>7, <2>2, <2>7, <3>1, HandlerCalls, TypeParts, SignalFacts DEF Installed
    <3>3. Rest(q, HandleSigtstp(TSTP)) /\ Len(q) = 5
      BY <3>2, TstpCalls, RestEnds
    <3>4. Suspending(5)'
      BY <1>4, <2>1, <2>4, <2>7, <3>1 DEF Suspending, Awake, Installed, FatalHandled
    <3>5. Suspending(Len(q))'
      BY <3>3, <3>4 DEF Suspending
    <3> QED
      BY <3>2, <3>3, <3>5 DEF InHandler
  <2>8. ASSUME Asleep, s \notin FatalSignal
        PROVE  InHandler(q, s)'
    <3>1. disp[TSTP] = "default" /\ disp[CONT] = "cont"
      BY <2>8 DEF Asleep
    <3>2. s = CONT
      BY <1>7, <2>8, <3>1, SignalFacts
    <3>3. q = HandleSigcont(CONT)
      BY <1>7, <2>2, <3>1, <3>2, HandlerCalls, TypeParts, SignalFacts
    <3>4. Rest(q, HandleSigcont(CONT)) /\ Len(q) = 6
      BY <3>3, ContCalls, RestEnds
    <3>5. Resuming(6)'
      BY <1>4, <2>1, <2>4, <2>8 DEF Resuming, Asleep, FatalHandled
    <3>6. Resuming(Len(q))'
      BY <3>4, <3>5 DEF Resuming
    <3> QED
      BY <3>2, <3>4, <3>6 DEF InHandler
  <2>9. ASSUME Dying, s \notin FatalSignal
        PROVE  InHandler(q, s)'
    <3>1. PICK t \in FatalSignal : t \in pending
      BY <1>1, <2>9 DEF Dying
    <3>2. t # s /\ t \in pending'
      BY <1>1, <2>9, <3>1
    <3>3. Doomed(s)'
      BY <2>1, <3>2 DEF Doomed
    <3> QED
      BY <3>3 DEF InHandler
  <2>10. InHandler(q, s)'
    BY <1>3, <2>6, <2>7, <2>8, <2>9
  <2> QED
    BY <1>4, <2>3, <2>4, <2>10, CalmHandler
<1> QED
  BY <1>6, <1>7

(* A handler returns to the program at rest.                               *)
LEMMA CalmReturn ==
    ASSUME TypeInv, CalmState, HandlerReturns
    PROVE  CalmState'
<1>1. /\ Runs /\ Len(frames) > 1 /\ Top.calls = << >>
      /\ frames' = SubSeq(frames, 1, Len(frames) - 1)
      /\ UNCHANGED <<modeVars, sigVars, proc, progVars>>
  BY DEF HandlerReturns
<1>2. /\ Len(frames) = 2 /\ frames[1].calls = << >> /\ context /\ saved = "cooked"
      /\ InHandler(frames[2].calls, frames[2].sig) /\ contexts # 0
  <2>1. ~(Len(frames) = 1)
    <3>1. Len(frames) > 1
      BY <1>1
    <3>2. PICK n : n = Len(frames)
      OBVIOUS
    <3>3. n # 1
      BY <3>1, <3>2
    <3> QED
      BY <3>2, <3>3
  <2>2. saved = "cooked" /\ (context => contexts # 0)
    BY DEF CalmState
  <2>3. /\ Len(frames) = 2 /\ frames[1].calls = << >> /\ context
        /\ InHandler(frames[2].calls, frames[2].sig)
    BY <2>1, Zenon DEF CalmState
  <2> QED
    BY <2>2, <2>3
<1>3. Len(frames') = 1 /\ frames'[1].calls = << >>
  <2>1. frames \in Seq(Frame) /\ Len(frames) - 1 = 1
    BY <1>2 DEF TypeInv
  <2>2. Len(frames') = 1 /\ \A i \in 1..1 : frames'[i] = frames[i]
    BY <1>1, <2>1, ReturnFrames
  <2> QED
    BY <1>2, <2>2
<1>4. PICK t : t = frames[2].sig
  OBVIOUS
<1>5. frames[2].calls = << >> /\ Len(<< >>) = 0
  BY <1>1, <1>2 DEF Top
<1>6. InHandler(<< >>, t)
  BY <1>2, <1>4, <1>5
<1>7. ~Doomed(t)
  <2>1. \A s \in pending : s = t
    BY <1>1, <1>2, <1>4, RunsBlocked
  <2> QED
    BY <2>1 DEF Doomed
<1>8. Suspending(0) => Asleep'
  BY <1>1 DEF Suspending, Asleep, FatalHandled, modeVars, sigVars, progVars
<1>9. Resuming(0) => Awake'
  <2> SUFFICES ASSUME Resuming(0) PROVE Awake'
    OBVIOUS
  <2>1. /\ context' /\ contexts' # 0 /\ proc' = "running" /\ attrs' = "raw"
        /\ mouse' = guard' /\ require' = guard'
    BY <1>1, <1>2 DEF Resuming, modeVars, progVars
  <2>2. Installed'
    BY <1>1 DEF Resuming, Installed, FatalHandled, sigVars
  <2> QED
    BY <2>1, <2>2 DEF Awake
<1>10. t \in FatalSignal /\ Killing(0, t) => Dying'
  BY <1>1 DEF Killing, Dying, modeVars, sigVars, progVars
<1>11. InProgram(<< >>)'
  BY <1>5, <1>6, <1>7, <1>8, <1>9, <1>10 DEF InHandler, InProgram
<1> QED
  BY <1>1, <1>2, <1>3, <1>11, CalmProgram DEF modeVars, progVars

(* The program goes on only when it is awake.                              *)
LEMMA RunsAwake ==
    ASSUME TypeInv, CalmState, Runs, AtRest
    PROVE  Awake
<1>1. Len(frames) = 1 /\ frames[1].calls = << >>
  BY DEF AtRest
<1>2. Awake \/ Asleep \/ Dying
  BY <1>1 DEF CalmState, InProgram
<1>3. proc = "running" /\ pending = {}
  BY <1>1, RunsBlocked
<1> QED
  BY <1>2, <1>3 DEF Asleep, Dying

LEMMA CalmEnter ==
    ASSUME TypeInv, CalmState, Construct \/ Destroy \/ EnableMouse \/ DisableMouse
    PROVE  CalmState'
<1>1. PICK q \in Seq(AnyCall) : Enters(q)
  BY EnteredCalls
<1>2. Runs /\ AtRest /\ UNCHANGED <<modeVars, sigVars, proc>>
      /\ frames' = <<[sig |-> None, calls |-> q]>>
  BY <1>1 DEF Enters
<1>3. Len(frames') = 1 /\ frames'[1].calls = q
  <2>1. Len(frames') = 1 /\ frames'[1] = [sig |-> None, calls |-> q]
    BY <1>2, EnterStack
  <2> QED
    BY <2>1
<1>4. Awake /\ proc = "running" /\ saved = "cooked" /\ (context => contexts # 0)
  BY <1>2, RunsAwake, RunsBlocked DEF CalmState
<1>5. /\ saved' = "cooked" /\ attrs' = attrs /\ mouse' = mouse /\ require' = require
      /\ disp' = disp /\ proc' = "running"
  BY <1>2, <1>4 DEF modeVars, sigVars
<1>6. context \in BOOLEAN /\ guard \in BOOLEAN /\ (guard => context) /\ contexts \in Nat
  BY TypeParts, FatalAssumption DEF VarsOK
<1>7. CASE Construct
  <2>1. /\ ~context /\ context' = TRUE /\ contexts' = contexts + 1 /\ guard' = guard
        /\ q = Constructor
    BY <1>2, <1>3, <1>7 DEF Construct, Enters, Constructor
  <2>2. PICK k \in Nat : Len(Fatal) = k
    BY ConstructorCalls
  <2>3. Rest(q, Constructor) /\ Len(q) = k + 3
    BY <2>1, <2>2, ConstructorCalls, RestEnds
  <2>4. disp[CONT] = "default" /\ attrs = "cooked"
    BY <1>4, <2>1, SignalFacts DEF Awake, Installed
  <2>5. guard = FALSE /\ mouse = FALSE /\ require = FALSE
    BY <1>4, <1>6, <2>1 DEF Awake
  <2>6. ~(k + 3 = 0) /\ k + 3 >= k + 2 /\ \A i \in 1..k : ~(i + (k + 3) <= k + 1)
    OBVIOUS
  <2>7. Constructing(k + 3)'
    BY <1>5, <2>1, <2>2, <2>4, <2>5, <2>6 DEF Constructing
  <2>8. Constructing(Len(q))'
    BY <2>3, <2>7 DEF Constructing
  <2>9. q # << >> /\ contexts' # 0
    BY <1>6, <2>1, <2>3
  <2>10. InProgram(q)'
    BY <2>3, <2>8, <2>9 DEF InProgram
  <2> QED
    BY <1>3, <1>5, <2>9, <2>10, CalmProgram
<1>8. CASE Destroy
  <2>1. /\ context /\ guard = FALSE /\ context' = FALSE /\ guard' = guard /\ contexts' = contexts
        /\ q = RawModeDisable
    BY <1>2, <1>3, <1>6, <1>8 DEF Destroy, Enters
  <2>2. Rest(q, RawModeDisable) /\ Len(q) = 1 /\ q # << >>
    <3>1. Rest(RawModeDisable, RawModeDisable) /\ Len(RawModeDisable) = 1
      BY OtherCalls, RestEnds
    <3>2. Len(<< >>) = 0
      OBVIOUS
    <3> QED
      BY <2>1, <3>1, <3>2
  <2>3. /\ attrs = "raw" /\ mouse = FALSE /\ require = FALSE /\ contexts # 0
    BY <1>4, <2>1 DEF Awake
  <2>4. Installed
    BY <1>4, <2>3 DEF Awake
  <2>5. Destroying(1)'
    BY <1>5, <2>1, <2>3, <2>4 DEF Destroying, Installed, FatalHandled
  <2>6. Destroying(Len(q))'
    BY <2>2, <2>5 DEF Destroying
  <2>7. InProgram(q)'
    BY <2>2, <2>6 DEF InProgram
  <2> QED
    BY <1>3, <1>5, <2>1, <2>7, CalmProgram
<1>9. CASE EnableMouse
  <2>1. /\ context /\ guard = FALSE /\ guard' = TRUE /\ context' = context /\ contexts' = contexts
        /\ q = MouseEnable
    BY <1>2, <1>3, <1>6, <1>9 DEF EnableMouse, Enters, MouseEnable
  <2>2. Rest(q, MouseEnable) /\ Len(q) = 2 /\ q # << >>
    <3>1. Rest(MouseEnable, MouseEnable) /\ Len(MouseEnable) = 2
      BY OtherCalls, RestEnds
    <3>2. Len(<< >>) = 0
      OBVIOUS
    <3> QED
      BY <2>1, <3>1, <3>2
  <2>3. /\ attrs = "raw" /\ contexts # 0
    BY <1>4, <2>1 DEF Awake
  <2>4. Installed
    BY <1>4, <2>3 DEF Awake
  <2>5. Enabling(2)'
    BY <1>5, <2>1, <2>3, <2>4 DEF Enabling, Installed, FatalHandled
  <2>6. Enabling(Len(q))'
    BY <2>2, <2>5 DEF Enabling
  <2>7. InProgram(q)'
    BY <2>2, <2>6 DEF InProgram
  <2> QED
    BY <1>3, <1>5, <2>1, <2>3, <2>7, CalmProgram
<1>10. CASE DisableMouse
  <2>1. /\ context /\ guard = TRUE /\ guard' = FALSE /\ context' = context /\ contexts' = contexts
        /\ q = MouseDisable
    BY <1>2, <1>3, <1>6, <1>10 DEF DisableMouse, Enters, MouseDisable
  <2>2. Rest(q, MouseDisable) /\ Len(q) = 2 /\ q # << >>
    <3>1. Rest(MouseDisable, MouseDisable) /\ Len(MouseDisable) = 2
      BY OtherCalls, RestEnds
    <3>2. Len(<< >>) = 0
      OBVIOUS
    <3> QED
      BY <2>1, <3>1, <3>2
  <2>3. /\ attrs = "raw" /\ contexts # 0
    BY <1>4, <2>1 DEF Awake
  <2>4. Installed
    BY <1>4, <2>3 DEF Awake
  <2>5. Disabling(2)'
    BY <1>5, <2>1, <2>3, <2>4 DEF Disabling, Installed, FatalHandled
  <2>6. Disabling(Len(q))'
    BY <2>2, <2>5 DEF Disabling
  <2>7. InProgram(q)'
    BY <2>2, <2>6 DEF InProgram
  <2> QED
    BY <1>3, <1>5, <2>1, <2>3, <2>7, CalmProgram
<1> QED
  BY <1>7, <1>8, <1>9, <1>10

LEMMA CalmExit ==
    ASSUME TypeInv, CalmState, Exit
    PROVE  CalmState'
<1>1. Awake /\ ~context /\ AtRest /\ saved = "cooked"
  BY RunsAwake DEF Exit, CalmState
<1>2. UNCHANGED <<modeVars, sigVars, frames, progVars>>
  BY DEF Exit
<1>3. Awake'
  BY <1>1, <1>2 DEF Awake, Installed, FatalHandled, modeVars, sigVars, progVars
<1>4. InProgram(<< >>)'
  BY <1>3 DEF InProgram
<1>5. Len(frames') = 1 /\ frames'[1].calls = << >>
  BY <1>1, <1>2 DEF AtRest
<1> QED
  BY <1>1, <1>2, <1>4, <1>5, CalmProgram DEF modeVars, progVars

LEMMA CalmStep ==
    ASSUME TypeInv, CalmInv, RawStep
    PROVE  CalmInv'
<1> SUFFICES ASSUME calm' PROVE CalmState'
  BY DEF CalmInv
<1>1. calm
  BY DEF RawStep, RawNext, RawProgress, RawProgram, AssertionFails, rawVars, Send, Deliver,
         TcSetAttr, TcGetAttr, MouseTracking, RequireMouse, Sigaction, Reinstate, Raise, Calls,
         HandlerReturns, Construct, Destroy, EnableMouse, DisableMouse, Enters, Exit
<1>2. CalmState
  BY <1>1 DEF CalmInv
<1>3. CASE \E s \in Signal : Send(s)
  <2>1. PICK s \in Signal : Send(s)
    BY <1>3
  <2>2. Post(s) /\ UNCHANGED <<modeVars, disp, old, frames, progVars>>
        /\ proc # "dead" /\ proc' = (IF s = CONT THEN "running" ELSE proc)
    BY <2>1 DEF Send
  <2>3. proc' = proc \/ (proc # "dead" /\ proc' = "running" /\ CONT \in pending')
    BY <2>2, PostKeeps, SignalFacts
  <2> QED
    BY <1>2, <2>2, <2>3, PostKeeps, CalmSignals
<1>4. CASE \E s \in Signal : Deliver(s)
  BY <1>2, <1>4, CalmDeliver
<1>5. CASE HandlerReturns
  BY <1>2, <1>5, CalmReturn
<1>6. CASE Construct \/ Destroy \/ EnableMouse \/ DisableMouse
  BY <1>2, <1>6, CalmEnter
<1>7. CASE Exit
  BY <1>2, <1>7, CalmExit
<1>8. CASE UNCHANGED rawVars
  <2>1. UNCHANGED <<modeVars, disp, old, pending, frames, proc, progVars>>
    BY <1>8 DEF rawVars, sigVars
  <2> QED
    BY <1>2, <2>1, CalmSignals
<1>9. CASE AssertionFails
  <2>1. PICK s \in FatalSignal : Post(s) /\ UNCHANGED <<modeVars, disp, old, frames, proc, progVars>>
    BY <1>9 DEF AssertionFails
  <2> QED
    BY <1>2, <2>1, PostKeeps, SignalFacts, CalmSignals
<1>10. CASE ACall
  BY <1>2, <1>10, CalmCall
<1> QED
  BY <1>3, <1>4, <1>5, <1>6, <1>7, <1>8, <1>9, <1>10
     DEF RawStep, RawNext, RawProgress, RawProgram, ACall

LEMMA CalmInit == RawInit => CalmInv
<1> SUFFICES ASSUME RawInit PROVE CalmState
  BY DEF CalmInv
<1>1. Len(frames) = 1 /\ frames[1].calls = << >> /\ saved = "cooked" /\ ~context
  BY DEF RawInit
<1>2. Awake
  BY DEF RawInit, Awake
<1>3. InProgram(<< >>)
  BY <1>2 DEF InProgram
<1> QED
  BY <1>1, <1>3 DEF CalmState

(* The inductive invariant of the modes.                                   *)
THEOREM ModesInvariantHolds == Spec => [](TypeInv /\ CalmInv)
<1>1. Init => TypeInv /\ CalmInv
  BY TypeInit, CalmInit DEF Init
<1>2. TypeInv /\ CalmInv /\ [Next]_vars => TypeInv' /\ CalmInv'
  BY NextIsRawStep, TypeStep, CalmStep
<1> QED
  BY <1>1, <1>2, PTL DEF Spec

-----------------------------------------------------------------------------
(* A process that is stopped, killed or has exited leaves the terminal     *)
(* cooked and its mouse off, over any number of suspensions and contexts.  *)
THEOREM TerminalAlwaysGivenBack == Spec => []TerminalGivenBack
<1>1. TypeInv /\ CalmInv => TerminalGivenBack
  <2> SUFFICES ASSUME TypeInv, CalmState, proc # "running"
               PROVE  attrs = "cooked" /\ mouse = FALSE
    BY DEF CalmInv, TerminalGivenBack
  <2>1. Len(frames) = 1 /\ InProgram(frames[1].calls)
    BY DEF CalmState, InHandler, Suspending, Resuming, Killing, Doomed
  <2>2. Awake \/ Asleep \/ Dying
    BY <2>1 DEF InProgram, Constructing, Destroying, Enabling, Disabling
  <2>3. CASE Awake
    <3>1. ~context
      BY <2>3 DEF Awake
    <3>2. guard = FALSE
      BY <3>1, TypeParts DEF VarsOK
    <3> QED
      BY <2>3, <3>1, <3>2 DEF Awake
  <2>4. CASE Asleep \/ Dying
    BY <2>4 DEF Asleep, Dying
  <2> QED
    BY <2>2, <2>3, <2>4
<1> QED
  BY <1>1, ModesInvariantHolds, PTL

(* The program that runs finds the modes it asked for, also after it was   *)
(* suspended.                                                              *)
THEOREM ModesAlwaysAsAskedFor == Spec => []ModesAsAskedFor
<1>1. TypeInv /\ CalmInv => ModesAsAskedFor
  <2> SUFFICES ASSUME TypeInv, CalmState, Runs, AtRest
               PROVE  /\ attrs = IF context THEN "raw" ELSE "cooked"
                      /\ mouse = guard /\ require = guard
    BY DEF CalmInv, ModesAsAskedFor
  <2> QED
    BY RunsAwake DEF Awake
<1> QED
  BY <1>1, ModesInvariantHolds, PTL

(* The handler of SIGTSTP returns to a process that the signal stops, and  *)
(* that handles SIGCONT.                                                   *)
THEOREM SuspendAlwaysStops == Spec => []SuspendStops
<1>1. TypeInv /\ CalmInv => SuspendStops
  <2> SUFFICES ASSUME TypeInv, CalmState, Runs, Top.sig = TSTP, Top.calls = << >>
               PROVE  TSTP \in pending /\ disp[TSTP] = "default" /\ disp[CONT] = "cont"
    BY DEF CalmInv, SuspendStops
  <2>1. Len(frames) # 1
    BY StackFacts, SignalFacts
  <2>2. Len(frames) = 2 /\ InHandler(frames[2].calls, frames[2].sig)
    BY <2>1, Zenon DEF CalmState
  <2>3. frames[2].calls = << >> /\ frames[2].sig = TSTP
    BY <2>2 DEF Top
  <2>4. InHandler(<< >>, TSTP)
    BY <2>2, <2>3
  <2>5. \A s \in pending : s = TSTP
    BY <2>2, <2>3, RunsBlocked
  <2>6. ~Doomed(TSTP) /\ TSTP # CONT /\ TSTP \notin FatalSignal
    BY <2>5, SignalFacts DEF Doomed
  <2>7. Len(<< >>) = 0
    OBVIOUS
  <2>8. Suspending(0)
    BY <2>4, <2>6, <2>7 DEF InHandler
  <2> QED
    BY <2>5, <2>8 DEF Suspending
<1> QED
  BY <1>1, ModesInvariantHolds, PTL
=============================================================================
