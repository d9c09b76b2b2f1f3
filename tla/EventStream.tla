---------------------------- MODULE EventStream ----------------------------
(***************************************************************************)
(* The input of linux_term.hpp: the generators event_stream(), which       *)
(* parses what each read() returns into events, and input_stream(), which  *)
(* yields it as it is; and cursor_position(), which looks for the          *)
(* terminal's reply in the same input.                                     *)
(*                                                                         *)
(* A byte is its code, tagged with the key that sent it.  The keys to come *)
(* are chosen at the start: what a read() finds is any prefix of them.     *)
(* The generator parses a whole buffer at once and then yields its events  *)
(* one by one.                                                             *)
(***************************************************************************)
EXTENDS Integers, SequencesExt

CONSTANTS Key,      \* the keys: records [bytes, event]
          Reply,    \* the reply to cursor_position(): [bytes, event, position]
          BufSize,  \* the size of both buffers
          MaxKeys,  \* bound: keys typed
          MaxAsks   \* bound: calls of cursor_position()

VARIABLES input,    \* bytes not read yet, those still to be typed included
          program,  \* "idle", in operator() ("resumed") or in cursor_position() ("asking")
          stream,   \* the generator: "event_stream" or "input_stream"
          gen,      \* its state: "live", "throws", "asserts" or "done"
          events,   \* events of the buffer still to be yielded
          value,    \* promise_type::value
          reply,    \* state, row and column of cursor_position()
          toAsk,    \* calls of cursor_position() still to be made
          clean,    \* history: no escape precedes the reply and nothing broke into the call
          warned    \* history: cursor_position() has returned invalid_pos, a flush
            \* has cut what it was reading, or a key that the parser does not
            \* know has been read

genVars    == <<stream, gen, events, value>>
cursorVars == <<reply, toAsk, clean, warned>>
streamVars == <<input, program, genVars, cursorVars>>

ESC == 27
BRACKET == 91
SEMICOLON == 59
Arrow == 65..68
Digit == 48..57
U16 == 65536

NoEvent == [code |-> 0, mods |-> 0]
invalid_pos == [row |-> U16 - 1, col |-> U16 - 1]

ASSUME KeyAssumption ==
    /\ \A k \in Key \cup {Reply} : k.bytes \in Seq(0..255) /\ k.bytes # << >>
    /\ Reply.event = NoEvent
    /\ BufSize \in Nat \ {0} /\ MaxKeys \in Nat /\ MaxAsks \in Nat

-----------------------------------------------------------------------------
(* The parser.  The modifiers are bits of one byte.                        *)
Shift == 4
Alt == 8
Ctrl == 16
Release == 32
Special == 64
Key_Marker == 128

\* char is signed: a byte above 127 compares as a control character.
from_character(c, mod) ==
    IF c < 32 \/ c > 127
    THEN [code |-> (c + 96) % 256, mods |-> mod + Ctrl + Key_Marker]
    ELSE [code |-> c, mods |-> mod + Key_Marker]

parse_mouse(p, mod) ==
    LET magic == p.params[1] % 256
    IN  [x |-> p.params[2], y |-> p.params[3],
         mods |-> IF (magic \div Release) % 2 = 1 THEN magic ELSE magic + mod]

\* funckey_modifiers 2..8 are 1 + the sum of Shift 1, Alt 2 and Control 4.
parse_function_key(c, modifiers) ==
    [code |-> c, mods |-> Special + Key_Marker +
                          (LET m == modifiers % 256 IN IF m \in 2..8 THEN Shift * (m - 1) ELSE 0)]

NoParams == [i \in 1..4 |-> 0]
FirstState == [state |-> "first", params |-> NoParams, current |-> 1, out |-> << >>]

YieldKeepsParams(p, e) ==  \* mutant: reset() leaves the parameters
    [p EXCEPT !.state = "first", !.current = 1, !.out = Append(@, e)]

YieldKeepsPlace(p, e) ==  \* mutant: reset() leaves current_param
    [FirstState EXCEPT !.current = p.current, !.out = Append(p.out, e)]

\* co_yield and reset().
Yield(p, e) == [FirstState EXCEPT !.out = Append(p.out, e)]

Checked(p, holds, e) == IF holds THEN Yield(p, e) ELSE [p EXCEPT !.state = "asserts"]

ParseSequence(p, c) ==
    CASE c \in Digit -> [p EXCEPT !.state = "number", !.params[p.current] = c - 48]
      [] c = 60 (*<*) -> [p EXCEPT !.state = "number"]
      [] c \in Arrow -> Yield(p, parse_function_key(c, 0))
      [] OTHER       -> [p EXCEPT !.state = "throws"]

ParseNumber(p, c) ==
    CASE c \in Digit -> [p EXCEPT !.params[p.current] = ((@ * 10 + c) - 48) % U16]
      [] c = SEMICOLON -> IF p.current = 4 THEN [p EXCEPT !.state = "asserts"]
                                           ELSE [p EXCEPT !.current = @ + 1]
      [] c = 109 (*m*) -> Checked(p, p.current = 3, parse_mouse(p, Release))
      [] c = 77 (*M*)  -> Checked(p, p.current = 3, parse_mouse(p, 0))
      [] c \in Arrow -> Checked(p, p.params[1] = 1 /\ p.current = 2,
                                parse_function_key(c, p.params[2]))
      [] OTHER -> [p EXCEPT !.state = "throws"]

ParseByte(p, c) ==
    CASE p.state = "first" /\ c = ESC -> [p EXCEPT !.state = "control"]
      [] p.state = "first" /\ c # ESC -> Yield(p, from_character(c, 0))
      [] p.state = "control" /\ c = BRACKET -> [p EXCEPT !.state = "sequence"]
      [] p.state = "control" /\ c # BRACKET -> Yield(p, from_character(c, Alt))
      [] p.state = "sequence" -> ParseSequence(p, c)
      [] p.state = "number"   -> ParseNumber(p, c)
      [] OTHER -> p

Codes(bytes) == [i \in DOMAIN bytes |-> bytes[i].c]

\* The events of one buffer, and how its parse ends: the state of the parser
\* is lost with the buffer.
ParseBuffer(bytes) ==
    LET p == FoldLeft(ParseByte, FirstState, Codes(bytes))
    IN  [events |-> IF p.state = "sequence" THEN Append(p.out, from_character(BRACKET, Alt))
                                            ELSE p.out,
         gen |-> IF p.state \in {"throws", "asserts"} THEN p.state ELSE "live"]

Character(c) == [code |-> c, mods |-> 0]

ReadBuffer(bytes) ==
    IF stream = "event_stream" THEN ParseBuffer(bytes)
    ELSE [events |-> [i \in DOMAIN bytes |-> Character(bytes[i].c)], gen |-> "live"]

-----------------------------------------------------------------------------
(* The loop of cursor_position(), whose state spans its reads.             *)
InReply(q, field, c, stop, next) ==
    CASE c \in Digit -> [q EXCEPT ![field] = ((@ * 10 + c) - 48) % U16]
      [] c = stop    -> [q EXCEPT !.state = next]
      [] OTHER       -> [q EXCEPT !.state = "invalid"]

ReplyByte(q, c) ==
    CASE q.state = "start" /\ c = ESC -> [q EXCEPT !.state = "esc"]
      [] q.state = "esc" -> [q EXCEPT !.state = IF c = BRACKET THEN "bracket" ELSE "invalid"]
      [] q.state = "bracket"   -> InReply(q, "row", c, SEMICOLON, "semicolon")
      [] q.state = "semicolon" -> InReply(q, "col", c, 82 (*R*), "end")
      [] OTHER -> q

NoReply == [state |-> "start", row |-> 0, col |-> 0]
position == IF reply.state = "end" THEN [row |-> reply.row, col |-> reply.col] ELSE invalid_pos

-----------------------------------------------------------------------------
(* What is typed.                                                          *)
Bytes(k) == [i \in 1..Len(k.bytes) |-> [c |-> k.bytes[i], key |-> k, at |-> i]]

Typed == {FlattenSeq([i \in DOMAIN ks |-> Bytes(ks[i])]) : ks \in SeqOf(Key, MaxKeys)}

\* A key that the parser knows is one that it reads as meant when nothing
\* comes before or after it.  ESC only starts a key.
ASSUME KnownAssumption ==
    \A k \in Key :
        /\ \A i \in 2..Len(k.bytes) : k.bytes[i] # ESC
        /\ k.event # NoEvent =>
              IF k.bytes = <<ESC, BRACKET>> THEN k.event = from_character(BRACKET, Alt)
              ELSE LET p == FoldLeft(ParseByte, FirstState, k.bytes)
                   IN  p.state = "first" /\ p.out = <<k.event>>

WithDigit(n, d) == n * 10 + (d - 48)
Decimal(digits) == FoldLeft(WithDigit, 0, digits)

\* The answer to ESC [ 6 n is ESC [ row ; column R.
ASSUME ReplyAssumption ==
    LET b == Reply.bytes
        n == Len(b)
    IN  \E i \in 3..n - 1 :
            /\ b[1] = ESC /\ b[2] = BRACKET /\ b[i] = SEMICOLON /\ b[n] = 82 (*R*)
            /\ \A j \in 3..n - 1 : j = i \/ b[j] \in Digit
            /\ Reply.position = [row |-> Decimal(SubSeq(b, 3, i - 1)),
                                 col |-> Decimal(SubSeq(b, i + 1, n - 1))]
            /\ Reply.position \in [row : 0..U16 - 1, col : 0..U16 - 1]

\* The terminal answers between two keys.
Between(bytes) == {i \in 0..Len(bytes) : i = Len(bytes) \/ bytes[i + 1].at = 1}
After(bytes, n) == SubSeq(bytes, n + 1, Len(bytes))
Readable == {n \in 1..BufSize : n <= Len(input)}

\* Those of the keys ks in the buffer are known to the parser, which takes
\* Alt+[ for the start of a sequence unless it ends the buffer.
Known(buf, ks) == \A p \in 1..Len(buf) :
    p >= buf[p].at /\ buf[p].key \in ks =>
        /\ buf[p].key.event # NoEvent
        /\ buf[p].key.bytes = <<ESC, BRACKET>> /\ buf[p].at = 2 => p = Len(buf)

StreamTypeOK ==
    /\ \A i \in DOMAIN input : input[i].key \in Key \cup {Reply}
    /\ program \in {"idle", "resumed", "asking"}
    /\ stream \in {"event_stream", "input_stream"}
    /\ gen \in {"live", "throws", "asserts", "done"}
    /\ gen = "done" => events = << >>
    /\ \A i \in DOMAIN events : events[i].mods \in 0..255
    /\ value.mods \in 0..255
    /\ reply.state \in {"start", "esc", "bracket", "semicolon", "end", "invalid"}
    /\ reply.row \in 0..U16 - 1 /\ reply.col \in 0..U16 - 1
    /\ toAsk \in 0..MaxAsks /\ clean \in BOOLEAN /\ warned \in BOOLEAN

StreamInit ==
    /\ input \in Typed
    /\ program = "idle"
    /\ stream \in {"event_stream", "input_stream"}
    /\ gen = "live" /\ events = << >> /\ value = NoEvent
    /\ reply = NoReply /\ toAsk \in 0..MaxAsks
    /\ clean = TRUE /\ warned = FALSE

-----------------------------------------------------------------------------
(* operator() of the generator.                                            *)
Resume ==
    /\ program = "idle" /\ gen # "done"
    /\ program' = "resumed"
    /\ UNCHANGED <<input, genVars, cursorVars>>

ReadEvents ==
    /\ program = "resumed" /\ gen = "live" /\ events = << >>
    /\ \E n \in Readable :
          LET buf == SubSeq(input, 1, n)
          IN  /\ input' = After(input, n)
              /\ events' = ReadBuffer(buf).events
              /\ gen' = ReadBuffer(buf).gen
              /\ warned' = (warned \/ ~Known(buf, Key))
    /\ UNCHANGED <<program, stream, value, reply, toAsk, clean>>

YieldValue ==
    /\ program = "resumed" /\ events # << >>
    /\ value' = Head(events)
    /\ events' = Tail(events)
    /\ program' = "idle"
    /\ UNCHANGED <<input, stream, gen, cursorVars>>

\* The exception is kept in except_, which nobody reads: operator() returns
\* the event it returned before.
Throws ==
    /\ program = "resumed" /\ gen = "throws" /\ events = << >>
    /\ gen' = "done"
    /\ program' = "idle"
    /\ UNCHANGED <<input, stream, events, value, cursorVars>>

\* An assertion fails: of the parser, or of operator() once the generator
\* is done.
FailsAssertion ==
    \/ program = "resumed" /\ gen = "asserts" /\ events = << >>
    \/ program = "idle" /\ gen = "done"

-----------------------------------------------------------------------------
(* cursor_position().                                                      *)
Ask ==
    /\ program = "idle" /\ toAsk > 0
    /\ program' = "asking"
    /\ toAsk' = toAsk - 1
    /\ reply' = NoReply
    /\ \E n \in Between(input) :
          /\ input' = SubSeq(input, 1, n) \o Bytes(Reply) \o After(input, n)
          /\ clean' = \A i \in 1..n : input[i].c # ESC
    /\ UNCHANGED <<genVars, warned>>

ReadReplyAtOnce ==  \* mutant: state is local to the loop's body
    /\ program = "asking"
    /\ \E n \in Readable :
          /\ reply' = FoldLeft(ReplyByte, NoReply, Codes(SubSeq(input, 1, n)))
          /\ input' = After(input, n)
    /\ program' = IF reply'.state \in {"end", "invalid"} THEN "idle" ELSE program
    /\ warned' = (warned \/ reply'.state = "invalid")
    /\ UNCHANGED <<genVars, toAsk, clean>>

\* The rest of the buffer is lost with the last read.
ReadReply ==
    /\ program = "asking"
    /\ \E n \in Readable :
          /\ reply' = FoldLeft(ReplyByte, reply, Codes(SubSeq(input, 1, n)))
          /\ input' = After(input, n)
    /\ program' = IF reply'.state \in {"end", "invalid"} THEN "idle" ELSE program
    /\ warned' = (warned \/ reply'.state = "invalid")
    /\ UNCHANGED <<genVars, toAsk, clean>>

\* A signal handler has interrupted read(): EINTR is an error.
InterruptedRead ==
    /\ program = "asking"
    /\ reply' = [reply EXCEPT !.state = "invalid"]
    /\ program' = "idle"
    /\ warned' = TRUE /\ clean' = FALSE
    /\ UNCHANGED <<input, genVars, toAsk>>

\* tcsetattr(TCSAFLUSH) drops what has been typed so far.
Flush ==
    /\ \E n \in 0..Len(input) :
          /\ input' = After(input, n)
          /\ warned' = (warned \/ (n > 0 /\ program = "asking" /\ reply.state # "start"))
    /\ clean' = FALSE
    /\ UNCHANGED <<program, genVars, reply, toAsk>>

StreamNext ==
    \/ Resume \/ ReadEvents \/ YieldValue \/ Throws
    \/ Ask \/ ReadReply

-----------------------------------------------------------------------------
(* Properties.  A definition above marked "mutant" is a faulty variant of  *)
(* the one that follows it, used to show that a property can fail.         *)

\* What the bytes of a buffer mean: the event of each key that it holds
\* whole, and of a key that a read or a flush has cut, nothing for what comes
\* before the cut (Alt+[ when it looks like one), plain characters after it.
Meaning(buf) == FlattenSeq([p \in 1..Len(buf) |->
    LET b == buf[p]
    IN  CASE p < b.at -> <<from_character(b.c, 0)>>
          [] p >= b.at /\ b.at = Len(b.key.bytes) -> <<b.key.event>>
          [] OTHER -> IF p = Len(buf) /\ b.at = 2 /\ b.c = BRACKET
                      THEN <<from_character(BRACKET, Alt)>> ELSE << >>])

(***************************************************************************)
(* Every buffer of known keys is read as it was typed, wherever a read or  *)
(* a flush has cut it: a key that is cut costs itself and no other, and    *)
(* neither an assertion nor an exception ends the stream.                  *)
(***************************************************************************)
ReadsAsTyped ==
    [][ReadEvents /\ stream = "event_stream" =>
          LET buf == SubSeq(input, 1, Len(input) - Len(input'))
          IN  Known(buf, Key \cup {Reply}) => events' = Meaning(buf) /\ gen' = "live"]_streamVars

(***************************************************************************)
(* cursor_position() finds the reply behind whatever plain characters were *)
(* typed ahead of it, and however the reads cut it.                        *)
(***************************************************************************)
FindsReply ==
    [][program = "asking" /\ program' = "idle" /\ clean' =>
          reply'.state = "end" /\ position' = Reply.position]_streamVars

(***************************************************************************)
(* Without a key that the parser does not know, and if the keys cannot     *)
(* spell a reply, the stream ends only after cursor_position() has given   *)
(* up on the reply, which is then read as a key: it has returned           *)
(* invalid_pos, or a flush has cut what it was reading.                    *)
(***************************************************************************)
EndsOnlyWarned == gen # "live" => warned
=============================================================================
