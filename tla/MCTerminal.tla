----------------------------- MODULE MCTerminal -----------------------------
(* An instance of Terminal: keys of every form the parser takes, one that  *)
(* it does not know, and few signals at a time.                            *)
EXTENDS Terminal

Sends(bytes, event) == [bytes |-> bytes, event |-> event, position |-> invalid_pos]

MCKey == {
    Sends(<<82>>, [code |-> 82, mods |-> 128]),                        \* R
    Sends(<<27, 91, 66>>, [code |-> 66, mods |-> 192]),                \* down
    Sends(<<27, 91, 49, 59, 53, 67>>, [code |-> 67, mods |-> 208]),    \* Ctrl+right
    Sends(<<27, 91, 60, 48, 59, 49, 59, 50, 109>>,                     \* left button
          [x |-> 1, y |-> 2, mods |-> 32]),                            \*   released
    Sends(<<27, 91>>, [code |-> 91, mods |-> 136]),                    \* Alt+[
    Sends(<<27, 91, 72>>, NoEvent) }                                   \* Home

MCReply == [bytes |-> <<27, 91, 50, 59, 49, 48, 82>>, event |-> NoEvent,
            position |-> [row |-> 2, col |-> 10]]

\* The keys cannot spell a reply: where they leave the loop of
\* cursor_position(), which has not found one there.
LeftBy == {NoReply, [NoReply EXCEPT !.state = "bracket"]}
              \cup [state : {"invalid"}, row : {0, 1}, col : {0, 5}]

ASSUME SpelledAssumption ==
    \A q \in LeftBy, k \in MCKey : FoldLeft(ReplyByte, q, k.bytes) \in LeftBy

MCFatal == <<"SIGABRT">>

\* Bounds taken together: signals, calls of cursor_position(), bytes typed.
Mix == {<<0, 1, 18>>, <<1, 0, 9>>, <<1, 1, 3>>, <<2, 0, 3>>, <<4, 0, 0>>}

MCInit ==
    /\ Init
    /\ \E m \in Mix : toSend <= m[1] /\ toAsk <= m[2] /\ Len(input) <= m[3]
    /\ stream = "input_stream" => toSend = 0 /\ Len(input) <= 6

MCSpec == MCInit /\ [][Next]_vars
=============================================================================
