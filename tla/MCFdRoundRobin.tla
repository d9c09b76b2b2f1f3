--------------------------- MODULE MCFdRoundRobin ---------------------------
(* Small instances of FdRoundRobin for TLC.                                *)
EXTENDS FdRoundRobin

CONSTANTS a, b, c, d, e

TwoReaders  == <<a, b>>
FourReaders == <<a, b, c, d>>

\* New readers are interchangeable: c is created before d.
InOrder == frame'[d] # frame[d] => frame[c] # "unborn"

\* Bound: a fifth one is only created into a full vector.
FifthReallocates == frame'[e] # frame[e] => pc' = "crashed"

MCSpec == Init /\ [][Next /\ InOrder /\ FifthReallocates]_vars /\ Fairness
=============================================================================
