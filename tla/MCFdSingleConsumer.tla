------------------------- MODULE MCFdSingleConsumer -------------------------
(* Small instances of FdSingleConsumer for TLC.                            *)
EXTENDS FdSingleConsumer

CONSTANTS a, b, c, d, e

TwoReaders  == <<a, b>>
FourReaders == <<a, b, c, d>>
=============================================================================
