------------------------- MODULE MCSchedulableTask -------------------------
(* Small instances of SchedulableTask for TLC.                             *)
EXTENDS SchedulableTask
CONSTANTS c1, c2, c3, c4, c5
=============================================================================
