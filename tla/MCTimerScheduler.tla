-------------------------- MODULE MCTimerScheduler --------------------------
(* Small instances of TimerScheduler for TLC.                              *)
EXTENDS TimerScheduler
CONSTANTS t1, t2, t3
=============================================================================
