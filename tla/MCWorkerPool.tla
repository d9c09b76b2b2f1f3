---------------------------- MODULE MCWorkerPool ----------------------------
(* Small instances of WorkerPool for TLC.                                  *)
EXTENDS WorkerPool
CONSTANTS w1, w2, r1, r2, k1, k2
=============================================================================
