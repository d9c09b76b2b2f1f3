----------------------------- MODULE MCParallel -----------------------------
(* Small instances of Parallel, with the clients of ParallelDemo.          *)
EXTENDS ParallelDemo
CONSTANTS w1, w2, w3
=============================================================================
