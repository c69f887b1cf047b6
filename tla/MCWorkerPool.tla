---------------------------- MODULE MCWorkerPool ----------------------------
(* Constants of the runs of WorkerPool. *)
EXTENDS WorkerPool

CONSTANTS k1, k2, k3, k4, w1, c1, c2
=============================================================================
