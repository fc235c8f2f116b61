-------------------------- MODULE MCWorkerRuntime ---------------------------
(* An instance of WorkerRuntime for TLC. *)
EXTENDS WorkerRuntime

CONSTANTS w1, w2, r1
=============================================================================
