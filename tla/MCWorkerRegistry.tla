-------------------------- MODULE MCWorkerRegistry ---------------------------
(* A model-checking instance of WorkerRegistry: one worker, which is       *)
(* punctual until it stalls, the chaos button and the reaper.  Workers     *)
(* meet only in the reaper's scan, which treats each row for itself.       *)
EXTENDS WorkerRegistry

CONSTANT w1
=============================================================================
