--------------------------- MODULE MCSchedulerTick ---------------------------
(* Model-checking instances of SchedulerTick.                              *)
EXTENDS SchedulerTick, TLC

Symmetry == Permutations(Replicas)
=============================================================================
