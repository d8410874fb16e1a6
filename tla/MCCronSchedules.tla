--------------------------- MODULE MCCronSchedules ----------------------------
(* A model-checking instance of CronSchedules: a schedule of irregular     *)
(* slots and a broken template.                                            *)
EXTENDS CronSchedules

CONSTANTS regular, broken, r1, r2, q1, q2

SomeSlots == [s \in Schedules |-> {1, 2, 4, MaxTime + 1}]
=============================================================================
