---------------------------- MODULE MCEventFeed ------------------------------
(* A model-checking instance of EventFeed: the jobs are all of project p1; *)
(* with p2 a socket can keep the publisher busy while nobody watches p1.   *)
EXTENDS EventFeed

CONSTANTS j1, j2, j3, p1, p2

AllInP1 == [j \in Jobs |-> p1]
=============================================================================
