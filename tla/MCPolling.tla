------------------------------ MODULE MCPolling ------------------------------
(* Model-checking instance of Polling: two workers that only poll, or one  *)
(* that is also woken; both jobs in the queue that is there from the       *)
(* start, one above the other, or one in a queue the workers have yet to   *)
(* learn of.                                                               *)
EXTENDS Polling

CONSTANTS w1, w2, qa, qb, j2
Above2 == [j \in Jobs |-> IF j = j2 THEN 1 ELSE 0]
Apart == [j \in Jobs |-> IF j = j2 THEN qb ELSE qa]
Setup(up, listeners, queueOf) == [up |-> up, listeners |-> listeners, queueOf |-> queueOf, priority |-> Above2]
SomeSetups == UNION {{Setup({w1, w2}, {}, f), Setup({w1}, {w1}, f)} : f \in {Apart, [j \in Jobs |-> qa]}}
=============================================================================
