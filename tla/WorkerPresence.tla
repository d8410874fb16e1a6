--------------------------- MODULE WorkerPresence ----------------------------
(***************************************************************************)
(* What the job engine may count on about workers: the life of a worker    *)
(* process and what its row in workers says about it.  The row can be      *)
(* wrong about a live worker, in both directions and at any time; it is not*)
(* wrong for ever about a process that is down.                            *)
(***************************************************************************)
CONSTANTS Workers

VARIABLES
    proc,   \* proc[w]: "unborn", "up", "stopping" (its shutdown has begun) or "down"
    row     \* row[w]: "none", "alive" or "dead"

vars == <<proc, row>>

Init == proc = [w \in Workers |-> "unborn"] /\ row = [w \in Workers |-> "none"]

Alive(w) == proc[w] \in {"up", "stopping"}
Proc(w, p) == proc' = [proc EXCEPT ![w] = p] /\ UNCHANGED row
Row(w, r)  == row' = [row EXCEPT ![w] = r] /\ UNCHANGED proc

Register(w) == /\ proc[w] = "unborn"
               /\ proc' = [proc EXCEPT ![w] = "up"]
               /\ row' = [row EXCEPT ![w] = "alive"]
Revive(w)        == Alive(w) /\ row[w] = "dead" /\ Row(w, "alive")
BeginShutdown(w) == proc[w] = "up" /\ Proc(w, "stopping")
MarkSelfDead(w)  == proc[w] = "stopping" /\ Row(w, "dead")
Crash(w)         == Alive(w) /\ Proc(w, "down")

Declare(D) == /\ \A w \in D : row[w] = "alive"
              /\ row' = [w \in Workers |-> IF w \in D THEN "dead" ELSE row[w]]
              /\ UNCHANGED proc

Next == \/ \E w \in Workers : \/ Register(w) \/ Revive(w) \/ BeginShutdown(w)
                              \/ MarkSelfDead(w) \/ Crash(w)
        \/ \E D \in SUBSET Workers : Declare(D)

DeclareDown(w) == \E D \in SUBSET Workers : proc[w] = "down" /\ w \in D /\ Declare(D)

Spec == Init /\ [][Next]_vars /\ \A w \in Workers : WF_vars(DeclareDown(w))
=============================================================================
