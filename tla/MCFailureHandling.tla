-------------------------- MODULE MCFailureHandling --------------------------
(* Model-checking instance of FailureHandling: one retry of the job, two   *)
(* replays of its first entry and one of its second; policies of all three *)
(* strategies, one of them with jitter and a cap that an update has set    *)
(* below its base.                                                         *)
EXTENDS FailureHandling

CONSTANTS q1, p1, p2, p3
EntryOf == [r \in Requests |-> CASE r = q1 -> 0 [] r \in {p1, p2} -> 1 [] OTHER -> 2]
Policy(s, b, m, j) == [strategy |-> s, base |-> b, max |-> m, jitter |-> j]
SomePolicies == {Policy("linear", 2, 3, 0), Policy("exponential", 1, 3, 0), Policy("fixed", 2, 1, 100)}
Defaults == Policy("fixed", 1, 5, 0)
=============================================================================
