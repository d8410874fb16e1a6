---------------------------- MODULE MCJobCreation ----------------------------
(* Model-checking instance of JobCreation.  In one round two requests come *)
(* under one key, one of them gated, with two batches whose keys cross; in *)
(* the other two requests under the empty key, a batch with two of these,  *)
(* and a request without a key.                                            *)
EXTENDS JobCreation

CONSTANTS k1, kg, e1, e2, n1, b1, b2, b3, ka, kb
SomeRounds == {{k1, kg, b1, b2}, {e1, e2, b3, n1}}
Wanted == [r \in Requests |-> CASE r \in {k1, kg} -> <<ka>>
                                [] r = b1 -> <<ka, kb>>
                                [] r = b2 -> <<kb, ka>>
                                [] r \in {e1, e2} -> <<EmptyKey>>
                                [] r = b3 -> <<EmptyKey, EmptyKey>>
                                [] OTHER -> <<NoKey>>]
=============================================================================
