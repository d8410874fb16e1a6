---------------------------- MODULE MCMembership -----------------------------
(* Model-checking instances of Membership: one user can be removed and   *)
(* invited again.                                                          *)
EXTENDS Membership, TLC

CONSTANTS m1, m2, m3, u1, u2

MCRows == {m1, m2, m3}
MCUsers == {u1, u2}
MCUserOf == m1 :> u1 @@ m2 :> u2 @@ m3 :> u2
=============================================================================
