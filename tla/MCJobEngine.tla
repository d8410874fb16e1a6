----------------------------- MODULE MCJobEngine -----------------------------
(* Model-checking instances of JobEngine.                                  *)
EXTENDS JobEngine, TLC

Symmetry == Permutations(Jobs) \union Permutations(Workers) \union Permutations(Tokens)
=============================================================================
