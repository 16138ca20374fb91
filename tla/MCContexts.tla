----------------------------- MODULE MCContexts -----------------------------
(* Contexts for TLC: one body is as good as another.                       *)
EXTENDS Contexts, TLC

Bodies == Permutations(Body)
=============================================================================
