------------------------------ MODULE MCAnalytics ------------------------------
(* Model-checking instance of Analytics. *)
EXTENDS Analytics

MCPrices == 1 .. 2
Symmetry == Permutations(Refs) \cup Permutations(Slots)
=============================================================================
