-------------------------- MODULE MCLobsterValidator --------------------------
(* Model-checking instance of LobsterValidator. *)
EXTENDS LobsterValidator

MCPrices == 1 .. 2
MCThreePrices == 1 .. 3
MCTimes == 1 .. 3
Symmetry == Permutations(Refs) \cup Permutations(Slots)
=============================================================================
