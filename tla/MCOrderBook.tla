------------------------------ MODULE MCOrderBook ------------------------------
(* Model-checking instance of OrderBook: symmetry and small constants. *)
EXTENDS OrderBook

MCPrices == 1 .. 3
MCGapPrices == {1, 3, 4}  \* a window of 3 covers any two neighbours, not all three
MCRawPrices == 0 .. 2
Symmetry == Permutations(Refs) \cup Permutations(Slots)
=============================================================================
