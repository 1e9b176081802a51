---------------------------- MODULE MCOrderBook ----------------------------
EXTENDS OrderBook, TLC
Symmetry == Permutations(Ids) \cup Permutations(Prices)
=============================================================================
