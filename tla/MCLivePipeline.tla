--------------------------- MODULE MCLivePipeline ---------------------------
EXTENDS LivePipeline, TLC
Symmetry == Permutations(Ids)
=============================================================================
