---------------------------- MODULE MCLiveBooks ----------------------------
EXTENDS LiveBooks, TLC
Symmetry == Permutations(Instruments) \cup Permutations(Readers)
=============================================================================
