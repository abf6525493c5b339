------------------------------ MODULE MCVolume ------------------------------
EXTENDS Volume, TLC

Symmetry == Permutations(Writers) \union Permutations(Root \ {Empty})
=============================================================================
