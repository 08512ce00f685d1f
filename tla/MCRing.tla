------------------------------ MODULE MCRing ------------------------------
EXTENDS RbtTrace, TLC

Symmetry == Permutations(Producers)
=============================================================================
