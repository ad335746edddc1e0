------------------------------ MODULE MCKmaRm ------------------------------
EXTENDS KmaRm, TLC

Symmetry == Permutations(Requests)
=============================================================================
