------------------------------ MODULE MCKmaBud ------------------------------
EXTENDS KmaBud, TLC

Symmetry == Permutations(Requests)
=============================================================================
