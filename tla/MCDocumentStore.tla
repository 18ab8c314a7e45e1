---------------------------- MODULE MCDocumentStore ----------------------------
EXTENDS DocumentStore, TLC

CONSTANTS c1, c2

Symmetry == Permutations(Calls)
=============================================================================
