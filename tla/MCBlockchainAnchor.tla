-------------------------- MODULE MCBlockchainAnchor --------------------------
EXTENDS BlockchainAnchor, TLC

Symmetry == Permutations(Documents) \cup Permutations(Workers)
=============================================================================
