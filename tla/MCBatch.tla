------------------------------ MODULE MCBatch ------------------------------
EXTENDS Batch, TLC

Symmetric == Permutations(Workers)
SymmetricAll == Permutations(Workers) \cup Permutations(Candidates)
=============================================================================
