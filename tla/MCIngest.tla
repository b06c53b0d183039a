------------------------------- MODULE MCIngest -------------------------------
EXTENDS Ingest, TLC

Symmetry == Permutations(Receipts) \cup Permutations(Sessions) \cup Permutations(Keys)
=============================================================================
