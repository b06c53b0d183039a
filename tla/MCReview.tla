------------------------------ MODULE MCReview ------------------------------
EXTENDS Review, TLC

Symmetric == Permutations(Reviewers) \cup Permutations(Receipts)
=============================================================================
