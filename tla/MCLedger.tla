------------------------------ MODULE MCLedger ------------------------------
EXTENDS Ledger, TLC

Symmetry == Permutations(Procs) \cup Permutations(Memories) \cup Permutations(Contents)
            \cup Permutations(Receipts)

=============================================================================
