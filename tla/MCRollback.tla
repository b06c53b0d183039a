----------------------------- MODULE MCRollback -----------------------------
EXTENDS Rollback, TLC

\* Workers are interchangeable, and so are runners.
Symmetry == Permutations(Workers) \cup Permutations(Runners)
=============================================================================
