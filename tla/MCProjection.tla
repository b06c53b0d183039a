---------------------------- MODULE MCProjection ----------------------------
EXTENDS Projection, TLC

\* Workers are interchangeable, and so are generations.
Symmetric == Permutations(Workers) \cup Permutations(Generations)
=============================================================================
