------------------------------ MODULE MCRegistry ------------------------------
(* Two directories, one inside the other, and a third one to move to. *)
EXTENDS Registry, TLC

CONSTANTS Outer, Inner, Spare

TwoNested == {<<Inner, Outer>>}
Symmetry == Permutations(Callers)
=============================================================================
