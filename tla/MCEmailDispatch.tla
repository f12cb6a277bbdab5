--------------------------- MODULE MCEmailDispatch ---------------------------
(* Instances of EmailDispatch: ids, calls and slots are interchangeable.      *)
EXTENDS EmailDispatch, TLC

ActorSymmetry == Permutations(Callers) \cup Permutations(Slots)
=============================================================================
