-------------------------- MODULE MCIdentityAvatars --------------------------
(* Instances of IdentityAvatars: replicas, calls and presets are              *)
(* interchangeable.                                                           *)
EXTENDS IdentityAvatars, TLC

ActorSymmetry == Permutations(Consumers) \cup Permutations(Calls) \cup Permutations(Choices)
=============================================================================
