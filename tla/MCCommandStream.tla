--------------------------- MODULE MCCommandStream ---------------------------
(* Instances of CommandStream for TLC. *)
EXTENDS CommandStream, TLC

\* Replicas are interchangeable, and so are replayers.
ProcessSymmetry == Permutations(Consumers) \cup Permutations(Replayers)
=============================================================================
