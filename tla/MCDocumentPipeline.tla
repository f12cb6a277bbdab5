------------------------- MODULE MCDocumentPipeline -------------------------
(* Instances of DocumentPipeline: procedures are interchangeable.            *)
EXTENDS DocumentPipeline, TLC

ProcessSymmetry == Permutations(Requests) \cup Permutations(Sweepers)
=============================================================================
