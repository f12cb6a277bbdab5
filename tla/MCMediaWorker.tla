---------------------------- MODULE MCMediaWorker ----------------------------
(* Instances of MediaWorker for TLC.                                         *)
EXTENDS MediaWorker
=============================================================================
