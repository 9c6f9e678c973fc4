-------------------------- MODULE MCFramePipeline --------------------------
(* Instances of FramePipeline for TLC. *)
EXTENDS FramePipeline, TLC

ClientSymmetry == Permutations(Clients)
=============================================================================
