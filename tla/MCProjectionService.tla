------------------------ MODULE MCProjectionService ------------------------
(* Instances of ProjectionService for TLC: the bounds are in the .cfg files. *)
EXTENDS ProjectionService
=============================================================================
