---------------------------- MODULE MCDirtyRect ----------------------------
(* Instances of DirtyRect for TLC: the bounds are in the .cfg files. *)
EXTENDS DirtyRect
=============================================================================
