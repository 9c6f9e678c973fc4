---------------------------- MODULE MCRfbRegion ----------------------------
(* Instances of RfbRegion for TLC: the bounds are in the .cfg files. *)
EXTENDS RfbRegion
=============================================================================
