---------------------------- MODULE MCRfbUpdate ----------------------------
(* Instances of RfbUpdate for TLC: the bounds are in the .cfg files. *)
EXTENDS RfbUpdate
=============================================================================
