--------------------------- MODULE MCRfbHandshake ---------------------------
(* Instances of RfbHandshake for TLC: the bounds are in the .cfg files. *)
EXTENDS RfbHandshake
=============================================================================
