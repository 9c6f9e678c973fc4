--------------------------- MODULE MCScreenShare ---------------------------
(* Instances of ScreenShare for TLC: the bounds are in the .cfg files. *)
EXTENDS ScreenShare
=============================================================================
