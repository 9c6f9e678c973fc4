--------------------------- MODULE MCRfbClients ---------------------------
(* Instances of RfbClients for TLC: the bounds are in the .cfg files. *)
EXTENDS RfbClients, TLC

\* The client records are interchangeable.
ClientSymmetry == Permutations(Clients)
=============================================================================
