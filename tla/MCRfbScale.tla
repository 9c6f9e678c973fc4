---------------------------- MODULE MCRfbScale ----------------------------
(* An instance of RfbScale for TLC: clients and sizes are interchangeable. *)
EXTENDS RfbScale, TLC

ScaleSymmetry == Permutations(Clients) \cup Permutations(Sizes)
=============================================================================
