--------------------------- MODULE MCRDSInstance ---------------------------
(* Instances of RDSInstance for TLC; the cfg files choose the constants.     *)
EXTENDS RDSInstance
=============================================================================
