-------------------------- MODULE MCSummonRollout --------------------------
(* Instances of SummonRollout for TLC; the cfg files choose the constants.   *)
EXTENDS SummonRollout
=============================================================================
