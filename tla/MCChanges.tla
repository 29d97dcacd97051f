---------------------------- MODULE MCChanges ----------------------------
(* Instances of Changes for TLC; the configurations give all the constants.  *)
EXTENDS Changes
=============================================================================
