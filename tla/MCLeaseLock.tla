---------------------------- MODULE MCLeaseLock ----------------------------
(* The instance of LeaseLock for TLC.  No symmetry: a liveness property is  *)
(* checked in the same run as the safety properties.                        *)
EXTENDS LeaseLock
=============================================================================
