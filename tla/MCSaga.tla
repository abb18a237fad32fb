------------------------------- MODULE MCSaga -------------------------------
(* Instances of Saga for TLC.  Runs are interchangeable, which only the     *)
(* configurations without a liveness property make use of.                  *)
EXTENDS Saga, TLC

Symmetry == Permutations(Runs)
=============================================================================
