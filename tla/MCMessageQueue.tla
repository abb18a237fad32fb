--------------------------- MODULE MCMessageQueue ---------------------------
(* Instances of MessageQueue for TLC.  Neither messages nor pollers are     *)
(* told apart by the specification.                                         *)
EXTENDS MessageQueue, TLC

Symmetry == Permutations(Msg) \cup Permutations(Poller)
=============================================================================
