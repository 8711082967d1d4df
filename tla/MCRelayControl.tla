---------------------------- MODULE MCRelayControl ----------------------------
(* Symmetry for the safety runs of RelayControl.                             *)
EXTENDS RelayControl, TLC

Symmetry == Permutations(Conn) \cup Permutations(Relay)
===============================================================================
