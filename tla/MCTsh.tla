-------------------------------- MODULE MCTsh --------------------------------
(* Job control for TLC, with the children of the configuration.              *)
EXTENDS Tsh
=============================================================================
