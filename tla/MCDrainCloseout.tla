-------------------------- MODULE MCDrainCloseout --------------------------
(* Instances of DrainCloseout for TLC. *)
EXTENDS DrainCloseout
=============================================================================
