---------------------------- MODULE MCCommandDelivery ----------------------------
(* Two tests of one testee for CommandDelivery. *)
EXTENDS CommandDelivery

CONSTANTS x1, x2
=============================================================================
