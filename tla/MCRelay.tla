------------------------------ MODULE MCRelay ------------------------------
(* Relay with the default target, which loops back, and two that do not. *)
EXTENDS Relay

CONSTANTS d, t1, t2, http, game

=============================================================================
