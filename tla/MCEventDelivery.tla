-------------------------- MODULE MCEventDelivery --------------------------
(* EventDelivery with an old and a new connection of the client. *)
EXTENDS EventDelivery

CONSTANTS c1, c2

=============================================================================
