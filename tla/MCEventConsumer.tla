--------------------------- MODULE MCEventConsumer ---------------------------
(* An event that the producer sends twice. *)
EXTENDS EventConsumer

CONSTANTS m1, m2, e1

Sent == m1 :> e1 @@ m2 :> e1
=============================================================================
