-------------------------- MODULE MCDeliverySerial --------------------------
(* DeliverySerial on the instances of MCDelivery. *)
EXTENDS DeliverySerial, MCDelivery
=============================================================================
