----------------------------- MODULE MCDelivery -----------------------------
(* Instances of Delivery for TLC: windows of two tags. *)
EXTENDS Delivery
=============================================================================
