----------------------------- MODULE MCDelivery -----------------------------
(* The instance of Delivery that the runs check.                              *)
EXTENDS Delivery
=============================================================================
