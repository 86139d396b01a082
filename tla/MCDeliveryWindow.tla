-------------------------- MODULE MCDeliveryWindow --------------------------
(* Instances of DeliveryWindow for TLC.                                    *)
EXTENDS DeliveryWindow
=============================================================================
