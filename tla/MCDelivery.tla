----------------------------- MODULE MCDelivery -----------------------------
(* Constants of the Delivery runs that a .cfg cannot write down.           *)
EXTENDS Delivery

CONSTANTS s1, s2

MCServer == {s1, s2}
=============================================================================
