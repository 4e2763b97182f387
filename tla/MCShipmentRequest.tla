--------------------------- MODULE MCShipmentRequest ---------------------------
(***************************************************************************)
(* Instances of ShipmentRequest for TLC: two quotations, which a run may   *)
(* let wait for an operator's price, and two HTTP requests at a time.      *)
(***************************************************************************)
EXTENDS ShipmentRequest

CONSTANTS q1, q2, none, c1, c2
=============================================================================
