------------------------- MODULE MCCustomerShipment -------------------------
(***************************************************************************)
(* Instances of CustomerShipment for TLC.                                  *)
(***************************************************************************)
EXTENDS CustomerShipment, TLC

CONSTANTS p1, p2, s1, r1, r2, hub, dest

OneShipment == [p \in Parcel |-> s1]

\* Parcels of the one shipment and requests are interchangeable.
Interchangeable == Permutations(Parcel) \cup Permutations(Request)
=============================================================================
