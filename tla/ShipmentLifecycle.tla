-------------------------- MODULE ShipmentLifecycle --------------------------
(***************************************************************************)
(* The lifecycle tables of the customer-shipment aggregates, and the rule  *)
(* that derives the status of a shipment from its parcels.                 *)
(*                                                                         *)
(* "NONE" is a row that has not been inserted yet.  A parcel has no        *)
(* transition to CANCELLED, so no parcel is ever in that status.           *)
(***************************************************************************)

ParcelStatus == {"NONE", "PROCESSING", "READY_FOR_DISPATCH", "IN_TRANSIT",
                 "ARRIVED_AT_UNIT", "READY_FOR_COLLECTION", "COLLECTED",
                 "RETURNED"}

ParcelNext(status) ==
  CASE status = "NONE"                 -> {"PROCESSING"}
    [] status = "PROCESSING"           -> {"READY_FOR_DISPATCH", "RETURNED"}
    [] status = "READY_FOR_DISPATCH"   -> {"IN_TRANSIT"}
    [] status = "IN_TRANSIT"           -> {"ARRIVED_AT_UNIT"}
    [] status = "ARRIVED_AT_UNIT"      -> {"PROCESSING", "READY_FOR_COLLECTION"}
    [] status = "READY_FOR_COLLECTION" -> {"COLLECTED"}
    [] OTHER                           -> {}

ShipmentStatus == {"NONE", "PENDING", "PROCESSING", "READY_FOR_DISPATCH",
                   "IN_TRANSIT", "READY_FOR_COLLECTION", "DELIVERED",
                   "CANCELLED", "RETURNED"}

\* createShipment inserts a shipment as PROCESSING: no shipment is ever PENDING.
ShipmentNext(status) ==
  CASE status = "NONE"                 -> {"PROCESSING"}
    [] status = "PENDING"              -> {"PROCESSING", "CANCELLED"}
    [] status = "PROCESSING"           -> {"READY_FOR_DISPATCH", "CANCELLED"}
    [] status = "READY_FOR_DISPATCH"   -> {"IN_TRANSIT"}
    [] status = "IN_TRANSIT"           -> {"PROCESSING", "READY_FOR_COLLECTION",
                                           "RETURNED"}
    [] status = "READY_FOR_COLLECTION" -> {"DELIVERED"}
    [] OTHER                           -> {}

Live(statuses) == statuses \ {"CANCELLED", "RETURNED"}

TargetSomeReady(statuses) ==
  LET live == Live(statuses)
  IN  CASE live = {}                        -> "NONE"
        [] live = {"COLLECTED"}             -> "DELIVERED"
        [] "READY_FOR_COLLECTION" \in live  -> "READY_FOR_COLLECTION"
        [] "IN_TRANSIT" \in live            -> "IN_TRANSIT"
        [] "READY_FOR_DISPATCH" \in live    -> "READY_FOR_DISPATCH"
        [] OTHER                            -> "NONE"

\* What the parcels say of their shipment; "NONE" when they say nothing.
Target(statuses) ==
  LET live == Live(statuses)
  IN  CASE live = {}                       -> "NONE"
        [] live = {"COLLECTED"}            -> "DELIVERED"
        [] live = {"READY_FOR_COLLECTION"} -> "READY_FOR_COLLECTION"
        [] "IN_TRANSIT" \in live           -> "IN_TRANSIT"
        [] live = {"READY_FOR_DISPATCH"}   -> "READY_FOR_DISPATCH"
        [] OTHER                           -> "NONE"

\* recalculateStatus: the derived status, kept only when the lifecycle has it.
Recalculated(status, statuses) ==
  IF Target(statuses) \in ShipmentNext(status) THEN Target(statuses) ELSE "NONE"

\* The invoice of a shipment as far as cancelling and handing over look at it;
\* the sweep to OVERDUE and the amounts are Billing's.
InvoiceStatus == {"NONE", "UNPAID", "PARTIALLY_PAID", "PAID", "CANCELLED"}
Payable == {"UNPAID", "PARTIALLY_PAID"}
=============================================================================
