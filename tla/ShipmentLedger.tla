---------------------------- MODULE ShipmentLedger ----------------------------
(***************************************************************************)
(* What the customer-shipment module promises, without requests,           *)
(* transactions or versions: the tables change as if one command ran at a  *)
(* time.  A command moves parcels by one edge of their lifecycle, writes   *)
(* one line in each parcel's journey, and takes a shipment along at most   *)
(* one edge of its own; money and proof are respected when it happens.     *)
(*                                                                         *)
(* One command promises less: a dispatch takes parcels that were sorted    *)
(* once, wherever they have got to since.                                  *)
(***************************************************************************)
EXTENDS Naturals, Sequences, ShipmentLifecycle

CONSTANTS
  Parcel,          \* parcel ids
  Shipment,        \* shipment ids
  ShipmentOf       \* the shipment of each parcel

VARIABLES
  parcelStatus,    \* status of each parcel
  shipmentStatus,  \* status of each shipment
  invoiceStatus,   \* status of the invoice of each shipment
  proofs,          \* parcels with a proof of delivery
  journey          \* status changes of each parcel, oldest first

ledger == <<parcelStatus, shipmentStatus, invoiceStatus, proofs, journey>>

Init ==
  /\ parcelStatus = [p \in Parcel |-> "NONE"]
  /\ shipmentStatus = [s \in Shipment |-> "NONE"]
  /\ invoiceStatus = [s \in Shipment |-> "NONE"]
  /\ proofs = {}
  /\ journey = [p \in Parcel |-> <<>>]

\* A shipment, its parcels and its invoice come into being together.
Open(s) ==
  /\ shipmentStatus[s] = "NONE"
  /\ shipmentStatus' = [shipmentStatus EXCEPT ![s] = "PROCESSING"]
  /\ parcelStatus' = [p \in Parcel |-> IF ShipmentOf[p] = s THEN "PROCESSING"
                                                            ELSE parcelStatus[p]]
  /\ invoiceStatus' = [invoiceStatus EXCEPT ![s] = "UNPAID"]
  /\ UNCHANGED <<proofs, journey>>

\* Money is taken while the invoice is open.
Pay(s) ==
  /\ invoiceStatus[s] \in Payable
  /\ \E status \in {"PARTIALLY_PAID", "PAID"} :
       invoiceStatus' = [invoiceStatus EXCEPT ![s] = status]
  /\ UNCHANGED <<parcelStatus, shipmentStatus, proofs, journey>>

\* A parcel takes an edge of its lifecycle, and its journey says so.
MoveParcel(p, to) ==
  /\ to \in ParcelNext(parcelStatus[p])
  /\ parcelStatus' = [parcelStatus EXCEPT ![p] = to]
  /\ journey' = [journey EXCEPT ![p] =
                   Append(@, [from |-> parcelStatus[p], to |-> to])]

\* The shipments whose parcels move stay or take an edge of their lifecycle.
Follow(S) ==
  \E next \in [S -> ShipmentStatus] :
    /\ \A s \in S : \/ next[s] = shipmentStatus[s]
                    \/ next[s] \in ShipmentNext(shipmentStatus[s]) \ {"CANCELLED"}
    /\ shipmentStatus' = [s \in Shipment |-> IF s \in S THEN next[s] ELSE shipmentStatus[s]]

\* A scan: received, loaded, dropped off.
Scan(p, to) ==
  /\ parcelStatus[p] # "NONE"
  /\ MoveParcel(p, to)
  /\ Follow({ShipmentOf[p]})
  /\ UNCHANGED <<invoiceStatus, proofs>>

\* A dispatch makes parcels ready that it takes to be PROCESSING still, whatever
\* their status is by now, and takes their shipments along.
Dispatch(ps) ==
  /\ \A p \in ps : parcelStatus[p] # "NONE"
  /\ parcelStatus' = [p \in Parcel |-> IF p \in ps THEN "READY_FOR_DISPATCH"
                                                    ELSE parcelStatus[p]]
  /\ journey' = [p \in Parcel |->
       IF p \in ps THEN Append(journey[p], [from |-> "PROCESSING", to |-> "READY_FOR_DISPATCH"])
                   ELSE journey[p]]
  /\ Follow({ShipmentOf[p] : p \in ps})
  /\ UNCHANGED <<invoiceStatus, proofs>>

\* Handing over: the invoice is settled, now or before, and the proof and the
\* collected parcel are recorded together.
HandOver(p) ==
  /\ p \notin proofs
  /\ parcelStatus[p] = "READY_FOR_COLLECTION"
  /\ MoveParcel(p, "COLLECTED")
  /\ Follow({ShipmentOf[p]})
  /\ invoiceStatus[ShipmentOf[p]] \in Payable \cup {"PAID"}
  /\ invoiceStatus' = [invoiceStatus EXCEPT ![ShipmentOf[p]] = "PAID"]
  /\ proofs' = proofs \cup {p}

\* Cancelling voids the invoice in the same step, and only an unpaid one.
Cancel(s) ==
  /\ "CANCELLED" \in ShipmentNext(shipmentStatus[s])
  /\ invoiceStatus[s] = "UNPAID"
  /\ shipmentStatus' = [shipmentStatus EXCEPT ![s] = "CANCELLED"]
  /\ invoiceStatus' = [invoiceStatus EXCEPT ![s] = "CANCELLED"]
  /\ UNCHANGED <<parcelStatus, proofs, journey>>

Next ==
  \/ \E s \in Shipment : Open(s) \/ Pay(s) \/ Cancel(s)
  \/ \E ps \in (SUBSET Parcel) \ {{}} : Dispatch(ps)
  \/ \E p \in Parcel : \/ \E to \in ParcelStatus : Scan(p, to)
                       \/ HandOver(p)

Spec == Init /\ [][Next]_ledger
=============================================================================
