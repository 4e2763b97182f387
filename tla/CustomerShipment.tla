--------------------------- MODULE CustomerShipment ---------------------------
(***************************************************************************)
(* The customer-shipment module: parcels, the shipment they belong to, its *)
(* invoice as far as cancelling and handing over depend on it, and proofs  *)
(* of delivery, changed by concurrent requests.                            *)
(*                                                                         *)
(* A request runs a command in the order of the code.  Aggregates are      *)
(* read through Kysely, on a connection of its own pool: a read sees what  *)
(* is committed, never what the request's own transaction has written.     *)
(* Writes go through the Prisma transaction: they take row locks, are      *)
(* guarded by the version the aggregate was loaded with, and show when the *)
(* transaction commits.  So the committed tables are the state, and an     *)
(* open transaction is the command, what it has read, and what it is going *)
(* to write.                                                               *)
(*                                                                         *)
(*   idle --Load--> loaded --WriteParcels--> written --ReadStatuses-->     *)
(*   derived --WriteShipments--> ready --Commit--> idle                    *)
(*                                                                         *)
(* Any step may instead be a RollBack: a refused rule, a version conflict, *)
(* a transaction timeout or a lost connection.                             *)
(***************************************************************************)
EXTENDS Naturals, Sequences, ShipmentLifecycle

CONSTANTS
  Parcel,          \* parcel ids
  Shipment,        \* shipment ids
  ShipmentOf,      \* customer_shipment_id of each parcel
  Unit,            \* organization units
  Origin,          \* the unit where a parcel is handed in
  Destination,     \* destination_org_unit_id of every parcel
  Request,         \* concurrent requests
  MaxVersion       \* bound: no command starts on a row that reached it

\* The commands that something calls: the routes of updateStatus and of
\* markReadyForDispatch are commented out, so parcels are made ready by Fleet's
\* bulk call alone, and none is ever RETURNED.
Commands == {"receive", "bulkReady", "pickUp", "dropOff", "deliver", "cancel"}

ASSUME ShipmentOfAssumption == ShipmentOf \in [Parcel -> Shipment]
ASSUME UnitAssumption == /\ Origin \in Unit
                         /\ Destination \in Unit
                         /\ Origin # Destination
ASSUME MaxVersionAssumption == MaxVersion \in Nat

VARIABLES
  parcels,         \* table parcel: status, unit, version
  shipments,       \* table customer_shipment: status, version
  invoices,        \* table invoice, one per shipment: its status
  pods,            \* table proof_of_delivery (unique on parcel_id)
  movements,       \* table parcel_movement, append only
  tx               \* the request's command and its open transaction

vars == <<parcels, shipments, invoices, pods, movements, tx>>

-----------------------------------------------------------------------------
(* Rows, commands and transactions *)

ParcelRow == [status: ParcelStatus, unit: Unit, version: Nat]
ShipmentRow == [status: ShipmentStatus, version: Nat]
Movement == [from: ParcelStatus, to: ParcelStatus]

NoParcel == [status |-> "NONE", unit |-> Origin, version |-> 0]
NoShipment == [status |-> "NONE", version |-> 0]

\* A command names its parcels (or the shipment it cancels), the unit of a drop-off,
\* and whether money comes with a delivery.
Command == [op: Commands, parcels: SUBSET Parcel, shipments: SUBSET Shipment,
            unit: Unit, pays: BOOLEAN]

Phase == {"idle", "loaded", "written", "derived", "ready"}

Transaction ==
  [phase: Phase, cmd: Command,
   seen: [Parcel -> ParcelRow],          \* parcel aggregates as loaded
   read: [Shipment -> ShipmentRow],      \* shipment aggregates as loaded
   plan: [Shipment -> ShipmentStatus],   \* shipment status to write, if any
   bill: InvoiceStatus]                  \* invoice status to write, if any

NoCommand == [op |-> "receive", parcels |-> {}, shipments |-> {},
              unit |-> Origin, pays |-> FALSE]

Idle == [phase |-> "idle", cmd |-> NoCommand,
         seen |-> [p \in Parcel |-> NoParcel],
         read |-> [s \in Shipment |-> NoShipment],
         plan |-> [s \in Shipment |-> "NONE"],
         bill |-> "NONE"]

Touched(c) == c.shipments \cup {ShipmentOf[p] : p \in c.parcels}

\* Proof for a parcel that was already collected is paperwork: it moves nothing.
\* (No command that is exposed collects a parcel without its proof, so no request
\* gets here; the branch is the code's.)
CatchUp(t) == /\ t.cmd.op = "deliver"
              /\ \A p \in t.cmd.parcels : t.seen[p].status = "COLLECTED"

Moved(t) == IF CatchUp(t) THEN {} ELSE t.cmd.parcels

\* The status a parcel command asks for, given the aggregate it loaded.
Wanted(c, row) ==
  CASE c.op = "receive"      -> IF row.unit = Destination
                                THEN "READY_FOR_COLLECTION" ELSE "PROCESSING"
    [] c.op = "bulkReady"    -> "READY_FOR_DISPATCH"
    [] c.op = "pickUp"       -> "IN_TRANSIT"
    [] c.op = "dropOff"      -> "ARRIVED_AT_UNIT"
    [] OTHER                 -> "COLLECTED"

\* The rule of the aggregate the command calls.  receive refuses a parcel that
\* is not ARRIVED_AT_UNIT, the rest is transitionTo.
RuleHolds(c, row) == /\ c.op = "receive" => row.status = "ARRIVED_AT_UNIT"
                     /\ Wanted(c, row) \in ParcelNext(row.status)

NewRowAsPlanned(c, row, old) ==
  [status  |-> IF Wanted(c, row) = "READY_FOR_COLLECTION"
               THEN "AT_DESTINATION" ELSE Wanted(c, row),
   unit    |-> IF c.op = "dropOff" THEN c.unit ELSE row.unit,
   version |-> old.version + 1]

\* The row written.  Only the guarded updateStatus of the repository writes the
\* unit back.
NewRow(c, row, old) ==
  [status  |-> Wanted(c, row),
   unit    |-> CASE c.op = "dropOff" -> c.unit
                 [] c.op \in {"bulkReady", "deliver"} -> old.unit
                 [] OTHER -> row.unit,
   version |-> old.version + 1]

ParcelGuardIgnoringVersion(t, p) == parcels[p].status # "NONE"

ShipmentGuardIgnoringVersion(t, s) == shipments[s].status # "NONE"

\* updateMany matched the row: its version is still the one loaded.  The bulk
\* update names ids only.
ParcelGuard(t, p) == \/ t.cmd.op = "bulkReady"
                     \/ parcels[p].version = t.seen[p].version

ShipmentGuard(t, s) == shipments[s].version = t.read[s].version

LockedParcels(r) ==
  IF tx[r].phase \in {"written", "derived", "ready"} THEN Moved(tx[r]) ELSE {}

LockedShipments(r) ==
  IF tx[r].phase = "ready" THEN {s \in Shipment : tx[r].plan[s] # "NONE"} ELSE {}

LockedInvoices(r) == IF tx[r].bill # "NONE" THEN Touched(tx[r].cmd) ELSE {}

Others(r) == Request \ {r}

-----------------------------------------------------------------------------
(* Actions *)

Init ==
  /\ parcels = [p \in Parcel |-> NoParcel]
  /\ shipments = [s \in Shipment |-> NoShipment]
  /\ invoices = [s \in Shipment |-> "NONE"]
  /\ pods = {}
  /\ movements = [p \in Parcel |-> <<>>]
  /\ tx = [r \in Request |-> Idle]

\* createShipment: the shipment, its parcels and its invoice are inserted by one
\* transaction nothing else can see or touch before it commits.
CreateShipment(s) ==
  /\ shipments[s].status = "NONE"
  /\ shipments' = [shipments EXCEPT ![s] = [status |-> "PROCESSING", version |-> 1]]
  /\ parcels' = [p \in Parcel |->
                   IF ShipmentOf[p] = s
                   THEN [status |-> "PROCESSING", unit |-> Origin, version |-> 1]
                   ELSE parcels[p]]
  /\ invoices' = [invoices EXCEPT ![s] = "UNPAID"]
  /\ UNCHANGED <<pods, movements, tx>>

\* recordPayment at the counter.  Its own optimistic locking is Billing's
\* subject; here it is one committed step that part-pays or settles an invoice.
RecordPayment(s) ==
  /\ invoices[s] \in Payable
  /\ \A r \in Request : s \notin LockedInvoices(r)
  /\ \E status \in {"PARTIALLY_PAID", "PAID"} :
       invoices' = [invoices EXCEPT ![s] = status]
  /\ UNCHANGED <<parcels, shipments, pods, movements, tx>>

\* Parcels are named one by one, except by the bulk dispatch.
ParcelCommand ==
  LET One == {{p} : p \in Parcel}
  IN  [op: {"receive", "pickUp"}, parcels: One, shipments: {{}}, unit: {Origin}, pays: {FALSE}]
      \cup
      [op: {"dropOff"}, parcels: One, shipments: {{}}, unit: Unit, pays: {FALSE}]
      \cup
      [op: {"deliver"}, parcels: One, shipments: {{}}, unit: {Origin}, pays: BOOLEAN]
      \cup
      [op: {"bulkReady"}, parcels: (SUBSET Parcel) \ {{}}, shipments: {{}},
       unit: {Origin}, pays: {FALSE}]

\* The aggregate is read and the first rule applied before anything is written:
\* a command its rule refuses is never begun.  recordDelivery also looks for an
\* existing proof, and accepts a parcel that is already collected.
LoadParcels(r, c) ==
  /\ tx[r].phase = "idle"
  /\ \A p \in c.parcels :
       /\ parcels[p].version \in 1 .. MaxVersion - 1
       /\ IF c.op = "deliver"
          THEN /\ p \notin pods
               /\ parcels[p].status \in {"READY_FOR_COLLECTION", "COLLECTED"}
          ELSE RuleHolds(c, parcels[p])
  /\ tx' = [tx EXCEPT ![r] =
              [Idle EXCEPT !.phase = "loaded", !.cmd = c,
                 !.seen = [p \in Parcel |->
                             IF p \in c.parcels THEN parcels[p] ELSE NoParcel]]]
  /\ UNCHANGED <<parcels, shipments, invoices, pods, movements>>

SettlesAnyInvoice(r, s) ==
  /\ \A q \in Others(r) : s \notin LockedInvoices(q)
  /\ tx[r].cmd.pays \/ invoices[s] = "PAID"

SettlesInPart(r, s) ==
  /\ \A q \in Others(r) : s \notin LockedInvoices(q)
  /\ IF tx[r].cmd.pays THEN invoices[s] \in Payable
                       ELSE invoices[s] \in {"PARTIALLY_PAID", "PAID"}

\* recordDelivery's billing gate: a payment that came with the request settles
\* the invoice first, and the proof needs it PAID.  Yields the invoice status
\* to write.
Settles(r, s) ==
  /\ \A q \in Others(r) : s \notin LockedInvoices(q)
  /\ IF tx[r].cmd.pays THEN invoices[s] \in Payable
                       ELSE invoices[s] = "PAID"

\* The guarded parcel update (or the bulk one), then the shipment aggregate is
\* read.  A row another transaction holds makes this one wait.
WriteParcels(r) ==
  LET t == tx[r]
      c == t.cmd
  IN
  /\ t.phase = "loaded"
  /\ c.op # "cancel"
  /\ c.op = "deliver" => \A p \in c.parcels : Settles(r, ShipmentOf[p])
  /\ \A p \in Moved(t) :
       /\ \A q \in Others(r) : p \notin LockedParcels(q)
       /\ ParcelGuard(t, p)
  /\ tx' = [tx EXCEPT ![r] =
              [t EXCEPT !.phase = IF CatchUp(t) THEN "ready" ELSE "written",
                        !.bill  = IF c.pays THEN "PAID" ELSE "NONE",
                        !.read  = [s \in Shipment |->
                                     IF s \in Touched(c) /\ ~CatchUp(t)
                                     THEN shipments[s] ELSE NoShipment]]]
  /\ UNCHANGED <<parcels, shipments, invoices, pods, movements>>

\* recalculateFromParcels reads the statuses of the parcels -- the committed
\* ones -- and the aggregate derives the shipment status.
ReadStatuses(r) ==
  LET t == tx[r]
  IN
  /\ t.phase = "written"
  /\ tx' = [tx EXCEPT ![r] =
              [t EXCEPT !.phase = "derived",
                        !.plan  = [s \in Shipment |->
                          IF s \in Touched(t.cmd)
                          THEN Recalculated(t.read[s].status,
                                 {parcels[p].status : p \in
                                    {q \in Parcel : ShipmentOf[q] = s}})
                          ELSE "NONE"]]]
  /\ UNCHANGED <<parcels, shipments, invoices, pods, movements>>

\* The guarded shipment update.  (The DELIVERED event emitted after it pushes a
\* notification: no row changes.)
WriteShipments(r) ==
  LET t == tx[r]
      planned == {s \in Shipment : t.plan[s] # "NONE"}
  IN
  /\ t.phase = "derived"
  /\ \A s \in planned : /\ \A q \in Others(r) : s \notin LockedShipments(q)
                        /\ ShipmentGuard(t, s)
  /\ tx' = [tx EXCEPT ![r] = [t EXCEPT !.phase = "ready"]]
  /\ UNCHANGED <<parcels, shipments, invoices, pods, movements>>

\* cancelShipment loads the shipment and asks the aggregate.
LoadShipment(r, s) ==
  /\ tx[r].phase = "idle"
  /\ shipments[s].version \in 1 .. MaxVersion - 1
  /\ "CANCELLED" \in ShipmentNext(shipments[s].status)
  /\ tx' = [tx EXCEPT ![r] =
              [Idle EXCEPT !.phase = "loaded",
                 !.cmd = [NoCommand EXCEPT !.op = "cancel", !.shipments = {s}],
                 !.read = [u \in Shipment |->
                             IF u = s THEN shipments[s] ELSE NoShipment]]]
  /\ UNCHANGED <<parcels, shipments, invoices, pods, movements>>

\* The guarded shipment update, then the invoice is voided.  cancelForShipment
\* refuses once money was taken, because no shipment is ever PENDING, and has
\* nothing to do when the invoice is CANCELLED already.
CancelShipment(r) ==
  LET t == tx[r]
  IN
  /\ t.phase = "loaded"
  /\ t.cmd.op = "cancel"
  /\ \A s \in t.cmd.shipments :
       /\ \A q \in Others(r) : s \notin LockedShipments(q) \cup LockedInvoices(q)
       /\ ShipmentGuard(t, s)
       /\ invoices[s] \in {"UNPAID", "CANCELLED"}
  /\ tx' = [tx EXCEPT ![r] =
              [t EXCEPT !.phase = "ready",
                        !.plan  = [s \in Shipment |->
                                     IF s \in t.cmd.shipments THEN "CANCELLED"
                                                              ELSE "NONE"],
                        !.bill  = "CANCELLED"]]
  /\ UNCHANGED <<parcels, shipments, invoices, pods, movements>>

\* COMMIT: every write of the transaction shows at once.  The proof row is
\* unique per parcel: the second one to insert it fails instead.
Commit(r) ==
  LET t == tx[r]
      c == t.cmd
      proved == IF c.op = "deliver" THEN c.parcels ELSE {}
  IN
  /\ t.phase = "ready"
  /\ proved \cap pods = {}
  /\ parcels' = [p \in Parcel |->
                   IF p \in Moved(t) THEN NewRow(c, t.seen[p], parcels[p])
                                     ELSE parcels[p]]
  /\ movements' = [p \in Parcel |->
                     IF p \in Moved(t)
                     THEN Append(movements[p], [from |-> t.seen[p].status,
                                                to   |-> Wanted(c, t.seen[p])])
                     ELSE movements[p]]
  /\ shipments' = [s \in Shipment |->
                     IF t.plan[s] # "NONE"
                     THEN [status |-> t.plan[s], version |-> shipments[s].version + 1]
                     ELSE shipments[s]]
  /\ invoices' = [s \in Shipment |->
                    IF s \in LockedInvoices(r) THEN t.bill ELSE invoices[s]]
  /\ pods' = pods \cup proved
  /\ tx' = [tx EXCEPT ![r] = Idle]

\* A refusal, a version conflict, a timeout or a lost connection: the
\* transaction's writes are gone.
RollBack(r) ==
  /\ tx[r].phase # "idle"
  /\ tx' = [tx EXCEPT ![r] = Idle]
  /\ UNCHANGED <<parcels, shipments, invoices, pods, movements>>

Next ==
  \/ \E s \in Shipment : CreateShipment(s)
  \/ \E s \in Shipment : RecordPayment(s)
  \/ \E r \in Request :
       \/ \E c \in ParcelCommand : LoadParcels(r, c)
       \/ \E s \in Shipment : LoadShipment(r, s)
       \/ WriteParcels(r)
       \/ ReadStatuses(r)
       \/ WriteShipments(r)
       \/ CancelShipment(r)
       \/ Commit(r)
       \/ RollBack(r)

Spec == Init /\ [][Next]_vars

-----------------------------------------------------------------------------
(* Properties *)

TypeOK ==
  /\ parcels \in [Parcel -> ParcelRow]
  /\ shipments \in [Shipment -> ShipmentRow]
  /\ invoices \in [Shipment -> InvoiceStatus]
  /\ pods \subseteq Parcel
  /\ movements \in [Parcel -> Seq(Movement)]
  /\ tx \in [Request -> Transaction]

\* A dispatch that was written over a status other than the one it had read: it
\* names ids only, so a change committed in between is undone.
WrittenOver(p, i) == LET m == movements[p] IN
  /\ i > 1
  /\ m[i].from # m[i - 1].to
  /\ m[i].to = "READY_FOR_DISPATCH"

Overwritten(p) == \E i \in 1 .. Len(movements[p]) : WrittenOver(p, i)

\* No scan, hand-over or reception is lost to another, and none is written over
\* a dispatch it has not seen: the tracking history of a parcel is a chain of
\* status changes that ends at the status in the parcel table, one for each
\* version of the row, and breaks only where a dispatch wrote over what it had
\* not read.
JourneyIsTheParcel ==
  \A p \in Parcel :
    LET m == movements[p]
    IN  m # <<>> => /\ m[1].from = "PROCESSING"
                    /\ \A i \in 2 .. Len(m) : m[i].from = m[i - 1].to \/ WrittenOver(p, i)
                    /\ parcels[p].status = m[Len(m)].to
                    /\ parcels[p].version = Len(m) + 1

HasBeen(p, status) == \E i \in 1 .. Len(movements[p]) : movements[p][i].to = status

\* A proof of delivery stands for a parcel that was handed over, and stays so but
\* for a dispatch written over it, and for an invoice that was settled and stays
\* so, whatever ran at the same time.
ProofMeansSettledHandover ==
  \A p \in pods : /\ HasBeen(p, "COLLECTED")
                  /\ parcels[p].status = "COLLECTED" \/ Overwritten(p)
                  /\ invoices[ShipmentOf[p]] = "PAID"

\* A shipment and its invoice are cancelled together or not at all, though
\* counter payments, handovers and other cancellations race with it.
CancelledWithItsInvoice ==
  \A s \in Shipment : shipments[s].status = "CANCELLED" <=> invoices[s] = "CANCELLED"

ParcelsOf(s) == {p \in Parcel : ShipmentOf[p] = s}

\* The shipment never tells its customer more than its parcels did: it is in
\* transit only when a parcel was loaded, ready for collection only when every
\* parcel is there or was collected, and delivered when all were collected, but
\* for parcels that a dispatch written over them has taken back.
NeverAheadOfParcels ==
  \A s \in Shipment :
    /\ shipments[s].status = "IN_TRANSIT" =>
         \E p \in ParcelsOf(s) : HasBeen(p, "IN_TRANSIT")
    /\ shipments[s].status = "READY_FOR_COLLECTION" =>
         \A p \in ParcelsOf(s) :
           parcels[p].status \in {"READY_FOR_COLLECTION", "COLLECTED"} \/ Overwritten(p)
    /\ shipments[s].status = "DELIVERED" =>
         \A p \in ParcelsOf(s) : parcels[p].status = "COLLECTED" \/ Overwritten(p)

\* The status of a shipment moves only along its lifecycle, through every race
\* of scans, bulk dispatches and cancellations.
ShipmentStepAllowed ==
  [][\A s \in Shipment :
       shipments'[s].status # shipments[s].status =>
         shipments'[s].status \in ShipmentNext(shipments[s].status)]_vars

\* The tables change as if the commands ran one at a time, a dispatch excepted.
Ledger == INSTANCE ShipmentLedger WITH
            parcelStatus   <- [p \in Parcel |-> parcels[p].status],
            shipmentStatus <- [s \in Shipment |-> shipments[s].status],
            invoiceStatus  <- invoices,
            proofs         <- pods,
            journey        <- movements

\* The module implements the ledger: no interleaving of requests shows a change
\* that a single command could not have made where the tables then stood, but for
\* a dispatch, which the ledger lets land on a parcel in any status.
ImplementsLedger == Ledger!Spec

-----------------------------------------------------------------------------
(* What the documents and the comments say, and the code does not do *)

\* shipment-lifecycle.md: all live parcels COLLECTED, target DELIVERED.
CollectedIsDelivered ==
  (\A r \in Request : tx[r].phase = "idle") =>
    \A s \in Shipment :
      Live({parcels[p].status : p \in ParcelsOf(s)}) = {"COLLECTED"} =>
        shipments[s].status \in {"DELIVERED", "CANCELLED"}
=============================================================================
