-------------------------------- MODULE Billing --------------------------------
(***************************************************************************)
(* The billing module: invoices raised with a running number, payments     *)
(* taken at several counters, cancellation, and the nightly sweep.         *)
(*                                                                         *)
(* Unlike the other modules Billing reads through its own transaction      *)
(* (Prisma): what is committed when the statement runs, and its own        *)
(* writes.  The invoice is read first and the payments are summed by a     *)
(* later statement, so the two need not be of one moment; the version in   *)
(* the last update decides.                                                *)
(*                                                                         *)
(*   pay, cancel:  idle --Load--> loaded --Collect | Void--> decided       *)
(*                      --UpdateInvoice--> written --Commit--> idle        *)
(*   issue:        idle --TakeNumber--> written --Commit--> idle           *)
(***************************************************************************)
EXTENDS Naturals, FiniteSets

CONSTANTS
  Shipment,        \* shipments to bill: an invoice is unique per shipment
  Request,         \* concurrent requests
  Total,           \* invoice totals calculateTotal may yield, in cents
  Minimum,         \* minimumPaymentAmount of the currency, in cents
  MaxVersion       \* bound: no payment or cancellation starts on this version

ASSUME ShipmentAssumption == Shipment # {}
ASSUME TotalAssumption == Total \subseteq Nat
ASSUME MinimumAssumption == Minimum \in Nat
ASSUME BoundAssumption == MaxVersion \in Nat

VARIABLES
  invoices,        \* table invoice: status, version, total, number, past its due date
  collected,       \* table payment: sum of the COMPLETED rows of an invoice
  counter,         \* table invoice_counter: last_number of the tenant and year
  tx               \* the request's open transaction

vars == <<invoices, collected, counter, tx>>

-----------------------------------------------------------------------------
(* Invoices and transactions *)

InvoiceStatus == {"NONE", "UNPAID", "PARTIALLY_PAID", "PAID", "OVERDUE", "CANCELLED"}

\* ALLOWED_TRANSITIONS of Invoice.
InvoiceNext(status) ==
  CASE status = "UNPAID"         -> {"PARTIALLY_PAID", "PAID", "OVERDUE", "CANCELLED"}
    [] status = "PARTIALLY_PAID" -> {"PAID", "OVERDUE", "CANCELLED"}
    [] status = "OVERDUE"        -> {"PARTIALLY_PAID", "PAID", "CANCELLED"}
    [] status = "PAID"           -> {"CANCELLED"}
    [] OTHER                     -> {}

InvoiceRow == [status: InvoiceStatus, version: Nat, total: Nat, number: Nat,
               due: BOOLEAN]

NoInvoice == [status |-> "NONE", version |-> 0, total |-> 0, number |-> 0, due |-> FALSE]

Transaction ==
  [phase: {"idle", "loaded", "decided", "written"},
   op: {"issue", "pay", "cancel"},
   shipment: Shipment,
   seen: InvoiceRow,          \* the aggregate as loaded, or the row to insert
   amount: Nat,               \* payment inserted by this transaction
   status: InvoiceStatus]     \* status decided for the invoice

Idle == [phase |-> "idle", op |-> "pay", shipment |-> CHOOSE s \in Shipment : TRUE,
         seen |-> NoInvoice, amount |-> 0, status |-> "NONE"]

Others(r) == Request \ {r}

Lesser(a, b) == IF a <= b THEN a ELSE b

AcceptsUncapped(row, paid, amount) ==
  /\ row.status \notin {"PAID", "CANCELLED"}
  /\ amount \in Minimum .. row.total - paid
  /\ amount > 0

AcceptsOneOver(row, paid, amount) ==
  /\ row.status \notin {"PAID", "CANCELLED"}
  /\ row.total > paid
  /\ amount \in Lesser(Minimum, row.total - paid) .. row.total - paid + 1
  /\ amount > 0

\* assertAcceptsPayment: not more than what is left, and not less than the
\* minimum of the currency unless that is all that is left.
Accepts(row, paid, amount) ==
  /\ row.status \notin {"PAID", "CANCELLED"}
  /\ row.total > paid
  /\ amount \in Lesser(Minimum, row.total - paid) .. row.total - paid
  /\ amount > 0

\* applyPaidTotal.
AfterPayment(row, paid) == IF paid = row.total THEN "PAID" ELSE "PARTIALLY_PAID"

InvoiceGuardAnyVersion(r) == invoices[tx[r].shipment].status # "NONE"

\* updateMany found its row: the version is still the one loaded.
InvoiceGuard(r) == invoices[tx[r].shipment].version = tx[r].seen.version

\* Rows a transaction has updated and holds until it ends.
LocksInvoice(r, s) == /\ tx[r].phase = "written"
                      /\ tx[r].op # "issue"
                      /\ tx[r].shipment = s

LocksCounterNever(r) == FALSE

LocksCounter(r) == tx[r].phase = "written" /\ tx[r].op = "issue"

-----------------------------------------------------------------------------
(* Actions *)

Init ==
  /\ invoices = [s \in Shipment |-> NoInvoice]
  /\ collected = [s \in Shipment |-> 0]
  /\ counter = 0
  /\ tx = [r \in Request |-> Idle]

NewInvoice(total) ==
  [status |-> "UNPAID", version |-> 1, total |-> total, number |-> counter + 1,
   due |-> FALSE]

\* createForShipment, in the transaction that creates the shipment: nothing else
\* can be billing it.  The upsert on the counter row serialises the issuers.
TakeNumber(r, s, total) ==
  /\ tx[r].phase = "idle"
  /\ invoices[s].status = "NONE"
  /\ \A q \in Others(r) : /\ ~LocksCounter(q)
                          /\ ~(tx[q].op = "issue" /\ tx[q].shipment = s)
  /\ tx' = [tx EXCEPT ![r] =
              [Idle EXCEPT !.phase = "written", !.op = "issue", !.shipment = s,
                 !.seen = NewInvoice(total)]]
  /\ UNCHANGED <<invoices, collected, counter>>

\* findAggregateById or findAggregateByShipmentId.
Load(r, op, s) ==
  /\ tx[r].phase = "idle"
  /\ invoices[s].version \in 1 .. MaxVersion - 1
  /\ tx' = [tx EXCEPT ![r] = [Idle EXCEPT !.phase = "loaded", !.op = op,
                                !.shipment = s, !.seen = invoices[s]]]
  /\ UNCHANGED <<invoices, collected, counter>>

\* collectAgainst: the payments are summed, the aggregate asked, and the payment
\* inserted.
Collect(r, amount) ==
  LET t == tx[r]
  IN
  /\ t.phase = "loaded"
  /\ t.op = "pay"
  /\ Accepts(t.seen, collected[t.shipment], amount)
  /\ LET status == AfterPayment(t.seen, collected[t.shipment] + amount)
     IN  /\ status \in {t.seen.status} \cup InvoiceNext(t.seen.status)
         /\ tx' = [tx EXCEPT ![r].phase = "decided", ![r].amount = amount,
                             ![r].status = status]
  /\ UNCHANGED <<invoices, collected, counter>>

\* cancelForShipment.  It refuses once money was taken: the refund it knows is
\* for PENDING shipments, and createShipment begins a shipment at PROCESSING.
Void(r) ==
  LET t == tx[r]
  IN
  /\ t.phase = "loaded"
  /\ t.op = "cancel"
  /\ "CANCELLED" \in InvoiceNext(t.seen.status)
  /\ collected[t.shipment] = 0
  /\ tx' = [tx EXCEPT ![r].phase = "decided", ![r].status = "CANCELLED"]
  /\ UNCHANGED <<invoices, collected, counter>>

\* The guarded update, even when the status stays as it is.
UpdateInvoice(r) ==
  /\ tx[r].phase = "decided"
  /\ \A q \in Others(r) : ~LocksInvoice(q, tx[r].shipment)
  /\ InvoiceGuard(r)
  /\ tx' = [tx EXCEPT ![r].phase = "written"]
  /\ UNCHANGED <<invoices, collected, counter>>

Commit(r) ==
  LET t == tx[r]
      s == t.shipment
  IN
  /\ t.phase = "written"
  /\ IF t.op = "issue"
     THEN /\ invoices' = [invoices EXCEPT ![s] = t.seen]
          /\ counter' = t.seen.number
          /\ UNCHANGED collected
     ELSE /\ invoices' = [invoices EXCEPT ![s].status = t.status, ![s].version = @ + 1]
          /\ collected' = [collected EXCEPT ![s] = @ + t.amount]
          /\ UNCHANGED counter
  /\ tx' = [tx EXCEPT ![r] = Idle]

\* A refusal, a conflict, a timeout or a lost connection.
RollBack(r) ==
  /\ tx[r].phase # "idle"
  /\ tx' = [tx EXCEPT ![r] = Idle]
  /\ UNCHANGED <<invoices, collected, counter>>

\* Time passes the due date of an invoice.
DueDatePasses(s) ==
  /\ invoices[s].status # "NONE"
  /\ ~invoices[s].due
  /\ invoices' = [invoices EXCEPT ![s].due = TRUE]
  /\ UNCHANGED <<collected, counter, tx>>

SweepablePartly == {"PARTIALLY_PAID"}

Sweepable == {"UNPAID", "PARTIALLY_PAID"}

Swept(row) == [row EXCEPT !.status = "OVERDUE", !.version = @ + 1]

\* markOverdueBefore, one row of its statement.  It names no version: it waits for
\* the row and looks at the status again.
Sweep(s) ==
  /\ invoices[s].due
  /\ invoices[s].status \in Sweepable
  /\ invoices[s].version < MaxVersion
  /\ \A r \in Request : ~LocksInvoice(r, s)
  /\ invoices' = [invoices EXCEPT ![s] = Swept(@)]
  /\ UNCHANGED <<collected, counter, tx>>

Next ==
  \/ \E s \in Shipment : DueDatePasses(s) \/ Sweep(s)
  \/ \E r \in Request :
       \/ \E s \in Shipment, total \in Total : TakeNumber(r, s, total)
       \/ \E op \in {"pay", "cancel"}, s \in Shipment : Load(r, op, s)
       \/ \E amount \in 1 .. invoices[tx[r].shipment].total : Collect(r, amount)
       \/ Void(r)
       \/ UpdateInvoice(r)
       \/ Commit(r)
       \/ RollBack(r)

Spec == Init /\ [][Next]_vars

\* The job runs every night and a sweep that failed is tried again the next one;
\* row locks queue, so a payment that keeps coming cannot keep the sweep out.  An
\* open transaction ends: Prisma times it out.
FairSpec ==
  /\ Spec
  /\ \A s \in Shipment : SF_vars(Sweep(s))
  /\ \A r \in Request : WF_vars(tx[r].phase = "written" /\ (Commit(r) \/ RollBack(r)))

-----------------------------------------------------------------------------
(* Properties *)

\* Tables and transactions keep their types, and an invoice that exists has a
\* version and a number.
TypeOK ==
  /\ invoices \in [Shipment -> InvoiceRow]
  /\ collected \in [Shipment -> Nat]
  /\ counter \in Nat
  /\ tx \in [Request -> Transaction]
  /\ \A s \in Shipment : invoices[s].status # "NONE"
                           => invoices[s].version > 0 /\ invoices[s].number > 0

\* The status of an invoice says how much money it holds, however the counters,
\* a cancellation and the sweep interleave: the delivery gate reads the status,
\* the accounts read the payments.
StatusIsTheMoney ==
  \A s \in Shipment :
    LET i == invoices[s]
    IN  /\ collected[s] <= i.total
        /\ i.status = "PAID" <=> i.total > 0 /\ collected[s] = i.total
        /\ i.status \in {"NONE", "UNPAID", "CANCELLED"} => collected[s] = 0
        /\ i.status = "PARTIALLY_PAID" => collected[s] > 0

\* Invoice numbers run without a gap and without a repetition, through
\* transactions that give theirs back.
Gapless ==
  LET issued == {s \in Shipment : invoices[s].status # "NONE"}
  IN  {invoices[s].number : s \in issued} = 1 .. Cardinality(issued)

\* What is left of an invoice can always be paid in one go: the currency's minimum
\* never strands a remainder.
RemainderIsAccepted ==
  \A s \in Shipment :
    LET i == invoices[s]
        left == i.total - collected[s]
    IN  i.status \in {"UNPAID", "PARTIALLY_PAID", "OVERDUE"} /\ left > 0
          => Accepts(i, collected[s], left)

\* An invoice past its due date does not keep reading UNPAID.
DueIsNoticed ==
  \A s \in Shipment :
    (invoices[s].due /\ invoices[s].status = "UNPAID")
      ~> (invoices[s].status # "UNPAID" \/ invoices[s].version >= MaxVersion)

Account == INSTANCE InvoiceAccount WITH
             status <- [s \in Shipment |-> invoices[s].status],
             owed   <- [s \in Shipment |-> invoices[s].total]

\* No interleaving shows a change of an invoice that one payment, one
\* cancellation or the sweep alone could not have made.
ImplementsAccount == Account!Spec
=============================================================================
