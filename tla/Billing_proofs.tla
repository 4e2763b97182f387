---------------------------- MODULE Billing_proofs ----------------------------
(***************************************************************************)
(* Theorems about Billing, for any number of shipments and counters, any   *)
(* totals and any minimum payment.                                         *)
(*                                                                         *)
(* The invariant speaks of one row (RowOK), of one transaction and the row *)
(* it is about (TxOK), and of two transactions (Apart).  TxOK says nothing *)
(* of a transaction whose version has been overtaken: it can only fail.    *)
(***************************************************************************)
EXTENDS Billing, FiniteSetTheorems, TLAPS

Owing == {"UNPAID", "PARTIALLY_PAID", "OVERDUE"}

\* An invoice row i that holds the sum c.
RowOK(i, c) ==
  /\ i.status = "NONE" <=> i.version = 0
  /\ i.status = "NONE" => i.total = 0
  /\ i.status # "NONE" => i.total \in Total /\ i.number > 0
  /\ c <= i.total
  /\ i.status = "PAID" <=> i.total > 0 /\ c = i.total
  /\ i.status \in {"NONE", "UNPAID", "CANCELLED"} => c = 0
  /\ i.status = "PARTIALLY_PAID" => c > 0

\* A transaction t about the invoice row i that holds c; n is the counter.
TxOK(t, i, c, n) ==
  /\ t.phase # "idle" /\ t.op # "issue" =>
       /\ t.seen.version > 0
       /\ t.seen.version <= i.version
       /\ t.seen.version = i.version => /\ t.seen.status = i.status
                                        /\ t.seen.total = i.total
  /\ (/\ t.phase \in {"decided", "written"}
      /\ t.op # "issue"
      /\ t.seen.version = i.version) =>
       /\ i.status \in Owing
       /\ t.op = "pay" => /\ t.amount > 0
                          /\ c + t.amount <= i.total
                          /\ t.status = IF c + t.amount = i.total THEN "PAID"
                                                                  ELSE "PARTIALLY_PAID"
       /\ t.op = "cancel" => t.amount = 0 /\ c = 0 /\ t.status = "CANCELLED"
  /\ t.phase = "written" /\ t.op # "issue" => t.seen.version = i.version
  /\ t.phase = "loaded" /\ t.op = "cancel" => t.amount = 0
  /\ t.phase # "idle" /\ t.op = "issue" =>
       /\ t.phase = "written"
       /\ i.status = "NONE"
       /\ t.seen.status = "UNPAID"
       /\ t.seen.version = 1
       /\ t.seen.number = n + 1
       /\ t.seen.total \in Total

Apart(t, u) ==
  t.phase = "written" /\ u.phase = "written" =>
    /\ ~(t.op = "issue" /\ u.op = "issue")
    /\ t.op # "issue" /\ u.op # "issue" => t.shipment # u.shipment

TxInv(r) == TxOK(tx[r], invoices[tx[r].shipment], collected[tx[r].shipment], counter)

RowsInv == \A s \in Shipment : RowOK(invoices[s], collected[s])
TransactionsInv == \A r \in Request : TxInv(r)
ApartInv == \A q, r \in Request : q # r => Apart(tx[q], tx[r])

BillingInv == TypeOK /\ RowsInv /\ TransactionsInv /\ ApartInv

-----------------------------------------------------------------------------
(* Types *)

LEMMA IdleType == /\ NoInvoice \in InvoiceRow
                  /\ Idle \in Transaction
                  /\ Idle.phase = "idle"
<1>1. NoInvoice \in InvoiceRow
  BY DEF NoInvoice, InvoiceRow, InvoiceStatus
<1>. QED  BY <1>1, ShipmentAssumption DEF Idle, Transaction, InvoiceStatus

LEMMA TransactionFields ==
  ASSUME NEW t \in Transaction
  PROVE  /\ t.phase \in {"idle", "loaded", "decided", "written"}
         /\ t.op \in {"issue", "pay", "cancel"}
         /\ t.shipment \in Shipment
         /\ t.seen \in InvoiceRow
         /\ t.amount \in Nat
         /\ t.status \in InvoiceStatus
BY DEF Transaction

LEMMA InvoiceFields ==
  ASSUME NEW i \in InvoiceRow
  PROVE  /\ i.status \in InvoiceStatus
         /\ i.version \in Nat
         /\ i.total \in Nat
         /\ i.number \in Nat
         /\ i.due \in BOOLEAN
BY DEF InvoiceRow

\* The row an update leaves behind.
LEMMA UpdatedRow ==
  ASSUME NEW i \in InvoiceRow, NEW st \in InvoiceStatus
  PROVE  LET j == [i EXCEPT !.status = st, !.version = @ + 1]
         IN  /\ j \in InvoiceRow
             /\ j.status = st
             /\ j.version = i.version + 1
             /\ j.total = i.total
             /\ j.number = i.number
<1> DEFINE v == i.version + 1
           j == [i EXCEPT !.status = st, !.version = v]
<1>1. v \in Nat
  BY InvoiceFields
<1>. HIDE DEF v
<1>2. /\ j \in InvoiceRow
      /\ j.status = st
      /\ j.version = v
      /\ j.total = i.total
      /\ j.number = i.number
  BY <1>1 DEF InvoiceRow
<1>. QED  BY <1>2 DEF v

\* An idle transaction promises nothing.
LEMMA IdleIsOK ==
  ASSUME NEW i, NEW c, NEW n
  PROVE  TxOK(Idle, i, c, n)
BY IdleType DEF TxOK

\* Once the row has moved on, a transaction that has not written yet promises
\* nothing either: its version is old.
LEMMA OvertakenIsOK ==
  ASSUME NEW t \in Transaction, NEW i \in InvoiceRow, NEW j \in InvoiceRow,
         NEW c \in Nat, NEW d \in Nat, NEW n \in Nat, NEW k \in Nat,
         TxOK(t, i, c, n),
         j.version = i.version + 1,
         t.phase # "written",
         t.op = "issue" => t.phase = "idle"
  PROVE  TxOK(t, j, d, k)
BY TransactionFields, InvoiceFields DEF TxOK

\* A transaction's row may lie on another shipment, and the counter moves on
\* without it when it does not issue.
LEMMA CounterMovesOn ==
  ASSUME NEW t, NEW i, NEW c, NEW n, NEW k,
         TxOK(t, i, c, n), t.op = "issue" => t.phase = "idle"
  PROVE  TxOK(t, i, c, k)
BY DEF TxOK

-----------------------------------------------------------------------------
(* Each step preserves the invariant *)

LEMMA InitInv == Init => BillingInv
<1>. SUFFICES ASSUME Init PROVE BillingInv
  OBVIOUS
<1>1. TypeOK
  BY IdleType DEF Init, TypeOK, NoInvoice
<1>2. RowsInv
  BY DEF Init, RowsInv, RowOK, NoInvoice
<1>3. TransactionsInv
  BY IdleIsOK DEF Init, TransactionsInv, TxInv
<1>4. ApartInv
  BY IdleType DEF Init, ApartInv, Apart
<1>. QED  BY <1>1, <1>2, <1>3, <1>4 DEF BillingInv

\* A step of request r that leaves the tables alone keeps what it promises about
\* its own transaction apart, and nothing else changes.
LEMMA OwnStep ==
  ASSUME BillingInv, NEW r \in Request, NEW t \in Transaction,
         tx' = [tx EXCEPT ![r] = t],
         UNCHANGED <<invoices, collected, counter>>,
         TxOK(t, invoices[t.shipment], collected[t.shipment], counter),
         \A q \in Others(r) : Apart(tx[q], t) /\ Apart(t, tx[q])
  PROVE  BillingInv'
<1>1. TypeOK'
  BY DEF BillingInv, TypeOK
<1>2. tx'[r] = t /\ \A q \in Others(r) : tx'[q] = tx[q]
  BY DEF BillingInv, TypeOK, Others
<1>3. RowsInv'
  BY DEF BillingInv, RowsInv
<1>4. TransactionsInv'
  <2>. SUFFICES ASSUME NEW q \in Request PROVE TxInv(q)'
    BY DEF TransactionsInv
  <2>1. CASE q = r
    BY <1>2, <2>1 DEF TxInv
  <2>2. CASE q # r
    BY <1>2, <2>2 DEF BillingInv, TransactionsInv, TxInv, Others
  <2>. QED  BY <2>1, <2>2
<1>5. ApartInv'
  BY <1>2 DEF BillingInv, ApartInv, Others
<1>. QED  BY <1>1, <1>3, <1>4, <1>5 DEF BillingInv

\* What holds at the outset of every step.
LEMMA Known ==
  ASSUME BillingInv
  PROVE  /\ counter \in Nat
         /\ \A s \in Shipment : /\ invoices[s] \in InvoiceRow
                                /\ collected[s] \in Nat
                                /\ RowOK(invoices[s], collected[s])
         /\ \A r \in Request : tx[r] \in Transaction /\ TxInv(r)
BY DEF BillingInv, TypeOK, RowsInv, TransactionsInv

LEMMA TakeNumberInv ==
  ASSUME BillingInv, NEW r \in Request, NEW s \in Shipment, NEW total \in Total,
         TakeNumber(r, s, total)
  PROVE  BillingInv'
<1> DEFINE t == [Idle EXCEPT !.phase = "written", !.op = "issue", !.shipment = s,
                   !.seen = NewInvoice(total)]
<1>1. NewInvoice(total) \in InvoiceRow
  BY Known, TotalAssumption DEF NewInvoice, InvoiceRow, InvoiceStatus
<1>2. /\ t \in Transaction
      /\ t.phase = "written"
      /\ t.op = "issue"
      /\ t.shipment = s
      /\ t.seen = NewInvoice(total)
  BY <1>1, IdleType DEF Idle, Transaction
<1>3. TxOK(t, invoices[t.shipment], collected[t.shipment], counter)
  BY <1>2 DEF TakeNumber, TxOK, NewInvoice
<1>4. \A q \in Others(r) : Apart(tx[q], t) /\ Apart(t, tx[q])
  BY <1>2 DEF TakeNumber, Apart, LocksCounter
<1>5. tx' = [tx EXCEPT ![r] = t] /\ UNCHANGED <<invoices, collected, counter>>
  BY DEF TakeNumber
<1>. HIDE DEF t
<1>. QED  BY <1>2, <1>3, <1>4, <1>5, OwnStep

LEMMA LoadInv ==
  ASSUME BillingInv, NEW r \in Request, NEW op \in {"pay", "cancel"},
         NEW s \in Shipment, Load(r, op, s)
  PROVE  BillingInv'
<1> DEFINE t == [Idle EXCEPT !.phase = "loaded", !.op = op, !.shipment = s,
                   !.seen = invoices[s]]
<1>1. /\ t \in Transaction
      /\ t.phase = "loaded"
      /\ t.op = op
      /\ t.shipment = s
      /\ t.seen = invoices[s]
      /\ t.amount = 0
  BY Known, IdleType DEF Idle, Transaction
<1>2. invoices[s].version \in Nat /\ invoices[s].version > 0
  BY BoundAssumption DEF Load
<1>3. TxOK(t, invoices[t.shipment], collected[t.shipment], counter)
  BY <1>1, <1>2 DEF TxOK
<1>4. \A q \in Others(r) : Apart(tx[q], t) /\ Apart(t, tx[q])
  BY <1>1 DEF Apart
<1>5. tx' = [tx EXCEPT ![r] = t] /\ UNCHANGED <<invoices, collected, counter>>
  BY DEF Load
<1>. HIDE DEF t
<1>. QED  BY <1>1, <1>3, <1>4, <1>5, OwnStep

LEMMA CollectInv ==
  ASSUME BillingInv, NEW r \in Request, NEW amount \in Nat, Collect(r, amount)
  PROVE  BillingInv'
<1> DEFINE s == tx[r].shipment
           c == collected[s]
           st == AfterPayment(tx[r].seen, c + amount)
           t == [tx[r] EXCEPT !.phase = "decided", !.amount = amount, !.status = st]
<1>1. /\ tx[r] \in Transaction
      /\ tx[r].seen \in InvoiceRow
      /\ s \in Shipment
      /\ c \in Nat
      /\ invoices[s] \in InvoiceRow
      /\ RowOK(invoices[s], c)
      /\ TxOK(tx[r], invoices[s], c, counter)
  BY Known, TransactionFields DEF TxInv
<1>2. /\ tx[r].phase = "loaded"
      /\ tx[r].op = "pay"
      /\ Accepts(tx[r].seen, c, amount)
  BY DEF Collect
<1>3. st \in InvoiceStatus
  BY DEF AfterPayment, InvoiceStatus
<1>4. /\ t \in Transaction
      /\ t.phase = "decided"
      /\ t.op = "pay"
      /\ t.shipment = s
      /\ t.seen = tx[r].seen
      /\ t.amount = amount
      /\ t.status = st
  BY <1>1, <1>2, <1>3 DEF Transaction
<1>5. /\ amount > 0
      /\ tx[r].seen.status \notin {"PAID", "CANCELLED"}
      /\ c + amount <= tx[r].seen.total
  BY <1>1, <1>2, MinimumAssumption, InvoiceFields DEF Accepts, Lesser
<1>6. TxOK(t, invoices[s], c, counter)
  <2>1. /\ t.seen.version > 0
        /\ t.seen.version <= invoices[s].version
        /\ t.seen.version = invoices[s].version
             => /\ t.seen.status = invoices[s].status
                /\ t.seen.total = invoices[s].total
    BY <1>1, <1>2, <1>4 DEF TxOK
  <2>2. ASSUME t.seen.version = invoices[s].version
        PROVE  /\ invoices[s].status \in Owing
               /\ t.amount > 0
               /\ c + t.amount <= invoices[s].total
               /\ t.status = IF c + t.amount = invoices[s].total THEN "PAID"
                                                                 ELSE "PARTIALLY_PAID"
    <3>1. invoices[s].status # "NONE"
      BY <1>1, <2>1, <2>2, InvoiceFields DEF RowOK
    <3>2. invoices[s].status \in Owing
      BY <1>1, <1>4, <1>5, <2>1, <2>2, <3>1, InvoiceFields DEF Owing, InvoiceStatus
    <3>. QED  BY <1>4, <1>5, <2>1, <2>2, <3>2 DEF AfterPayment
  <2>. HIDE DEF t, st
  <2>. QED  BY <1>4, <2>1, <2>2 DEF TxOK
<1>7. \A q \in Others(r) : Apart(tx[q], t) /\ Apart(t, tx[q])
  BY <1>4 DEF Apart
<1>8. tx' = [tx EXCEPT ![r] = t] /\ UNCHANGED <<invoices, collected, counter>>
  BY DEF Collect, BillingInv, TypeOK
<1>. HIDE DEF t
<1>. QED  BY <1>4, <1>6, <1>7, <1>8, OwnStep

LEMMA VoidInv ==
  ASSUME BillingInv, NEW r \in Request, Void(r)
  PROVE  BillingInv'
<1> DEFINE s == tx[r].shipment
           t == [tx[r] EXCEPT !.phase = "decided", !.status = "CANCELLED"]
<1>1. /\ tx[r] \in Transaction
      /\ tx[r].seen \in InvoiceRow
      /\ s \in Shipment
      /\ collected[s] \in Nat
      /\ invoices[s] \in InvoiceRow
      /\ RowOK(invoices[s], collected[s])
      /\ TxOK(tx[r], invoices[s], collected[s], counter)
  BY Known, TransactionFields DEF TxInv
<1>2. /\ tx[r].phase = "loaded"
      /\ tx[r].op = "cancel"
      /\ "CANCELLED" \in InvoiceNext(tx[r].seen.status)
      /\ collected[s] = 0
  BY DEF Void
<1>3. /\ t \in Transaction
      /\ t.phase = "decided"
      /\ t.op = "cancel"
      /\ t.shipment = s
      /\ t.seen = tx[r].seen
      /\ t.amount = tx[r].amount
      /\ t.status = "CANCELLED"
  BY <1>1, <1>2 DEF Transaction, InvoiceStatus
<1>4. tx[r].seen.status \in {"UNPAID", "PARTIALLY_PAID", "OVERDUE", "PAID"}
  BY <1>2 DEF InvoiceNext
<1>5. TxOK(t, invoices[s], collected[s], counter)
  <2>1. /\ t.seen.version > 0
        /\ t.seen.version <= invoices[s].version
        /\ t.seen.version = invoices[s].version
             => /\ t.seen.status = invoices[s].status
                /\ t.seen.total = invoices[s].total
        /\ t.amount = 0
    BY <1>1, <1>2, <1>3 DEF TxOK
  <2>2. ASSUME t.seen.version = invoices[s].version
        PROVE  invoices[s].status \in Owing
    BY <1>1, <1>2, <1>3, <1>4, <2>1, <2>2, InvoiceFields DEF RowOK, Owing
  <2>. HIDE DEF t
  <2>. QED  BY <1>2, <1>3, <2>1, <2>2 DEF TxOK
<1>6. \A q \in Others(r) : Apart(tx[q], t) /\ Apart(t, tx[q])
  BY <1>3 DEF Apart
<1>7. tx' = [tx EXCEPT ![r] = t] /\ UNCHANGED <<invoices, collected, counter>>
  BY DEF Void, BillingInv, TypeOK
<1>. HIDE DEF t
<1>. QED  BY <1>3, <1>5, <1>6, <1>7, OwnStep

LEMMA UpdateInvoiceInv ==
  ASSUME BillingInv, NEW r \in Request, UpdateInvoice(r)
  PROVE  BillingInv'
<1> DEFINE t == [tx[r] EXCEPT !.phase = "written"]
           s == tx[r].shipment
<1>1. /\ tx[r] \in Transaction
      /\ TxOK(tx[r], invoices[s], collected[s], counter)
      /\ tx[r].phase = "decided"
      /\ invoices[s].version = tx[r].seen.version
  BY Known DEF TxInv, UpdateInvoice, InvoiceGuard
<1>2. /\ t \in Transaction
      /\ t.phase = "written"
      /\ t.op = tx[r].op
      /\ t.shipment = s
      /\ t.seen = tx[r].seen
      /\ t.amount = tx[r].amount
      /\ t.status = tx[r].status
  BY <1>1 DEF Transaction
<1>3. t.op # "issue"
  BY <1>1, <1>2 DEF TxOK
<1>4. TxOK(t, invoices[s], collected[s], counter)
  BY <1>1, <1>2, <1>3 DEF TxOK
<1>5. \A q \in Others(r) : Apart(tx[q], t) /\ Apart(t, tx[q])
  BY <1>2, <1>3 DEF Apart, UpdateInvoice, LocksInvoice
<1>6. tx' = [tx EXCEPT ![r] = t] /\ UNCHANGED <<invoices, collected, counter>>
  BY DEF UpdateInvoice, BillingInv, TypeOK
<1>. HIDE DEF t
<1>. QED  BY <1>2, <1>4, <1>5, <1>6, OwnStep

LEMMA RollBackInv ==
  ASSUME BillingInv, NEW r \in Request, RollBack(r)
  PROVE  BillingInv'
<1>1. TxOK(Idle, invoices[Idle.shipment], collected[Idle.shipment], counter)
  BY IdleIsOK
<1>2. \A q \in Others(r) : Apart(tx[q], Idle) /\ Apart(Idle, tx[q])
  BY IdleType DEF Apart
<1>. QED  BY <1>1, <1>2, IdleType, OwnStep DEF RollBack

LEMMA DueDatePassesInv ==
  ASSUME BillingInv, NEW s \in Shipment, DueDatePasses(s)
  PROVE  BillingInv'
<1>1. \A u \in Shipment :
        /\ invoices'[u] \in InvoiceRow
        /\ invoices'[u].status = invoices[u].status
        /\ invoices'[u].version = invoices[u].version
        /\ invoices'[u].total = invoices[u].total
        /\ invoices'[u].number = invoices[u].number
  BY Known DEF DueDatePasses, InvoiceRow, BillingInv, TypeOK
<1>2. TypeOK'
  <2>1. invoices' \in [Shipment -> InvoiceRow]
    BY <1>1 DEF DueDatePasses, BillingInv, TypeOK
  <2>. QED  BY <1>1, <2>1 DEF DueDatePasses, BillingInv, TypeOK
<1>3. RowsInv'
  BY <1>1 DEF DueDatePasses, BillingInv, RowsInv, RowOK
<1>4. TransactionsInv'
  <2>. SUFFICES ASSUME NEW q \in Request PROVE TxInv(q)'
    BY DEF TransactionsInv
  <2>1. tx[q].shipment \in Shipment /\ TxInv(q)
    BY Known, TransactionFields
  <2>. QED  BY <1>1, <2>1 DEF DueDatePasses, TxInv, TxOK
<1>5. ApartInv'
  BY DEF DueDatePasses, BillingInv, ApartInv
<1>. QED  BY <1>2, <1>3, <1>4, <1>5 DEF BillingInv

LEMMA SweepInv ==
  ASSUME BillingInv, NEW s \in Shipment, Sweep(s)
  PROVE  BillingInv'
<1> DEFINE j == Swept(invoices[s])
<1>1. /\ invoices[s] \in InvoiceRow
      /\ invoices[s].status \in {"UNPAID", "PARTIALLY_PAID"}
      /\ RowOK(invoices[s], collected[s])
      /\ collected[s] \in Nat
  BY Known DEF Sweep, Sweepable
<1>2. /\ j \in InvoiceRow
      /\ j.status = "OVERDUE"
      /\ j.version = invoices[s].version + 1
      /\ j.total = invoices[s].total
      /\ j.number = invoices[s].number
  BY <1>1, UpdatedRow DEF Swept, InvoiceStatus
<1>3. /\ invoices'[s] = j
      /\ \A u \in Shipment : u # s => invoices'[u] = invoices[u]
      /\ invoices' \in [Shipment -> InvoiceRow]
      /\ UNCHANGED <<collected, counter, tx>>
  BY <1>2 DEF Sweep, BillingInv, TypeOK
<1>. HIDE DEF j
<1>4. RowOK(j, collected[s])
  BY <1>1, <1>2, InvoiceFields DEF RowOK
<1>5. TypeOK'
  <2>1. j.version > 0 /\ j.number > 0
    BY <1>1, <1>2, InvoiceFields DEF RowOK
  <2>. QED  BY <1>3, <2>1 DEF BillingInv, TypeOK
<1>6. RowsInv'
  BY <1>3, <1>4 DEF BillingInv, RowsInv
<1>7. TransactionsInv'
  <2>. SUFFICES ASSUME NEW q \in Request PROVE TxInv(q)'
    BY DEF TransactionsInv
  <2>1. tx[q] \in Transaction /\ TxInv(q)
    BY Known
  <2>2. CASE tx[q].shipment # s
    BY <1>3, <2>1, <2>2, TransactionFields DEF TxInv
  <2>3. CASE tx[q].shipment = s
    <3>1. TxOK(tx[q], invoices[s], collected[s], counter)
      BY <2>1, <2>3 DEF TxInv
    <3>2. tx[q].op = "issue" => tx[q].phase = "idle"
      BY <1>1, <3>1 DEF TxOK
    <3>3. CASE tx[q].phase = "written" /\ tx[q].op # "issue"
      BY <2>3, <3>3 DEF Sweep, LocksInvoice
    <3>4. CASE tx[q].phase # "written"
      <4>1. counter \in Nat
        BY Known
      <4>2. TxOK(tx[q], j, collected[s], counter)
        BY <1>1, <1>2, <2>1, <3>1, <3>2, <3>4, <4>1, OvertakenIsOK
      <4>. QED  BY <1>3, <2>3, <4>2 DEF TxInv
    <3>. QED  BY <3>2, <3>3, <3>4
  <2>. QED  BY <2>2, <2>3
<1>8. ApartInv'
  BY <1>3 DEF BillingInv, ApartInv
<1>. QED  BY <1>5, <1>6, <1>7, <1>8 DEF BillingInv

\* What a transaction that is about to commit is about.
LEMMA AboutToCommit ==
  ASSUME BillingInv, NEW r \in Request, Commit(r)
  PROVE  LET t == tx[r]
             s == t.shipment
         IN  /\ t \in Transaction
             /\ t.phase = "written"
             /\ s \in Shipment
             /\ t.seen \in InvoiceRow
             /\ invoices[s] \in InvoiceRow
             /\ collected[s] \in Nat
             /\ RowOK(invoices[s], collected[s])
             /\ t.op = "issue" => /\ invoices[s].status = "NONE"
                                  /\ t.seen.status = "UNPAID"
                                  /\ t.seen.version = 1
                                  /\ t.seen.number = counter + 1
                                  /\ t.seen.total \in Total
             /\ t.op # "issue" =>
                  /\ invoices[s].status \in Owing
                  /\ t.op = "pay" => /\ t.amount > 0
                                     /\ collected[s] + t.amount <= invoices[s].total
                                     /\ t.status = IF collected[s] + t.amount = invoices[s].total
                                                   THEN "PAID" ELSE "PARTIALLY_PAID"
                  /\ t.op = "cancel" => /\ t.amount = 0
                                        /\ collected[s] = 0
                                        /\ t.status = "CANCELLED"
BY Known, TransactionFields DEF Commit, TxInv, TxOK

\* The row and the sum after a commit.
LEMMA AfterCommit ==
  ASSUME BillingInv, NEW r \in Request, Commit(r)
  PROVE  LET t == tx[r]
             s == t.shipment
             i == invoices[s]
             j == invoices'[s]
         IN  /\ j \in InvoiceRow
             /\ collected'[s] \in Nat
             /\ RowOK(j, collected'[s])
             /\ j.version = i.version + 1
             /\ \A u \in Shipment : u # s => /\ invoices'[u] = invoices[u]
                                             /\ collected'[u] = collected[u]
             /\ invoices' \in [Shipment -> InvoiceRow]
             /\ collected' \in [Shipment -> Nat]
             /\ counter' \in Nat
             /\ t.op # "issue" => counter' = counter
             /\ j.number > 0
<1> DEFINE t == tx[r]
           s == t.shipment
           i == invoices[s]
<1>1. /\ t \in Transaction
      /\ t.phase = "written"
      /\ s \in Shipment
      /\ t.seen \in InvoiceRow
      /\ i \in InvoiceRow
      /\ collected[s] \in Nat
      /\ RowOK(i, collected[s])
  BY AboutToCommit
<1>2. counter \in Nat /\ invoices \in [Shipment -> InvoiceRow] /\ collected \in [Shipment -> Nat]
  BY DEF BillingInv, TypeOK
<1>3. CASE t.op = "issue"
  <2>1. /\ i.status = "NONE"
        /\ t.seen.status = "UNPAID"
        /\ t.seen.version = 1
        /\ t.seen.number = counter + 1
        /\ t.seen.total \in Total
    BY <1>3, AboutToCommit
  <2>2. /\ invoices' = [invoices EXCEPT ![s] = t.seen]
        /\ counter' = t.seen.number
        /\ collected' = collected
    BY <1>3 DEF Commit
  <2>. HIDE DEF t
  <2>3. i.version = 0 /\ collected[s] = 0
    BY <1>1, <2>1 DEF RowOK
  <2>4. RowOK(t.seen, collected[s])
    BY <1>1, <1>2, <2>1, <2>3, TotalAssumption, InvoiceFields DEF RowOK
  <2>. QED  BY <1>1, <1>2, <1>3, <2>1, <2>2, <2>3, <2>4, InvoiceFields DEF t
<1>4. CASE t.op # "issue"
  <2> DEFINE j == [i EXCEPT !.status = t.status, !.version = @ + 1]
             d == collected[s] + t.amount
  <2>1. /\ i.status \in Owing
        /\ t.op = "pay" => /\ t.amount > 0
                           /\ d <= i.total
                           /\ t.status = IF d = i.total THEN "PAID" ELSE "PARTIALLY_PAID"
        /\ t.op = "cancel" => t.amount = 0 /\ collected[s] = 0 /\ t.status = "CANCELLED"
    BY <1>4, AboutToCommit
  <2>2. /\ invoices' = [invoices EXCEPT ![s] = j]
        /\ collected' = [collected EXCEPT ![s] = d]
        /\ counter' = counter
    BY <1>1, <1>2, <1>4 DEF Commit
  <2>3. /\ t.op \in {"pay", "cancel"}
        /\ t.amount \in Nat
        /\ t.status \in InvoiceStatus
    BY <1>1, <1>4, TransactionFields
  <2>4. /\ j \in InvoiceRow
        /\ j.status = t.status
        /\ j.version = i.version + 1
        /\ j.total = i.total
        /\ j.number = i.number
    BY <1>1, <2>3, UpdatedRow
  <2>5. d \in Nat
    BY <1>1, <2>3
  <2>. HIDE DEF j, t
  <2>6. RowOK(j, d)
    BY <1>1, <2>1, <2>3, <2>4, InvoiceFields DEF RowOK, Owing
  <2>7. i.number > 0
    BY <1>1, <2>1 DEF RowOK, Owing
  <2>. QED  BY <1>1, <1>2, <1>4, <2>2, <2>4, <2>5, <2>6, <2>7 DEF t
<1>. QED  BY <1>3, <1>4

LEMMA CommitInv ==
  ASSUME BillingInv, NEW r \in Request, Commit(r)
  PROVE  BillingInv'
<1> DEFINE s == tx[r].shipment
<1>1. /\ invoices'[s] \in InvoiceRow
      /\ collected'[s] \in Nat
      /\ RowOK(invoices'[s], collected'[s])
      /\ invoices'[s].version = invoices[s].version + 1
      /\ \A u \in Shipment : u # s => /\ invoices'[u] = invoices[u]
                                      /\ collected'[u] = collected[u]
      /\ invoices' \in [Shipment -> InvoiceRow]
      /\ collected' \in [Shipment -> Nat]
      /\ counter' \in Nat
      /\ tx[r].op # "issue" => counter' = counter
      /\ invoices'[s].number > 0
  BY AfterCommit
<1>2. /\ tx' = [tx EXCEPT ![r] = Idle]
      /\ tx[r].phase = "written"
      /\ s \in Shipment
      /\ invoices[s] \in InvoiceRow
      /\ collected[s] \in Nat
      /\ RowOK(invoices[s], collected[s])
      /\ tx[r].op = "issue" => invoices[s].status = "NONE"
      /\ tx[r].op # "issue" => invoices[s].status # "NONE"
  BY AboutToCommit DEF Commit, Owing
<1>3. tx'[r] = Idle /\ \A q \in Others(r) : tx'[q] = tx[q]
  BY <1>2 DEF BillingInv, TypeOK, Others
<1>4. TypeOK'
  <2>1. invoices[s].version \in Nat
    BY <1>2, InvoiceFields
  <2>. QED  BY <1>1, <1>2, <2>1, IdleType DEF BillingInv, TypeOK
<1>5. RowsInv'
  BY <1>1 DEF BillingInv, RowsInv
<1>6. TransactionsInv'
  <2>. SUFFICES ASSUME NEW q \in Request PROVE TxInv(q)'
    BY DEF TransactionsInv
  <2>1. CASE q = r
    BY <1>3, <2>1, IdleIsOK DEF TxInv
  <2>2. CASE q # r
    <3> DEFINE t == tx[q]
    <3>1. /\ t \in Transaction
          /\ t.shipment \in Shipment
          /\ TxOK(t, invoices[t.shipment], collected[t.shipment], counter)
          /\ Apart(tx[r], t)
          /\ tx'[q] = t
      BY <1>3, <2>2, Known, TransactionFields DEF TxInv, BillingInv, ApartInv, Others
    <3>. HIDE DEF t
    <3>2. t.op = "issue" /\ tx[r].op = "issue" => t.phase = "idle"
      BY <1>2, <3>1 DEF Apart, TxOK
    <3>3. CASE t.shipment # s
      <4>1. TxOK(t, invoices[t.shipment], collected[t.shipment], counter')
        BY <1>1, <3>1, <3>2, CounterMovesOn
      <4>. QED  BY <1>1, <3>1, <3>3, <4>1 DEF TxInv
    <3>4. CASE t.shipment = s
      <4>1. t.op = "issue" => t.phase = "idle"
        BY <1>2, <3>1, <3>2, <3>4 DEF TxOK
      <4>2. CASE t.phase # "written"
        <5>1. counter \in Nat
          BY Known
        <5>2. TxOK(t, invoices'[s], collected'[s], counter')
          BY <1>1, <1>2, <3>1, <3>4, <4>1, <4>2, <5>1, OvertakenIsOK
        <5>. QED  BY <3>1, <3>4, <5>2 DEF TxInv
      <4>3. CASE t.phase = "written"
        <5>1. t.op # "issue"
          BY <4>1, <4>3
        <5>2. tx[r].op = "issue"
          BY <1>2, <3>1, <3>4, <4>3, <5>1 DEF Apart
        <5>3. invoices[s].version = 0 /\ t.seen.version > 0 /\ t.seen.version <= 0
          BY <1>2, <3>1, <3>4, <4>3, <5>1, <5>2 DEF RowOK, TxOK
        <5>4. t.seen.version \in Nat
          BY <3>1, TransactionFields, InvoiceFields
        <5>. QED  BY <5>3, <5>4
      <4>. QED  BY <4>2, <4>3
    <3>. QED  BY <3>3, <3>4
  <2>. QED  BY <2>1, <2>2
<1>7. ApartInv'
  BY <1>3, IdleType DEF BillingInv, ApartInv, Apart, Others
<1>. QED  BY <1>4, <1>5, <1>6, <1>7 DEF BillingInv

LEMMA NextInv == BillingInv /\ [Next]_vars => BillingInv'
<1>. SUFFICES ASSUME BillingInv, [Next]_vars PROVE BillingInv'
  OBVIOUS
<1>1. CASE UNCHANGED vars
  BY <1>1 DEF vars, BillingInv, TypeOK, RowsInv, TransactionsInv, TxInv, ApartInv
<1>2. ASSUME NEW r \in Request, NEW amount \in 1 .. invoices[tx[r].shipment].total,
             Collect(r, amount)
      PROVE  BillingInv'
  <2>1. invoices[tx[r].shipment].total \in Nat
    BY Known, TransactionFields, InvoiceFields
  <2>2. amount \in Nat
    BY <2>1
  <2>. QED  BY <1>2, <2>2, CollectInv
<1>. QED  BY <1>1, <1>2, DueDatePassesInv, SweepInv, TakeNumberInv, LoadInv, VoidInv,
             UpdateInvoiceInv, CommitInv, RollBackInv DEF Next

LEMMA Inductive == Spec => []BillingInv
BY InitInv, NextInv, PTL DEF Spec

-----------------------------------------------------------------------------
(* Numbers *)

Issued == {s \in Shipment : invoices[s].status # "NONE"}

\* The counter says how many invoices there are, and they carry the numbers up to it.
NumbersInv ==
  /\ IsFiniteSet(Issued)
  /\ Cardinality(Issued) = counter
  /\ {invoices[s].number : s \in Issued} = 1 .. counter

LEMMA NumbersInit == Init => NumbersInv
<1>. SUFFICES ASSUME Init PROVE NumbersInv
  OBVIOUS
<1>1. Issued = {} /\ counter = 0
  BY DEF Init, Issued, NoInvoice
<1>. QED  BY <1>1, FS_EmptySet DEF NumbersInv

\* A step that issues nothing.
LEMMA NumbersStay ==
  ASSUME NumbersInv, counter' = counter,
         \A s \in Shipment : /\ invoices'[s].number = invoices[s].number
                             /\ invoices'[s].status = "NONE" <=> invoices[s].status = "NONE"
  PROVE  NumbersInv'
<1>1. Issued' = Issued
  BY DEF Issued
<1>2. {invoices'[s].number : s \in Issued'} = {invoices[s].number : s \in Issued}
  BY <1>1 DEF Issued
<1>. QED  BY <1>1, <1>2 DEF NumbersInv

\* The invoice of a committed issue is new, and its number is the next one: the
\* transaction has held the counter row since it took the number.
LEMMA IssueNumbers ==
  ASSUME BillingInv, NumbersInv, NEW r \in Request, Commit(r), tx[r].op = "issue"
  PROVE  NumbersInv'
<1> DEFINE s == tx[r].shipment
           row == tx[r].seen
<1>1. /\ s \in Shipment
      /\ invoices[s].status = "NONE"
      /\ row.status = "UNPAID"
      /\ row.number = counter + 1
  BY AboutToCommit
<1>2. invoices' = [invoices EXCEPT ![s] = row] /\ counter' = counter + 1
  BY <1>1 DEF Commit
<1>3. invoices \in [Shipment -> InvoiceRow] /\ counter \in Nat
  BY DEF BillingInv, TypeOK
<1>. HIDE DEF s, row
<1>4. /\ invoices'[s] = row
      /\ \A u \in Shipment : u # s => invoices'[u] = invoices[u]
  BY <1>1, <1>2, <1>3
<1>5. Issued' = Issued \cup {s} /\ s \notin Issued
  BY <1>1, <1>4 DEF Issued
<1>6. IsFiniteSet(Issued') /\ Cardinality(Issued') = counter + 1
  BY <1>5, FS_AddElement DEF NumbersInv
<1>7. {invoices'[u].number : u \in Issued'} = {invoices[u].number : u \in Issued} \cup {counter + 1}
  BY <1>1, <1>4, <1>5 DEF Issued
<1>8. (1 .. counter) \cup {counter + 1} = 1 .. counter + 1
  BY <1>3
<1>. QED  BY <1>2, <1>6, <1>7, <1>8 DEF NumbersInv

\* A payment or a cancellation leaves the number, and never makes an invoice NONE.
LEMMA OtherCommits ==
  ASSUME BillingInv, NumbersInv, NEW r \in Request, Commit(r), tx[r].op # "issue"
  PROVE  NumbersInv'
<1> DEFINE s == tx[r].shipment
           t == tx[r]
<1>1. /\ s \in Shipment
      /\ invoices[s].status \in Owing
      /\ t.op = "pay" => t.status \in {"PAID", "PARTIALLY_PAID"}
      /\ t.op = "cancel" => t.status = "CANCELLED"
      /\ t \in Transaction
      /\ invoices[s] \in InvoiceRow
  BY AboutToCommit
<1>2. t.op \in {"pay", "cancel"} /\ t.status \in InvoiceStatus
  BY <1>1, TransactionFields
<1>3. invoices \in [Shipment -> InvoiceRow]
  BY DEF BillingInv, TypeOK
<1> DEFINE j == [invoices[s] EXCEPT !.status = t.status, !.version = @ + 1]
<1>4. invoices' = [invoices EXCEPT ![s] = j] /\ counter' = counter
  BY <1>1, <1>3 DEF Commit
<1>. HIDE DEF s, t
<1>5. j.number = invoices[s].number /\ j.status = t.status
  BY <1>1, <1>2, UpdatedRow
<1>6. \A u \in Shipment : invoices'[u] = IF u = s THEN j ELSE invoices[u]
  BY <1>1, <1>3, <1>4
<1>. HIDE DEF j
<1>7. t.status # "NONE" /\ invoices[s].status # "NONE"
  BY <1>1, <1>2 DEF Owing
<1>. QED  BY <1>4, <1>5, <1>6, <1>7, NumbersStay

LEMMA NumbersNext == BillingInv /\ NumbersInv /\ [Next]_vars => NumbersInv'
<1>. SUFFICES ASSUME BillingInv, NumbersInv, [Next]_vars PROVE NumbersInv'
  OBVIOUS
<1>1. CASE UNCHANGED <<invoices, counter>>
  BY <1>1, NumbersStay
<1>2. ASSUME NEW s \in Shipment, DueDatePasses(s) \/ Sweep(s)
      PROVE  NumbersInv'
  <2>1. /\ counter' = counter
        /\ invoices \in [Shipment -> InvoiceRow]
        /\ invoices[s].status # "NONE"
    BY <1>2 DEF DueDatePasses, Sweep, Sweepable, BillingInv, TypeOK
  <2>2. CASE DueDatePasses(s)
    BY <2>1, <2>2, NumbersStay DEF DueDatePasses, InvoiceRow
  <2>3. CASE Sweep(s)
    <3> DEFINE j == [invoices[s] EXCEPT !.status = "OVERDUE", !.version = @ + 1]
    <3>1. j.number = invoices[s].number /\ j.status = "OVERDUE"
      BY <2>1, UpdatedRow DEF InvoiceStatus
    <3>2. \A u \in Shipment : invoices'[u] = IF u = s THEN j ELSE invoices[u]
      BY <2>1, <2>3 DEF Sweep, Swept
    <3>. HIDE DEF j
    <3>. QED  BY <2>1, <3>1, <3>2, NumbersStay
  <2>. QED  BY <1>2, <2>2, <2>3
<1>3. ASSUME NEW r \in Request, Commit(r)
      PROVE  NumbersInv'
  BY <1>3, IssueNumbers, OtherCommits
<1>. QED  BY <1>1, <1>2, <1>3
          DEF Next, vars, TakeNumber, Load, Collect, Void, UpdateInvoice, RollBack

LEMMA NumbersAlways == Spec => []NumbersInv
BY Inductive, NumbersInit, NumbersNext, PTL DEF Spec

-----------------------------------------------------------------------------
(* Theorems *)

\* Every table and open transaction keeps its type.
THEOREM TypeCorrect == Spec => []TypeOK
BY Inductive, PTL DEF BillingInv

\* The status of an invoice says how much money it holds: the version check makes
\* every update start from the row its decision was taken on, and an overtaken
\* transaction can only fail.
THEOREM MoneyIsAccounted == Spec => []StatusIsTheMoney
<1>1. BillingInv => StatusIsTheMoney
  BY DEF BillingInv, RowsInv, RowOK, StatusIsTheMoney
<1>. QED  BY <1>1, Inductive, PTL

\* What is left of an invoice can be paid in one go, whatever the minimum of its
\* currency.
THEOREM RemainderCanBePaid == Spec => []RemainderIsAccepted
<1>1. ASSUME BillingInv PROVE RemainderIsAccepted
  <2>. SUFFICES ASSUME NEW s \in Shipment,
                       invoices[s].status \in {"UNPAID", "PARTIALLY_PAID", "OVERDUE"},
                       invoices[s].total - collected[s] > 0
                PROVE  Accepts(invoices[s], collected[s], invoices[s].total - collected[s])
    BY DEF RemainderIsAccepted
  <2>1. /\ invoices[s].total \in Nat
        /\ collected[s] \in Nat
        /\ collected[s] <= invoices[s].total
    BY <1>1, Known, InvoiceFields DEF RowOK
  <2>. QED  BY <2>1, MinimumAssumption DEF Accepts, Lesser
<1>. QED  BY <1>1, Inductive, PTL

\* The numbers of the invoices are those from one to how many there are: an issue
\* that rolls back returns its number, because the counter row is part of it.
THEOREM NumbersHaveNoGap == Spec => []Gapless
<1>1. NumbersInv => Gapless
  BY DEF NumbersInv, Gapless, Issued
<1>. QED  BY <1>1, NumbersAlways, PTL

-----------------------------------------------------------------------------
(* Billing implements the account *)

\* Steps of a request before its commit, and the passing of a due date, change
\* nothing the account shows.
LEMMA Stutters ==
  ASSUME invoices \in [Shipment -> InvoiceRow], UNCHANGED collected,
         invoices' \in [Shipment -> InvoiceRow],
         \A s \in Shipment : /\ invoices'[s].status = invoices[s].status
                             /\ invoices'[s].total = invoices[s].total
  PROVE  UNCHANGED Account!vars
BY DEF Account!vars

LEMMA SweepImplements ==
  ASSUME BillingInv, NEW s \in Shipment, Sweep(s)
  PROVE  Account!FallDue(s)
<1>1. /\ invoices \in [Shipment -> InvoiceRow]
      /\ invoices[s] \in InvoiceRow
      /\ invoices[s].status \in {"UNPAID", "PARTIALLY_PAID"}
  BY DEF BillingInv, TypeOK, Sweep, Sweepable
<1>2. /\ Swept(invoices[s]).status = "OVERDUE"
      /\ Swept(invoices[s]).total = invoices[s].total
  BY <1>1, UpdatedRow DEF Swept, InvoiceStatus
<1>3. /\ invoices' = [invoices EXCEPT ![s] = Swept(invoices[s])]
      /\ collected' = collected
  BY DEF Sweep
<1>4. \A u \in Shipment : /\ invoices'[u].status = IF u = s THEN "OVERDUE" ELSE invoices[u].status
                          /\ invoices'[u].total = invoices[u].total
  BY <1>1, <1>2, <1>3
<1>. QED  BY <1>1, <1>3, <1>4 DEF Account!FallDue

LEMMA CommitImplements ==
  ASSUME BillingInv, NEW r \in Request, Commit(r),
         NEW s \in Shipment, s = tx[r].shipment
  PROVE  Account!Issue(s) \/ Account!Pay(s) \/ Account!Void(s)
<1> DEFINE t == tx[r]
           i == invoices[s]
           d == collected[s] + t.amount
<1>1. /\ t \in Transaction
      /\ s \in Shipment
      /\ i \in InvoiceRow
      /\ i.total \in Nat
      /\ collected[s] \in Nat
      /\ RowOK(i, collected[s])
      /\ invoices \in [Shipment -> InvoiceRow]
      /\ collected \in [Shipment -> Nat]
      /\ t.op \in {"issue", "pay", "cancel"}
      /\ t.amount \in Nat
      /\ t.status \in InvoiceStatus
  BY AboutToCommit, TransactionFields, InvoiceFields DEF BillingInv, TypeOK
<1>2. CASE t.op = "issue"
  <2>1. /\ i.status = "NONE"
        /\ t.seen.status = "UNPAID"
        /\ t.seen.total \in Total
        /\ invoices' = [invoices EXCEPT ![s] = t.seen]
        /\ collected' = collected
    BY <1>2, AboutToCommit DEF Commit
  <2>. HIDE DEF t
  <2>2. \A u \in Shipment :
          /\ invoices'[u].status = IF u = s THEN "UNPAID" ELSE invoices[u].status
          /\ invoices'[u].total = IF u = s THEN t.seen.total ELSE invoices[u].total
    BY <1>1, <2>1
  <2>3. Account!Issue(s)
    BY <1>1, <2>1, <2>2 DEF Account!Issue
  <2>. QED  BY <2>3 DEF t
<1>3. CASE t.op # "issue"
  <2>1. /\ i.status \in Owing
        /\ t.op = "pay" => /\ t.amount > 0
                           /\ d <= i.total
                           /\ t.status = IF d = i.total THEN "PAID" ELSE "PARTIALLY_PAID"
        /\ t.op = "cancel" => t.amount = 0 /\ collected[s] = 0 /\ t.status = "CANCELLED"
    BY <1>3, AboutToCommit
  <2> DEFINE j == [i EXCEPT !.status = t.status, !.version = @ + 1]
  <2>2. /\ invoices' = [invoices EXCEPT ![s] = j]
        /\ collected' = [collected EXCEPT ![s] = d]
        /\ j.status = t.status
        /\ j.total = i.total
    BY <1>1, <1>3, UpdatedRow DEF Commit
  <2>. HIDE DEF t, j
  <2>3. \A u \in Shipment :
          /\ invoices'[u].status = IF u = s THEN t.status ELSE invoices[u].status
          /\ invoices'[u].total = invoices[u].total
    BY <1>1, <2>2
  <2>4. CASE t.op = "pay"
    <3>1. t.amount \in 1 .. i.total - collected[s]
      BY <1>1, <2>1, <2>4
    <3>2. collected'[s] = d /\ collected' = [collected EXCEPT ![s] = @ + t.amount]
      BY <1>1, <2>2
    <3>3. [u \in Shipment |-> invoices'[u].status]
            = [[u \in Shipment |-> invoices[u].status] EXCEPT
                 ![s] = IF collected'[s] = i.total THEN "PAID" ELSE "PARTIALLY_PAID"]
      BY <1>1, <2>1, <2>3, <2>4, <3>2
    <3>4. [u \in Shipment |-> invoices'[u].total] = [u \in Shipment |-> invoices[u].total]
      BY <2>3
    <3>5. Account!Pay(s)
      BY <1>1, <2>1, <3>1, <3>2, <3>3, <3>4 DEF Account!Pay, Account!Owing, Owing
    <3>. QED  BY <3>5 DEF t
  <2>5. CASE t.op = "cancel"
    <3>1. collected' = collected
      BY <1>1, <2>1, <2>2, <2>5
    <3>2. Account!Void(s)
      BY <1>1, <2>1, <2>3, <2>5, <3>1 DEF Account!Void, Account!Owing, Owing
    <3>. QED  BY <3>2 DEF t
  <2>. QED  BY <1>1, <1>3, <2>4, <2>5
<1>. QED  BY <1>2, <1>3

LEMMA StepImplements == BillingInv /\ [Next]_vars => [Account!Next]_(Account!vars)
<1>. SUFFICES ASSUME BillingInv, [Next]_vars PROVE [Account!Next]_(Account!vars)
  OBVIOUS
<1>1. invoices \in [Shipment -> InvoiceRow] /\ collected \in [Shipment -> Nat]
  BY DEF BillingInv, TypeOK
<1>2. CASE UNCHANGED <<invoices, collected>>
  BY <1>1, <1>2, Stutters
<1>3. ASSUME NEW s \in Shipment, DueDatePasses(s)
      PROVE  UNCHANGED Account!vars
  <2>1. /\ invoices' = [invoices EXCEPT ![s].due = TRUE]
        /\ collected' = collected
    BY <1>3 DEF DueDatePasses
  <2>2. \A u \in Shipment : /\ invoices'[u].status = invoices[u].status
                            /\ invoices'[u].total = invoices[u].total
    BY <1>1, <2>1 DEF InvoiceRow
  <2>. QED  BY <2>1, <2>2 DEF Account!vars
<1>4. ASSUME NEW s \in Shipment, Sweep(s) PROVE Account!Next
  BY <1>4, SweepImplements DEF Account!Next
<1>5. ASSUME NEW r \in Request, Commit(r) PROVE Account!Next
  <2>1. PICK s \in Shipment : s = tx[r].shipment
    BY <1>5, AboutToCommit
  <2>2. Account!Issue(s) \/ Account!Pay(s) \/ Account!Void(s)
    BY <1>5, <2>1, CommitImplements
  <2>. QED  BY <2>2 DEF Account!Next
<1>6. CASE UNCHANGED vars
  BY <1>2, <1>6 DEF vars
<1>7. ASSUME NEW r \in Request, NEW amount, Collect(r, amount)
      PROVE  UNCHANGED <<invoices, collected>>
  BY <1>7 DEF Collect
<1>. QED  BY <1>2, <1>3, <1>4, <1>5, <1>6, <1>7
          DEF Next, TakeNumber, Load, Void, UpdateInvoice, RollBack

\* Billing implements the account: at any time the committed invoices and payments
\* are what some sequence of whole payments, cancellations and sweeps would leave.
THEOREM AccountIsImplemented == Spec => ImplementsAccount
<1>1. Init => Account!Init
  BY DEF Init, Account!Init, NoInvoice
<1>. QED  BY <1>1, Inductive, StepImplements, PTL DEF ImplementsAccount, Account!Spec, Spec
=============================================================================
