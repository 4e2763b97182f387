---------------------------- MODULE InvoiceAccount ----------------------------
(***************************************************************************)
(* What Billing promises its callers, transactions and versions left out:  *)
(* one account per shipment, that takes one payment at a time, never more  *)
(* than it asks for, and whose status always says how much it holds.       *)
(***************************************************************************)
EXTENDS Naturals

CONSTANTS Shipment, Total

VARIABLES status, owed, collected

vars == <<status, owed, collected>>

Owing == {"UNPAID", "PARTIALLY_PAID", "OVERDUE"}

Init == /\ status = [s \in Shipment |-> "NONE"]
        /\ owed = [s \in Shipment |-> 0]
        /\ collected = [s \in Shipment |-> 0]

Issue(s) ==
  /\ status[s] = "NONE"
  /\ \E total \in Total : owed' = [owed EXCEPT ![s] = total]
  /\ status' = [status EXCEPT ![s] = "UNPAID"]
  /\ UNCHANGED collected

Pay(s) ==
  /\ status[s] \in Owing
  /\ \E amount \in 1 .. owed[s] - collected[s] :
       collected' = [collected EXCEPT ![s] = @ + amount]
  /\ status' = [status EXCEPT ![s] = IF collected'[s] = owed[s] THEN "PAID"
                                                                 ELSE "PARTIALLY_PAID"]
  /\ UNCHANGED owed

FallDue(s) ==
  /\ status[s] \in {"UNPAID", "PARTIALLY_PAID"}
  /\ status' = [status EXCEPT ![s] = "OVERDUE"]
  /\ UNCHANGED <<owed, collected>>

\* Nothing that holds money is voided.
Void(s) ==
  /\ status[s] \in Owing
  /\ collected[s] = 0
  /\ status' = [status EXCEPT ![s] = "CANCELLED"]
  /\ UNCHANGED <<owed, collected>>

Next == \E s \in Shipment : Issue(s) \/ Pay(s) \/ FallDue(s) \/ Void(s)

Spec == Init /\ [][Next]_vars
=============================================================================
