----------------------- MODULE CustomerShipment_proofs -----------------------
(***************************************************************************)
(* Theorems about CustomerShipment, for any number of parcels, shipments   *)
(* and concurrent requests.  Each invariant below strengthens the one      *)
(* before it: ShipmentInv, InvoiceInv, ParcelInv, and on that HandoverInv  *)
(* and AheadInv.                                                           *)
(***************************************************************************)
EXTENDS CustomerShipment, SequenceTheorems, TLAPS

-----------------------------------------------------------------------------
(* Types of the operators *)

LEMMA RecalculatedType ==
  ASSUME NEW status, NEW statuses
  PROVE  Recalculated(status, statuses) \in ShipmentStatus
BY DEF Recalculated, Target, ShipmentStatus

LEMMA ParcelCommandType ==
  ASSUME NEW c \in ParcelCommand
  PROVE  /\ c \in Command
         /\ c.op \in Commands \ {"cancel"}
         /\ c.shipments = {}
<1>1. c.op \in Commands \ {"cancel"} /\ c.shipments = {}
  BY DEF ParcelCommand, Commands
<1>2. /\ c = [op |-> c.op, parcels |-> c.parcels, shipments |-> c.shipments,
             unit |-> c.unit, pays |-> c.pays]
      /\ c.parcels \subseteq Parcel
      /\ c.unit \in Unit
      /\ c.pays \in BOOLEAN
  BY UnitAssumption DEF ParcelCommand
<1>. QED  BY <1>1, <1>2 DEF Command

LEMMA CommandRow ==
  ASSUME NEW c \in Command, NEW row \in ParcelRow, NEW old \in ParcelRow
  PROVE  /\ Wanted(c, row) \in ParcelStatus
         /\ NewRow(c, row, old) \in ParcelRow
<1>1. Wanted(c, row) \in ParcelStatus
  BY DEF Wanted, Command, ParcelStatus
<1>. QED  BY <1>1 DEF NewRow, ParcelRow, Command

LEMMA EmptyRows == /\ NoParcel \in ParcelRow
                   /\ NoShipment \in ShipmentRow
                   /\ NoCommand \in Command
                   /\ Idle \in Transaction
<1>1. NoParcel \in ParcelRow
  BY UnitAssumption DEF NoParcel, ParcelRow, ParcelStatus
<1>2. NoShipment \in ShipmentRow
  BY DEF NoShipment, ShipmentRow, ShipmentStatus
<1>3. NoCommand \in Command
  BY UnitAssumption DEF NoCommand, Command, Commands, ParcelStatus
<1>4. Idle \in Transaction
  BY <1>1, <1>2, <1>3
     DEF Idle, Transaction, Phase, ShipmentStatus, InvoiceStatus
<1>. QED  BY <1>1, <1>2, <1>3, <1>4

-----------------------------------------------------------------------------
(* Type correctness *)

LEMMA InitType == Init => TypeOK
BY EmptyRows DEF Init, TypeOK, InvoiceStatus

LEMMA StepType == TypeOK /\ [Next]_vars => TypeOK'
<1>. SUFFICES ASSUME TypeOK, [Next]_vars PROVE TypeOK'
  OBVIOUS
<1>. USE DEF TypeOK
<1>1. ASSUME NEW s \in Shipment, CreateShipment(s) PROVE TypeOK'
  BY <1>1, UnitAssumption DEF CreateShipment, ShipmentRow, ShipmentStatus, ParcelRow,
              ParcelStatus, InvoiceStatus
<1>2. ASSUME NEW s \in Shipment, RecordPayment(s) PROVE TypeOK'
  BY <1>2 DEF RecordPayment, InvoiceStatus
<1>3. ASSUME NEW r \in Request, NEW c \in ParcelCommand, LoadParcels(r, c)
      PROVE TypeOK'
  <2>1. c \in Command
    BY ParcelCommandType
  <2>2. [Idle EXCEPT !.phase = "loaded", !.cmd = c,
           !.seen = [p \in Parcel |-> IF p \in c.parcels THEN parcels[p]
                                                         ELSE NoParcel]]
          \in Transaction
    BY <2>1, EmptyRows DEF Transaction, Phase, Idle
  <2>. QED  BY <1>3, <2>2 DEF LoadParcels
<1>4. ASSUME NEW r \in Request, NEW s \in Shipment, LoadShipment(r, s)
      PROVE TypeOK'
  <2>1. [NoCommand EXCEPT !.op = "cancel", !.shipments = {s}] \in Command
    BY EmptyRows DEF Command, Commands, NoCommand
  <2>2. tx'[r] \in Transaction
    BY <1>4, <2>1, EmptyRows DEF LoadShipment, Transaction, Phase, Idle
  <2>. QED  BY <1>4, <2>2 DEF LoadShipment
<1>5. ASSUME NEW r \in Request, WriteParcels(r) PROVE TypeOK'
  <2>1. tx'[r] \in Transaction
    BY <1>5, EmptyRows DEF WriteParcels, Transaction, Phase, InvoiceStatus
  <2>. QED  BY <1>5, <2>1 DEF WriteParcels
<1>6. ASSUME NEW r \in Request, ReadStatuses(r) PROVE TypeOK'
  <2>1. tx'[r] \in Transaction
    BY <1>6, RecalculatedType DEF ReadStatuses, Transaction, Phase, ShipmentStatus
  <2>. QED  BY <1>6, <2>1 DEF ReadStatuses
<1>7. ASSUME NEW r \in Request, WriteShipments(r) PROVE TypeOK'
  <2>1. tx'[r] \in Transaction
    BY <1>7 DEF WriteShipments, Transaction, Phase
  <2>. QED  BY <1>7, <2>1 DEF WriteShipments
<1>8. ASSUME NEW r \in Request, CancelShipment(r) PROVE TypeOK'
  <2>1. tx' \in [Request -> Transaction]
    <3>1. tx' = [tx EXCEPT ![r] =
              [tx[r] EXCEPT !.phase = "ready",
                 !.plan = [s \in Shipment |-> IF s \in tx[r].cmd.shipments
                                             THEN "CANCELLED" ELSE "NONE"],
                 !.bill = "CANCELLED"]]
      BY <1>8 DEF CancelShipment
    <3>2. tx[r] \in Transaction
      OBVIOUS
    <3>. QED  BY <3>1, <3>2 DEF Transaction, Phase, ShipmentStatus, InvoiceStatus
  <2>2. tx[r].cmd.shipments \subseteq Shipment
    BY DEF Transaction, Command
  <2>. QED  BY <1>8, <2>1, <2>2 DEF CancelShipment
<1>9. ASSUME NEW r \in Request, Commit(r) PROVE TypeOK'
  <2>. DEFINE t == tx[r]
  <2>1. /\ t.cmd \in Command
        /\ t.seen \in [Parcel -> ParcelRow]
        /\ t.plan \in [Shipment -> ShipmentStatus]
        /\ t.bill \in InvoiceStatus
    BY DEF Transaction
  <2>2. parcels' \in [Parcel -> ParcelRow]
    BY <1>9, <2>1, CommandRow DEF Commit
  <2>3. movements' \in [Parcel -> Seq(Movement)]
    <3>1. ASSUME NEW p \in Parcel
          PROVE  [from |-> t.seen[p].status, to |-> Wanted(t.cmd, t.seen[p])]
                   \in Movement
      BY <2>1, CommandRow DEF ParcelRow, Movement
    <3>2. ASSUME NEW p \in Parcel
          PROVE  Append(movements[p], [from |-> t.seen[p].status,
                                       to   |-> Wanted(t.cmd, t.seen[p])])
                   \in Seq(Movement)
      BY <3>1, AppendProperties
    <3>. QED  BY <1>9, <3>2 DEF Commit
  <2>4. shipments' \in [Shipment -> ShipmentRow]
    BY <1>9, <2>1 DEF Commit, ShipmentRow
  <2>5. invoices' \in [Shipment -> InvoiceStatus]
    BY <1>9, <2>1 DEF Commit
  <2>6. pods' \subseteq Parcel
    BY <1>9, <2>1 DEF Commit, Command
  <2>7. tx' \in [Request -> Transaction]
    BY <1>9, EmptyRows DEF Commit
  <2>. QED  BY <2>2, <2>3, <2>4, <2>5, <2>6, <2>7
<1>10. ASSUME NEW r \in Request, RollBack(r) PROVE TypeOK'
  BY <1>10, EmptyRows DEF RollBack
<1>11. CASE UNCHANGED vars
  BY <1>11 DEF vars
<1>. QED  BY <1>1, <1>2, <1>3, <1>4, <1>5, <1>6, <1>7, <1>8, <1>9, <1>10, <1>11
          DEF Next

\* Every table and open transaction keeps its type.
THEOREM TypeCorrect == Spec => []TypeOK
BY InitType, StepType, PTL DEF Spec

-----------------------------------------------------------------------------
(* The shipment table: optimistic locking and row locks.                   *)
(*                                                                         *)
(* What a transaction has read of a shipment is never newer than the row,  *)
(* and as long as the version is the same it is the row.  A transaction    *)
(* that has written the row, and so holds its lock, passed that test when  *)
(* it wrote, and nobody else can have changed the row since.               *)

RowsExist ==
  \A s \in Shipment : shipments[s].status = "NONE" <=> shipments[s].version = 0

ReadOfOldRow(t) ==
  \A s \in Shipment :
    /\ t.read[s].version <= shipments[s].version
    /\ t.read[s].version = shipments[s].version => t.read[s] = shipments[s]

CancelAllowed(t) ==
  t.phase = "loaded" /\ t.cmd.op = "cancel" =>
    \A s \in t.cmd.shipments : "CANCELLED" \in ShipmentNext(t.read[s].status)

PlanAllowed(t) ==
  \A s \in Shipment : t.plan[s] # "NONE" =>
    /\ t.phase \in {"derived", "ready"}
    /\ t.plan[s] # "PROCESSING"
    /\ t.plan[s] \in ShipmentNext(t.read[s].status)
    /\ t.phase = "ready" => t.read[s] = shipments[s]

ShipmentLocks ==
  \A r, q \in Request :
    r # q => LockedShipments(r) \cap LockedShipments(q) = {}

ShipmentInv ==
  /\ TypeOK
  /\ RowsExist
  /\ \A r \in Request : /\ ReadOfOldRow(tx[r])
                        /\ CancelAllowed(tx[r])
                        /\ PlanAllowed(tx[r])
  /\ ShipmentLocks

LEMMA NextOfNone == /\ ShipmentNext("NONE") = {"PROCESSING"}
                    /\ \A status : "NONE" \notin ShipmentNext(status)
                    /\ \A status : "CANCELLED" \in ShipmentNext(status) =>
                                     status # "NONE"
BY DEF ShipmentNext

LEMMA TargetNotProcessing == \A statuses : Target(statuses) \notin {"PROCESSING", "CANCELLED"}
BY DEF Target

LEMMA NextIsAnother == \A status : status \notin ShipmentNext(status)
BY DEF ShipmentNext

\* A transaction that has not read a shipment holds version 0, the version of
\* a row that was never inserted.
LEMMA EmptyRowIsOld ==
  ASSUME ShipmentInv
  PROVE  /\ \A s \in Shipment :
              /\ NoShipment.version <= shipments[s].version
              /\ NoShipment.version = shipments[s].version => NoShipment = shipments[s]
         /\ \A t : t.read = [s \in Shipment |-> NoShipment] => ReadOfOldRow(t)
<1>1. ASSUME NEW s \in Shipment
      PROVE  /\ NoShipment.version <= shipments[s].version
             /\ NoShipment.version = shipments[s].version => NoShipment = shipments[s]
  <2>1. shipments[s] \in ShipmentRow
    BY DEF ShipmentInv, TypeOK
  <2>2. shipments[s].status = "NONE" <=> shipments[s].version = 0
    BY DEF ShipmentInv, RowsExist
  <2>. QED  BY <2>1, <2>2 DEF ShipmentRow, NoShipment
<1>. QED  BY <1>1 DEF ReadOfOldRow

LEMMA InitShipmentInv == Init => ShipmentInv
<1>. SUFFICES ASSUME Init PROVE ShipmentInv
  OBVIOUS
<1>1. TypeOK
  BY InitType
<1>2. \A r \in Request : tx[r] = Idle
  BY DEF Init
<1>3. RowsExist
  BY DEF Init, RowsExist, NoShipment
<1>4. \A r \in Request : /\ ReadOfOldRow(tx[r])
                        /\ CancelAllowed(tx[r])
                        /\ PlanAllowed(tx[r])
  BY <1>2 DEF Init, Idle, ReadOfOldRow, CancelAllowed, PlanAllowed, NoShipment
<1>5. ShipmentLocks
  BY <1>2 DEF ShipmentLocks, LockedShipments, Idle
<1>. QED  BY <1>1, <1>3, <1>4, <1>5 DEF ShipmentInv

\* A step that changes what one request is doing and no shipment.
LEMMA RequestStep ==
  ASSUME ShipmentInv, TypeOK', UNCHANGED shipments,
         NEW r \in Request, NEW t \in Transaction,
         tx' = [tx EXCEPT ![r] = t],
         ReadOfOldRow(t), CancelAllowed(t), PlanAllowed(t),
         t.phase = "ready" =>
           \A s \in Shipment : t.plan[s] # "NONE" =>
             \A q \in Others(r) : s \notin LockedShipments(q)
  PROVE  ShipmentInv'
<1>1. RowsExist'
  BY DEF ShipmentInv, RowsExist
<1>2. ASSUME NEW q \in Request
      PROVE  (ReadOfOldRow(tx[q]) /\ CancelAllowed(tx[q]) /\ PlanAllowed(tx[q]))'
  <2>1. CASE q = r
    <3>1. tx'[q] = t
      BY <2>1 DEF ShipmentInv, TypeOK
    <3>. QED  BY <3>1 DEF ReadOfOldRow, CancelAllowed, PlanAllowed
  <2>2. CASE q # r
    <3>1. tx'[q] = tx[q]
      BY <2>2 DEF ShipmentInv, TypeOK
    <3>2. ReadOfOldRow(tx[q]) /\ CancelAllowed(tx[q]) /\ PlanAllowed(tx[q])
      BY DEF ShipmentInv
    <3>. QED  BY <3>1, <3>2 DEF ReadOfOldRow, CancelAllowed, PlanAllowed
  <2>. QED  BY <2>1, <2>2
<1>3. ShipmentLocks'
  <2>1. ASSUME NEW q \in Request, q # r
        PROVE  LockedShipments(q)' = LockedShipments(q)
    BY <2>1 DEF LockedShipments, ShipmentInv, TypeOK
  <2>2. ASSUME NEW q \in Request, q # r
        PROVE  LockedShipments(q) \cap LockedShipments(r)' = {}
    <3>1. tx'[r] = t
      BY DEF ShipmentInv, TypeOK
    <3>2. LockedShipments(r)' = IF t.phase = "ready"
                                THEN {s \in Shipment : t.plan[s] # "NONE"} ELSE {}
      BY <3>1 DEF LockedShipments
    <3>3. q \in Others(r)
      BY <2>2 DEF Others
    <3>. QED  BY <3>2, <3>3
  <2>. QED  BY <2>1, <2>2 DEF ShipmentLocks, ShipmentInv
<1>. QED  BY <1>1, <1>2, <1>3 DEF ShipmentInv

LEMMA StepShipmentInv == ShipmentInv /\ [Next]_vars => ShipmentInv'
<1>. SUFFICES ASSUME ShipmentInv, [Next]_vars PROVE ShipmentInv'
  OBVIOUS
<1>0. TypeOK /\ TypeOK'
  BY StepType DEF ShipmentInv
<1>1. ASSUME NEW s \in Shipment, CreateShipment(s) PROVE ShipmentInv'
  <2>1. shipments'[s] = [status |-> "PROCESSING", version |-> 1]
        /\ \A u \in Shipment : u # s => shipments'[u] = shipments[u]
    BY <1>1, <1>0 DEF CreateShipment, TypeOK
  <2>2. shipments[s].version = 0 /\ UNCHANGED tx
    BY <1>1 DEF CreateShipment, ShipmentInv, RowsExist
  <2>3. RowsExist'
    BY <2>1 DEF RowsExist, ShipmentInv
  <2>4. ASSUME NEW r \in Request
        PROVE  (ReadOfOldRow(tx[r]) /\ CancelAllowed(tx[r]) /\ PlanAllowed(tx[r]))'
    <3>1. ReadOfOldRow(tx[r]) /\ CancelAllowed(tx[r]) /\ PlanAllowed(tx[r])
      BY DEF ShipmentInv
    <3>2. tx[r].read[s].version = 0
      BY <3>1, <2>2, <1>0 DEF ReadOfOldRow, TypeOK, Transaction, ShipmentRow
    <3>3. ReadOfOldRow(tx[r])'
      <4>1. shipments'[s].version = 1
        BY <2>1
      <4>2. ASSUME NEW u \in Shipment
            PROVE  /\ tx[r].read[u].version <= shipments'[u].version
                   /\ tx[r].read[u].version = shipments'[u].version =>
                        tx[r].read[u] = shipments'[u]
        BY <3>1, <3>2, <4>1, <2>1 DEF ReadOfOldRow
      <4>. QED  BY <4>2, <2>2 DEF ReadOfOldRow
    <3>4. tx[r].phase = "ready" => tx[r].plan[s] = "NONE"
      <4>1. tx[r].read[s] = shipments[s] => tx[r].read[s].status = "NONE"
        BY <1>1 DEF CreateShipment
      <4>. QED  BY <4>1, <3>1, NextOfNone DEF PlanAllowed
    <3>5. PlanAllowed(tx[r])'
      BY <3>1, <3>4, <2>1, <2>2 DEF PlanAllowed
    <3>. QED  BY <3>1, <3>3, <3>5, <2>2 DEF CancelAllowed
  <2>5. ShipmentLocks'
    BY <2>2 DEF ShipmentInv, ShipmentLocks, LockedShipments
  <2>. QED  BY <1>0, <2>3, <2>4, <2>5 DEF ShipmentInv
<1>2. ASSUME UNCHANGED <<shipments, tx>> PROVE ShipmentInv'
  BY <1>2, <1>0 DEF ShipmentInv, RowsExist, ReadOfOldRow, CancelAllowed,
     PlanAllowed, ShipmentLocks, LockedShipments
<1>3. ASSUME NEW r \in Request, NEW c \in ParcelCommand, LoadParcels(r, c)
      PROVE ShipmentInv'
  <2>. DEFINE t == [Idle EXCEPT !.phase = "loaded", !.cmd = c,
                      !.seen = [p \in Parcel |-> IF p \in c.parcels THEN parcels[p]
                                                                    ELSE NoParcel]]
  <2>1. /\ t.phase = "loaded"
        /\ t.cmd.op # "cancel"
        /\ t.read = [s \in Shipment |-> NoShipment]
        /\ t.plan = [s \in Shipment |-> "NONE"]
    BY ParcelCommandType DEF Idle
  <2>2. tx' = [tx EXCEPT ![r] = t] /\ UNCHANGED shipments
    BY <1>3 DEF LoadParcels
  <2>3. t \in Transaction
    BY <2>2, <1>0 DEF TypeOK
  <2>4. ReadOfOldRow(t)
    BY <2>1, EmptyRowIsOld
  <2>5. CancelAllowed(t) /\ PlanAllowed(t)
    BY <2>1 DEF CancelAllowed, PlanAllowed
  <2>. HIDE DEF t
  <2>. QED  BY <2>1, <2>2, <2>3, <2>4, <2>5, <1>0, RequestStep
<1>4. ASSUME NEW r \in Request, NEW u \in Shipment, LoadShipment(r, u)
      PROVE ShipmentInv'
  <2>. DEFINE t == tx'[r]
  <2>1. /\ t.phase = "loaded"
        /\ t.cmd.shipments = {u}
        /\ t.read = [s \in Shipment |-> IF s = u THEN shipments[s] ELSE NoShipment]
        /\ t.plan = [s \in Shipment |-> "NONE"]
        /\ "CANCELLED" \in ShipmentNext(shipments[u].status)
        /\ tx' = [tx EXCEPT ![r] = t] /\ UNCHANGED shipments
        /\ t \in Transaction
    BY <1>4, <1>0 DEF LoadShipment, Idle, NoCommand, TypeOK
  <2>2. ReadOfOldRow(t)
    BY <2>1, <1>0, EmptyRowIsOld DEF ReadOfOldRow, TypeOK, ShipmentRow
  <2>3. CancelAllowed(t) /\ PlanAllowed(t)
    BY <2>1 DEF CancelAllowed, PlanAllowed
  <2>. HIDE DEF t
  <2>. QED  BY <2>1, <2>2, <2>3, <1>0, RequestStep
<1>5. ASSUME NEW r \in Request, WriteParcels(r) PROVE ShipmentInv'
  <2>. DEFINE t == tx'[r]
  <2>1. /\ t.phase \in {"ready", "written"}
        /\ \A s \in Shipment : t.read[s] = shipments[s] \/ t.read[s] = NoShipment
        /\ t.plan = tx[r].plan
        /\ tx[r].phase = "loaded"
        /\ tx' = [tx EXCEPT ![r] = t] /\ UNCHANGED shipments
        /\ t \in Transaction
    BY <1>5, <1>0 DEF WriteParcels, TypeOK, Transaction
  <2>2. \A s \in Shipment : t.plan[s] = "NONE"
    BY <2>1 DEF ShipmentInv, PlanAllowed
  <2>3. ReadOfOldRow(t)
    BY <2>1, <1>0, EmptyRowIsOld DEF ReadOfOldRow, TypeOK, ShipmentRow
  <2>4. CancelAllowed(t) /\ PlanAllowed(t)
    BY <2>1, <2>2 DEF CancelAllowed, PlanAllowed
  <2>. HIDE DEF t
  <2>. QED  BY <2>1, <2>2, <2>3, <2>4, <1>0, RequestStep
<1>6. ASSUME NEW r \in Request, ReadStatuses(r) PROVE ShipmentInv'
  <2>. DEFINE t == tx'[r]
  <2>1. /\ t.phase = "derived"
        /\ t.read = tx[r].read
        /\ \A s \in Shipment : t.plan[s] # "NONE" =>
             \E statuses : t.plan[s] = Recalculated(t.read[s].status, statuses)
        /\ tx' = [tx EXCEPT ![r] = t] /\ UNCHANGED shipments
        /\ t \in Transaction
    BY <1>6, <1>0 DEF ReadStatuses, TypeOK, Transaction
  <2>2. ReadOfOldRow(t)
    BY <2>1 DEF ReadOfOldRow, ShipmentInv
  <2>3. CancelAllowed(t) /\ PlanAllowed(t)
    BY <2>1, TargetNotProcessing DEF CancelAllowed, PlanAllowed, Recalculated
  <2>. HIDE DEF t
  <2>. QED  BY <2>1, <2>2, <2>3, <1>0, RequestStep
<1>7. ASSUME NEW r \in Request, WriteShipments(r) PROVE ShipmentInv'
  <2>. DEFINE t == tx'[r]
  <2>1. /\ tx[r].phase = "derived"
        /\ t.phase = "ready"
        /\ t.read = tx[r].read
        /\ t.plan = tx[r].plan
        /\ tx' = [tx EXCEPT ![r] = t] /\ UNCHANGED shipments
        /\ t \in Transaction
    BY <1>7, <1>0 DEF WriteShipments, TypeOK, Transaction
  <2>2. \A s \in Shipment : t.plan[s] # "NONE" =>
          /\ \A q \in Others(r) : s \notin LockedShipments(q)
          /\ t.read[s].version = shipments[s].version
    BY <1>7, <2>1 DEF WriteShipments, ShipmentGuard
  <2>3. ReadOfOldRow(t)
    BY <2>1 DEF ReadOfOldRow, ShipmentInv
  <2>4. CancelAllowed(t) /\ PlanAllowed(t)
    <3>1. PlanAllowed(tx[r])
      BY DEF ShipmentInv
    <3>. QED  BY <2>1, <2>2, <2>3, <3>1 DEF CancelAllowed, PlanAllowed, ReadOfOldRow
  <2>. HIDE DEF t
  <2>. QED  BY <2>1, <2>2, <2>3, <2>4, <1>0, RequestStep
<1>8. ASSUME NEW r \in Request, CancelShipment(r) PROVE ShipmentInv'
  <2>. DEFINE t == tx'[r]
  <2>1. /\ tx[r].phase = "loaded"
        /\ tx[r].cmd.op = "cancel"
        /\ t.phase = "ready"
        /\ t.read = tx[r].read
        /\ t.plan = [s \in Shipment |-> IF s \in tx[r].cmd.shipments THEN "CANCELLED"
                                                                     ELSE "NONE"]
        /\ tx' = [tx EXCEPT ![r] = t] /\ UNCHANGED shipments
        /\ t \in Transaction
    BY <1>8, <1>0 DEF CancelShipment, TypeOK, Transaction
  <2>2. \A s \in tx[r].cmd.shipments :
          /\ \A q \in Others(r) : s \notin LockedShipments(q)
          /\ t.read[s].version = shipments[s].version
    BY <1>8, <2>1 DEF CancelShipment, ShipmentGuard
  <2>3. ReadOfOldRow(t)
    BY <2>1 DEF ReadOfOldRow, ShipmentInv
  <2>4. CancelAllowed(t) /\ PlanAllowed(t)
    <3>1. CancelAllowed(tx[r])
      BY DEF ShipmentInv
    <3>. QED  BY <2>1, <2>2, <2>3, <3>1 DEF CancelAllowed, PlanAllowed, ReadOfOldRow
  <2>. HIDE DEF t
  <2>. QED  BY <2>1, <2>2, <2>3, <2>4, <1>0, RequestStep
<1>9. ASSUME NEW r \in Request, Commit(r) PROVE ShipmentInv'
  <2>. DEFINE t == tx[r]
  <2>1. /\ t.phase = "ready"
        /\ tx' = [tx EXCEPT ![r] = Idle]
        /\ \A s \in Shipment :
             shipments'[s] = IF t.plan[s] # "NONE"
                             THEN [status |-> t.plan[s],
                                   version |-> shipments[s].version + 1]
                             ELSE shipments[s]
    BY <1>9 DEF Commit
  <2>2. /\ \A q \in Request : ReadOfOldRow(tx[q]) /\ CancelAllowed(tx[q]) /\ PlanAllowed(tx[q])
        /\ \A s \in Shipment : t.plan[s] # "NONE" => t.plan[s] # shipments[s].status
        /\ ShipmentLocks /\ RowsExist
    BY <2>1, NextIsAnother DEF ShipmentInv, PlanAllowed
  <2>9. ASSUME NEW s \in Shipment
        PROVE  /\ shipments[s].version \in Nat
               /\ t.plan[s] # "NONE" => /\ shipments'[s].version = shipments[s].version + 1
                                        /\ shipments'[s].status # "NONE"
               /\ t.plan[s] = "NONE" => shipments'[s] = shipments[s]
    BY <2>1, <1>0 DEF TypeOK, ShipmentRow
  <2>3. RowsExist'
    BY <2>9, <2>2 DEF RowsExist
  <2>4. ASSUME NEW q \in Request
        PROVE  (ReadOfOldRow(tx[q]) /\ CancelAllowed(tx[q]) /\ PlanAllowed(tx[q]))'
    <3>1. CASE q = r
      <4>1. /\ tx'[q].phase = "idle"
            /\ tx'[q].plan = [s \in Shipment |-> "NONE"]
            /\ tx'[q].read = [s \in Shipment |-> NoShipment]
        BY <3>1, <2>1, <1>0 DEF TypeOK, Idle
      <4>2. ASSUME NEW s \in Shipment
            PROVE  /\ NoShipment.version <= shipments'[s].version
                   /\ NoShipment.version = shipments'[s].version =>
                        NoShipment = shipments'[s]
        BY <2>9, EmptyRowIsOld DEF NoShipment
      <4>. QED  BY <4>1, <4>2 DEF ReadOfOldRow, CancelAllowed, PlanAllowed
    <3>2. CASE q # r
      <4>1. tx'[q] = tx[q]
        BY <3>2, <2>1, <1>0 DEF TypeOK
      <4>2. \A s \in Shipment : tx[q].phase = "ready" /\ tx[q].plan[s] # "NONE" =>
              t.plan[s] = "NONE"
        BY <3>2, <2>1, <2>2 DEF ShipmentLocks, LockedShipments
      <4>3. ReadOfOldRow(tx[q])'
        <5>1. ASSUME NEW s \in Shipment
              PROVE  /\ tx[q].read[s].version <= shipments'[s].version
                     /\ tx[q].read[s].version = shipments'[s].version =>
                          tx[q].read[s] = shipments'[s]
          <6>1. tx[q].read[s].version \in Nat
            BY <1>0 DEF TypeOK, Transaction, ShipmentRow
          <6>. QED  BY <6>1, <2>9, <2>2 DEF ReadOfOldRow
        <5>. QED  BY <5>1, <4>1 DEF ReadOfOldRow
      <4>4. CancelAllowed(tx[q])'
        BY <4>1, <2>2 DEF CancelAllowed
      <4>5. PlanAllowed(tx[q])'
        <5>1. PlanAllowed(tx[q])
          BY <2>2
        <5>. QED  BY <4>1, <4>2, <5>1, <2>9 DEF PlanAllowed
      <4>. QED  BY <4>3, <4>4, <4>5
    <3>. QED  BY <3>1, <3>2
  <2>5. ShipmentLocks'
    <3>1. LockedShipments(r)' = {}
      BY <2>1, <1>0 DEF LockedShipments, TypeOK, Idle
    <3>2. \A q \in Request : q # r => LockedShipments(q)' = LockedShipments(q)
      BY <2>1, <1>0 DEF LockedShipments, TypeOK
    <3>. QED  BY <3>1, <3>2, <2>2 DEF ShipmentLocks
  <2>. QED  BY <1>0, <2>3, <2>4, <2>5 DEF ShipmentInv
<1>10. ASSUME NEW r \in Request, RollBack(r) PROVE ShipmentInv'
  <2>1. tx' = [tx EXCEPT ![r] = Idle] /\ UNCHANGED shipments
    BY <1>10 DEF RollBack
  <2>2. /\ Idle.phase = "idle"
        /\ Idle.read = [s \in Shipment |-> NoShipment]
        /\ Idle.plan = [s \in Shipment |-> "NONE"]
        /\ Idle \in Transaction
    BY EmptyRows DEF Idle
  <2>3. ReadOfOldRow(Idle)
    BY <2>2, EmptyRowIsOld
  <2>4. CancelAllowed(Idle) /\ PlanAllowed(Idle)
    BY <2>2 DEF CancelAllowed, PlanAllowed
  <2>. QED  BY <2>1, <2>2, <2>3, <2>4, <1>0, RequestStep
<1>. QED
  BY <1>1, <1>2, <1>3, <1>4, <1>5, <1>6, <1>7, <1>8, <1>9, <1>10
     DEF Next, vars, RecordPayment

LEMMA ShipmentInvariant == Spec => []ShipmentInv
BY InitShipmentInv, StepShipmentInv, PTL DEF Spec

LEMMA ShipmentStep ==
  ShipmentInv /\ [Next]_vars =>
    \A s \in Shipment :
      shipments'[s].status # shipments[s].status =>
        shipments'[s].status \in ShipmentNext(shipments[s].status)
<1>. SUFFICES ASSUME ShipmentInv, [Next]_vars, NEW s \in Shipment,
                     shipments'[s].status # shipments[s].status
              PROVE  shipments'[s].status \in ShipmentNext(shipments[s].status)
  OBVIOUS
<1>0. TypeOK
  BY DEF ShipmentInv
<1>1. ASSUME NEW u \in Shipment, CreateShipment(u)
      PROVE  shipments'[s].status \in ShipmentNext(shipments[s].status)
  BY <1>1, <1>0, NextOfNone DEF CreateShipment, TypeOK
<1>2. ASSUME NEW r \in Request, Commit(r)
      PROVE  shipments'[s].status \in ShipmentNext(shipments[s].status)
  <2>1. /\ tx[r].phase = "ready"
        /\ shipments'[s].status = tx[r].plan[s]
        /\ tx[r].plan[s] # "NONE"
    BY <1>2 DEF Commit
  <2>2. PlanAllowed(tx[r])
    BY DEF ShipmentInv
  <2>. QED  BY <2>1, <2>2 DEF PlanAllowed
<1>3. CASE UNCHANGED shipments
  BY <1>3
<1>. QED
  BY <1>1, <1>2, <1>3 DEF Next, vars, RecordPayment, LoadParcels, LoadShipment,
     WriteParcels, ReadStatuses, WriteShipments, CancelShipment, RollBack

\* Whatever the requests, the commands they carry and the order of their steps,
\* a shipment moves only along its
\* lifecycle: the version check and the row lock leave no way around it.
THEOREM ShipmentLifecycleHolds == Spec => ShipmentStepAllowed
<1>1. ShipmentInv /\ [Next]_vars =>
        [\A s \in Shipment :
           shipments'[s].status # shipments[s].status =>
             shipments'[s].status \in ShipmentNext(shipments[s].status)]_vars
  BY ShipmentStep
<1>. QED  BY <1>1, ShipmentInvariant, PTL DEF Spec, ShipmentStepAllowed

-----------------------------------------------------------------------------
(* The invoice beside the shipment.                                        *)
(*                                                                         *)
(* A transaction that is going to settle or void an invoice has held its   *)
(* row since it looked, so the invoice is still what it was then: payable, *)
(* or not paid at all.  A shipment is cancelled by a transaction that      *)
(* voids the invoice too, and by no other.                                 *)

CommandKept(t) ==
  /\ t.phase = "idle" => t = Idle
  /\ t.phase # "idle" =>
       \/ t.cmd \in ParcelCommand
       \/ /\ t.cmd.op = "cancel" /\ t.cmd.parcels = {} /\ ~t.cmd.pays
          /\ \E s \in Shipment : t.cmd.shipments = {s}
  /\ t.cmd.op = "cancel" => t.phase \in {"loaded", "ready"}

BillKept(t) ==
  /\ t.phase \in {"idle", "loaded"} => t.bill = "NONE"
  /\ t.bill \in {"NONE", "PAID", "CANCELLED"}
  /\ t.bill = "PAID" => \A s \in Touched(t.cmd) : invoices[s] \in Payable
  /\ t.bill = "PAID" => t.cmd.op = "deliver"
  /\ t.bill = "CANCELLED" => t.cmd.op = "cancel"
  /\ t.cmd.op = "cancel" /\ t.phase = "ready" => t.bill = "CANCELLED"
  /\ t.bill = "CANCELLED" => \A s \in Touched(t.cmd) :
       invoices[s] \in {"UNPAID", "CANCELLED"} /\ t.plan[s] = "CANCELLED"
  /\ \A s \in Shipment : t.plan[s] = "CANCELLED" =>
       t.bill = "CANCELLED" /\ s \in Touched(t.cmd)

\* A plan is about the shipments the command touches; a proof that comes late
\* recalculates none.
PlanKept(t) ==
  /\ \A s \in Shipment : t.plan[s] # "NONE" => s \in Touched(t.cmd)
  /\ CatchUp(t) => /\ t.phase \notin {"written", "derived"}
                   /\ \A s \in Shipment : t.plan[s] = "NONE"

InvoiceLocks ==
  \A r, q \in Request :
    r # q => LockedInvoices(r) \cap LockedInvoices(q) = {}

InvoicesExist ==
  \A s \in Shipment : invoices[s] = "NONE" <=> shipments[s].status = "NONE"

InvoiceInv ==
  /\ ShipmentInv
  /\ \A r \in Request : CommandKept(tx[r]) /\ BillKept(tx[r]) /\ PlanKept(tx[r])
  /\ InvoiceLocks
  /\ InvoicesExist
  /\ CancelledWithItsInvoice

LEMMA ParcelCommandShape ==
  ASSUME NEW c \in ParcelCommand
  PROVE  /\ c.pays => c.op = "deliver"
         /\ c.op # "bulkReady" => \E p \in Parcel : c.parcels = {p}
         /\ c.op # "cancel"
         /\ c.op = "bulkReady" => c.parcels # {}
BY DEF ParcelCommand

LEMMA TouchedShipments ==
  ASSUME NEW c \in Command
  PROVE  Touched(c) \subseteq Shipment
BY ShipmentOfAssumption DEF Touched, Command

LEMMA IdleKept == CommandKept(Idle) /\ BillKept(Idle) /\ PlanKept(Idle) /\ Idle.bill = "NONE"
<1>1. /\ Idle.phase = "idle" /\ Idle.bill = "NONE" /\ Idle.cmd.op = "receive"
      /\ \A s \in Shipment : Idle.plan[s] = "NONE"
  BY DEF Idle, NoCommand
<1>. QED  BY <1>1 DEF CommandKept, BillKept, PlanKept, CatchUp

LEMMA InitInvoiceInv == Init => InvoiceInv
<1>. SUFFICES ASSUME Init PROVE InvoiceInv
  OBVIOUS
<1>1. \A r \in Request : tx[r] = Idle
  BY DEF Init
<1>2. \A r \in Request : CommandKept(tx[r]) /\ BillKept(tx[r]) /\ PlanKept(tx[r])
  BY <1>1, IdleKept
<1>3. InvoiceLocks
  BY <1>1 DEF InvoiceLocks, LockedInvoices, Idle
<1>4. InvoicesExist /\ CancelledWithItsInvoice
  BY DEF Init, InvoicesExist, CancelledWithItsInvoice, NoShipment
<1>. QED  BY <1>2, <1>3, <1>4, InitShipmentInv DEF InvoiceInv

\* A step that changes what one request is doing, no shipment and no invoice.
LEMMA InvoiceRequestStep ==
  ASSUME InvoiceInv, ShipmentInv', UNCHANGED <<shipments, invoices>>,
         NEW r \in Request, NEW t \in Transaction,
         tx' = [tx EXCEPT ![r] = t],
         CommandKept(t), BillKept(t), PlanKept(t),
         t.bill # "NONE" =>
           \A s \in Touched(t.cmd) : \A q \in Others(r) : s \notin LockedInvoices(q)
  PROVE  InvoiceInv'
<1>0. TypeOK
  BY DEF InvoiceInv, ShipmentInv
<1>1. ASSUME NEW q \in Request PROVE (CommandKept(tx[q]) /\ BillKept(tx[q]) /\ PlanKept(tx[q]))'
  <2>1. CASE q = r
    <3>1. tx'[q] = t
      BY <2>1, <1>0 DEF TypeOK
    <3>. QED  BY <3>1 DEF CommandKept, BillKept, PlanKept
  <2>2. CASE q # r
    <3>1. tx'[q] = tx[q]
      BY <2>2, <1>0 DEF TypeOK
    <3>2. CommandKept(tx[q]) /\ BillKept(tx[q]) /\ PlanKept(tx[q])
      BY DEF InvoiceInv
    <3>. QED  BY <3>1, <3>2 DEF CommandKept, BillKept, PlanKept
  <2>. QED  BY <2>1, <2>2
<1>2. InvoiceLocks'
  <2>1. ASSUME NEW q \in Request, q # r
        PROVE  LockedInvoices(q)' = LockedInvoices(q)
    BY <2>1, <1>0 DEF LockedInvoices, TypeOK
  <2>2. ASSUME NEW q \in Request, q # r
        PROVE  LockedInvoices(q) \cap LockedInvoices(r)' = {}
    <3>1. tx'[r] = t
      BY <1>0 DEF TypeOK
    <3>2. LockedInvoices(r)' = IF t.bill # "NONE" THEN Touched(t.cmd) ELSE {}
      BY <3>1 DEF LockedInvoices
    <3>3. q \in Others(r)
      BY <2>2 DEF Others
    <3>. QED  BY <3>2, <3>3
  <2>. QED  BY <2>1, <2>2 DEF InvoiceLocks, InvoiceInv
<1>3. InvoicesExist' /\ CancelledWithItsInvoice'
  BY DEF InvoiceInv, InvoicesExist, CancelledWithItsInvoice
<1>. QED  BY <1>1, <1>2, <1>3 DEF InvoiceInv

LEMMA StepInvoiceInv == InvoiceInv /\ [Next]_vars => InvoiceInv'
<1>. SUFFICES ASSUME InvoiceInv, [Next]_vars PROVE InvoiceInv'
  OBVIOUS
<1>0. /\ TypeOK /\ TypeOK'
      /\ ShipmentInv /\ ShipmentInv'
      /\ \A r \in Request : CommandKept(tx[r]) /\ BillKept(tx[r]) /\ PlanKept(tx[r])
  BY StepType, StepShipmentInv DEF InvoiceInv, ShipmentInv
<1>1. ASSUME NEW s \in Shipment, CreateShipment(s) PROVE InvoiceInv'
  <2>1. /\ shipments'[s].status = "PROCESSING" /\ invoices'[s] = "UNPAID"
        /\ \A u \in Shipment : u # s => shipments'[u] = shipments[u] /\ invoices'[u] = invoices[u]
        /\ UNCHANGED tx
    BY <1>1, <1>0 DEF CreateShipment, TypeOK
  <2>2. invoices[s] = "NONE"
    BY <1>1 DEF CreateShipment, InvoiceInv, InvoicesExist
  <2>3. ASSUME NEW r \in Request PROVE (CommandKept(tx[r]) /\ BillKept(tx[r]) /\ PlanKept(tx[r]))'
    <3>1. tx[r].cmd \in Command
      BY <1>0 DEF TypeOK, Transaction
    <3>2. tx[r].bill # "NONE" => s \notin Touched(tx[r].cmd)
      BY <1>0, <2>2 DEF BillKept, Payable
    <3>3. \A u \in Touched(tx[r].cmd) : u \in Shipment
      BY <3>1, TouchedShipments
    <3>. QED  BY <1>0, <2>1, <3>2, <3>3 DEF CommandKept, BillKept, PlanKept
  <2>4. InvoiceLocks'
    BY <2>1 DEF InvoiceInv, InvoiceLocks, LockedInvoices
  <2>5. InvoicesExist' /\ CancelledWithItsInvoice'
    BY <2>1 DEF InvoiceInv, InvoicesExist, CancelledWithItsInvoice
  <2>. QED  BY <1>0, <2>3, <2>4, <2>5 DEF InvoiceInv
<1>2. ASSUME NEW s \in Shipment, RecordPayment(s) PROVE InvoiceInv'
  <2>1. /\ invoices[s] \in Payable /\ invoices'[s] \in {"PARTIALLY_PAID", "PAID"}
        /\ \A u \in Shipment : u # s => invoices'[u] = invoices[u]
        /\ \A r \in Request : s \notin LockedInvoices(r)
        /\ UNCHANGED <<shipments, tx>>
    BY <1>2, <1>0 DEF RecordPayment, TypeOK
  <2>3. ASSUME NEW r \in Request PROVE (CommandKept(tx[r]) /\ BillKept(tx[r]) /\ PlanKept(tx[r]))'
    <3>1. tx[r].cmd \in Command
      BY <1>0 DEF TypeOK, Transaction
    <3>2. tx[r].bill # "NONE" => s \notin Touched(tx[r].cmd)
      BY <2>1 DEF LockedInvoices
    <3>3. \A u \in Touched(tx[r].cmd) : u \in Shipment
      BY <3>1, TouchedShipments
    <3>. QED  BY <1>0, <2>1, <3>2, <3>3 DEF CommandKept, BillKept, PlanKept
  <2>4. InvoiceLocks'
    BY <2>1 DEF InvoiceInv, InvoiceLocks, LockedInvoices
  <2>5. InvoicesExist' /\ CancelledWithItsInvoice'
    BY <2>1 DEF InvoiceInv, InvoicesExist, CancelledWithItsInvoice, Payable
  <2>. QED  BY <1>0, <2>3, <2>4, <2>5 DEF InvoiceInv
<1>3. ASSUME NEW r \in Request, NEW c \in ParcelCommand, LoadParcels(r, c)
      PROVE InvoiceInv'
  <2>. DEFINE t == tx'[r]
  <2>1. /\ t.phase = "loaded" /\ t.cmd = c /\ t.bill = "NONE"
        /\ t.plan = [s \in Shipment |-> "NONE"]
        /\ tx' = [tx EXCEPT ![r] = t] /\ UNCHANGED <<shipments, invoices>>
        /\ t \in Transaction
    BY <1>3, <1>0 DEF LoadParcels, Idle, TypeOK
  <2>2. CommandKept(t) /\ BillKept(t) /\ PlanKept(t)
    BY <2>1, ParcelCommandShape DEF CommandKept, BillKept, PlanKept
  <2>. HIDE DEF t
  <2>. QED  BY <2>1, <2>2, <1>0, InvoiceRequestStep
<1>4. ASSUME NEW r \in Request, NEW u \in Shipment, LoadShipment(r, u)
      PROVE InvoiceInv'
  <2>. DEFINE t == tx'[r]
  <2>1. /\ t.phase = "loaded" /\ t.bill = "NONE"
        /\ t.cmd.op = "cancel" /\ t.cmd.parcels = {} /\ ~t.cmd.pays /\ t.cmd.shipments = {u}
        /\ t.plan = [s \in Shipment |-> "NONE"]
        /\ tx' = [tx EXCEPT ![r] = t] /\ UNCHANGED <<shipments, invoices>>
        /\ t \in Transaction
    BY <1>4, <1>0 DEF LoadShipment, Idle, NoCommand, TypeOK
  <2>2. CommandKept(t) /\ BillKept(t) /\ PlanKept(t)
    BY <2>1 DEF CommandKept, BillKept, PlanKept, CatchUp
  <2>. HIDE DEF t
  <2>. QED  BY <2>1, <2>2, <1>0, InvoiceRequestStep
<1>5. ASSUME NEW r \in Request, WriteParcels(r) PROVE InvoiceInv'
  <2>. DEFINE t == tx'[r]
  <2>1. /\ t.phase \in {"ready", "written"} /\ tx[r].phase = "loaded"
        /\ t.cmd = tx[r].cmd /\ t.plan = tx[r].plan /\ t.seen = tx[r].seen
        /\ CatchUp(tx[r]) => t.phase = "ready"
        /\ t.cmd.op # "cancel"
        /\ t.bill = IF t.cmd.pays THEN "PAID" ELSE "NONE"
        /\ tx' = [tx EXCEPT ![r] = t] /\ UNCHANGED <<shipments, invoices>>
        /\ t \in Transaction
    BY <1>5, <1>0 DEF WriteParcels, TypeOK, Transaction
  <2>2. t.cmd \in ParcelCommand
    BY <2>1, <1>0 DEF CommandKept
  <2>3. t.cmd.pays => \A s \in Touched(t.cmd) :
          /\ invoices[s] \in Payable
          /\ \A q \in Others(r) : s \notin LockedInvoices(q)
    <3>1. t.cmd.pays => \A p \in t.cmd.parcels : Settles(r, ShipmentOf[p])
      BY <2>1, <2>2, <1>5, ParcelCommandShape DEF WriteParcels
    <3>2. t.cmd.shipments = {}
      BY <2>2, ParcelCommandType
    <3>. QED  BY <3>1, <3>2, <2>1 DEF Settles, Touched
  <2>4. \A s \in Shipment : t.plan[s] = "NONE"
    BY <2>1, <1>0 DEF ShipmentInv, PlanAllowed
  <2>5. CommandKept(t)
    BY <2>1, <2>2 DEF CommandKept
  <2>6. BillKept(t)
    BY <2>1, <2>2, <2>3, <2>4, ParcelCommandShape DEF BillKept
  <2>7. PlanKept(t)
    BY <2>1, <2>4 DEF PlanKept, CatchUp
  <2>. HIDE DEF t
  <2>. QED  BY <2>1, <2>3, <2>5, <2>6, <2>7, <1>0, InvoiceRequestStep
<1>6. ASSUME NEW r \in Request, ReadStatuses(r) PROVE InvoiceInv'
  <2>. DEFINE t == tx'[r]
  <2>1. /\ t.phase = "derived" /\ tx[r].phase = "written"
        /\ t.cmd = tx[r].cmd /\ t.bill = tx[r].bill /\ t.seen = tx[r].seen
        /\ \A s \in Shipment : t.plan[s] # "NONE" => s \in Touched(tx[r].cmd)
        /\ \A s \in Shipment : t.plan[s] # "CANCELLED"
        /\ tx' = [tx EXCEPT ![r] = t] /\ UNCHANGED <<shipments, invoices>>
        /\ t \in Transaction
    BY <1>6, <1>0, TargetNotProcessing DEF ReadStatuses, TypeOK, Transaction, Recalculated
  <2>2. tx[r].cmd.op # "cancel"
    BY <2>1, <1>0 DEF CommandKept
  <2>3. CommandKept(t) /\ BillKept(t)
    BY <2>1, <2>2, <1>0 DEF CommandKept, BillKept
  <2>5. PlanKept(t)
    BY <2>1, <1>0 DEF PlanKept, CatchUp
  <2>4. t.bill # "NONE" =>
          \A s \in Touched(t.cmd) : \A q \in Others(r) : s \notin LockedInvoices(q)
    BY <2>1 DEF InvoiceInv, InvoiceLocks, LockedInvoices, Others
  <2>. HIDE DEF t
  <2>. QED  BY <2>1, <2>3, <2>4, <2>5, <1>0, InvoiceRequestStep
<1>7. ASSUME NEW r \in Request, WriteShipments(r) PROVE InvoiceInv'
  <2>. DEFINE t == tx'[r]
  <2>1. /\ tx[r].phase = "derived"
        /\ tx' = [tx EXCEPT ![r] = [tx[r] EXCEPT !.phase = "ready"]]
        /\ UNCHANGED <<shipments, invoices>>
    BY <1>7 DEF WriteShipments
  <2>2. /\ t.phase = "ready" /\ t \in Transaction
        /\ t.cmd = tx[r].cmd /\ t.bill = tx[r].bill /\ t.plan = tx[r].plan
        /\ t.seen = tx[r].seen
        /\ tx' = [tx EXCEPT ![r] = t]
    BY <2>1, <1>0 DEF TypeOK, Transaction
  <2>3. CommandKept(t) /\ BillKept(t)
    BY <2>1, <2>2, <1>0 DEF CommandKept, BillKept
  <2>5. PlanKept(t)
    BY <2>1, <2>2, <1>0 DEF PlanKept, CatchUp
  <2>4. t.bill # "NONE" =>
          \A s \in Touched(t.cmd) : \A q \in Others(r) : s \notin LockedInvoices(q)
    BY <2>2 DEF InvoiceInv, InvoiceLocks, LockedInvoices, Others
  <2>. HIDE DEF t
  <2>. QED  BY <2>1, <2>2, <2>3, <2>4, <2>5, <1>0, InvoiceRequestStep
<1>8. ASSUME NEW r \in Request, CancelShipment(r) PROVE InvoiceInv'
  <2>. DEFINE t == tx'[r]
  <2>1. /\ t.phase = "ready" /\ tx[r].phase = "loaded"
        /\ t.cmd = tx[r].cmd /\ t.cmd.op = "cancel" /\ t.bill = "CANCELLED"
        /\ t.plan = [s \in Shipment |-> IF s \in t.cmd.shipments THEN "CANCELLED"
                                                               ELSE "NONE"]
        /\ \A s \in t.cmd.shipments :
             /\ \A q \in Others(r) : s \notin LockedInvoices(q)
             /\ invoices[s] \in {"UNPAID", "CANCELLED"}
        /\ tx' = [tx EXCEPT ![r] = t] /\ UNCHANGED <<shipments, invoices>>
        /\ t \in Transaction
    BY <1>8, <1>0 DEF CancelShipment, TypeOK, Transaction
  <2>2. t.cmd.parcels = {} /\ Touched(t.cmd) = t.cmd.shipments /\ t.cmd.shipments \subseteq Shipment
    BY <2>1, <1>0, ParcelCommandShape DEF CommandKept, Touched, Transaction, Command
  <2>3. \A s \in Shipment : t.plan[s] = IF s \in t.cmd.shipments THEN "CANCELLED" ELSE "NONE"
    BY <2>1
  <2>4. CommandKept(t)
    BY <2>1, <1>0 DEF CommandKept
  <2>5. BillKept(t)
    BY <2>1, <2>2, <2>3 DEF BillKept
  <2>6. PlanKept(t)
    BY <2>1, <2>2, <2>3 DEF PlanKept, CatchUp
  <2>. HIDE DEF t
  <2>. QED  BY <2>1, <2>2, <2>4, <2>5, <2>6, <1>0, InvoiceRequestStep
<1>9. ASSUME NEW r \in Request, Commit(r) PROVE InvoiceInv'
  <2>. DEFINE t == tx[r]
  <2>1. /\ t.phase = "ready" /\ tx' = [tx EXCEPT ![r] = Idle]
        /\ \A s \in Shipment :
             /\ shipments'[s] = IF t.plan[s] # "NONE"
                                THEN [status |-> t.plan[s],
                                      version |-> shipments[s].version + 1]
                                ELSE shipments[s]
             /\ invoices'[s] = IF t.bill # "NONE" /\ s \in Touched(t.cmd)
                               THEN t.bill ELSE invoices[s]
    BY <1>9 DEF Commit, LockedInvoices
  <2>2. CommandKept(t) /\ BillKept(t) /\ PlanKept(t) /\ PlanAllowed(t) /\ t.cmd \in Command
    BY <1>0 DEF ShipmentInv, TypeOK, Transaction
  <2>3. Touched(t.cmd) \subseteq Shipment
    BY <2>2, TouchedShipments
  <2>4. ASSUME NEW q \in Request PROVE (CommandKept(tx[q]) /\ BillKept(tx[q]) /\ PlanKept(tx[q]))'
    <3>1. CASE q = r
      <4>1. tx'[q] = Idle
        BY <3>1, <2>1, <1>0 DEF TypeOK
      <4>. QED  BY <4>1 DEF CommandKept, BillKept, PlanKept, Idle, NoCommand
    <3>2. CASE q # r
      <4>1. tx'[q] = tx[q]
        BY <3>2, <2>1, <1>0 DEF TypeOK
      <4>2. tx[q].bill # "NONE" => \A s \in Touched(tx[q].cmd) : invoices'[s] = invoices[s]
        <5>1. LockedInvoices(q) \cap LockedInvoices(r) = {}
          BY <3>2 DEF InvoiceInv, InvoiceLocks
        <5>2. Touched(tx[q].cmd) \subseteq Shipment
          BY <1>0, TouchedShipments DEF TypeOK, Transaction
        <5>. QED  BY <5>1, <5>2, <2>1 DEF LockedInvoices
      <4>. QED  BY <4>1, <4>2, <1>0 DEF CommandKept, BillKept, PlanKept
    <3>. QED  BY <3>1, <3>2
  <2>5. InvoiceLocks'
    <3>1. LockedInvoices(r)' = {}
      BY <2>1, <1>0 DEF LockedInvoices, TypeOK, Idle
    <3>2. \A q \in Request : q # r => LockedInvoices(q)' = LockedInvoices(q)
      BY <2>1, <1>0 DEF LockedInvoices, TypeOK
    <3>. QED  BY <3>1, <3>2 DEF InvoiceLocks, InvoiceInv
  <2>6. ASSUME NEW s \in Shipment
        PROVE  /\ invoices'[s] = "NONE" <=> shipments'[s].status = "NONE"
               /\ shipments'[s].status = "CANCELLED" <=> invoices'[s] = "CANCELLED"
    <3>1. /\ invoices[s] = "NONE" <=> shipments[s].status = "NONE"
          /\ shipments[s].status = "CANCELLED" <=> invoices[s] = "CANCELLED"
      BY DEF InvoiceInv, InvoicesExist, CancelledWithItsInvoice
    <3>2. t.plan[s] # "NONE" => /\ shipments[s].status \notin {"NONE", "CANCELLED"}
                                /\ shipments'[s].status = t.plan[s]
      <4>1. ShipmentNext("CANCELLED") = {}
        BY DEF ShipmentNext
      <4>2. t.plan[s] # "NONE" => /\ t.plan[s] \in ShipmentNext(shipments[s].status)
                                  /\ t.plan[s] # "PROCESSING"
        BY <2>1, <2>2 DEF PlanAllowed
      <4>3. t.plan[s] # "NONE" => shipments[s].status \notin {"NONE", "CANCELLED"}
        <5>1. ShipmentNext("NONE") = {"PROCESSING"}
          BY NextOfNone
        <5>. QED  BY <5>1, <4>1, <4>2
      <4>4. t.plan[s] # "NONE" => shipments'[s].status = t.plan[s]
        <5>1. t.plan[s] # "NONE" =>
                shipments'[s] = [status |-> t.plan[s], version |-> shipments[s].version + 1]
          BY <2>1
        <5>. QED  BY <5>1
      <4>. QED  BY <4>3, <4>4
    <3>3. t.plan[s] = "NONE" => shipments'[s] = shipments[s]
      BY <2>1
    <3>4. CASE t.bill # "NONE" /\ s \in Touched(t.cmd)
      BY <3>4, <2>1, <2>2, <3>1, <3>2, <3>3 DEF BillKept, Payable
    <3>5. CASE t.bill = "NONE" \/ s \notin Touched(t.cmd)
      BY <3>5, <2>1, <2>2, <3>1, <3>2, <3>3 DEF BillKept
    <3>. QED  BY <3>4, <3>5
  <2>7. InvoicesExist' /\ CancelledWithItsInvoice'
    BY <2>6 DEF InvoicesExist, CancelledWithItsInvoice
  <2>. QED  BY <1>0, <2>4, <2>5, <2>7 DEF InvoiceInv
<1>10. ASSUME NEW r \in Request, RollBack(r) PROVE InvoiceInv'
  <2>1. tx' = [tx EXCEPT ![r] = Idle] /\ UNCHANGED <<shipments, invoices>>
    BY <1>10 DEF RollBack
  <2>. QED  BY <2>1, <1>0, IdleKept, EmptyRows, InvoiceRequestStep
<1>11. CASE UNCHANGED vars
  <2>1. UNCHANGED <<shipments, invoices, tx>>
    BY <1>11 DEF vars
  <2>. QED  BY <2>1, <1>0 DEF InvoiceInv, CommandKept, BillKept, PlanKept,
                              InvoiceLocks, LockedInvoices,
                              InvoicesExist, CancelledWithItsInvoice
<1>. QED  BY <1>1, <1>2, <1>3, <1>4, <1>5, <1>6, <1>7, <1>8, <1>9, <1>10, <1>11 DEF Next

\* A shipment and its invoice are cancelled together, whatever scans, payments,
\* handovers, cancellations and bulk dispatches race.
THEOREM CancelledTogether == Spec => []CancelledWithItsInvoice
<1>1. InvoiceInv => CancelledWithItsInvoice
  BY DEF InvoiceInv
<1>. QED  BY <1>1, InitInvoiceInv, StepInvoiceInv, PTL DEF Spec

-----------------------------------------------------------------------------
(* Parcels.                                                                *)
(*                                                                         *)
(* A transaction that holds a parcel's row found it at the version it had  *)
(* loaded, so what it decided on what it saw it decided on the row; a bulk *)
(* dispatch decided on what it saw alone.                                  *)

ParcelsExist ==
  \A p \in Parcel :
    /\ parcels[p].version = 0 <=> shipments[ShipmentOf[p]].status = "NONE"
    /\ parcels[p].version = 0 <=> parcels[p].status = "NONE"
    /\ parcels[p].version = 0 => movements[p] = <<>>
    /\ parcels[p].version # 0 => parcels[p].version = Len(movements[p]) + 1
    /\ parcels[p].version # 0 /\ movements[p] = <<>> => parcels[p].status = "PROCESSING"
    /\ parcels[p].status # "RETURNED"

SeenKept(t) ==
  \A p \in Parcel :
    /\ t.seen[p].version <= parcels[p].version
    /\ t.seen[p].version = parcels[p].version /\ t.seen[p].version # 0 => t.seen[p] = parcels[p]

RuleKept(t) ==
  \A p \in t.cmd.parcels :
    /\ t.seen[p].version # 0
    /\ Wanted(t.cmd, t.seen[p]) \in ParcelNext(t.seen[p].status)

WrittenKept(t) ==
  t.phase \in {"written", "derived", "ready"} /\ t.cmd.op # "bulkReady" =>
    \A p \in Moved(t) : t.seen[p] = parcels[p]

ParcelLocks ==
  \A r, q \in Request : r # q => LockedParcels(r) \cap LockedParcels(q) = {}

\* Only a handover collects a parcel, and its proof is written with it.
CollectedIsProved == \A p \in Parcel : parcels[p].status = "COLLECTED" => p \in pods

ParcelInv ==
  /\ InvoiceInv
  /\ ParcelsExist
  /\ \A r \in Request : SeenKept(tx[r]) /\ RuleKept(tx[r]) /\ WrittenKept(tx[r])
  /\ ParcelLocks
  /\ JourneyIsTheParcel
  /\ CollectedIsProved

\* The parcel takes an edge of its lifecycle.
TakesEdge(p) ==
  /\ parcels'[p].status \in ParcelNext(parcels[p].status)
  /\ movements'[p] = Append(movements[p], [from |-> parcels[p].status, to |-> parcels'[p].status])

\* A dispatch makes it ready, whatever its status is.
IsDispatched(p) ==
  /\ parcels'[p].status = "READY_FOR_DISPATCH"
  /\ movements'[p] = Append(movements[p], [from |-> "PROCESSING", to |-> parcels'[p].status])

ChangesParcel(p) ==
  /\ parcels[p].version # 0
  /\ parcels'[p].version = parcels[p].version + 1
  /\ parcels'[p].status \notin {"NONE", "RETURNED"}
  /\ TakesEdge(p) \/ IsDispatched(p)

LEMMA IdleSeesNothing == TypeOK => SeenKept(Idle) /\ RuleKept(Idle) /\ WrittenKept(Idle)
<1>1. /\ Idle.phase = "idle" /\ Idle.cmd.parcels = {}
      /\ \A p \in Parcel : Idle.seen[p].version = 0
  BY DEF Idle, NoCommand, NoParcel
<1>. QED  BY <1>1 DEF TypeOK, ParcelRow, SeenKept, RuleKept, WrittenKept

\* No command that moves a parcel is a late proof: what is moved is what is named.
LEMMA AllAreMoved ==
  ASSUME NEW t, RuleKept(t)
  PROVE  Moved(t) = t.cmd.parcels
<1>1. ASSUME CatchUp(t), NEW p \in t.cmd.parcels PROVE FALSE
  <2>1. t.seen[p].status = "COLLECTED"
    BY <1>1 DEF CatchUp
  <2>2. Wanted(t.cmd, t.seen[p]) \in ParcelNext("COLLECTED")
    BY <2>1 DEF RuleKept
  <2>. QED  BY <2>2 DEF ParcelNext
<1>2. CatchUp(t) => t.cmd.parcels = {}
  BY <1>1
<1>. QED  BY <1>2 DEF Moved

\* What a commit does to a parcel it moves: the rule of the aggregate was
\* applied to this very row, but for the dispatch.
LEMMA CommitMoves ==
  ASSUME ParcelInv, NEW r \in Request, Commit(r), NEW p \in Parcel
  PROVE  /\ p \in Moved(tx[r]) =>
              /\ ChangesParcel(p)
              /\ tx[r].cmd.op = "bulkReady" => IsDispatched(p)
              /\ tx[r].cmd.op # "bulkReady" => TakesEdge(p)
              /\ parcels'[p].status = Wanted(tx[r].cmd, tx[r].seen[p])
         /\ p \notin Moved(tx[r]) => UNCHANGED <<parcels[p], movements[p]>>
<1>. DEFINE t == tx[r]
            wanted == Wanted(t.cmd, t.seen[p])
<1>0. /\ TypeOK
      /\ t \in Transaction /\ t.cmd \in Command
      /\ t.seen[p] \in ParcelRow /\ parcels[p] \in ParcelRow
      /\ CommandKept(t) /\ SeenKept(t) /\ RuleKept(t) /\ WrittenKept(t)
  BY DEF ParcelInv, InvoiceInv, ShipmentInv, TypeOK, Transaction
<1>1. /\ t.phase = "ready"
      /\ parcels'[p] = IF p \in Moved(t) THEN NewRow(t.cmd, t.seen[p], parcels[p]) ELSE parcels[p]
      /\ movements'[p] = IF p \in Moved(t)
                         THEN Append(movements[p], [from |-> t.seen[p].status, to |-> wanted])
                         ELSE movements[p]
  BY <1>0 DEF Commit, TypeOK
<1>2. ASSUME p \in Moved(t)
      PROVE  /\ ChangesParcel(p)
             /\ t.cmd.op = "bulkReady" => IsDispatched(p)
             /\ t.cmd.op # "bulkReady" => TakesEdge(p)
             /\ parcels'[p].status = wanted
  <2>1. /\ t.seen[p].version # 0
        /\ wanted \in ParcelNext(t.seen[p].status)
        /\ t.cmd.op # "bulkReady" => t.seen[p] = parcels[p]
    BY <1>0, <1>1, <1>2, AllAreMoved DEF RuleKept, WrittenKept
  <2>2. parcels[p].version # 0 /\ parcels[p].version \in Nat
    BY <2>1, <1>0 DEF SeenKept, ParcelRow
  <2>3. wanted \notin {"NONE", "RETURNED"}
    BY DEF Wanted
  <2>4. parcels'[p].status = wanted /\ parcels'[p].version = parcels[p].version + 1
    BY <1>1, <1>2 DEF NewRow
  <2>5. ASSUME t.cmd.op = "bulkReady" PROVE IsDispatched(p)
    <3>1. wanted = "READY_FOR_DISPATCH"
      BY <2>5 DEF Wanted
    <3>2. t.seen[p].status = "PROCESSING"
      BY <2>1, <3>1 DEF ParcelNext
    <3>. QED  BY <1>1, <1>2, <2>4, <3>1, <3>2 DEF IsDispatched
  <2>6. ASSUME t.cmd.op # "bulkReady" PROVE TakesEdge(p)
    BY <1>1, <1>2, <2>1, <2>4, <2>6 DEF TakesEdge
  <2>. QED  BY <2>2, <2>3, <2>4, <2>5, <2>6 DEF ChangesParcel
<1>. QED  BY <1>1, <1>2

LEMMA InitParcelInv == Init => ParcelInv
<1>. SUFFICES ASSUME Init PROVE ParcelInv
  OBVIOUS
<1>1. \A r \in Request : tx[r] = Idle
  BY DEF Init
<1>2. ParcelsExist /\ JourneyIsTheParcel /\ CollectedIsProved
  BY ShipmentOfAssumption DEF Init, ParcelsExist, JourneyIsTheParcel, CollectedIsProved,
                              NoParcel, NoShipment
<1>3. ParcelLocks
  BY <1>1 DEF ParcelLocks, LockedParcels, Idle
<1>. QED  BY <1>1, <1>2, <1>3, InitInvoiceInv, InitType, IdleSeesNothing DEF ParcelInv

\* A step that changes what one request is doing, no parcel and no shipment.
LEMMA ParcelRequestStep ==
  ASSUME ParcelInv, InvoiceInv', UNCHANGED <<parcels, movements, shipments, pods>>,
         NEW r \in Request, NEW t,
         tx' = [tx EXCEPT ![r] = t],
         SeenKept(t), RuleKept(t), WrittenKept(t),
         t.phase \in {"written", "derived", "ready"} =>
           \A p \in Moved(t) : \A q \in Others(r) : p \notin LockedParcels(q)
  PROVE  ParcelInv'
<1>0. TypeOK
  BY DEF ParcelInv, InvoiceInv, ShipmentInv
<1>1. ASSUME NEW q \in Request PROVE (SeenKept(tx[q]) /\ RuleKept(tx[q]) /\ WrittenKept(tx[q]))'
  <2>1. CASE q = r
    <3>1. tx'[q] = t
      BY <2>1, <1>0 DEF TypeOK
    <3>. QED  BY <3>1 DEF SeenKept, RuleKept, WrittenKept
  <2>2. CASE q # r
    <3>1. tx'[q] = tx[q]
      BY <2>2, <1>0 DEF TypeOK
    <3>2. SeenKept(tx[q]) /\ RuleKept(tx[q]) /\ WrittenKept(tx[q])
      BY DEF ParcelInv
    <3>. QED  BY <3>1, <3>2 DEF SeenKept, RuleKept, WrittenKept
  <2>. QED  BY <2>1, <2>2
<1>2. ParcelLocks'
  <2>1. ASSUME NEW q \in Request, q # r PROVE LockedParcels(q)' = LockedParcels(q)
    BY <2>1, <1>0 DEF LockedParcels, TypeOK
  <2>2. ASSUME NEW q \in Request, q # r PROVE LockedParcels(q) \cap LockedParcels(r)' = {}
    <3>1. tx'[r] = t
      BY <1>0 DEF TypeOK
    <3>2. LockedParcels(r)' = IF t.phase \in {"written", "derived", "ready"} THEN Moved(t) ELSE {}
      BY <3>1 DEF LockedParcels
    <3>3. q \in Others(r)
      BY <2>2 DEF Others
    <3>. QED  BY <3>2, <3>3
  <2>. QED  BY <2>1, <2>2 DEF ParcelLocks, ParcelInv
<1>3. ParcelsExist' /\ JourneyIsTheParcel' /\ CollectedIsProved'
  BY DEF ParcelInv, ParcelsExist, JourneyIsTheParcel, WrittenOver, CollectedIsProved
<1>. QED  BY <1>1, <1>2, <1>3 DEF ParcelInv

\* What a journey is: a chain of status changes that breaks only at a dispatch.
Chain(m) ==
  /\ m # <<>>
  /\ m[1].from = "PROCESSING"
  /\ \A i \in 2 .. Len(m) : m[i].from = m[i - 1].to \/ m[i].to = "READY_FOR_DISPATCH"

LEMMA JourneyIsAChain ==
  JourneyIsTheParcel <=>
    \A p \in Parcel : movements[p] # <<>> =>
      /\ Chain(movements[p])
      /\ parcels[p].status = movements[p][Len(movements[p])].to
      /\ parcels[p].version = Len(movements[p]) + 1
BY DEF JourneyIsTheParcel, WrittenOver, Chain

\* A journey is added to, one entry for a change.
LEMMA OneEntryMore ==
  ASSUME TypeOK, NEW p \in Parcel, ChangesParcel(p)
  PROVE  LET m == movements[p]
             n == movements'[p]
         IN  /\ Len(m) \in Nat /\ Len(n) = Len(m) + 1 /\ n # <<>>
             /\ \A i \in 1 .. Len(m) : n[i] = m[i]
             /\ n[Len(m) + 1].to = parcels'[p].status
             /\ \/ TakesEdge(p) /\ n[Len(m) + 1].from = parcels[p].status
                \/ IsDispatched(p) /\ n[Len(m) + 1].from = "PROCESSING"
<1>1. movements[p] \in Seq(Movement) /\ Len(movements[p]) \in Nat
  BY LenProperties DEF TypeOK
<1>2. CASE TakesEdge(p)
  BY <1>1, <1>2 DEF TakesEdge
<1>3. CASE IsDispatched(p)
  BY <1>1, <1>3 DEF IsDispatched
<1>. QED  BY <1>2, <1>3 DEF ChangesParcel

\* One more change leaves a chain that ends at the parcel's status.
LEMMA ChainGrows ==
  ASSUME TypeOK, ParcelsExist, JourneyIsTheParcel, NEW p \in Parcel, ChangesParcel(p)
  PROVE  LET m == movements'[p]
         IN  /\ Chain(m)
             /\ parcels'[p].status = m[Len(m)].to
             /\ parcels'[p].version = Len(m) + 1
<1>. DEFINE m == movements[p]
            n == movements'[p]
            e == n[Len(m) + 1]
<1>. SUFFICES /\ Chain(n)
              /\ parcels'[p].status = n[Len(n)].to
              /\ parcels'[p].version = Len(n) + 1
  OBVIOUS
<1>1. /\ Len(m) \in Nat /\ Len(n) = Len(m) + 1 /\ n # <<>>
      /\ \A i \in 1 .. Len(m) : n[i] = m[i]
      /\ e.to = parcels'[p].status
      /\ \/ e.from = parcels[p].status
         \/ e.from = "PROCESSING" /\ e.to = "READY_FOR_DISPATCH"
  BY OneEntryMore DEF IsDispatched
<1>2. parcels[p].version = Len(m) + 1 /\ parcels'[p].version = Len(n) + 1
  BY <1>1 DEF ParcelsExist, ChangesParcel
<1>3. CASE m = <<>>
  <2>1. parcels[p].status = "PROCESSING" /\ Len(m) = 0
    BY <1>3 DEF ParcelsExist, ChangesParcel
  <2>2. Len(n) = 1 /\ n[1] = e /\ e.from = "PROCESSING"
    BY <1>1, <2>1
  <2>3. 2 .. Len(n) = {}
    BY <2>2
  <2>4. n[Len(n)] = e
    BY <2>2
  <2>. HIDE DEF n, m, e
  <2>. QED  BY <1>1, <1>2, <2>2, <2>3, <2>4 DEF Chain
<1>4. CASE m # <<>>
  <2>1. Chain(m) /\ parcels[p].status = m[Len(m)].to
    BY <1>4, JourneyIsAChain
  <2>2. Len(m) >= 1
    BY <1>4, <1>1, EmptySeq DEF TypeOK
  <2>3. n[1] = m[1] /\ n[Len(m)] = m[Len(m)]
    BY <1>1, <2>2
  <2>4. ASSUME NEW i \in 2 .. Len(n)
        PROVE  n[i].from = n[i - 1].to \/ n[i].to = "READY_FOR_DISPATCH"
    <3>. HIDE DEF n, m
    <3>1. CASE i = Len(m) + 1
      <4>1. n[i] = e /\ n[i - 1] = m[Len(m)]
        BY <3>1, <1>1, <2>3
      <4>2. e.from = parcels[p].status \/ e.to = "READY_FOR_DISPATCH"
        BY <1>1
      <4>. HIDE DEF e
      <4>. QED  BY <4>1, <4>2, <2>1
    <3>2. CASE i # Len(m) + 1
      <4>1. i \in 2 .. Len(m) /\ i \in 1 .. Len(m) /\ i - 1 \in 1 .. Len(m)
        BY <3>2, <1>1
      <4>. QED  BY <4>1, <1>1, <2>1 DEF Chain
    <3>. QED  BY <3>1, <3>2
  <2>5. n[Len(n)] = e
    BY <1>1
  <2>6. n[1].from = "PROCESSING"
    BY <2>1, <2>3 DEF Chain
  <2>. HIDE DEF n, m, e
  <2>. QED  BY <1>1, <1>2, <2>4, <2>5, <2>6 DEF Chain
<1>. QED  BY <1>3, <1>4

\* A row of a shipment that is written was inserted before.
LEMMA CommitInsertsNothing ==
  ASSUME ShipmentInv, NEW r \in Request, Commit(r), NEW s \in Shipment
  PROVE  shipments'[s].status = "NONE" <=> shipments[s].status = "NONE"
<1>. DEFINE plan == tx[r].plan[s]
<1>1. shipments'[s] = IF plan # "NONE" THEN [status |-> plan, version |-> shipments[s].version + 1]
                                      ELSE shipments[s]
  BY DEF Commit
<1>2. plan # "NONE" => shipments'[s].status = plan
  BY <1>1
<1>3. plan # "NONE" => plan \in ShipmentNext(shipments[s].status) /\ plan # "PROCESSING"
  BY DEF ShipmentInv, PlanAllowed, Commit
<1>4. ShipmentNext("NONE") = {"PROCESSING"}
  BY NextOfNone
<1>. QED  BY <1>1, <1>2, <1>3, <1>4

LEMMA StepParcelInv == ParcelInv /\ [Next]_vars => ParcelInv'
<1>. SUFFICES ASSUME ParcelInv, [Next]_vars PROVE ParcelInv'
  OBVIOUS
<1>0. /\ TypeOK /\ TypeOK'
      /\ ShipmentInv
      /\ InvoiceInv /\ InvoiceInv'
      /\ \A r \in Request : /\ CommandKept(tx[r])
                            /\ SeenKept(tx[r]) /\ RuleKept(tx[r]) /\ WrittenKept(tx[r])
  BY StepType, StepInvoiceInv DEF ParcelInv, InvoiceInv, ShipmentInv
<1>1. ASSUME NEW s \in Shipment, CreateShipment(s) PROVE ParcelInv'
  <2>1. /\ \A p \in Parcel :
             parcels'[p] = IF ShipmentOf[p] = s
                           THEN [status |-> "PROCESSING", unit |-> Origin, version |-> 1]
                           ELSE parcels[p]
        /\ shipments'[s].status = "PROCESSING" /\ shipments[s].status = "NONE"
        /\ \A u \in Shipment : u # s => shipments'[u] = shipments[u]
        /\ UNCHANGED <<movements, tx, pods>>
    BY <1>1, <1>0 DEF CreateShipment, TypeOK
  <2>2. ASSUME NEW p \in Parcel
        PROVE  /\ ShipmentOf[p] = s => /\ parcels[p].version = 0 /\ parcels[p].status = "NONE"
                                       /\ movements[p] = <<>>
                                       /\ parcels'[p].version = 1
                                       /\ parcels'[p].status = "PROCESSING"
               /\ ShipmentOf[p] # s => parcels'[p] = parcels[p]
    BY <2>1 DEF ParcelInv, ParcelsExist
  <2>3. ParcelsExist'
    <3>1. Len(<<>>) = 0
      OBVIOUS
    <3>2. \A p \in Parcel : ShipmentOf[p] \in Shipment
      BY ShipmentOfAssumption
    <3>. QED  BY <2>1, <2>2, <3>1, <3>2 DEF ParcelInv, ParcelsExist
  <2>4. JourneyIsTheParcel' /\ CollectedIsProved'
    BY <2>1, <2>2 DEF ParcelInv, JourneyIsTheParcel, WrittenOver, CollectedIsProved
  <2>5. ASSUME NEW r \in Request
        PROVE  (SeenKept(tx[r]) /\ RuleKept(tx[r]) /\ WrittenKept(tx[r]))'
    <3>1. \A p \in Parcel : tx[r].seen[p].version \in Nat
      BY <1>0 DEF TypeOK, Transaction, ParcelRow
    <3>2. SeenKept(tx[r])'
      BY <1>0, <2>1, <2>2, <3>1 DEF SeenKept
    <3>3. \A p \in Moved(tx[r]) : p \in Parcel /\ tx[r].seen[p].version # 0
      <4>1. Moved(tx[r]) = tx[r].cmd.parcels /\ tx[r].cmd.parcels \subseteq Parcel
        BY <1>0, AllAreMoved DEF TypeOK, Transaction, Command
      <4>. QED  BY <1>0, <4>1 DEF RuleKept
    <3>4. WrittenKept(tx[r])'
      BY <1>0, <2>1, <2>2, <3>3 DEF WrittenKept
    <3>. QED  BY <1>0, <2>1, <3>2, <3>4 DEF RuleKept
  <2>6. ParcelLocks'
    BY <2>1 DEF ParcelInv, ParcelLocks, LockedParcels
  <2>. QED  BY <1>0, <2>3, <2>4, <2>5, <2>6 DEF ParcelInv
<1>2. ASSUME UNCHANGED <<parcels, movements, shipments, pods, tx>> PROVE ParcelInv'
  BY <1>2, <1>0 DEF ParcelInv, ParcelsExist, SeenKept, RuleKept, WrittenKept, ParcelLocks,
                    LockedParcels, JourneyIsTheParcel, WrittenOver, CollectedIsProved
<1>3. ASSUME NEW r \in Request, NEW c \in ParcelCommand, LoadParcels(r, c) PROVE ParcelInv'
  <2>. DEFINE t == tx'[r]
  <2>1. /\ t.phase = "loaded" /\ t.cmd = c
        /\ t.seen = [p \in Parcel |-> IF p \in c.parcels THEN parcels[p] ELSE NoParcel]
        /\ tx' = [tx EXCEPT ![r] = t] /\ UNCHANGED <<parcels, movements, shipments, pods>>
    BY <1>3, <1>0 DEF LoadParcels, Idle, TypeOK
  <2>2. /\ c.parcels \subseteq Parcel
        /\ \A p \in c.parcels : /\ t.seen[p] = parcels[p]
                                 /\ parcels[p].version # 0
                                 /\ Wanted(c, parcels[p]) \in ParcelNext(parcels[p].status)
    <3>1. c.parcels \subseteq Parcel /\ c.op # "cancel"
      BY ParcelCommandType DEF Command
    <3>2. ASSUME NEW p \in c.parcels
          PROVE  /\ parcels[p].version # 0
                 /\ Wanted(c, parcels[p]) \in ParcelNext(parcels[p].status)
      <4>1. parcels[p].version # 0
        BY <1>3, MaxVersionAssumption DEF LoadParcels
      <4>2. CASE c.op # "deliver"
        BY <1>3, <4>2 DEF LoadParcels, RuleHolds
      <4>3. CASE c.op = "deliver"
        <5>1. p \notin pods /\ parcels[p].status \in {"READY_FOR_COLLECTION", "COLLECTED"}
          BY <1>3, <4>3 DEF LoadParcels
        <5>2. parcels[p].status = "READY_FOR_COLLECTION"
          BY <5>1, <3>1 DEF ParcelInv, CollectedIsProved
        <5>3. Wanted(c, parcels[p]) = "COLLECTED"
          BY <4>3 DEF Wanted
        <5>. QED  BY <4>1, <5>2, <5>3 DEF ParcelNext
      <4>. QED  BY <4>1, <4>2, <4>3
    <3>. QED  BY <2>1, <3>1, <3>2
  <2>3. SeenKept(t)
    BY <2>1, <2>2, <1>0 DEF SeenKept, NoParcel, TypeOK, ParcelRow
  <2>4. RuleKept(t) /\ WrittenKept(t)
    BY <2>1, <2>2 DEF RuleKept, WrittenKept
  <2>. HIDE DEF t
  <2>. QED  BY <2>1, <2>3, <2>4, <1>0, ParcelRequestStep
<1>4. ASSUME NEW r \in Request, NEW u \in Shipment, LoadShipment(r, u) PROVE ParcelInv'
  <2>. DEFINE t == tx'[r]
  <2>1. /\ t.phase = "loaded" /\ t.cmd.parcels = {}
        /\ t.seen = [p \in Parcel |-> NoParcel]
        /\ tx' = [tx EXCEPT ![r] = t] /\ UNCHANGED <<parcels, movements, shipments, pods>>
    BY <1>4, <1>0 DEF LoadShipment, Idle, NoCommand, TypeOK
  <2>2. SeenKept(t) /\ RuleKept(t) /\ WrittenKept(t)
    BY <2>1, <1>0 DEF SeenKept, RuleKept, WrittenKept, NoParcel, TypeOK, ParcelRow
  <2>. HIDE DEF t
  <2>. QED  BY <2>1, <2>2, <1>0, ParcelRequestStep
<1>5. ASSUME NEW r \in Request, WriteParcels(r) PROVE ParcelInv'
  <2>. DEFINE t == tx'[r]
  <2>1. /\ tx[r].phase = "loaded"
        /\ t.cmd = tx[r].cmd /\ t.seen = tx[r].seen /\ t.cmd.op # "cancel"
        /\ tx' = [tx EXCEPT ![r] = t] /\ UNCHANGED <<parcels, movements, shipments, pods>>
    BY <1>5, <1>0 DEF WriteParcels, TypeOK, Transaction
  <2>2. Moved(t) = Moved(tx[r])
    BY <2>1 DEF Moved, CatchUp
  <2>3. t.cmd \in ParcelCommand /\ t.cmd.parcels \subseteq Parcel
    BY <2>1, <1>0, ParcelCommandType DEF CommandKept, TypeOK, Transaction, Command
  <2>4. /\ \A p \in Moved(t) : \A q \in Others(r) : p \notin LockedParcels(q)
        /\ t.cmd.op # "bulkReady" => \A p \in Moved(t) : parcels[p].version = t.seen[p].version
    BY <1>5, <2>1, <2>2, <2>3 DEF WriteParcels, ParcelGuard
  <2>5. SeenKept(t) /\ RuleKept(t)
    BY <2>1, <1>0 DEF SeenKept, RuleKept
  <2>. HIDE DEF t
  <2>6. WrittenKept(t)
    <3>1. ASSUME NEW p \in Moved(t), t.cmd.op # "bulkReady" PROVE t.seen[p] = parcels[p]
      <4>1. p \in t.cmd.parcels /\ p \in Parcel
        BY <2>3 DEF Moved
      <4>2. t.seen[p].version # 0
        BY <4>1, <2>5 DEF RuleKept
      <4>3. t.seen[p].version = parcels[p].version
        BY <2>4, <3>1
      <4>. QED  BY <4>1, <4>2, <4>3, <2>5 DEF SeenKept
    <3>. QED  BY <3>1 DEF WrittenKept
  <2>. QED  BY <2>1, <2>4, <2>5, <2>6, <1>0, ParcelRequestStep
<1>6. ASSUME NEW r \in Request, ReadStatuses(r) \/ WriteShipments(r) PROVE ParcelInv'
  <2>. DEFINE t == tx'[r]
  <2>1. /\ tx[r].phase \in {"written", "derived"}
        /\ t.cmd = tx[r].cmd /\ t.seen = tx[r].seen
        /\ tx' = [tx EXCEPT ![r] = t] /\ UNCHANGED <<parcels, movements, shipments, pods>>
    <3>1. CASE ReadStatuses(r)
      BY <3>1, <1>0 DEF ReadStatuses, TypeOK, Transaction
    <3>2. CASE WriteShipments(r)
      <4>1. /\ tx[r].phase = "derived"
            /\ tx' = [tx EXCEPT ![r] = [tx[r] EXCEPT !.phase = "ready"]]
            /\ UNCHANGED <<parcels, movements, shipments, pods>>
        BY <3>2 DEF WriteShipments
      <4>. QED  BY <4>1, <1>0 DEF TypeOK, Transaction
    <3>. QED  BY <1>6, <3>1, <3>2
  <2>2. Moved(t) = Moved(tx[r])
    BY <2>1 DEF Moved, CatchUp
  <2>3. \A p \in Moved(t) : \A q \in Others(r) : p \notin LockedParcels(q)
    BY <2>1, <2>2 DEF ParcelInv, ParcelLocks, LockedParcels, Others
  <2>4. SeenKept(t) /\ RuleKept(t)
    BY <2>1, <1>0 DEF SeenKept, RuleKept
  <2>5. WrittenKept(t)
    BY <2>1, <2>2, <1>0 DEF WrittenKept
  <2>. HIDE DEF t
  <2>. QED  BY <2>1, <2>3, <2>4, <2>5, <1>0, ParcelRequestStep
<1>7. ASSUME NEW r \in Request, CancelShipment(r) PROVE ParcelInv'
  <2>. DEFINE t == tx'[r]
  <2>1. /\ tx[r].phase = "loaded" /\ tx[r].cmd.op = "cancel"
        /\ t.cmd = tx[r].cmd /\ t.seen = tx[r].seen
        /\ tx' = [tx EXCEPT ![r] = t] /\ UNCHANGED <<parcels, movements, shipments, pods>>
    BY <1>7, <1>0 DEF CancelShipment, TypeOK, Transaction
  <2>2. t.cmd.parcels = {} /\ Moved(t) = {}
    BY <2>1, <1>0, ParcelCommandShape DEF CommandKept, Moved
  <2>3. SeenKept(t) /\ RuleKept(t) /\ WrittenKept(t)
    BY <2>1, <2>2, <1>0 DEF SeenKept, RuleKept, WrittenKept
  <2>. HIDE DEF t
  <2>. QED  BY <2>1, <2>2, <2>3, <1>0, ParcelRequestStep
<1>8. ASSUME NEW r \in Request, RollBack(r) PROVE ParcelInv'
  <2>1. tx' = [tx EXCEPT ![r] = Idle] /\ UNCHANGED <<parcels, movements, shipments, pods>>
    BY <1>8 DEF RollBack
  <2>2. Idle.phase = "idle"
    BY DEF Idle
  <2>. QED  BY <2>1, <2>2, <1>0, IdleSeesNothing, ParcelRequestStep
<1>9. ASSUME NEW r \in Request, Commit(r) PROVE ParcelInv'
  <2>1. \A p \in Parcel :
          /\ p \in Moved(tx[r]) => ChangesParcel(p)
          /\ p \notin Moved(tx[r]) => UNCHANGED <<parcels[p], movements[p]>>
    BY <1>9, CommitMoves
  <2>2. tx[r].phase = "ready" /\ tx' = [tx EXCEPT ![r] = Idle]
    BY <1>9 DEF Commit
  <2>3. ASSUME NEW q \in Request
        PROVE  (SeenKept(tx[q]) /\ RuleKept(tx[q]) /\ WrittenKept(tx[q]))'
    <3>1. CASE q = r
      <4>1. tx'[q] = Idle
        BY <3>1, <2>2, <1>0 DEF TypeOK
      <4>2. (SeenKept(Idle) /\ RuleKept(Idle) /\ WrittenKept(Idle))'
        <5>1. /\ Idle.phase = "idle" /\ Idle.cmd.parcels = {}
              /\ \A p \in Parcel : Idle.seen[p].version = 0
          BY DEF Idle, NoCommand, NoParcel
        <5>. QED  BY <5>1, <1>0 DEF TypeOK, ParcelRow, SeenKept, RuleKept, WrittenKept
      <4>. QED  BY <4>1, <4>2 DEF SeenKept, RuleKept, WrittenKept
    <3>2. CASE q # r
      <4>1. tx'[q] = tx[q]
        BY <3>2, <2>2, <1>0 DEF TypeOK
      <4>2. \A p \in Parcel : tx[q].seen[p].version \in Nat /\ parcels[p].version \in Nat
        BY <1>0 DEF TypeOK, Transaction, ParcelRow
      <4>3. SeenKept(tx[q])'
        <5>1. ASSUME NEW p \in Parcel
              PROVE  /\ tx[q].seen[p].version <= parcels'[p].version
                     /\ tx[q].seen[p].version = parcels'[p].version /\ tx[q].seen[p].version # 0 =>
                          tx[q].seen[p] = parcels'[p]
          <6>1. SeenKept(tx[q])
            BY <1>0
          <6>2. CASE p \in Moved(tx[r])
            <7>1. parcels'[p].version = parcels[p].version + 1
              BY <6>2, <2>1 DEF ChangesParcel
            <7>. QED  BY <6>1, <7>1, <4>2 DEF SeenKept
          <6>3. CASE p \notin Moved(tx[r])
            BY <6>1, <6>3, <2>1 DEF SeenKept
          <6>. QED  BY <6>2, <6>3
        <5>. QED  BY <4>1, <5>1 DEF SeenKept
      <4>4. WrittenKept(tx[q])'
        <5>1. tx[q].phase \in {"written", "derived", "ready"} =>
                \A p \in Moved(tx[q]) : p \in Parcel /\ p \notin Moved(tx[r])
          <6>1. LockedParcels(q) \cap LockedParcels(r) = {}
            BY <3>2 DEF ParcelInv, ParcelLocks
          <6>2. Moved(tx[q]) \subseteq Parcel
            BY <1>0 DEF Moved, TypeOK, Transaction, Command
          <6>. QED  BY <6>1, <6>2, <2>2 DEF LockedParcels
        <5>2. WrittenKept(tx[q])
          BY <1>0
        <5>. QED  BY <4>1, <5>1, <5>2, <2>1 DEF WrittenKept
      <4>5. RuleKept(tx[q])'
        BY <4>1, <1>0 DEF RuleKept
      <4>. QED  BY <4>3, <4>4, <4>5
    <3>. QED  BY <3>1, <3>2
  <2>4. ParcelLocks'
    <3>1. LockedParcels(r)' = {}
      BY <2>2, <1>0 DEF LockedParcels, TypeOK, Idle
    <3>2. \A q \in Request : q # r => LockedParcels(q)' = LockedParcels(q)
      BY <2>2, <1>0 DEF LockedParcels, TypeOK
    <3>. QED  BY <3>1, <3>2 DEF ParcelLocks, ParcelInv
  <2>5. ASSUME NEW p \in Parcel
        PROVE  LET m == movements'[p]
               IN  /\ m # <<>> => /\ Chain(m)
                                  /\ parcels'[p].status = m[Len(m)].to
                                  /\ parcels'[p].version = Len(m) + 1
                   /\ p \in Moved(tx[r]) => m # <<>> /\ parcels'[p].version = Len(m) + 1
    <3>1. CASE p \in Moved(tx[r])
      <4>1. ChangesParcel(p)
        BY <3>1, <2>1
      <4>2. /\ Chain(movements'[p])
            /\ parcels'[p].status = movements'[p][Len(movements'[p])].to
            /\ parcels'[p].version = Len(movements'[p]) + 1
        BY <4>1, <1>0, ChainGrows DEF ParcelInv
      <4>. QED  BY <4>2 DEF Chain
    <3>2. CASE p \notin Moved(tx[r])
      BY <3>2, <2>1, JourneyIsAChain DEF ParcelInv
    <3>. QED  BY <3>1, <3>2
  <2>6. JourneyIsTheParcel'
    BY <2>5 DEF JourneyIsTheParcel, WrittenOver, Chain
  <2>8. CollectedIsProved'
    <3>1. ASSUME NEW p \in Parcel, parcels'[p].status = "COLLECTED", p \notin pods
          PROVE  p \in pods'
      <4>1. p \in Moved(tx[r])
        BY <2>1, <3>1 DEF ParcelInv, CollectedIsProved
      <4>2. Wanted(tx[r].cmd, tx[r].seen[p]) = "COLLECTED" /\ p \in tx[r].cmd.parcels
        BY <1>0, <1>9, <3>1, <4>1, CommitMoves, AllAreMoved
      <4>3. tx[r].cmd.op \in {"deliver", "cancel"}
        BY <1>0, <4>2 DEF Wanted, TypeOK, Transaction, Command, Commands
      <4>4. tx[r].cmd.op # "cancel"
        BY <1>0, <2>2, <4>2, ParcelCommandShape DEF CommandKept
      <4>. QED  BY <1>9, <4>2, <4>3, <4>4 DEF Commit
    <3>2. pods \subseteq pods'
      BY <1>9 DEF Commit
    <3>. QED  BY <3>1, <3>2 DEF CollectedIsProved
  <2>7. ParcelsExist'
    <3>1. ASSUME NEW p \in Parcel
          PROVE  /\ parcels'[p].version = 0 <=> shipments'[ShipmentOf[p]].status = "NONE"
                 /\ parcels'[p].version = 0 <=> parcels'[p].status = "NONE"
                 /\ parcels'[p].version = 0 => movements'[p] = <<>>
                 /\ parcels'[p].version # 0 => parcels'[p].version = Len(movements'[p]) + 1
                 /\ parcels'[p].version # 0 /\ movements'[p] = <<>> =>
                      parcels'[p].status = "PROCESSING"
                 /\ parcels'[p].status # "RETURNED"
      <4>1. ShipmentOf[p] \in Shipment /\ parcels[p].version \in Nat
        BY ShipmentOfAssumption, <1>0 DEF TypeOK, ParcelRow
      <4>2. shipments'[ShipmentOf[p]].status = "NONE" <=> shipments[ShipmentOf[p]].status = "NONE"
        BY <4>1, <1>0, <1>9, CommitInsertsNothing
      <4>3. CASE p \in Moved(tx[r])
        <5>1. /\ parcels'[p].version # 0 /\ parcels[p].version # 0
              /\ parcels'[p].status \notin {"NONE", "RETURNED"}
          BY <4>1, <4>3, <2>1 DEF ChangesParcel
        <5>2. movements'[p] # <<>> /\ parcels'[p].version = Len(movements'[p]) + 1
          BY <4>3, <2>5
        <5>3. shipments[ShipmentOf[p]].status # "NONE"
          BY <5>1 DEF ParcelInv, ParcelsExist
        <5>. QED  BY <4>2, <5>1, <5>2, <5>3
      <4>4. CASE p \notin Moved(tx[r])
        BY <4>2, <4>4, <2>1 DEF ParcelInv, ParcelsExist
      <4>. QED  BY <4>3, <4>4
    <3>. QED  BY <3>1 DEF ParcelsExist
  <2>. QED  BY <1>0, <2>3, <2>4, <2>6, <2>7, <2>8 DEF ParcelInv
<1>. QED  BY <1>1, <1>2, <1>3, <1>4, <1>5, <1>6, <1>7, <1>8, <1>9 DEF Next, vars, RecordPayment

\* No update of a parcel is lost but to a dispatch: the tracking history is a
\* chain that ends at the row, for any number of scans and dispatches.
THEOREM JourneysAreUnbroken == Spec => []JourneyIsTheParcel
<1>1. ParcelInv => JourneyIsTheParcel
  BY DEF ParcelInv
<1>. QED  BY <1>1, InitParcelInv, StepParcelInv, PTL DEF Spec

-----------------------------------------------------------------------------
(* Handovers and the shipment beside its parcels.                          *)
(*                                                                         *)
(* What a step of another request can do to a parcel or to an invoice      *)
(* keeps what a handover found out before it: money that was taken stays,  *)
(* and a parcel that was handed over stays so but for a dispatch.          *)

HandKept(t) ==
  t.cmd.op = "deliver" /\ t.phase \in {"written", "derived", "ready"} =>
    \A s \in Touched(t.cmd) : t.bill = "PAID" \/ invoices[s] = "PAID"

HandoverInv ==
  /\ ParcelInv
  /\ \A r \in Request : HandKept(tx[r])
  /\ ProofMeansSettledHandover

LEMMA PaidStays ==
  ASSUME InvoiceInv, [Next]_vars, NEW s \in Shipment, invoices[s] = "PAID"
  PROVE  invoices'[s] = "PAID"
<1>0. TypeOK
  BY DEF InvoiceInv, ShipmentInv
<1>1. ASSUME NEW u \in Shipment, CreateShipment(u) PROVE invoices'[s] = "PAID"
  BY <1>0, <1>1 DEF CreateShipment, InvoiceInv, InvoicesExist, TypeOK
<1>2. ASSUME NEW u \in Shipment, RecordPayment(u) PROVE invoices'[s] = "PAID"
  BY <1>0, <1>2 DEF RecordPayment, Payable, TypeOK
<1>3. ASSUME NEW r \in Request, Commit(r) PROVE invoices'[s] = "PAID"
  <2>1. invoices'[s] = IF tx[r].bill # "NONE" /\ s \in Touched(tx[r].cmd)
                       THEN tx[r].bill ELSE invoices[s]
    BY <1>3 DEF Commit, LockedInvoices
  <2>2. BillKept(tx[r])
    BY DEF InvoiceInv
  <2>. QED  BY <2>1, <2>2 DEF BillKept
<1>4. CASE UNCHANGED invoices
  BY <1>4
<1>. QED  BY <1>1, <1>2, <1>3, <1>4 DEF Next, vars, LoadParcels, LoadShipment, WriteParcels,
          ReadStatuses, WriteShipments, CancelShipment, RollBack

\* What any step does to a parcel: nothing, insert it, or change it.
LEMMA ParcelStep ==
  ASSUME ParcelInv, [Next]_vars, NEW p \in Parcel
  PROVE  \/ UNCHANGED <<parcels[p], movements[p]>>
         \/ ChangesParcel(p)
         \/ /\ parcels[p].status = "NONE" /\ parcels[p].version = 0
            /\ UNCHANGED movements[p]
<1>1. ASSUME NEW s \in Shipment, CreateShipment(s)
      PROVE  \/ UNCHANGED <<parcels[p], movements[p]>>
             \/ /\ parcels[p].status = "NONE" /\ parcels[p].version = 0
                /\ UNCHANGED movements[p]
  BY <1>1 DEF CreateShipment, ParcelInv, ParcelsExist
<1>2. ASSUME NEW r \in Request, Commit(r)
      PROVE  \/ UNCHANGED <<parcels[p], movements[p]>>
             \/ ChangesParcel(p)
  BY <1>2, CommitMoves
<1>3. CASE UNCHANGED <<parcels, movements>>
  BY <1>3
<1>. QED  BY <1>1, <1>2, <1>3 DEF Next, vars, RecordPayment, LoadParcels, LoadShipment,
          WriteParcels, ReadStatuses, WriteShipments, CancelShipment, RollBack

\* A journey is only ever added to.
LEMMA JourneyGrows ==
  ASSUME ParcelInv, [Next]_vars, NEW p \in Parcel
  PROVE  /\ \A status : HasBeen(p, status) => HasBeen(p, status)'
         /\ Overwritten(p) => Overwritten(p)'
<1>0. TypeOK
  BY DEF ParcelInv, InvoiceInv, ShipmentInv
<1>1. CASE UNCHANGED movements[p]
  BY <1>1 DEF HasBeen, Overwritten, WrittenOver
<1>2. CASE ChangesParcel(p)
  <2>1. /\ Len(movements'[p]) = Len(movements[p]) + 1 /\ Len(movements[p]) \in Nat
        /\ \A i \in 1 .. Len(movements[p]) : movements'[p][i] = movements[p][i]
    BY <1>0, <1>2, OneEntryMore
  <2>2. ASSUME NEW status, HasBeen(p, status) PROVE HasBeen(p, status)'
    BY <2>1, <2>2 DEF HasBeen
  <2>3. ASSUME NEW i \in 1 .. Len(movements[p]), WrittenOver(p, i)
        PROVE  i \in 1 .. Len(movements'[p]) /\ WrittenOver(p, i)'
    <3>1. i > 1 /\ i - 1 \in 1 .. Len(movements[p]) /\ i \in 1 .. Len(movements'[p])
      BY <2>1, <2>3 DEF WrittenOver
    <3>2. movements'[p][i] = movements[p][i] /\ movements'[p][i - 1] = movements[p][i - 1]
      BY <2>1, <3>1
    <3>. QED  BY <2>3, <3>1, <3>2 DEF WrittenOver
  <2>. QED  BY <2>2, <2>3 DEF Overwritten
<1>. QED  BY <1>1, <1>2, ParcelStep

\* A parcel that has left PROCESSING is written over by any dispatch.
LEMMA DispatchWritesOver ==
  ASSUME ParcelInv, NEW p \in Parcel, ChangesParcel(p), IsDispatched(p), ~TakesEdge(p),
         parcels[p].status # "PROCESSING"
  PROVE  Overwritten(p)'
<1>. DEFINE m == movements[p]
            n == movements'[p]
<1>0. TypeOK /\ ParcelsExist /\ JourneyIsTheParcel
  BY DEF ParcelInv, InvoiceInv, ShipmentInv
<1>1. /\ Len(m) \in Nat /\ Len(n) = Len(m) + 1
      /\ \A i \in 1 .. Len(m) : n[i] = m[i]
      /\ n[Len(m) + 1].to = "READY_FOR_DISPATCH" /\ n[Len(m) + 1].from = "PROCESSING"
  BY <1>0, OneEntryMore DEF IsDispatched
<1>2. m # <<>> /\ parcels[p].status = m[Len(m)].to
  BY <1>0 DEF ChangesParcel, ParcelsExist, JourneyIsTheParcel
<1>3. Len(m) \in 1 .. Len(m)
  BY <1>0, <1>1, <1>2, EmptySeq DEF TypeOK
<1>4. PICK k \in Nat : k = Len(m) + 1
  BY <1>1
<1>5. n[k - 1] = m[Len(m)] /\ k > 1 /\ k \in 1 .. Len(n)
  BY <1>1, <1>3, <1>4
<1>6. n[k].from # n[k - 1].to /\ n[k].to = "READY_FOR_DISPATCH"
  BY <1>1, <1>2, <1>4, <1>5
<1>. QED  BY <1>5, <1>6 DEF Overwritten, WrittenOver

\* Where a parcel stands, or that a dispatch took it from there.
LEMMA HandedOverStays ==
  ASSUME ParcelInv, [Next]_vars, NEW p \in Parcel,
         parcels[p].status = "COLLECTED" \/ Overwritten(p)
  PROVE  parcels'[p].status = "COLLECTED" \/ Overwritten(p)'
<1>1. CASE Overwritten(p)
  BY <1>1, JourneyGrows
<1>2. CASE parcels[p].status = "COLLECTED"
  <2>1. UNCHANGED parcels[p] \/ ChangesParcel(p)
    BY <1>2, ParcelStep
  <2>2. ~TakesEdge(p)
    BY <1>2 DEF TakesEdge, ParcelNext
  <2>. QED  BY <1>2, <2>1, <2>2, DispatchWritesOver DEF ChangesParcel
<1>. QED  BY <1>1, <1>2

\* A step that moves nobody to the phases in which a handover has looked.
LEMMA OtherHandKept ==
  ASSUME HandoverInv, [Next]_vars, NEW q \in Request, UNCHANGED tx[q]
  PROVE  HandKept(tx[q])'
<1>1. HandKept(tx[q]) /\ tx[q].cmd \in Command /\ InvoiceInv
  BY DEF HandoverInv, ParcelInv, InvoiceInv, ShipmentInv, TypeOK, Transaction
<1>2. Touched(tx[q].cmd) \subseteq Shipment
  BY <1>1, TouchedShipments
<1>3. \A s \in Touched(tx[q].cmd) : invoices[s] = "PAID" => invoices'[s] = "PAID"
  BY <1>1, <1>2, PaidStays
<1>. QED  BY <1>1, <1>3 DEF HandKept

LEMMA InitHandoverInv == Init => HandoverInv
<1>. SUFFICES ASSUME Init PROVE HandoverInv
  OBVIOUS
<1>1. \A r \in Request : tx[r].phase = "idle"
  BY DEF Init, Idle
<1>2. ProofMeansSettledHandover
  BY DEF Init, ProofMeansSettledHandover
<1>. QED  BY <1>1, <1>2, InitParcelInv DEF HandoverInv, HandKept

LEMMA StepHandoverInv == HandoverInv /\ [Next]_vars => HandoverInv'
<1>. SUFFICES ASSUME HandoverInv, [Next]_vars PROVE HandoverInv'
  OBVIOUS
<1>0. /\ TypeOK /\ InvoiceInv /\ ParcelInv /\ ParcelInv'
  BY StepParcelInv DEF HandoverInv, ParcelInv, InvoiceInv, ShipmentInv
<1>1. ASSUME NEW q \in Request PROVE HandKept(tx[q])'
  <2>1. CASE UNCHANGED tx[q]
    BY <2>1, OtherHandKept
  <2>2. ASSUME WriteParcels(q) PROVE HandKept(tx[q])'
    <3>. DEFINE t == tx'[q]
    <3>1. /\ t.cmd = tx[q].cmd
          /\ t.bill = IF t.cmd.pays THEN "PAID" ELSE "NONE"
          /\ UNCHANGED invoices
          /\ t.cmd.op = "deliver" => \A p \in t.cmd.parcels : Settles(q, ShipmentOf[p])
          /\ tx[q].phase = "loaded" /\ t.cmd.op # "cancel"
      BY <2>2, <1>0 DEF WriteParcels, TypeOK, Transaction
    <3>2. t.cmd.shipments = {}
      BY <3>1, <1>0, ParcelCommandType DEF InvoiceInv, CommandKept
    <3>3. t.cmd.op = "deliver" => \A s \in Touched(t.cmd) : t.cmd.pays \/ invoices[s] = "PAID"
      BY <3>1, <3>2 DEF Settles, Touched
    <3>. QED  BY <3>1, <3>3 DEF HandKept
  <2>3. ASSUME tx'[q].phase \in {"idle", "loaded"} \/ tx'[q].cmd.op # "deliver"
        PROVE HandKept(tx[q])'
    BY <2>3 DEF HandKept
  <2>4. ASSUME tx[q].phase \in {"written", "derived", "ready"}, tx'[q].cmd = tx[q].cmd,
               tx'[q].bill = tx[q].bill, UNCHANGED invoices
        PROVE  HandKept(tx[q])'
    BY <2>4 DEF HandoverInv, HandKept
  <2>5. ASSUME NEW r \in Request, NEW c \in ParcelCommand, LoadParcels(r, c) PROVE HandKept(tx[q])'
    <3>1. q # r => UNCHANGED tx[q]
      BY <2>5, <1>0 DEF LoadParcels, TypeOK
    <3>2. q = r => tx'[q].phase = "loaded"
      BY <2>5, <1>0 DEF LoadParcels, TypeOK, Idle
    <3>. QED  BY <3>1, <3>2, <2>1, <2>3
  <2>6. ASSUME NEW r \in Request, NEW s \in Shipment, LoadShipment(r, s) PROVE HandKept(tx[q])'
    <3>1. q # r => UNCHANGED tx[q]
      BY <2>6, <1>0 DEF LoadShipment, TypeOK
    <3>2. q = r => tx'[q].phase = "loaded"
      BY <2>6, <1>0 DEF LoadShipment, TypeOK, Idle
    <3>. QED  BY <3>1, <3>2, <2>1, <2>3
  <2>7. ASSUME NEW r \in Request, WriteParcels(r) PROVE HandKept(tx[q])'
    <3>1. q # r => UNCHANGED tx[q]
      BY <2>7, <1>0 DEF WriteParcels, TypeOK
    <3>. QED  BY <3>1, <2>1, <2>2, <2>7
  <2>8. ASSUME NEW r \in Request, ReadStatuses(r) PROVE HandKept(tx[q])'
    <3>1. q # r => UNCHANGED tx[q]
      BY <2>8, <1>0 DEF ReadStatuses, TypeOK
    <3>2. q = r => /\ tx[q].phase = "written" /\ tx'[q].cmd = tx[q].cmd
                   /\ tx'[q].bill = tx[q].bill /\ UNCHANGED invoices
      BY <2>8, <1>0 DEF ReadStatuses, TypeOK, Transaction
    <3>. QED  BY <3>1, <3>2, <2>1, <2>4
  <2>9. ASSUME NEW r \in Request, WriteShipments(r) PROVE HandKept(tx[q])'
    <3>0. /\ tx[r].phase = "derived" /\ UNCHANGED invoices
          /\ tx' = [tx EXCEPT ![r] = [tx[r] EXCEPT !.phase = "ready"]]
      BY <2>9 DEF WriteShipments
    <3>1. q # r => UNCHANGED tx[q]
      BY <3>0, <1>0 DEF TypeOK
    <3>2. q = r => /\ tx[q].phase = "derived" /\ tx'[q].cmd = tx[q].cmd
                   /\ tx'[q].bill = tx[q].bill /\ UNCHANGED invoices
      BY <3>0, <1>0 DEF TypeOK, Transaction
    <3>. QED  BY <3>1, <3>2, <2>1, <2>4
  <2>10. ASSUME NEW r \in Request, CancelShipment(r) PROVE HandKept(tx[q])'
    <3>1. q # r => UNCHANGED tx[q]
      BY <2>10, <1>0 DEF CancelShipment, TypeOK
    <3>2. q = r => tx'[q].cmd.op # "deliver"
      BY <2>10, <1>0 DEF CancelShipment, TypeOK, Transaction
    <3>. QED  BY <3>1, <3>2, <2>1, <2>3
  <2>11. ASSUME NEW r \in Request, Commit(r) \/ RollBack(r) PROVE HandKept(tx[q])'
    <3>1. q # r => UNCHANGED tx[q]
      BY <2>11, <1>0 DEF Commit, RollBack, TypeOK
    <3>2. q = r => tx'[q].phase = "idle"
      BY <2>11, <1>0 DEF Commit, RollBack, TypeOK, Idle
    <3>. QED  BY <3>1, <3>2, <2>1, <2>3
  <2>12. CASE UNCHANGED tx
    BY <2>12, <2>1
  <2>. QED  BY <2>5, <2>6, <2>7, <2>8, <2>9, <2>10, <2>11, <2>12
            DEF Next, vars, CreateShipment, RecordPayment
<1>. DEFINE Settled(p) == /\ HasBeen(p, "COLLECTED")'
                          /\ parcels'[p].status = "COLLECTED" \/ Overwritten(p)'
                          /\ invoices'[ShipmentOf[p]] = "PAID"
<1>2. ASSUME NEW p \in pods PROVE Settled(p)
  <2>1. /\ p \in Parcel /\ ShipmentOf[p] \in Shipment
        /\ HasBeen(p, "COLLECTED")
        /\ parcels[p].status = "COLLECTED" \/ Overwritten(p)
        /\ invoices[ShipmentOf[p]] = "PAID"
    BY <1>0, ShipmentOfAssumption DEF TypeOK, HandoverInv, ProofMeansSettledHandover
  <2>. QED  BY <2>1, <1>0, HandedOverStays, JourneyGrows, PaidStays
<1>3. ASSUME NEW r \in Request, Commit(r), tx[r].cmd.op = "deliver", NEW p \in tx[r].cmd.parcels
      PROVE  Settled(p)
  <2>. DEFINE t == tx[r]
  <2>1. /\ t.phase = "ready" /\ t.cmd \in Command
        /\ p \in Parcel /\ ShipmentOf[p] \in Touched(t.cmd)
        /\ ShipmentOf[p] \in Shipment
        /\ CommandKept(t) /\ RuleKept(t) /\ BillKept(t) /\ HandKept(t)
    BY <1>0, <1>3, ShipmentOfAssumption
       DEF Commit, TypeOK, Transaction, Command, Touched, HandoverInv, ParcelInv, InvoiceInv
  <2>2. ChangesParcel(p) /\ parcels'[p].status = "COLLECTED"
    <3>1. p \in Moved(t)
      BY <1>3, <2>1, AllAreMoved
    <3>2. Wanted(t.cmd, t.seen[p]) = "COLLECTED"
      BY <1>3 DEF Wanted
    <3>. QED  BY <1>0, <1>3, <2>1, <3>1, <3>2, CommitMoves
  <2>3. HasBeen(p, "COLLECTED")'
    <3>1. /\ Len(movements[p]) \in Nat /\ Len(movements'[p]) = Len(movements[p]) + 1
          /\ movements'[p][Len(movements[p]) + 1].to = "COLLECTED"
      BY <1>0, <2>1, <2>2, OneEntryMore
    <3>. QED  BY <3>1 DEF HasBeen
  <2>4. invoices'[ShipmentOf[p]] = "PAID"
    <3>1. CASE t.bill = "PAID"
      BY <3>1, <2>1, <1>3 DEF Commit, LockedInvoices
    <3>2. CASE invoices[ShipmentOf[p]] = "PAID"
      BY <3>2, <2>1, <1>0, PaidStays
    <3>. QED  BY <3>1, <3>2, <2>1, <1>3 DEF HandKept
  <2>. QED  BY <2>2, <2>3, <2>4
<1>4. ProofMeansSettledHandover'
  <2>1. ASSUME NEW p \in pods', p \notin pods PROVE Settled(p)
    <3>1. PICK r \in Request : Commit(r)
      BY <2>1 DEF Next, vars, CreateShipment, RecordPayment, LoadParcels, LoadShipment,
          WriteParcels, ReadStatuses, WriteShipments, CancelShipment, RollBack
    <3>2. tx[r].cmd.op = "deliver" /\ p \in tx[r].cmd.parcels
      BY <2>1, <3>1 DEF Commit
    <3>. QED  BY <3>1, <3>2, <1>3
  <2>. QED  BY <2>1, <1>2 DEF ProofMeansSettledHandover
<1>. QED  BY <1>0, <1>1, <1>4 DEF HandoverInv

\* A proof of delivery stands for a parcel that was handed over, and still is but
\* for a dispatch written over it, and for an invoice that was settled, whatever
\* ran beside it.
THEOREM ProofsAreSettled == Spec => []ProofMeansSettledHandover
<1>1. HandoverInv => ProofMeansSettledHandover
  BY DEF HandoverInv
<1>. QED  BY <1>1, InitHandoverInv, StepHandoverInv, PTL DEF Spec

-----------------------------------------------------------------------------
(* The shipment beside its parcels.                                        *)
(*                                                                         *)
(* What made a request plan a shipment status stays true while the request *)
(* waits to commit: no parcel leaves the statuses that support it, unless  *)
(* a dispatch takes it away.                                               *)

Supports(status, s) ==
  /\ status = "IN_TRANSIT" => \E p \in ParcelsOf(s) : HasBeen(p, "IN_TRANSIT")
  /\ status = "READY_FOR_COLLECTION" =>
       \A p \in ParcelsOf(s) :
         parcels[p].status \in {"READY_FOR_COLLECTION", "COLLECTED"} \/ Overwritten(p)
  /\ status = "DELIVERED" =>
       \A p \in ParcelsOf(s) : parcels[p].status = "COLLECTED" \/ Overwritten(p)

AheadInv ==
  /\ ParcelInv
  /\ \A s \in Shipment : Supports(shipments[s].status, s)
  /\ \A r \in Request, s \in Shipment : Supports(tx[r].plan[s], s)

LEMMA TargetMeaning ==
  ASSUME NEW S \in SUBSET ParcelStatus, "RETURNED" \notin S
  PROVE  /\ Target(S) = "DELIVERED" => S \subseteq {"COLLECTED"}
         /\ Target(S) = "READY_FOR_COLLECTION" => S \subseteq {"READY_FOR_COLLECTION"}
         /\ Target(S) = "IN_TRANSIT" => "IN_TRANSIT" \in S
<1>1. Live(S) = S
  BY DEF Live, ParcelStatus
<1>. QED  BY <1>1 DEF Target

LEMMA OtherStatuses ==
  ASSUME NEW status, NEW s, status \in {"NONE", "PROCESSING", "CANCELLED"}
  PROVE  Supports(status, s)
BY DEF Supports

LEMMA SupportStays ==
  ASSUME ParcelInv, [Next]_vars, NEW s, NEW status, Supports(status, s)
  PROVE  Supports(status, s)'
<1>1. ParcelsOf(s) \subseteq Parcel
  BY DEF ParcelsOf
<1>2. ASSUME NEW p \in Parcel,
             parcels[p].status \in {"READY_FOR_COLLECTION", "COLLECTED"} \/ Overwritten(p)
      PROVE  parcels'[p].status \in {"READY_FOR_COLLECTION", "COLLECTED"} \/ Overwritten(p)'
  <2>1. CASE parcels[p].status = "COLLECTED" \/ Overwritten(p)
    BY <2>1, HandedOverStays
  <2>2. CASE parcels[p].status = "READY_FOR_COLLECTION"
    <3>1. UNCHANGED parcels[p] \/ ChangesParcel(p)
      BY <2>2, ParcelStep
    <3>2. TakesEdge(p) => parcels'[p].status = "COLLECTED"
      BY <2>2 DEF TakesEdge, ParcelNext
    <3>. QED  BY <2>2, <3>1, <3>2, DispatchWritesOver DEF ChangesParcel
  <2>. QED  BY <1>2, <2>1, <2>2
<1>3. status = "IN_TRANSIT" => (\E p \in ParcelsOf(s) : HasBeen(p, "IN_TRANSIT"))'
  <2>1. SUFFICES ASSUME NEW p \in ParcelsOf(s), HasBeen(p, "IN_TRANSIT")
                 PROVE  HasBeen(p, "IN_TRANSIT")'
    BY DEF Supports, ParcelsOf
  <2>. QED  BY <1>1, <2>1, JourneyGrows
<1>. QED  BY <1>1, <1>2, <1>3, HandedOverStays DEF Supports, ParcelsOf

\* The statuses a request reads support what it derives from them.
LEMMA DerivedIsSupported ==
  ASSUME ParcelInv, NEW s \in Shipment, NEW status
  PROVE  Supports(Recalculated(status, {parcels[p].status :
                                        p \in {q \in Parcel : ShipmentOf[q] = s}}), s)
<1>. DEFINE S == {parcels[p].status : p \in {q \in Parcel : ShipmentOf[q] = s}}
<1>0. TypeOK
  BY DEF ParcelInv, InvoiceInv, ShipmentInv
<1>1. S \in SUBSET ParcelStatus /\ "RETURNED" \notin S
  BY <1>0 DEF TypeOK, ParcelRow, ParcelInv, ParcelsExist
<1>2. Recalculated(status, S) \in {Target(S), "NONE"}
  BY DEF Recalculated
<1>3. \A p \in ParcelsOf(s) : p \in Parcel /\ parcels[p].status \in S
  BY DEF ParcelsOf
<1>4. "IN_TRANSIT" \in S => \E p \in ParcelsOf(s) : HasBeen(p, "IN_TRANSIT")
  <2>1. SUFFICES ASSUME NEW p \in ParcelsOf(s), parcels[p].status = "IN_TRANSIT"
                 PROVE  HasBeen(p, "IN_TRANSIT")
    BY DEF ParcelsOf
  <2>2. p \in Parcel /\ movements[p] \in Seq(Movement) /\ Len(movements[p]) \in Nat
    BY <1>0, <1>3, LenProperties DEF TypeOK
  <2>3. movements[p] # <<>> /\ parcels[p].status = movements[p][Len(movements[p])].to
    BY <2>1, <2>2 DEF ParcelInv, ParcelsExist, JourneyIsTheParcel
  <2>4. Len(movements[p]) \in 1 .. Len(movements[p])
    BY <2>2, <2>3
  <2>. QED  BY <2>1, <2>3, <2>4 DEF HasBeen
<1>5. Supports(Target(S), s)
  <2>. HIDE DEF S
  <2>. QED  BY <1>1, <1>3, <1>4, TargetMeaning DEF Supports
<1>. QED  BY <1>2, <1>5, OtherStatuses

LEMMA InitAheadInv == Init => AheadInv
<1>. SUFFICES ASSUME Init PROVE AheadInv
  OBVIOUS
<1>1. \A s \in Shipment : shipments[s].status = "NONE" /\ \A r \in Request : tx[r].plan[s] = "NONE"
  BY DEF Init, NoShipment, Idle
<1>. QED  BY <1>1, InitParcelInv, OtherStatuses DEF AheadInv

\* The status a step plans, or writes, is one it had planned before, one it
\* derives from the parcels, or one that says nothing of them.
LEMMA PlansStep ==
  ASSUME AheadInv, [Next]_vars, NEW s \in Shipment
  PROVE  /\ \A r \in Request : Supports(tx'[r].plan[s], s)
         /\ Supports(shipments'[s].status, s)
<1>0. TypeOK /\ ParcelInv /\ Supports(shipments[s].status, s)
      /\ \A r \in Request : Supports(tx[r].plan[s], s)
  BY DEF AheadInv, ParcelInv, InvoiceInv, ShipmentInv
<1>1. ASSUME NEW u \in Shipment, CreateShipment(u)
      PROVE  UNCHANGED tx /\ shipments'[s].status \in {shipments[s].status, "PROCESSING"}
  BY <1>0, <1>1 DEF CreateShipment, TypeOK
<1>2. ASSUME NEW q \in Request,
             \/ \E c \in ParcelCommand : LoadParcels(q, c)
             \/ \E u \in Shipment : LoadShipment(q, u)
             \/ RollBack(q)
      PROVE  /\ \A r \in Request : tx'[r].plan[s] \in {tx[r].plan[s], "NONE"}
             /\ UNCHANGED shipments
  <2>1. CASE \E c \in ParcelCommand : LoadParcels(q, c)
    BY <1>0, <2>1 DEF LoadParcels, Idle, TypeOK
  <2>2. CASE \E u \in Shipment : LoadShipment(q, u)
    BY <1>0, <2>2 DEF LoadShipment, Idle, TypeOK
  <2>3. CASE RollBack(q)
    BY <1>0, <2>3 DEF RollBack, Idle, TypeOK
  <2>. QED  BY <1>2, <2>1, <2>2, <2>3
<1>3. ASSUME NEW q \in Request, WriteParcels(q) \/ WriteShipments(q)
      PROVE  /\ \A r \in Request : tx'[r].plan[s] = tx[r].plan[s]
             /\ UNCHANGED shipments
  <2>1. CASE WriteParcels(q)
    BY <1>0, <2>1 DEF WriteParcels, TypeOK, Transaction
  <2>2. CASE WriteShipments(q)
    <3>1. tx' = [tx EXCEPT ![q] = [tx[q] EXCEPT !.phase = "ready"]] /\ UNCHANGED shipments
      BY <2>2 DEF WriteShipments
    <3>. QED  BY <1>0, <3>1 DEF TypeOK, Transaction
  <2>. QED  BY <1>3, <2>1, <2>2
<1>4. ASSUME NEW q \in Request, ReadStatuses(q)
      PROVE  (\A r \in Request : Supports(tx'[r].plan[s], s)) /\ UNCHANGED shipments
  <2>. DEFINE S == {parcels[p].status : p \in {x \in Parcel : ShipmentOf[x] = s}}
  <2>1. /\ UNCHANGED shipments
        /\ \A r \in Request : tx'[r].plan[s] \in
             {tx[r].plan[s], "NONE", Recalculated(tx[q].read[s].status, S)}
    BY <1>0, <1>4 DEF ReadStatuses, TypeOK, Transaction
  <2>2. Supports(Recalculated(tx[q].read[s].status, S), s)
    BY <1>0, DerivedIsSupported
  <2>. HIDE DEF S
  <2>. QED  BY <1>0, <2>1, <2>2, OtherStatuses
<1>5. ASSUME NEW q \in Request, CancelShipment(q)
      PROVE  /\ \A r \in Request : tx'[r].plan[s] \in {tx[r].plan[s], "NONE", "CANCELLED"}
             /\ UNCHANGED shipments
  BY <1>0, <1>5 DEF CancelShipment, TypeOK, Transaction
<1>6. ASSUME NEW q \in Request, Commit(q)
      PROVE  /\ \A r \in Request : tx'[r].plan[s] \in {tx[r].plan[s], "NONE"}
             /\ Supports(shipments'[s].status, s)
  <2>1. /\ shipments'[s] = IF tx[q].plan[s] # "NONE"
                           THEN [status |-> tx[q].plan[s], version |-> shipments[s].version + 1]
                           ELSE shipments[s]
        /\ tx' = [tx EXCEPT ![q] = Idle]
    BY <1>6 DEF Commit
  <2>2. shipments'[s].status \in {tx[q].plan[s], shipments[s].status}
    BY <2>1
  <2>3. Supports(tx[q].plan[s], s)
    BY DEF AheadInv
  <2>4. \A r \in Request : tx'[r].plan[s] \in {tx[r].plan[s], "NONE"}
    BY <1>0, <2>1 DEF TypeOK, Idle
  <2>. QED  BY <1>0, <2>2, <2>3, <2>4
<1>7. CASE UNCHANGED <<shipments, tx>>
  BY <1>0, <1>7
<1>. QED  BY <1>0, <1>1, <1>2, <1>3, <1>4, <1>5, <1>6, <1>7, OtherStatuses
          DEF Next, vars, RecordPayment

LEMMA StepAheadInv == AheadInv /\ [Next]_vars => AheadInv'
<1>. SUFFICES ASSUME AheadInv, [Next]_vars PROVE AheadInv'
  OBVIOUS
<1>0. ParcelInv /\ ParcelInv'
  BY StepParcelInv DEF AheadInv
<1>1. ASSUME NEW s \in Shipment, NEW status, Supports(status, s) PROVE Supports(status, s)'
  BY <1>0, <1>1, SupportStays
<1>2. ASSUME NEW s \in Shipment PROVE Supports(shipments[s].status, s)'
  <2>1. \E status : status = shipments'[s].status
    OBVIOUS
  <2>2. PICK status : status = shipments'[s].status
    BY <2>1
  <2>3. Supports(status, s)
    BY <2>2, PlansStep
  <2>4. Supports(status, s)'
    BY <1>1, <2>3
  <2>. QED  BY <2>2, <2>4 DEF Supports
<1>3. ASSUME NEW r \in Request, NEW s \in Shipment PROVE Supports(tx[r].plan[s], s)'
  <2>1. \E status : status = tx'[r].plan[s]
    OBVIOUS
  <2>2. PICK status : status = tx'[r].plan[s]
    BY <2>1
  <2>3. Supports(status, s)
    BY <2>2, PlansStep
  <2>4. Supports(status, s)'
    BY <1>1, <2>3
  <2>. QED  BY <2>2, <2>4 DEF Supports
<1>. QED  BY <1>0, <1>2, <1>3 DEF AheadInv

\* A shipment is never ahead of its parcels but of those a dispatch took back,
\* whatever scans and commits run beside each other.
THEOREM NeverAhead == Spec => []NeverAheadOfParcels
<1>1. AheadInv => NeverAheadOfParcels
  BY DEF AheadInv, Supports, NeverAheadOfParcels
<1>. QED  BY <1>1, InitAheadInv, StepAheadInv, PTL DEF Spec

-----------------------------------------------------------------------------
(* The tables and the ledger.                                              *)
(*                                                                         *)
(* Every step leaves the tables alone or is one entry of the ledger: what  *)
(* a commit writes it decided on rows that are still what they were, and   *)
(* what a dispatch writes the ledger lets land on any row.                 *)

LEMMA OpensShipment ==
  ASSUME TypeOK, NEW s \in Shipment, CreateShipment(s)
  PROVE  Ledger!Open(s)
BY DEF CreateShipment, Ledger!Open, TypeOK

LEMMA PaysInvoice ==
  ASSUME TypeOK, NEW s \in Shipment, RecordPayment(s)
  PROVE  Ledger!Pay(s)
BY DEF RecordPayment, Ledger!Pay, Ledger!Payable, Payable

\* The shipments of the parcels of a commit follow them or stay.
LEMMA CommitFollows ==
  ASSUME HandoverInv, NEW r \in Request, Commit(r), tx[r].cmd.op # "cancel",
         NEW S, S = Touched(tx[r].cmd)
  PROVE  Ledger!Follow(S)
<1>. DEFINE t == tx[r]
            next == [s \in S |-> shipments'[s].status]
<1>0. /\ TypeOK /\ TypeOK' /\ t.phase = "ready" /\ PlanAllowed(t) /\ BillKept(t) /\ PlanKept(t)
      /\ S \subseteq Shipment
  BY StepType, TouchedShipments
     DEF HandoverInv, ParcelInv, InvoiceInv, ShipmentInv, Commit, Next, TypeOK, Transaction
<1>1. \A u \in Shipment :
        /\ t.plan[u] = "NONE" => shipments'[u].status = shipments[u].status
        /\ t.plan[u] # "NONE" => shipments'[u].status = t.plan[u]
  BY DEF Commit
<1>2. \A u \in Shipment : u \notin S => shipments'[u].status = shipments[u].status
  BY <1>0, <1>1 DEF PlanKept
<1>3. \A u \in Shipment :
        t.plan[u] # "NONE" => t.plan[u] \in ShipmentNext(shipments[u].status) \ {"CANCELLED"}
  BY <1>0 DEF PlanAllowed, BillKept
<1>4. next \in [S -> Ledger!ShipmentStatus]
  BY <1>0 DEF TypeOK, ShipmentRow, ShipmentStatus, Ledger!ShipmentStatus
<1>5. ASSUME NEW u \in S
      PROVE  \/ next[u] = [s \in Shipment |-> shipments[s].status][u]
             \/ next[u] \in Ledger!ShipmentNext([s \in Shipment |-> shipments[s].status][u])
                              \ {"CANCELLED"}
  <2>1. /\ u \in Shipment /\ next[u] = shipments'[u].status
        /\ [s \in Shipment |-> shipments[s].status][u] = shipments[u].status
    BY <1>0, <1>5
  <2>2. \A status : Ledger!ShipmentNext(status) = ShipmentNext(status)
    BY DEF ShipmentNext, Ledger!ShipmentNext
  <2>. HIDE DEF next
  <2>. QED  BY <1>1, <1>3, <2>1, <2>2
<1>6. [s \in Shipment |-> shipments'[s].status] =
        [s \in Shipment |-> IF s \in S THEN next[s]
                                       ELSE [u \in Shipment |-> shipments[u].status][s]]
  BY <1>2
<1>. HIDE DEF next
<1>. QED  BY <1>4, <1>5, <1>6 DEF Ledger!Follow

\* The one parcel of a commit takes an edge, and its journey says so.
LEMMA CommitMovesOne ==
  ASSUME HandoverInv, NEW r \in Request, Commit(r), tx[r].cmd.op # "bulkReady",
         NEW p \in Parcel, Moved(tx[r]) = {p}
  PROVE  /\ Ledger!MoveParcel(p, parcels'[p].status)
         /\ parcels[p].version # 0
         /\ parcels'[p].status \in ParcelStatus
<1>0. TypeOK /\ TypeOK' /\ ParcelInv
  BY StepType DEF HandoverInv, ParcelInv, InvoiceInv, ShipmentInv, Next
<1>1. TakesEdge(p) /\ parcels[p].version # 0
  BY <1>0, CommitMoves DEF ChangesParcel
<1>2. \A q \in Parcel : q # p => UNCHANGED <<parcels[q], movements[q]>>
  BY <1>0, CommitMoves
<1>3. [q \in Parcel |-> parcels'[q].status] =
        [[q \in Parcel |-> parcels[q].status] EXCEPT ![p] = parcels'[p].status]
  BY <1>2
<1>4. movements' = [movements EXCEPT ![p] =
                      Append(@, [from |-> [q \in Parcel |-> parcels[q].status][p],
                                 to   |-> parcels'[p].status])]
  BY <1>0, <1>1, <1>2 DEF TakesEdge, TypeOK
<1>5. parcels'[p].status \in Ledger!ParcelNext([q \in Parcel |-> parcels[q].status][p])
  BY <1>1 DEF TakesEdge, ParcelNext, Ledger!ParcelNext
<1>6. parcels'[p].status \in ParcelStatus
  BY <1>0 DEF TypeOK, ParcelRow
<1>. QED  BY <1>1, <1>3, <1>4, <1>5, <1>6 DEF Ledger!MoveParcel

LEMMA CancelImplements ==
  ASSUME HandoverInv, NEW r \in Request, Commit(r), tx[r].cmd.op = "cancel"
  PROVE  Ledger!Next
<1>. DEFINE t == tx[r]
<1>0. /\ TypeOK /\ t.phase = "ready" /\ t.cmd \in Command
      /\ PlanAllowed(t) /\ CommandKept(t) /\ BillKept(t) /\ PlanKept(t)
      /\ CancelledWithItsInvoice
  BY DEF HandoverInv, ParcelInv, InvoiceInv, ShipmentInv, Commit, TypeOK, Transaction
<1>1. /\ t.cmd \notin ParcelCommand
      /\ t.cmd.parcels = {}
      /\ \E s \in Shipment : t.cmd.shipments = {s}
  BY <1>0, ParcelCommandShape DEF CommandKept
<1>2. PICK s \in Shipment : t.cmd.shipments = {s}
  BY <1>1
<1>3. Touched(t.cmd) = {s} /\ Moved(t) = {} /\ t.bill = "CANCELLED"
  BY <1>0, <1>1, <1>2 DEF Touched, Moved, BillKept
<1>4. /\ invoices[s] \in {"UNPAID", "CANCELLED"} /\ t.plan[s] = "CANCELLED"
      /\ \A u \in Shipment : u # s => t.plan[u] = "NONE"
  BY <1>0, <1>3 DEF BillKept, PlanKept
<1>5. "CANCELLED" \in ShipmentNext(shipments[s].status)
  BY <1>0, <1>4 DEF PlanAllowed
<1>6. invoices[s] = "UNPAID"
  <2>1. shipments[s].status # "CANCELLED"
    BY <1>5, NextIsAnother
  <2>. QED  BY <1>0, <1>4, <2>1 DEF CancelledWithItsInvoice
<1>7. /\ \A u \in Shipment :
           shipments'[u].status = IF u = s THEN "CANCELLED" ELSE shipments[u].status
      /\ \A u \in Shipment : invoices'[u] = IF u = s THEN "CANCELLED" ELSE invoices[u]
      /\ invoices' \in [Shipment -> InvoiceStatus]
      /\ UNCHANGED <<pods, parcels, movements>>
  <2>1. invoices' \in [Shipment -> InvoiceStatus]
    BY StepType, <1>0 DEF Next, TypeOK
  <2>2. t.cmd.op # "deliver" /\ LockedInvoices(r) = {s}
    BY <1>3 DEF LockedInvoices
  <2>3. UNCHANGED <<parcels, movements>>
    BY <1>0, <1>3 DEF Commit, TypeOK
  <2>4. UNCHANGED pods
    BY <2>2 DEF Commit
  <2>. QED  BY <1>3, <1>4, <2>1, <2>2, <2>3, <2>4 DEF Commit
<1>8. Ledger!Cancel(s)
  <2>1. "CANCELLED" \in Ledger!ShipmentNext([u \in Shipment |-> shipments[u].status][s])
    BY <1>5 DEF ShipmentNext, Ledger!ShipmentNext
  <2>2. [u \in Shipment |-> shipments'[u].status] =
          [[u \in Shipment |-> shipments[u].status] EXCEPT ![s] = "CANCELLED"]
    BY <1>7
  <2>3. invoices' = [invoices EXCEPT ![s] = "CANCELLED"]
    BY <1>0, <1>7 DEF TypeOK
  <2>. QED  BY <1>6, <1>7, <2>1, <2>2, <2>3 DEF Ledger!Cancel
<1>. QED  BY <1>8 DEF Ledger!Next

LEMMA ScanImplements ==
  ASSUME HandoverInv, NEW r \in Request, Commit(r), NEW p \in Parcel,
         tx[r].cmd.parcels = {p}, tx[r].cmd.op \notin {"cancel", "deliver", "bulkReady"},
         Touched(tx[r].cmd) = {ShipmentOf[p]}
  PROVE  Ledger!Next
<1>. DEFINE t == tx[r]
<1>0. TypeOK /\ BillKept(t) /\ ParcelsExist /\ ShipmentOf[p] \in Shipment
  BY ShipmentOfAssumption DEF HandoverInv, ParcelInv, InvoiceInv, ShipmentInv
<1>1. Moved(t) = {p}
  BY DEF Moved, CatchUp
<1>2. t.bill = "NONE"
  BY <1>0 DEF BillKept
<1>3. UNCHANGED <<invoices, pods>>
  BY <1>0, <1>2 DEF Commit, LockedInvoices, TypeOK
<1>4. /\ Ledger!MoveParcel(p, parcels'[p].status) /\ parcels[p].version # 0
      /\ parcels'[p].status \in ParcelStatus
  BY <1>0, <1>1, CommitMovesOne
<1>5. Ledger!Follow({ShipmentOf[p]})
  BY CommitFollows
<1>6. Ledger!Scan(p, parcels'[p].status)
  <2>1. [q \in Parcel |-> parcels[q].status][p] # "NONE"
    BY <1>0, <1>4 DEF ParcelsExist
  <2>. QED  BY <1>3, <1>4, <1>5, <2>1 DEF Ledger!Scan
<1>7. parcels'[p].status \in Ledger!ParcelStatus
  BY <1>4 DEF ParcelStatus, Ledger!ParcelStatus
<1>. QED  BY <1>6, <1>7 DEF Ledger!Next

LEMMA DeliveryImplements ==
  ASSUME HandoverInv, NEW r \in Request, Commit(r), NEW p \in Parcel,
         tx[r].cmd.parcels = {p}, tx[r].cmd.op = "deliver",
         Touched(tx[r].cmd) = {ShipmentOf[p]}
  PROVE  Ledger!Next
<1>. DEFINE t == tx[r]
            s == ShipmentOf[p]
<1>0. /\ ParcelInv /\ TypeOK /\ TypeOK' /\ s \in Shipment
      /\ t.phase = "ready"
      /\ BillKept(t) /\ HandKept(t) /\ RuleKept(t) /\ WrittenKept(t)
  BY ShipmentOfAssumption, StepType
     DEF HandoverInv, ParcelInv, InvoiceInv, ShipmentInv, Commit, Next
<1>1. p \notin pods /\ pods' = pods \cup {p}
  BY DEF Commit
<1>2. /\ invoices[s] \in Ledger!Payable \cup {"PAID"}
      /\ invoices' = [invoices EXCEPT ![s] = "PAID"]
  <2>1. t.bill \in {"NONE", "PAID"} /\ (t.bill = "PAID" \/ invoices[s] = "PAID")
    BY <1>0 DEF BillKept, HandKept
  <2>2. \A u \in Shipment : invoices'[u] = IF t.bill # "NONE" /\ u = s THEN t.bill ELSE invoices[u]
    BY DEF Commit, LockedInvoices
  <2>3. t.bill = "PAID" => invoices[s] \in Payable
    BY <1>0 DEF BillKept
  <2>4. \A u \in Shipment : invoices'[u] = IF u = s THEN "PAID" ELSE invoices[u]
    BY <2>1, <2>2
  <2>5. invoices' \in [Shipment -> InvoiceStatus] /\ invoices \in [Shipment -> InvoiceStatus]
    BY <1>0 DEF TypeOK
  <2>. QED  BY <1>0, <2>1, <2>3, <2>4, <2>5 DEF Payable, Ledger!Payable
<1>3. Moved(t) = {p}
  BY <1>0, AllAreMoved
<1>4. parcels[p].status = "READY_FOR_COLLECTION" /\ parcels'[p].status = "COLLECTED"
  <2>1. Wanted(t.cmd, t.seen[p]) = "COLLECTED"
    BY DEF Wanted
  <2>2. t.seen[p] = parcels[p] /\ "COLLECTED" \in ParcelNext(t.seen[p].status)
    BY <1>0, <1>3, <2>1 DEF WrittenKept, RuleKept
  <2>3. parcels'[p].status = "COLLECTED"
    BY <1>0, <1>3, <2>1, CommitMoves
  <2>. QED  BY <2>2, <2>3 DEF ParcelNext
<1>5. Ledger!Follow({s})
  BY CommitFollows
<1>6. Ledger!MoveParcel(p, parcels'[p].status)
  BY <1>3, CommitMovesOne
<1>7. Ledger!HandOver(p)
  <2>1. [q \in Parcel |-> parcels[q].status][p] = "READY_FOR_COLLECTION"
    BY <1>4
  <2>2. Ledger!MoveParcel(p, "COLLECTED")
    BY <1>4, <1>6 DEF Ledger!MoveParcel
  <2>. QED  BY <1>1, <1>2, <1>5, <2>1, <2>2 DEF Ledger!HandOver
<1>. QED  BY <1>7 DEF Ledger!Next

LEMMA DispatchImplements ==
  ASSUME HandoverInv, NEW r \in Request, Commit(r), tx[r].cmd.op = "bulkReady",
         tx[r].cmd \in ParcelCommand
  PROVE  Ledger!Next
<1>. DEFINE t == tx[r]
<1>a. /\ ParcelInv /\ TypeOK /\ TypeOK' /\ ParcelsExist
      /\ BillKept(t) /\ Moved(t) = t.cmd.parcels
      /\ t.cmd.parcels \in (SUBSET Parcel) \ {{}}
      /\ t.cmd.shipments = {}
  BY StepType, AllAreMoved, ParcelCommandType, ParcelCommandShape
     DEF HandoverInv, ParcelInv, InvoiceInv, ShipmentInv, Next, Command
<1>b. PICK ps \in (SUBSET Parcel) \ {{}} : ps = t.cmd.parcels
  BY <1>a
<1>0. /\ ParcelInv /\ TypeOK /\ TypeOK' /\ ParcelsExist
      /\ BillKept(t) /\ Moved(t) = ps
      /\ t.cmd.shipments = {}
  BY <1>a, <1>b
<1>1. ASSUME NEW p \in Parcel
      PROVE  /\ p \in ps =>
                  /\ parcels[p].status # "NONE"
                  /\ parcels'[p].status = "READY_FOR_DISPATCH"
                  /\ movements'[p] = Append(movements[p], [from |-> "PROCESSING",
                                                           to |-> "READY_FOR_DISPATCH"])
             /\ p \notin ps => UNCHANGED <<parcels[p], movements[p]>>
  <2>1. p \in ps => ChangesParcel(p) /\ IsDispatched(p)
    BY <1>0, CommitMoves
  <2>2. p \notin ps => UNCHANGED <<parcels[p], movements[p]>>
    BY <1>0, CommitMoves
  <2>. QED  BY <1>0, <2>1, <2>2 DEF ChangesParcel, IsDispatched, ParcelsExist
<1>2. \A p \in ps : [q \in Parcel |-> parcels[q].status][p] # "NONE"
  BY <1>0, <1>1
<1>3. [p \in Parcel |-> parcels'[p].status] =
        [p \in Parcel |-> IF p \in ps THEN "READY_FOR_DISPATCH"
                          ELSE [q \in Parcel |-> parcels[q].status][p]]
  BY <1>1
<1>4. movements' = [p \in Parcel |->
        IF p \in ps THEN Append(movements[p], [from |-> "PROCESSING", to |-> "READY_FOR_DISPATCH"])
                    ELSE movements[p]]
  BY <1>0, <1>1 DEF TypeOK
<1>5. Ledger!Follow({ShipmentOf[p] : p \in ps})
  <2>1. PICK S : S = {ShipmentOf[p] : p \in ps}
    OBVIOUS
  <2>2. S = Touched(t.cmd)
    BY <1>0, <1>b, <2>1 DEF Touched
  <2>3. Ledger!Follow(S)
    BY <2>2, CommitFollows
  <2>. QED  BY <2>1, <2>3
<1>6. UNCHANGED <<invoices, pods>>
  <2>1. t.bill = "NONE"
    BY <1>0 DEF BillKept
  <2>. QED  BY <1>0, <2>1 DEF Commit, LockedInvoices, TypeOK
<1>7. Ledger!Dispatch(ps)
  BY <1>2, <1>3, <1>4, <1>5, <1>6 DEF Ledger!Dispatch
<1>. QED  BY <1>7 DEF Ledger!Next

LEMMA StepImplements == HandoverInv /\ [Next]_vars => [Ledger!Next]_(Ledger!ledger)
<1>. SUFFICES ASSUME HandoverInv, [Next]_vars PROVE [Ledger!Next]_(Ledger!ledger)
  OBVIOUS
<1>0. TypeOK /\ InvoiceInv
  BY DEF HandoverInv, ParcelInv, InvoiceInv, ShipmentInv
<1>1. CASE UNCHANGED <<parcels, shipments, invoices, pods, movements>>
  BY <1>1 DEF Ledger!ledger
<1>2. ASSUME NEW s \in Shipment, CreateShipment(s) PROVE Ledger!Next
  BY <1>0, <1>2, OpensShipment DEF Ledger!Next
<1>3. ASSUME NEW s \in Shipment, RecordPayment(s) PROVE Ledger!Next
  BY <1>0, <1>3, PaysInvoice DEF Ledger!Next
<1>4. ASSUME NEW r \in Request, Commit(r) PROVE Ledger!Next
  <2>1. tx[r].phase = "ready" /\ CommandKept(tx[r])
    BY <1>0, <1>4 DEF Commit, InvoiceInv
  <2>2. CASE tx[r].cmd.op = "cancel"
    BY <1>4, <2>2, CancelImplements
  <2>3. CASE tx[r].cmd.op # "cancel"
    <3>1. tx[r].cmd \in ParcelCommand /\ tx[r].cmd.shipments = {}
      BY <2>1, <2>3, ParcelCommandType DEF CommandKept
    <3>2. CASE tx[r].cmd.op = "bulkReady"
      BY <1>4, <3>1, <3>2, DispatchImplements
    <3>3. CASE tx[r].cmd.op # "bulkReady"
      <4>1. PICK p \in Parcel : tx[r].cmd.parcels = {p}
        BY <3>1, <3>3, ParcelCommandShape
      <4>2. Touched(tx[r].cmd) = {ShipmentOf[p]}
        BY <3>1, <4>1 DEF Touched
      <4>. QED  BY <1>4, <2>3, <3>3, <4>1, <4>2, ScanImplements, DeliveryImplements
    <3>. QED  BY <3>2, <3>3
  <2>. QED  BY <2>2, <2>3
<1>. QED  BY <1>1, <1>2, <1>3, <1>4 DEF Next, vars, LoadParcels, LoadShipment, WriteParcels,
          ReadStatuses, WriteShipments, CancelShipment, RollBack

\* The module implements the ledger: whatever requests run beside each other, the
\* tables change as if one command ran at a time, where a dispatch may land on a
\* parcel in any status.
THEOREM LedgerIsImplemented == Spec => ImplementsLedger
<1>1. Init => Ledger!Init
  BY DEF Init, Ledger!Init, NoParcel, NoShipment
<1>. QED  BY <1>1, InitHandoverInv, StepHandoverInv, StepImplements, PTL
          DEF ImplementsLedger, Ledger!Spec, Spec
=============================================================================
