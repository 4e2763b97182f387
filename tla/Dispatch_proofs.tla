---------------------------- MODULE Dispatch_proofs ----------------------------
(***************************************************************************)
(* Theorems about Dispatch, for any trips, manifests, parcels and number   *)
(* of concurrent requests.                                                 *)
(*                                                                         *)
(* No update of Fleet carries a version, so what a command read may be old *)
(* when it commits.  What protects the claims is that they only grow:      *)
(* linkToTrip takes unclaimed manifests and nothing unlinks one.  So what  *)
(* a command learned of a claim (ClaimsSeen) is still true when it writes. *)
(*                                                                         *)
(* When the lists are frozen (no request changes one), a second invariant, *)
(* FrozenInv, says that items and parcels agree and what an open scan has  *)
(* learned.  Items only leave PENDING_LOAD and manifests only go on, so    *)
(* what a scan counted of the other items is still true when it commits,   *)
(* and the row lock on its parcel keeps its own item as it found it.       *)
(***************************************************************************)
EXTENDS Dispatch, TLAPS

TripOps == {"createTrip", "update", "assign", "start", "complete", "cancel"}

\* A scan found its manifest on a trip; a command that starts or completes a trip
\* found a manifest on it.
ClaimsSeen ==
  \A r \in Request :
    /\ tx[r].cmd.op \in TripOps => tx[r].cmd.trip \in Trip
    /\ tx[r].cmd.op \in Scans =>
         \A m \in tx[r].cmd.manifests : manifests[m].trip # NoTrip
    /\ tx[r].cmd.op \in {"start", "complete"} =>
         \E m \in Manifest : manifests[m].trip = tx[r].cmd.trip

DispatchInv == TypeOK /\ ClaimsSeen /\ NeverDepartsEmpty

ClaimsKept == \A m \in Manifest : manifests[m].trip # NoTrip
                                    => manifests'[m].trip = manifests[m].trip

-----------------------------------------------------------------------------
(* Types of the parts *)

LEMMA NoCommandType == NoCommand \in Command
<1>1. (CHOOSE d \in Driver : TRUE) \in Driver
  BY DriverAssumption
<1>. QED  BY <1>1 DEF NoCommand, Command, Commands

LEMMA IdleType == Idle \in Transaction /\ Idle.cmd.op = "add" /\ Idle.phase = "idle"
BY NoCommandType DEF Idle, Transaction, NoCommand, ManifestStatus

LEMMA TxFields ==
  ASSUME TypeOK, NEW r \in Request
  PROVE  /\ tx[r].phase \in {"idle", "read", "scanned", "ready"}
         /\ tx[r].cmd.op \in Commands
         /\ tx[r].cmd.trip \in Trip \cup {NoTrip}
         /\ tx[r].cmd.manifests \in SUBSET Manifest
         /\ tx[r].cmd.parcels \in SUBSET Parcel
         /\ tx[r].cmd.driver \in Driver
         /\ tx[r].saw \in ManifestStatus
         /\ tx[r].plan \in ManifestStatus
BY DEF TypeOK, Transaction, Command

LEMMA InitInv == Init => DispatchInv
<1>. SUFFICES ASSUME Init PROVE DispatchInv
  OBVIOUS
<1>1. NoCommand.driver \in Driver
  BY NoCommandType DEF Command
<1>2. trips \in [Trip -> [status: TripStatus, driver: Driver]]
  BY <1>1 DEF Init, TripStatus
<1>3. /\ manifests \in [Manifest -> [status: ManifestStatus, trip: Trip \cup {NoTrip}]]
      /\ \A m \in Manifest : manifests[m].status \in {"NONE", "OPEN", "READY_FOR_DISPATCH"}
  BY DEF Init, ManifestStatus
<1>4. /\ items \in [Manifest -> [Parcel -> ItemStatus]]
      /\ parcels \in [Parcel -> ParcelStatus]
  BY DEF Init, ItemStatus, ParcelStatus
<1>5. tx \in [Request -> Transaction]
  BY IdleType DEF Init
<1>6. ClaimsSeen
  BY IdleType DEF Init, ClaimsSeen, TripOps, Scans
<1>7. NeverDepartsEmpty
  BY DEF Init, NeverDepartsEmpty
<1>. QED  BY <1>2, <1>3, <1>4, <1>5, <1>6, <1>7 DEF DispatchInv, TypeOK

-----------------------------------------------------------------------------
(* What a step must do to keep the invariant *)

\* Claims are kept, one request moves, and the trips that are under way afterwards
\* carry a manifest.
LEMMA StepKeeps ==
  ASSUME DispatchInv, ClaimsKept, TypeOK', NEW r \in Request, NEW n,
         tx' = [tx EXCEPT ![r] = n],
         n.cmd.op \in TripOps => n.cmd.trip \in Trip,
         n.cmd.op \in Scans => \A m \in n.cmd.manifests : manifests[m].trip # NoTrip,
         n.cmd.op \in {"start", "complete"} =>
           \E m \in Manifest : manifests[m].trip = n.cmd.trip,
         n.cmd.manifests \subseteq Manifest,
         \A t \in Trip : trips'[t].status \in {"IN_PROGRESS", "COMPLETED"} =>
           Linked(t) # {}
  PROVE  DispatchInv'
<1>1. \A q \in Request : tx'[q] = IF q = r THEN n ELSE tx[q]
  BY DEF DispatchInv, TypeOK
<1>2. ClaimsSeen'
  <2>. SUFFICES ASSUME NEW q \in Request
                PROVE  /\ tx'[q].cmd.op \in TripOps => tx'[q].cmd.trip \in Trip
                       /\ tx'[q].cmd.op \in Scans =>
                            \A m \in tx'[q].cmd.manifests : manifests'[m].trip # NoTrip
                       /\ tx'[q].cmd.op \in {"start", "complete"} =>
                            \E m \in Manifest : manifests'[m].trip = tx'[q].cmd.trip
    BY DEF ClaimsSeen
  <2>1. CASE q = r
    <3>1. n.cmd.op \in {"start", "complete"} =>
            \E m \in Manifest : manifests'[m].trip = n.cmd.trip
      BY TripAssumption DEF ClaimsKept, TripOps
    <3>. QED  BY <1>1, <2>1, <3>1 DEF ClaimsKept
  <2>2. CASE q # r
    <3>1. tx'[q] = tx[q]
      BY <1>1, <2>2
    <3>2. tx[q].cmd.manifests \subseteq Manifest
      BY TxFields DEF DispatchInv
    <3>3. tx[q].cmd.op \in {"start", "complete"} =>
            \E m \in Manifest : manifests'[m].trip = tx[q].cmd.trip
      BY TripAssumption DEF ClaimsKept, TripOps, DispatchInv, ClaimsSeen
    <3>. QED  BY <3>1, <3>2, <3>3 DEF ClaimsKept, DispatchInv, ClaimsSeen
  <2>. QED  BY <2>1, <2>2
<1>3. NeverDepartsEmpty'
  BY TripAssumption DEF NeverDepartsEmpty, Linked, ClaimsKept
<1>. QED  BY <1>2, <1>3 DEF DispatchInv

\* A step that touches neither trips nor manifests.
LEMMA OwnStepKeeps ==
  ASSUME DispatchInv, NEW r \in Request, NEW n \in Transaction,
         tx' = [tx EXCEPT ![r] = n],
         UNCHANGED <<trips, manifests>>,
         items' \in [Manifest -> [Parcel -> ItemStatus]],
         parcels' \in [Parcel -> ParcelStatus],
         n.cmd.op \in TripOps => n.cmd.trip \in Trip,
         n.cmd.op \in Scans => \A m \in n.cmd.manifests : manifests[m].trip # NoTrip,
         n.cmd.op \in {"start", "complete"} =>
           \E m \in Manifest : manifests[m].trip = n.cmd.trip
  PROVE  DispatchInv' /\ ClaimsKept
<1>1. tx' \in [Request -> Transaction]
  BY DEF DispatchInv, TypeOK
<1>2. TypeOK'
  BY <1>1 DEF DispatchInv, TypeOK
<1>3. ClaimsKept
  BY DEF ClaimsKept
<1>4. n.cmd.manifests \subseteq Manifest
  BY DEF Transaction, Command
<1>5. \A t \in Trip : trips'[t].status \in {"IN_PROGRESS", "COMPLETED"} => Linked(t) # {}
  BY DEF DispatchInv, NeverDepartsEmpty
<1>. QED  BY <1>2, <1>3, <1>4, <1>5, StepKeeps

-----------------------------------------------------------------------------
(* Commands begin *)

LEMMA BeginKeeps ==
  ASSUME DispatchInv, NEW r \in Request, NEW op, NEW t \in Trip \cup {NoTrip},
         NEW ms \in SUBSET Manifest, NEW ps \in SUBSET Parcel, NEW d \in Driver,
         Begin(r, op, t, ms, ps, d),
         op \in TripOps => t \in Trip,
         op \in Scans => ms # {} /\ \A m \in ms : manifests[m].trip # NoTrip,
         op \in {"start", "complete"} => \E m \in Manifest : manifests[m].trip = t
  PROVE  DispatchInv' /\ ClaimsKept
<1> DEFINE cmd == [op |-> op, trip |-> t, manifests |-> ms, parcels |-> ps, driver |-> d]
           saw == IF op \in Scans THEN manifests[CHOOSE m \in ms : TRUE].status ELSE "NONE"
           n == [Idle EXCEPT !.phase = "read", !.cmd = cmd, !.saw = saw]
<1>1. cmd \in Command
  BY CommandsAssumption DEF Begin, Command
<1>2. saw \in ManifestStatus
  <2>1. ms # {} => (CHOOSE m \in ms : TRUE) \in Manifest
    OBVIOUS
  <2>. QED  BY <2>1 DEF DispatchInv, TypeOK, ManifestStatus
<1>3. /\ cmd.op = op
      /\ cmd.trip = t
      /\ cmd.manifests = ms
  OBVIOUS
<1>. HIDE DEF cmd, saw
<1>4. n \in Transaction /\ n.cmd = cmd
  BY <1>1, <1>2, IdleType DEF Transaction
<1>5. tx' = [tx EXCEPT ![r] = n] /\ UNCHANGED <<trips, manifests, items, parcels>>
  BY DEF Begin, cmd, saw, tables
<1>. HIDE DEF n
<1>6. /\ items' \in [Manifest -> [Parcel -> ItemStatus]]
      /\ parcels' \in [Parcel -> ParcelStatus]
  BY <1>5 DEF DispatchInv, TypeOK
<1>. QED  BY <1>3, <1>4, <1>5, <1>6, OwnStepKeeps

LEMMA DriverOfNoCommand == NoCommand.driver \in Driver
BY NoCommandType DEF Command

LEMMA ManifestCommandStep ==
  ASSUME DispatchInv, NEW r \in Request, NEW m \in Manifest, ManifestCommand(r, m)
  PROVE  DispatchInv' /\ ClaimsKept
<1>1. ASSUME NEW ps \in SUBSET Parcel, AddItems(r, m, ps)
      PROVE  DispatchInv' /\ ClaimsKept
  BY <1>1, BeginKeeps, DriverOfNoCommand DEF AddItems, TripOps, Scans
<1>2. ASSUME NEW p \in Parcel, RemoveItem(r, m, p)
      PROVE  DispatchInv' /\ ClaimsKept
  BY <1>2, BeginKeeps, DriverOfNoCommand DEF RemoveItem, TripOps, Scans
<1>3. ASSUME NEW p \in Parcel, ReportMissing(r, m, p)
      PROVE  DispatchInv' /\ ClaimsKept
  BY <1>3, BeginKeeps, DriverOfNoCommand DEF ReportMissing, TripOps, Scans
\* A scan needs a status that only a claimed manifest has.
<1>4. ASSUME NEW p \in Parcel, NEW op \in Scans, Scan(r, op, m, p)
      PROVE  DispatchInv' /\ ClaimsKept
  <2>1. manifests[m].trip # NoTrip
    <3>1. manifests[m].status \in {"ASSIGNED", "LOADING", "IN_TRANSIT"}
      BY <1>4 DEF Scan, ItemAccepts, Scans
    <3>. QED  BY <3>1 DEF DispatchInv, TypeOK
  <2>2. Begin(r, op, NoTrip, {m}, {p}, NoCommand.driver)
    BY <1>4 DEF Scan
  <2>. QED  BY <2>1, <2>2, BeginKeeps, DriverOfNoCommand DEF TripOps, Scans
<1>5. CASE FinalizeManifest(r, m)
  BY <1>5, BeginKeeps, DriverOfNoCommand DEF FinalizeManifest, TripOps, Scans
<1>6. CASE ReopenManifest(r, m)
  BY <1>6, BeginKeeps, DriverOfNoCommand DEF ReopenManifest, TripOps, Scans
<1>. QED  BY <1>1, <1>2, <1>3, <1>4, <1>5, <1>6 DEF ManifestCommand

LEMMA TripCommandStep ==
  ASSUME DispatchInv, NEW r \in Request, NEW t \in Trip, TripCommand(r, t)
  PROVE  DispatchInv' /\ ClaimsKept
<1>1. ASSUME NEW d \in Driver, UpdateTrip(r, t, d)
      PROVE  DispatchInv' /\ ClaimsKept
  BY <1>1, BeginKeeps DEF UpdateTrip, TripOps, Scans
<1>2. ASSUME NEW d \in Driver, NEW ms \in SUBSET Manifest, CreateTrip(r, t, d, ms)
      PROVE  DispatchInv' /\ ClaimsKept
  BY <1>2, BeginKeeps DEF CreateTrip, TripOps, Scans
<1>3. ASSUME NEW ms \in SUBSET Manifest, AssignManifestsToTrip(r, t, ms)
      PROVE  DispatchInv' /\ ClaimsKept
  BY <1>3, BeginKeeps, DriverOfNoCommand DEF AssignManifestsToTrip, TripOps, Scans
<1>4. CASE StartTrip(r, t)
  <2>1. \E m \in Manifest : manifests[m].trip = t
    BY <1>4 DEF StartTrip, Departs, Linked
  <2>. QED  BY <1>4, <2>1, BeginKeeps, DriverOfNoCommand DEF StartTrip, TripOps, Scans
<1>5. CASE CompleteTrip(r, t)
  <2>1. \E m \in Manifest : manifests[m].trip = t
    BY <1>5 DEF CompleteTrip, DispatchInv, NeverDepartsEmpty, Linked
  <2>. QED  BY <1>5, <2>1, BeginKeeps, DriverOfNoCommand DEF CompleteTrip, TripOps, Scans
<1>6. CASE CancelTrip(r, t)
  BY <1>6, BeginKeeps, DriverOfNoCommand DEF CancelTrip, TripOps, Scans
<1>. QED  BY <1>1, <1>2, <1>3, <1>4, <1>5, <1>6 DEF TripCommand

-----------------------------------------------------------------------------
(* Commands go on *)

\* The command of a request goes on: it knows what it knew.
LEMMA MoveKeeps ==
  ASSUME DispatchInv, NEW r \in Request,
         NEW phase \in {"idle", "read", "scanned", "ready"}, NEW plan \in ManifestStatus,
         tx' = [tx EXCEPT ![r].phase = phase, ![r].plan = plan],
         UNCHANGED <<trips, manifests, items, parcels>>
  PROVE  DispatchInv' /\ ClaimsKept
<1> DEFINE n == [tx[r] EXCEPT !.phase = phase, !.plan = plan]
<1>1. tx[r] \in Transaction
  BY DEF DispatchInv, TypeOK
<1>2. n \in Transaction /\ n.cmd = tx[r].cmd
  BY <1>1 DEF Transaction
<1>3. tx' = [tx EXCEPT ![r] = n]
  BY DEF DispatchInv, TypeOK
<1>. HIDE DEF n
<1>4. /\ items' \in [Manifest -> [Parcel -> ItemStatus]]
      /\ parcels' \in [Parcel -> ParcelStatus]
  BY DEF DispatchInv, TypeOK
<1>5. /\ n.cmd.op \in TripOps => n.cmd.trip \in Trip
      /\ n.cmd.op \in Scans => \A m \in n.cmd.manifests : manifests[m].trip # NoTrip
      /\ n.cmd.op \in {"start", "complete"} =>
           \E m \in Manifest : manifests[m].trip = n.cmd.trip
  BY <1>2 DEF DispatchInv, ClaimsSeen
<1>. QED  BY <1>2, <1>3, <1>4, <1>5, OwnStepKeeps

LEMMA PhaseKeeps ==
  ASSUME DispatchInv, NEW r \in Request,
         NEW phase \in {"idle", "read", "scanned", "ready"},
         tx' = [tx EXCEPT ![r].phase = phase],
         UNCHANGED <<trips, manifests, items, parcels>>
  PROVE  DispatchInv' /\ ClaimsKept
<1>1. tx[r] \in Transaction
  BY DEF DispatchInv, TypeOK
<1>2. tx' = [tx EXCEPT ![r].phase = phase, ![r].plan = tx[r].plan]
  BY <1>1 DEF DispatchInv, TypeOK, Transaction
<1>3. tx[r].plan \in ManifestStatus
  BY <1>1 DEF Transaction
<1>. QED  BY <1>2, <1>3, MoveKeeps

LEMMA GoOnStep ==
  ASSUME DispatchInv, NEW r \in Request, ReadParcels(r) \/ WriteScan(r) \/ Count(r)
  PROVE  DispatchInv' /\ ClaimsKept
<1>1. CASE ReadParcels(r)
  BY <1>1, PhaseKeeps DEF ReadParcels
<1>2. CASE WriteScan(r)
  BY <1>2, PhaseKeeps DEF WriteScan
<1>3. CASE Count(r)
  <2>1. PICK m \in tx[r].cmd.manifests :
          tx' = [tx EXCEPT ![r].phase = "ready", ![r].plan = CountSaw(r, m)]
    BY <1>3 DEF Count
  <2>2. CountSaw(r, m) \in ManifestStatus
    BY DEF CountSaw, ManifestStatus
  <2>3. UNCHANGED <<trips, manifests, items, parcels>>
    BY <1>3 DEF Count
  <2>. QED  BY <2>1, <2>2, <2>3, MoveKeeps
<1>. QED  BY <1>1, <1>2, <1>3

-----------------------------------------------------------------------------
(* Commands end *)

\* A request that ends its command without touching trips or manifests.
LEMMA EndKeeps ==
  ASSUME DispatchInv, NEW r \in Request,
         tx' = [tx EXCEPT ![r] = Idle],
         UNCHANGED <<trips, manifests>>,
         items' \in [Manifest -> [Parcel -> ItemStatus]],
         parcels' \in [Parcel -> ParcelStatus]
  PROVE  DispatchInv' /\ ClaimsKept
BY IdleType, OwnStepKeeps DEF TripOps, Scans

\* A request that ends its command with changes of trips or manifests that keep the
\* claims and send no trip off empty.
LEMMA WriteKeeps ==
  ASSUME DispatchInv, NEW r \in Request,
         tx' = [tx EXCEPT ![r] = Idle],
         TypeOK', ClaimsKept,
         \A t \in Trip : trips'[t].status \in {"IN_PROGRESS", "COMPLETED"} =>
           Linked(t) # {}
  PROVE  DispatchInv' /\ ClaimsKept
BY IdleType, StepKeeps DEF TripOps, Scans, Idle, NoCommand

LEMMA IdleTx ==
  ASSUME TypeOK, NEW r \in Request, tx' = [tx EXCEPT ![r] = Idle]
  PROVE  tx' \in [Request -> Transaction]
BY IdleType DEF TypeOK

\* An update of the manifests' status: the trip stays, and a status that needs a
\* trip is only written to manifests that have one.
LEMMA ManifestUpdate ==
  ASSUME DispatchInv, NEW r \in Request, NEW status \in ManifestStatus,
         SetManifest(r, status),
         \/ status \in {"NONE", "OPEN", "READY_FOR_DISPATCH"}
         \/ \A m \in tx[r].cmd.manifests : manifests[m].trip # NoTrip
  PROVE  /\ manifests' \in [Manifest -> [status: ManifestStatus, trip: Trip \cup {NoTrip}]]
         /\ \A m \in Manifest : manifests'[m].trip = NoTrip
              => manifests'[m].status \in {"NONE", "OPEN", "READY_FOR_DISPATCH"}
         /\ ClaimsKept
<1>1. manifests' = [m \in Manifest |-> IF m \in tx[r].cmd.manifests
                                       THEN [manifests[m] EXCEPT !.status = status]
                                       ELSE manifests[m]]
  BY DEF SetManifest
<1>2. \A m \in Manifest :
        /\ [manifests[m] EXCEPT !.status = status]
              \in [status: ManifestStatus, trip: Trip \cup {NoTrip}]
        /\ [manifests[m] EXCEPT !.status = status].status = status
        /\ [manifests[m] EXCEPT !.status = status].trip = manifests[m].trip
  BY DEF DispatchInv, TypeOK
<1>3. manifests' \in [Manifest -> [status: ManifestStatus, trip: Trip \cup {NoTrip}]]
  BY <1>1, <1>2 DEF DispatchInv, TypeOK
<1>4. \A m \in Manifest :
        /\ manifests'[m].trip = manifests[m].trip
        /\ manifests'[m].status = IF m \in tx[r].cmd.manifests THEN status
                                                               ELSE manifests[m].status
  BY <1>1, <1>2
<1>. QED  BY <1>3, <1>4 DEF DispatchInv, TypeOK, ClaimsKept

\* With trips as they were, none leaves.
LEMMA NoTripLeaves ==
  ASSUME DispatchInv, UNCHANGED trips
  PROVE  \A t \in Trip : trips'[t].status \in {"IN_PROGRESS", "COMPLETED"} =>
           Linked(t) # {}
BY DEF DispatchInv, NeverDepartsEmpty

LEMMA ItemTypes ==
  ASSUME TypeOK, NEW r \in Request, NEW status \in ItemStatus, SetItems(r, status)
  PROVE  items' \in [Manifest -> [Parcel -> ItemStatus]]
BY DEF TypeOK, SetItems

LEMMA ParcelTypes ==
  ASSUME TypeOK, NEW r \in Request, tx[r].cmd.op \in {"add", "load", "unload"},
         SetParcels(r)
  PROVE  parcels' \in [Parcel -> ParcelStatus]
BY DEF TypeOK, SetParcels, ParcelAfter, ParcelStatus

LEMMA ManifestEndStep ==
  ASSUME DispatchInv, NEW r \in Request, EndOfManifestCommand(r)
  PROVE  DispatchInv' /\ ClaimsKept
<1>. TypeOK
  BY DEF DispatchInv
<1>1. CASE CommitAdd(r)
  BY <1>1, EndKeeps, ItemTypes, ParcelTypes DEF CommitAdd, Commit, ItemStatus
<1>2. CASE CommitRemoval(r)
  <2>1. items' \in [Manifest -> [Parcel -> ItemStatus]]
    BY <1>2, ItemTypes DEF CommitRemoval, ItemStatus
  <2>2. tx' = [tx EXCEPT ![r] = Idle] /\ UNCHANGED <<trips, manifests, parcels>>
    BY <1>2 DEF CommitRemoval, Commit
  <2>. QED  BY <2>1, <2>2, EndKeeps DEF TypeOK
<1>3. CASE CommitMissing(r)
  <2>1. items' \in [Manifest -> [Parcel -> ItemStatus]]
    BY <1>3, ItemTypes DEF CommitMissing, ItemStatus
  <2>2. tx' = [tx EXCEPT ![r] = Idle] /\ UNCHANGED <<trips, manifests, parcels>>
    BY <1>3 DEF CommitMissing, Commit
  <2>. QED  BY <2>1, <2>2, EndKeeps DEF TypeOK
<1>4. CASE CommitFinalize(r) \/ CommitReopen(r)
  <2>1. PICK status \in {"READY_FOR_DISPATCH", "OPEN"} : SetManifest(r, status)
    BY <1>4 DEF CommitFinalize, CommitReopen
  <2>2. tx' = [tx EXCEPT ![r] = Idle] /\ UNCHANGED <<trips, items, parcels>>
    BY <1>4 DEF CommitFinalize, CommitReopen, Commit
  <2>3. /\ manifests' \in [Manifest -> [status: ManifestStatus, trip: Trip \cup {NoTrip}]]
        /\ \A m \in Manifest : manifests'[m].trip = NoTrip
             => manifests'[m].status \in {"NONE", "OPEN", "READY_FOR_DISPATCH"}
        /\ ClaimsKept
    BY <2>1, ManifestUpdate DEF ManifestStatus
  <2>4. TypeOK'
    BY <2>2, <2>3, IdleTx DEF TypeOK
  <2>. QED  BY <2>2, <2>3, <2>4, NoTripLeaves, WriteKeeps
<1>5. ASSUME NEW op \in Scans, CommitScan(r, op)
      PROVE  DispatchInv' /\ ClaimsKept
  <2>1. /\ tx[r].cmd.op = op
        /\ tx' = [tx EXCEPT ![r] = Idle]
        /\ UNCHANGED trips
    BY <1>5 DEF CommitScan, Commit
  <2>2. items' \in [Manifest -> [Parcel -> ItemStatus]]
    BY <1>5, ItemTypes DEF CommitScan, ItemAfter, ItemStatus
  <2>3. parcels' \in [Parcel -> ParcelStatus]
    BY <1>5, <2>1, ParcelTypes DEF CommitScan, Scans
  <2>4. CASE tx[r].plan = "NONE"
    BY <1>5, <2>1, <2>2, <2>3, <2>4, EndKeeps DEF CommitScan
  <2>5. CASE tx[r].plan # "NONE"
    <3>1. SetManifest(r, tx[r].plan) /\ tx[r].plan \in ManifestStatus
      BY <1>5, <2>5, TxFields DEF CommitScan
    <3>2. \A m \in tx[r].cmd.manifests : manifests[m].trip # NoTrip
      BY <2>1 DEF DispatchInv, ClaimsSeen
    <3>3. /\ manifests' \in [Manifest -> [status: ManifestStatus, trip: Trip \cup {NoTrip}]]
          /\ \A m \in Manifest : manifests'[m].trip = NoTrip
               => manifests'[m].status \in {"NONE", "OPEN", "READY_FOR_DISPATCH"}
          /\ ClaimsKept
      BY <3>1, <3>2, ManifestUpdate
    <3>4. TypeOK'
      BY <2>1, <2>2, <2>3, <3>3, IdleTx DEF TypeOK
    <3>. QED  BY <2>1, <3>3, <3>4, NoTripLeaves, WriteKeeps
  <2>. QED  BY <2>4, <2>5
<1>. QED  BY <1>1, <1>2, <1>3, <1>4, <1>5 DEF EndOfManifestCommand

\* linkToTrip: only manifests without a trip are given one.
LEMMA LinksStep ==
  ASSUME DispatchInv, NEW r \in Request, NEW op \in {"createTrip", "assign"},
         CommitLinks(r, op)
  PROVE  DispatchInv' /\ ClaimsKept
<1> DEFINE c == tx[r].cmd
<1>1. /\ c.op = op
      /\ tx' = [tx EXCEPT ![r] = Idle]
      /\ \A m \in c.manifests : manifests[m].trip = NoTrip
      /\ manifests' = [m \in Manifest |-> IF m \in c.manifests
                                          THEN [status |-> "ASSIGNED", trip |-> c.trip]
                                          ELSE manifests[m]]
      /\ trips' = IF op = "assign" THEN trips
                  ELSE [trips EXCEPT ![c.trip] = [status |-> "SCHEDULED", driver |-> c.driver]]
      /\ UNCHANGED <<items, parcels>>
  BY DEF CommitLinks, Commit, Links, Claimed
<1>2. c.trip \in Trip /\ c.driver \in Driver
  BY <1>1, TxFields DEF DispatchInv, ClaimsSeen, TripOps
<1>. HIDE DEF c
<1>3. manifests' \in [Manifest -> [status: ManifestStatus, trip: Trip \cup {NoTrip}]]
  BY <1>1, <1>2 DEF DispatchInv, TypeOK, ManifestStatus
<1>4. \A m \in Manifest : manifests'[m].trip = NoTrip
        => manifests'[m].status \in {"NONE", "OPEN", "READY_FOR_DISPATCH"}
  BY <1>1, <1>2, TripAssumption DEF DispatchInv, TypeOK
<1>5. trips' \in [Trip -> [status: TripStatus, driver: Driver]]
  BY <1>1, <1>2 DEF DispatchInv, TypeOK, TripStatus
<1>6. TypeOK'
  BY <1>1, <1>3, <1>4, <1>5, IdleTx DEF DispatchInv, TypeOK
<1>7. ClaimsKept
  BY <1>1 DEF ClaimsKept
<1>8. \A t \in Trip : trips'[t].status \in {"IN_PROGRESS", "COMPLETED"} => Linked(t) # {}
  BY <1>1, <1>2 DEF DispatchInv, TypeOK, NeverDepartsEmpty
<1>. QED  BY <1>1, <1>6, <1>7, <1>8, WriteKeeps

\* start, complete and cancel overwrite whatever the trip has become; it still
\* carries the manifest that start and complete saw.
LEMMA TripStatusStep ==
  ASSUME DispatchInv, NEW r \in Request, NEW op, NEW status,
         \/ op = "start" /\ status = "IN_PROGRESS"
         \/ op = "complete" /\ status = "COMPLETED"
         \/ op = "cancel" /\ status = "CANCELLED",
         CommitTripStatus(r, op, status)
  PROVE  DispatchInv' /\ ClaimsKept
<1> DEFINE t == tx[r].cmd.trip
<1>1. /\ tx[r].cmd.op = op
      /\ tx' = [tx EXCEPT ![r] = Idle]
      /\ trips' = [trips EXCEPT ![t].status = status]
      /\ UNCHANGED <<manifests, items, parcels>>
  BY DEF CommitTripStatus, Commit
<1>2. /\ t \in Trip
      /\ op \in {"start", "complete"} => \E m \in Manifest : manifests[m].trip = t
  BY <1>1 DEF DispatchInv, ClaimsSeen, TripOps
<1>. HIDE DEF t
<1>3. status \in TripStatus
  BY DEF TripStatus
<1>4. /\ trips' \in [Trip -> [status: TripStatus, driver: Driver]]
      /\ \A u \in Trip : trips'[u].status = IF u = t THEN status ELSE trips[u].status
  BY <1>1, <1>2, <1>3 DEF DispatchInv, TypeOK
<1>5. TypeOK'
  BY <1>1, <1>4, IdleTx DEF DispatchInv, TypeOK
<1>6. \A u \in Trip : trips'[u].status \in {"IN_PROGRESS", "COMPLETED"} => Linked(u) # {}
  <2>. SUFFICES ASSUME NEW u \in Trip, trips'[u].status \in {"IN_PROGRESS", "COMPLETED"}
                PROVE  Linked(u) # {}
    OBVIOUS
  <2>1. CASE u = t
    BY <1>2, <1>4, <2>1 DEF Linked
  <2>2. CASE u # t
    BY <1>4, <2>2 DEF DispatchInv, NeverDepartsEmpty
  <2>. QED  BY <2>1, <2>2
<1>7. ClaimsKept
  BY <1>1 DEF ClaimsKept
<1>. QED  BY <1>1, <1>5, <1>6, <1>7, WriteKeeps

LEMMA TripEndStep ==
  ASSUME DispatchInv, NEW r \in Request, EndOfTripCommand(r)
  PROVE  DispatchInv' /\ ClaimsKept
<1>1. CASE \E op \in {"createTrip", "assign"} : CommitLinks(r, op)
  BY <1>1, LinksStep
<1>2. CASE CommitUpdate(r)
  <2>1. /\ tx' = [tx EXCEPT ![r] = Idle]
        /\ trips' = [trips EXCEPT ![tx[r].cmd.trip].driver = tx[r].cmd.driver]
        /\ UNCHANGED <<manifests, items, parcels>>
    BY <1>2 DEF CommitUpdate, Commit
  <2>2. tx[r].cmd.driver \in Driver
    BY TxFields DEF DispatchInv
  <2>3. /\ trips' \in [Trip -> [status: TripStatus, driver: Driver]]
        /\ \A t \in Trip : trips'[t].status = trips[t].status
    <3> DEFINE c == tx[r].cmd
    <3>1. trips' = [t \in Trip |-> IF t = c.trip THEN [trips[t] EXCEPT !.driver = c.driver]
                                                 ELSE trips[t]]
      BY <2>1 DEF DispatchInv, TypeOK
    <3>2. c.driver \in Driver
      BY <2>2
    <3>. HIDE DEF c
    <3>3. \A t \in Trip :
            /\ [trips[t] EXCEPT !.driver = c.driver] \in [status: TripStatus, driver: Driver]
            /\ [trips[t] EXCEPT !.driver = c.driver].status = trips[t].status
      BY <3>2 DEF DispatchInv, TypeOK
    <3>4. trips \in [Trip -> [status: TripStatus, driver: Driver]]
      BY DEF DispatchInv, TypeOK
    <3>. QED  BY <3>1, <3>3, <3>4
  <2>4. TypeOK'
    BY <2>1, <2>3, IdleTx DEF DispatchInv, TypeOK
  <2>5. ClaimsKept
    BY <2>1 DEF ClaimsKept
  <2>6. \A t \in Trip : trips'[t].status \in {"IN_PROGRESS", "COMPLETED"} => Linked(t) # {}
    BY <2>3 DEF DispatchInv, NeverDepartsEmpty
  <2>. QED  BY <2>1, <2>4, <2>5, <2>6, WriteKeeps
<1>3. CASE CommitTripStatus(r, "start", "IN_PROGRESS")
  BY <1>3, TripStatusStep
<1>4. CASE CommitTripStatus(r, "complete", "COMPLETED")
  BY <1>4, TripStatusStep
<1>5. CASE CommitTripStatus(r, "cancel", "CANCELLED")
  BY <1>5, TripStatusStep
<1>. QED  BY <1>1, <1>2, <1>3, <1>4, <1>5 DEF EndOfTripCommand

LEMMA CreateManifestStep ==
  ASSUME DispatchInv, NEW m \in Manifest, CreateManifest(m)
  PROVE  DispatchInv' /\ ClaimsKept
<1>1. /\ manifests' = [manifests EXCEPT ![m].status = "OPEN"]
      /\ UNCHANGED <<trips, items, parcels, tx>>
  BY DEF CreateManifest
<1>2. /\ manifests' \in [Manifest -> [status: ManifestStatus, trip: Trip \cup {NoTrip}]]
      /\ \A n \in Manifest : /\ manifests'[n].trip = manifests[n].trip
                              /\ n # m => manifests'[n].status = manifests[n].status
      /\ manifests'[m].status = "OPEN"
  BY <1>1 DEF DispatchInv, TypeOK, ManifestStatus
<1>3. TypeOK' /\ ClaimsKept
  BY <1>1, <1>2 DEF DispatchInv, TypeOK, ClaimsKept
<1>4. \A r \in Request : tx[r].cmd.manifests \subseteq Manifest
  BY TxFields DEF DispatchInv
<1>5. ClaimsSeen'
  BY <1>1, <1>2, <1>4 DEF DispatchInv, ClaimsSeen
<1>6. NeverDepartsEmpty'
  BY <1>1, <1>2 DEF DispatchInv, NeverDepartsEmpty, Linked
<1>. QED  BY <1>3, <1>5, <1>6 DEF DispatchInv

\* Steps that leave trips, manifests and transactions alone.
LEMMA QuietStep ==
  ASSUME DispatchInv, UNCHANGED <<trips, manifests, items, tx>>,
         parcels' \in [Parcel -> ParcelStatus]
  PROVE  DispatchInv' /\ ClaimsKept
BY DEF DispatchInv, TypeOK, ClaimsSeen, NeverDepartsEmpty, Linked, ClaimsKept

LEMMA NextKeeps == DispatchInv /\ [Next]_vars => DispatchInv' /\ ClaimsKept
<1>. SUFFICES ASSUME DispatchInv, [Next]_vars
              PROVE  DispatchInv' /\ ClaimsKept
  OBVIOUS
<1>1. ASSUME NEW m \in Manifest, CreateManifest(m)
      PROVE  DispatchInv' /\ ClaimsKept
  BY <1>1, CreateManifestStep
<1>2. ASSUME NEW p \in Parcel, ReceiveParcel(p)
      PROVE  DispatchInv' /\ ClaimsKept
  <2>1. parcels' \in [Parcel -> ParcelStatus]
    BY <1>2 DEF ReceiveParcel, DispatchInv, TypeOK, ParcelStatus
  <2>. QED  BY <1>2, <2>1, QuietStep DEF ReceiveParcel
<1>3. ASSUME NEW r \in Request, NEW m \in Manifest, ManifestCommand(r, m)
      PROVE  DispatchInv' /\ ClaimsKept
  BY <1>3, ManifestCommandStep
<1>4. ASSUME NEW r \in Request, NEW t \in Trip, TripCommand(r, t)
      PROVE  DispatchInv' /\ ClaimsKept
  BY <1>4, TripCommandStep
<1>5. ASSUME NEW r \in Request, ReadParcels(r) \/ WriteScan(r) \/ Count(r)
      PROVE  DispatchInv' /\ ClaimsKept
  BY <1>5, GoOnStep
<1>6. ASSUME NEW r \in Request, EndOfManifestCommand(r) \/ EndOfTripCommand(r)
      PROVE  DispatchInv' /\ ClaimsKept
  BY <1>6, ManifestEndStep, TripEndStep
<1>7. ASSUME NEW r \in Request, RollBack(r)
      PROVE  DispatchInv' /\ ClaimsKept
  BY <1>7, EndKeeps DEF RollBack, DispatchInv, TypeOK
<1>8. CASE UNCHANGED vars
  BY <1>8, QuietStep DEF vars, DispatchInv, TypeOK
<1>. QED  BY <1>1, <1>2, <1>3, <1>4, <1>5, <1>6, <1>7, <1>8 DEF Next

LEMMA AlwaysInv == Spec => []DispatchInv
<1>1. DispatchInv /\ [Next]_vars => DispatchInv'
  BY NextKeeps
<1>. QED  BY <1>1, InitInv, PTL DEF Spec

-----------------------------------------------------------------------------
(* Frozen lists: manifests, items and parcels agree *)

\* No request changes a list: what scans decide is then about one set of parcels.
Frozen == Op \cap {"add", "remove", "finalize", "reopen"} = {}

\* Statuses of a manifest that a driver has begun to load.
UnderLoad == {"ASSIGNED", "LOADING", "IN_TRANSIT", "COMPLETED"}
Gone == {"IN_TRANSIT", "COMPLETED"}

\* The parcel of an item is where the item says, and on no other list.
OneList == \A m, n \in Manifest, p \in Parcel :
  items[m][p] # "NONE" /\ items[n][p] # "NONE" => m = n

Agree == \A p \in Parcel :
  /\ \A m \in Manifest :
       /\ items[m][p] = "PENDING_LOAD" => parcels[p] = "READY_FOR_DISPATCH"
       /\ items[m][p] = "LOADED" => parcels[p] = "IN_TRANSIT"
       /\ items[m][p] # "NONE" /\ parcels[p] = "READY_FOR_DISPATCH"
            => items[m][p] = "PENDING_LOAD"
       /\ items[m][p] # "NONE" /\ parcels[p] = "IN_TRANSIT"
            => items[m][p] \in {"LOADED", "MISSING"}
  /\ parcels[p] # "PROCESSING" => \E m \in Manifest : items[m][p] # "NONE"

\* What the count of a scan found, of parcels that are not its own.
Counted(t, m, p) ==
  /\ t.plan \in {"NONE", "LOADING", "IN_TRANSIT", "COMPLETED"}
  /\ t.plan = "LOADING" => t.cmd.op = "load"
  /\ t.plan = "IN_TRANSIT" =>
       t.cmd.op = "load" /\ \A x \in Parcel \ {p} : items[m][x] # "PENDING_LOAD"
  /\ t.plan = "COMPLETED" =>
       t.cmd.op = "unload" /\ \A x \in Parcel \ {p} : items[m][x] # "LOADED"

\* What an open command about item p of manifest m has learned.
Handles(t, m, p) ==
  /\ t.cmd.manifests = {m} /\ t.cmd.parcels = {p}
  /\ items[m][p] # "NONE"
  /\ t.cmd.op = "missing" => items[m][p] # "PENDING_LOAD"
  /\ t.cmd.op = "load" => manifests[m].status \in UnderLoad
  /\ t.cmd.op = "unload" => manifests[m].status \in Gone /\ t.saw # "ASSIGNED"
  /\ t.phase \in {"scanned", "ready"} /\ t.cmd.op \in Scans =>
       parcels[p] = ParcelBefore(t.cmd.op)
  /\ t.phase = "ready" /\ t.cmd.op \in Scans => Counted(t, m, p)

Knows(t) ==
  t.phase # "idle" =>
    /\ t.cmd.op \in Op
    /\ t.cmd.op \in Scans \cup {"missing"} =>
         \E m \in Manifest, p \in Parcel : Handles(t, m, p)

\* Two scans that wrote a parcel wrote different ones.
ScansApart == \A r, q \in Request : r # q => LockedParcels(r) \cap LockedParcels(q) = {}

FrozenInv == OneList /\ Agree /\ InTransitMeansLoaded /\ ScansApart
               /\ \A r \in Request : Knows(tx[r])

\* A manifest moves along its lifecycle.
Advances == \A m \in Manifest :
  \/ manifests'[m].status = manifests[m].status
  \/ manifests'[m].status \in ManifestNext(manifests[m].status)
  \/ manifests[m].status = "ASSIGNED" /\ manifests'[m].status = "IN_TRANSIT"

\* Nothing goes back to PENDING_LOAD, nor on or off a list, nor out of loading.
TablesAdvance ==
  /\ \A m \in Manifest, p \in Parcel :
       /\ items'[m][p] = "NONE" <=> items[m][p] = "NONE"
       /\ items'[m][p] = "PENDING_LOAD" => items[m][p] = "PENDING_LOAD"
       /\ items'[m][p] = "LOADED" => items[m][p] \in {"PENDING_LOAD", "LOADED"}
  /\ \A m \in Manifest :
       /\ manifests[m].status \in UnderLoad => manifests'[m].status \in UnderLoad
       /\ manifests[m].status \in Gone => manifests'[m].status \in Gone

\* LockedParcels of a request whose transaction is t.
LockedBy(t) == IF t.phase \in {"scanned", "ready"} /\ t.cmd.op \in Scans
               THEN t.cmd.parcels ELSE {}

LEMMA LockedIsBy == \A r \in Request : LockedParcels(r) = LockedBy(tx[r])
BY DEF LockedParcels, Scanning, LockedBy

\* An idle request has learned nothing and holds nothing.
LEMMA IdleKnows == Knows(Idle) /\ LockedBy(Idle) = {}
BY DEF Knows, Idle, LockedBy

LEMMA FrozenStart == Init => FrozenInv
<1>. SUFFICES ASSUME Init PROVE FrozenInv
  OBVIOUS
<1>1. /\ \A m \in Manifest, p \in Parcel :
           items[m][p] = IF p \in Assembled[m] THEN "PENDING_LOAD" ELSE "NONE"
      /\ \A m \in Manifest : manifests[m].status \in {"NONE", "READY_FOR_DISPATCH"}
      /\ \A p \in Parcel :
           parcels[p] = IF \E m \in Manifest : p \in Assembled[m]
                        THEN "READY_FOR_DISPATCH" ELSE "PROCESSING"
      /\ \A r \in Request : tx[r] = Idle
  BY DEF Init
<1>2. OneList
  BY <1>1, AssembledAssumption DEF OneList
<1>3. Agree
  BY <1>1 DEF Agree
<1>4. InTransitMeansLoaded
  BY <1>1 DEF InTransitMeansLoaded
<1>5. ScansApart
  BY <1>1, LockedIsBy, IdleKnows DEF ScansApart
<1>6. \A r \in Request : Knows(tx[r])
  BY <1>1, IdleKnows
<1>. QED  BY <1>2, <1>3, <1>4, <1>5, <1>6 DEF FrozenInv

\* What a request learned stays true while others move the tables on, and leave
\* what it holds alone.
LEMMA KnowsStays ==
  ASSUME FrozenInv, TablesAdvance, NEW q \in Request, tx'[q] = tx[q],
         LockedBy(tx[q]) \subseteq Parcel,
         \A p \in LockedBy(tx[q]) : parcels'[p] = parcels[p]
  PROVE  Knows(tx[q])'
<1> DEFINE t == tx[q]
<1>. SUFFICES ASSUME t.phase # "idle", t.cmd.op \in Scans \cup {"missing"}
              PROVE  \E m \in Manifest, p \in Parcel : Handles(tx[q], m, p)'
  BY DEF Knows, FrozenInv
<1>1. PICK m \in Manifest, p \in Parcel : Handles(tx[q], m, p)
  BY DEF Knows, FrozenInv
<1>2. t.cmd.op = "missing" => items'[m][p] # "PENDING_LOAD"
  BY <1>1 DEF Handles, TablesAdvance
<1>3. t.phase \in {"scanned", "ready"} /\ t.cmd.op \in Scans =>
        parcels'[p] = ParcelBefore(t.cmd.op)
  BY <1>1 DEF Handles, LockedBy
<1>4. t.phase = "ready" /\ t.cmd.op \in Scans => Counted(tx[q], m, p)'
  <2>. SUFFICES ASSUME Counted(t, m, p) PROVE Counted(tx[q], m, p)'
    BY <1>1 DEF Handles
  <2>1. t.plan = "IN_TRANSIT" => \A x \in Parcel \ {p} : items'[m][x] # "PENDING_LOAD"
    BY DEF Counted, TablesAdvance
  <2>2. t.plan = "COMPLETED" => \A x \in Parcel \ {p} : items'[m][x] # "LOADED"
    <3>. SUFFICES ASSUME t.plan = "COMPLETED", NEW x \in Parcel \ {p}
                  PROVE  items'[m][x] # "LOADED"
      OBVIOUS
    <3>1. items[m][x] # "LOADED" /\ manifests[m].status \in Gone
      BY <1>1 DEF Counted, Handles
    <3>2. items[m][x] # "PENDING_LOAD"
      BY <3>1 DEF FrozenInv, InTransitMeansLoaded, Gone
    <3>. QED  BY <3>1, <3>2 DEF TablesAdvance
  <2>. QED  BY <2>1, <2>2 DEF Counted
<1>5. /\ items'[m][p] # "NONE"
      /\ t.cmd.op = "load" => manifests'[m].status \in UnderLoad
      /\ t.cmd.op = "unload" => manifests'[m].status \in Gone /\ t.saw # "ASSIGNED"
  BY <1>1 DEF Handles, TablesAdvance
<1>6. Handles(tx[q], m, p)'
  BY <1>1, <1>2, <1>3, <1>4, <1>5 DEF Handles
<1>. QED  BY <1>6

LEMMA LockedAreParcels ==
  ASSUME TypeOK, NEW r \in Request
  PROVE  LockedBy(tx[r]) \subseteq Parcel
BY TxFields DEF LockedBy

\* A request goes on, or ends, and the rows are as they were.
LEMMA LearnsMore ==
  ASSUME FrozenInv, TypeOK, NEW r \in Request, NEW n, tx' = [tx EXCEPT ![r] = n],
         UNCHANGED <<manifests, items, parcels>>, Knows(n),
         \A q \in Others(r) : LockedBy(n) \cap LockedBy(tx[q]) = {}
  PROVE  FrozenInv' /\ Advances
<1>1. \A q \in Request : tx'[q] = IF q = r THEN n ELSE tx[q]
  BY DEF TypeOK
<1>2. \A q \in Request : Knows(tx[q])'
  <2>. SUFFICES ASSUME NEW q \in Request PROVE Knows(tx[q])'
    OBVIOUS
  <2>1. PICK t : tx'[q] = t /\ Knows(t)
    BY <1>1 DEF FrozenInv
  <2>. QED  BY <2>1 DEF Knows, Handles, Counted
<1>3. ScansApart'
  <2>1. \A q \in Request : LockedParcels(q)' = LockedBy(tx[q])'
    BY DEF LockedParcels, Scanning, LockedBy
  <2>2. ASSUME NEW q \in Request, NEW s \in Request, q # s
        PROVE  LockedBy(tx'[q]) \cap LockedBy(tx'[s]) = {}
    <3>1. CASE q # r /\ s # r
      BY <1>1, <3>1, <2>2, LockedIsBy DEF FrozenInv, ScansApart
    <3>2. CASE q = r \/ s = r
      BY <1>1, <3>2, <2>2 DEF Others
    <3>. QED  BY <3>1, <3>2
  <2>. QED  BY <2>1, <2>2 DEF ScansApart
<1>4. OneList' /\ Agree' /\ InTransitMeansLoaded'
  BY DEF FrozenInv, OneList, Agree, InTransitMeansLoaded
<1>5. Advances
  BY DEF Advances
<1>. QED  BY <1>2, <1>3, <1>4, <1>5 DEF FrozenInv

LEMMA EndsQuietly ==
  ASSUME FrozenInv, TypeOK, NEW r \in Request, tx' = [tx EXCEPT ![r] = Idle],
         UNCHANGED <<manifests, items, parcels>>
  PROVE  FrozenInv' /\ Advances
BY LearnsMore, IdleKnows

\* A request ends and writes rows.
LEMMA Writes ==
  ASSUME FrozenInv, TypeOK, NEW r \in Request, tx' = [tx EXCEPT ![r] = Idle],
         TablesAdvance, OneList', Agree', InTransitMeansLoaded',
         \A p \in Parcel : p \notin LockedBy(tx[r]) => parcels'[p] = parcels[p]
  PROVE  FrozenInv'
<1>1. \A q \in Request : tx'[q] = IF q = r THEN Idle ELSE tx[q]
  BY DEF TypeOK
<1>2. \A q \in Request : Knows(tx[q])'
  <2>. SUFFICES ASSUME NEW q \in Request PROVE Knows(tx[q])'
    OBVIOUS
  <2>1. CASE q = r
    BY <1>1, <2>1 DEF Knows, Idle
  <2>2. CASE q # r
    <3>1. LockedBy(tx[q]) \cap LockedBy(tx[r]) = {}
      BY <2>2, LockedIsBy DEF FrozenInv, ScansApart
    <3>2. \A p \in LockedBy(tx[q]) : parcels'[p] = parcels[p]
      BY <3>1, LockedAreParcels
    <3>. QED  BY <1>1, <2>2, <3>2, LockedAreParcels, KnowsStays
  <2>. QED  BY <2>1, <2>2
<1>3. ScansApart'
  <2>1. \A q \in Request : LockedParcels(q)' = LockedBy(tx[q])'
    BY DEF LockedParcels, Scanning, LockedBy
  <2>. QED  BY <1>1, <2>1, IdleKnows, LockedIsBy DEF FrozenInv, ScansApart
<1>. QED  BY <1>2, <1>3 DEF FrozenInv

\* A command begins with what it read.
LEMMA BeginsKnowing ==
  ASSUME FrozenInv, TypeOK, NEW r \in Request, NEW op, NEW t, NEW ms, NEW ps, NEW d,
         Begin(r, op, t, ms, ps, d),
         op \in Scans \cup {"missing"} => \E m \in Manifest, p \in Parcel :
           /\ ms = {m} /\ ps = {p}
           /\ items[m][p] # "NONE"
           /\ op = "missing" => items[m][p] # "PENDING_LOAD"
           /\ op = "load" => manifests[m].status \in UnderLoad
           /\ op = "unload" => manifests[m].status = "IN_TRANSIT"
  PROVE  FrozenInv' /\ Advances
<1> DEFINE cmd == [op |-> op, trip |-> t, manifests |-> ms, parcels |-> ps, driver |-> d]
           saw == IF op \in Scans THEN manifests[CHOOSE m \in ms : TRUE].status ELSE "NONE"
           n == [Idle EXCEPT !.phase = "read", !.cmd = cmd, !.saw = saw]
<1>1. tx' = [tx EXCEPT ![r] = n] /\ UNCHANGED <<manifests, items, parcels>> /\ op \in Op
  BY DEF Begin, tables
<1>2. n.phase = "read" /\ n.cmd = cmd /\ n.saw = saw
  BY DEF Idle
<1>3. cmd.op = op /\ cmd.manifests = ms /\ cmd.parcels = ps
  OBVIOUS
<1>4. op = "unload" => saw = "IN_TRANSIT"
  <2>. SUFFICES ASSUME op = "unload" PROVE saw = "IN_TRANSIT"
    OBVIOUS
  <2>1. PICK m \in Manifest : ms = {m} /\ manifests[m].status = "IN_TRANSIT"
    BY DEF Scans
  <2>2. (CHOOSE x \in ms : TRUE) = m
    BY <2>1
  <2>. QED  BY <2>1, <2>2 DEF Scans
<1>. HIDE DEF n, cmd, saw
<1>5. Knows(n)
  BY <1>1, <1>2, <1>3, <1>4 DEF Knows, Handles, Gone, Scans
<1>6. LockedBy(n) = {}
  BY <1>2 DEF LockedBy
<1>. QED  BY <1>1, <1>5, <1>6, LearnsMore

LEMMA ManifestCommandLearns ==
  ASSUME FrozenInv, DispatchInv, NEW r \in Request, NEW m \in Manifest,
         ManifestCommand(r, m)
  PROVE  FrozenInv' /\ Advances
<1>. TypeOK
  BY DEF DispatchInv
<1>1. ASSUME NEW ps \in SUBSET Parcel, AddItems(r, m, ps)
      PROVE  FrozenInv' /\ Advances
  BY <1>1, BeginsKnowing DEF AddItems, Scans
<1>2. ASSUME NEW p \in Parcel, RemoveItem(r, m, p)
      PROVE  FrozenInv' /\ Advances
  BY <1>2, BeginsKnowing DEF RemoveItem, Scans
<1>3. ASSUME NEW p \in Parcel, ReportMissing(r, m, p)
      PROVE  FrozenInv' /\ Advances
  <2>1. items[m][p] = "LOADED"
    BY <1>3 DEF ReportMissing, FrozenInv, InTransitMeansLoaded
  <2>. QED  BY <1>3, <2>1, BeginsKnowing DEF ReportMissing, Scans
<1>4. ASSUME NEW p \in Parcel, NEW op \in Scans, Scan(r, op, m, p)
      PROVE  FrozenInv' /\ Advances
  <2>1. /\ items[m][p] # "NONE"
        /\ op = "load" => manifests[m].status \in UnderLoad
        /\ op = "unload" => manifests[m].status = "IN_TRANSIT"
    BY <1>4 DEF Scan, ItemAccepts, Scans, UnderLoad
  <2>2. Begin(r, op, NoTrip, {m}, {p}, NoCommand.driver)
    BY <1>4 DEF Scan
  <2>. QED  BY <2>1, <2>2, BeginsKnowing DEF Scans
<1>5. CASE FinalizeManifest(r, m)
  BY <1>5, BeginsKnowing DEF FinalizeManifest, Scans
<1>6. CASE ReopenManifest(r, m)
  BY <1>6, BeginsKnowing DEF ReopenManifest, Scans
<1>. QED  BY <1>1, <1>2, <1>3, <1>4, <1>5, <1>6 DEF ManifestCommand

LEMMA TripCommandLearns ==
  ASSUME FrozenInv, DispatchInv, NEW r \in Request, NEW t \in Trip, TripCommand(r, t)
  PROVE  FrozenInv' /\ Advances
<1>1. PICK op \in TripOps, ms \in SUBSET Manifest, d \in Driver : Begin(r, op, t, ms, {}, d)
  BY DriverOfNoCommand DEF TripCommand, UpdateTrip, CreateTrip, AssignManifestsToTrip,
     StartTrip, CompleteTrip, CancelTrip, TripOps
<1>. QED  BY <1>1, BeginsKnowing DEF TripOps, Scans, DispatchInv

\* The parcel a scan writes is free, and in the status its rule asks for.
LEMMA WriteScanLearns ==
  ASSUME FrozenInv, TypeOK, NEW r \in Request, WriteScan(r)
  PROVE  FrozenInv' /\ Advances
<1> DEFINE t == tx[r]
           n == [t EXCEPT !.phase = "scanned"]
<1>1. /\ t.phase = "read" /\ t.cmd.op \in Scans
      /\ \A p \in t.cmd.parcels : /\ parcels[p] = ParcelBefore(t.cmd.op)
                                  /\ \A q \in Others(r) : p \notin LockedParcels(q)
      /\ tx' = [tx EXCEPT ![r] = n]
      /\ UNCHANGED <<manifests, items, parcels>>
  BY DEF WriteScan, TypeOK
<1>2. n.phase = "scanned" /\ n.cmd = t.cmd /\ n.saw = t.saw
  BY DEF TypeOK, Transaction
<1>3. Knows(t)
  BY DEF FrozenInv
<1>. HIDE DEF n, t
<1>4. Knows(n)
  <2>1. PICK m \in Manifest, p \in Parcel : Handles(t, m, p)
    BY <1>1, <1>3 DEF Knows
  <2>2. Handles(n, m, p)
    BY <1>1, <1>2, <2>1 DEF Handles
  <2>. QED  BY <1>1, <1>2, <1>3, <2>2 DEF Knows
<1>5. \A q \in Others(r) : LockedBy(n) \cap LockedBy(tx[q]) = {}
  BY <1>1, <1>2, LockedIsBy DEF LockedBy, Others
<1>. QED  BY <1>1, <1>4, <1>5, LearnsMore

LEMMA CountLearns ==
  ASSUME FrozenInv, TypeOK, NEW r \in Request, Count(r)
  PROVE  FrozenInv' /\ Advances
<1>. PICK m \in tx[r].cmd.manifests :
        tx' = [tx EXCEPT ![r].phase = "ready", ![r].plan = CountSaw(r, m)]
  BY DEF Count
<1> DEFINE t == tx[r]
           n == [t EXCEPT !.phase = "ready", !.plan = CountSaw(r, m)]
<1>1. /\ t.phase = "scanned"
      /\ tx' = [tx EXCEPT ![r] = n]
      /\ UNCHANGED <<manifests, items, parcels>>
  BY DEF Count, TypeOK
<1>2. n.phase = "ready" /\ n.cmd = t.cmd /\ n.saw = t.saw /\ n.plan = CountSaw(r, m)
  BY DEF TypeOK, Transaction
<1>3. Knows(t)
  BY DEF FrozenInv
<1>4. t.cmd.op \in Scans =>
        \A p \in Parcel : Handles(t, m, p) => Counted(n, m, p)
  <2>. SUFFICES ASSUME t.cmd.op \in Scans, NEW p \in Parcel, Handles(t, m, p)
                PROVE  Counted(n, m, p)
    OBVIOUS
  <2>1. t.cmd.parcels = {p} /\ (t.cmd.op = "unload" => t.saw # "ASSIGNED")
    BY DEF Handles
  <2> DEFINE left == {x \in Parcel \ t.cmd.parcels :
                        items[m][x] = IF t.cmd.op = "load" THEN "PENDING_LOAD" ELSE "LOADED"}
  <2>2. n.plan = IF left # {} THEN (IF t.saw = "ASSIGNED" THEN "LOADING" ELSE "NONE")
                 ELSE IF t.cmd.op = "load" THEN "IN_TRANSIT" ELSE "COMPLETED"
    BY <1>2 DEF CountSaw
  <2>3. left = {} => \A x \in Parcel \ {p} :
          items[m][x] # IF t.cmd.op = "load" THEN "PENDING_LOAD" ELSE "LOADED"
    BY <2>1
  <2>. HIDE DEF left
  <2>. QED  BY <1>2, <2>1, <2>2, <2>3 DEF Counted, Scans
<1>. HIDE DEF n, t
<1>5. Knows(n)
  <2>. SUFFICES ASSUME t.cmd.op \in Scans \cup {"missing"}
                PROVE  \E k \in Manifest, p \in Parcel : Handles(n, k, p)
    BY <1>1, <1>2, <1>3 DEF Knows
  <2>1. PICK k \in Manifest, p \in Parcel : Handles(t, k, p)
    BY <1>1, <1>3 DEF Knows
  <2>2. k = m
    BY <2>1 DEF Handles, t
  <2>3. Handles(n, k, p)
    BY <1>1, <1>2, <1>4, <2>1, <2>2 DEF Handles
  <2>. QED  BY <2>3
<1>6. LockedBy(n) = LockedBy(t)
  BY <1>1, <1>2 DEF LockedBy
<1>7. \A q \in Others(r) : LockedBy(n) \cap LockedBy(tx[q]) = {}
  BY <1>6, LockedIsBy DEF Others, FrozenInv, ScansApart, t
<1>. QED  BY <1>1, <1>5, <1>7, LearnsMore

LEMMA ItemsOf ==
  ASSUME TypeOK, NEW r \in Request, NEW status, SetItems(r, status),
         NEW m, NEW p, tx[r].cmd.manifests = {m}, tx[r].cmd.parcels = {p}
  PROVE  \A n \in Manifest, x \in Parcel :
           items'[n][x] = IF n = m /\ x = p THEN status ELSE items[n][x]
BY DEF SetItems

\* A scan ends: its parcel moves with its item, and the manifest goes on when
\* nothing else is left on it to load, or to unload.
LEMMA CommitScanMoves ==
  ASSUME FrozenInv, TypeOK, NEW r \in Request, NEW op \in Scans, CommitScan(r, op)
  PROVE  FrozenInv' /\ Advances
<1>1. /\ tx[r].cmd.op = op /\ tx[r].phase = "ready"
      /\ tx' = [tx EXCEPT ![r] = Idle]
      /\ SetItems(r, ItemAfter(op)) /\ SetParcels(r)
  BY DEF CommitScan, Commit
<1>2. PICK m \in Manifest, p \in Parcel : Handles(tx[r], m, p)
  BY <1>1 DEF FrozenInv, Knows
<1>3. /\ tx[r].cmd.manifests = {m} /\ tx[r].cmd.parcels = {p}
      /\ parcels[p] = ParcelBefore(op) /\ items[m][p] # "NONE"
      /\ Counted(tx[r], m, p)
      /\ op = "load" => manifests[m].status \in UnderLoad
      /\ op = "unload" => manifests[m].status \in Gone
  BY <1>1, <1>2 DEF Handles
<1>4. \A n \in Manifest, x \in Parcel :
        items'[n][x] = IF n = m /\ x = p THEN ItemAfter(op) ELSE items[n][x]
  BY <1>1, <1>3, ItemsOf
<1>5. \A x \in Parcel : parcels'[x] = IF x = p THEN ParcelAfter(op) ELSE parcels[x]
  BY <1>1, <1>3 DEF SetParcels
<1>6. \A n \in Manifest : manifests'[n].status =
        IF n = m /\ tx[r].plan # "NONE" THEN tx[r].plan ELSE manifests[n].status
  <2>1. CASE tx[r].plan = "NONE"
    BY <2>1 DEF CommitScan
  <2>2. CASE tx[r].plan # "NONE"
    <3>1. manifests' = [n \in Manifest |-> IF n \in tx[r].cmd.manifests
                          THEN [manifests[n] EXCEPT !.status = tx[r].plan] ELSE manifests[n]]
      BY <2>2 DEF CommitScan, SetManifest
    <3>. QED  BY <1>3, <2>2, <3>1 DEF TypeOK
  <2>. QED  BY <2>1, <2>2
\* Where parcel and manifest are when the scan ends.
<1>7. op = "load" => items[m][p] = "PENDING_LOAD" /\ manifests[m].status \in {"ASSIGNED", "LOADING"}
  BY <1>3 DEF ParcelBefore, FrozenInv, Agree, InTransitMeansLoaded, UnderLoad
<1>8. op = "unload" => items[m][p] \in {"LOADED", "MISSING"}
  BY <1>3 DEF ParcelBefore, FrozenInv, Agree
<1>9. op = "load" => tx[r].plan \in {"NONE", "LOADING", "IN_TRANSIT"}
  BY <1>1, <1>3 DEF Counted
<1>10. op = "unload" => tx[r].plan \in {"NONE", "COMPLETED"}
  BY <1>1, <1>3 DEF Counted
<1>11. \A n \in Manifest : n # m => items[n][p] = "NONE"
  BY <1>3 DEF FrozenInv, OneList
<1>12. OneList'
  BY <1>3, <1>4 DEF FrozenInv, OneList, ItemAfter
<1>13. Agree'
  <2>. SUFFICES ASSUME NEW x \in Parcel
                PROVE  /\ \A n \in Manifest :
                            /\ items'[n][x] = "PENDING_LOAD" => parcels'[x] = "READY_FOR_DISPATCH"
                            /\ items'[n][x] = "LOADED" => parcels'[x] = "IN_TRANSIT"
                            /\ items'[n][x] # "NONE" /\ parcels'[x] = "READY_FOR_DISPATCH"
                                 => items'[n][x] = "PENDING_LOAD"
                            /\ items'[n][x] # "NONE" /\ parcels'[x] = "IN_TRANSIT"
                                 => items'[n][x] \in {"LOADED", "MISSING"}
                       /\ parcels'[x] # "PROCESSING" => \E n \in Manifest : items'[n][x] # "NONE"
    BY DEF Agree
  <2>1. CASE x = p
    <3>1. /\ items'[m][x] = ItemAfter(op) /\ parcels'[x] = ParcelAfter(op)
          /\ \A n \in Manifest : n # m => items'[n][x] = "NONE"
      BY <1>4, <1>5, <1>11, <2>1
    <3>. QED  BY <3>1 DEF ItemAfter, ParcelAfter, Scans
  <2>2. CASE x # p
    <3>1. parcels'[x] = parcels[x] /\ \A n \in Manifest : items'[n][x] = items[n][x]
      BY <1>4, <1>5, <2>2
    <3>. QED  BY <3>1 DEF FrozenInv, Agree
  <2>. QED  BY <2>1, <2>2
<1>14. InTransitMeansLoaded'
  <2>. SUFFICES ASSUME NEW n \in Manifest, NEW x \in Parcel
                PROVE  /\ manifests'[n].status \in {"IN_TRANSIT", "COMPLETED"}
                            => items'[n][x] # "PENDING_LOAD"
                       /\ manifests'[n].status = "COMPLETED" => items'[n][x] # "LOADED"
    BY DEF InTransitMeansLoaded
  <2>1. CASE n # m
    BY <1>4, <1>6, <2>1 DEF FrozenInv, InTransitMeansLoaded
  <2>2. CASE n = m /\ x = p
    BY <1>4, <1>6, <1>7, <1>9, <2>2 DEF ItemAfter, Scans
  <2>3. CASE n = m /\ x # p
    <3>1. items'[n][x] = items[m][x]
      BY <1>4, <2>3
    <3>2. CASE op = "load"
      BY <1>1, <1>3, <1>6, <1>7, <1>9, <2>3, <3>1, <3>2 DEF Counted
    <3>3. CASE op = "unload"
      BY <1>1, <1>3, <1>6, <1>10, <2>3, <3>1, <3>3
         DEF Counted, FrozenInv, InTransitMeansLoaded, Gone
    <3>. QED  BY <3>2, <3>3 DEF Scans
  <2>. QED  BY <2>1, <2>2, <2>3
<1>15. TablesAdvance
  BY <1>3, <1>4, <1>6, <1>7, <1>8, <1>9, <1>10
     DEF TablesAdvance, ItemAfter, Scans, UnderLoad, Gone
<1>16. Advances
  <2>1. op = "load" => Advances
    BY <1>6, <1>7, <1>9 DEF Advances, ManifestNext
  <2>2. op = "unload" => Advances
    BY <1>3, <1>6, <1>10 DEF Advances, ManifestNext, Gone
  <2>. QED  BY <2>1, <2>2 DEF Scans
<1>17. \A x \in Parcel : x \notin LockedBy(tx[r]) => parcels'[x] = parcels[x]
  BY <1>1, <1>3, <1>5 DEF LockedBy
<1>. QED  BY <1>1, <1>12, <1>13, <1>14, <1>15, <1>16, <1>17, Writes

\* A missing report overwrites whatever the item has become, which is not
\* PENDING_LOAD.
LEMMA CommitMissingMoves ==
  ASSUME FrozenInv, TypeOK, NEW r \in Request, CommitMissing(r)
  PROVE  FrozenInv' /\ Advances
<1>1. /\ tx[r].cmd.op = "missing" /\ tx[r].phase = "read"
      /\ tx' = [tx EXCEPT ![r] = Idle]
      /\ SetItems(r, "MISSING")
      /\ UNCHANGED <<manifests, parcels>>
  BY DEF CommitMissing, Commit
<1>2. PICK m \in Manifest, p \in Parcel : Handles(tx[r], m, p)
  BY <1>1 DEF FrozenInv, Knows
<1>3. /\ tx[r].cmd.manifests = {m} /\ tx[r].cmd.parcels = {p}
      /\ items[m][p] # "NONE" /\ items[m][p] # "PENDING_LOAD"
  BY <1>1, <1>2 DEF Handles
<1>4. \A n \in Manifest, x \in Parcel :
        items'[n][x] = IF n = m /\ x = p THEN "MISSING" ELSE items[n][x]
  BY <1>1, <1>3, ItemsOf
<1>5. OneList'
  BY <1>3, <1>4 DEF FrozenInv, OneList
<1>6. Agree'
  BY <1>1, <1>3, <1>4 DEF FrozenInv, Agree
<1>7. InTransitMeansLoaded'
  BY <1>1, <1>4 DEF FrozenInv, InTransitMeansLoaded
<1>8. TablesAdvance
  BY <1>1, <1>3, <1>4 DEF TablesAdvance
<1>9. Advances
  BY <1>1 DEF Advances
<1>. QED  BY <1>1, <1>5, <1>6, <1>7, <1>8, <1>9, Writes

\* linkToTrip takes manifests that nobody has begun to load.
LEMMA CommitLinksMoves ==
  ASSUME FrozenInv, TypeOK, NEW r \in Request, NEW op, CommitLinks(r, op)
  PROVE  FrozenInv' /\ Advances
<1>1. /\ tx' = [tx EXCEPT ![r] = Idle]
      /\ UNCHANGED <<items, parcels>>
  BY DEF CommitLinks, Commit
<1>2. \A m \in Manifest :
        \/ manifests'[m].status = manifests[m].status
        \/ manifests[m].status = "READY_FOR_DISPATCH" /\ manifests'[m].status = "ASSIGNED"
  BY DEF CommitLinks, Links, Claimed
<1>3. OneList' /\ Agree'
  BY <1>1 DEF FrozenInv, OneList, Agree
<1>4. InTransitMeansLoaded'
  BY <1>1, <1>2 DEF FrozenInv, InTransitMeansLoaded
<1>5. TablesAdvance
  BY <1>1, <1>2 DEF TablesAdvance, UnderLoad, Gone
<1>6. Advances
  BY <1>2 DEF Advances, ManifestNext
<1>. QED  BY <1>1, <1>3, <1>4, <1>5, <1>6, Writes

LEMMA EndsMove ==
  ASSUME Frozen, FrozenInv, TypeOK, NEW r \in Request,
         EndOfManifestCommand(r) \/ EndOfTripCommand(r)
  PROVE  FrozenInv' /\ Advances
<1>1. tx[r].phase # "idle" => tx[r].cmd.op \in Op
  BY DEF FrozenInv, Knows
<1>2. CASE CommitAdd(r) \/ CommitRemoval(r) \/ CommitFinalize(r) \/ CommitReopen(r)
  BY <1>1, <1>2 DEF CommitAdd, CommitRemoval, CommitFinalize, CommitReopen, Commit, Frozen
<1>3. CASE CommitMissing(r)
  BY <1>3, CommitMissingMoves
<1>4. ASSUME NEW op \in Scans, CommitScan(r, op) PROVE FrozenInv' /\ Advances
  BY <1>4, CommitScanMoves
<1>5. ASSUME NEW op \in {"createTrip", "assign"}, CommitLinks(r, op)
      PROVE  FrozenInv' /\ Advances
  BY <1>5, CommitLinksMoves
<1>6. CASE \/ CommitUpdate(r)
           \/ CommitTripStatus(r, "start", "IN_PROGRESS")
           \/ CommitTripStatus(r, "complete", "COMPLETED")
           \/ CommitTripStatus(r, "cancel", "CANCELLED")
  BY <1>6, EndsQuietly DEF CommitUpdate, CommitTripStatus, Commit
<1>. QED  BY <1>2, <1>3, <1>4, <1>5, <1>6 DEF EndOfManifestCommand, EndOfTripCommand

LEMMA FrozenKeeps ==
  ASSUME Frozen, DispatchInv, FrozenInv, [Next]_vars
  PROVE  FrozenInv' /\ Advances
<1>. TypeOK
  BY DEF DispatchInv
<1>1. ASSUME NEW m \in Manifest, CreateManifest(m) PROVE FrozenInv' /\ Advances
  BY <1>1 DEF CreateManifest, Frozen
<1>2. ASSUME NEW p \in Parcel, ReceiveParcel(p) PROVE FrozenInv' /\ Advances
  BY <1>2 DEF ReceiveParcel, Frozen
<1>3. ASSUME NEW r \in Request, NEW m \in Manifest, ManifestCommand(r, m)
      PROVE  FrozenInv' /\ Advances
  BY <1>3, ManifestCommandLearns
<1>4. ASSUME NEW r \in Request, NEW t \in Trip, TripCommand(r, t)
      PROVE  FrozenInv' /\ Advances
  BY <1>4, TripCommandLearns
<1>5. ASSUME NEW r \in Request, ReadParcels(r) PROVE FrozenInv' /\ Advances
  BY <1>5 DEF ReadParcels, FrozenInv, Knows, Frozen
<1>6. ASSUME NEW r \in Request, WriteScan(r) \/ Count(r) PROVE FrozenInv' /\ Advances
  BY <1>6, WriteScanLearns, CountLearns
<1>7. ASSUME NEW r \in Request, EndOfManifestCommand(r) \/ EndOfTripCommand(r)
      PROVE  FrozenInv' /\ Advances
  BY <1>7, EndsMove
<1>8. ASSUME NEW r \in Request, RollBack(r) PROVE FrozenInv' /\ Advances
  BY <1>8, EndsQuietly DEF RollBack
<1>9. CASE UNCHANGED vars
  BY <1>9 DEF vars, FrozenInv, OneList, Agree, InTransitMeansLoaded, ScansApart, LockedParcels,
     Scanning, Knows, Handles, Counted, Advances
<1>. QED  BY <1>1, <1>2, <1>3, <1>4, <1>5, <1>6, <1>7, <1>8, <1>9 DEF Next

LEMMA AlwaysFrozen ==
  ASSUME Frozen
  PROVE  Spec => []FrozenInv
<1>1. DispatchInv /\ FrozenInv /\ [Next]_vars => FrozenInv'
  BY FrozenKeeps
<1>. QED  BY <1>1, FrozenStart, AlwaysInv, PTL DEF Spec

-----------------------------------------------------------------------------
(* Theorems *)

\* Tables and transactions keep their types, and a manifest no trip has claimed is
\* never ASSIGNED, LOADING, IN_TRANSIT or COMPLETED: reopenManifest may undo the
\* status of a claimed manifest, but no scan gets at one that was never claimed.
THEOREM TypeCorrect == Spec => []TypeOK
<1>1. DispatchInv => TypeOK
  BY DEF DispatchInv
<1>. QED  BY <1>1, AlwaysInv, PTL

\* startTrip counts the manifests before it writes, without a lock or a version: the
\* count is out of date by then, and the trip still carries a manifest.
THEOREM DeparturesAreLoaded == Spec => []NeverDepartsEmpty
<1>1. DispatchInv => NeverDepartsEmpty
  BY DEF DispatchInv
<1>. QED  BY <1>1, AlwaysInv, PTL

\* linkToTrip settles every race of two bookings, and no other command of Fleet
\* gives a manifest to another trip.
THEOREM ClaimsLast == Spec => ClaimedOnce
<1>1. DispatchInv /\ [Next]_vars
        => [\A m \in Manifest : manifests[m].trip # NoTrip
                                  => manifests'[m].trip = manifests[m].trip]_vars
  BY NextKeeps DEF ClaimsKept
<1>. QED  BY <1>1, AlwaysInv, PTL DEF Spec, ClaimedOnce

\* With frozen lists, a parcel is in transit exactly as long as an item carries it,
\* whatever scans, reports, roll-backs and trip commands interleave.
THEOREM ItemsAreTheParcels ==
  ASSUME Frozen
  PROVE  Spec => []LoadedMeansOnTheRoad
<1>1. FrozenInv => LoadedMeansOnTheRoad
  BY DEF FrozenInv, Agree, LoadedMeansOnTheRoad
<1>. QED  BY <1>1, AlwaysFrozen, PTL

\* With frozen lists, no manifest goes or ends too early, though each scan counts
\* rows that others are about to change.
THEOREM CountsAreRight ==
  ASSUME Frozen
  PROVE  Spec => []InTransitMeansLoaded
<1>1. FrozenInv => InTransitMeansLoaded
  BY DEF FrozenInv
<1>. QED  BY <1>1, AlwaysFrozen, PTL

\* With frozen lists, a manifest moves along its lifecycle only, though its status is
\* written by id, from what was read when the scan began.
THEOREM ManifestsAdvance ==
  ASSUME Frozen
  PROVE  Spec => ManifestStepAllowed
<1>1. DispatchInv /\ FrozenInv /\ [Next]_vars =>
        [\A m \in Manifest :
           \/ manifests'[m].status = manifests[m].status
           \/ manifests'[m].status \in ManifestNext(manifests[m].status)
           \/ /\ manifests[m].status = "ASSIGNED"
              /\ manifests'[m].status = "IN_TRANSIT"]_vars
  BY FrozenKeeps DEF Advances
<1>. QED  BY <1>1, AlwaysInv, AlwaysFrozen, PTL DEF Spec, ManifestStepAllowed
=============================================================================
