------------------------------- MODULE Dispatch -------------------------------
(***************************************************************************)
(* The Fleet module: manifests that employees assemble, trips that claim   *)
(* them, and the drivers' scans that load and unload their parcels.        *)
(*                                                                         *)
(* As in CustomerShipment a request reads committed rows (Kysely), applies *)
(* the rule of the aggregate it loaded, and writes through its Prisma      *)
(* transaction.  Here no write carries a version: except for linkToTrip,   *)
(* an update names the row's id alone, so it only waits for the row lock   *)
(* and then writes what the aggregate decided from what it had read.       *)
(*                                                                         *)
(*   idle --FinalizeManifest, StartTrip, ...--> read --Commit*--> idle     *)
(*   idle --AddItems--> read --ReadParcels--> ready --CommitAdd--> idle    *)
(*   idle --Scan--> read --WriteScan--> scanned --Count--> ready           *)
(*                                            --CommitScan--> idle         *)
(*                                                                         *)
(* Any step may instead be a RollBack.  Parcels belong to customer-shipment *)
(* and are written through its facade; here they are their status, as far  *)
(* as Fleet moves it.                                                      *)
(***************************************************************************)
EXTENDS Naturals, FiniteSets

CONSTANTS
  Trip,            \* trip ids
  NoTrip,          \* trip_id of an unclaimed manifest
  Manifest,        \* manifest ids
  Parcel,          \* parcel ids
  Driver,          \* drivers that have an operable vehicle
  Request,         \* concurrent requests
  Op,              \* the commands the requests may carry
  Assembled        \* parcels of the manifests finalized before the run begins

Commands == {"add", "remove", "finalize", "reopen", "createTrip", "update",
             "assign", "start", "complete", "cancel", "load", "unload", "missing"}

ASSUME TripAssumption == NoTrip \notin Trip
ASSUME DriverAssumption == Driver # {}
ASSUME CommandsAssumption == Op \subseteq Commands
ASSUME AssembledAssumption ==
  /\ Assembled \in [Manifest -> SUBSET Parcel]
  /\ \A m, n \in Manifest : m # n => Assembled[m] \cap Assembled[n] = {}

VARIABLES
  trips,           \* table trip: status, driver_id
  manifests,       \* table transport_manifest: status, trip_id
  items,           \* table manifest_item: its status, per manifest and parcel
  parcels,         \* table parcel: its status
  tx               \* the request's command and its open transaction

vars == <<trips, manifests, items, parcels, tx>>
tables == <<trips, manifests, items, parcels>>

-----------------------------------------------------------------------------
(* Tables, commands and transactions *)

TripStatus == {"NONE", "SCHEDULED", "IN_PROGRESS", "COMPLETED", "CANCELLED"}

ManifestStatus == {"NONE", "OPEN", "READY_FOR_DISPATCH", "ASSIGNED", "LOADING",
                   "IN_TRANSIT", "COMPLETED"}

ItemStatus == {"NONE", "PENDING_LOAD", "LOADED", "UNLOADED", "MISSING"}

ParcelStatus == {"PROCESSING", "READY_FOR_DISPATCH", "IN_TRANSIT", "ARRIVED_AT_UNIT"}

\* ALLOWED_TRANSITIONS of TransportManifest.
ManifestNext(status) ==
  CASE status = "OPEN"               -> {"READY_FOR_DISPATCH"}
    [] status = "READY_FOR_DISPATCH" -> {"ASSIGNED", "OPEN"}
    [] status = "ASSIGNED"           -> {"LOADING"}
    [] status = "LOADING"            -> {"IN_TRANSIT"}
    [] status = "IN_TRANSIT"         -> {"COMPLETED"}
    [] OTHER                         -> {}

\* A manifest that is not finished, and an item that still occupies its parcel,
\* as the query repository lists them: LOADING is not among the active states.
ActiveManifest == {"OPEN", "READY_FOR_DISPATCH", "ASSIGNED", "IN_TRANSIT"}
Occupying == {"PENDING_LOAD", "LOADED"}

Command == [op: Commands, trip: Trip \cup {NoTrip}, manifests: SUBSET Manifest,
            parcels: SUBSET Parcel, driver: Driver]

Transaction ==
  [phase: {"idle", "read", "scanned", "ready"},
   cmd: Command,
   saw: ManifestStatus,     \* status of the scanned manifest's aggregate
   plan: ManifestStatus]    \* manifest status the scan has to write, if any

NoCommand == [op |-> "add", trip |-> NoTrip, manifests |-> {}, parcels |-> {},
              driver |-> CHOOSE d \in Driver : TRUE]

Idle == [phase |-> "idle", cmd |-> NoCommand, saw |-> "NONE", plan |-> "NONE"]

OnList(m) == {p \in Parcel : items[m][p] # "NONE"}

Linked(t) == {m \in Manifest : manifests[m].trip = t}

Scans == {"load", "unload"}

ItemAfter(op) == IF op = "load" THEN "LOADED" ELSE "UNLOADED"

ParcelBefore(op) == CASE op = "add" -> "PROCESSING"
                      [] op = "load" -> "READY_FOR_DISPATCH"
                      [] op = "unload" -> "IN_TRANSIT"

ParcelAfterNoArrival(op) == IF op = "add" THEN "READY_FOR_DISPATCH" ELSE "IN_TRANSIT"

ParcelAfter(op) == CASE op = "add" -> "READY_FOR_DISPATCH"
                     [] op = "load" -> "IN_TRANSIT"
                     [] op = "unload" -> "ARRIVED_AT_UNIT"

Others(r) == Request \ {r}

Scanning(r) == tx[r].phase \in {"scanned", "ready"} /\ tx[r].cmd.op \in Scans

\* Rows a scan has written and holds until it ends: the parcel and its item, and
\* the manifest when it was the first scan.
LockedParcels(r) == IF Scanning(r) THEN tx[r].cmd.parcels ELSE {}

LockedManifests(r) ==
  IF Scanning(r) /\ tx[r].saw = "ASSIGNED" THEN tx[r].cmd.manifests ELSE {}

-----------------------------------------------------------------------------
(* The rules, applied to committed rows *)

\* findBookableByIdsAndTenant asks for the status, and not for the trip.
Bookable(m) == manifests[m].status = "READY_FOR_DISPATCH"

Taken(p, m) == \E n \in Manifest \ {m} : /\ manifests[n].status \in ActiveManifest
                                         /\ items[n][p] \in Occupying

\* assertItemStatusUpdatable, then markLoaded or markUnloaded of the item.
ItemAccepts(op, m, p) ==
  CASE op = "load"    -> /\ manifests[m].status \in {"ASSIGNED", "LOADING"}
                         /\ items[m][p] = "PENDING_LOAD"
    [] op = "unload"  -> /\ manifests[m].status = "IN_TRANSIT"
                         /\ items[m][p] = "LOADED"

DepartsAnyCount(t) == trips[t].status = "SCHEDULED"

\* start of Trip, with the number of manifests the service counted.
Departs(t) == trips[t].status = "SCHEDULED" /\ Linked(t) # {}

\* assertEditable and cancel of Trip.
NotDeparted(t) == trips[t].status = "SCHEDULED"

\* The id of a new trip is its own: no row and no open command has it.
FreshTrip(t) ==
  /\ trips[t].status = "NONE"
  /\ \A q \in Request : tx[q].cmd.op = "createTrip" => tx[q].cmd.trip # t

-----------------------------------------------------------------------------
(* Actions *)

Init ==
  /\ trips = [t \in Trip |-> [status |-> "NONE", driver |-> NoCommand.driver]]
  /\ manifests = [m \in Manifest |->
                    [status |-> IF Assembled[m] = {} THEN "NONE" ELSE "READY_FOR_DISPATCH",
                     trip |-> NoTrip]]
  /\ items = [m \in Manifest |-> [p \in Parcel |->
                IF p \in Assembled[m] THEN "PENDING_LOAD" ELSE "NONE"]]
  /\ parcels = [p \in Parcel |->
                  IF \E m \in Manifest : p \in Assembled[m]
                  THEN "READY_FOR_DISPATCH" ELSE "PROCESSING"]
  /\ tx = [r \in Request |-> Idle]

\* createManifest: an OPEN manifest, on no trip, with nothing on its list.  (It
\* is of no use without addItems.)
CreateManifest(m) ==
  /\ manifests[m].status = "NONE"
  /\ "add" \in Op
  /\ manifests' = [manifests EXCEPT ![m].status = "OPEN"]
  /\ UNCHANGED <<trips, items, parcels, tx>>

\* Outside Fleet: the unit receives a parcel that arrived and sorts it again.  It
\* matters where the parcel can be listed again.
ReceiveParcel(p) ==
  /\ "add" \in Op
  /\ parcels[p] = "ARRIVED_AT_UNIT"
  /\ \A r \in Request : p \notin LockedParcels(r)
  /\ parcels' = [parcels EXCEPT ![p] = "PROCESSING"]
  /\ UNCHANGED <<trips, manifests, items, tx>>

\* A command loads what it needs and asks the aggregates; a command they refuse is
\* never begun.
Begin(r, op, t, ms, ps, d) ==
  /\ op \in Op
  /\ tx[r].phase = "idle"
  /\ tx' = [tx EXCEPT ![r] =
              [Idle EXCEPT !.phase = "read",
                 !.cmd = [op |-> op, trip |-> t, manifests |-> ms, parcels |-> ps,
                          driver |-> d],
                 !.saw = IF op \in Scans
                         THEN manifests[CHOOSE m \in ms : TRUE].status ELSE "NONE"]]
  /\ UNCHANGED tables

AddItems(r, m, ps) ==
  /\ ps # {}
  /\ manifests[m].status = "OPEN"
  /\ \A p \in ps : p \notin OnList(m) /\ ~Taken(p, m)
  /\ Begin(r, "add", NoTrip, {m}, ps, NoCommand.driver)

RemoveItem(r, m, p) ==
  /\ manifests[m].status = "OPEN"
  /\ p \in OnList(m)
  /\ Begin(r, "remove", NoTrip, {m}, {p}, NoCommand.driver)

FinalizeManifest(r, m) ==
  /\ OnList(m) # {}
  /\ "READY_FOR_DISPATCH" \in ManifestNext(manifests[m].status)
  /\ Begin(r, "finalize", NoTrip, {m}, {}, NoCommand.driver)

ReopenManifest(r, m) ==
  /\ manifests[m].trip = NoTrip
  /\ "OPEN" \in ManifestNext(manifests[m].status)
  /\ Begin(r, "reopen", NoTrip, {m}, {}, NoCommand.driver)

\* updateItemStatus, to LOADED or UNLOADED.
Scan(r, op, m, p) ==
  /\ ItemAccepts(op, m, p)
  /\ Begin(r, op, NoTrip, {m}, {p}, NoCommand.driver)

\* updateItemStatus, to MISSING.
ReportMissing(r, m, p) ==
  /\ manifests[m].status = "IN_TRANSIT"
  /\ items[m][p] \in {"PENDING_LOAD", "LOADED"}
  /\ Begin(r, "missing", NoTrip, {m}, {p}, NoCommand.driver)

CreateTrip(r, t, d, ms) ==
  /\ FreshTrip(t)
  /\ \A m \in ms : Bookable(m)
  /\ Begin(r, "createTrip", t, ms, {}, d)

UpdateTrip(r, t, d) ==
  /\ NotDeparted(t)
  /\ Begin(r, "update", t, {}, {}, d)

AssignManifestsToTrip(r, t, ms) ==
  /\ NotDeparted(t)
  /\ ms # {}
  /\ \A m \in ms : Bookable(m)
  /\ Begin(r, "assign", t, ms, {}, NoCommand.driver)

StartTrip(r, t) ==
  /\ Departs(t)
  /\ Begin(r, "start", t, {}, {}, NoCommand.driver)

CompleteTrip(r, t) ==
  /\ trips[t].status = "IN_PROGRESS"
  /\ Begin(r, "complete", t, {}, {}, NoCommand.driver)

CancelTrip(r, t) ==
  /\ NotDeparted(t)
  /\ Begin(r, "cancel", t, {}, {}, NoCommand.driver)

\* addItems has inserted its items; the bulk dispatch of customer-shipment loads
\* the parcels and asks each of them.
ReadParcels(r) ==
  /\ tx[r].phase = "read"
  /\ tx[r].cmd.op = "add"
  /\ \A p \in tx[r].cmd.parcels : parcels[p] = ParcelBefore("add")
  /\ tx' = [tx EXCEPT ![r].phase = "ready"]
  /\ UNCHANGED <<trips, manifests, items, parcels>>

\* A scan writes the item, then the parcel -- whose own update is guarded, so its
\* status is still the one its rule needs -- and, if it found the manifest
\* ASSIGNED, sets it LOADING.
WriteScan(r) ==
  LET t == tx[r]
  IN
  /\ t.phase = "read"
  /\ t.cmd.op \in Scans
  /\ \A p \in t.cmd.parcels : /\ parcels[p] = ParcelBefore(t.cmd.op)
                              /\ \A q \in Others(r) : p \notin LockedParcels(q)
  /\ \A m \in t.cmd.manifests :
       /\ t.cmd.parcels \subseteq OnList(m)
       /\ t.saw = "ASSIGNED" => \A q \in Others(r) : m \notin LockedManifests(q)
  /\ tx' = [tx EXCEPT ![r].phase = "scanned"]
  /\ UNCHANGED <<trips, manifests, items, parcels>>

CountSawOneLess(r, m) ==
  LET t == tx[r]
      left == {p \in Parcel \ t.cmd.parcels :
                 items[m][p] = IF t.cmd.op = "load" THEN "PENDING_LOAD" ELSE "LOADED"}
  IN  IF Cardinality(left) > 1 THEN (IF t.saw = "ASSIGNED" THEN "LOADING" ELSE "NONE")
      ELSE IF t.cmd.op = "load" THEN "IN_TRANSIT" ELSE "COMPLETED"

CountSawAlwaysLoading(r, m) ==
  LET t == tx[r]
      left == {p \in Parcel \ t.cmd.parcels :
                 items[m][p] = IF t.cmd.op = "load" THEN "PENDING_LOAD" ELSE "LOADED"}
  IN  IF left # {} THEN "LOADING"
      ELSE IF t.cmd.op = "load" THEN "IN_TRANSIT" ELSE "COMPLETED"

\* countItemsByStatus, inside the transaction: committed rows and the
\* transaction's own, never what another one has not committed.
CountSaw(r, m) ==
  LET t == tx[r]
      left == {p \in Parcel \ t.cmd.parcels :
                 items[m][p] = IF t.cmd.op = "load" THEN "PENDING_LOAD" ELSE "LOADED"}
  IN  IF left # {} THEN (IF t.saw = "ASSIGNED" THEN "LOADING" ELSE "NONE")
      ELSE IF t.cmd.op = "load" THEN "IN_TRANSIT" ELSE "COMPLETED"

Count(r) ==
  /\ tx[r].phase = "scanned"
  /\ \E m \in tx[r].cmd.manifests :
       tx' = [tx EXCEPT ![r].phase = "ready", ![r].plan = CountSaw(r, m)]
  /\ UNCHANGED <<trips, manifests, items, parcels>>

\* Every update but one names the row alone ...
Overwrites(r, m) == \A q \in Others(r) : m \notin LockedManifests(q)

LinksAny(r, m) == Overwrites(r, m)

\* ... linkToTrip updates only manifests that are still bookable, and the command
\* fails unless it got them all.
Links(r, m) == /\ Overwrites(r, m)
               /\ manifests[m].status = "READY_FOR_DISPATCH"
               /\ manifests[m].trip = NoTrip

ClaimedWithoutTrip(row, t) == [row EXCEPT !.status = "ASSIGNED"]

Claimed(row, t) == [status |-> "ASSIGNED", trip |-> t]

\* COMMIT, with the last writes before it.
Commit(r, op, phase) ==
  /\ tx[r].cmd.op = op
  /\ tx[r].phase = phase
  /\ tx' = [tx EXCEPT ![r] = Idle]

\* The rows of items and parcels that a scan holds make the others wait.
FreeParcels(r) == \A q \in Others(r) : tx[r].cmd.parcels \cap LockedParcels(q) = {}

FreeItems(r) == \A q \in Others(r) : tx[q].cmd.manifests = tx[r].cmd.manifests
                                       => tx[r].cmd.parcels \cap LockedParcels(q) = {}

\* The items of a command get this status.
SetItems(r, status) ==
  items' = [m \in Manifest |-> [p \in Parcel |->
              IF m \in tx[r].cmd.manifests /\ p \in tx[r].cmd.parcels
              THEN status ELSE items[m][p]]]

SetParcels(r) ==
  parcels' = [p \in Parcel |-> IF p \in tx[r].cmd.parcels
                               THEN ParcelAfter(tx[r].cmd.op) ELSE parcels[p]]

SetManifest(r, status) ==
  /\ \A m \in tx[r].cmd.manifests : Overwrites(r, m)
  /\ manifests' = [m \in Manifest |-> IF m \in tx[r].cmd.manifests
                                      THEN [manifests[m] EXCEPT !.status = status]
                                      ELSE manifests[m]]

\* The list must not have the parcel already: (manifest, parcel) is unique.
CommitAdd(r) ==
  /\ Commit(r, "add", "ready")
  /\ FreeParcels(r)
  /\ \A m \in tx[r].cmd.manifests : tx[r].cmd.parcels \cap OnList(m) = {}
  /\ SetItems(r, "PENDING_LOAD")
  /\ SetParcels(r)
  /\ UNCHANGED <<trips, manifests>>

\* Deleting, or updating, a row that is gone fails.
CommitRemoval(r) ==
  /\ Commit(r, "remove", "read")
  /\ FreeItems(r)
  /\ \A m \in tx[r].cmd.manifests : tx[r].cmd.parcels \subseteq OnList(m)
  /\ SetItems(r, "NONE")
  /\ UNCHANGED <<trips, manifests, parcels>>

CommitMissing(r) ==
  /\ Commit(r, "missing", "read")
  /\ FreeItems(r)
  /\ \A m \in tx[r].cmd.manifests : tx[r].cmd.parcels \subseteq OnList(m)
  /\ SetItems(r, "MISSING")
  /\ UNCHANGED <<trips, manifests, parcels>>

CommitFinalize(r) ==
  /\ Commit(r, "finalize", "read")
  /\ SetManifest(r, "READY_FOR_DISPATCH")
  /\ UNCHANGED <<trips, items, parcels>>

CommitReopen(r) ==
  /\ Commit(r, "reopen", "read")
  /\ SetManifest(r, "OPEN")
  /\ UNCHANGED <<trips, items, parcels>>

CommitScan(r, op) ==
  /\ Commit(r, op, "ready")
  /\ SetItems(r, ItemAfter(op))
  /\ SetParcels(r)
  /\ IF tx[r].plan = "NONE" THEN UNCHANGED manifests ELSE SetManifest(r, tx[r].plan)
  /\ UNCHANGED trips

\* persistNewTrip and assignManifestsToTrip: all the manifests, or none and no trip.
CommitLinks(r, op) ==
  LET c == tx[r].cmd
  IN
  /\ Commit(r, op, "read")
  /\ \A m \in c.manifests : Links(r, m)
  /\ manifests' = [m \in Manifest |-> IF m \in c.manifests THEN Claimed(manifests[m], c.trip)
                                                           ELSE manifests[m]]
  /\ trips' = IF op = "assign" THEN trips
              ELSE [trips EXCEPT ![c.trip] = [status |-> "SCHEDULED", driver |-> c.driver]]
  /\ UNCHANGED <<items, parcels>>

\* persistTripUpdate; only the driver is kept here.
CommitUpdate(r) ==
  /\ Commit(r, "update", "read")
  /\ trips' = [trips EXCEPT ![tx[r].cmd.trip].driver = tx[r].cmd.driver]
  /\ UNCHANGED <<manifests, items, parcels>>

\* updateStatus of startTrip, completeTrip and cancelTrip.
CommitTripStatus(r, op, status) ==
  /\ Commit(r, op, "read")
  /\ trips' = [trips EXCEPT ![tx[r].cmd.trip].status = status]
  /\ UNCHANGED <<manifests, items, parcels>>

RollBack(r) ==
  /\ tx[r].phase # "idle"
  /\ tx' = [tx EXCEPT ![r] = Idle]
  /\ UNCHANGED <<trips, manifests, items, parcels>>

ManifestCommand(r, m) ==
  \/ \E ps \in SUBSET Parcel : AddItems(r, m, ps)
  \/ \E p \in Parcel : \/ RemoveItem(r, m, p)
                       \/ ReportMissing(r, m, p)
                       \/ \E op \in Scans : Scan(r, op, m, p)
  \/ FinalizeManifest(r, m)
  \/ ReopenManifest(r, m)

TripCommand(r, t) ==
  \/ \E d \in Driver : \/ UpdateTrip(r, t, d)
                       \/ \E ms \in SUBSET Manifest : CreateTrip(r, t, d, ms)
  \/ \E ms \in SUBSET Manifest : AssignManifestsToTrip(r, t, ms)
  \/ StartTrip(r, t)
  \/ CompleteTrip(r, t)
  \/ CancelTrip(r, t)

EndOfManifestCommand(r) ==
  \/ CommitAdd(r)
  \/ CommitRemoval(r)
  \/ CommitMissing(r)
  \/ CommitFinalize(r)
  \/ CommitReopen(r)
  \/ \E op \in Scans : CommitScan(r, op)

EndOfTripCommand(r) ==
  \/ \E op \in {"createTrip", "assign"} : CommitLinks(r, op)
  \/ CommitUpdate(r)
  \/ CommitTripStatus(r, "start", "IN_PROGRESS")
  \/ CommitTripStatus(r, "complete", "COMPLETED")
  \/ CommitTripStatus(r, "cancel", "CANCELLED")

Next ==
  \/ \E m \in Manifest : CreateManifest(m)
  \/ \E p \in Parcel : ReceiveParcel(p)
  \/ \E r \in Request : \/ \E m \in Manifest : ManifestCommand(r, m)
                        \/ \E t \in Trip : TripCommand(r, t)
                        \/ ReadParcels(r)
                        \/ WriteScan(r)
                        \/ Count(r)
                        \/ EndOfManifestCommand(r)
                        \/ EndOfTripCommand(r)
                        \/ RollBack(r)

Spec == Init /\ [][Next]_vars

-----------------------------------------------------------------------------
(* Correctness *)

\* Every table and open transaction keeps its type, and an unclaimed manifest has
\* not been ASSIGNED: the columns the repositories write together agree.
TypeOK ==
  /\ trips \in [Trip -> [status: TripStatus, driver: Driver]]
  /\ manifests \in [Manifest -> [status: ManifestStatus, trip: Trip \cup {NoTrip}]]
  /\ items \in [Manifest -> [Parcel -> ItemStatus]]
  /\ parcels \in [Parcel -> ParcelStatus]
  /\ tx \in [Request -> Transaction]
  /\ \A m \in Manifest : manifests[m].trip = NoTrip
                           => manifests[m].status \in {"NONE", "OPEN", "READY_FOR_DISPATCH"}

\* A parcel is in transit exactly as long as some manifest carries it as LOADED,
\* or as the MISSING item that was loaded before: two tables two modules write,
\* that the driver's screen and the customer's tracking each read one of.
LoadedMeansOnTheRoad ==
  \A p \in Parcel :
    /\ (\E m \in Manifest : items[m][p] = "LOADED") => parcels[p] = "IN_TRANSIT"
    /\ parcels[p] = "IN_TRANSIT"
         => \E m \in Manifest : items[m][p] \in {"LOADED", "MISSING"}

\* A manifest leaves LOADING only when nothing on it is left to load, and is
\* COMPLETED only when nothing on it is left to unload, although every scan
\* decides from a count of its own.
InTransitMeansLoaded ==
  \A m \in Manifest, p \in Parcel :
    /\ manifests[m].status \in {"IN_TRANSIT", "COMPLETED"}
         => items[m][p] # "PENDING_LOAD"
    /\ manifests[m].status = "COMPLETED" => items[m][p] # "LOADED"

\* A trip under way, or done, carries a manifest: start checks the count and
\* nothing unlinks a manifest afterwards.
NeverDepartsEmpty ==
  \A t \in Trip : trips[t].status \in {"IN_PROGRESS", "COMPLETED"} => Linked(t) # {}

\* A manifest keeps the trip that claimed it, however many dispatchers book it at
\* the same time.
ClaimedOnce ==
  [][\A m \in Manifest : manifests[m].trip # NoTrip
                            => manifests'[m].trip = manifests[m].trip]_vars

\* With lists that are frozen, scans move a manifest along its lifecycle only
\* (the first and the last scan may be one and the same).
ManifestStepAllowed ==
  [][\A m \in Manifest :
       \/ manifests'[m].status = manifests[m].status
       \/ manifests'[m].status \in ManifestNext(manifests[m].status)
       \/ /\ manifests[m].status = "ASSIGNED"
          /\ manifests'[m].status = "IN_TRANSIT"]_vars
=============================================================================
