------------------------------- MODULE Vehicles -------------------------------
(***************************************************************************)
(* The vehicle register of fleet: vehicles with their plates, and which    *)
(* driver holds which vehicle.  A command reads committed rows, checks     *)
(* them, and writes in a later statement; what it checked may have changed *)
(* by then, and only the unique indexes are checked with the write.        *)
(*                                                                         *)
(*   idle --RegisterVehicle | EditVehicle | AssignDriver | Release--> checked *)
(*   checked --Write*--> idle,   checked --Rejected--> idle                *)
(***************************************************************************)
EXTENDS Naturals

CONSTANTS
  Vehicle,         \* vehicle ids
  Plate,           \* plate numbers
  NoPlate,         \* plate of a vehicle that does not exist
  Holder,          \* employees a vehicle may be assigned to
  MaxAssignments,  \* bound: vehicle_assignment rows, their ids in order
  Clerk,           \* concurrent requests
  MaxReleases,     \* bound: releases written to one row
  VehicleStatus    \* of ACTIVE, MAINTENANCE, RETIRED, those that occur

ASSUME PlateAssumption == NoPlate \notin Plate
ASSUME VehicleBounds == MaxAssignments \in Nat \ {0} /\ MaxReleases \in Nat \ {0}
ASSUME NobodyAssumption == Vehicle # {} /\ Holder # {}
ASSUME StatusAssumption ==
  "ACTIVE" \in VehicleStatus /\ VehicleStatus \subseteq {"ACTIVE", "MAINTENANCE", "RETIRED"}

VARIABLES
  vehicles,        \* table vehicle: plate_number, status
  assignments,     \* table vehicle_assignment: vehicle, employee, is_active;
                   \* releases counts the writes of removed_at
  desk             \* a request that has checked and not written yet

vehicleVars == <<vehicles, assignments, desk>>

-----------------------------------------------------------------------------
(* Rows and requests *)

Assignment == 1 .. MaxAssignments

VehicleRow == [plate: Plate \cup {NoPlate}, status: VehicleStatus]

AssignmentRow == [made: BOOLEAN, vehicle: Vehicle, holder: Holder, active: BOOLEAN,
                  releases: 0 .. MaxReleases]

Desk == [op: {"idle", "create", "update", "assign", "release"}, vehicle: Vehicle,
         row: VehicleRow, holder: Holder, assignment: Assignment]

NoOrder == [op |-> "idle", vehicle |-> CHOOSE v \in Vehicle : TRUE,
            row |-> [plate |-> NoPlate, status |-> "ACTIVE"],
            holder |-> CHOOSE h \in Holder : TRUE, assignment |-> 1]

Exists(v) == vehicles[v].plate # NoPlate

\* isCurrentlyAssigned: active and without a removal date.
Current(a) == assignments[a].active /\ assignments[a].releases = 0

Active(a) == assignments[a].made /\ assignments[a].active

Holds(h, v) == \E a \in Assignment : Active(a) /\ assignments[a].holder = h
                                               /\ assignments[a].vehicle = v

Held(v) == \E h \in Holder : Holds(h, v)

Holding(h) == \E v \in Vehicle : Holds(h, v)

\* existsByPlateNumber, with the vehicle it leaves out.
PlateTaken(p, except) == \E v \in Vehicle \ except : vehicles[v].plate = p

Idle(c) == desk[c].op = "idle"

Leave(c) == desk' = [desk EXCEPT ![c] = NoOrder]

Check(c, order) == /\ Idle(c)
                   /\ desk' = [desk EXCEPT ![c] = order]
                   /\ UNCHANGED <<vehicles, assignments>>

VehiclesInit ==
  /\ vehicles \in [Vehicle -> [plate: {NoPlate}, status: {"ACTIVE"}]]
  /\ assignments \in [Assignment -> [made: {FALSE}, vehicle: {CHOOSE v \in Vehicle : TRUE},
                        holder: {CHOOSE h \in Holder : TRUE}, active: {FALSE}, releases: {0}]]
  /\ desk = [c \in Clerk |-> NoOrder]

-----------------------------------------------------------------------------
(* The checks *)

\* createVehicle: the plate is free.  The status may be given.
RegisterVehicle(c) == \E v \in Vehicle, p \in Plate, status \in VehicleStatus :
  /\ ~Exists(v)
  /\ ~PlateTaken(p, {})
  /\ Check(c, [desk[c] EXCEPT !.op = "create", !.vehicle = v,
                              !.row = [plate |-> p, status |-> status]])

\* updateVehicle: the plate is unchanged or free; either field may be kept.
EditVehicle(c) == \E v \in Vehicle, p \in Plate, status \in VehicleStatus :
  /\ Exists(v)
  /\ p # vehicles[v].plate => ~PlateTaken(p, {v})
  /\ Check(c, [desk[c] EXCEPT !.op = "update", !.vehicle = v,
                              !.row = [plate |-> p, status |-> status]])

\* assignDriver: neither the vehicle nor the driver has an active assignment.
AssignDriver(c) == \E v \in Vehicle, h \in Holder :
  /\ Exists(v)
  /\ ~Held(v)
  /\ ~Holding(h)
  /\ Check(c, [desk[c] EXCEPT !.op = "assign", !.vehicle = v, !.holder = h])

\* releaseAssignment: the row is active and was never released.
Release(c) == \E a \in Assignment :
  /\ assignments[a].made
  /\ Current(a)
  /\ Check(c, [desk[c] EXCEPT !.op = "release", !.assignment = a,
                              !.vehicle = assignments[a].vehicle])

-----------------------------------------------------------------------------
(* The writes *)

InsertsUnchecked(c) == TRUE

\* unique_active_vehicle_assignment, unique_active_employee_assignment.
IndexAdmits(c) == ~Held(desk[c].vehicle) /\ ~Holding(desk[c].holder)

WriteNew(c) ==
  /\ desk[c].op = "create"
  /\ ~Exists(desk[c].vehicle)
  /\ ~PlateTaken(desk[c].row.plate, {})
  /\ vehicles' = [vehicles EXCEPT ![desk[c].vehicle] = desk[c].row]
  /\ Leave(c)
  /\ UNCHANGED assignments

WriteEdit(c) ==
  /\ desk[c].op = "update"
  /\ ~PlateTaken(desk[c].row.plate, {desk[c].vehicle})
  /\ vehicles' = [vehicles EXCEPT ![desk[c].vehicle] = desk[c].row]
  /\ Leave(c)
  /\ UNCHANGED assignments

WriteAssignment(c) == \E a \in Assignment :
  /\ desk[c].op = "assign"
  /\ ~assignments[a].made /\ \A b \in 1 .. a - 1 : assignments[b].made
  /\ IndexAdmits(c)
  /\ assignments' = [assignments EXCEPT ![a] =
       [made |-> TRUE, vehicle |-> desk[c].vehicle, holder |-> desk[c].holder,
        active |-> TRUE, releases |-> 0]]
  /\ Leave(c)
  /\ UNCHANGED vehicles

\* The update names the row by id alone: a second release writes it again.
WriteRelease(c) ==
  /\ desk[c].op = "release"
  /\ assignments[desk[c].assignment].releases < MaxReleases
  /\ assignments' = [assignments EXCEPT ![desk[c].assignment].active = FALSE,
                                        ![desk[c].assignment].releases = @ + 1]
  /\ Leave(c)
  /\ UNCHANGED vehicles

\* A unique index refuses the write, or the request ends before it.
Rejected(c) == ~Idle(c) /\ Leave(c) /\ UNCHANGED <<vehicles, assignments>>

VehicleController(c) == RegisterVehicle(c) \/ EditVehicle(c) \/ AssignDriver(c) \/ Release(c)

VehiclesNext == \E c \in Clerk :
  \/ VehicleController(c)
  \/ WriteNew(c) \/ WriteEdit(c) \/ WriteAssignment(c) \/ WriteRelease(c)
  \/ Rejected(c)

VehiclesSpec == VehiclesInit /\ [][VehiclesNext]_vehicleVars

-----------------------------------------------------------------------------
(* Properties *)

VehiclesTypeOK ==
  /\ vehicles \in [Vehicle -> VehicleRow]
  /\ assignments \in [Assignment -> AssignmentRow]
  /\ desk \in [Clerk -> Desk]

\* A vehicle has one driver at a time and a driver one vehicle, whatever two
\* requests checked before the other wrote.
OneDriverOneVehicle ==
  \A a, b \in Assignment : a # b /\ Active(a) /\ Active(b) =>
    /\ assignments[a].vehicle # assignments[b].vehicle
    /\ assignments[a].holder # assignments[b].holder
=============================================================================
